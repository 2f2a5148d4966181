---------------------------- MODULE SessionCalls -----------------------------
(***************************************************************************)
(* The calls of a prepared session (session.go: Exec, Control, Probe):     *)
(* what each refuses, the scratch directory it works in, the private copy  *)
(* of the tree a fuzz target gets, the inputs it captures, and what is     *)
(* left on disk.  Calls share the session's lock, so they overlap; Close   *)
(* waits for them (module Workspace).                                      *)
(*                                                                         *)
(* Of the files only the fuzz inputs are kept, each named by who wrote it. *)
(* Time limits, memory bounds and outputs are modules Runner's and         *)
(* Schedule's.                                                             *)
(***************************************************************************)
EXTENDS Naturals, FiniteSets

CONSTANTS
  SessionCallers,    \* the calls, each made at most once
  SessionRequests,   \* what a call may ask for
  SessionMutants,    \* the mutants of the catalogue
  MaxArtifacts       \* bound: inputs a call captures (maximumArtifacts)

Seed == 0            \* an input the project has committed

\* An input is named by the call that wrote it; the committed one by no call.
ASSUME SeedAssumption == Seed \notin SessionCallers

VARIABLES
  build,        \* accepted: compiled in the main tree; survived: in the probe tree;
                \* hinted: a probe exists; keep: KeepTemp; probes: a probe tree was prepared
  sessionClosed,
  mainTree, probeTree,    \* the fuzz inputs in them
  scratches,    \* calls whose scratch directory exists
  keptScratch,  \* Session.keptScratch
  call          \* [call -> at, request, private copy, raw infections, artifacts, answer]

sessionCallVars == <<build, sessionClosed, mainTree, probeTree, scratches, keptScratch, call>>

NoCopy == {}
NotCalled == [at |-> "idle", request |-> "none", copy |-> NoCopy, raw |-> {}, artifacts |-> {}, answer |-> "none", infected |-> {}]

SessionBuilds ==
  [accepted : SUBSET SessionMutants, survived : SUBSET SessionMutants, hinted : SUBSET SessionMutants,
   keep : BOOLEAN, probes : BOOLEAN]

SessionCallsInit(builds) ==
  /\ build \in builds /\ sessionClosed = FALSE
  /\ mainTree = {Seed} /\ probeTree = {Seed} /\ scratches = {} /\ keptScratch = {}
  /\ call = [c \in SessionCallers |-> NotCalled]

Fuzzes(r) == "fuzz" \in r.args
Shared == <<build, sessionClosed, mainTree, probeTree>>

\* A call returns; its scratch goes unless it was kept.
Leave(c, answer) ==
  /\ call' = [call EXCEPT ![c].at = "returned", ![c].answer = answer]
  /\ scratches' = scratches \ ({c} \ keptScratch)

-----------------------------------------------------------------------------
(* Entering *)

\* makeCatalog: a mutant is probed when both trees have it.
ProbedMutants == build.survived \cap build.hinted \cap build.accepted

\* In the order of the code: closed, no probe tree, negative limits, the
\* mutant, the package, the environment.
Refusal(r) ==
  CASE sessionClosed -> "closed"
    [] r.kind = "probe" /\ ~build.probes -> "not prepared"
    [] r.limits = "negative" -> "negative"
    [] r.kind = "exec" /\ r.mutant \notin SessionMutants -> "not found"
    [] r.kind = "exec" /\ r.mutant \notin build.accepted -> "rejected"
    [] r.package = "absent" -> "package"
    [] r.environment = "invalid" -> "environment"
    [] OTHER -> "none"

Enters(c) ==
  /\ call[c].at = "idle"
  /\ \E r \in SessionRequests :
       /\ call' = [call EXCEPT ![c].request = r, ![c].at = IF Refusal(r) = "none" THEN "scratch" ELSE "returned",
                               ![c].answer = IF Refusal(r) = "none" THEN "none" ELSE Refusal(r)]
       /\ UNCHANGED <<Shared, scratches, keptScratch>>

\* os.MkdirTemp
MakeScratch(c) ==
  /\ call[c].at = "scratch"
  /\ \/ call' = [call EXCEPT ![c].at = "args"] /\ scratches' = scratches \cup {c}
     \/ Leave(c, "scratch")
  /\ UNCHANGED <<Shared, keptScratch>>

\* sessionTargetArgs, then the copy a fuzz target of Exec or Control gets.
Settle(c) ==
  /\ call[c].at = "args"
  /\ LET r == call[c].request
         next == IF Fuzzes(r) /\ r.kind # "probe" THEN "copy" ELSE "run"
     IN  IF "reserved" \in r.args THEN Leave(c, "reserved")
         ELSE call' = [call EXCEPT ![c].at = next] /\ UNCHANGED scratches
  /\ UNCHANGED <<Shared, keptScratch>>

\* MUTANT: a copy that fails leaves the scratch behind.
CopyTreeLeaving(c) ==
  /\ call[c].at = "copy"
  /\ \/ \E files \in SUBSET mainTree :
          Seed \in files /\ call' = [call EXCEPT ![c].copy = files, ![c].at = "run"] /\ UNCHANGED scratches
     \/ call' = [call EXCEPT ![c].at = "returned", ![c].answer = "workspace"] /\ UNCHANGED scratches
  /\ UNCHANGED <<Shared, keptScratch>>

\* prepareFuzzWorkspace walks the tree while other calls may write to it, so it
\* has any of what they wrote.
CopyTree(c) ==
  /\ call[c].at = "copy"
  /\ \/ \E files \in SUBSET mainTree :
          Seed \in files /\ call' = [call EXCEPT ![c].copy = files, ![c].at = "run"] /\ UNCHANGED scratches
     \/ Leave(c, "workspace")
  /\ UNCHANGED <<Shared, keptScratch>>

-----------------------------------------------------------------------------
(* Running *)

\* The test process: it may write an input below its directory, and a probe
\* pass logs the mutants it infects, of those its binary has probes for.
Executes(c) ==
  LET r == call[c].request
      wrote == {{}, {c}}
  IN  /\ call[c].at = "run"
      /\ \E w \in wrote, raw \in IF r.kind = "probe" THEN SUBSET (build.survived \cap build.hinted) ELSE {{}} :
           /\ call' = [call EXCEPT ![c].at = "ran", ![c].raw = raw,
                                   ![c].copy = IF @ = NoCopy THEN @ ELSE @ \cup w]
           /\ mainTree' = IF r.kind # "probe" /\ call[c].copy = NoCopy THEN mainTree \cup w ELSE mainTree
           /\ probeTree' = IF r.kind = "probe" THEN probeTree \cup w ELSE probeTree
      /\ UNCHANGED <<build, sessionClosed, scratches, keptScratch>>

\* The record of the attempt, and keepScratch under KeepTemp
Keeps(c) ==
  /\ call[c].at = "ran"
  /\ call' = [call EXCEPT ![c].at = "capture"]
  /\ keptScratch' = IF build.keep THEN keptScratch \cup {c} ELSE keptScratch
  /\ UNCHANGED <<Shared, scratches>>

\* captureFuzzArtifacts, of Exec only: every input in the private copy, or an
\* error when they are too many
Captured(c) == IF call[c].request.kind = "exec" /\ call[c].copy # NoCopy THEN call[c].copy ELSE {}

\* Exec's, Control's and Probe's ends.  An attempt may have failed, or the
\* caller may have given up: the answer is then an error too.
Answers(c) ==
  /\ call[c].at = "capture" /\ call[c].request.kind # "probe"
  /\ call' = [call EXCEPT ![c].at = "leaving", ![c].artifacts = IF Cardinality(Captured(c)) > MaxArtifacts THEN {} ELSE Captured(c),
                          ![c].answer = IF Cardinality(Captured(c)) > MaxArtifacts THEN "artifacts" ELSE "result"]
  /\ UNCHANGED <<Shared, scratches, keptScratch>>

\* checkInfectedShape, filterInfected, checkInfectedProbed
ProbeAnswers(c) ==
  /\ call[c].at = "capture" /\ call[c].request.kind = "probe"
  /\ LET raw == call[c].raw
         infected == raw \cap build.accepted
     IN  call' = [call EXCEPT ![c].at = "leaving",
                              ![c].answer = IF raw \subseteq SessionMutants /\ infected \subseteq ProbedMutants
                                            THEN "result" ELSE "inconsistent",
                              ![c].infected = infected]
  /\ UNCHANGED <<Shared, scratches, keptScratch>>

Leaves(c) ==
  /\ call[c].at \in {"capture", "leaving"}
  /\ \E answer \in (IF call[c].at = "leaving" THEN {call[c].answer} ELSE {}) \cup {"failed", "cancelled"} : Leave(c, answer)
  /\ UNCHANGED <<Shared, keptScratch>>

\* Session.Close waits for the calls inside; it removes the session's scratch,
\* the calls' directories with it, unless KeepTemp asked for them.
ClosesSession ==
  /\ ~sessionClosed /\ \A c \in SessionCallers : call[c].at \in {"idle", "returned"}
  /\ sessionClosed' = TRUE /\ scratches' = IF build.keep THEN scratches ELSE {}
  /\ UNCHANGED <<build, mainTree, probeTree, keptScratch, call>>

SessionCallsNext ==
  \/ ClosesSession
  \/ \E c \in SessionCallers :
       \/ Enters(c) \/ MakeScratch(c) \/ Settle(c) \/ CopyTree(c) \/ Executes(c) \/ Keeps(c)
       \/ Answers(c) \/ ProbeAnswers(c) \/ Leaves(c)

SessionCallsSpec == SessionCallsInit(SessionBuilds) /\ [][SessionCallsNext]_sessionCallVars

-----------------------------------------------------------------------------
(* Properties *)

\* However calls overlap and fail: no fuzz target of Exec or Control leaves an
\* input in the frozen tree (prepareFuzzWorkspace), and the scratch directories
\* of the calls that returned are exactly the ones the session says it kept
\* (the deferred removals of target, Exec, Control and Probe).
CallsLeaveNothing ==
  /\ \A c \in SessionCallers \cap mainTree : ~Fuzzes(call[c].request)
  /\ {c \in scratches : call[c].at = "returned"} = {c \in keptScratch : call[c].at = "returned"}

\* A probe pass is never called inconsistent for an infection its own binary
\* can report, and what it answers leaves out no accepted mutant it infected
\* (filterInfected before checkInfectedProbed).
ProbesAreConsistent ==
  \A c \in SessionCallers :
    /\ call[c].answer # "inconsistent"
    /\ call[c].answer = "result" => call[c].infected = call[c].raw \cap build.accepted

\* A session's calls leave nothing behind, and its probes do not contradict it.
CallsAreClean == CallsLeaveNothing /\ ProbesAreConsistent

=============================================================================
