----------------------------- MODULE BaselineRun -----------------------------
(***************************************************************************)
(* The baseline of a goatest round (CollectBaseline,                       *)
(* goatest/internal/assure/baseline.go), interrupted and continued from    *)
(* what it saved (goatest/internal/assure/resume.go, the rules a saved     *)
(* document must meet in goatest/internal/checkpoint/checkpoint.go).       *)
(*                                                                         *)
(* Vet and build; one test binary per package, unless the prepared session *)
(* provides them; every target alone, several at a time; then the suites   *)
(* of the packages that need one.  The files of the checkpoint are module  *)
(* Checkpoint's; here a save is one step.  What the commands would answer  *)
(* (nature) is fixed, so that two continuations can be compared.  There is *)
(* one mutant per package; coverage is whether a target covers its file    *)
(* and whether it covers its block.                                        *)
(***************************************************************************)
EXTENDS Naturals, Sequences, SequencesExt

CONSTANTS
  Selected,      \* the targets, numbers in discovery order
  Binaries,      \* the packages, numbers in import order
  BinaryOf,      \* [target -> package]
  Instruments,   \* [package -> packages whose files its binary instruments]
  MaxStarts      \* bound: how often the round is begun

VARIABLES
  nature,        \* what the project's commands answer
  saved,         \* the checkpoint's baseline
  enabled,       \* the controller still saves
  starts,
  where,         \* idle, vet, build, compile, targets, suites, done
  memory,        \* what CollectBaseline keeps: see Fresh
  ahead          \* packages still to compile, to run or whose suite is to be measured

baselineVars == <<nature, saved, enabled, starts, where, memory, ahead>>

NoUnits == [t \in {} |-> ""]

\* checkpoint.Baseline.  A unit keeps its status and whether it carries the
\* instrumentation of its package: "absent", "empty" or "full".
Nothing == [vetted |-> FALSE, complete |-> FALSE, evidence |-> <<>>, structural |-> <<>>,
            units |-> NoUnits, suites |-> NoUnits, routing |-> {}, routed |-> {}]

\* The memory of the procedure: units and suites done, structural findings,
\* evidence of the checks, packages known to be instrumented, suites measured,
\* suites given up, packages whose anchor the checkpoint is taken to hold.
Fresh == [vetted |-> FALSE, evidence |-> <<>>, structural |-> <<>>, units |-> NoUnits, suites |-> NoUnits,
          instrumented |-> {}, measured |-> {}, unmeasured |-> {}, anchored |-> {}, routed |-> FALSE,
          pending |-> {}, first |-> NoUnits, findings |-> <<>>, inventory |-> <<>>]

In(p) == {t \in Selected : BinaryOf[t] = p}
Least(S) == CHOOSE x \in S : \A y \in S : x <= y
Add(f, x, y) == [z \in DOMAIN f \cup {x} |-> IF z = x THEN y ELSE f[z]]
Unit(status, instrumentation) == [status |-> status, instrumented |-> instrumentation]

\* executed, or skipped
Executed(u) == u.status # "not-run"
Skipped(u) == u.status \in {"skipped", "not-run"}

-----------------------------------------------------------------------------
(* Saving *)

Anchors(s, p) == {t \in DOMAIN s.units : BinaryOf[t] = p /\ s.units[t].instrumented # "absent"}

\* checkpoint.Validate, of a baseline
Valid(s) ==
  /\ \A t \in DOMAIN s.units : Executed(s.units[t]) # Skipped(s.units[t])
  /\ \A p \in Binaries : IF s.complete THEN Anchors(s, p) = {} ELSE \A t, u \in Anchors(s, p) : t = u

\* baselineCheckpointJournalSuffix and baselineSuiteCheckpointJournalSuffix:
\* what is new can be appended to the journal, which nobody validates
Appends(old, new) ==
  LET grows(f, g) == DOMAIN f \subseteq DOMAIN g /\ DOMAIN f # DOMAIN g /\ \A x \in DOMAIN f : f[x] = g[x]
  IN  /\ old.vetted /\ new.vetted /\ ~old.complete /\ ~new.complete
      /\ old.evidence = new.evidence /\ old.structural = new.structural
      /\ \/ old.suites = new.suites /\ grows(old.units, new.units)
         \/ old.units = new.units /\ grows(old.suites, new.suites)

\* Handed over at the end of the baseline: routing replaces what the units carry.
Completed(m) ==
  [vetted |-> TRUE, complete |-> TRUE, evidence |-> m.evidence, structural |-> m.structural,
   units |-> [t \in DOMAIN m.units |-> [m.units[t] EXCEPT !.instrumented = "absent"]],
   suites |-> NoUnits, routing |-> m.instrumented, routed |-> m.measured]

\* Mutant: the findings of packages that did not compile are not handed over.
UnfinishedSilent(m) ==
  [vetted |-> m.vetted, complete |-> FALSE, evidence |-> m.evidence, structural |-> <<>>,
   units |-> m.units, suites |-> m.suites, routing |-> {}, routed |-> {}]

Unfinished(m) ==
  [vetted |-> m.vetted, complete |-> FALSE, evidence |-> m.evidence, structural |-> m.structural,
   units |-> m.units, suites |-> m.suites, routing |-> {}, routed |-> {}]

\* saveBaseline, persistLocked, disableCheckpointLocked
Save(state) ==
  IF ~enabled THEN UNCHANGED <<saved, enabled>>
  ELSE \/ (Appends(saved, state) \/ Valid(state)) /\ saved' = state /\ UNCHANGED enabled
       \/ ~Appends(saved, state) /\ ~Valid(state) /\ saved' = Nothing /\ enabled' = FALSE

-----------------------------------------------------------------------------
(* Beginning and resuming *)

\* openRunCheckpoint and runCheckpointController.baseline: an unreadable
\* document, or one with a suite of a package without targets, is dropped.
Usable(s) == Valid(s) /\ \A p \in DOMAIN s.suites : In(p) # {}

\* restoreTargetEvidence, then checkpointTargetEvidence again: coverage that
\* was absent comes back as coverage of nothing.
Restored(u) ==
  IF u.status = "passed" /\ u.instrumented = "absent" THEN [u EXCEPT !.instrumented = "empty"] ELSE u

\* The head of CollectBaseline.
Resumed(s) ==
  LET passed == {t \in DOMAIN s.units : s.units[t].status = "passed"}
      suites == {p \in DOMAIN s.suites : s.suites[p] = "measured"}
      full == {BinaryOf[t] : t \in {u \in passed : s.units[u].instrumented = "full"}}
  IN  [Fresh EXCEPT
         !.vetted = s.vetted, !.evidence = s.evidence, !.structural = s.structural,
         !.units = [t \in DOMAIN s.units |-> Restored(s.units[t])], !.suites = s.suites,
         !.anchored = {BinaryOf[t] : t \in passed}, !.routed = s.complete,
         !.measured = IF s.complete THEN s.routed ELSE suites,
         !.instrumented = IF s.complete THEN s.routing
                          ELSE UNION {Instruments[p] : p \in full \cup suites}]

Imports(m) ==
  {p \in Binaries :
     \/ \E t \in In(p) : t \notin DOMAIN m.units
     \/ ~m.routed /\ p \notin DOMAIN m.suites /\ (In(p) # {} \/ nature.probing)}

Begin ==
  LET s == IF Usable(saved) THEN saved ELSE Nothing
  IN  /\ where \in {"idle", "done"} /\ starts < MaxStarts
      /\ starts' = starts + 1 /\ saved' = s /\ enabled' = TRUE
      /\ memory' = Resumed(s) /\ where' = IF s.vetted THEN "prepare" ELSE "vet"
      /\ UNCHANGED <<nature, ahead>>

\* appendCompletedBaselineTargets: in discovery order.
Answer(m) ==
  LET order == SetToSortSeq(Selected \cap DOMAIN m.units, <)
      faults == SelectSeq(order, LAMBDA t : m.units[t].status \in {"failed", "skipped"})
  IN  [m EXCEPT !.findings = m.structural \o [i \in DOMAIN faults |-> <<m.units[faults[i]].status, faults[i]>>],
                !.inventory = [i \in DOMAIN order |-> <<order[i], m.units[order[i]].status>>]]

\* go vet, then go build.  A project they reject is not saved.
Check ==
  /\ where \in {"vet", "build"}
  /\ IF nature.rejected = where
     THEN LET m == [memory EXCEPT !.structural = Append(@, <<where, 0>>),
                                  !.units = [t \in Selected |-> IF t \in DOMAIN @ THEN @[t] ELSE Unit("not-run", "absent")]]
          IN  memory' = Answer(m) /\ where' = "done" /\ UNCHANGED <<saved, enabled>>
     ELSE /\ memory' = [memory EXCEPT !.evidence = Append(@, where), !.vetted = where = "build"]
          /\ where' = IF where = "vet" THEN "build" ELSE "prepare"
          /\ IF where = "build" THEN Save(Unfinished(memory')) ELSE UNCHANGED <<saved, enabled>>
  /\ UNCHANGED <<nature, starts, ahead>>

\* first: the anchor of each package, its first pending target (0: none)
Prepare ==
  LET first(p) == LET missing == In(p) \ DOMAIN memory.units IN IF missing = {} THEN 0 ELSE Least(missing)
  IN  /\ where = "prepare" /\ where' = "compile" /\ ahead' = Imports(memory)
      /\ memory' = [memory EXCEPT !.pending = Imports(memory), !.first = [p \in Imports(memory) |-> first(p)]]
      /\ UNCHANGED <<nature, saved, enabled, starts>>

-----------------------------------------------------------------------------
(* Packages and targets *)

\* One test binary after the other; the prepared session already has them.
Compile ==
  LET p == Least(ahead)
  IN  /\ where = "compile" /\ ahead # {} /\ (nature.probing \/ p \in nature.compiles)
      /\ ahead' = ahead \ {p}
      /\ UNCHANGED <<nature, saved, enabled, starts, where, memory>>

CompileFails ==
  LET p == Least(ahead)
      missing == In(p) \ DOMAIN memory.units
      m == [memory EXCEPT
              !.structural = Append(@, <<"binary", p>>), !.pending = @ \ {p},
              !.units = [t \in DOMAIN @ \cup missing |-> IF t \in missing THEN Unit("not-run", "absent") ELSE @[t]],
              !.suites = IF p \in DOMAIN @ THEN @ ELSE Add(@, p, "unmeasured")]
  IN  /\ where = "compile" /\ ahead # {} /\ ~nature.probing /\ p \notin nature.compiles
      /\ ahead' = ahead \ {p} /\ memory' = m /\ Save(Unfinished(m))
      /\ UNCHANGED <<nature, starts, where>>

CompileEnds ==
  /\ where = "compile" /\ ahead = {}
  /\ where' = "targets" /\ ahead' = memory.pending
  /\ UNCHANGED <<nature, saved, enabled, starts, memory>>

\* classifyTestFraming: the output says that the target was skipped
Skips(t) == "skip" \in nature.ends[t]

\* executeBaselineTarget and executePreparedBaselineTarget: a skip reported in
\* the output comes before the exit status and the time limit
Ended(t) == CASE Skips(t) -> "skipped"
              [] nature.ends[t] \cap {"exit", "timeout"} # {} -> "failed"
              [] OTHER -> "passed"

\* commit: only the anchor of a package carries its instrumentation
Commit(m, t) ==
  LET p == BinaryOf[t]
      keeps == p \notin m.anchored /\ t = m.first[p]
      passed == Ended(t) = "passed"
  IN  [m EXCEPT !.units = Add(@, t, Unit(Ended(t), IF passed /\ keeps THEN "full" ELSE "absent")),
                !.instrumented = IF passed THEN @ \cup Instruments[p] ELSE @]

\* The workers of a package finish their targets in any order; the package is
\* published when the last has, or when the round is cancelled.
Run ==
  /\ where = "targets" /\ ahead # {}
  /\ \E t \in In(Least(ahead)) \ DOMAIN memory.units : memory' = Commit(memory, t)
  /\ UNCHANGED <<nature, saved, enabled, starts, where, ahead>>

PackageEnds ==
  LET p == Least(ahead)
  IN  /\ where = "targets" /\ ahead # {} /\ In(p) \subseteq DOMAIN memory.units
      /\ ahead' = ahead \ {p}
      /\ IF memory.first[p] = 0 THEN UNCHANGED <<saved, enabled>> ELSE Save(Unfinished(memory))
      /\ UNCHANGED <<nature, starts, where, memory>>

-----------------------------------------------------------------------------
(* Suites *)

\* routeMutant, of the mutant of package p: the targets that cover its block,
\* or its file when the block is not known to be instrumented
Reaching(m, p) ==
  {t \in DOMAIN m.units : m.units[t].status = "passed"
                            /\ <<t, p>> \in (IF p \in m.instrumented THEN nature.blocks ELSE nature.files)}

\* neededBaselineSuitePackages, when a session is prepared
Needed(m) == IF nature.probing THEN {p \in m.pending : Reaching(m, p) = {}}
             ELSE {p \in m.pending : p \notin DOMAIN m.suites /\ ~m.routed}

TargetsEnd ==
  /\ where = "targets" /\ ahead = {}
  /\ where' = "suites" /\ ahead' = Needed(memory)
  /\ UNCHANGED <<nature, saved, enabled, starts, memory>>

\* collectPackageSuiteCoverage and collectPreparedPackageSuiteCoverage: only a
\* suite that passes is measured
SuiteEnds(p) == p \in nature.suites
SuiteUnit(p) == IF SuiteEnds(p) THEN "measured" ELSE "unmeasured"

\* The workers finish the suites in any order; each is published as it ends.
MeasureOne ==
  \E p \in ahead :
    LET measured == SuiteEnds(p)
        m == [memory EXCEPT !.suites = Add(@, p, SuiteUnit(p)),
                            !.measured = IF measured THEN @ \cup {p} ELSE @,
                            !.unmeasured = IF measured THEN @ ELSE @ \cup {p},
                            !.instrumented = IF measured THEN @ \cup Instruments[p] ELSE @]
    IN  /\ where = "suites" /\ ahead' = ahead \ {p} /\ memory' = m /\ Save(Unfinished(m))
        /\ UNCHANGED <<nature, starts, where>>

BaselineEnds ==
  /\ where = "suites" /\ ahead = {}
  /\ where' = "done" /\ memory' = Answer(memory) /\ Save(Completed(memory))
  /\ UNCHANGED <<nature, starts, ahead>>

-----------------------------------------------------------------------------
(* Interruption *)

\* The context is cancelled: the packages' targets that ended are published.
Cancel ==
  /\ where \in {"vet", "build", "compile", "targets", "suites"} /\ where' = "idle"
  /\ IF where = "targets" /\ ahead # {} /\ memory.first[Least(ahead)] # 0
     THEN Save(Unfinished(memory)) ELSE UNCHANGED <<saved, enabled>>
  /\ UNCHANGED <<nature, starts, memory, ahead>>

\* The process dies.
Die ==
  /\ where \in {"vet", "build", "compile", "targets", "suites"} /\ where' = "idle"
  /\ UNCHANGED <<nature, saved, enabled, starts, memory, ahead>>

\* natures: what commands may answer
BaselineInit(natures) ==
  /\ nature \in natures /\ saved = Nothing /\ enabled = FALSE /\ starts = 0
  /\ where = "idle" /\ memory = Fresh /\ ahead = {}

BaselineNext == Begin \/ Check \/ Prepare \/ Compile \/ CompileFails \/ CompileEnds \/ Run \/ PackageEnds
                  \/ TargetsEnd \/ MeasureOne \/ BaselineEnds \/ Cancel \/ Die

-----------------------------------------------------------------------------
(* Properties *)

\* What CollectBaseline answers when nothing interrupts it.
Uninterrupted ==
  LET whole == nature.rejected = ""
      broken == IF nature.probing THEN {} ELSE {p \in Binaries \ nature.compiles : In(p) # {}}
      status(t) == IF ~whole \/ BinaryOf[t] \in broken THEN "not-run" ELSE Ended(t)
      order == SetToSortSeq(Selected, <)
      parts == SetToSortSeq(broken, <)
      faults == SelectSeq(order, LAMBDA t : status(t) \in {"failed", "skipped"})
  IN  [inventory |-> [i \in DOMAIN order |-> <<order[i], status(order[i])>>],
       findings |-> (IF whole THEN [i \in DOMAIN parts |-> <<"binary", parts[i]>>] ELSE <<<<nature.rejected, 0>>>>)
                      \o [i \in DOMAIN faults |-> <<status(faults[i]), faults[i]>>]]

\* However often a baseline is cancelled or killed and begun again, the
\* inventory and the findings it ends with are those of an uninterrupted one,
\* and a replay's baseline has the same measured suites (CollectBaseline's
\* resume branch).
ResumedIsTheSame ==
  where = "done" =>
    /\ memory.inventory = Uninterrupted.inventory
    /\ memory.findings = Uninterrupted.findings
    /\ ~nature.probing /\ nature.rejected = ""
         => memory.measured = {p \in nature.suites \cap nature.compiles : In(p) # {}}

\* The documentation's claim about an unfinished baseline: the instrumentation
\* of a package is stored on at most one of its targets
\* (goatest/docs/checkpoint-v1.md:63-66).  What a continuation hands over has
\* an empty one on every target it restored.
OneAnchor ==
  \A p \in Binaries : \A t, u \in Anchors(Unfinished(memory), p) : where \in {"targets", "suites"} => t = u
=============================================================================
