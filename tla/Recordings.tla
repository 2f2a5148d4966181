----------------------------- MODULE Recordings -----------------------------
(***************************************************************************)
(* What the runs of a workspace leave below its report directory           *)
(* (internal/cli/trace.go, diagnostics.go, run.go, trace_cmd.go): a traced *)
(* run records into a directory of the trace root and, when it fails,      *)
(* writes its bundle there too; an untraced run that fails writes a bundle *)
(* into the diagnostics root.  Every traced run collects old recordings    *)
(* before it opens its own, every bundle collects old bundles, and a       *)
(* person may run `trace clean`.  Any of these processes may be killed.    *)
(*                                                                         *)
(* A run is its run id, and ids are in the order the runs started.  A      *)
(* directory is the files of it that a decision reads.                     *)
(***************************************************************************)
EXTENDS Integers, FiniteSets

CONSTANTS
  RunIDs,        \* the runs, as numbers in the order they start
  TraceCleaners, \* processes of `trace clean`
  RetainRuns     \* trace.RetainRuns

ASSUME RecordingsAssumption ==
  /\ RunIDs \subseteq Nat /\ IsFiniteSet(RunIDs) /\ RunIDs \cap TraceCleaners = {}
  /\ RetainRuns \in Nat

Sweepers == RunIDs \cup TraceCleaners
Roots == {"trace", "diagnostics"}

VARIABLES
  job,       \* each run: where it is, if it records in a directory, how it ended
  dir,       \* each run's directory: the files of it that are there
  swept,     \* each collector: the directories it has decided to remove
  cleaned    \* how each `trace clean` was called: how many to keep, and --all

recordingsVars == <<job, dir, swept, cleaned>>

NoRecording == [root |-> "none", files |-> {}]
Job0 == [at |-> "none", traced |-> FALSE, outcome |-> "none"]
JobOver == [Job0 EXCEPT !.at = "over"]
Swept == [root |-> "none", stale |-> {}, all |-> FALSE]

RecordingsInit ==
  /\ job = [r \in RunIDs |-> Job0]
  /\ dir = [r \in RunIDs |-> NoRecording]
  /\ swept = [c \in Sweepers |-> Swept]
  /\ cleaned = [c \in TraceCleaners |-> FALSE]

-----------------------------------------------------------------------------
(* The collector *)

\* namesIn: a directory of a root counts when it holds the root's marker.
Marker(root) == IF root = "trace" THEN "stream" ELSE "error"
NamesIn(root) == {r \in RunIDs : dir[r].root = root /\ Marker(root) \in dir[r].files}

\* finishedBundle: no bundle begun, or one that has its last file.
FinishedBundle(r) == "error" \in dir[r].files => "preserved" \in dir[r].files

\* finishedRecording: the stream's last line is the run-end.
FinishedRecording(r) == "run-end" \in dir[r].files

FinishedIn(root, r) == FinishedBundle(r) /\ (root = "trace" => FinishedRecording(r))

\* The newest n of a set of runs.
NewestOf(n, runs) == {r \in runs : Cardinality({s \in runs : s > r}) < n}

\* MUTANT: a recording nobody finished is a candidate like any other.
PlanSweepUnfinished(root, keep, all) ==
  NamesIn(root) \ NewestOf(keep, NamesIn(root))

\* planSweep
PlanSweep(root, keep, all) ==
  LET candidates == {r \in NamesIn(root) : all \/ FinishedIn(root, r)}
  IN candidates \ NewestOf(keep, candidates)

Plan(c, root, keep, all) ==
  LET stale == PlanSweep(root, keep, all)
  IN swept' = [swept EXCEPT ![c] = IF stale = {} THEN Swept
                                   ELSE [root |-> root, stale |-> stale, all |-> all]]

\* What a collector has still to remove once it has done with r.
StillStale(sweep, r) == IF sweep.stale = {r} THEN Swept ELSE [sweep EXCEPT !.stale = @ \ {r}]

\* prune: oldest first; nothing is asked again.
Prune(c) ==
  /\ swept[c].stale /= {}
  /\ LET r == CHOOSE r \in swept[c].stale : \A s \in swept[c].stale : r <= s
     IN /\ dir' = IF dir[r].root = swept[c].root THEN [dir EXCEPT ![r] = NoRecording] ELSE dir
        /\ swept' = [swept EXCEPT ![c] = StillStale(@, r)]
  /\ UNCHANGED <<job, cleaned>>

\* A directory cannot be removed: the sweep ends there, the run goes on.
PruneFails(c) ==
  /\ swept[c].stale /= {}
  /\ swept' = [swept EXCEPT ![c] = Swept]
  /\ UNCHANGED <<job, dir, cleaned>>

-----------------------------------------------------------------------------
(* A run *)

At(r, from, to) == job[r].at = from /\ job' = [job EXCEPT ![r].at = to]
Ends(r, from) == job[r].at = from /\ job' = [job EXCEPT ![r] = JobOver]
SweepOver(c) == swept[c].stale = {}

\* openTrace: the collection comes first; an untraced run has no directory.
BeginRun(r) ==
  /\ job[r].at = "none" /\ \A s \in RunIDs : s < r => job[s].at /= "none"
  /\ \/ /\ job' = [job EXCEPT ![r] = [Job0 EXCEPT !.at = "opening", !.traced = TRUE]]
        /\ Plan(r, "trace", RetainRuns, FALSE)
     \/ /\ job' = [job EXCEPT ![r].at = "running"]
        /\ UNCHANGED swept
  /\ UNCHANGED <<dir, cleaned>>

\* NewDirSink makes the directory and its stream.
Open(r) ==
  /\ SweepOver(r)
  /\ At(r, "opening", "running")
  /\ dir' = [dir EXCEPT ![r] = [root |-> "trace", files |-> {"stream"}]]
  /\ UNCHANGED <<swept, cleaned>>

\* It cannot: the run records in memory and has no directory, as one that was
\* never to be traced (refusedRecording).
OpenRefused(r) ==
  /\ SweepOver(r)
  /\ job[r].at = "opening"
  /\ job' = [job EXCEPT ![r].at = "running", ![r].traced = FALSE]
  /\ UNCHANGED <<dir, swept, cleaned>>

Traced(r) == job[r].traced /\ dir[r].root = "trace"

\* engine.Run returns; its run-end, the last line of the stream, may be lost.
EngineEnds(r) ==
  /\ job[r].at = "running"
  /\ \E outcome \in {"done", "failed", "interrupted"} :
       job' = [job EXCEPT ![r].at = "ended", ![r].outcome = outcome]
  /\ \/ UNCHANGED dir
     \/ Traced(r) /\ dir' = [dir EXCEPT ![r].files = @ \cup {"run-end"}]
  /\ UNCHANGED <<swept, cleaned>>

\* withDiagnostics: only a failure nobody asked for has a bundle.
NoBundle(r) ==
  /\ job[r].outcome \in {"done", "interrupted"}
  /\ Ends(r, "ended")
  /\ UNCHANGED <<dir, swept, cleaned>>

\* bundleDirectory: beside the stream, or of a run that records in memory in
\* the diagnostics root, which is collected first.
BundleBegins(r) ==
  /\ job[r].outcome = "failed"
  /\ At(r, "ended", "bundling")
  /\ IF job[r].traced THEN UNCHANGED swept ELSE Plan(r, "diagnostics", RetainRuns, FALSE)
  /\ UNCHANGED <<dir, cleaned>>

BundleDirectory(r) ==
  /\ SweepOver(r)
  /\ At(r, "bundling", "bundle_error")
  /\ dir' = IF job[r].traced THEN dir
            ELSE [dir EXCEPT ![r] = [root |-> "diagnostics", files |-> {}]]
  /\ UNCHANGED <<swept, cleaned>>

\* writeDiagnostics: error.txt first, preserved-paths.txt last.
WriteBundle(r) ==
  /\ dir[r].root /= "none"
  /\ \/ At(r, "bundle_error", "bundle_rest") /\ dir' = [dir EXCEPT ![r].files = @ \cup {"error"}]
     \/ At(r, "bundle_rest", "bundle_last") /\ dir' = [dir EXCEPT ![r].files = @ \cup {"rest"}]
     \/ Ends(r, "bundle_last") /\ dir' = [dir EXCEPT ![r].files = @ \cup {"preserved"}]
  /\ UNCHANGED <<swept, cleaned>>

\* A file cannot be written, which it cannot be once the directory is gone: a
\* warning, and the directory goes if it is the bundle's own and empty.
WriteBundleFails(r) ==
  /\ job[r].at \in {"bundle_error", "bundle_rest", "bundle_last"}
  /\ job' = [job EXCEPT ![r] = JobOver]
  /\ dir' = IF dir[r] = [root |-> "diagnostics", files |-> {}]
            THEN [dir EXCEPT ![r] = NoRecording] ELSE dir
  /\ UNCHANGED <<swept, cleaned>>

\* A run is killed at any moment; what it has not written stays unwritten.
Killed(r) ==
  /\ job[r].at \notin {"none", "over"}
  /\ job' = [job EXCEPT ![r] = JobOver]
  /\ swept' = [swept EXCEPT ![r] = Swept]
  /\ UNCHANGED <<dir, cleaned>>

\* trace clean: both roots with one rule, the trace root first.
Clean(c) ==
  /\ SweepOver(c) /\ ~cleaned[c]
  /\ \E root \in Roots, keep \in 0..RetainRuns, all \in BOOLEAN :
       (all => keep = 0) /\ Plan(c, root, keep, all)
  /\ cleaned' = [cleaned EXCEPT ![c] = TRUE]
  /\ UNCHANGED <<job, dir>>

RecordingRunNext(r) ==
  \/ BeginRun(r) \/ Open(r) \/ OpenRefused(r) \/ EngineEnds(r) \/ NoBundle(r)
  \/ BundleBegins(r) \/ BundleDirectory(r) \/ WriteBundle(r) \/ WriteBundleFails(r)
  \/ Killed(r)

RecordingsNext ==
  \/ \E r \in RunIDs : RecordingRunNext(r)
  \/ \E c \in Sweepers : Prune(c) \/ PruneFails(c)
  \/ \E c \in TraceCleaners : Clean(c)

RecordingsSpec == RecordingsInit /\ [][RecordingsNext]_recordingsVars

-----------------------------------------------------------------------------
(* Properties *)

\* The collector that a step removes the directory of r for.
SweepRemoves(c, r) == r \in swept[c].stale /\ r \notin swept'[c].stale /\ dir'[r] = NoRecording /\ dir[r] /= NoRecording

\* What a step that removes a recording may remove.
CollectsOldFinished ==
  \A c \in Sweepers, r \in RunIDs : SweepRemoves(c, r) =>
    /\ ~swept[c].all =>
         IF dir[r].root = "trace" THEN FinishedRecording(r)
         ELSE {"error", "rest", "preserved"} \subseteq dir[r].files
    /\ c \in RunIDs /\ (\A x \in TraceCleaners : ~cleaned[x]) =>
         Cardinality({s \in NamesIn(dir[r].root) :
                        s > r /\ (FinishedRecording(s) \/ "preserved" \in dir[s].files)})
            >= RetainRuns

\* What a collector may remove, however long ago it looked.  Unless it was told
\* --all, never the recording of a run that is still recording or that died
\* before its run-end, and of the untraced runs only a bundle that is whole,
\* though the run that wrote it could be killed between any two of its files.
\* The collection that a run makes leaves the newest RetainRuns finished ones
\* of the root, whoever else collects at the same time with the same rule.
RecordingsAreKept == [][CollectsOldFinished]_recordingsVars
=============================================================================
