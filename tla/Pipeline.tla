------------------------------ MODULE Pipeline -------------------------------
(***************************************************************************)
(* One run of the command, from its options to its exit code              *)
(* (internal/engine engine.go, selection.go, keep.go, cache.go): the       *)
(* stages in their order, each of which may fail or be interrupted, what   *)
(* is published then, and what becomes of the temporary directories.  The  *)
(* shards of one run are run one after the other and their documents are   *)
(* merged at the end.                                                      *)
(*                                                                         *)
(* What the tests say of every mutant is fixed at the start, so that what  *)
(* the report says of it can be compared with it.                          *)
(***************************************************************************)
EXTENDS Report

VARIABLES
  setup,     \* the options of the run, and the program it is about
  shardNo,   \* the shard that is being run
  plAt,      \* the stage the run is in
  plErr,     \* how it ends: no error, a failure, or an interruption
  rejections,\* the mutants that validation has rejected
  chosen,    \* the selection, once it is made
  rows,      \* the results so far, st.results
  facts,     \* the mode of coverage, and the mode and the counts of the cache
  dirs,      \* each temporary directory: not there, there, removed, kept, left
  pair,      \* whose projection and whose page is on disk
  docs       \* the documents in the history

pipelineVars == <<setup, shardNo, plAt, plErr, rejections, chosen, rows, facts, dirs, pair, docs>>

Dirs == {"scratch", "snapshot", "probe", "worker"}
Nothing0 == [d \in Dirs |-> "absent"]

\* Every mutant has an outcome, and a way the run would come by it.
Settled(id) == setup.how[id]
Compiles == MutantIDs \ setup.broken

NoSelection == [made |-> FALSE, ids |-> {}, notRun |-> <<>>]
NoRows == [id \in {} |-> Row("not_run", NoReason, "measured", 0)]
NoFacts == [coverage |-> "off", cache |-> [mode |-> "off", misses |-> 0, writes |-> 0]]

PipelineStart(s) ==
  /\ setup = s /\ shardNo = IF s.total = 0 THEN 0 ELSE 1
  /\ plAt = "prepare" /\ plErr = "none"
  /\ rejections = {} /\ chosen = NoSelection /\ rows = NoRows /\ facts = NoFacts
  /\ dirs = Nothing0 /\ pair = [json |-> 0, html |-> 0, torn |-> FALSE] /\ docs = {}

RunState == <<rejections, chosen, rows, facts>>

\* A stage that returns an error ends the run: the deferred release is next.
Fails(kind) == plAt' = "release" /\ plErr' = kind

\* mutate's errors: an interruption that comes after the catalogue is filed.
MutateFails(kind) ==
  /\ plErr' = kind
  /\ plAt' = IF kind = "interrupted" THEN "publish" ELSE "release"

Goes(to) == plAt' = to /\ UNCHANGED plErr
EndsBadly == {"failed", "interrupted"}

-----------------------------------------------------------------------------
(* The stages before the catalogue *)

\* The run identifier, the root, the workspace, the command, the diff and the
\* toolchain; then what a crashed run left is swept.
Prepare ==
  /\ plAt = "prepare"
  /\ Goes("snapshot") \/ \E kind \in EndsBadly : Fails(kind)
  /\ UNCHANGED <<setup, shardNo, RunState, dirs, pair, docs>>

\* snapshot.Create leaves nothing behind when it fails.
SnapshotStage ==
  /\ plAt = "snapshot"
  /\ \/ Fails("failed") /\ UNCHANGED dirs
     \/ Goes("scratch") /\ dirs' = [dirs EXCEPT !["snapshot"] = "live"]
  /\ UNCHANGED <<setup, shardNo, RunState, pair, docs>>

\* A scratch directory that cannot be claimed is removed on the spot.
ScratchStage ==
  /\ plAt = "scratch"
  /\ \/ Fails("failed") /\ UNCHANGED dirs
     \/ Goes("baseline") /\ dirs' = [dirs EXCEPT !["scratch"] = "live"]
  /\ UNCHANGED <<setup, shardNo, RunState, pair, docs>>

\* The scope, the build, the timed runs, the time limit and the memory bound,
\* and the sweep of an isolated run.
Baseline ==
  /\ plAt = "baseline"
  /\ Goes("discover") \/ \E kind \in EndsBadly : Fails(kind)
  /\ UNCHANGED <<setup, shardNo, RunState, dirs, pair, docs>>

-----------------------------------------------------------------------------
(* mutate *)

\* Up to the catalogue an interruption has nothing to file.
Discover ==
  /\ plAt = "discover"
  /\ Goes("validate") \/ \E kind \in EndsBadly : Fails(kind)
  /\ UNCHANGED <<setup, shardNo, RunState, dirs, pair, docs>>

\* Validation reports what it has rejected even when it ends in an error.
ValidateStage ==
  /\ plAt = "validate"
  /\ \/ Goes("isolate") /\ rejections' = setup.broken
     \/ /\ \E kind \in EndsBadly : MutateFails(kind)
        /\ rejections' \in SUBSET setup.broken
  /\ UNCHANGED <<setup, shardNo, chosen, rows, facts, dirs, pair, docs>>

\* isolate: a copy that fails ends the run; the copies made before it stay.
Isolate ==
  /\ plAt = "isolate"
  /\ \/ Goes("instrumented") /\ ~setup.isolate /\ UNCHANGED dirs
     \/ Goes("instrumented") /\ setup.isolate /\ dirs' = [dirs EXCEPT !["worker"] = "live"]
     \/ setup.isolate /\ MutateFails("failed")
        /\ dirs' \in {dirs, [dirs EXCEPT !["worker"] = "live"]}
  /\ UNCHANGED <<setup, shardNo, RunState, pair, docs>>

\* instrumentedBaseline, restoreWorker and driftGate.
InstrumentedBaseline ==
  /\ plAt = "instrumented"
  /\ Goes("selection") \/ \E kind \in EndsBadly : MutateFails(kind)
  /\ UNCHANGED <<setup, shardNo, RunState, dirs, pair, docs>>

Owns(id) == setup.total = 0 \/ ShardIndex(id, setup.total) = shardNo

\* recordNotRun
RecordNotRun(ids) ==
  [id \in (MutantIDs \ rejections) \ ids |-> IF Owns(id) THEN "out-of-selection" ELSE "other-shard"]

\* selection and narrowSelection: the one mutant that was named; of those that
\* were accepted the ones on changed lines; of those the shard's own.  A prefix
\* that matches several mutants is an error; one of a mutant that was rejected
\* is warned about, and the run goes on with nothing selected.
Selection ==
  /\ plAt = "selection"
  /\ IF Cardinality(setup.prefix) > 1
     THEN MutateFails("failed") /\ UNCHANGED chosen
     ELSE LET named == IF setup.prefix = {} THEN MutantIDs ELSE setup.prefix
              ids == {id \in named \ rejections : id \in setup.changed /\ Owns(id)}
          IN /\ chosen' = [made |-> TRUE, ids |-> ids, notRun |-> RecordNotRun(ids)]
             /\ Goes("narrow")
  /\ UNCHANGED <<setup, shardNo, rejections, rows, facts, dirs, pair, docs>>

Remaining == chosen.ids \ DOMAIN rows

\* recordUncovered and recordUnobserved: survivors that nothing is run for.
SettlesAs(how) ==
  rows' = [id \in DOMAIN rows \cup {x \in Remaining : Settled(x) = how} |->
             IF id \in DOMAIN rows THEN rows[id] ELSE Row("survived", NoReason, how, 0)]

\* buildTestBinaries and coveragePhase; where coverage cannot be had, every
\* mutant is left for the later stages.
CoverageStage ==
  /\ plAt = "narrow"
  /\ \/ \E kind \in EndsBadly : MutateFails(kind) /\ UNCHANGED <<rows, facts>>
     \/ Goes("probe") /\ UNCHANGED <<rows, facts>>
     \/ /\ setup.coverage /= "off" /\ SettlesAs("uncovered")
        /\ Goes("probe") /\ facts' = [facts EXCEPT !.coverage = setup.coverage]
  /\ UNCHANGED <<setup, shardNo, rejections, chosen, dirs, pair, docs>>

\* probePhase: its tree is a directory of the run whatever the passes say; a
\* tree that cannot be copied, or passes that fail, settle nothing.
ProbeStage ==
  /\ plAt = "probe"
  /\ \/ ~setup.probing /\ Goes("cache") /\ UNCHANGED <<rows, dirs>>
     \/ /\ setup.probing /\ dirs' = [dirs EXCEPT !["probe"] = "live"]
        /\ \/ Goes("cache") /\ SettlesAs("unobserved")
           \/ Goes("cache") /\ UNCHANGED rows
           \/ MutateFails("interrupted") /\ UNCHANGED rows
     \/ setup.probing /\ Goes("cache") /\ UNCHANGED <<rows, dirs>>
  /\ UNCHANGED <<setup, shardNo, rejections, chosen, facts, pair, docs>>

\* cachePhase and adopt: expected survivors are always measured, and count
\* neither as a miss nor as a hit.
CacheLookup ==
  LET hits == {id \in Remaining : Settled(id) = "cached" /\ id \notin setup.ledger}
      misses == Remaining \ (hits \cup setup.ledger)
  IN /\ plAt = "cache"
     /\ \/ ~setup.caching /\ UNCHANGED <<rows, facts>>
        \/ /\ setup.caching
           /\ rows' = [id \in DOMAIN rows \cup hits |->
                         IF id \in DOMAIN rows THEN rows[id]
                         ELSE Row(setup.truth[id], NoReason, "cached", 1)]
           /\ facts' = [facts EXCEPT !.cache = [mode |-> "on", misses |-> Cardinality(misses), writes |-> 0]]
     /\ Goes("execute")
     /\ UNCHANGED <<setup, shardNo, rejections, chosen, dirs, pair, docs>>

\* MUTANT: a mutant that the phase did not get to counts as a survivor.
ExecutedBlind(done) ==
  [id \in DOMAIN rows \cup Remaining |->
     CASE id \in DOMAIN rows -> rows[id]
       [] id \in done -> Row(setup.truth[id], NoReason, "measured", 1)
       [] OTHER -> Row("survived", NoReason, "measured", 1)]

\* The results of Schedule: those that were measured, and the rest not run.
Executed(done) ==
  [id \in DOMAIN rows \cup Remaining |->
     CASE id \in DOMAIN rows -> rows[id]
       [] id \in done -> Row(setup.truth[id], NoReason, "measured", 1)
       [] OTHER -> Row("not_run", NoReason, "measured", 0)]

\* Schedule, and storeOutcomes, which files what was measured even when the
\* phase was cut short.
Execute ==
  /\ plAt = "execute"
  /\ \E done \in SUBSET Remaining :
       /\ rows' = Executed(done)
       /\ facts' = IF facts.cache.mode = "off" THEN facts
                   ELSE [facts EXCEPT !.cache.writes =
                           Cardinality({id \in done \ setup.ledger : setup.truth[id] \in Reusable})]
       /\ \/ done = Remaining /\ Goes("publish")
          \/ \E kind \in EndsBadly : MutateFails(kind)
  /\ UNCHANGED <<setup, shardNo, rejections, chosen, dirs, pair, docs>>

-----------------------------------------------------------------------------
(* publish *)

\* The row of a mutant that was not rejected; notRunReason.
PublishedRow(id) ==
  CASE id \notin DOMAIN rows ->
         Row("not_run", IF chosen.made /\ id \in DOMAIN chosen.notRun
                        THEN chosen.notRun[id] ELSE "interrupted", "measured", 0)
    [] id \in DOMAIN rows /\ rows[id].outcome = "not_run" ->
         [rows[id] EXCEPT !.reason = "interrupted"]
    [] OTHER -> rows[id]

Document ==
  [status   |-> IF plErr = "none" THEN "completed" ELSE plErr,
   shard    |-> shardNo, total |-> setup.total, changed |-> setup.changed,
   rows     |-> [id \in MutantIDs \ rejections |-> PublishedRow(id)],
   rejected |-> rejections, ledger |-> setup.ledger, policy |-> setup.policy,
   selected |-> Cardinality(chosen.ids),
   coverage |-> facts.coverage, cache |-> facts.cache]

\* An error of publish ends a run that had none; an interrupted run stays so.
PublishFails == plAt' = "release" /\ plErr' = IF plErr = "none" THEN "failed" ELSE plErr

\* Build and History.Write: nothing is filed when one of them fails.
PublishHistory ==
  /\ plAt = "publish"
  /\ \/ PublishFails /\ UNCHANGED docs
     \/ ~BuildRefuses(Document) /\ docs' = docs \cup {Document} /\ Goes("artifacts")
  /\ UNCHANGED <<setup, shardNo, RunState, dirs, pair>>

Me == shardNo + 1

\* MUTANT: a page that cannot be written leaves the new projection in place.
WriteArtifactsHalf ==
  /\ plAt = "artifacts"
  /\ \/ PublishFails /\ UNCHANGED pair
     \/ PublishFails /\ pair' = [pair EXCEPT !.json = Me]
     \/ Goes("release") /\ pair' = [json |-> Me, html |-> Me, torn |-> FALSE]
  /\ UNCHANGED <<setup, shardNo, RunState, dirs, docs>>

\* WriteArtifacts: the projection, then the page; undo puts the projection
\* back when the page cannot be written; where that fails too, it says so.
WriteArtifacts ==
  /\ plAt = "artifacts"
  /\ \/ PublishFails /\ UNCHANGED pair
     \/ PublishFails /\ pair' = [pair EXCEPT !.json = Me, !.torn = TRUE]
     \/ Goes("release") /\ pair' = [json |-> Me, html |-> Me, torn |-> FALSE]
  /\ UNCHANGED <<setup, shardNo, RunState, dirs, docs>>

-----------------------------------------------------------------------------
(* release *)

\* keepsTemporaries
KeepsTemporaries ==
  \/ setup.keep = "always"
  \/ setup.keep = "on-failure" /\ plErr = "failed"

\* The directories that temporaries holds.
OwnedDirs == {d \in Dirs : dirs[d] = "live"}

\* settle, directory by directory: marked kept, or removed when it cannot be
\* marked or is not to be kept; what cannot be removed is warned about.
Release ==
  /\ plAt = "release"
  /\ \E end \in IF KeepsTemporaries THEN {"kept", "removed", "left"} ELSE {"removed", "left"} :
       dirs' = [d \in Dirs |-> IF d \in OwnedDirs THEN end ELSE dirs[d]]
  /\ Goes("ended")
  /\ UNCHANGED <<setup, shardNo, RunState, pair, docs>>

\* The next shard of a run whose last one filed its document.
NextShard ==
  /\ plAt = "ended" /\ shardNo < setup.total /\ Cardinality(docs) = shardNo
  /\ shardNo' = shardNo + 1
  /\ plAt' = "prepare" /\ plErr' = "none"
  /\ rejections' = {} /\ chosen' = NoSelection /\ rows' = NoRows /\ facts' = NoFacts
  /\ dirs' = Nothing0
  /\ UNCHANGED <<setup, pair, docs>>

PipelineNext ==
  \/ Prepare \/ SnapshotStage \/ ScratchStage \/ Baseline \/ Discover \/ ValidateStage
  \/ Isolate \/ InstrumentedBaseline \/ Selection \/ CoverageStage \/ ProbeStage
  \/ CacheLookup \/ Execute \/ PublishHistory \/ WriteArtifacts \/ Release \/ NextShard

-----------------------------------------------------------------------------
(* Properties *)

Wanted == {id \in Compiles : id \in setup.changed /\ (setup.prefix = {} \/ id \in setup.prefix)}

\* The document of the whole run, had it not been split and not been cut short.
Whole0 ==
  [rows |-> [id \in Compiles |-> IF id \in Wanted THEN setup.truth[id] ELSE "not_run"],
   rejected |-> setup.broken]

OutcomesOf(d) == [rows |-> [id \in DOMAIN d.rows |-> d.rows[id].outcome], rejected |-> d.rejected]

\* When every shard has filed a completed document, the merge is accepted, and
\* it says of every mutant what the undivided run says, with that run's
\* count, score, ledger and exit code, whatever each shard settled by
\* coverage, by a probe or from the cache (engine.go, merge.go, exitpolicy.go).
MergeIsTheWholeRun ==
  /\ setup.total > 0 /\ Cardinality(docs) = setup.total
  /\ \A d \in docs : d.status = "completed"
  => /\ MergeAccepts(docs)
     /\ LET merged == MergeShards(docs)
            whole == [merged EXCEPT !.rows = [id \in Compiles |->
                        Row(Whole0.rows[id], NoReason, "measured", 0)]]
        IN /\ OutcomesOf(merged) = Whole0
           /\ Decide(merged) = Decide(whole) /\ TallyOf(merged) = TallyOf(whole)
           /\ merged.selected = Cardinality(Wanted)

\* A run that ends well has filed a document that Build accepts and that says
\* of every mutant it selected what the tests say of it; an interrupted run
\* says the same of those it got to, and never calls one of them measured
\* that it did not measure (publish, executionsOf, recordNotRun).
FiledIsTrue ==
  \A d \in docs :
    /\ ~BuildRefuses(d)
    /\ \A id \in DOMAIN d.rows :
         d.rows[id].outcome \in {setup.truth[id], "not_run"}
    /\ d.status = "completed" =>
         \A id \in DOMAIN d.rows : (d.rows[id].outcome = "not_run") =
           ~(id \in Wanted /\ (d.total = 0 \/ ShardIndex(id, d.total) = d.shard))

\* On whichever stage the run ended, each of its directories is accounted for:
\* removed, left with a warning, or kept because the user asked for that; and
\* the report directory holds a projection and a page of one and the same run,
\* unless an error said that they could not be put back.
NothingIsForgotten ==
  plAt = "ended" =>
    /\ \A d \in Dirs : dirs[d] /= "live"
    /\ \A d \in Dirs : dirs[d] = "kept" => KeepsTemporaries
    /\ pair.json = pair.html \/ pair.torn

=============================================================================
