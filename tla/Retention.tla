------------------------------ MODULE Retention -------------------------------
(***************************************************************************)
(* What goatest keeps of its runs (goatest/internal/app: service.go,        *)
(* reports.go, retention.go and cache.go, over retention, cache and         *)
(* evidence).                                                              *)
(*                                                                         *)
(* A verification takes the lease of the repository's cache, works,         *)
(* collects the cache, publishes its report, lets the indexes name it,      *)
(* deletes its checkpoint and collects the history and the repair           *)
(* candidates.  Without the lease it still works and publishes, as a run    *)
(* that failed.  `cache gc` and `cache flush` take the lease, too.  Each    *)
(* step can fail, and a process can die after any of them.                  *)
(***************************************************************************)
EXTENDS Naturals, FiniteSets

CONSTANTS
  FullRuns,    \* the verifications of everything
  OtherRuns,   \* those of a changeset, a package or a mutant
  Cleaners,    \* runs of cache gc
  Flushers,    \* runs of cache flush
  Past,        \* the runs whose reports are there from before
  Inputs,      \* input identities, each of which has one checkpoint
  Keep         \* [reports] keep

Verifies == FullRuns \cup OtherRuns
Keeping == Cleaners \cup Flushers
Invocations == Verifies \cup Keeping
Reports == Verifies \cup Past

ASSUME RetentionAssumption ==
  /\ FullRuns \cap OtherRuns = {} /\ Verifies \cap Keeping = {} /\ Cleaners \cap Flushers = {}
  /\ Past \cap Invocations = {} /\ "free" \notin Invocations
  /\ {"none", "unreadable"} \cap Reports = {} /\ "none" \notin Inputs
  /\ IsFiniteSet(Reports) /\ Keep \in Nat \ {0}

VARIABLES
  lease,         \* who holds .goatest/cache/.lock
  stand,         \* where each process is
  outcome,       \* of each verification
  input,         \* what each verifies, or "none" when it keeps no checkpoint
  shelf,         \* reports/runs: for each report, whether it is staged or published, and whole
  turn,          \* when its files were written
  index,         \* .goatest/latest-any.json and latest-full.json: the run they name
  checkpoints,   \* the inputs that have a checkpoint
  candidates,    \* those whose repair candidate is there
  guarded,       \* of a collection: the runs the indexes named
  doomed,        \* of a collection: what is left to remove
  leaseless,     \* history: the verifications that had no lease
  missed,        \* history: the runs whose index a collection could not read
  worked,        \* history: the inputs for which a checkpoint was written
  answered,      \* history: the inputs for which a report was published
  forgone,       \* history: the inputs whose checkpoint was given up
  tainted,       \* history: the inputs whose checkpoint a leaseless run wrote
  waiting        \* history: those whose candidate was stored beside a checkpoint

reportVars == <<shelf, turn, index>>
repairVars == <<checkpoints, candidates>>
passVars == <<guarded, doomed>>
pastVars == <<leaseless, missed, worked, answered, forgone, tainted, waiting>>
retentionVars == <<lease, stand, outcome, input, reportVars, repairVars, passVars, pastVars>>

Slots == {"any", "full"}
Gone == [at |-> "none", whole |-> TRUE]
Published == [at |-> "published", whole |-> TRUE]

\* The indexes may name a run, be missing, or not be readable by this version.
RetentionStart(named, ages, held, starters, inputs) ==
  /\ lease = "free" /\ stand = [p \in Invocations |-> IF p \in starters THEN "start" ELSE "done"]
  /\ outcome = [p \in Verifies |-> "none"] /\ input = inputs
  /\ shelf = [r \in Reports |-> IF r \in Past THEN Published ELSE Gone]
  /\ turn = [r \in Reports |-> IF r \in Past THEN ages[r] ELSE 0]
  /\ index = named
  /\ checkpoints = held /\ candidates = held /\ waiting = held
  /\ guarded = [p \in Invocations |-> {}] /\ doomed = [p \in Invocations |-> {}]
  /\ leaseless = {} /\ missed = {} /\ worked = held /\ answered = {} /\ forgone = {} /\ tainted = {}

RetentionInit ==
  \E named \in [Slots -> Past \cup {"none", "unreadable"}],
     ages \in [Past -> 1..Cardinality(Past)], held \in SUBSET Inputs,
     starters \in SUBSET Invocations, inputs \in [Verifies -> Inputs \cup {"none"}] :
       /\ \A r, e \in Past : ages[r] = ages[e] => r = e
       /\ RetentionStart(named, ages, held, starters, inputs)

GoesOn(p, from, to) == stand[p] = from /\ stand' = [stand EXCEPT ![p] = to]
Leased(p) == lease = p

-----------------------------------------------------------------------------
(* The lease *)

Locks(p) ==
  /\ GoesOn(p, "start", IF p \in Verifies THEN "work" ELSE "evict")
  /\ lease = "free" /\ lease' = p
  /\ UNCHANGED <<outcome, input, reportVars, repairVars, passVars, pastVars>>

\* A wait that is interrupted starts nothing, and cache gc and flush do nothing
\* without the lease.
LocksNot(p) ==
  /\ GoesOn(p, "start", "done")
  /\ UNCHANGED <<lease, outcome, input, reportVars, repairVars, passVars, pastVars>>

\* Any other failure: the run works without the lease.
WorksWithout(p) ==
  /\ p \in Verifies /\ GoesOn(p, "start", "work") /\ leaseless' = leaseless \cup {p}
  /\ UNCHANGED <<lease, outcome, input, reportVars, repairVars, passVars, missed, worked, answered,
                 forgone, tainted, waiting>>

Unlocks(p) ==
  /\ GoesOn(p, "leave", "done") /\ lease' = IF Leased(p) THEN "free" ELSE lease
  /\ UNCHANGED <<outcome, input, reportVars, repairVars, passVars, pastVars>>

DiesHolding(p) ==
  /\ stand[p] /= "done" /\ stand' = [stand EXCEPT ![p] = "done"]
  /\ lease' = IF Leased(p) THEN "free" ELSE lease
  /\ guarded' = [guarded EXCEPT ![p] = {}] /\ doomed' = [doomed EXCEPT ![p] = {}]
  /\ UNCHANGED <<outcome, input, reportVars, repairVars, pastVars>>

-----------------------------------------------------------------------------
(* assure.Run, as far as it writes what is kept *)

\* Checkpoints that go.
GiveUp(gone) ==
  /\ checkpoints' = checkpoints \ gone /\ waiting' = waiting \ gone
  /\ forgone' = forgone \cup gone
  /\ UNCHANGED <<candidates, leaseless, missed, worked, answered, tainted>>

\* Work that is checkpointed, unless resources have a state of their own.
Checkpoints(p) ==
  /\ input[p] \in Inputs /\ GoesOn(p, "work", "work")
  /\ checkpoints' = checkpoints \cup {input[p]}
  /\ worked' = worked \cup {input[p]} /\ answered' = answered \ {input[p]}
  /\ forgone' = forgone \ {input[p]}
  /\ tainted' = IF p \in leaseless THEN tainted \cup {input[p]} ELSE tainted
  /\ UNCHANGED <<lease, outcome, input, reportVars, candidates, passVars, leaseless, missed, waiting>>

\* attemptRepairs stores what it validated.
StoresCandidate(p) ==
  /\ input[p] \in Inputs /\ GoesOn(p, "work", "work")
  /\ candidates' = candidates \cup {input[p]}
  /\ waiting' = waiting \cup ({input[p]} \cap checkpoints)
  /\ UNCHANGED <<lease, outcome, input, reportVars, checkpoints, passVars, leaseless, missed, worked,
                 answered, forgone, tainted>>

\* A run gives its checkpoint up, and a result that is cached collects the cache.
Forgoes(p) ==
  /\ GoesOn(p, "work", "work")
  /\ \E gone \in SUBSET checkpoints : gone /= {} /\ GiveUp(gone)
  /\ UNCHANGED <<lease, outcome, input, reportVars, passVars>>

\* Without the lease the error of the lock is joined to whatever the run says.
Finishes(p) ==
  /\ GoesOn(p, "work", IF Leased(p) THEN "evict" ELSE "publish")
  /\ \E how \in {"ok", "failed", "interrupted"} :
       /\ how = "ok" => Leased(p)
       /\ outcome' = [outcome EXCEPT ![p] = how]
  /\ UNCHANGED <<lease, input, reportVars, repairVars, passVars, pastVars>>

\* collectVerdictCache, cache.Collect and cache.Flush: any entries, with their
\* checkpoints.
Evicts(p) ==
  /\ GoesOn(p, "evict", IF p \in Verifies THEN "publish" ELSE IF p \in Cleaners THEN "any" ELSE "leave")
  /\ \E gone \in SUBSET checkpoints : GiveUp(gone)
  /\ UNCHANGED <<lease, outcome, input, reportVars, passVars>>

-----------------------------------------------------------------------------
(* writeReports *)

\* The report cannot be written: nothing is indexed, deleted or collected.
Unwritten(p) ==
  /\ \/ GoesOn(p, "publish", "leave") /\ UNCHANGED shelf
     \/ GoesOn(p, "staged", "leave") /\ (UNCHANGED shelf \/ shelf' = [shelf EXCEPT ![p] = Gone])
  /\ UNCHANGED <<lease, outcome, input, turn, index, repairVars, passVars, pastVars>>

\* The files are written to a directory beside the runs.
Stages(p) ==
  /\ GoesOn(p, "publish", "staged")
  /\ shelf' = [shelf EXCEPT ![p] = [at |-> "staging", whole |-> TRUE]]
  /\ turn' = [turn EXCEPT ![p] = 1 + Cardinality({r \in Reports : turn[r] > 0})]
  /\ UNCHANGED <<lease, outcome, input, index, repairVars, passVars, pastVars>>

\* Mutant: a run without the lease collects, too.
AfterIndexesUnleased(p) == IF outcome[p] = "ok" THEN "delete" ELSE "any"

\* A run that came to its end deletes its checkpoint, and one without the lease
\* collects nothing.
AfterIndexes(p) == IF outcome[p] = "ok" THEN "delete" ELSE IF Leased(p) THEN "any" ELSE "leave"

\* One rename; a run that was interrupted is written to the history only.
Publishes(p) ==
  /\ shelf[p].at = "staging"
  /\ GoesOn(p, "staged", IF outcome[p] = "interrupted" THEN AfterIndexes(p) ELSE "index_any")
  /\ shelf' = [shelf EXCEPT ![p].at = "published"]
  /\ answered' = IF outcome[p] = "ok" THEN answered \cup ({input[p]} \cap Inputs) ELSE answered
  /\ UNCHANGED <<lease, outcome, input, turn, index, repairVars, passVars, leaseless, missed, worked,
                 forgone, tainted, waiting>>

\* atomicWrite: the index is replaced.  A rename that fails can leave none.
Indexed(p, slot) ==
  /\ index' = [index EXCEPT ![slot] = p]
  /\ UNCHANGED <<lease, outcome, input, shelf, turn, repairVars, passVars, pastVars>>

IndexesAny(p) ==
  /\ GoesOn(p, "index_any", IF p \in FullRuns THEN "index_full" ELSE AfterIndexes(p))
  /\ Indexed(p, "any")

IndexesFull(p) == GoesOn(p, "index_full", AfterIndexes(p)) /\ Indexed(p, "full")

\* One of the indexes, or its copy under reports, cannot be written.
Unindexed(p) ==
  /\ \E slot \in Slots :
       /\ GoesOn(p, IF slot = "any" THEN "index_any" ELSE "index_full", "leave")
       /\ index' \in {index, [index EXCEPT ![slot] = "none"]}
  /\ UNCHANGED <<lease, outcome, input, shelf, turn, repairVars, passVars, pastVars>>

\* DeleteCheckpoint, of a run that came to its end; a failure is a note.
DeletesCheckpoint(p) ==
  /\ GoesOn(p, "delete", "any")
  /\ \/ checkpoints' = checkpoints \ {input[p]} /\ waiting' = waiting \ {input[p]}
     \/ UNCHANGED <<checkpoints, waiting>>
  /\ UNCHANGED <<lease, outcome, input, reportVars, candidates, passVars, leaseless, missed, worked,
                 answered, forgone, tainted>>

-----------------------------------------------------------------------------
(* collectReports *)

\* protectedRunIDs: one index after the other; one that cannot be read protects
\* nothing.
Reads(p, slot, to) ==
  /\ GoesOn(p, slot, to)
  /\ \/ index[slot] \in Reports /\ guarded' = [guarded EXCEPT ![p] = @ \cup {index[slot]}] /\ UNCHANGED missed
     \/ index[slot] \in Reports /\ missed' = missed \cup {index[slot]} /\ UNCHANGED guarded
     \/ index[slot] \notin Reports /\ UNCHANGED <<guarded, missed>>
  /\ UNCHANGED <<lease, outcome, input, reportVars, repairVars, doomed, leaseless, worked, answered,
                 forgone, tainted, waiting>>

ReadsAny(p) == Reads(p, "any", "full")
ReadsFull(p) == Reads(p, "full", "list")

OnShelf == {r \in Reports : shelf[r].at /= "none"}
\* The oldest, by the newest of its files, beyond the number that is kept.
Surplus ==
  {r \in OnShelf : Cardinality({e \in OnShelf : turn[e] <= turn[r]}) + Keep <= Cardinality(OnShelf)}

\* retention.Keep: what is protected takes a place of that number all the same.
Lists(p) ==
  /\ GoesOn(p, "list", "remove")
  /\ doomed' = [doomed EXCEPT ![p] = {<<r, shelf[r].at>> : r \in Surplus \ guarded[p]}]
  /\ UNCHANGED <<lease, outcome, input, reportVars, repairVars, guarded, pastVars>>

IsNext(p, d) == d \in doomed[p] /\ shelf[d[1]].at = d[2] /\ \A e \in doomed[p] : turn[d[1]] <= turn[e[1]]

\* remove goes file by file.
Breaks(p) ==
  /\ GoesOn(p, "remove", "unlink")
  /\ \E d \in doomed[p] : IsNext(p, d) /\ shelf' = [shelf EXCEPT ![d[1]].whole = FALSE]
  /\ UNCHANGED <<lease, outcome, input, turn, index, repairVars, passVars, pastVars>>

Removes(p) ==
  /\ GoesOn(p, "unlink", "remove")
  /\ \E d \in doomed[p] :
       /\ IsNext(p, d) /\ shelf' = [shelf EXCEPT ![d[1]] = Gone]
       /\ doomed' = [doomed EXCEPT ![p] = @ \ {d}]
  /\ UNCHANGED <<lease, outcome, input, turn, index, repairVars, guarded, pastVars>>

\* The first failure ends it; a run goes on with the repairs, cache gc does not.
Collected(p) ==
  /\ \/ stand[p] = "remove" /\ doomed[p] = {} /\ GoesOn(p, "remove", "repair")
     \/ \E from \in {"list", "remove", "unlink"} :
          GoesOn(p, from, IF p \in Verifies THEN "repair" ELSE "leave")
  /\ guarded' = [guarded EXCEPT ![p] = {}] /\ doomed' = [doomed EXCEPT ![p] = {}]
  /\ UNCHANGED <<lease, outcome, input, reportVars, repairVars, pastVars>>

-----------------------------------------------------------------------------
(* collectRepair *)

\* PendingCheckpoint: as long as there is one, of whatever input, the candidates
\* are left.
AsksPending(p) ==
  /\ GoesOn(p, "repair", IF checkpoints = {} THEN "sweep" ELSE "leave")
  /\ UNCHANGED <<lease, outcome, input, reportVars, repairVars, passVars, pastVars>>

CollectsCandidate(p) ==
  /\ \/ GoesOn(p, "sweep", "sweep") /\ \E s \in candidates : candidates' = candidates \ {s}
     \/ GoesOn(p, "sweep", "leave") /\ UNCHANGED candidates
  /\ UNCHANGED <<lease, outcome, input, reportVars, checkpoints, passVars, pastVars>>

RetentionNext ==
  \/ \E p \in Invocations :
       \/ Locks(p) \/ LocksNot(p) \/ WorksWithout(p) \/ Unlocks(p) \/ DiesHolding(p)
       \/ Evicts(p) \/ ReadsAny(p) \/ ReadsFull(p) \/ Lists(p) \/ Breaks(p) \/ Removes(p)
       \/ Collected(p) \/ AsksPending(p) \/ CollectsCandidate(p)
  \/ \E p \in Verifies :
       \/ Checkpoints(p) \/ StoresCandidate(p) \/ Forgoes(p) \/ Finishes(p)
       \/ Unwritten(p) \/ Stages(p) \/ Publishes(p) \/ IndexesAny(p) \/ IndexesFull(p)
       \/ Unindexed(p) \/ DeletesCheckpoint(p)

RetentionSpec == RetentionInit /\ [][RetentionNext]_retentionVars

-----------------------------------------------------------------------------
(* What is promised *)

RetentionTypeOK ==
  /\ lease \in Invocations \cup {"free"}
  /\ stand \in [Invocations -> {"start", "work", "evict", "publish", "staged", "index_any",
                             "index_full", "delete", "any", "full", "list", "remove", "unlink",
                             "repair", "sweep", "leave", "done"}]
  /\ outcome \in [Verifies -> {"none", "ok", "failed", "interrupted"}]
  /\ input \in [Verifies -> Inputs \cup {"none"}]
  /\ shelf \in [Reports -> [at : {"none", "staging", "published"}, whole : BOOLEAN]]
  /\ turn \in [Reports -> Nat]
  /\ index \in [Slots -> Reports \cup {"none", "unreadable"}]
  /\ {checkpoints, candidates, worked, answered, forgone, tainted, waiting} \subseteq SUBSET Inputs
  /\ guarded \in [Invocations -> SUBSET Reports]
  /\ doomed \in [Invocations -> SUBSET (Reports \X {"none", "staging", "published"})]
  /\ leaseless \subseteq Verifies /\ missed \subseteq Reports

\* The run an index names is there, and whole, whatever was collected: all of its
\* artifacts were written before the index named it, and no collection under the
\* lease takes it.  A run that had no lease is not protected from the others, and
\* a collection that cannot read an index does not know what it names.
NamedAreThere ==
  \A slot \in Slots : index[slot] \in Reports \ (leaseless \cup missed) => shelf[index[slot]] = Published

\* The work that a checkpoint holds is there until a report answers it, unless it
\* was given up, however often the process dies in between.
WorkIsKept == worked \ tainted \subseteq checkpoints \cup answered \cup forgone

\* As long as a run can be resumed, what it stored is there, whoever collects.
CandidatesAreThere == waiting \ tainted \subseteq candidates

\* What goatest keeps of its runs survives whoever collects and whoever dies.
DurableIsKept == NamedAreThere /\ WorkIsKept /\ CandidatesAreThere
===============================================================================
