----------------------------- MODULE Checkpoint -----------------------------
(***************************************************************************)
(* The checkpoint of an interrupted goatest round                          *)
(* (goatest/internal/cache/checkpoint.go and lock.go,                      *)
(* goatest/internal/assure/resume.go): one base document, replaced by      *)
(* rename at phase boundaries, and a journal that units are appended to in *)
(* between, every line naming the base it extends.  Runs of one input      *)
(* digest use it one after the other under an advisory lock, or go on      *)
(* without it when the lock operation itself fails; each may be            *)
(* killed at any step, and any file operation may fail.                    *)
(*                                                                         *)
(* A digest is the document it is the digest of.  A saved unit is its      *)
(* identity, and of a target whether its test skipped; evidence, coverage  *)
(* and durations are left out, and with them what Validate asks of them    *)
(* (of the instrumentation, BaselineRun).                                  *)
(***************************************************************************)
EXTENDS Naturals, Sequences, FiniteSets

CONSTANTS
  Runs,        \* processes that verify the same input
  Targets,     \* baseline targets
  Packages,    \* packages whose suite may be measured
  PackageOf,   \* the package of each target
  Selections,  \* the sets of targets a run may select
  Skipping,    \* the targets whose test skips itself when it is run
  Mutants,     \* mutants of every catalogue
  Catalogs,    \* the fingerprints the catalogue may have
  None

ASSUME PackagesAssumption == PackageOf \in [Targets -> Packages]
ASSUME SelectionsAssumption == Selections \subseteq SUBSET Targets

Target(t) == [kind |-> "target", id |-> t]
Skip(t) == [kind |-> "skip", id |-> t]
Suite(k) == [kind |-> "suite", id |-> k]
Mutant(m) == [kind |-> "mutant", id |-> m]

Units == {Target(t) : t \in Targets} \cup {Skip(t) : t \in Targets} \cup {Suite(k) : k \in Packages}
           \cup {Mutant(m) : m \in Mutants}

\* checkpoint.State
States == [attempts : Nat, vet : BOOLEAN, done : BOOLEAN, race : BOOLEAN,
           catalog : Catalogs \cup {None}, probe : BOOLEAN, mdone : BOOLEAN,
           units : SUBSET Units]

ASSUME NoneAssumption == None \notin Runs /\ None \notin Catalogs /\ None \notin States

Blank == [attempts |-> 1, vet |-> FALSE, done |-> FALSE, race |-> FALSE,
          catalog |-> None, probe |-> FALSE, mdone |-> FALSE, units |-> {}]

Of(kind, units) == {u \in units : u.kind = kind}

VARIABLES
  base,      \* checkpoint-v1.json, or None
  journal,   \* the complete lines of checkpoint-journal-v1.jsonl
  torn,      \* the journal ends in a line that was never finished
  lock,      \* who holds .goatest/cache/.lock
  unlocked,  \* history: a run went on without it
  pc,        \* where each run is
  then,      \* where it goes when the file operation in progress is over
  state,     \* runCheckpointController.state
  known,     \* checkpointBaseDigests of the process
  selected,  \* the targets of the run
  fresh,     \* targets measured and not yet given to the controller
  queue,     \* units given to the controller and not yet appended
  recorded,  \* units some run was told are saved, and nobody gave up since
  measured,  \* every mutant measured, with its catalogue
  origin,    \* the selection the saved baseline was measured for
  replay     \* the input names one mutant to replay: no baseline has a probe session

disk == <<base, journal, torn>>
controller == <<then, state, known>>
work == <<selected, fresh, queue>>
ghost == <<recorded, measured, origin>>
lease == <<lock, unlocked>>
vars == <<disk, lease, pc, controller, work, ghost, replay>>

Init ==
  /\ base = None
  /\ journal = <<>>
  /\ torn = FALSE
  /\ lock = None
  /\ unlocked = FALSE
  /\ pc = [p \in Runs |-> "new"]
  /\ then = [p \in Runs |-> "new"]
  /\ state = [p \in Runs |-> Blank]
  /\ known = [p \in Runs |-> None]
  /\ selected = [p \in Runs |-> {}]
  /\ fresh = [p \in Runs |-> {}]
  /\ queue = [p \in Runs |-> {}]
  /\ recorded = {}
  /\ measured = {}
  /\ origin = {}
  /\ replay \in BOOLEAN

Goto(p, from, to) == pc[p] = from /\ pc' = [pc EXCEPT ![p] = to]

\* The file operation in progress is over.
Return(p) ==
  /\ pc' = [pc EXCEPT ![p] = then[p]]
  /\ then' = [then EXCEPT ![p] = "new"]

\* The process is gone, and its memory with it.
Gone(p) ==
  /\ pc' = [pc EXCEPT ![p] = "over"]
  /\ then' = [then EXCEPT ![p] = "new"]
  /\ state' = [state EXCEPT ![p] = Blank]
  /\ known' = [known EXCEPT ![p] = None]
  /\ selected' = [selected EXCEPT ![p] = {}]
  /\ fresh' = [fresh EXCEPT ![p] = {}]
  /\ queue' = [queue EXCEPT ![p] = {}]

-----------------------------------------------------------------------------
(* What the files say.                                                     *)

Line(b, u) == [base |-> b, unit |-> u, whole |-> TRUE]

Current(b) == {i \in DOMAIN journal : journal[i].base = b}

\* The name a unit has among those of its kind, skipped or not.
NameOf(u) == <<IF u.kind = "skip" THEN "target" ELSE u.kind, u.id>>

\* applyCheckpointJournal reads every line: each that is complete decodes, the
\* lines of this base come last, no unit comes twice, and no mutant comes
\* before its catalogue.
InOrder(b) ==
  /\ \A i \in DOMAIN journal : journal[i].whole
  /\ \A i \in Current(b) : \A k \in DOMAIN journal : k > i => k \in Current(b)
  /\ \A i, k \in Current(b) : i # k => NameOf(journal[i].unit) # NameOf(journal[k].unit)
  /\ \A i \in Current(b) : /\ \A u \in b.units : NameOf(u) # NameOf(journal[i].unit)
                           /\ journal[i].unit.kind = "mutant" => b.catalog # None

\* checkpoint.Validate, as far as units go: it takes a target that was run and
\* skipped for one that is not completely classified.
Skips(s) == Of("skip", s.units) # {}
Valid(s) == ~Skips(s) /\ (s.done => Of("suite", s.units) = {})

\* What a journal that does not skip the lines of an older base would give.
ReplayedWhole(b) ==
  [b EXCEPT !.units = @ \cup {journal[i].unit : i \in DOMAIN journal}]

Replayed(b) ==
  [b EXCEPT !.units = @ \cup {journal[i].unit : i \in Current(b)}]

\* GetCheckpoint returns no error.
Replayable(b) == Valid(b) /\ InOrder(b) /\ Valid(Replayed(b))

Durable == IF base = None THEN {} ELSE Replayed(base).units

-----------------------------------------------------------------------------
(* The repository's cache lock.                                            *)

Start(p) ==
  /\ Goto(p, "new", "acquire")
  /\ \E s \in Selections : selected' = [selected EXCEPT ![p] = s]
  /\ UNCHANGED <<disk, lease, controller, fresh, queue, ghost>>

Acquire(p) ==
  /\ lock = None
  /\ lock' = p
  /\ Goto(p, "acquire", "get")
  /\ UNCHANGED <<disk, unlocked, controller, work, ghost>>

\* runAndWrite verifies without the lease when the lock fails and the run was
\* not cancelled.
AcquireFail(p) ==
  /\ Goto(p, "acquire", "get")
  /\ unlocked' = TRUE
  /\ UNCHANGED <<disk, lock, controller, work, ghost>>

AcquireCancel(p) ==
  /\ pc[p] = "acquire"
  /\ Gone(p)
  /\ UNCHANGED <<disk, lease, ghost>>

Unlock(p) == lock' = (IF lock = p THEN None ELSE lock) /\ UNCHANGED unlocked

-----------------------------------------------------------------------------
(* The store's operations, one step per change of the disk.                *)

\* Begin PutCheckpoint of s; the run goes on at next.
Persist(p, s, next) ==
  /\ state' = [state EXCEPT ![p] = s]
  /\ pc' = [pc EXCEPT ![p] = "put"]
  /\ then' = [then EXCEPT ![p] = next]

\* Begin DeleteCheckpoint; whatever was saved is given up.
Forget(p, next) ==
  /\ pc' = [pc EXCEPT ![p] = "delete"]
  /\ then' = [then EXCEPT ![p] = next]
  /\ recorded' = {}

\* disableCheckpointLocked: the run goes on and saves nothing.
Disable(p) == Forget(p, "unsaved")

\* A publish that removes the old journal before the new base has its name.
PutJournalFirst(p) ==
  /\ pc[p] = "put" /\ Valid(state[p])
  /\ \/ /\ journal # <<>> \/ torn
        /\ journal' = <<>>
        /\ torn' = FALSE
        /\ UNCHANGED <<base, known, pc>>
     \/ /\ journal = <<>> /\ ~torn
        /\ base' = state[p]
        /\ known' = [known EXCEPT ![p] = state[p]]
        /\ pc' = [pc EXCEPT ![p] = "compact"]
        /\ UNCHANGED <<journal, torn>>
  /\ UNCHANGED <<lease, then, state, work, ghost>>

\* The document validates, and the synced temporary file takes the name of the
\* base; one that does not is given up (PutFail).
Put(p) ==
  /\ Valid(state[p])
  /\ base' = state[p]
  /\ known' = [known EXCEPT ![p] = state[p]]
  /\ Goto(p, "put", "compact")
  /\ UNCHANGED <<journal, torn, lease, then, state, work, ghost>>

Compact(p) ==
  /\ pc[p] = "compact"
  /\ journal' = <<>>
  /\ torn' = FALSE
  /\ Return(p)
  /\ recorded' = recorded \cup state[p].units
  /\ UNCHANGED <<base, lease, state, known, work, measured, origin>>

PutFail(p) ==
  /\ pc[p] \in {"put", "compact"}
  /\ Disable(p)
  /\ UNCHANGED <<disk, lease, state, known, work, measured, origin>>

\* appendCheckpointRecord: the line is written and synced.  A line that
\* follows an unfinished one shares its bytes with it.
Append1(p, u) ==
  /\ journal' = Append(journal, [Line(known[p], u) EXCEPT !.whole = ~torn])
  /\ torn' = FALSE

AppendUnit(p) ==
  /\ pc[p] = "append"
  /\ \E u \in queue[p] :
       /\ Append1(p, u)
       /\ queue' = [queue EXCEPT ![p] = @ \ {u}]
       /\ recorded' = recorded \cup {u}
  /\ UNCHANGED <<base, lease, pc, controller, selected, fresh, measured, origin>>

\* The write stops short, or the line is whole and the sync fails.
AppendFail(p) ==
  /\ pc[p] = "append"
  /\ queue[p] # {}
  /\ \/ torn' = TRUE /\ UNCHANGED journal
     \/ \E u \in queue[p] : Append1(p, u)
  /\ queue' = [queue EXCEPT ![p] = {}]
  /\ Disable(p)
  /\ UNCHANGED <<base, lease, state, known, selected, fresh, measured, origin>>

AppendEnd(p) ==
  /\ pc[p] = "append"
  /\ queue[p] = {}
  /\ Return(p)
  /\ UNCHANGED <<disk, lease, state, known, work, ghost>>

DeleteBase(p) ==
  /\ base' = None
  /\ Goto(p, "delete", "delete_journal")
  /\ UNCHANGED <<journal, torn, lease, controller, work, ghost>>

DeleteJournal(p) ==
  /\ pc[p] = "delete_journal"
  /\ journal' = <<>>
  /\ torn' = FALSE
  /\ known' = [known EXCEPT ![p] = None]
  /\ Return(p)
  /\ UNCHANGED <<base, lease, state, work, ghost>>

DeleteFail(p) ==
  /\ pc[p] \in {"delete", "delete_journal"}
  /\ Return(p)
  /\ UNCHANGED <<disk, lease, state, known, work, ghost>>
-----------------------------------------------------------------------------
(* openRunCheckpoint.                                                      *)

\* A cached report for this input, or nothing changed: no checkpoint is opened.
Answered(p) ==
  /\ Goto(p, "get", "verified")
  /\ UNCHANGED <<disk, lease, controller, work, ghost>>

Get(p) ==
  /\ pc[p] = "get"
  /\ \/ /\ base = None
        /\ Persist(p, Blank, "baseline")
        /\ UNCHANGED <<known, recorded>>
     \/ /\ base # None
        /\ Replayable(base)
        /\ known' = [known EXCEPT ![p] = base]
        /\ Persist(p, [Replayed(base) EXCEPT !.attempts = @ + 1], "baseline")
        /\ UNCHANGED recorded
     \/ /\ base # None
        /\ ~Replayable(base)
        /\ Forget(p, "cold")
        /\ UNCHANGED <<known, state>>
  /\ UNCHANGED <<disk, lease, work, measured, origin>>

GetFail(p) ==
  /\ pc[p] = "get"
  /\ Forget(p, "cold")
  /\ UNCHANGED <<disk, lease, state, known, work, measured, origin>>

Cold(p) ==
  /\ pc[p] = "cold"
  /\ Persist(p, Blank, "baseline")
  /\ UNCHANGED <<disk, lease, known, work, ghost>>

-----------------------------------------------------------------------------
(* The phases of the round, as far as they touch the checkpoint.           *)

Saved(p, kind) == {u.id : u \in Of(kind, state[p].units)}
SavedTargets(p) == Saved(p, "target") \cup Saved(p, "skip")

\* baseline(targets): what was saved belongs to the targets of this run.
SavedBaselineFits(p) ==
  /\ SavedTargets(p) \subseteq selected[p]
  /\ state[p].done => SavedTargets(p) = selected[p]
  /\ Saved(p, "suite") \subseteq {PackageOf[t] : t \in selected[p]}

Baseline(p) ==
  /\ pc[p] = "baseline"
  /\ \/ /\ SavedBaselineFits(p)
        /\ pc' = [pc EXCEPT ![p] = "vet"]
        /\ UNCHANGED <<then, state, recorded>>
     \/ /\ ~SavedBaselineFits(p)
        /\ Persist(p, [Blank EXCEPT !.attempts = state[p].attempts], "vet")
        /\ recorded' = {}
  /\ UNCHANGED <<disk, lease, known, work, measured, origin>>

Vet(p) ==
  /\ pc[p] = "vet"
  /\ \/ /\ state[p].vet
        /\ pc' = [pc EXCEPT ![p] = "compile"]
        /\ UNCHANGED <<then, state, origin>>
     \/ /\ ~state[p].vet
        /\ Persist(p, [state[p] EXCEPT !.vet = TRUE], "compile")
        /\ origin' = selected[p]
  /\ UNCHANGED <<disk, lease, known, work, recorded, measured>>

Pending(p) == selected[p] \ SavedTargets(p)

\* The test binary of a package does not compile: its targets, and its suite
\* if one is needed, are settled without a run and published whole.  The probe
\* session has its binaries already.
Unbuildable(p) ==
  /\ pc[p] = "compile" /\ replay
  /\ ~state[p].done
  /\ \E k \in {PackageOf[t] : t \in selected[p]} :
       LET targets == {Target(t) : t \in {u \in Pending(p) : PackageOf[u] = k}}
       IN \E settled \in {targets, targets \cup {Suite(k)}} :
            /\ ~(settled \subseteq state[p].units)
            /\ Persist(p, [state[p] EXCEPT !.units = @ \cup settled], "compile")
  /\ UNCHANGED <<disk, lease, known, work, ghost>>

Compiled(p) ==
  /\ Goto(p, "compile", "targets")
  /\ UNCHANGED <<disk, lease, controller, work, ghost>>

\* A worker finishes a target of the package in progress.
Measure(p) ==
  /\ pc[p] = "targets"
  /\ \E t \in Pending(p) \ fresh[p] :
       /\ \A f \in fresh[p] : PackageOf[f] = PackageOf[t]
       /\ fresh' = [fresh EXCEPT ![p] = @ \cup {t}]
  /\ UNCHANGED <<disk, lease, pc, controller, selected, queue, ghost>>

\* saveBaseline of units that extend what was saved: one line for each.
Journal(p, units, next) ==
  /\ state' = [state EXCEPT ![p].units = @ \cup units]
  /\ queue' = [queue EXCEPT ![p] = units]
  /\ pc' = [pc EXCEPT ![p] = "append"]
  /\ then' = [then EXCEPT ![p] = next]

\* baselineClassifiedUnit of a target that was run.
Classified(t) == IF t \in Skipping THEN Skip(t) ELSE Target(t)

\* The workers of a package have joined: all its targets are measured, or
\* the run was interrupted or met an error and ends once the rest is saved.
PublishPackage(p) ==
  /\ pc[p] = "targets"
  /\ fresh[p] # {}
  /\ \E next \in {"targets", "failed"} :
       /\ next = "targets" => \A t \in Pending(p) \ fresh[p] :
                                \A f \in fresh[p] : PackageOf[f] # PackageOf[t]
       /\ Journal(p, {Classified(t) : t \in fresh[p]}, next)
  /\ fresh' = [fresh EXCEPT ![p] = {}]
  /\ UNCHANGED <<disk, lease, known, selected, ghost>>

\* No target of the package was measured: nothing extends the saved state,
\* and it is published whole.
PublishNothing(p) ==
  /\ pc[p] = "targets"
  /\ fresh[p] = {}
  /\ Pending(p) # {}
  /\ Persist(p, state[p], "failed")
  /\ UNCHANGED <<disk, lease, known, work, ghost>>

TargetsDone(p) ==
  /\ Pending(p) = {}
  /\ Goto(p, "targets", "suites")
  /\ UNCHANGED <<disk, lease, controller, work, ghost>>

\* Suites are needed for packages of targets and, with a probe session, for
\* packages of mutants.
MeasureSuite(p) ==
  /\ pc[p] = "suites"
  /\ ~state[p].done
  /\ \E k \in Packages \ Saved(p, "suite") :
       /\ replay => k \in {PackageOf[t] : t \in selected[p]}
       /\ Journal(p, {Suite(k)}, "suites")
  /\ UNCHANGED <<disk, lease, known, selected, fresh, ghost>>

\* The completed baseline keeps its routing in place of the suites.
CompleteBaseline(p) ==
  /\ pc[p] = "suites"
  /\ Persist(p, [state[p] EXCEPT !.done = TRUE, !.units = @ \ Of("suite", @)], "race")
  /\ recorded' = recorded \ Of("suite", recorded)
  /\ UNCHANGED <<disk, lease, known, work, measured, origin>>

\* saveRace, reuse of a saved race, or a race saved for other packages.
Race(p) ==
  /\ pc[p] = "race"
  /\ \/ /\ ~state[p].race
        /\ Persist(p, [state[p] EXCEPT !.race = TRUE], "mutation")
        /\ UNCHANGED recorded
     \/ /\ state[p].race
        /\ pc' = [pc EXCEPT ![p] = "mutation"]
        /\ UNCHANGED <<then, state, recorded>>
     \/ /\ state[p].race
        /\ Persist(p, [state[p] EXCEPT !.race = FALSE, !.catalog = None, !.probe = FALSE,
                        !.mdone = FALSE, !.units = @ \ Of("mutant", @)], "race")
        /\ recorded' = recorded \ Of("mutant", recorded)
  /\ UNCHANGED <<disk, lease, known, work, measured, origin>>

\* The mutation state of a catalogue nothing has been saved for.
NoMutation(s, c) ==
  [s EXCEPT !.catalog = c, !.probe = FALSE, !.mdone = FALSE, !.units = @ \ Of("mutant", @)]

Mutation(p) ==
  /\ pc[p] = "mutation"
  /\ \E c \in Catalogs :
       \/ /\ state[p].catalog = c
          /\ pc' = [pc EXCEPT ![p] = "probe"]
          /\ UNCHANGED <<then, state, recorded>>
       \/ /\ state[p].catalog # c
          /\ Persist(p, NoMutation(state[p], c), "probe")
          /\ recorded' = recorded \ Of("mutant", recorded)
  /\ UNCHANGED <<disk, lease, known, work, measured, origin>>

\* A replay has no probe pass.
Probe(p) ==
  /\ pc[p] = "probe"
  /\ \/ /\ state[p].probe \/ replay
        /\ pc' = [pc EXCEPT ![p] = "mutants"]
        /\ UNCHANGED <<then, state, recorded>>
     \/ /\ state[p].probe /\ ~replay
        /\ Persist(p, NoMutation(state[p], state[p].catalog), "probe")
        /\ recorded' = recorded \ Of("mutant", recorded)
     \/ /\ ~state[p].probe /\ ~replay
        /\ Persist(p, [state[p] EXCEPT !.probe = TRUE], "mutants")
        /\ UNCHANGED recorded
  /\ UNCHANGED <<disk, lease, known, work, measured, origin>>

\* saveMutant, called by any worker and serialised by the controller.
SaveMutant(p) ==
  /\ pc[p] = "mutants"
  /\ \E m \in Mutants \ Saved(p, "mutant") :
       /\ Journal(p, {Mutant(m)}, "mutants")
       /\ measured' = measured \cup {<<m, state[p].catalog>>}
  /\ UNCHANGED <<disk, lease, known, selected, fresh, recorded, origin>>

CompleteMutation(p) ==
  /\ pc[p] = "mutants"
  /\ Mutants = Saved(p, "mutant")
  /\ Persist(p, [state[p] EXCEPT !.mdone = TRUE], "repair")
  /\ UNCHANGED <<disk, lease, known, work, ghost>>

-----------------------------------------------------------------------------
(* How a run ends.                                                         *)

\* discard: findings end the round, or a repair changed the input and later
\* rounds save nothing.
Discard(p) ==
  /\ pc[p] \in {"vet", "race", "mutation", "repair"}
  /\ Forget(p, "unsaved")
  /\ UNCHANGED <<disk, lease, state, known, work, measured, origin>>

Verified(p) ==
  /\ pc[p] \in {"repair", "unsaved"}
  /\ pc' = [pc EXCEPT ![p] = "verified"]
  /\ UNCHANGED <<disk, lease, controller, work, ghost>>

\* The run is interrupted or meets an error outside the checkpoint, which
\* stays as it is.
Fail(p) ==
  /\ pc[p] \in {"get", "vet", "compile", "suites", "race", "probe", "mutants", "repair",
                "unsaved"}
  /\ pc' = [pc EXCEPT ![p] = "failed"]
  /\ UNCHANGED <<disk, lease, controller, work, ghost>>

Over(p) == IF pc[p] = "verified" THEN "publish" ELSE "release"

Keep(p) ==
  /\ pc[p] \in {"verified", "failed"}
  /\ pc' = [pc EXCEPT ![p] = Over(p)]
  /\ UNCHANGED <<disk, lease, controller, work, ghost>>

\* collectVerdictCache: the cache is over its limits or the entry is too old,
\* and the owner of the lease removes the entry.
Collect(p) ==
  /\ pc[p] \in {"verified", "failed"}
  /\ lock = p
  /\ base # None \/ journal # <<>> \/ torn
  /\ pc' = [pc EXCEPT ![p] = "collect"]
  /\ then' = [then EXCEPT ![p] = Over(p)]
  /\ recorded' = {}
  /\ UNCHANGED <<disk, lease, state, known, work, measured, origin>>

\* The files of the entry go in the order the directory gives.
CollectFile(p) ==
  /\ pc[p] = "collect"
  /\ \/ base # None /\ base' = None /\ UNCHANGED <<journal, torn>>
     \/ (journal # <<>> \/ torn) /\ journal' = <<>> /\ torn' = FALSE /\ UNCHANGED base
  /\ UNCHANGED <<lease, pc, controller, work, ghost>>

\* Everything is removed, or a removal failed.
CollectEnd(p) ==
  /\ pc[p] = "collect"
  /\ Return(p)
  /\ UNCHANGED <<disk, lease, state, known, work, ghost>>

\* The report is on disk: the checkpoint goes.
Publish(p) ==
  /\ pc[p] = "publish"
  /\ Forget(p, "release")
  /\ UNCHANGED <<disk, lease, state, known, work, measured, origin>>

PublishFail(p) ==
  /\ Goto(p, "publish", "release")
  /\ UNCHANGED <<disk, lease, controller, work, ghost>>

Release(p) ==
  /\ pc[p] = "release"
  /\ Unlock(p)
  /\ Gone(p)
  /\ UNCHANGED <<disk, ghost>>

\* The process dies, in the middle of a line perhaps, or after a line and
\* before anybody was told.
Crash(p) ==
  /\ pc[p] \notin {"new", "over"}
  /\ Unlock(p)
  /\ Gone(p)
  /\ \/ UNCHANGED <<journal, torn>>
     \/ pc[p] = "append" /\ queue[p] # {} /\ torn' = TRUE /\ UNCHANGED journal
     \/ pc[p] = "append" /\ \E u \in queue[p] : Append1(p, u)
  /\ UNCHANGED <<base, ghost>>

-----------------------------------------------------------------------------
Open(p) == Start(p) \/ Acquire(p) \/ AcquireFail(p) \/ Answered(p) \/ Get(p)
             \/ GetFail(p) \/ Cold(p)

Store(p) == Put(p) \/ Compact(p) \/ PutFail(p) \/ AppendUnit(p) \/ AppendFail(p)
              \/ AppendEnd(p) \/ DeleteBase(p) \/ DeleteJournal(p) \/ DeleteFail(p)

Round(p) == Baseline(p) \/ Vet(p) \/ Unbuildable(p) \/ Compiled(p) \/ Measure(p)
              \/ PublishPackage(p) \/ PublishNothing(p) \/ TargetsDone(p)
              \/ MeasureSuite(p) \/ CompleteBaseline(p) \/ Race(p) \/ Mutation(p)
              \/ Probe(p) \/ SaveMutant(p) \/ CompleteMutation(p)

End(p) == Discard(p) \/ Verified(p) \/ Fail(p) \/ Keep(p) \/ Collect(p) \/ CollectFile(p)
            \/ CollectEnd(p) \/ Publish(p) \/ PublishFail(p) \/ Release(p)

Next == /\ \E p \in Runs : Open(p) \/ Store(p) \/ Round(p) \/ End(p)
                             \/ AcquireCancel(p) \/ Crash(p)
        /\ UNCHANGED replay

Spec == Init /\ [][Next]_vars

-----------------------------------------------------------------------------
PCs == {"new", "acquire", "get", "cold", "put", "compact", "append", "delete",
        "delete_journal", "baseline", "vet", "compile", "targets", "suites", "race",
        "mutation", "probe", "mutants", "repair", "unsaved", "verified", "failed",
        "collect", "publish", "release", "over"}

\* The checkpoint, the controllers and the lock keep their declared shape; a
\* journal line extends a document that units are appended to.
TypeOK ==
  /\ base \in States \cup {None}
  /\ \A i \in DOMAIN journal : /\ journal[i].base \in States
                               /\ journal[i].base.vet
                               /\ journal[i].unit \in Units
  /\ torn \in BOOLEAN
  /\ lock \in Runs \cup {None} /\ unlocked \in BOOLEAN
  /\ pc \in [Runs -> PCs]
  /\ then \in [Runs -> PCs]
  /\ state \in [Runs -> States]
  /\ known \in [Runs -> States \cup {None}]
  /\ selected \in [Runs -> SUBSET Targets]
  /\ fresh \in [Runs -> SUBSET Targets]
  /\ queue \in [Runs -> SUBSET Units]
  /\ recorded \subseteq Units
  /\ measured \subseteq Mutants \X Catalogs
  /\ origin \subseteq Targets

\* At every moment, whoever has died or failed where, the checkpoint on disk
\* replays without an error: no torn write, interrupted publish or removal
\* that failed costs a later run its saved work.  What does is a target that
\* skipped: it is journaled as docs/checkpoint-v1.md says it is, and Validate
\* refuses the document it is part of.
AlwaysReadable == base # None /\ ~Skips(Replayed(base)) => Replayable(base)

\* Every unit a run was told is saved is in what the next run would read,
\* until somebody gave it up.
NothingLost == recorded \subseteq Durable

\* As long as every run has had the lock, whoever died or failed where, what is
\* on disk holds every unit a run was told is saved, and replays unless one of
\* them is a target that skipped.
JournalIsKept == ~unlocked => AlwaysReadable /\ NothingLost

\* What a run resumes with, or would resume with, was measured for the
\* catalogue it is filed under, with the lock and without it: no line of an
\* older base and no line left by a removal that was cut short comes back
\* under a new one.
ReuseIsSound ==
  LET Sound(s) == \A u \in Of("mutant", s.units) : <<u.id, s.catalog>> \in measured
  IN /\ \A p \in Runs : Sound(state[p])
     /\ base # None /\ Replayable(base) => Sound(Replayed(base))

\* A saved baseline is discarded only for another selection of targets
\* (docs/checkpoint-v1.md: "a changed baseline inventory discards baseline,
\* race, and mutation state").
OnlyChangeDiscards ==
  [][\A p \in Runs : pc[p] = "baseline" /\ pc'[p] = "put" => selected[p] # origin]_vars
=============================================================================
