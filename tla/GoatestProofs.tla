-------------------------- MODULE GoatestProofs --------------------------
(***************************************************************************)
(* Proofs about parts of goatest.  Checkpoint, for any number of runs,     *)
(* targets, packages, mutants and catalogues: nothing is reused that was   *)
(* measured for another catalogue, and under the lock nothing that was     *)
(* saved is lost.  Round, for any options and edits: what a run opened it  *)
(* gives back, and what it files it measured.  Repair, for any batch: it   *)
(* is applied whole or undone, and no save of the user is lost.            *)
(* SessionCalls, for any calls and requests: they leave nothing behind.    *)
(***************************************************************************)
EXTENDS Checkpoint, Round, Repair, SessionCalls, WellFoundedInduction, TLAPS

Lines == [base : States, unit : Units, whole : BOOLEAN]

\* Where the base on disk is the run's own, and where its baseline is vetted.
SavingPCs == {"baseline", "vet", "compile", "targets", "suites", "race", "mutation",
              "probe", "mutants"}
VettedPCs == SavingPCs \ {"baseline", "vet"}
PublishPCs == {"put", "compact"}
IdlePCs == {"new", "acquire", "over"}

\* A file operation goes on where the code that began it goes on.
ThenInv ==
  \A p \in Runs :
    /\ pc[p] \in PublishPCs => then[p] \in SavingPCs \cup {"failed", "repair"}
    /\ pc[p] = "append" => then[p] \in {"targets", "suites", "mutants", "failed"}
    /\ pc[p] \in {"delete", "delete_journal"} => then[p] \in {"unsaved", "cold", "release"}
    /\ pc[p] = "collect" => then[p] \in {"publish", "release"}

SameButUnits(s, b) ==
  /\ s.attempts = b.attempts /\ s.vet = b.vet /\ s.done = b.done /\ s.race = b.race
  /\ s.catalog = b.catalog /\ s.probe = b.probe /\ s.mdone = b.mdone

\* What a run has published differs from what it holds in units alone, and it
\* appends only after its vet is published.
KnownInv ==
  \A p \in Runs :
    /\ pc[p] \in SavingPCs \cup {"compact", "append"} =>
         known[p] \in States /\ SameButUnits(state[p], known[p])
    /\ pc[p] = "compact" => known[p] = state[p]
    /\ pc[p] \in VettedPCs \cup {"append"} => state[p].vet
    /\ pc[p] \in PublishPCs /\ then[p] \in VettedPCs => state[p].vet

At(p, here) ==
  pc[p] \in here \/ (pc[p] \in PublishPCs \cup {"append"} /\ then[p] \in here)
Cataloguing(p) == At(p, {"probe", "mutants"})
Measuring(p) == At(p, {"vet", "compile", "targets", "suites"})

\* A mutant is saved once its catalogue is.
CatalogInv ==
  \A p \in Runs : /\ Cataloguing(p) => state[p].catalog # None
                  /\ \A u \in queue[p] : u.kind = "mutant" => state[p].catalog # None

\* Targets are measured once, and a completed baseline leaves none to measure.
TargetsInv ==
  \A p \in Runs :
    /\ pc[p] # "targets" => fresh[p] = {}
    /\ fresh[p] \subseteq Pending(p)
    /\ Measuring(p) /\ state[p].done => Pending(p) = {}
    /\ pc[p] = "append" /\ then[p] \in {"targets", "suites"} => ~state[p].done

\* What is about to be appended is held.
QueueInv ==
  \A p \in Runs : /\ queue[p] \subseteq state[p].units
                  /\ pc[p] # "append" => queue[p] = {}

\* Every mutant of a document, and of a line under its base's catalogue, was
\* measured for it.
Sound(s) == \A u \in s.units : u.kind = "mutant" => <<u.id, s.catalog>> \in measured
SoundInv ==
  /\ \A p \in Runs : Sound(state[p])
  /\ base # None => Sound(base)
  /\ \A i \in DOMAIN journal :
       journal[i].unit.kind = "mutant" => <<journal[i].unit.id, journal[i].base.catalog>> \in measured

ShapeInv == TypeOK /\ journal \in Seq(Lines)

\* No name comes twice in a document; what was published validates; and the
\* suites are appended while the baseline goes on.
Once(s) == \A u, v \in s.units : NameOf(u) = NameOf(v) => u = v
FitInv ==
  /\ \A p \in Runs : /\ Once(state[p])
                     /\ \A u \in queue[p] : u.kind = "suite" => ~state[p].done
  /\ base # None => Once(base) /\ Valid(base)
  /\ \A i \in DOMAIN journal : journal[i].unit.kind = "suite" => ~journal[i].base.done

SharedInv == ShapeInv /\ ThenInv /\ KnownInv /\ CatalogInv /\ TargetsInv /\ QueueInv /\ SoundInv /\ FitInv

-----------------------------------------------------------------------------
(* Under the lock *)

\* Whoever has files in hand holds the lock.
LeaseInv == \A p \in Runs : pc[p] \notin IdlePCs <=> lock = p

Extending == {journal[i].unit : i \in DOMAIN journal}

\* The run that goes on after a publish has only lines that extend its base, and
\* holds what they and the base say and what it is about to append.
SavedOf(p) ==
  /\ base = known[p] /\ ~torn
  /\ \A i \in DOMAIN journal : journal[i].base = base
  /\ state[p].units = base.units \cup Extending \cup queue[p]
  /\ queue[p] \cap (base.units \cup Extending) = {}
  /\ state[p].done /\ pc[p] \in {"baseline", "vet", "compile", "targets", "suites"} => journal = <<>>

SavedInv == \A p \in Runs : pc[p] \in SavingPCs \cup {"append"} => SavedOf(p)

\* No line extends a document that is about to be published, or was just now.
PublishedOf(p) ==
  /\ \A i \in DOMAIN journal : /\ journal[i].base # state[p]
                               /\ state[p].vet => journal[i].base.attempts <= state[p].attempts
  /\ recorded \subseteq state[p].units
  /\ pc[p] = "compact" => base = state[p]

PublishInv == \A p \in Runs : pc[p] \in PublishPCs => PublishedOf(p)

\* What was given up before its files are removed is owed to nobody.
ForgottenInv ==
  \A p \in Runs : pc[p] \in {"delete", "delete_journal", "cold", "collect"} => recorded = {}

\* The disk, whoever has died: every line was finished, what is there is in order,
\* and what somebody was told is saved is there.
WholeInv == \A i \in DOMAIN journal : journal[i].whole
ReadableInv ==
  base # None =>
    /\ InOrder(base)
    /\ base.vet => \A i \in DOMAIN journal : journal[i].base.attempts <= base.attempts
DiskInv == WholeInv /\ ReadableInv /\ recorded \subseteq Durable

LockedInv ==
  /\ LeaseInv /\ SavedInv /\ PublishInv
  /\ ForgottenInv /\ DiskInv

CheckpointInv == SharedInv /\ (~unlocked => LockedInv)

RunStep(p) == Open(p) \/ Store(p) \/ Round(p) \/ End(p) \/ AcquireCancel(p) \/ Crash(p)

-----------------------------------------------------------------------------
(* The shape of the state *)

\* A new checkpoint is a document.
LEMMA BlankType == Blank \in States
  BY DEF Blank, States

\* Every step keeps the places of the runs and the holder of the lock.
LEMMA PlaceStep ==
  ASSUME TypeOK, NEW p \in Runs, RunStep(p)
  PROVE  pc' \in [Runs -> PCs] /\ then' \in [Runs -> PCs] /\ lock' \in Runs \cup {None} /\ unlocked' \in BOOLEAN
  <1> USE NoneAssumption DEF disk, lease, controller, work, ghost, Goto, PCs
  <1> /\ pc \in [Runs -> PCs] /\ then \in [Runs -> PCs]
      /\ lock \in Runs \cup {None} /\ unlocked \in BOOLEAN
    BY DEF TypeOK
  <1>1. CASE Start(p)  BY <1>1 DEF Start
  <1>2. CASE Acquire(p)  BY <1>2 DEF Acquire
  <1>3. CASE AcquireFail(p)  BY <1>3 DEF AcquireFail
  <1>4. CASE Answered(p)  BY <1>4 DEF Answered
  <1>5. CASE Get(p)  BY <1>5 DEF Get, Persist, Forget
  <1>6. CASE GetFail(p)  BY <1>6 DEF GetFail, Forget
  <1>7. CASE Cold(p)  BY <1>7 DEF Cold, Persist
  <1>8. CASE Put(p)  BY <1>8 DEF Put
  <1>9. CASE Compact(p)  BY <1>9 DEF Compact, Return
  <1>10. CASE PutFail(p)  BY <1>10 DEF PutFail, Disable, Forget
  <1>11. CASE AppendUnit(p)  BY <1>11 DEF AppendUnit, Append1
  <1>12. CASE AppendFail(p)  BY <1>12 DEF AppendFail, Append1, Disable, Forget
  <1>13. CASE AppendEnd(p)  BY <1>13 DEF AppendEnd, Return
  <1>14. CASE DeleteBase(p)  BY <1>14 DEF DeleteBase
  <1>15. CASE DeleteJournal(p)  BY <1>15 DEF DeleteJournal, Return
  <1>16. CASE DeleteFail(p)  BY <1>16 DEF DeleteFail, Return
  <1>17. CASE Baseline(p)  BY <1>17 DEF Baseline, Persist
  <1>18. CASE Vet(p)  BY <1>18 DEF Vet, Persist
  <1>19. CASE Unbuildable(p)  BY <1>19 DEF Unbuildable, Persist
  <1>20. CASE Compiled(p)  BY <1>20 DEF Compiled
  <1>21. CASE Measure(p)  BY <1>21 DEF Measure
  <1>22. CASE PublishPackage(p)  BY <1>22 DEF PublishPackage, Journal
  <1>23. CASE PublishNothing(p)  BY <1>23 DEF PublishNothing, Persist
  <1>24. CASE TargetsDone(p)  BY <1>24 DEF TargetsDone
  <1>25. CASE MeasureSuite(p)  BY <1>25 DEF MeasureSuite, Journal
  <1>26. CASE CompleteBaseline(p)  BY <1>26 DEF CompleteBaseline, Persist
  <1>27. CASE Race(p)  BY <1>27 DEF Race, Persist
  <1>28. CASE Mutation(p)  BY <1>28 DEF Mutation, Persist, NoMutation
  <1>29. CASE Probe(p)  BY <1>29 DEF Probe, Persist, NoMutation
  <1>30. CASE SaveMutant(p)  BY <1>30 DEF SaveMutant, Journal
  <1>31. CASE CompleteMutation(p)  BY <1>31 DEF CompleteMutation, Persist
  <1>32. CASE Discard(p)  BY <1>32 DEF Discard, Forget
  <1>33. CASE Verified(p)  BY <1>33 DEF Verified
  <1>34. CASE Fail(p)  BY <1>34 DEF Fail
  <1>35. CASE Keep(p)  BY <1>35 DEF Keep, Over
  <1>36. CASE Collect(p)  BY <1>36 DEF Collect, Over
  <1>37. CASE CollectFile(p)  BY <1>37 DEF CollectFile
  <1>38. CASE CollectEnd(p)  BY <1>38 DEF CollectEnd, Return
  <1>39. CASE Publish(p)  BY <1>39 DEF Publish, Forget
  <1>40. CASE PublishFail(p)  BY <1>40 DEF PublishFail
  <1>41. CASE Release(p)  BY <1>41 DEF Release, Unlock, Gone
  <1>42. CASE AcquireCancel(p)  BY <1>42 DEF AcquireCancel, Gone
  <1>43. CASE Crash(p)  BY <1>43 DEF Crash, Unlock, Gone, Append1
  <1> QED
    BY <1>1, <1>2, <1>3, <1>4, <1>5, <1>6, <1>7, <1>8, <1>9, <1>10, <1>11,
       <1>12, <1>13, <1>14, <1>15, <1>16, <1>17, <1>18, <1>19, <1>20, <1>21,
       <1>22, <1>23, <1>24, <1>25, <1>26, <1>27, <1>28, <1>29, <1>30, <1>31,
       <1>32, <1>33, <1>34, <1>35, <1>36, <1>37, <1>38, <1>39, <1>40, <1>41,
       <1>42, <1>43
    DEF RunStep, Open, Store, Round, End

\* Every step keeps the shape of what a run has in hand.
LEMMA WorkTypeStep ==
  ASSUME TypeOK, NEW p \in Runs, RunStep(p)
  PROVE  /\ selected' \in [Runs -> SUBSET Targets] /\ fresh' \in [Runs -> SUBSET Targets]
         /\ queue' \in [Runs -> SUBSET Units]
  <1> USE NoneAssumption DEF disk, lease, controller, work, ghost, Goto
  <1> /\ selected \in [Runs -> SUBSET Targets] /\ fresh \in [Runs -> SUBSET Targets]
      /\ queue \in [Runs -> SUBSET Units]
    BY DEF TypeOK
  <1>1. CASE Start(p)  BY <1>1, SelectionsAssumption DEF Start
  <1>2. CASE Acquire(p)  BY <1>2 DEF Acquire
  <1>3. CASE AcquireFail(p)  BY <1>3 DEF AcquireFail
  <1>4. CASE Answered(p)  BY <1>4 DEF Answered
  <1>5. CASE Get(p)  BY <1>5 DEF Get, Persist, Forget
  <1>6. CASE GetFail(p)  BY <1>6 DEF GetFail, Forget
  <1>7. CASE Cold(p)  BY <1>7 DEF Cold, Persist
  <1>8. CASE Put(p)  BY <1>8 DEF Put
  <1>9. CASE Compact(p)  BY <1>9 DEF Compact, Return
  <1>10. CASE PutFail(p)  BY <1>10 DEF PutFail, Disable, Forget
  <1>11. CASE AppendUnit(p)  BY <1>11 DEF AppendUnit, Append1
  <1>12. CASE AppendFail(p)  BY <1>12 DEF AppendFail, Append1, Disable, Forget
  <1>13. CASE AppendEnd(p)  BY <1>13 DEF AppendEnd, Return
  <1>14. CASE DeleteBase(p)  BY <1>14 DEF DeleteBase
  <1>15. CASE DeleteJournal(p)  BY <1>15 DEF DeleteJournal, Return
  <1>16. CASE DeleteFail(p)  BY <1>16 DEF DeleteFail, Return
  <1>17. CASE Baseline(p)  BY <1>17 DEF Baseline, Persist
  <1>18. CASE Vet(p)  BY <1>18 DEF Vet, Persist
  <1>19. CASE Unbuildable(p)  BY <1>19 DEF Unbuildable, Persist
  <1>20. CASE Compiled(p)  BY <1>20 DEF Compiled
  <1>21. CASE Measure(p)  BY <1>21 DEF Measure, Pending
  <1>22. CASE PublishPackage(p)  BY <1>22 DEF PublishPackage, Journal, Units, Classified
  <1>23. CASE PublishNothing(p)  BY <1>23 DEF PublishNothing, Persist
  <1>24. CASE TargetsDone(p)  BY <1>24 DEF TargetsDone
  <1>25. CASE MeasureSuite(p)  BY <1>25 DEF MeasureSuite, Journal, Units
  <1>26. CASE CompleteBaseline(p)  BY <1>26 DEF CompleteBaseline, Persist
  <1>27. CASE Race(p)  BY <1>27 DEF Race, Persist
  <1>28. CASE Mutation(p)  BY <1>28 DEF Mutation, Persist, NoMutation
  <1>29. CASE Probe(p)  BY <1>29 DEF Probe, Persist, NoMutation
  <1>30. CASE SaveMutant(p)  BY <1>30 DEF SaveMutant, Journal, Units
  <1>31. CASE CompleteMutation(p)  BY <1>31 DEF CompleteMutation, Persist
  <1>32. CASE Discard(p)  BY <1>32 DEF Discard, Forget
  <1>33. CASE Verified(p)  BY <1>33 DEF Verified
  <1>34. CASE Fail(p)  BY <1>34 DEF Fail
  <1>35. CASE Keep(p)  BY <1>35 DEF Keep, Over
  <1>36. CASE Collect(p)  BY <1>36 DEF Collect, Over
  <1>37. CASE CollectFile(p)  BY <1>37 DEF CollectFile
  <1>38. CASE CollectEnd(p)  BY <1>38 DEF CollectEnd, Return
  <1>39. CASE Publish(p)  BY <1>39 DEF Publish, Forget
  <1>40. CASE PublishFail(p)  BY <1>40 DEF PublishFail
  <1>41. CASE Release(p)  BY <1>41 DEF Release, Unlock, Gone
  <1>42. CASE AcquireCancel(p)  BY <1>42 DEF AcquireCancel, Gone
  <1>43. CASE Crash(p)  BY <1>43 DEF Crash, Unlock, Gone, Append1
  <1> QED
    BY <1>1, <1>2, <1>3, <1>4, <1>5, <1>6, <1>7, <1>8, <1>9, <1>10, <1>11,
       <1>12, <1>13, <1>14, <1>15, <1>16, <1>17, <1>18, <1>19, <1>20, <1>21,
       <1>22, <1>23, <1>24, <1>25, <1>26, <1>27, <1>28, <1>29, <1>30, <1>31,
       <1>32, <1>33, <1>34, <1>35, <1>36, <1>37, <1>38, <1>39, <1>40, <1>41,
       <1>42, <1>43
    DEF RunStep, Open, Store, Round, End

\* Every step keeps the shape of what is owed.
LEMMA GhostStep ==
  ASSUME TypeOK, CatalogInv, NEW p \in Runs, RunStep(p)
  PROVE  recorded' \subseteq Units /\ measured' \subseteq Mutants \X Catalogs /\ origin' \subseteq Targets
  <1> USE NoneAssumption DEF disk, lease, controller, work, ghost, Goto
  <1> /\ recorded \subseteq Units /\ measured \subseteq Mutants \X Catalogs /\ origin \subseteq Targets
      /\ state \in [Runs -> States] /\ selected \in [Runs -> SUBSET Targets]
      /\ queue \in [Runs -> SUBSET Units]
    BY DEF TypeOK
  <1> state[p].units \subseteq Units  BY DEF States
  <1>1. CASE Start(p)  BY <1>1 DEF Start
  <1>2. CASE Acquire(p)  BY <1>2 DEF Acquire
  <1>3. CASE AcquireFail(p)  BY <1>3 DEF AcquireFail
  <1>4. CASE Answered(p)  BY <1>4 DEF Answered
  <1>5. CASE Get(p)  BY <1>5 DEF Get, Persist, Forget
  <1>6. CASE GetFail(p)  BY <1>6 DEF GetFail, Forget
  <1>7. CASE Cold(p)  BY <1>7 DEF Cold, Persist
  <1>8. CASE Put(p)  BY <1>8 DEF Put
  <1>9. CASE Compact(p)  BY <1>9 DEF Compact, Return
  <1>10. CASE PutFail(p)  BY <1>10 DEF PutFail, Disable, Forget
  <1>11. CASE AppendUnit(p)  BY <1>11 DEF AppendUnit, Append1
  <1>12. CASE AppendFail(p)  BY <1>12 DEF AppendFail, Append1, Disable, Forget
  <1>13. CASE AppendEnd(p)  BY <1>13 DEF AppendEnd, Return
  <1>14. CASE DeleteBase(p)  BY <1>14 DEF DeleteBase
  <1>15. CASE DeleteJournal(p)  BY <1>15 DEF DeleteJournal, Return
  <1>16. CASE DeleteFail(p)  BY <1>16 DEF DeleteFail, Return
  <1>17. CASE Baseline(p)  BY <1>17 DEF Baseline, Persist
  <1>18. CASE Vet(p)  BY <1>18 DEF Vet, Persist
  <1>19. CASE Unbuildable(p)  BY <1>19 DEF Unbuildable, Persist
  <1>20. CASE Compiled(p)  BY <1>20 DEF Compiled
  <1>21. CASE Measure(p)  BY <1>21 DEF Measure
  <1>22. CASE PublishPackage(p)  BY <1>22 DEF PublishPackage, Journal
  <1>23. CASE PublishNothing(p)  BY <1>23 DEF PublishNothing, Persist
  <1>24. CASE TargetsDone(p)  BY <1>24 DEF TargetsDone
  <1>25. CASE MeasureSuite(p)  BY <1>25 DEF MeasureSuite, Journal
  <1>26. CASE CompleteBaseline(p)  BY <1>26 DEF CompleteBaseline, Persist
  <1>27. CASE Race(p)  BY <1>27 DEF Race, Persist
  <1>28. CASE Mutation(p)  BY <1>28 DEF Mutation, Persist, NoMutation
  <1>29. CASE Probe(p)  BY <1>29 DEF Probe, Persist, NoMutation
  <1>30. CASE SaveMutant(p)
    <2>0. UNCHANGED <<recorded, origin>>  BY <1>30 DEF SaveMutant
    <2>1. PICK m \in Mutants : Journal(p, {Mutant(m)}, "mutants") /\ measured' = measured \cup {<<m, state[p].catalog>>}
      BY <1>30 DEF SaveMutant
    <2>2. state[p].catalog \in Catalogs
      BY <1>30 DEF SaveMutant, CatalogInv, Cataloguing, At, States
    <2> QED BY <2>0, <2>1, <2>2
  <1>31. CASE CompleteMutation(p)  BY <1>31 DEF CompleteMutation, Persist
  <1>32. CASE Discard(p)  BY <1>32 DEF Discard, Forget
  <1>33. CASE Verified(p)  BY <1>33 DEF Verified
  <1>34. CASE Fail(p)  BY <1>34 DEF Fail
  <1>35. CASE Keep(p)  BY <1>35 DEF Keep, Over
  <1>36. CASE Collect(p)  BY <1>36 DEF Collect, Over
  <1>37. CASE CollectFile(p)  BY <1>37 DEF CollectFile
  <1>38. CASE CollectEnd(p)  BY <1>38 DEF CollectEnd, Return
  <1>39. CASE Publish(p)  BY <1>39 DEF Publish, Forget
  <1>40. CASE PublishFail(p)  BY <1>40 DEF PublishFail
  <1>41. CASE Release(p)  BY <1>41 DEF Release, Unlock, Gone
  <1>42. CASE AcquireCancel(p)  BY <1>42 DEF AcquireCancel, Gone
  <1>43. CASE Crash(p)  BY <1>43 DEF Crash, Unlock, Gone, Append1
  <1> QED
    BY <1>1, <1>2, <1>3, <1>4, <1>5, <1>6, <1>7, <1>8, <1>9, <1>10, <1>11,
       <1>12, <1>13, <1>14, <1>15, <1>16, <1>17, <1>18, <1>19, <1>20, <1>21,
       <1>22, <1>23, <1>24, <1>25, <1>26, <1>27, <1>28, <1>29, <1>30, <1>31,
       <1>32, <1>33, <1>34, <1>35, <1>36, <1>37, <1>38, <1>39, <1>40, <1>41,
       <1>42, <1>43
    DEF RunStep, Open, Store, Round, End

\* What the controllers make of a document is a document.
LEMMA MoreUnits ==
  ASSUME NEW s \in States, NEW U \in SUBSET Units
  PROVE  [s EXCEPT !.units = @ \cup U] \in States
  <1>1. s.units \cup U \subseteq Units  BY DEF States
  <1> QED BY <1>1 DEF States

LEMMA Documents ==
  ASSUME NEW s \in States
  PROVE  /\ [s EXCEPT !.attempts = @ + 1] \in States
         /\ [Blank EXCEPT !.attempts = s.attempts] \in States
         /\ [s EXCEPT !.vet = TRUE] \in States
         /\ [s EXCEPT !.race = TRUE] \in States
         /\ [s EXCEPT !.probe = TRUE] \in States
         /\ [s EXCEPT !.mdone = TRUE] \in States
         /\ [s EXCEPT !.done = TRUE, !.units = @ \ Of("suite", @)] \in States
         /\ [s EXCEPT !.race = FALSE, !.catalog = None, !.probe = FALSE,
                      !.mdone = FALSE, !.units = @ \ Of("mutant", @)] \in States
         /\ \A c \in Catalogs \cup {None} : NoMutation(s, c) \in States
  <1>1. s.units \subseteq Units /\ s.attempts \in Nat  BY DEF States
  <1>2. /\ s.units \ Of("suite", s.units) \subseteq Units
        /\ s.units \ Of("mutant", s.units) \subseteq Units
    BY <1>1
  <1>5. [s EXCEPT !.attempts = @ + 1] \in States  BY <1>1 DEF States
  <1>6. [Blank EXCEPT !.attempts = s.attempts] \in States  BY <1>1 DEF States, Blank
  <1>7. [s EXCEPT !.vet = TRUE] \in States /\ [s EXCEPT !.race = TRUE] \in States  BY DEF States
  <1>8. [s EXCEPT !.probe = TRUE] \in States /\ [s EXCEPT !.mdone = TRUE] \in States  BY DEF States
  <1>9. [s EXCEPT !.done = TRUE, !.units = @ \ Of("suite", @)] \in States  BY <1>2 DEF States
  <1>10. [s EXCEPT !.race = FALSE, !.catalog = None, !.probe = FALSE,
                   !.mdone = FALSE, !.units = @ \ Of("mutant", @)] \in States
    BY <1>2 DEF States
  <1>11. \A c \in Catalogs \cup {None} : NoMutation(s, c) \in States  BY <1>2 DEF States, NoMutation
  <1> QED BY <1>5, <1>6, <1>7, <1>8, <1>9, <1>10, <1>11

\* What a base and its journal say is a document.
LEMMA ReplayedType ==
  ASSUME ShapeInv, NEW b \in States
  PROVE  Replayed(b) \in States
  <1>1. \A i \in Current(b) : journal[i].unit \in Units  BY DEF ShapeInv, TypeOK, Current
  <1>2. {journal[i].unit : i \in Current(b)} \subseteq Units  BY <1>1
  <1> QED BY <1>2, MoreUnits DEF Replayed

\* Every step keeps the shape of the documents.
LEMMA StateTypeStep ==
  ASSUME ShapeInv, NEW p \in Runs, RunStep(p)
  PROVE  /\ base' \in States \cup {None} /\ torn' \in BOOLEAN
         /\ state' \in [Runs -> States] /\ known' \in [Runs -> States \cup {None}]
  <1> USE NoneAssumption DEF disk, lease, controller, work, ghost, Goto
  <1> /\ base \in States \cup {None} /\ torn \in BOOLEAN
      /\ state \in [Runs -> States] /\ known \in [Runs -> States \cup {None}]
    BY DEF ShapeInv, TypeOK
  <1> Blank \in States  BY BlankType
  <1>1. CASE Start(p)  BY <1>1 DEF Start
  <1>2. CASE Acquire(p)  BY <1>2 DEF Acquire
  <1>3. CASE AcquireFail(p)  BY <1>3 DEF AcquireFail
  <1>4. CASE Answered(p)  BY <1>4 DEF Answered
  <1>5. CASE Get(p)
    <2>0. UNCHANGED <<base, torn>>  BY <1>5 DEF Get
    <2>1. CASE base = None /\ Persist(p, Blank, "baseline") /\ UNCHANGED known
      BY <2>0, <2>1 DEF Persist
    <2>2. CASE base # None /\ known' = [known EXCEPT ![p] = base]
               /\ Persist(p, [Replayed(base) EXCEPT !.attempts = @ + 1], "baseline")
      <3>1. PICK s \in States : state' = [state EXCEPT ![p] = s]
        BY <2>2, ReplayedType, Documents DEF Persist
      <3> QED BY <2>0, <2>2, <3>1
    <2>3. CASE UNCHANGED <<known, state>>  BY <2>0, <2>3
    <2> QED BY <1>5, <2>1, <2>2, <2>3 DEF Get
  <1>6. CASE GetFail(p)  BY <1>6 DEF GetFail, Forget
  <1>7. CASE Cold(p)  BY <1>7 DEF Cold, Persist
  <1>8. CASE Put(p)  BY <1>8 DEF Put
  <1>9. CASE Compact(p)  BY <1>9 DEF Compact, Return
  <1>10. CASE PutFail(p)  BY <1>10 DEF PutFail, Disable, Forget
  <1>11. CASE AppendUnit(p)  BY <1>11 DEF AppendUnit, Append1
  <1>12. CASE AppendFail(p)  BY <1>12 DEF AppendFail, Append1, Disable, Forget
  <1>13. CASE AppendEnd(p)  BY <1>13 DEF AppendEnd, Return
  <1>14. CASE DeleteBase(p)  BY <1>14 DEF DeleteBase
  <1>15. CASE DeleteJournal(p)  BY <1>15 DEF DeleteJournal, Return
  <1>16. CASE DeleteFail(p)  BY <1>16 DEF DeleteFail, Return
  <1>17. CASE Baseline(p)
    <2>0. UNCHANGED <<base, torn, known>>  BY <1>17 DEF Baseline
    <2>1. UNCHANGED state \/ \E s \in States : state' = [state EXCEPT ![p] = s]
      BY <1>17, Documents DEF Baseline, Persist
    <2> QED BY <2>0, <2>1
  <1>18. CASE Vet(p)
    <2>0. UNCHANGED <<base, torn, known>>  BY <1>18 DEF Vet
    <2>1. UNCHANGED state \/ \E s \in States : state' = [state EXCEPT ![p] = s]
      BY <1>18, Documents DEF Vet, Persist
    <2> QED BY <2>0, <2>1
  <1>19. CASE Unbuildable(p)
    <2>0. UNCHANGED <<base, torn, known>>  BY <1>19 DEF Unbuildable
    <2>1. PICK units \in SUBSET Units : state' = [state EXCEPT ![p] = [state[p] EXCEPT !.units = @ \cup units]]
      <3>1. PICK k \in Packages : \E settled \in SUBSET Units :
              Persist(p, [state[p] EXCEPT !.units = @ \cup settled], "compile")
        BY <1>19, PackagesAssumption DEF Unbuildable, Units, Pending, ShapeInv, TypeOK
      <3> QED BY <3>1 DEF Persist
    <2>2. [state[p] EXCEPT !.units = @ \cup units] \in States  BY MoreUnits
    <2> QED BY <2>0, <2>1, <2>2
  <1>20. CASE Compiled(p)  BY <1>20 DEF Compiled
  <1>21. CASE Measure(p)  BY <1>21 DEF Measure
  <1>22. CASE PublishPackage(p)
    <2>0. UNCHANGED <<base, torn, known>>  BY <1>22 DEF PublishPackage
    <2>1. PICK units \in SUBSET Units : state' = [state EXCEPT ![p] = [state[p] EXCEPT !.units = @ \cup units]]
      <3>1. {Classified(t) : t \in fresh[p]} \in SUBSET Units  BY DEF Units, Classified, ShapeInv, TypeOK
      <3> QED BY <1>22, <3>1 DEF PublishPackage, Journal
    <2>2. [state[p] EXCEPT !.units = @ \cup units] \in States  BY MoreUnits
    <2> QED BY <2>0, <2>1, <2>2
  <1>23. CASE PublishNothing(p)  BY <1>23 DEF PublishNothing, Persist
  <1>24. CASE TargetsDone(p)  BY <1>24 DEF TargetsDone
  <1>25. CASE MeasureSuite(p)
    <2>0. UNCHANGED <<base, torn, known>>  BY <1>25 DEF MeasureSuite
    <2>1. PICK units \in SUBSET Units : state' = [state EXCEPT ![p] = [state[p] EXCEPT !.units = @ \cup units]]
      <3>1. \A k \in Packages : {Suite(k)} \in SUBSET Units  BY DEF Units
      <3> QED BY <1>25, <3>1 DEF MeasureSuite, Journal
    <2>2. [state[p] EXCEPT !.units = @ \cup units] \in States  BY MoreUnits
    <2> QED BY <2>0, <2>1, <2>2
  <1>26. CASE CompleteBaseline(p)
    <2>0. UNCHANGED <<base, torn, known>>  BY <1>26 DEF CompleteBaseline
    <2>1. UNCHANGED state \/ \E s \in States : state' = [state EXCEPT ![p] = s]
      BY <1>26, Documents DEF CompleteBaseline, Persist
    <2> QED BY <2>0, <2>1
  <1>27. CASE Race(p)
    <2>0. UNCHANGED <<base, torn, known>>  BY <1>27 DEF Race
    <2>1. UNCHANGED state \/ \E s \in States : state' = [state EXCEPT ![p] = s]
      BY <1>27, Documents DEF Race, Persist
    <2> QED BY <2>0, <2>1
  <1>28. CASE Mutation(p)
    <2>0. UNCHANGED <<base, torn, known>>  BY <1>28 DEF Mutation
    <2>1. UNCHANGED state \/ \E s \in States : state' = [state EXCEPT ![p] = s]
      BY <1>28, Documents DEF Mutation, Persist
    <2> QED BY <2>0, <2>1
  <1>29. CASE Probe(p)
    <2>0. UNCHANGED <<base, torn, known>>  BY <1>29 DEF Probe
    <2>1. UNCHANGED state \/ \E s \in States : state' = [state EXCEPT ![p] = s]
      <3>1. state[p].catalog \in Catalogs \cup {None}  BY DEF States
      <3> QED BY <1>29, <3>1, Documents DEF Probe, Persist
    <2> QED BY <2>0, <2>1
  <1>30. CASE SaveMutant(p)
    <2>0. UNCHANGED <<base, torn, known>>  BY <1>30 DEF SaveMutant
    <2>1. PICK units \in SUBSET Units : state' = [state EXCEPT ![p] = [state[p] EXCEPT !.units = @ \cup units]]
      <3>1. \A m \in Mutants : {Mutant(m)} \in SUBSET Units  BY DEF Units
      <3> QED BY <1>30, <3>1 DEF SaveMutant, Journal
    <2>2. [state[p] EXCEPT !.units = @ \cup units] \in States  BY MoreUnits
    <2> QED BY <2>0, <2>1, <2>2
  <1>31. CASE CompleteMutation(p)
    <2>0. UNCHANGED <<base, torn, known>>  BY <1>31 DEF CompleteMutation
    <2>1. UNCHANGED state \/ \E s \in States : state' = [state EXCEPT ![p] = s]
      BY <1>31, Documents DEF CompleteMutation, Persist
    <2> QED BY <2>0, <2>1
  <1>32. CASE Discard(p)  BY <1>32 DEF Discard, Forget
  <1>33. CASE Verified(p)  BY <1>33 DEF Verified
  <1>34. CASE Fail(p)  BY <1>34 DEF Fail
  <1>35. CASE Keep(p)  BY <1>35 DEF Keep, Over
  <1>36. CASE Collect(p)  BY <1>36 DEF Collect, Over
  <1>37. CASE CollectFile(p)  BY <1>37 DEF CollectFile
  <1>38. CASE CollectEnd(p)  BY <1>38 DEF CollectEnd, Return
  <1>39. CASE Publish(p)  BY <1>39 DEF Publish, Forget
  <1>40. CASE PublishFail(p)  BY <1>40 DEF PublishFail
  <1>41. CASE Release(p)  BY <1>41 DEF Release, Unlock, Gone
  <1>42. CASE AcquireCancel(p)  BY <1>42 DEF AcquireCancel, Gone
  <1>43. CASE Crash(p)  BY <1>43 DEF Crash, Unlock, Gone, Append1
  <1> QED
    BY <1>1, <1>2, <1>3, <1>4, <1>5, <1>6, <1>7, <1>8, <1>9, <1>10, <1>11,
       <1>12, <1>13, <1>14, <1>15, <1>16, <1>17, <1>18, <1>19, <1>20, <1>21,
       <1>22, <1>23, <1>24, <1>25, <1>26, <1>27, <1>28, <1>29, <1>30, <1>31,
       <1>32, <1>33, <1>34, <1>35, <1>36, <1>37, <1>38, <1>39, <1>40, <1>41,
       <1>42, <1>43
    DEF RunStep, Open, Store, Round, End

\* One more line in the journal.
LEMMA OneMoreLine ==
  ASSUME ShapeInv, KnownInv, NEW p \in Runs, pc[p] = "append", NEW u \in queue[p], Append1(p, u)
  PROVE  /\ journal' \in Seq(Lines) /\ torn' = FALSE
         /\ DOMAIN journal' = DOMAIN journal \cup {Len(journal) + 1}
         /\ \A i \in DOMAIN journal : journal'[i] = journal[i] /\ i \in Nat /\ i < Len(journal) + 1
         /\ Len(journal) + 1 \in Nat
         /\ journal'[Len(journal) + 1].base = known[p]
         /\ journal'[Len(journal) + 1].unit = u
         /\ journal'[Len(journal) + 1].whole = ~torn
         /\ known[p] \in States /\ known[p].vet /\ u \in Units
  <1> DEFINE line == [base |-> known[p], unit |-> u, whole |-> ~torn]
  <1>1. journal \in Seq(Lines) /\ torn \in BOOLEAN /\ u \in Units  BY DEF ShapeInv, TypeOK
  <1>2. known[p] \in States /\ known[p].vet
    <2>1. known[p] \in States /\ SameButUnits(state[p], known[p]) /\ state[p].vet
      BY DEF KnownInv
    <2>2. state[p].vet = known[p].vet  BY <2>1 DEF SameButUnits
    <2> QED BY <2>1, <2>2
  <1>3. [Line(known[p], u) EXCEPT !.whole = ~torn] = line  BY DEF Line
  <1>4. line \in Lines  BY <1>1, <1>2 DEF Lines
  <1>5. journal' = Append(journal, line) /\ torn' = FALSE  BY <1>3 DEF Append1
  <1> HIDE DEF line
  <1>6. /\ journal' \in Seq(Lines)
        /\ DOMAIN journal' = DOMAIN journal \cup {Len(journal) + 1}
        /\ \A i \in DOMAIN journal : journal'[i] = journal[i] /\ i \in Nat /\ i < Len(journal) + 1
        /\ Len(journal) + 1 \in Nat
        /\ journal'[Len(journal) + 1] = line
    BY <1>1, <1>4, <1>5
  <1>7. line.base = known[p] /\ line.unit = u /\ line.whole = ~torn  BY DEF line
  <1> QED BY <1>1, <1>2, <1>5, <1>6, <1>7

\* Every step keeps the shape of the journal.
LEMMA JournalStep ==
  ASSUME ShapeInv, KnownInv, NEW p \in Runs, RunStep(p)
  PROVE  /\ journal' \in Seq(Lines)
         /\ \A i \in DOMAIN journal' : /\ journal'[i].base \in States
                                       /\ journal'[i].base.vet
                                       /\ journal'[i].unit \in Units
  <1> USE NoneAssumption DEF disk, lease, controller, work, ghost, Goto
  <1> /\ journal \in Seq(Lines)
      /\ \A i \in DOMAIN journal : /\ journal[i].base \in States
                                   /\ journal[i].base.vet
                                   /\ journal[i].unit \in Units
    BY DEF ShapeInv, TypeOK
  <1>a. ASSUME pc[p] = "append", NEW u \in queue[p], Append1(p, u)
        PROVE  /\ journal' \in Seq(Lines)
               /\ \A i \in DOMAIN journal' : /\ journal'[i].base \in States
                                             /\ journal'[i].base.vet
                                             /\ journal'[i].unit \in Units
    <2>1. /\ journal' \in Seq(Lines)
          /\ DOMAIN journal' = DOMAIN journal \cup {Len(journal) + 1}
          /\ \A i \in DOMAIN journal : journal'[i] = journal[i]
          /\ journal'[Len(journal) + 1].base = known[p]
          /\ journal'[Len(journal) + 1].unit = u
          /\ known[p] \in States /\ known[p].vet /\ u \in Units
      BY <1>a, OneMoreLine
    <2> QED BY <2>1
  <1>1. CASE Start(p)  BY <1>1 DEF Start
  <1>2. CASE Acquire(p)  BY <1>2 DEF Acquire
  <1>3. CASE AcquireFail(p)  BY <1>3 DEF AcquireFail
  <1>4. CASE Answered(p)  BY <1>4 DEF Answered
  <1>5. CASE Get(p)  BY <1>5 DEF Get, Persist, Forget
  <1>6. CASE GetFail(p)  BY <1>6 DEF GetFail, Forget
  <1>7. CASE Cold(p)  BY <1>7 DEF Cold, Persist
  <1>8. CASE Put(p)  BY <1>8 DEF Put
  <1>9. CASE Compact(p)  BY <1>9 DEF Compact, Return
  <1>10. CASE PutFail(p)  BY <1>10 DEF PutFail, Disable, Forget
  <1>11. CASE AppendUnit(p)
    <2>1. PICK u \in queue[p] : Append1(p, u)  BY <1>11 DEF AppendUnit
    <2> QED BY <1>11, <2>1, <1>a DEF AppendUnit
  <1>12. CASE AppendFail(p)
    <2>1. CASE UNCHANGED journal  BY <2>1
    <2>2. CASE \E u \in queue[p] : Append1(p, u)  BY <1>12, <2>2, <1>a DEF AppendFail
    <2> QED BY <1>12, <2>1, <2>2 DEF AppendFail
  <1>13. CASE AppendEnd(p)  BY <1>13 DEF AppendEnd, Return
  <1>14. CASE DeleteBase(p)  BY <1>14 DEF DeleteBase
  <1>15. CASE DeleteJournal(p)  BY <1>15 DEF DeleteJournal, Return
  <1>16. CASE DeleteFail(p)  BY <1>16 DEF DeleteFail, Return
  <1>17. CASE Baseline(p)  BY <1>17 DEF Baseline, Persist
  <1>18. CASE Vet(p)  BY <1>18 DEF Vet, Persist
  <1>19. CASE Unbuildable(p)  BY <1>19 DEF Unbuildable, Persist
  <1>20. CASE Compiled(p)  BY <1>20 DEF Compiled
  <1>21. CASE Measure(p)  BY <1>21 DEF Measure
  <1>22. CASE PublishPackage(p)  BY <1>22 DEF PublishPackage, Journal
  <1>23. CASE PublishNothing(p)  BY <1>23 DEF PublishNothing, Persist
  <1>24. CASE TargetsDone(p)  BY <1>24 DEF TargetsDone
  <1>25. CASE MeasureSuite(p)  BY <1>25 DEF MeasureSuite, Journal
  <1>26. CASE CompleteBaseline(p)  BY <1>26 DEF CompleteBaseline, Persist
  <1>27. CASE Race(p)  BY <1>27 DEF Race, Persist
  <1>28. CASE Mutation(p)  BY <1>28 DEF Mutation, Persist, NoMutation
  <1>29. CASE Probe(p)  BY <1>29 DEF Probe, Persist, NoMutation
  <1>30. CASE SaveMutant(p)  BY <1>30 DEF SaveMutant, Journal
  <1>31. CASE CompleteMutation(p)  BY <1>31 DEF CompleteMutation, Persist
  <1>32. CASE Discard(p)  BY <1>32 DEF Discard, Forget
  <1>33. CASE Verified(p)  BY <1>33 DEF Verified
  <1>34. CASE Fail(p)  BY <1>34 DEF Fail
  <1>35. CASE Keep(p)  BY <1>35 DEF Keep, Over
  <1>36. CASE Collect(p)  BY <1>36 DEF Collect, Over
  <1>37. CASE CollectFile(p)
    <2>1. CASE UNCHANGED journal  BY <2>1
    <2>2. CASE journal' = <<>>  BY <2>2
    <2> QED BY <1>37, <2>1, <2>2 DEF CollectFile
  <1>38. CASE CollectEnd(p)  BY <1>38 DEF CollectEnd, Return
  <1>39. CASE Publish(p)  BY <1>39 DEF Publish, Forget
  <1>40. CASE PublishFail(p)  BY <1>40 DEF PublishFail
  <1>41. CASE Release(p)  BY <1>41 DEF Release, Unlock, Gone
  <1>42. CASE AcquireCancel(p)  BY <1>42 DEF AcquireCancel, Gone
  <1>43. CASE Crash(p)
    <2>1. CASE UNCHANGED journal  BY <2>1
    <2>2. CASE pc[p] = "append" /\ \E u \in queue[p] : Append1(p, u)  BY <2>2, <1>a
    <2> QED BY <1>43, <2>1, <2>2 DEF Crash
  <1> QED
    BY <1>1, <1>2, <1>3, <1>4, <1>5, <1>6, <1>7, <1>8, <1>9, <1>10, <1>11,
       <1>12, <1>13, <1>14, <1>15, <1>16, <1>17, <1>18, <1>19, <1>20, <1>21,
       <1>22, <1>23, <1>24, <1>25, <1>26, <1>27, <1>28, <1>29, <1>30, <1>31,
       <1>32, <1>33, <1>34, <1>35, <1>36, <1>37, <1>38, <1>39, <1>40, <1>41,
       <1>42, <1>43
    DEF RunStep, Open, Store, Round, End

LEMMA ShapeStep ==
  ASSUME ShapeInv, KnownInv, CatalogInv, NEW p \in Runs, RunStep(p)
  PROVE  ShapeInv'
  BY PlaceStep, WorkTypeStep, GhostStep, StateTypeStep, JournalStep DEF ShapeInv, TypeOK

-----------------------------------------------------------------------------
(* What a controller knows *)

\* Every file operation is begun by code that goes on.
LEMMA ThenStep ==
  ASSUME TypeOK, ThenInv, NEW p \in Runs, RunStep(p)
  PROVE  ThenInv'
  <1> USE NoneAssumption DEF disk, lease, controller, work, ghost, Goto, SavingPCs, PublishPCs
  <1> pc \in [Runs -> PCs] /\ then \in [Runs -> PCs]  BY DEF TypeOK
  <1> SUFFICES ASSUME NEW q \in Runs
               PROVE  /\ pc'[q] \in PublishPCs => then'[q] \in SavingPCs \cup {"failed", "repair"}
                      /\ pc'[q] = "append" => then'[q] \in {"targets", "suites", "mutants", "failed"}
                      /\ pc'[q] \in {"delete", "delete_journal"} => then'[q] \in {"unsaved", "cold", "release"}
                      /\ pc'[q] = "collect" => then'[q] \in {"publish", "release"}
    BY DEF ThenInv
  <1> /\ pc[q] \in PublishPCs => then[q] \in SavingPCs \cup {"failed", "repair"}
      /\ pc[q] = "append" => then[q] \in {"targets", "suites", "mutants", "failed"}
      /\ pc[q] \in {"delete", "delete_journal"} => then[q] \in {"unsaved", "cold", "release"}
      /\ pc[q] = "collect" => then[q] \in {"publish", "release"}
    BY DEF ThenInv
  <1>1. CASE Start(p)  BY <1>1 DEF Start
  <1>2. CASE Acquire(p)  BY <1>2 DEF Acquire
  <1>3. CASE AcquireFail(p)  BY <1>3 DEF AcquireFail
  <1>4. CASE Answered(p)  BY <1>4 DEF Answered
  <1>5. CASE Get(p)  BY <1>5 DEF Get, Persist, Forget
  <1>6. CASE GetFail(p)  BY <1>6 DEF GetFail, Forget
  <1>7. CASE Cold(p)  BY <1>7 DEF Cold, Persist
  <1>8. CASE Put(p)  BY <1>8 DEF Put
  <1>9. CASE Compact(p)  BY <1>9 DEF Compact, Return
  <1>10. CASE PutFail(p)  BY <1>10 DEF PutFail, Disable, Forget
  <1>11. CASE AppendUnit(p)  BY <1>11 DEF AppendUnit, Append1
  <1>12. CASE AppendFail(p)  BY <1>12 DEF AppendFail, Append1, Disable, Forget
  <1>13. CASE AppendEnd(p)  BY <1>13 DEF AppendEnd, Return
  <1>14. CASE DeleteBase(p)  BY <1>14 DEF DeleteBase
  <1>15. CASE DeleteJournal(p)  BY <1>15 DEF DeleteJournal, Return
  <1>16. CASE DeleteFail(p)  BY <1>16 DEF DeleteFail, Return
  <1>17. CASE Baseline(p)  BY <1>17 DEF Baseline, Persist
  <1>18. CASE Vet(p)  BY <1>18 DEF Vet, Persist
  <1>19. CASE Unbuildable(p)  BY <1>19 DEF Unbuildable, Persist
  <1>20. CASE Compiled(p)  BY <1>20 DEF Compiled
  <1>21. CASE Measure(p)  BY <1>21 DEF Measure
  <1>22. CASE PublishPackage(p)  BY <1>22 DEF PublishPackage, Journal
  <1>23. CASE PublishNothing(p)  BY <1>23 DEF PublishNothing, Persist
  <1>24. CASE TargetsDone(p)  BY <1>24 DEF TargetsDone
  <1>25. CASE MeasureSuite(p)  BY <1>25 DEF MeasureSuite, Journal
  <1>26. CASE CompleteBaseline(p)  BY <1>26 DEF CompleteBaseline, Persist
  <1>27. CASE Race(p)  BY <1>27 DEF Race, Persist
  <1>28. CASE Mutation(p)  BY <1>28 DEF Mutation, Persist, NoMutation
  <1>29. CASE Probe(p)  BY <1>29 DEF Probe, Persist, NoMutation
  <1>30. CASE SaveMutant(p)  BY <1>30 DEF SaveMutant, Journal
  <1>31. CASE CompleteMutation(p)  BY <1>31 DEF CompleteMutation, Persist
  <1>32. CASE Discard(p)  BY <1>32 DEF Discard, Forget
  <1>33. CASE Verified(p)  BY <1>33 DEF Verified
  <1>34. CASE Fail(p)  BY <1>34 DEF Fail
  <1>35. CASE Keep(p)  BY <1>35 DEF Keep, Over
  <1>36. CASE Collect(p)  BY <1>36 DEF Collect, Over
  <1>37. CASE CollectFile(p)  BY <1>37 DEF CollectFile
  <1>38. CASE CollectEnd(p)  BY <1>38 DEF CollectEnd, Return
  <1>39. CASE Publish(p)  BY <1>39 DEF Publish, Forget
  <1>40. CASE PublishFail(p)  BY <1>40 DEF PublishFail
  <1>41. CASE Release(p)  BY <1>41 DEF Release, Unlock, Gone
  <1>42. CASE AcquireCancel(p)  BY <1>42 DEF AcquireCancel, Gone
  <1>43. CASE Crash(p)  BY <1>43 DEF Crash, Unlock, Gone, Append1
  <1> QED
    BY <1>1, <1>2, <1>3, <1>4, <1>5, <1>6, <1>7, <1>8, <1>9, <1>10, <1>11,
       <1>12, <1>13, <1>14, <1>15, <1>16, <1>17, <1>18, <1>19, <1>20, <1>21,
       <1>22, <1>23, <1>24, <1>25, <1>26, <1>27, <1>28, <1>29, <1>30, <1>31,
       <1>32, <1>33, <1>34, <1>35, <1>36, <1>37, <1>38, <1>39, <1>40, <1>41,
       <1>42, <1>43
    DEF RunStep, Open, Store, Round, End

\* What is left of a document whose race, or whose mutation state, is of
\* another round.
LEMMA RaceDropped ==
  ASSUME NEW s \in States
  PROVE  LET n == [s EXCEPT !.race = FALSE, !.catalog = None, !.probe = FALSE,
                            !.mdone = FALSE, !.units = @ \ Of("mutant", @)]
         IN /\ n.attempts = s.attempts /\ n.vet = s.vet /\ n.done = s.done /\ ~n.race
            /\ n.catalog = None /\ n.units = s.units \ Of("mutant", s.units)
  BY DEF States

LEMMA OneField ==
  ASSUME NEW s \in States
  PROVE  LET Same(n) == /\ n.attempts = s.attempts /\ n.done = s.done /\ n.catalog = s.catalog
                        /\ n.units = s.units
         IN /\ Same([s EXCEPT !.vet = TRUE]) /\ [s EXCEPT !.vet = TRUE].vet
            /\ Same([s EXCEPT !.race = TRUE]) /\ [s EXCEPT !.race = TRUE].race
            /\ [s EXCEPT !.race = TRUE].vet = s.vet
            /\ Same([s EXCEPT !.probe = TRUE]) /\ [s EXCEPT !.probe = TRUE].probe
            /\ [s EXCEPT !.probe = TRUE].vet = s.vet
            /\ Same([s EXCEPT !.mdone = TRUE]) /\ [s EXCEPT !.mdone = TRUE].mdone
            /\ [s EXCEPT !.mdone = TRUE].vet = s.vet
  BY DEF States

LEMMA MutationDropped ==
  ASSUME NEW s \in States, NEW c \in Catalogs \cup {None}
  PROVE  LET n == NoMutation(s, c)
         IN /\ n.attempts = s.attempts /\ n.vet = s.vet /\ n.done = s.done /\ n.race = s.race
            /\ n.catalog = c /\ ~n.probe /\ n.units = s.units \ Of("mutant", s.units)
  BY DEF States, NoMutation

\* Every step leaves a controller at work holding what it published, and more units.
LEMMA KnownStep ==
  ASSUME ShapeInv, ShapeInv', ThenInv, KnownInv, NEW p \in Runs, RunStep(p)
  PROVE  KnownInv'
  <1> USE NoneAssumption DEF disk, lease, controller, work, ghost, Goto, SavingPCs, VettedPCs, PublishPCs, SameButUnits
  <1> /\ pc \in [Runs -> PCs] /\ then \in [Runs -> PCs]
      /\ state \in [Runs -> States] /\ known \in [Runs -> States \cup {None}]
      /\ base \in States \cup {None}
    BY DEF ShapeInv, TypeOK
  <1> SUFFICES ASSUME NEW q \in Runs
               PROVE  /\ pc'[q] \in SavingPCs \cup {"compact", "append"} =>
                           known'[q] \in States /\ SameButUnits(state'[q], known'[q])
                      /\ pc'[q] = "compact" => known'[q] = state'[q]
                      /\ pc'[q] \in VettedPCs \cup {"append"} => state'[q].vet
                      /\ pc'[q] \in PublishPCs /\ then'[q] \in VettedPCs => state'[q].vet
    BY DEF KnownInv
  <1> /\ pc[q] \in SavingPCs \cup {"compact", "append"} =>
           known[q] \in States /\ SameButUnits(state[q], known[q])
      /\ pc[q] = "compact" => known[q] = state[q]
      /\ pc[q] \in VettedPCs \cup {"append"} => state[q].vet
      /\ pc[q] \in PublishPCs /\ then[q] \in VettedPCs => state[q].vet
    BY DEF KnownInv
  <1> /\ pc[p] \in PublishPCs => then[p] \in SavingPCs \cup {"failed", "repair"}
      /\ pc[p] = "append" => then[p] \in {"targets", "suites", "mutants", "failed"}
      /\ pc[p] \in {"delete", "delete_journal"} => then[p] \in {"unsaved", "cold", "release"}
      /\ pc[p] = "collect" => then[p] \in {"publish", "release"}
    BY DEF ThenInv
  <1>1. CASE Start(p)  BY <1>1 DEF Start
  <1>2. CASE Acquire(p)  BY <1>2 DEF Acquire
  <1>3. CASE AcquireFail(p)  BY <1>3 DEF AcquireFail
  <1>4. CASE Answered(p)  BY <1>4 DEF Answered
  <1>5. CASE Get(p)  BY <1>5 DEF Get, Persist, Forget
  <1>6. CASE GetFail(p)  BY <1>6 DEF GetFail, Forget
  <1>7. CASE Cold(p)  BY <1>7 DEF Cold, Persist
  <1>8. CASE Put(p)  BY <1>8 DEF Put
  <1>9. CASE Compact(p)  BY <1>9 DEF Compact, Return
  <1>10. CASE PutFail(p)  BY <1>10 DEF PutFail, Disable, Forget
  <1>11. CASE AppendUnit(p)  BY <1>11 DEF AppendUnit, Append1
  <1>12. CASE AppendFail(p)  BY <1>12 DEF AppendFail, Append1, Disable, Forget
  <1>13. CASE AppendEnd(p)  BY <1>13 DEF AppendEnd, Return
  <1>14. CASE DeleteBase(p)  BY <1>14 DEF DeleteBase
  <1>15. CASE DeleteJournal(p)  BY <1>15 DEF DeleteJournal, Return
  <1>16. CASE DeleteFail(p)  BY <1>16 DEF DeleteFail, Return
  <1>17. CASE Baseline(p)  BY <1>17 DEF Baseline, Persist
  <1>18. CASE Vet(p)
    <2>0. pc[p] = "vet" /\ UNCHANGED <<base, journal, torn, known, selected, fresh, queue, measured, recorded>>
      BY <1>18 DEF Vet
    <2>1. CASE state[p].vet /\ pc' = [pc EXCEPT ![p] = "compile"] /\ UNCHANGED <<then, state>>
      BY <2>0, <2>1
    <2>2. CASE ~state[p].vet /\ Persist(p, [state[p] EXCEPT !.vet = TRUE], "compile")
      <3>1. PICK n : n = [state[p] EXCEPT !.vet = TRUE]  OBVIOUS
      <3>2. /\ n.attempts = state[p].attempts /\ n.done = state[p].done
            /\ n.catalog = state[p].catalog /\ n.units = state[p].units /\ n.vet
        BY <3>1, OneField
      <3>3. Persist(p, n, "compile")  BY <2>2, <3>1
      <3> HIDE <3>1
      <3> QED BY <2>0, <3>2, <3>3 DEF Persist
    <2> QED BY <1>18, <2>1, <2>2 DEF Vet
  <1>19. CASE Unbuildable(p)  BY <1>19 DEF Unbuildable, Persist
  <1>20. CASE Compiled(p)  BY <1>20 DEF Compiled
  <1>21. CASE Measure(p)  BY <1>21 DEF Measure
  <1>22. CASE PublishPackage(p)  BY <1>22 DEF PublishPackage, Journal
  <1>23. CASE PublishNothing(p)  BY <1>23 DEF PublishNothing, Persist
  <1>24. CASE TargetsDone(p)  BY <1>24 DEF TargetsDone
  <1>25. CASE MeasureSuite(p)  BY <1>25 DEF MeasureSuite, Journal
  <1>26. CASE CompleteBaseline(p)  BY <1>26 DEF CompleteBaseline, Persist
  <1>27. CASE Race(p)
    <2>0. pc[p] = "race" /\ UNCHANGED <<base, journal, torn, known, selected, fresh, queue, measured>>
      BY <1>27 DEF Race
    <2>1. CASE ~state[p].race /\ Persist(p, [state[p] EXCEPT !.race = TRUE], "mutation")
      <3>1. PICK n : n = [state[p] EXCEPT !.race = TRUE]  OBVIOUS
      <3>2. /\ n.attempts = state[p].attempts /\ n.vet = state[p].vet /\ n.done = state[p].done
            /\ n.catalog = state[p].catalog /\ n.units = state[p].units /\ n.race
        BY <3>1, OneField
      <3>3. Persist(p, n, "mutation")  BY <2>1, <3>1
      <3> HIDE <3>1
      <3> QED BY <2>0, <3>2, <3>3 DEF Persist
    <2>2. CASE pc' = [pc EXCEPT ![p] = "mutation"] /\ UNCHANGED <<then, state>>
      BY <2>0, <2>2
    <2>3. CASE Persist(p, [state[p] EXCEPT !.race = FALSE, !.catalog = None, !.probe = FALSE,
                            !.mdone = FALSE, !.units = @ \ Of("mutant", @)], "race")
      <3>1. PICK n : n = [state[p] EXCEPT !.race = FALSE, !.catalog = None, !.probe = FALSE,
                            !.mdone = FALSE, !.units = @ \ Of("mutant", @)]
        OBVIOUS
      <3>2. /\ n.attempts = state[p].attempts /\ n.vet = state[p].vet /\ n.done = state[p].done
            /\ n.catalog = None /\ n.units = state[p].units \ Of("mutant", state[p].units)
        BY <3>1, RaceDropped
      <3>3. Persist(p, n, "race")  BY <2>3, <3>1
      <3> HIDE <3>1
      <3> QED BY <2>0, <3>2, <3>3 DEF Persist
    <2> QED BY <1>27, <2>1, <2>2, <2>3 DEF Race
  <1>28. CASE Mutation(p)
    <2>0. pc[p] = "mutation" /\ UNCHANGED <<base, journal, torn, known, selected, fresh, queue, measured>>
      BY <1>28 DEF Mutation
    <2> PICK c \in Catalogs :
           \/ state[p].catalog = c /\ pc' = [pc EXCEPT ![p] = "probe"] /\ UNCHANGED <<then, state>>
           \/ state[p].catalog # c /\ Persist(p, NoMutation(state[p], c), "probe")
      BY <1>28 DEF Mutation
    <2>1. CASE state[p].catalog = c /\ pc' = [pc EXCEPT ![p] = "probe"] /\ UNCHANGED <<then, state>>
      BY <2>0, <2>1
    <2>2. CASE state[p].catalog # c /\ Persist(p, NoMutation(state[p], c), "probe")
      <3>1. PICK n : n = NoMutation(state[p], c)  OBVIOUS
      <3>2. /\ n.attempts = state[p].attempts /\ n.vet = state[p].vet /\ n.done = state[p].done
            /\ n.catalog = c /\ n.units = state[p].units \ Of("mutant", state[p].units)
        <4>1. state[p].catalog \in Catalogs \cup {None}  BY DEF States
        <4> QED BY <3>1, <4>1, MutationDropped
      <3>3. Persist(p, n, "probe")  BY <2>2, <3>1
      <3> QED BY <2>0, <3>2, <3>3 DEF Persist
    <2> QED BY <2>1, <2>2
  <1>29. CASE Probe(p)
    <2>0. pc[p] = "probe" /\ UNCHANGED <<base, journal, torn, known, selected, fresh, queue, measured>>
      BY <1>29 DEF Probe
    <2>1. CASE pc' = [pc EXCEPT ![p] = "mutants"] /\ UNCHANGED <<then, state>>
      BY <2>0, <2>1
    <2>2. CASE Persist(p, NoMutation(state[p], state[p].catalog), "probe")
      <3>1. PICK n : n = NoMutation(state[p], state[p].catalog)  OBVIOUS
      <3>2. /\ n.attempts = state[p].attempts /\ n.vet = state[p].vet /\ n.done = state[p].done
            /\ n.catalog = state[p].catalog /\ n.units = state[p].units \ Of("mutant", state[p].units)
        <4>1. state[p].catalog \in Catalogs \cup {None}  BY DEF States
        <4> QED BY <3>1, <4>1, MutationDropped
      <3>3. Persist(p, n, "probe")  BY <2>2, <3>1
      <3> QED BY <2>0, <3>2, <3>3 DEF Persist
    <2>3. CASE ~state[p].probe /\ Persist(p, [state[p] EXCEPT !.probe = TRUE], "mutants")
      <3>1. PICK n : n = [state[p] EXCEPT !.probe = TRUE]  OBVIOUS
      <3>2. /\ n.attempts = state[p].attempts /\ n.vet = state[p].vet /\ n.done = state[p].done
            /\ n.catalog = state[p].catalog /\ n.units = state[p].units /\ n.probe
        BY <3>1, OneField
      <3>3. Persist(p, n, "mutants")  BY <2>3, <3>1
      <3> HIDE <3>1
      <3> QED BY <2>0, <3>2, <3>3 DEF Persist
    <2> QED BY <1>29, <2>1, <2>2, <2>3 DEF Probe
  <1>30. CASE SaveMutant(p)  BY <1>30 DEF SaveMutant, Journal
  <1>31. CASE CompleteMutation(p)  BY <1>31 DEF CompleteMutation, Persist
  <1>32. CASE Discard(p)  BY <1>32 DEF Discard, Forget
  <1>33. CASE Verified(p)  BY <1>33 DEF Verified
  <1>34. CASE Fail(p)  BY <1>34 DEF Fail
  <1>35. CASE Keep(p)  BY <1>35 DEF Keep, Over
  <1>36. CASE Collect(p)  BY <1>36 DEF Collect, Over
  <1>37. CASE CollectFile(p)  BY <1>37 DEF CollectFile
  <1>38. CASE CollectEnd(p)  BY <1>38 DEF CollectEnd, Return
  <1>39. CASE Publish(p)  BY <1>39 DEF Publish, Forget
  <1>40. CASE PublishFail(p)  BY <1>40 DEF PublishFail
  <1>41. CASE Release(p)  BY <1>41 DEF Release, Unlock, Gone
  <1>42. CASE AcquireCancel(p)  BY <1>42 DEF AcquireCancel, Gone
  <1>43. CASE Crash(p)  BY <1>43 DEF Crash, Unlock, Gone, Append1
  <1> QED
    BY <1>1, <1>2, <1>3, <1>4, <1>5, <1>6, <1>7, <1>8, <1>9, <1>10, <1>11,
       <1>12, <1>13, <1>14, <1>15, <1>16, <1>17, <1>18, <1>19, <1>20, <1>21,
       <1>22, <1>23, <1>24, <1>25, <1>26, <1>27, <1>28, <1>29, <1>30, <1>31,
       <1>32, <1>33, <1>34, <1>35, <1>36, <1>37, <1>38, <1>39, <1>40, <1>41,
       <1>42, <1>43
    DEF RunStep, Open, Store, Round, End

\* Every step leaves those that save mutants a catalogue.
LEMMA CatalogStep ==
  ASSUME ShapeInv, ShapeInv', ThenInv, QueueInv, CatalogInv, NEW p \in Runs, RunStep(p)
  PROVE  CatalogInv'
  <1> USE NoneAssumption DEF disk, lease, controller, work, ghost, Goto, Cataloguing, At, PublishPCs
  <1> /\ pc \in [Runs -> PCs] /\ then \in [Runs -> PCs]
      /\ state \in [Runs -> States] /\ known \in [Runs -> States \cup {None}]
      /\ base \in States \cup {None} /\ queue \in [Runs -> SUBSET Units]
      /\ selected \in [Runs -> SUBSET Targets] /\ fresh \in [Runs -> SUBSET Targets]
    BY DEF ShapeInv, TypeOK
  <1> state' \in [Runs -> States]  BY DEF ShapeInv, TypeOK
  <1> SUFFICES ASSUME NEW q \in Runs
               PROVE  /\ Cataloguing(q)' => state'[q].catalog # None
                      /\ \A u \in queue'[q] : u.kind = "mutant" => state'[q].catalog # None
    BY DEF CatalogInv
  <1> /\ Cataloguing(q) => state[q].catalog # None
      /\ \A u \in queue[q] : u.kind = "mutant" => state[q].catalog # None
    BY DEF CatalogInv
  <1> pc[q] # "append" => queue[q] = {}  BY DEF QueueInv
  <1> /\ pc[p] \in PublishPCs => then[p] \in SavingPCs \cup {"failed", "repair"}
      /\ pc[p] = "append" => then[p] \in {"targets", "suites", "mutants", "failed"}
      /\ pc[p] \in {"delete", "delete_journal"} => then[p] \in {"unsaved", "cold", "release"}
      /\ pc[p] = "collect" => then[p] \in {"publish", "release"}
    BY DEF ThenInv
  <1>1. CASE Start(p)  BY <1>1 DEF Start
  <1>2. CASE Acquire(p)  BY <1>2 DEF Acquire
  <1>3. CASE AcquireFail(p)  BY <1>3 DEF AcquireFail
  <1>4. CASE Answered(p)  BY <1>4 DEF Answered
  <1>5. CASE Get(p)  BY <1>5 DEF Get, Persist, Forget
  <1>6. CASE GetFail(p)  BY <1>6 DEF GetFail, Forget
  <1>7. CASE Cold(p)  BY <1>7 DEF Cold, Persist
  <1>8. CASE Put(p)  BY <1>8 DEF Put
  <1>9. CASE Compact(p)  BY <1>9 DEF Compact, Return
  <1>10. CASE PutFail(p)  BY <1>10 DEF PutFail, Disable, Forget
  <1>11. CASE AppendUnit(p)  BY <1>11 DEF AppendUnit, Append1
  <1>12. CASE AppendFail(p)  BY <1>12 DEF AppendFail, Append1, Disable, Forget
  <1>13. CASE AppendEnd(p)  BY <1>13 DEF AppendEnd, Return
  <1>14. CASE DeleteBase(p)  BY <1>14 DEF DeleteBase
  <1>15. CASE DeleteJournal(p)  BY <1>15 DEF DeleteJournal, Return
  <1>16. CASE DeleteFail(p)  BY <1>16 DEF DeleteFail, Return
  <1>17. CASE Baseline(p)  BY <1>17 DEF Baseline, Persist
  <1>18. CASE Vet(p)
    <2>0. pc[p] = "vet" /\ UNCHANGED <<base, journal, torn, known, selected, fresh, queue, measured, recorded>>
      BY <1>18 DEF Vet
    <2>1. CASE state[p].vet /\ pc' = [pc EXCEPT ![p] = "compile"] /\ UNCHANGED <<then, state>>
      BY <2>0, <2>1
    <2>2. CASE ~state[p].vet /\ Persist(p, [state[p] EXCEPT !.vet = TRUE], "compile")
      <3>1. PICK n : n = [state[p] EXCEPT !.vet = TRUE]  OBVIOUS
      <3>2. /\ n.attempts = state[p].attempts /\ n.done = state[p].done
            /\ n.catalog = state[p].catalog /\ n.units = state[p].units /\ n.vet
        BY <3>1, OneField
      <3>3. Persist(p, n, "compile")  BY <2>2, <3>1
      <3> HIDE <3>1
      <3> QED BY <2>0, <3>2, <3>3 DEF Persist
    <2> QED BY <1>18, <2>1, <2>2 DEF Vet
  <1>19. CASE Unbuildable(p)  BY <1>19 DEF Unbuildable, Persist
  <1>20. CASE Compiled(p)  BY <1>20 DEF Compiled
  <1>21. CASE Measure(p)  BY <1>21 DEF Measure
  <1>22. CASE PublishPackage(p)  BY <1>22 DEF PublishPackage, Journal, Classified, Target, Skip, States
  <1>23. CASE PublishNothing(p)  BY <1>23 DEF PublishNothing, Persist
  <1>24. CASE TargetsDone(p)  BY <1>24 DEF TargetsDone
  <1>25. CASE MeasureSuite(p)  BY <1>25 DEF MeasureSuite, Journal, Suite, States
  <1>26. CASE CompleteBaseline(p)  BY <1>26 DEF CompleteBaseline, Persist
  <1>27. CASE Race(p)
    <2>0. pc[p] = "race" /\ UNCHANGED <<base, journal, torn, known, selected, fresh, queue, measured>>
      BY <1>27 DEF Race
    <2>1. CASE ~state[p].race /\ Persist(p, [state[p] EXCEPT !.race = TRUE], "mutation")
      <3>1. PICK n : n = [state[p] EXCEPT !.race = TRUE]  OBVIOUS
      <3>2. /\ n.attempts = state[p].attempts /\ n.vet = state[p].vet /\ n.done = state[p].done
            /\ n.catalog = state[p].catalog /\ n.units = state[p].units /\ n.race
        BY <3>1, OneField
      <3>3. Persist(p, n, "mutation")  BY <2>1, <3>1
      <3> HIDE <3>1
      <3> QED BY <2>0, <3>2, <3>3 DEF Persist
    <2>2. CASE pc' = [pc EXCEPT ![p] = "mutation"] /\ UNCHANGED <<then, state>>
      BY <2>0, <2>2
    <2>3. CASE Persist(p, [state[p] EXCEPT !.race = FALSE, !.catalog = None, !.probe = FALSE,
                            !.mdone = FALSE, !.units = @ \ Of("mutant", @)], "race")
      <3>1. PICK n : n = [state[p] EXCEPT !.race = FALSE, !.catalog = None, !.probe = FALSE,
                            !.mdone = FALSE, !.units = @ \ Of("mutant", @)]
        OBVIOUS
      <3>2. /\ n.attempts = state[p].attempts /\ n.vet = state[p].vet /\ n.done = state[p].done
            /\ n.catalog = None /\ n.units = state[p].units \ Of("mutant", state[p].units)
        BY <3>1, RaceDropped
      <3>3. Persist(p, n, "race")  BY <2>3, <3>1
      <3> HIDE <3>1
      <3> QED BY <2>0, <3>2, <3>3 DEF Persist
    <2> QED BY <1>27, <2>1, <2>2, <2>3 DEF Race
  <1>28. CASE Mutation(p)
    <2>0. pc[p] = "mutation" /\ UNCHANGED <<base, journal, torn, known, selected, fresh, queue, measured>>
      BY <1>28 DEF Mutation
    <2> PICK c \in Catalogs :
           \/ state[p].catalog = c /\ pc' = [pc EXCEPT ![p] = "probe"] /\ UNCHANGED <<then, state>>
           \/ state[p].catalog # c /\ Persist(p, NoMutation(state[p], c), "probe")
      BY <1>28 DEF Mutation
    <2>1. CASE state[p].catalog = c /\ pc' = [pc EXCEPT ![p] = "probe"] /\ UNCHANGED <<then, state>>
      BY <2>0, <2>1
    <2>2. CASE state[p].catalog # c /\ Persist(p, NoMutation(state[p], c), "probe")
      <3>1. PICK n : n = NoMutation(state[p], c)  OBVIOUS
      <3>2. /\ n.attempts = state[p].attempts /\ n.vet = state[p].vet /\ n.done = state[p].done
            /\ n.catalog = c /\ n.units = state[p].units \ Of("mutant", state[p].units)
        <4>1. state[p].catalog \in Catalogs \cup {None}  BY DEF States
        <4> QED BY <3>1, <4>1, MutationDropped
      <3>3. Persist(p, n, "probe")  BY <2>2, <3>1
      <3> QED BY <2>0, <3>2, <3>3 DEF Persist
    <2> QED BY <2>1, <2>2
  <1>29. CASE Probe(p)
    <2>0. pc[p] = "probe" /\ UNCHANGED <<base, journal, torn, known, selected, fresh, queue, measured>>
      BY <1>29 DEF Probe
    <2>1. CASE pc' = [pc EXCEPT ![p] = "mutants"] /\ UNCHANGED <<then, state>>
      BY <2>0, <2>1
    <2>2. CASE Persist(p, NoMutation(state[p], state[p].catalog), "probe")
      <3>1. PICK n : n = NoMutation(state[p], state[p].catalog)  OBVIOUS
      <3>2. /\ n.attempts = state[p].attempts /\ n.vet = state[p].vet /\ n.done = state[p].done
            /\ n.catalog = state[p].catalog /\ n.units = state[p].units \ Of("mutant", state[p].units)
        <4>1. state[p].catalog \in Catalogs \cup {None}  BY DEF States
        <4> QED BY <3>1, <4>1, MutationDropped
      <3>3. Persist(p, n, "probe")  BY <2>2, <3>1
      <3> QED BY <2>0, <3>2, <3>3 DEF Persist
    <2>3. CASE ~state[p].probe /\ Persist(p, [state[p] EXCEPT !.probe = TRUE], "mutants")
      <3>1. PICK n : n = [state[p] EXCEPT !.probe = TRUE]  OBVIOUS
      <3>2. /\ n.attempts = state[p].attempts /\ n.vet = state[p].vet /\ n.done = state[p].done
            /\ n.catalog = state[p].catalog /\ n.units = state[p].units /\ n.probe
        BY <3>1, OneField
      <3>3. Persist(p, n, "mutants")  BY <2>3, <3>1
      <3> HIDE <3>1
      <3> QED BY <2>0, <3>2, <3>3 DEF Persist
    <2> QED BY <1>29, <2>1, <2>2, <2>3 DEF Probe
  <1>30. CASE SaveMutant(p)  BY <1>30 DEF SaveMutant, Journal
  <1>31. CASE CompleteMutation(p)  BY <1>31 DEF CompleteMutation, Persist
  <1>32. CASE Discard(p)  BY <1>32 DEF Discard, Forget
  <1>33. CASE Verified(p)  BY <1>33 DEF Verified
  <1>34. CASE Fail(p)  BY <1>34 DEF Fail
  <1>35. CASE Keep(p)  BY <1>35 DEF Keep, Over
  <1>36. CASE Collect(p)  BY <1>36 DEF Collect, Over
  <1>37. CASE CollectFile(p)  BY <1>37 DEF CollectFile
  <1>38. CASE CollectEnd(p)  BY <1>38 DEF CollectEnd, Return
  <1>39. CASE Publish(p)  BY <1>39 DEF Publish, Forget
  <1>40. CASE PublishFail(p)  BY <1>40 DEF PublishFail
  <1>41. CASE Release(p)  BY <1>41 DEF Release, Unlock, Gone
  <1>42. CASE AcquireCancel(p)  BY <1>42 DEF AcquireCancel, Gone
  <1>43. CASE Crash(p)  BY <1>43 DEF Crash, Unlock, Gone, Append1
  <1> QED
    BY <1>1, <1>2, <1>3, <1>4, <1>5, <1>6, <1>7, <1>8, <1>9, <1>10, <1>11,
       <1>12, <1>13, <1>14, <1>15, <1>16, <1>17, <1>18, <1>19, <1>20, <1>21,
       <1>22, <1>23, <1>24, <1>25, <1>26, <1>27, <1>28, <1>29, <1>30, <1>31,
       <1>32, <1>33, <1>34, <1>35, <1>36, <1>37, <1>38, <1>39, <1>40, <1>41,
       <1>42, <1>43
    DEF RunStep, Open, Store, Round, End

\* What a saved baseline leaves to measure.
LEMMA WhatIsPending ==
  ASSUME NEW p \in Runs, selected[p] \subseteq Targets, state[p].units \subseteq Units
  PROVE  \A t : t \in Pending(p) <=> t \in selected[p] /\ Target(t) \notin state[p].units /\ Skip(t) \notin state[p].units
  <1>0. \A u \in Units : u.kind = "target" => u = Target(u.id)
    BY DEF Units, Target, Skip, Suite, Mutant
  <1>1. \A u \in Units : u.kind = "skip" => u = Skip(u.id)
    BY DEF Units, Target, Skip, Suite, Mutant
  <1>2. \A t : /\ Target(t).kind = "target" /\ Target(t).id = t
              /\ Skip(t).kind = "skip" /\ Skip(t).id = t
    BY DEF Target, Skip
  <1>3. \A t : t \in SavedTargets(p) <=>
                 \E u \in state[p].units : u.id = t /\ u.kind \in {"target", "skip"}
    BY DEF SavedTargets, Saved, Of
  <1>4. ASSUME NEW t
        PROVE  t \in SavedTargets(p) <=> Target(t) \in state[p].units \/ Skip(t) \in state[p].units
    <2>1. ASSUME NEW u \in state[p].units, u.id = t, u.kind \in {"target", "skip"}
          PROVE  u = Target(t) \/ u = Skip(t)
      <3>1. u \in Units  OBVIOUS
      <3>2. CASE u.kind = "target"  BY <2>1, <3>1, <3>2, <1>0
      <3>3. CASE u.kind = "skip"  BY <2>1, <3>1, <3>3, <1>1
      <3> QED BY <2>1, <3>2, <3>3
    <2>2. /\ Target(t).id = t /\ Target(t).kind \in {"target", "skip"}
          /\ Skip(t).id = t /\ Skip(t).kind \in {"target", "skip"}
      BY <1>2
    <2> HIDE <1>0, <1>1, <1>2
    <2> QED BY ONLY <1>3, <2>1, <2>2
  <1> QED BY <1>4 DEF Pending

LEMMA WhatWillBePending ==
  ASSUME NEW p \in Runs, selected'[p] \subseteq Targets, state'[p].units \subseteq Units
  PROVE  \A t : t \in Pending(p)' <=> t \in selected'[p] /\ Target(t) \notin state'[p].units /\ Skip(t) \notin state'[p].units
  <1>0. \A u \in Units : u.kind = "target" => u = Target(u.id)
    BY DEF Units, Target, Skip, Suite, Mutant
  <1>1. \A u \in Units : u.kind = "skip" => u = Skip(u.id)
    BY DEF Units, Target, Skip, Suite, Mutant
  <1>2. \A t : /\ Target(t).kind = "target" /\ Target(t).id = t
              /\ Skip(t).kind = "skip" /\ Skip(t).id = t
    BY DEF Target, Skip
  <1>3. \A t : t \in SavedTargets(p)' <=>
                 \E u \in state'[p].units : u.id = t /\ u.kind \in {"target", "skip"}
    BY DEF SavedTargets, Saved, Of
  <1>4. ASSUME NEW t
        PROVE  t \in SavedTargets(p)' <=> Target(t) \in state'[p].units \/ Skip(t) \in state'[p].units
    <2>1. ASSUME NEW u \in state'[p].units, u.id = t, u.kind \in {"target", "skip"}
          PROVE  u = Target(t) \/ u = Skip(t)
      <3>1. u \in Units  OBVIOUS
      <3>2. CASE u.kind = "target"  BY <2>1, <3>1, <3>2, <1>0
      <3>3. CASE u.kind = "skip"  BY <2>1, <3>1, <3>3, <1>1
      <3> QED BY <2>1, <3>2, <3>3
    <2>2. /\ Target(t).id = t /\ Target(t).kind \in {"target", "skip"}
          /\ Skip(t).id = t /\ Skip(t).kind \in {"target", "skip"}
      BY <1>2
    <2> HIDE <1>0, <1>1, <1>2
    <2> QED BY ONLY <1>3, <2>1, <2>2
  <1> QED BY <1>4 DEF Pending

\* Every step leaves what is pending pending.
LEMMA TargetsStep ==
  ASSUME ShapeInv, ShapeInv', ThenInv, TargetsInv, NEW p \in Runs, RunStep(p)
  PROVE  TargetsInv'
  <1> USE NoneAssumption DEF disk, lease, controller, work, ghost, Goto, Measuring, At, PublishPCs
  <1> /\ pc \in [Runs -> PCs] /\ then \in [Runs -> PCs]
      /\ state \in [Runs -> States] /\ known \in [Runs -> States \cup {None}]
      /\ base \in States \cup {None} /\ queue \in [Runs -> SUBSET Units]
      /\ selected \in [Runs -> SUBSET Targets] /\ fresh \in [Runs -> SUBSET Targets]
    BY DEF ShapeInv, TypeOK
  <1> state' \in [Runs -> States]  BY DEF ShapeInv, TypeOK
  <1> selected' \in [Runs -> SUBSET Targets]  BY DEF ShapeInv, TypeOK
  <1> SUFFICES ASSUME NEW q \in Runs
               PROVE  /\ pc'[q] # "targets" => fresh'[q] = {}
                      /\ fresh'[q] \subseteq Pending(q)'
                      /\ Measuring(q)' /\ state'[q].done => Pending(q)' = {}
                      /\ pc'[q] = "append" /\ then'[q] \in {"targets", "suites"} => ~state'[q].done
    BY DEF TargetsInv
  <1> /\ pc[q] # "targets" => fresh[q] = {}
      /\ fresh[q] \subseteq Pending(q)
      /\ Measuring(q) /\ state[q].done => Pending(q) = {}
      /\ pc[q] = "append" /\ then[q] \in {"targets", "suites"} => ~state[q].done
    BY DEF TargetsInv
  <1> /\ state[q].units \subseteq Units /\ state'[q].units \subseteq Units  BY DEF States
  <1> \A t : t \in Pending(q) <=> t \in selected[q] /\ Target(t) \notin state[q].units /\ Skip(t) \notin state[q].units
    BY WhatIsPending
  <1> \A t : t \in Pending(q)' <=> t \in selected'[q] /\ Target(t) \notin state'[q].units /\ Skip(t) \notin state'[q].units
    BY WhatWillBePending
  <1> /\ pc[p] \in PublishPCs => then[p] \in SavingPCs \cup {"failed", "repair"}
      /\ pc[p] = "append" => then[p] \in {"targets", "suites", "mutants", "failed"}
      /\ pc[p] \in {"delete", "delete_journal"} => then[p] \in {"unsaved", "cold", "release"}
      /\ pc[p] = "collect" => then[p] \in {"publish", "release"}
    BY DEF ThenInv
  <1>1. CASE Start(p)  BY <1>1 DEF Start
  <1>2. CASE Acquire(p)  BY <1>2 DEF Acquire
  <1>3. CASE AcquireFail(p)  BY <1>3 DEF AcquireFail
  <1>4. CASE Answered(p)  BY <1>4 DEF Answered
  <1>5. CASE Get(p)  BY <1>5 DEF Get, Persist, Forget
  <1>6. CASE GetFail(p)  BY <1>6 DEF GetFail, Forget
  <1>7. CASE Cold(p)  BY <1>7 DEF Cold, Persist
  <1>8. CASE Put(p)  BY <1>8 DEF Put
  <1>9. CASE Compact(p)  BY <1>9 DEF Compact, Return
  <1>10. CASE PutFail(p)  BY <1>10 DEF PutFail, Disable, Forget
  <1>11. CASE AppendUnit(p)  BY <1>11 DEF AppendUnit, Append1
  <1>12. CASE AppendFail(p)  BY <1>12 DEF AppendFail, Append1, Disable, Forget
  <1>13. CASE AppendEnd(p)  BY <1>13 DEF AppendEnd, Return
  <1>14. CASE DeleteBase(p)  BY <1>14 DEF DeleteBase
  <1>15. CASE DeleteJournal(p)  BY <1>15 DEF DeleteJournal, Return
  <1>16. CASE DeleteFail(p)  BY <1>16 DEF DeleteFail, Return
  <1>17. CASE Baseline(p)
    <2>0. pc[p] = "baseline" /\ UNCHANGED <<selected, fresh, queue>>
      BY <1>17 DEF Baseline
    <2>1. CASE SavedBaselineFits(p) /\ pc' = [pc EXCEPT ![p] = "vet"] /\ UNCHANGED <<then, state>>
      <3>1. state[p].done => Pending(p) = {}  BY <2>1 DEF SavedBaselineFits, Pending
      <3> QED BY <2>0, <2>1, <3>1
    <2>2. CASE Persist(p, [Blank EXCEPT !.attempts = state[p].attempts], "vet")
      <3>1. state'[p].done = FALSE  BY <2>2 DEF Persist, Blank
      <3> QED BY <2>0, <2>2, <3>1 DEF Persist
    <2> QED BY <1>17, <2>1, <2>2 DEF Baseline
  <1>18. CASE Vet(p)
    <2>0. pc[p] = "vet" /\ UNCHANGED <<base, journal, torn, known, selected, fresh, queue, measured, recorded>>
      BY <1>18 DEF Vet
    <2>1. CASE state[p].vet /\ pc' = [pc EXCEPT ![p] = "compile"] /\ UNCHANGED <<then, state>>
      BY <2>0, <2>1
    <2>2. CASE ~state[p].vet /\ Persist(p, [state[p] EXCEPT !.vet = TRUE], "compile")
      <3>1. PICK n : n = [state[p] EXCEPT !.vet = TRUE]  OBVIOUS
      <3>2. /\ n.attempts = state[p].attempts /\ n.done = state[p].done
            /\ n.catalog = state[p].catalog /\ n.units = state[p].units /\ n.vet
        BY <3>1, OneField
      <3>3. Persist(p, n, "compile")  BY <2>2, <3>1
      <3> HIDE <3>1
      <3> QED BY <2>0, <3>2, <3>3 DEF Persist
    <2> QED BY <1>18, <2>1, <2>2 DEF Vet
  <1>19. CASE Unbuildable(p)  BY <1>19 DEF Unbuildable, Persist
  <1>20. CASE Compiled(p)  BY <1>20 DEF Compiled
  <1>21. CASE Measure(p)  BY <1>21 DEF Measure
  <1>22. CASE PublishPackage(p)  BY <1>22 DEF PublishPackage, Journal
  <1>23. CASE PublishNothing(p)  BY <1>23 DEF PublishNothing, Persist
  <1>24. CASE TargetsDone(p)  BY <1>24 DEF TargetsDone
  <1>25. CASE MeasureSuite(p)  BY <1>25 DEF MeasureSuite, Journal
  <1>26. CASE CompleteBaseline(p)  BY <1>26 DEF CompleteBaseline, Persist
  <1>27. CASE Race(p)
    <2>0. pc[p] = "race" /\ UNCHANGED <<base, journal, torn, known, selected, fresh, queue, measured>>
      BY <1>27 DEF Race
    <2>1. CASE ~state[p].race /\ Persist(p, [state[p] EXCEPT !.race = TRUE], "mutation")
      <3>1. PICK n : n = [state[p] EXCEPT !.race = TRUE]  OBVIOUS
      <3>2. /\ n.attempts = state[p].attempts /\ n.vet = state[p].vet /\ n.done = state[p].done
            /\ n.catalog = state[p].catalog /\ n.units = state[p].units /\ n.race
        BY <3>1, OneField
      <3>3. Persist(p, n, "mutation")  BY <2>1, <3>1
      <3> HIDE <3>1
      <3> QED BY <2>0, <3>2, <3>3 DEF Persist
    <2>2. CASE pc' = [pc EXCEPT ![p] = "mutation"] /\ UNCHANGED <<then, state>>
      BY <2>0, <2>2
    <2>3. CASE Persist(p, [state[p] EXCEPT !.race = FALSE, !.catalog = None, !.probe = FALSE,
                            !.mdone = FALSE, !.units = @ \ Of("mutant", @)], "race")
      <3>1. PICK n : n = [state[p] EXCEPT !.race = FALSE, !.catalog = None, !.probe = FALSE,
                            !.mdone = FALSE, !.units = @ \ Of("mutant", @)]
        OBVIOUS
      <3>2. /\ n.attempts = state[p].attempts /\ n.vet = state[p].vet /\ n.done = state[p].done
            /\ n.catalog = None /\ n.units = state[p].units \ Of("mutant", state[p].units)
        BY <3>1, RaceDropped
      <3>3. Persist(p, n, "race")  BY <2>3, <3>1
      <3> HIDE <3>1
      <3> QED BY <2>0, <3>2, <3>3 DEF Persist
    <2> QED BY <1>27, <2>1, <2>2, <2>3 DEF Race
  <1>28. CASE Mutation(p)
    <2>0. pc[p] = "mutation" /\ UNCHANGED <<base, journal, torn, known, selected, fresh, queue, measured>>
      BY <1>28 DEF Mutation
    <2> PICK c \in Catalogs :
           \/ state[p].catalog = c /\ pc' = [pc EXCEPT ![p] = "probe"] /\ UNCHANGED <<then, state>>
           \/ state[p].catalog # c /\ Persist(p, NoMutation(state[p], c), "probe")
      BY <1>28 DEF Mutation
    <2>1. CASE state[p].catalog = c /\ pc' = [pc EXCEPT ![p] = "probe"] /\ UNCHANGED <<then, state>>
      BY <2>0, <2>1
    <2>2. CASE state[p].catalog # c /\ Persist(p, NoMutation(state[p], c), "probe")
      <3>1. PICK n : n = NoMutation(state[p], c)  OBVIOUS
      <3>2. /\ n.attempts = state[p].attempts /\ n.vet = state[p].vet /\ n.done = state[p].done
            /\ n.catalog = c /\ n.units = state[p].units \ Of("mutant", state[p].units)
        <4>1. state[p].catalog \in Catalogs \cup {None}  BY DEF States
        <4> QED BY <3>1, <4>1, MutationDropped
      <3>3. Persist(p, n, "probe")  BY <2>2, <3>1
      <3> QED BY <2>0, <3>2, <3>3 DEF Persist
    <2> QED BY <2>1, <2>2
  <1>29. CASE Probe(p)
    <2>0. pc[p] = "probe" /\ UNCHANGED <<base, journal, torn, known, selected, fresh, queue, measured>>
      BY <1>29 DEF Probe
    <2>1. CASE pc' = [pc EXCEPT ![p] = "mutants"] /\ UNCHANGED <<then, state>>
      BY <2>0, <2>1
    <2>2. CASE Persist(p, NoMutation(state[p], state[p].catalog), "probe")
      <3>1. PICK n : n = NoMutation(state[p], state[p].catalog)  OBVIOUS
      <3>2. /\ n.attempts = state[p].attempts /\ n.vet = state[p].vet /\ n.done = state[p].done
            /\ n.catalog = state[p].catalog /\ n.units = state[p].units \ Of("mutant", state[p].units)
        <4>1. state[p].catalog \in Catalogs \cup {None}  BY DEF States
        <4> QED BY <3>1, <4>1, MutationDropped
      <3>3. Persist(p, n, "probe")  BY <2>2, <3>1
      <3> QED BY <2>0, <3>2, <3>3 DEF Persist
    <2>3. CASE ~state[p].probe /\ Persist(p, [state[p] EXCEPT !.probe = TRUE], "mutants")
      <3>1. PICK n : n = [state[p] EXCEPT !.probe = TRUE]  OBVIOUS
      <3>2. /\ n.attempts = state[p].attempts /\ n.vet = state[p].vet /\ n.done = state[p].done
            /\ n.catalog = state[p].catalog /\ n.units = state[p].units /\ n.probe
        BY <3>1, OneField
      <3>3. Persist(p, n, "mutants")  BY <2>3, <3>1
      <3> HIDE <3>1
      <3> QED BY <2>0, <3>2, <3>3 DEF Persist
    <2> QED BY <1>29, <2>1, <2>2, <2>3 DEF Probe
  <1>30. CASE SaveMutant(p)  BY <1>30 DEF SaveMutant, Journal
  <1>31. CASE CompleteMutation(p)  BY <1>31 DEF CompleteMutation, Persist
  <1>32. CASE Discard(p)  BY <1>32 DEF Discard, Forget
  <1>33. CASE Verified(p)  BY <1>33 DEF Verified
  <1>34. CASE Fail(p)  BY <1>34 DEF Fail
  <1>35. CASE Keep(p)  BY <1>35 DEF Keep, Over
  <1>36. CASE Collect(p)  BY <1>36 DEF Collect, Over
  <1>37. CASE CollectFile(p)  BY <1>37 DEF CollectFile
  <1>38. CASE CollectEnd(p)  BY <1>38 DEF CollectEnd, Return
  <1>39. CASE Publish(p)  BY <1>39 DEF Publish, Forget
  <1>40. CASE PublishFail(p)  BY <1>40 DEF PublishFail
  <1>41. CASE Release(p)  BY <1>41 DEF Release, Unlock, Gone
  <1>42. CASE AcquireCancel(p)  BY <1>42 DEF AcquireCancel, Gone
  <1>43. CASE Crash(p)  BY <1>43 DEF Crash, Unlock, Gone, Append1
  <1> QED
    BY <1>1, <1>2, <1>3, <1>4, <1>5, <1>6, <1>7, <1>8, <1>9, <1>10, <1>11,
       <1>12, <1>13, <1>14, <1>15, <1>16, <1>17, <1>18, <1>19, <1>20, <1>21,
       <1>22, <1>23, <1>24, <1>25, <1>26, <1>27, <1>28, <1>29, <1>30, <1>31,
       <1>32, <1>33, <1>34, <1>35, <1>36, <1>37, <1>38, <1>39, <1>40, <1>41,
       <1>42, <1>43
    DEF RunStep, Open, Store, Round, End

\* Every step leaves what is about to be appended held.
LEMMA QueueStep ==
  ASSUME ShapeInv, ShapeInv', QueueInv, NEW p \in Runs, RunStep(p)
  PROVE  QueueInv'
  <1> USE NoneAssumption DEF disk, lease, controller, work, ghost, Goto
  <1> /\ pc \in [Runs -> PCs] /\ then \in [Runs -> PCs]
      /\ state \in [Runs -> States] /\ known \in [Runs -> States \cup {None}]
      /\ base \in States \cup {None} /\ queue \in [Runs -> SUBSET Units]
      /\ selected \in [Runs -> SUBSET Targets] /\ fresh \in [Runs -> SUBSET Targets]
    BY DEF ShapeInv, TypeOK
  <1> state' \in [Runs -> States]  BY DEF ShapeInv, TypeOK
  <1> SUFFICES ASSUME NEW q \in Runs
               PROVE  queue'[q] \subseteq state'[q].units /\ (pc'[q] # "append" => queue'[q] = {})
    BY DEF QueueInv
  <1> queue[q] \subseteq state[q].units /\ (pc[q] # "append" => queue[q] = {})
    BY DEF QueueInv
  <1>1. CASE Start(p)  BY <1>1 DEF Start
  <1>2. CASE Acquire(p)  BY <1>2 DEF Acquire
  <1>3. CASE AcquireFail(p)  BY <1>3 DEF AcquireFail
  <1>4. CASE Answered(p)  BY <1>4 DEF Answered
  <1>5. CASE Get(p)  BY <1>5 DEF Get, Persist, Forget
  <1>6. CASE GetFail(p)  BY <1>6 DEF GetFail, Forget
  <1>7. CASE Cold(p)  BY <1>7 DEF Cold, Persist
  <1>8. CASE Put(p)  BY <1>8 DEF Put
  <1>9. CASE Compact(p)  BY <1>9 DEF Compact, Return
  <1>10. CASE PutFail(p)  BY <1>10 DEF PutFail, Disable, Forget
  <1>11. CASE AppendUnit(p)  BY <1>11 DEF AppendUnit, Append1
  <1>12. CASE AppendFail(p)  BY <1>12 DEF AppendFail, Append1, Disable, Forget
  <1>13. CASE AppendEnd(p)  BY <1>13 DEF AppendEnd, Return
  <1>14. CASE DeleteBase(p)  BY <1>14 DEF DeleteBase
  <1>15. CASE DeleteJournal(p)  BY <1>15 DEF DeleteJournal, Return
  <1>16. CASE DeleteFail(p)  BY <1>16 DEF DeleteFail, Return
  <1>17. CASE Baseline(p)  BY <1>17 DEF Baseline, Persist
  <1>18. CASE Vet(p)  BY <1>18 DEF Vet, Persist
  <1>19. CASE Unbuildable(p)  BY <1>19 DEF Unbuildable, Persist
  <1>20. CASE Compiled(p)  BY <1>20 DEF Compiled
  <1>21. CASE Measure(p)  BY <1>21 DEF Measure
  <1>22. CASE PublishPackage(p)  BY <1>22 DEF PublishPackage, Journal, States
  <1>23. CASE PublishNothing(p)  BY <1>23 DEF PublishNothing, Persist
  <1>24. CASE TargetsDone(p)  BY <1>24 DEF TargetsDone
  <1>25. CASE MeasureSuite(p)  BY <1>25 DEF MeasureSuite, Journal, States
  <1>26. CASE CompleteBaseline(p)  BY <1>26 DEF CompleteBaseline, Persist
  <1>27. CASE Race(p)  BY <1>27 DEF Race, Persist
  <1>28. CASE Mutation(p)  BY <1>28 DEF Mutation, Persist, NoMutation
  <1>29. CASE Probe(p)  BY <1>29 DEF Probe, Persist, NoMutation
  <1>30. CASE SaveMutant(p)  BY <1>30 DEF SaveMutant, Journal, States
  <1>31. CASE CompleteMutation(p)  BY <1>31 DEF CompleteMutation, Persist
  <1>32. CASE Discard(p)  BY <1>32 DEF Discard, Forget
  <1>33. CASE Verified(p)  BY <1>33 DEF Verified
  <1>34. CASE Fail(p)  BY <1>34 DEF Fail
  <1>35. CASE Keep(p)  BY <1>35 DEF Keep, Over
  <1>36. CASE Collect(p)  BY <1>36 DEF Collect, Over
  <1>37. CASE CollectFile(p)  BY <1>37 DEF CollectFile
  <1>38. CASE CollectEnd(p)  BY <1>38 DEF CollectEnd, Return
  <1>39. CASE Publish(p)  BY <1>39 DEF Publish, Forget
  <1>40. CASE PublishFail(p)  BY <1>40 DEF PublishFail
  <1>41. CASE Release(p)  BY <1>41 DEF Release, Unlock, Gone
  <1>42. CASE AcquireCancel(p)  BY <1>42 DEF AcquireCancel, Gone
  <1>43. CASE Crash(p)  BY <1>43 DEF Crash, Unlock, Gone, Append1
  <1> QED
    BY <1>1, <1>2, <1>3, <1>4, <1>5, <1>6, <1>7, <1>8, <1>9, <1>10, <1>11,
       <1>12, <1>13, <1>14, <1>15, <1>16, <1>17, <1>18, <1>19, <1>20, <1>21,
       <1>22, <1>23, <1>24, <1>25, <1>26, <1>27, <1>28, <1>29, <1>30, <1>31,
       <1>32, <1>33, <1>34, <1>35, <1>36, <1>37, <1>38, <1>39, <1>40, <1>41,
       <1>42, <1>43
    DEF RunStep, Open, Store, Round, End

\* Every step leaves what a run holds measured for its catalogue.
LEMMA SoundRunsStep ==
  ASSUME ShapeInv, ShapeInv', SoundInv, NEW p \in Runs, RunStep(p)
  PROVE  \A q \in Runs : Sound(state[q])'
  <1> USE NoneAssumption DEF disk, lease, controller, work, ghost, Goto, Sound
  <1> /\ pc \in [Runs -> PCs] /\ then \in [Runs -> PCs]
      /\ state \in [Runs -> States] /\ known \in [Runs -> States \cup {None}]
      /\ base \in States \cup {None} /\ queue \in [Runs -> SUBSET Units]
      /\ selected \in [Runs -> SUBSET Targets] /\ fresh \in [Runs -> SUBSET Targets]
    BY DEF ShapeInv, TypeOK
  <1> state' \in [Runs -> States]  BY DEF ShapeInv, TypeOK
  <1> measured \subseteq measured'
    <2>1. UNCHANGED measured \/ SaveMutant(p)
      BY DEF RunStep, Open, Store, Round, End, Start, Acquire, AcquireFail, Answered, Get, GetFail,
        Cold, Put, Compact, PutFail, AppendUnit, AppendFail, AppendEnd, DeleteBase, DeleteJournal,
        DeleteFail, Baseline, Vet, Unbuildable, Compiled, Measure, PublishPackage, PublishNothing,
        TargetsDone, MeasureSuite, CompleteBaseline, Race, Mutation, Probe, CompleteMutation,
        Discard, Verified, Fail, Keep, Collect, CollectFile, CollectEnd, Publish, PublishFail,
        Release, AcquireCancel, Crash
    <2> QED BY <2>1 DEF SaveMutant
  <1> SUFFICES ASSUME NEW q \in Runs, NEW u \in state'[q].units, u.kind = "mutant"
               PROVE  <<u.id, state'[q].catalog>> \in measured'
    OBVIOUS
  <1> u \in state[q].units => <<u.id, state[q].catalog>> \in measured
    BY DEF SoundInv
  <1> Blank.units = {} /\ \A n : [Blank EXCEPT !.attempts = n].units = {}  BY DEF Blank
  <1>1. CASE Start(p)  BY <1>1 DEF Start
  <1>2. CASE Acquire(p)  BY <1>2 DEF Acquire
  <1>3. CASE AcquireFail(p)  BY <1>3 DEF AcquireFail
  <1>4. CASE Answered(p)  BY <1>4 DEF Answered
  <1>5. CASE Get(p)
    <2>1. CASE base = None /\ Persist(p, Blank, "baseline")
      BY <2>1 DEF Persist
    <2>2. CASE base # None /\ Persist(p, [Replayed(base) EXCEPT !.attempts = @ + 1], "baseline")
      <3>1. base \in States  BY <2>2
      <3>2. Replayed(base).catalog = base.catalog
            /\ Replayed(base).units = base.units \cup {journal[i].unit : i \in Current(base)}
        BY <3>1 DEF Replayed, States
      <3>3. Replayed(base) \in States  BY <3>1, ReplayedType
      <3>4. PICK n : n = [Replayed(base) EXCEPT !.attempts = @ + 1]  OBVIOUS
      <3>5. n.catalog = base.catalog /\ n.units = Replayed(base).units
        BY <3>2, <3>3, <3>4 DEF States
      <3>6. u \in n.units => <<u.id, base.catalog>> \in measured
        BY <2>2, <3>2, <3>5 DEF SoundInv, Current
      <3>7. state' = [state EXCEPT ![p] = n]  BY <2>2, <3>4 DEF Persist
      <3> QED BY <3>5, <3>6, <3>7
    <2>3. CASE UNCHANGED state  BY <2>3
    <2> QED BY <1>5, <2>1, <2>2, <2>3 DEF Get
  <1>6. CASE GetFail(p)  BY <1>6 DEF GetFail, Forget
  <1>7. CASE Cold(p)  BY <1>7 DEF Cold, Persist
  <1>8. CASE Put(p)  BY <1>8 DEF Put
  <1>9. CASE Compact(p)  BY <1>9 DEF Compact, Return
  <1>10. CASE PutFail(p)  BY <1>10 DEF PutFail, Disable, Forget
  <1>11. CASE AppendUnit(p)  BY <1>11 DEF AppendUnit, Append1
  <1>12. CASE AppendFail(p)  BY <1>12 DEF AppendFail, Append1, Disable, Forget
  <1>13. CASE AppendEnd(p)  BY <1>13 DEF AppendEnd, Return
  <1>14. CASE DeleteBase(p)  BY <1>14 DEF DeleteBase
  <1>15. CASE DeleteJournal(p)  BY <1>15 DEF DeleteJournal, Return
  <1>16. CASE DeleteFail(p)  BY <1>16 DEF DeleteFail, Return
  <1>17. CASE Baseline(p)
    <2>1. CASE UNCHANGED state  BY <2>1
    <2>2. CASE Persist(p, [Blank EXCEPT !.attempts = state[p].attempts], "vet")
      BY <2>2 DEF Persist
    <2> QED BY <1>17, <2>1, <2>2 DEF Baseline
  <1>18. CASE Vet(p)
    <2>0. pc[p] = "vet" /\ UNCHANGED <<base, journal, torn, known, selected, fresh, queue, measured, recorded>>
      BY <1>18 DEF Vet
    <2>1. CASE state[p].vet /\ pc' = [pc EXCEPT ![p] = "compile"] /\ UNCHANGED <<then, state>>
      BY <2>0, <2>1
    <2>2. CASE ~state[p].vet /\ Persist(p, [state[p] EXCEPT !.vet = TRUE], "compile")
      <3>1. PICK n : n = [state[p] EXCEPT !.vet = TRUE]  OBVIOUS
      <3>2. /\ n.attempts = state[p].attempts /\ n.done = state[p].done
            /\ n.catalog = state[p].catalog /\ n.units = state[p].units /\ n.vet
        BY <3>1, OneField
      <3>3. Persist(p, n, "compile")  BY <2>2, <3>1
      <3> HIDE <3>1
      <3> QED BY <2>0, <3>2, <3>3 DEF Persist, Of
    <2> QED BY <1>18, <2>1, <2>2 DEF Vet
  <1>19. CASE Unbuildable(p)
    <2>1. PICK units : /\ state' = [state EXCEPT ![p] = [state[p] EXCEPT !.units = @ \cup units]]
                       /\ units \subseteq {Target(x) : x \in Pending(p)} \cup {Suite(x) : x \in Packages}
      <3>0. {PackageOf[x] : x \in selected[p]} \subseteq Packages  BY PackagesAssumption
      <3>1. PICK k \in Packages : LET ts == {Target(x) : x \in {y \in Pending(p) : PackageOf[y] = k}} IN
              \E settled \in {ts, ts \cup {Suite(k)}} : Persist(p, [state[p] EXCEPT !.units = @ \cup settled], "compile")
        BY <1>19, <3>0 DEF Unbuildable
      <3>2. {Target(x) : x \in {y \in Pending(p) : PackageOf[y] = k}} \subseteq {Target(x) : x \in Pending(p)}
        OBVIOUS
      <3>3. PICK settled : /\ Persist(p, [state[p] EXCEPT !.units = @ \cup settled], "compile")
                           /\ settled \subseteq {Target(x) : x \in Pending(p)} \cup {Suite(k)}
        BY <3>1, <3>2
      <3>4. state' = [state EXCEPT ![p] = [state[p] EXCEPT !.units = @ \cup settled]]  BY <3>3 DEF Persist
      <3>5. settled \subseteq {Target(x) : x \in Pending(p)} \cup {Suite(x) : x \in Packages}
        BY <3>3
      <3> QED BY <3>4, <3>5
    <2>a. \A v \in units : v.kind # "mutant"  BY <2>1 DEF Target, Suite
    <2>2. PICK n : n = [state[p] EXCEPT !.units = @ \cup units]  OBVIOUS
    <2>3. n.catalog = state[p].catalog /\ n.units = state[p].units \cup units  BY <2>2 DEF States
    <2>4. state' = [state EXCEPT ![p] = n]  BY <2>1, <2>2
    <2> HIDE <2>2
    <2> QED BY <2>1, <2>a, <2>3, <2>4
  <1>20. CASE Compiled(p)  BY <1>20 DEF Compiled
  <1>21. CASE Measure(p)  BY <1>21 DEF Measure
  <1>22. CASE PublishPackage(p)
    <2>1. PICK units : /\ state' = [state EXCEPT ![p] = [state[p] EXCEPT !.units = @ \cup units]]
                       /\ units \subseteq {Classified(x) : x \in fresh[p]}
      BY <1>22 DEF PublishPackage, Journal
    <2>a. \A v \in units : v.kind # "mutant"  BY <2>1 DEF Classified, Target, Skip
    <2>2. PICK n : n = [state[p] EXCEPT !.units = @ \cup units]  OBVIOUS
    <2>3. n.catalog = state[p].catalog /\ n.units = state[p].units \cup units  BY <2>2 DEF States
    <2>4. state' = [state EXCEPT ![p] = n]  BY <2>1, <2>2
    <2> HIDE <2>2
    <2> QED BY <2>1, <2>a, <2>3, <2>4
  <1>23. CASE PublishNothing(p)  BY <1>23 DEF PublishNothing, Persist
  <1>24. CASE TargetsDone(p)  BY <1>24 DEF TargetsDone
  <1>25. CASE MeasureSuite(p)
    <2> PICK k \in Packages : Journal(p, {Suite(k)}, "suites")  BY <1>25 DEF MeasureSuite
    <2> PICK units : units = {Suite(k)}  OBVIOUS
    <2>1. state' = [state EXCEPT ![p] = [state[p] EXCEPT !.units = @ \cup units]]  BY DEF Journal
    <2>a. \A v \in units : v.kind # "mutant"  BY DEF Suite
    <2>2. PICK n : n = [state[p] EXCEPT !.units = @ \cup units]  OBVIOUS
    <2>3. n.catalog = state[p].catalog /\ n.units = state[p].units \cup units  BY <2>2 DEF States
    <2>4. state' = [state EXCEPT ![p] = n]  BY <2>1, <2>2
    <2> HIDE <2>2
    <2> QED BY <2>1, <2>a, <2>3, <2>4
  <1>26. CASE CompleteBaseline(p)  BY <1>26 DEF CompleteBaseline, Persist
  <1>27. CASE Race(p)
    <2>0. pc[p] = "race" /\ UNCHANGED <<base, journal, torn, known, selected, fresh, queue, measured>>
      BY <1>27 DEF Race
    <2>1. CASE ~state[p].race /\ Persist(p, [state[p] EXCEPT !.race = TRUE], "mutation")
      <3>1. PICK n : n = [state[p] EXCEPT !.race = TRUE]  OBVIOUS
      <3>2. /\ n.attempts = state[p].attempts /\ n.vet = state[p].vet /\ n.done = state[p].done
            /\ n.catalog = state[p].catalog /\ n.units = state[p].units /\ n.race
        BY <3>1, OneField
      <3>3. Persist(p, n, "mutation")  BY <2>1, <3>1
      <3> HIDE <3>1
      <3> QED BY <2>0, <3>2, <3>3 DEF Persist, Of
    <2>2. CASE pc' = [pc EXCEPT ![p] = "mutation"] /\ UNCHANGED <<then, state>>
      BY <2>0, <2>2
    <2>3. CASE Persist(p, [state[p] EXCEPT !.race = FALSE, !.catalog = None, !.probe = FALSE,
                            !.mdone = FALSE, !.units = @ \ Of("mutant", @)], "race")
      <3>1. PICK n : n = [state[p] EXCEPT !.race = FALSE, !.catalog = None, !.probe = FALSE,
                            !.mdone = FALSE, !.units = @ \ Of("mutant", @)]
        OBVIOUS
      <3>2. /\ n.attempts = state[p].attempts /\ n.vet = state[p].vet /\ n.done = state[p].done
            /\ n.catalog = None /\ n.units = state[p].units \ Of("mutant", state[p].units)
        BY <3>1, RaceDropped
      <3>3. Persist(p, n, "race")  BY <2>3, <3>1
      <3> HIDE <3>1
      <3> QED BY <2>0, <3>2, <3>3 DEF Persist, Of
    <2> QED BY <1>27, <2>1, <2>2, <2>3 DEF Race
  <1>28. CASE Mutation(p)
    <2>0. pc[p] = "mutation" /\ UNCHANGED <<base, journal, torn, known, selected, fresh, queue, measured>>
      BY <1>28 DEF Mutation
    <2> PICK c \in Catalogs :
           \/ state[p].catalog = c /\ pc' = [pc EXCEPT ![p] = "probe"] /\ UNCHANGED <<then, state>>
           \/ state[p].catalog # c /\ Persist(p, NoMutation(state[p], c), "probe")
      BY <1>28 DEF Mutation
    <2>1. CASE state[p].catalog = c /\ pc' = [pc EXCEPT ![p] = "probe"] /\ UNCHANGED <<then, state>>
      BY <2>0, <2>1
    <2>2. CASE state[p].catalog # c /\ Persist(p, NoMutation(state[p], c), "probe")
      <3>1. PICK n : n = NoMutation(state[p], c)  OBVIOUS
      <3>2. /\ n.attempts = state[p].attempts /\ n.vet = state[p].vet /\ n.done = state[p].done
            /\ n.catalog = c /\ n.units = state[p].units \ Of("mutant", state[p].units)
        <4>1. state[p].catalog \in Catalogs \cup {None}  BY DEF States
        <4> QED BY <3>1, <4>1, MutationDropped
      <3>3. Persist(p, n, "probe")  BY <2>2, <3>1
      <3> QED BY <2>0, <3>2, <3>3 DEF Persist, Of
    <2> QED BY <2>1, <2>2
  <1>29. CASE Probe(p)
    <2>0. pc[p] = "probe" /\ UNCHANGED <<base, journal, torn, known, selected, fresh, queue, measured>>
      BY <1>29 DEF Probe
    <2>1. CASE pc' = [pc EXCEPT ![p] = "mutants"] /\ UNCHANGED <<then, state>>
      BY <2>0, <2>1
    <2>2. CASE Persist(p, NoMutation(state[p], state[p].catalog), "probe")
      <3>1. PICK n : n = NoMutation(state[p], state[p].catalog)  OBVIOUS
      <3>2. /\ n.attempts = state[p].attempts /\ n.vet = state[p].vet /\ n.done = state[p].done
            /\ n.catalog = state[p].catalog /\ n.units = state[p].units \ Of("mutant", state[p].units)
        <4>1. state[p].catalog \in Catalogs \cup {None}  BY DEF States
        <4> QED BY <3>1, <4>1, MutationDropped
      <3>3. Persist(p, n, "probe")  BY <2>2, <3>1
      <3> QED BY <2>0, <3>2, <3>3 DEF Persist, Of
    <2>3. CASE ~state[p].probe /\ Persist(p, [state[p] EXCEPT !.probe = TRUE], "mutants")
      <3>1. PICK n : n = [state[p] EXCEPT !.probe = TRUE]  OBVIOUS
      <3>2. /\ n.attempts = state[p].attempts /\ n.vet = state[p].vet /\ n.done = state[p].done
            /\ n.catalog = state[p].catalog /\ n.units = state[p].units /\ n.probe
        BY <3>1, OneField
      <3>3. Persist(p, n, "mutants")  BY <2>3, <3>1
      <3> HIDE <3>1
      <3> QED BY <2>0, <3>2, <3>3 DEF Persist, Of
    <2> QED BY <1>29, <2>1, <2>2, <2>3 DEF Probe
  <1>30. CASE SaveMutant(p)
    <2>1. PICK m \in Mutants : /\ state' = [state EXCEPT ![p] = [state[p] EXCEPT !.units = @ \cup {Mutant(m)}]]
                               /\ <<m, state[p].catalog>> \in measured'
      BY <1>30 DEF SaveMutant, Journal
    <2>2. Mutant(m).id = m  BY DEF Mutant
    <2>3. PICK n : n = [state[p] EXCEPT !.units = @ \cup {Mutant(m)}]  OBVIOUS
    <2>4. n.catalog = state[p].catalog /\ n.units = state[p].units \cup {Mutant(m)}  BY <2>3 DEF States
    <2>5. state' = [state EXCEPT ![p] = n]  BY <2>1, <2>3
    <2> HIDE <2>3
    <2> QED BY <2>1, <2>2, <2>4, <2>5
  <1>31. CASE CompleteMutation(p)  BY <1>31 DEF CompleteMutation, Persist
  <1>32. CASE Discard(p)  BY <1>32 DEF Discard, Forget
  <1>33. CASE Verified(p)  BY <1>33 DEF Verified
  <1>34. CASE Fail(p)  BY <1>34 DEF Fail
  <1>35. CASE Keep(p)  BY <1>35 DEF Keep, Over
  <1>36. CASE Collect(p)  BY <1>36 DEF Collect, Over
  <1>37. CASE CollectFile(p)  BY <1>37 DEF CollectFile
  <1>38. CASE CollectEnd(p)  BY <1>38 DEF CollectEnd, Return
  <1>39. CASE Publish(p)  BY <1>39 DEF Publish, Forget
  <1>40. CASE PublishFail(p)  BY <1>40 DEF PublishFail
  <1>41. CASE Release(p)  BY <1>41 DEF Release, Unlock, Gone
  <1>42. CASE AcquireCancel(p)  BY <1>42 DEF AcquireCancel, Gone
  <1>43. CASE Crash(p)  BY <1>43 DEF Crash, Unlock, Gone, Append1
  <1> QED
    BY <1>1, <1>2, <1>3, <1>4, <1>5, <1>6, <1>7, <1>8, <1>9, <1>10, <1>11,
       <1>12, <1>13, <1>14, <1>15, <1>16, <1>17, <1>18, <1>19, <1>20, <1>21,
       <1>22, <1>23, <1>24, <1>25, <1>26, <1>27, <1>28, <1>29, <1>30, <1>31,
       <1>32, <1>33, <1>34, <1>35, <1>36, <1>37, <1>38, <1>39, <1>40, <1>41,
       <1>42, <1>43
    DEF RunStep, Open, Store, Round, End

\* Every step leaves what is on disk measured for its catalogue.
LEMMA SoundBaseStep ==
  ASSUME ShapeInv, ShapeInv', SoundInv, NEW p \in Runs, RunStep(p)
  PROVE  base' # None => Sound(base)'
  <1> USE NoneAssumption DEF disk, lease, controller, work, ghost, Goto, Sound
  <1> /\ pc \in [Runs -> PCs] /\ then \in [Runs -> PCs]
      /\ state \in [Runs -> States] /\ known \in [Runs -> States \cup {None}]
      /\ base \in States \cup {None} /\ queue \in [Runs -> SUBSET Units]
      /\ selected \in [Runs -> SUBSET Targets] /\ fresh \in [Runs -> SUBSET Targets]
    BY DEF ShapeInv, TypeOK
  <1> state' \in [Runs -> States]  BY DEF ShapeInv, TypeOK
  <1> measured \subseteq measured'
    <2>1. UNCHANGED measured \/ SaveMutant(p)
      BY DEF RunStep, Open, Store, Round, End, Start, Acquire, AcquireFail, Answered, Get, GetFail,
        Cold, Put, Compact, PutFail, AppendUnit, AppendFail, AppendEnd, DeleteBase, DeleteJournal,
        DeleteFail, Baseline, Vet, Unbuildable, Compiled, Measure, PublishPackage, PublishNothing,
        TargetsDone, MeasureSuite, CompleteBaseline, Race, Mutation, Probe, CompleteMutation,
        Discard, Verified, Fail, Keep, Collect, CollectFile, CollectEnd, Publish, PublishFail,
        Release, AcquireCancel, Crash
    <2> QED BY <2>1 DEF SaveMutant
  <1> base # None => Sound(base)  BY DEF SoundInv
  <1> \A q \in Runs : Sound(state[q])  BY DEF SoundInv
  <1>1. CASE Start(p)  BY <1>1 DEF Start
  <1>2. CASE Acquire(p)  BY <1>2 DEF Acquire
  <1>3. CASE AcquireFail(p)  BY <1>3 DEF AcquireFail
  <1>4. CASE Answered(p)  BY <1>4 DEF Answered
  <1>5. CASE Get(p)  BY <1>5 DEF Get, Persist, Forget
  <1>6. CASE GetFail(p)  BY <1>6 DEF GetFail, Forget
  <1>7. CASE Cold(p)  BY <1>7 DEF Cold, Persist
  <1>8. CASE Put(p)  BY <1>8 DEF Put
  <1>9. CASE Compact(p)  BY <1>9 DEF Compact, Return
  <1>10. CASE PutFail(p)  BY <1>10 DEF PutFail, Disable, Forget
  <1>11. CASE AppendUnit(p)  BY <1>11 DEF AppendUnit, Append1
  <1>12. CASE AppendFail(p)  BY <1>12 DEF AppendFail, Append1, Disable, Forget
  <1>13. CASE AppendEnd(p)  BY <1>13 DEF AppendEnd, Return
  <1>14. CASE DeleteBase(p)  BY <1>14 DEF DeleteBase
  <1>15. CASE DeleteJournal(p)  BY <1>15 DEF DeleteJournal, Return
  <1>16. CASE DeleteFail(p)  BY <1>16 DEF DeleteFail, Return
  <1>17. CASE Baseline(p)  BY <1>17 DEF Baseline, Persist
  <1>18. CASE Vet(p)  BY <1>18 DEF Vet, Persist
  <1>19. CASE Unbuildable(p)  BY <1>19 DEF Unbuildable, Persist
  <1>20. CASE Compiled(p)  BY <1>20 DEF Compiled
  <1>21. CASE Measure(p)  BY <1>21 DEF Measure
  <1>22. CASE PublishPackage(p)  BY <1>22 DEF PublishPackage, Journal
  <1>23. CASE PublishNothing(p)  BY <1>23 DEF PublishNothing, Persist
  <1>24. CASE TargetsDone(p)  BY <1>24 DEF TargetsDone
  <1>25. CASE MeasureSuite(p)  BY <1>25 DEF MeasureSuite, Journal
  <1>26. CASE CompleteBaseline(p)  BY <1>26 DEF CompleteBaseline, Persist
  <1>27. CASE Race(p)  BY <1>27 DEF Race, Persist
  <1>28. CASE Mutation(p)  BY <1>28 DEF Mutation, Persist, NoMutation
  <1>29. CASE Probe(p)  BY <1>29 DEF Probe, Persist, NoMutation
  <1>30. CASE SaveMutant(p)  BY <1>30 DEF SaveMutant, Journal
  <1>31. CASE CompleteMutation(p)  BY <1>31 DEF CompleteMutation, Persist
  <1>32. CASE Discard(p)  BY <1>32 DEF Discard, Forget
  <1>33. CASE Verified(p)  BY <1>33 DEF Verified
  <1>34. CASE Fail(p)  BY <1>34 DEF Fail
  <1>35. CASE Keep(p)  BY <1>35 DEF Keep, Over
  <1>36. CASE Collect(p)  BY <1>36 DEF Collect, Over
  <1>37. CASE CollectFile(p)  BY <1>37 DEF CollectFile
  <1>38. CASE CollectEnd(p)  BY <1>38 DEF CollectEnd, Return
  <1>39. CASE Publish(p)  BY <1>39 DEF Publish, Forget
  <1>40. CASE PublishFail(p)  BY <1>40 DEF PublishFail
  <1>41. CASE Release(p)  BY <1>41 DEF Release, Unlock, Gone
  <1>42. CASE AcquireCancel(p)  BY <1>42 DEF AcquireCancel, Gone
  <1>43. CASE Crash(p)  BY <1>43 DEF Crash, Unlock, Gone, Append1
  <1> QED
    BY <1>1, <1>2, <1>3, <1>4, <1>5, <1>6, <1>7, <1>8, <1>9, <1>10, <1>11,
       <1>12, <1>13, <1>14, <1>15, <1>16, <1>17, <1>18, <1>19, <1>20, <1>21,
       <1>22, <1>23, <1>24, <1>25, <1>26, <1>27, <1>28, <1>29, <1>30, <1>31,
       <1>32, <1>33, <1>34, <1>35, <1>36, <1>37, <1>38, <1>39, <1>40, <1>41,
       <1>42, <1>43
    DEF RunStep, Open, Store, Round, End

LEMMA SoundAppend ==
  ASSUME ShapeInv, KnownInv, QueueInv, SoundInv, NEW p \in Runs, pc[p] = "append",
         NEW u \in queue[p], Append1(p, u)
  PROVE  \A i \in DOMAIN journal' : journal'[i].unit.kind = "mutant" =>
            <<journal'[i].unit.id, journal'[i].base.catalog>> \in measured
  <1> SUFFICES ASSUME NEW i \in DOMAIN journal', journal'[i].unit.kind = "mutant"
               PROVE  <<journal'[i].unit.id, journal'[i].base.catalog>> \in measured
    OBVIOUS
  <1>1. CASE i \in DOMAIN journal
    <2>1. journal'[i] = journal[i]  BY <1>1, OneMoreLine
    <2> QED BY <1>1, <2>1 DEF SoundInv
  <1>2. CASE i = Len(journal) + 1
    <2>1. journal'[i].base = known[p] /\ journal'[i].unit = u  BY <1>2, OneMoreLine
    <2>2. known[p].catalog = state[p].catalog  BY DEF KnownInv, SameButUnits
    <2>3. u \in state[p].units  BY DEF QueueInv
    <2> QED BY <2>1, <2>2, <2>3 DEF SoundInv, Sound
  <1> QED BY <1>1, <1>2, OneMoreLine

\* Every step leaves what is in the journal measured for its catalogue.
LEMMA SoundLinesStep ==
  ASSUME ShapeInv, KnownInv, QueueInv, SoundInv, NEW p \in Runs, RunStep(p)
  PROVE  \A i \in DOMAIN journal' : journal'[i].unit.kind = "mutant" =>
            <<journal'[i].unit.id, journal'[i].base.catalog>> \in measured'
  <1> USE NoneAssumption DEF disk, lease, controller, work, ghost, Goto
  <1> measured \subseteq measured'
    <2>1. UNCHANGED measured \/ SaveMutant(p)
      BY DEF RunStep, Open, Store, Round, End, Start, Acquire, AcquireFail, Answered, Get, GetFail,
        Cold, Put, Compact, PutFail, AppendUnit, AppendFail, AppendEnd, DeleteBase, DeleteJournal,
        DeleteFail, Baseline, Vet, Unbuildable, Compiled, Measure, PublishPackage, PublishNothing,
        TargetsDone, MeasureSuite, CompleteBaseline, Race, Mutation, Probe, CompleteMutation,
        Discard, Verified, Fail, Keep, Collect, CollectFile, CollectEnd, Publish, PublishFail,
        Release, AcquireCancel, Crash
    <2> QED BY <2>1 DEF SaveMutant
  <1> \A i \in DOMAIN journal :
        journal[i].unit.kind = "mutant" => <<journal[i].unit.id, journal[i].base.catalog>> \in measured
    BY DEF SoundInv
  <1>1. CASE Start(p)  BY <1>1 DEF Start
  <1>2. CASE Acquire(p)  BY <1>2 DEF Acquire
  <1>3. CASE AcquireFail(p)  BY <1>3 DEF AcquireFail
  <1>4. CASE Answered(p)  BY <1>4 DEF Answered
  <1>5. CASE Get(p)  BY <1>5 DEF Get, Persist, Forget
  <1>6. CASE GetFail(p)  BY <1>6 DEF GetFail, Forget
  <1>7. CASE Cold(p)  BY <1>7 DEF Cold, Persist
  <1>8. CASE Put(p)  BY <1>8 DEF Put
  <1>9. CASE Compact(p)  BY <1>9 DEF Compact, Return
  <1>10. CASE PutFail(p)  BY <1>10 DEF PutFail, Disable, Forget
  <1>11. CASE AppendUnit(p)
    <2>1. PICK u \in queue[p] : Append1(p, u)  BY <1>11 DEF AppendUnit
    <2> QED BY <1>11, <2>1, SoundAppend DEF AppendUnit
  <1>12. CASE AppendFail(p)
    <2>1. CASE UNCHANGED journal  BY <2>1
    <2>2. CASE \E u \in queue[p] : Append1(p, u)  BY <1>12, <2>2, SoundAppend DEF AppendFail
    <2> QED BY <1>12, <2>1, <2>2 DEF AppendFail
  <1>13. CASE AppendEnd(p)  BY <1>13 DEF AppendEnd, Return
  <1>14. CASE DeleteBase(p)  BY <1>14 DEF DeleteBase
  <1>15. CASE DeleteJournal(p)  BY <1>15 DEF DeleteJournal, Return
  <1>16. CASE DeleteFail(p)  BY <1>16 DEF DeleteFail, Return
  <1>17. CASE Baseline(p)  BY <1>17 DEF Baseline, Persist
  <1>18. CASE Vet(p)  BY <1>18 DEF Vet, Persist
  <1>19. CASE Unbuildable(p)  BY <1>19 DEF Unbuildable, Persist
  <1>20. CASE Compiled(p)  BY <1>20 DEF Compiled
  <1>21. CASE Measure(p)  BY <1>21 DEF Measure
  <1>22. CASE PublishPackage(p)  BY <1>22 DEF PublishPackage, Journal
  <1>23. CASE PublishNothing(p)  BY <1>23 DEF PublishNothing, Persist
  <1>24. CASE TargetsDone(p)  BY <1>24 DEF TargetsDone
  <1>25. CASE MeasureSuite(p)  BY <1>25 DEF MeasureSuite, Journal
  <1>26. CASE CompleteBaseline(p)  BY <1>26 DEF CompleteBaseline, Persist
  <1>27. CASE Race(p)  BY <1>27 DEF Race, Persist
  <1>28. CASE Mutation(p)  BY <1>28 DEF Mutation, Persist, NoMutation
  <1>29. CASE Probe(p)  BY <1>29 DEF Probe, Persist, NoMutation
  <1>30. CASE SaveMutant(p)  BY <1>30 DEF SaveMutant, Journal
  <1>31. CASE CompleteMutation(p)  BY <1>31 DEF CompleteMutation, Persist
  <1>32. CASE Discard(p)  BY <1>32 DEF Discard, Forget
  <1>33. CASE Verified(p)  BY <1>33 DEF Verified
  <1>34. CASE Fail(p)  BY <1>34 DEF Fail
  <1>35. CASE Keep(p)  BY <1>35 DEF Keep, Over
  <1>36. CASE Collect(p)  BY <1>36 DEF Collect, Over
  <1>37. CASE CollectFile(p)
    <2>1. CASE UNCHANGED journal  BY <2>1
    <2>2. CASE journal' = <<>>  BY <2>2
    <2> QED BY <1>37, <2>1, <2>2 DEF CollectFile
  <1>38. CASE CollectEnd(p)  BY <1>38 DEF CollectEnd, Return
  <1>39. CASE Publish(p)  BY <1>39 DEF Publish, Forget
  <1>40. CASE PublishFail(p)  BY <1>40 DEF PublishFail
  <1>41. CASE Release(p)  BY <1>41 DEF Release, Unlock, Gone
  <1>42. CASE AcquireCancel(p)  BY <1>42 DEF AcquireCancel, Gone
  <1>43. CASE Crash(p)
    <2>1. CASE UNCHANGED journal  BY <2>1
    <2>2. CASE pc[p] = "append" /\ \E u \in queue[p] : Append1(p, u)  BY <2>2, SoundAppend
    <2> QED BY <1>43, <2>1, <2>2 DEF Crash
  <1> QED
    BY <1>1, <1>2, <1>3, <1>4, <1>5, <1>6, <1>7, <1>8, <1>9, <1>10, <1>11,
       <1>12, <1>13, <1>14, <1>15, <1>16, <1>17, <1>18, <1>19, <1>20, <1>21,
       <1>22, <1>23, <1>24, <1>25, <1>26, <1>27, <1>28, <1>29, <1>30, <1>31,
       <1>32, <1>33, <1>34, <1>35, <1>36, <1>37, <1>38, <1>39, <1>40, <1>41,
       <1>42, <1>43
    DEF RunStep, Open, Store, Round, End

\* The name of a unit tells what it is of, and of a target whether it was run.
LEMMA Names ==
  ASSUME NEW u \in Units
  PROVE  /\ \A t : NameOf(u) = NameOf(Target(t)) => u \in {Target(t), Skip(t)}
         /\ \A t : NameOf(u) = NameOf(Skip(t)) => u \in {Target(t), Skip(t)}
         /\ \A k : NameOf(u) = NameOf(Suite(k)) => u = Suite(k)
         /\ \A m : NameOf(u) = NameOf(Mutant(m)) => u = Mutant(m)
  <1> USE DEF NameOf, Target, Skip, Suite, Mutant
  <1>1. CASE \E t \in Targets : u = Target(t)  BY <1>1
  <1>2. CASE \E t \in Targets : u = Skip(t)  BY <1>2
  <1>3. CASE \E k \in Packages : u = Suite(k)  BY <1>3
  <1>4. CASE \E m \in Mutants : u = Mutant(m)  BY <1>4
  <1> QED BY <1>1, <1>2, <1>3, <1>4 DEF Units

LEMMA DifferentNames ==
  /\ \A t, x : NameOf(Target(t)) = NameOf(Target(x)) => t = x
  /\ \A t, x : NameOf(Classified(t)) = NameOf(Classified(x)) => t = x
  /\ \A t, k : NameOf(Target(t)) # NameOf(Suite(k))
  /\ \A t : NameOf(Classified(t)) = NameOf(Target(t))
  BY DEF NameOf, Target, Skip, Suite, Classified

\* Every step leaves no name twice in what a run holds.
LEMMA OnceStep ==
  ASSUME ShapeInv, ShapeInv', TargetsInv, FitInv, NEW p \in Runs, RunStep(p)
  PROVE  \A q \in Runs : Once(state[q])'
  <1> USE NoneAssumption DEF disk, lease, controller, work, ghost, Goto
  <1> /\ pc \in [Runs -> PCs] /\ then \in [Runs -> PCs]
      /\ state \in [Runs -> States] /\ known \in [Runs -> States \cup {None}]
      /\ base \in States \cup {None} /\ queue \in [Runs -> SUBSET Units]
      /\ selected \in [Runs -> SUBSET Targets] /\ fresh \in [Runs -> SUBSET Targets]
    BY DEF ShapeInv, TypeOK
  <1> state' \in [Runs -> States]  BY DEF ShapeInv, TypeOK
  <1> SUFFICES ASSUME NEW q \in Runs, NEW u \in state'[q].units, NEW v \in state'[q].units,
                      NameOf(u) = NameOf(v)
               PROVE  u = v
    BY DEF Once
  <1> u \in state[q].units /\ v \in state[q].units => u = v  BY DEF FitInv, Once
  <1> \A r \in Runs : state[r].units \subseteq Units  BY DEF States
  <1> Blank.units = {} /\ \A n : [Blank EXCEPT !.attempts = n].units = {}  BY DEF Blank
  <1>1. CASE Start(p)  BY <1>1 DEF Start
  <1>2. CASE Acquire(p)  BY <1>2 DEF Acquire
  <1>3. CASE AcquireFail(p)  BY <1>3 DEF AcquireFail
  <1>4. CASE Answered(p)  BY <1>4 DEF Answered
  <1>5. CASE Get(p)
    <2>1. CASE base = None /\ Persist(p, Blank, "baseline")
      BY <2>1 DEF Persist
    <2>2. CASE base # None /\ InOrder(base) /\ Persist(p, [Replayed(base) EXCEPT !.attempts = @ + 1], "baseline")
      <3>1. base \in States  BY <2>2
      <3>2. Replayed(base).units = base.units \cup {journal[i].unit : i \in Current(base)}
        BY <3>1 DEF Replayed, States
      <3>3. Replayed(base) \in States  BY <3>1, ReplayedType
      <3>4. PICK n : n = [Replayed(base) EXCEPT !.attempts = @ + 1]  OBVIOUS
      <3>5. n.units = Replayed(base).units  BY <3>2, <3>3, <3>4 DEF States
      <3>6. \A x, y \in base.units : NameOf(x) = NameOf(y) => x = y  BY <2>2 DEF FitInv, Once
      <3>7. \A x, y \in n.units : NameOf(x) = NameOf(y) => x = y
        BY <2>2, <3>2, <3>5, <3>6 DEF InOrder
      <3>8. state' = [state EXCEPT ![p] = n]  BY <2>2, <3>4 DEF Persist
      <3> HIDE <3>4
      <3> QED BY <3>7, <3>8
    <2>3. CASE UNCHANGED state  BY <2>3
    <2> QED BY <1>5, <2>1, <2>2, <2>3 DEF Get, Replayable
  <1>6. CASE GetFail(p)  BY <1>6 DEF GetFail, Forget
  <1>7. CASE Cold(p)  BY <1>7 DEF Cold, Persist
  <1>8. CASE Put(p)  BY <1>8 DEF Put
  <1>9. CASE Compact(p)  BY <1>9 DEF Compact, Return
  <1>10. CASE PutFail(p)  BY <1>10 DEF PutFail, Disable, Forget
  <1>11. CASE AppendUnit(p)  BY <1>11 DEF AppendUnit, Append1
  <1>12. CASE AppendFail(p)  BY <1>12 DEF AppendFail, Append1, Disable, Forget
  <1>13. CASE AppendEnd(p)  BY <1>13 DEF AppendEnd, Return
  <1>14. CASE DeleteBase(p)  BY <1>14 DEF DeleteBase
  <1>15. CASE DeleteJournal(p)  BY <1>15 DEF DeleteJournal, Return
  <1>16. CASE DeleteFail(p)  BY <1>16 DEF DeleteFail, Return
  <1>17. CASE Baseline(p)
    <2>1. CASE UNCHANGED state  BY <2>1
    <2>2. CASE Persist(p, [Blank EXCEPT !.attempts = state[p].attempts], "vet")
      BY <2>2 DEF Persist
    <2> QED BY <1>17, <2>1, <2>2 DEF Baseline
  <1>18. CASE Vet(p)
    <2>0. pc[p] = "vet" /\ UNCHANGED <<base, journal, torn, known, selected, fresh, queue, measured, recorded>>
      BY <1>18 DEF Vet
    <2>1. CASE state[p].vet /\ pc' = [pc EXCEPT ![p] = "compile"] /\ UNCHANGED <<then, state>>
      BY <2>0, <2>1
    <2>2. CASE ~state[p].vet /\ Persist(p, [state[p] EXCEPT !.vet = TRUE], "compile")
      <3>1. PICK n : n = [state[p] EXCEPT !.vet = TRUE]  OBVIOUS
      <3>2. /\ n.attempts = state[p].attempts /\ n.done = state[p].done
            /\ n.catalog = state[p].catalog /\ n.units = state[p].units /\ n.vet
        BY <3>1, OneField
      <3>3. Persist(p, n, "compile")  BY <2>2, <3>1
      <3> HIDE <3>1
      <3> QED BY <2>0, <3>2, <3>3 DEF Persist, Of
    <2> QED BY <1>18, <2>1, <2>2 DEF Vet
  <1>19. CASE Unbuildable(p)
    <2>1. PICK units : /\ state' = [state EXCEPT ![p] = [state[p] EXCEPT !.units = @ \cup units]]
                       /\ units \subseteq {Target(x) : x \in Pending(p)} \cup {Suite(x) : x \in Packages}
      <3>0. {PackageOf[x] : x \in selected[p]} \subseteq Packages  BY PackagesAssumption
      <3>1. PICK k \in Packages : LET ts == {Target(x) : x \in {y \in Pending(p) : PackageOf[y] = k}} IN
              \E settled \in {ts, ts \cup {Suite(k)}} : Persist(p, [state[p] EXCEPT !.units = @ \cup settled], "compile")
        BY <1>19, <3>0 DEF Unbuildable
      <3>2. {Target(x) : x \in {y \in Pending(p) : PackageOf[y] = k}} \subseteq {Target(x) : x \in Pending(p)}
        OBVIOUS
      <3>3. PICK settled : /\ Persist(p, [state[p] EXCEPT !.units = @ \cup settled], "compile")
                           /\ settled \subseteq {Target(x) : x \in Pending(p)} \cup {Suite(k)}
        BY <3>1, <3>2
      <3>4. state' = [state EXCEPT ![p] = [state[p] EXCEPT !.units = @ \cup settled]]  BY <3>3 DEF Persist
      <3>5. settled \subseteq {Target(x) : x \in Pending(p)} \cup {Suite(x) : x \in Packages}
        BY <3>3
      <3> QED BY <3>4, <3>5
    <2>b. \A x \in units, y \in units \cup state[p].units : NameOf(x) = NameOf(y) => x = y
      <3>1. \A x \in Pending(p) : Target(x) \notin state[p].units /\ Skip(x) \notin state[p].units
        BY WhatIsPending
      <3>2. ASSUME NEW x \in units, NEW y \in state[p].units, NameOf(x) = NameOf(y) PROVE x = y
        BY <2>1, <3>1, <3>2, Names
      <3>3. ASSUME NEW x \in units, NEW y \in units, NameOf(x) = NameOf(y) PROVE x = y
        BY <2>1, <3>3, DifferentNames DEF NameOf, Suite
      <3> QED BY <3>2, <3>3
    <2>2. PICK n : n = [state[p] EXCEPT !.units = @ \cup units]  OBVIOUS
    <2>3. n.units = state[p].units \cup units  BY <2>2 DEF States
    <2>4. state' = [state EXCEPT ![p] = n]  BY <2>1, <2>2
    <2> HIDE <2>2
    <2> QED BY <2>b, <2>3, <2>4
  <1>20. CASE Compiled(p)  BY <1>20 DEF Compiled
  <1>21. CASE Measure(p)  BY <1>21 DEF Measure
  <1>22. CASE PublishPackage(p)
    <2>1. PICK units : /\ state' = [state EXCEPT ![p] = [state[p] EXCEPT !.units = @ \cup units]]
                       /\ units = {Classified(x) : x \in fresh[p]}
      BY <1>22 DEF PublishPackage, Journal
    <2>b. \A x \in units, y \in units \cup state[p].units : NameOf(x) = NameOf(y) => x = y
      <3>1. \A t \in fresh[p] : Target(t) \notin state[p].units /\ Skip(t) \notin state[p].units
        BY WhatIsPending DEF TargetsInv
      <3>2. ASSUME NEW x \in units, NEW y \in state[p].units, NameOf(x) = NameOf(y) PROVE x = y
        <4>1. PICK t \in fresh[p] : x = Classified(t)  BY <2>1
        <4>2. NameOf(y) = NameOf(Target(t))  BY <3>2, <4>1, DifferentNames
        <4> QED BY <3>1, <4>2, Names
      <3>3. ASSUME NEW x \in units, NEW y \in units, NameOf(x) = NameOf(y) PROVE x = y
        BY <2>1, <3>3, DifferentNames
      <3> QED BY <3>2, <3>3
    <2>2. PICK n : n = [state[p] EXCEPT !.units = @ \cup units]  OBVIOUS
    <2>3. n.units = state[p].units \cup units  BY <2>2 DEF States
    <2>4. state' = [state EXCEPT ![p] = n]  BY <2>1, <2>2
    <2> HIDE <2>2
    <2> QED BY <2>b, <2>3, <2>4
  <1>23. CASE PublishNothing(p)  BY <1>23 DEF PublishNothing, Persist
  <1>24. CASE TargetsDone(p)  BY <1>24 DEF TargetsDone
  <1>25. CASE MeasureSuite(p)
    <2> PICK k \in Packages : Journal(p, {Suite(k)}, "suites")  BY <1>25 DEF MeasureSuite
    <2> PICK units : units = {Suite(k)}  OBVIOUS
    <2>1. state' = [state EXCEPT ![p] = [state[p] EXCEPT !.units = @ \cup units]]  BY DEF Journal
    <2>b. \A x \in units, y \in units \cup state[p].units : NameOf(x) = NameOf(y) => x = y
      BY Names
    <2>2. PICK n : n = [state[p] EXCEPT !.units = @ \cup units]  OBVIOUS
    <2>3. n.units = state[p].units \cup units  BY <2>2 DEF States
    <2>4. state' = [state EXCEPT ![p] = n]  BY <2>1, <2>2
    <2> HIDE <2>2
    <2> QED BY <2>b, <2>3, <2>4
  <1>26. CASE CompleteBaseline(p)  BY <1>26 DEF CompleteBaseline, Persist
  <1>27. CASE Race(p)
    <2>0. pc[p] = "race" /\ UNCHANGED <<base, journal, torn, known, selected, fresh, queue, measured>>
      BY <1>27 DEF Race
    <2>1. CASE ~state[p].race /\ Persist(p, [state[p] EXCEPT !.race = TRUE], "mutation")
      <3>1. PICK n : n = [state[p] EXCEPT !.race = TRUE]  OBVIOUS
      <3>2. /\ n.attempts = state[p].attempts /\ n.vet = state[p].vet /\ n.done = state[p].done
            /\ n.catalog = state[p].catalog /\ n.units = state[p].units /\ n.race
        BY <3>1, OneField
      <3>3. Persist(p, n, "mutation")  BY <2>1, <3>1
      <3> HIDE <3>1
      <3> QED BY <2>0, <3>2, <3>3 DEF Persist, Of
    <2>2. CASE pc' = [pc EXCEPT ![p] = "mutation"] /\ UNCHANGED <<then, state>>
      BY <2>0, <2>2
    <2>3. CASE Persist(p, [state[p] EXCEPT !.race = FALSE, !.catalog = None, !.probe = FALSE,
                            !.mdone = FALSE, !.units = @ \ Of("mutant", @)], "race")
      <3>1. PICK n : n = [state[p] EXCEPT !.race = FALSE, !.catalog = None, !.probe = FALSE,
                            !.mdone = FALSE, !.units = @ \ Of("mutant", @)]
        OBVIOUS
      <3>2. /\ n.attempts = state[p].attempts /\ n.vet = state[p].vet /\ n.done = state[p].done
            /\ n.catalog = None /\ n.units = state[p].units \ Of("mutant", state[p].units)
        BY <3>1, RaceDropped
      <3>3. Persist(p, n, "race")  BY <2>3, <3>1
      <3> HIDE <3>1
      <3> QED BY <2>0, <3>2, <3>3 DEF Persist, Of
    <2> QED BY <1>27, <2>1, <2>2, <2>3 DEF Race
  <1>28. CASE Mutation(p)
    <2>0. pc[p] = "mutation" /\ UNCHANGED <<base, journal, torn, known, selected, fresh, queue, measured>>
      BY <1>28 DEF Mutation
    <2> PICK c \in Catalogs :
           \/ state[p].catalog = c /\ pc' = [pc EXCEPT ![p] = "probe"] /\ UNCHANGED <<then, state>>
           \/ state[p].catalog # c /\ Persist(p, NoMutation(state[p], c), "probe")
      BY <1>28 DEF Mutation
    <2>1. CASE state[p].catalog = c /\ pc' = [pc EXCEPT ![p] = "probe"] /\ UNCHANGED <<then, state>>
      BY <2>0, <2>1
    <2>2. CASE state[p].catalog # c /\ Persist(p, NoMutation(state[p], c), "probe")
      <3>1. PICK n : n = NoMutation(state[p], c)  OBVIOUS
      <3>2. /\ n.attempts = state[p].attempts /\ n.vet = state[p].vet /\ n.done = state[p].done
            /\ n.catalog = c /\ n.units = state[p].units \ Of("mutant", state[p].units)
        <4>1. state[p].catalog \in Catalogs \cup {None}  BY DEF States
        <4> QED BY <3>1, <4>1, MutationDropped
      <3>3. Persist(p, n, "probe")  BY <2>2, <3>1
      <3> QED BY <2>0, <3>2, <3>3 DEF Persist, Of
    <2> QED BY <2>1, <2>2
  <1>29. CASE Probe(p)
    <2>0. pc[p] = "probe" /\ UNCHANGED <<base, journal, torn, known, selected, fresh, queue, measured>>
      BY <1>29 DEF Probe
    <2>1. CASE pc' = [pc EXCEPT ![p] = "mutants"] /\ UNCHANGED <<then, state>>
      BY <2>0, <2>1
    <2>2. CASE Persist(p, NoMutation(state[p], state[p].catalog), "probe")
      <3>1. PICK n : n = NoMutation(state[p], state[p].catalog)  OBVIOUS
      <3>2. /\ n.attempts = state[p].attempts /\ n.vet = state[p].vet /\ n.done = state[p].done
            /\ n.catalog = state[p].catalog /\ n.units = state[p].units \ Of("mutant", state[p].units)
        <4>1. state[p].catalog \in Catalogs \cup {None}  BY DEF States
        <4> QED BY <3>1, <4>1, MutationDropped
      <3>3. Persist(p, n, "probe")  BY <2>2, <3>1
      <3> QED BY <2>0, <3>2, <3>3 DEF Persist, Of
    <2>3. CASE ~state[p].probe /\ Persist(p, [state[p] EXCEPT !.probe = TRUE], "mutants")
      <3>1. PICK n : n = [state[p] EXCEPT !.probe = TRUE]  OBVIOUS
      <3>2. /\ n.attempts = state[p].attempts /\ n.vet = state[p].vet /\ n.done = state[p].done
            /\ n.catalog = state[p].catalog /\ n.units = state[p].units /\ n.probe
        BY <3>1, OneField
      <3>3. Persist(p, n, "mutants")  BY <2>3, <3>1
      <3> HIDE <3>1
      <3> QED BY <2>0, <3>2, <3>3 DEF Persist, Of
    <2> QED BY <1>29, <2>1, <2>2, <2>3 DEF Probe
  <1>30. CASE SaveMutant(p)
    <2> PICK m \in Mutants : Journal(p, {Mutant(m)}, "mutants")  BY <1>30 DEF SaveMutant
    <2> PICK units : units = {Mutant(m)}  OBVIOUS
    <2>1. state' = [state EXCEPT ![p] = [state[p] EXCEPT !.units = @ \cup units]]  BY DEF Journal
    <2>b. \A x \in units, y \in units \cup state[p].units : NameOf(x) = NameOf(y) => x = y
      BY Names
    <2>2. PICK n : n = [state[p] EXCEPT !.units = @ \cup units]  OBVIOUS
    <2>3. n.units = state[p].units \cup units  BY <2>2 DEF States
    <2>4. state' = [state EXCEPT ![p] = n]  BY <2>1, <2>2
    <2> HIDE <2>2
    <2> QED BY <2>b, <2>3, <2>4
  <1>31. CASE CompleteMutation(p)  BY <1>31 DEF CompleteMutation, Persist
  <1>32. CASE Discard(p)  BY <1>32 DEF Discard, Forget
  <1>33. CASE Verified(p)  BY <1>33 DEF Verified
  <1>34. CASE Fail(p)  BY <1>34 DEF Fail
  <1>35. CASE Keep(p)  BY <1>35 DEF Keep, Over
  <1>36. CASE Collect(p)  BY <1>36 DEF Collect, Over
  <1>37. CASE CollectFile(p)  BY <1>37 DEF CollectFile
  <1>38. CASE CollectEnd(p)  BY <1>38 DEF CollectEnd, Return
  <1>39. CASE Publish(p)  BY <1>39 DEF Publish, Forget
  <1>40. CASE PublishFail(p)  BY <1>40 DEF PublishFail
  <1>41. CASE Release(p)  BY <1>41 DEF Release, Unlock, Gone
  <1>42. CASE AcquireCancel(p)  BY <1>42 DEF AcquireCancel, Gone
  <1>43. CASE Crash(p)  BY <1>43 DEF Crash, Unlock, Gone, Append1
  <1> QED
    BY <1>1, <1>2, <1>3, <1>4, <1>5, <1>6, <1>7, <1>8, <1>9, <1>10, <1>11,
       <1>12, <1>13, <1>14, <1>15, <1>16, <1>17, <1>18, <1>19, <1>20, <1>21,
       <1>22, <1>23, <1>24, <1>25, <1>26, <1>27, <1>28, <1>29, <1>30, <1>31,
       <1>32, <1>33, <1>34, <1>35, <1>36, <1>37, <1>38, <1>39, <1>40, <1>41,
       <1>42, <1>43
    DEF RunStep, Open, Store, Round, End

\* Every step leaves the suites to be appended those of a baseline that goes on.
LEMMA SuitesStep ==
  ASSUME ShapeInv, ShapeInv', QueueInv, FitInv, NEW p \in Runs, RunStep(p)
  PROVE  \A q \in Runs : \A u \in queue'[q] : u.kind = "suite" => ~state'[q].done
  <1> USE NoneAssumption DEF disk, lease, controller, work, ghost, Goto
  <1> /\ pc \in [Runs -> PCs] /\ then \in [Runs -> PCs]
      /\ state \in [Runs -> States] /\ known \in [Runs -> States \cup {None}]
      /\ base \in States \cup {None} /\ queue \in [Runs -> SUBSET Units]
      /\ selected \in [Runs -> SUBSET Targets] /\ fresh \in [Runs -> SUBSET Targets]
    BY DEF ShapeInv, TypeOK
  <1> state' \in [Runs -> States]  BY DEF ShapeInv, TypeOK
  <1> SUFFICES ASSUME NEW q \in Runs, NEW u \in queue'[q], u.kind = "suite"
               PROVE  ~state'[q].done
    OBVIOUS
  <1> u \in queue[q] => ~state[q].done  BY DEF FitInv
  <1> pc[q] # "append" => queue[q] = {}  BY DEF QueueInv
  <1>1. CASE Start(p)  BY <1>1 DEF Start
  <1>2. CASE Acquire(p)  BY <1>2 DEF Acquire
  <1>3. CASE AcquireFail(p)  BY <1>3 DEF AcquireFail
  <1>4. CASE Answered(p)  BY <1>4 DEF Answered
  <1>5. CASE Get(p)  BY <1>5 DEF Get, Persist, Forget
  <1>6. CASE GetFail(p)  BY <1>6 DEF GetFail, Forget
  <1>7. CASE Cold(p)  BY <1>7 DEF Cold, Persist
  <1>8. CASE Put(p)  BY <1>8 DEF Put
  <1>9. CASE Compact(p)  BY <1>9 DEF Compact, Return
  <1>10. CASE PutFail(p)  BY <1>10 DEF PutFail, Disable, Forget
  <1>11. CASE AppendUnit(p)  BY <1>11 DEF AppendUnit, Append1
  <1>12. CASE AppendFail(p)  BY <1>12 DEF AppendFail, Append1, Disable, Forget
  <1>13. CASE AppendEnd(p)  BY <1>13 DEF AppendEnd, Return
  <1>14. CASE DeleteBase(p)  BY <1>14 DEF DeleteBase
  <1>15. CASE DeleteJournal(p)  BY <1>15 DEF DeleteJournal, Return
  <1>16. CASE DeleteFail(p)  BY <1>16 DEF DeleteFail, Return
  <1>17. CASE Baseline(p)  BY <1>17 DEF Baseline, Persist
  <1>18. CASE Vet(p)  BY <1>18 DEF Vet, Persist
  <1>19. CASE Unbuildable(p)  BY <1>19 DEF Unbuildable, Persist
  <1>20. CASE Compiled(p)  BY <1>20 DEF Compiled
  <1>21. CASE Measure(p)  BY <1>21 DEF Measure
  <1>22. CASE PublishPackage(p)
    <2>1. queue' = [queue EXCEPT ![p] = {Classified(t) : t \in fresh[p]}]  BY <1>22 DEF PublishPackage, Journal
    <2>2. q = p => u.kind # "suite"  BY <2>1 DEF Classified, Target, Skip
    <2>3. q # p => state'[q] = state[q] /\ queue'[q] = queue[q]  BY <1>22 DEF PublishPackage, Journal
    <2> QED BY <2>2, <2>3
  <1>23. CASE PublishNothing(p)  BY <1>23 DEF PublishNothing, Persist
  <1>24. CASE TargetsDone(p)  BY <1>24 DEF TargetsDone
  <1>25. CASE MeasureSuite(p)  BY <1>25 DEF MeasureSuite, Journal, States
  <1>26. CASE CompleteBaseline(p)  BY <1>26 DEF CompleteBaseline, Persist
  <1>27. CASE Race(p)  BY <1>27 DEF Race, Persist
  <1>28. CASE Mutation(p)  BY <1>28 DEF Mutation, Persist, NoMutation
  <1>29. CASE Probe(p)  BY <1>29 DEF Probe, Persist, NoMutation
  <1>30. CASE SaveMutant(p)
    <2> PICK m \in Mutants : Journal(p, {Mutant(m)}, "mutants")  BY <1>30 DEF SaveMutant
    <2> QED BY DEF Journal, Mutant
  <1>31. CASE CompleteMutation(p)  BY <1>31 DEF CompleteMutation, Persist
  <1>32. CASE Discard(p)  BY <1>32 DEF Discard, Forget
  <1>33. CASE Verified(p)  BY <1>33 DEF Verified
  <1>34. CASE Fail(p)  BY <1>34 DEF Fail
  <1>35. CASE Keep(p)  BY <1>35 DEF Keep, Over
  <1>36. CASE Collect(p)  BY <1>36 DEF Collect, Over
  <1>37. CASE CollectFile(p)  BY <1>37 DEF CollectFile
  <1>38. CASE CollectEnd(p)  BY <1>38 DEF CollectEnd, Return
  <1>39. CASE Publish(p)  BY <1>39 DEF Publish, Forget
  <1>40. CASE PublishFail(p)  BY <1>40 DEF PublishFail
  <1>41. CASE Release(p)  BY <1>41 DEF Release, Unlock, Gone
  <1>42. CASE AcquireCancel(p)  BY <1>42 DEF AcquireCancel, Gone
  <1>43. CASE Crash(p)  BY <1>43 DEF Crash, Unlock, Gone, Append1
  <1> QED
    BY <1>1, <1>2, <1>3, <1>4, <1>5, <1>6, <1>7, <1>8, <1>9, <1>10, <1>11,
       <1>12, <1>13, <1>14, <1>15, <1>16, <1>17, <1>18, <1>19, <1>20, <1>21,
       <1>22, <1>23, <1>24, <1>25, <1>26, <1>27, <1>28, <1>29, <1>30, <1>31,
       <1>32, <1>33, <1>34, <1>35, <1>36, <1>37, <1>38, <1>39, <1>40, <1>41,
       <1>42, <1>43
    DEF RunStep, Open, Store, Round, End

\* Only a document that validates takes the name of the base.
LEMMA FitBaseStep ==
  ASSUME ShapeInv, FitInv, NEW p \in Runs, RunStep(p)
  PROVE  base' # None => (Once(base) /\ Valid(base))'
  <1> USE NoneAssumption DEF disk, lease, controller, work, ghost, Goto
  <1>1. base' \in {base, None} \/ Put(p)
    BY DEF RunStep, Open, Store, Round, End, Start, Acquire, AcquireFail, Answered, Get, GetFail,
      Cold, Compact, PutFail, AppendUnit, AppendFail, AppendEnd, DeleteBase, DeleteJournal,
      DeleteFail, Baseline, Vet, Unbuildable, Compiled, Measure, PublishPackage, PublishNothing,
      TargetsDone, MeasureSuite, CompleteBaseline, Race, Mutation, Probe, SaveMutant, CompleteMutation,
      Discard, Verified, Fail, Keep, Collect, CollectFile, CollectEnd, Publish, PublishFail,
      Release, AcquireCancel, Crash
  <1>2. base' = base => (Once(base)' <=> Once(base)) /\ (Valid(base)' <=> Valid(base))
    BY DEF Once, Valid, Skips, Of
  <1>3. CASE Put(p)
    <2>1. base' = state[p] /\ Valid(state[p]) /\ Once(state[p])  BY <1>3 DEF Put, FitInv
    <2> QED BY <2>1 DEF Once, Valid, Skips, Of
  <1> QED BY <1>1, <1>2, <1>3 DEF FitInv

LEMMA FitAppend ==
  ASSUME ShapeInv, KnownInv, FitInv, NEW p \in Runs, pc[p] = "append", NEW u \in queue[p], Append1(p, u)
  PROVE  \A i \in DOMAIN journal' : journal'[i].unit.kind = "suite" => ~journal'[i].base.done
  <1> SUFFICES ASSUME NEW i \in DOMAIN journal', journal'[i].unit.kind = "suite"
               PROVE  ~journal'[i].base.done
    OBVIOUS
  <1>1. CASE i \in DOMAIN journal
    <2>1. journal'[i] = journal[i]  BY <1>1, OneMoreLine
    <2> QED BY <1>1, <2>1 DEF FitInv
  <1>2. CASE i = Len(journal) + 1
    <2>1. journal'[i].base = known[p] /\ journal'[i].unit = u  BY <1>2, OneMoreLine
    <2>2. known[p].done = state[p].done  BY DEF KnownInv, SameButUnits
    <2> QED BY <2>1, <2>2 DEF FitInv
  <1> QED BY <1>1, <1>2, OneMoreLine

\* Every step leaves the suites in the journal those of a baseline that went on.
LEMMA FitLinesStep ==
  ASSUME ShapeInv, KnownInv, FitInv, NEW p \in Runs, RunStep(p)
  PROVE  \A i \in DOMAIN journal' : journal'[i].unit.kind = "suite" => ~journal'[i].base.done
  <1> USE NoneAssumption DEF disk, lease, controller, work, ghost, Goto
  <1> \A i \in DOMAIN journal : journal[i].unit.kind = "suite" => ~journal[i].base.done
    BY DEF FitInv
  <1>1. CASE Start(p)  BY <1>1 DEF Start
  <1>2. CASE Acquire(p)  BY <1>2 DEF Acquire
  <1>3. CASE AcquireFail(p)  BY <1>3 DEF AcquireFail
  <1>4. CASE Answered(p)  BY <1>4 DEF Answered
  <1>5. CASE Get(p)  BY <1>5 DEF Get, Persist, Forget
  <1>6. CASE GetFail(p)  BY <1>6 DEF GetFail, Forget
  <1>7. CASE Cold(p)  BY <1>7 DEF Cold, Persist
  <1>8. CASE Put(p)  BY <1>8 DEF Put
  <1>9. CASE Compact(p)  BY <1>9 DEF Compact, Return
  <1>10. CASE PutFail(p)  BY <1>10 DEF PutFail, Disable, Forget
  <1>11. CASE AppendUnit(p)
    <2>1. PICK u \in queue[p] : Append1(p, u)  BY <1>11 DEF AppendUnit
    <2> QED BY <1>11, <2>1, FitAppend DEF AppendUnit
  <1>12. CASE AppendFail(p)
    <2>1. CASE UNCHANGED journal  BY <2>1
    <2>2. CASE \E u \in queue[p] : Append1(p, u)  BY <1>12, <2>2, FitAppend DEF AppendFail
    <2> QED BY <1>12, <2>1, <2>2 DEF AppendFail
  <1>13. CASE AppendEnd(p)  BY <1>13 DEF AppendEnd, Return
  <1>14. CASE DeleteBase(p)  BY <1>14 DEF DeleteBase
  <1>15. CASE DeleteJournal(p)  BY <1>15 DEF DeleteJournal, Return
  <1>16. CASE DeleteFail(p)  BY <1>16 DEF DeleteFail, Return
  <1>17. CASE Baseline(p)  BY <1>17 DEF Baseline, Persist
  <1>18. CASE Vet(p)  BY <1>18 DEF Vet, Persist
  <1>19. CASE Unbuildable(p)  BY <1>19 DEF Unbuildable, Persist
  <1>20. CASE Compiled(p)  BY <1>20 DEF Compiled
  <1>21. CASE Measure(p)  BY <1>21 DEF Measure
  <1>22. CASE PublishPackage(p)  BY <1>22 DEF PublishPackage, Journal
  <1>23. CASE PublishNothing(p)  BY <1>23 DEF PublishNothing, Persist
  <1>24. CASE TargetsDone(p)  BY <1>24 DEF TargetsDone
  <1>25. CASE MeasureSuite(p)  BY <1>25 DEF MeasureSuite, Journal
  <1>26. CASE CompleteBaseline(p)  BY <1>26 DEF CompleteBaseline, Persist
  <1>27. CASE Race(p)  BY <1>27 DEF Race, Persist
  <1>28. CASE Mutation(p)  BY <1>28 DEF Mutation, Persist, NoMutation
  <1>29. CASE Probe(p)  BY <1>29 DEF Probe, Persist, NoMutation
  <1>30. CASE SaveMutant(p)  BY <1>30 DEF SaveMutant, Journal
  <1>31. CASE CompleteMutation(p)  BY <1>31 DEF CompleteMutation, Persist
  <1>32. CASE Discard(p)  BY <1>32 DEF Discard, Forget
  <1>33. CASE Verified(p)  BY <1>33 DEF Verified
  <1>34. CASE Fail(p)  BY <1>34 DEF Fail
  <1>35. CASE Keep(p)  BY <1>35 DEF Keep, Over
  <1>36. CASE Collect(p)  BY <1>36 DEF Collect, Over
  <1>37. CASE CollectFile(p)
    <2>1. CASE UNCHANGED journal  BY <2>1
    <2>2. CASE journal' = <<>>  BY <2>2
    <2> QED BY <1>37, <2>1, <2>2 DEF CollectFile
  <1>38. CASE CollectEnd(p)  BY <1>38 DEF CollectEnd, Return
  <1>39. CASE Publish(p)  BY <1>39 DEF Publish, Forget
  <1>40. CASE PublishFail(p)  BY <1>40 DEF PublishFail
  <1>41. CASE Release(p)  BY <1>41 DEF Release, Unlock, Gone
  <1>42. CASE AcquireCancel(p)  BY <1>42 DEF AcquireCancel, Gone
  <1>43. CASE Crash(p)
    <2>1. CASE UNCHANGED journal  BY <2>1
    <2>2. CASE pc[p] = "append" /\ \E u \in queue[p] : Append1(p, u)  BY <2>2, FitAppend
    <2> QED BY <1>43, <2>1, <2>2 DEF Crash
  <1> QED
    BY <1>1, <1>2, <1>3, <1>4, <1>5, <1>6, <1>7, <1>8, <1>9, <1>10, <1>11,
       <1>12, <1>13, <1>14, <1>15, <1>16, <1>17, <1>18, <1>19, <1>20, <1>21,
       <1>22, <1>23, <1>24, <1>25, <1>26, <1>27, <1>28, <1>29, <1>30, <1>31,
       <1>32, <1>33, <1>34, <1>35, <1>36, <1>37, <1>38, <1>39, <1>40, <1>41,
       <1>42, <1>43
    DEF RunStep, Open, Store, Round, End

LEMMA SharedStep ==
  ASSUME SharedInv, NEW p \in Runs, RunStep(p)
  PROVE  SharedInv'
  <1>1. ShapeInv'  BY ShapeStep DEF SharedInv
  <1>2. ThenInv'  BY ThenStep DEF SharedInv, ShapeInv
  <1>3. KnownInv'  BY KnownStep, <1>1 DEF SharedInv
  <1>4. CatalogInv' /\ TargetsInv'  BY CatalogStep, TargetsStep, <1>1 DEF SharedInv
  <1>5. QueueInv'  BY QueueStep, <1>1 DEF SharedInv
  <1>6. SoundInv'  BY SoundRunsStep, SoundBaseStep, SoundLinesStep, <1>1 DEF SharedInv, SoundInv
  <1>7. FitInv'  BY OnceStep, SuitesStep, FitBaseStep, FitLinesStep, <1>1 DEF SharedInv, FitInv
  <1> QED BY <1>1, <1>2, <1>3, <1>4, <1>5, <1>6, <1>7 DEF SharedInv

-----------------------------------------------------------------------------
(* Under the lock *)
\* A step is of one run.
LEMMA StaysPut ==
  ASSUME TypeOK, NEW p \in Runs, RunStep(p), NEW q \in Runs, q # p
  PROVE  pc'[q] = pc[q]
  BY DEF TypeOK, Goto, RunStep, Open, Store, Round, End, Return, Gone, Persist, Forget, Disable, Journal,
      Start, Acquire, AcquireFail, Answered, Get,
      GetFail, Cold, Put, Compact, PutFail, AppendUnit, AppendFail, AppendEnd, DeleteBase,
      DeleteJournal, DeleteFail, Baseline, Vet, Unbuildable, Compiled, Measure, PublishPackage,
      PublishNothing, TargetsDone, MeasureSuite, CompleteBaseline, Race, Mutation, Probe,
      SaveMutant, CompleteMutation, Discard, Verified, Fail, Keep, Collect, CollectFile,
      CollectEnd, Publish, PublishFail, Release, AcquireCancel, Crash

\* A step of a run with files in hand, and of one without.
LEMMA OthersRest ==
  ASSUME TypeOK, LeaseInv, NEW p \in Runs, RunStep(p), ~unlocked', NEW q \in Runs \ {p}, lock = q
  PROVE  /\ UNCHANGED <<base, journal, torn, lock, recorded, measured>>
         /\ pc'[q] = pc[q] /\ then'[q] = then[q] /\ state'[q] = state[q] /\ known'[q] = known[q]
         /\ queue'[q] = queue[q]
  <1> pc[p] \in IdlePCs /\ lock # None  BY NoneAssumption DEF LeaseInv
  <1>1. Start(p) \/ AcquireCancel(p) \/ Crash(p)
    BY DEF RunStep, Open, Store, Round, End, IdlePCs, Goto, Acquire, AcquireFail, Answered, Get,
      GetFail, Cold, Put, Compact, PutFail, AppendUnit, AppendFail, AppendEnd, DeleteBase,
      DeleteJournal, DeleteFail, Baseline, Vet, Unbuildable, Compiled, Measure, PublishPackage,
      PublishNothing, TargetsDone, MeasureSuite, CompleteBaseline, Race, Mutation, Probe,
      SaveMutant, CompleteMutation, Discard, Verified, Fail, Keep, Collect, CollectFile,
      CollectEnd, Publish, PublishFail, Release
  <1> USE DEF TypeOK, Goto, Gone, Unlock, disk, controller, work, ghost, lease, IdlePCs
  <1>2. CASE Start(p)  BY <1>2 DEF Start
  <1>3. CASE AcquireCancel(p)  BY <1>3 DEF AcquireCancel
  <1>4. CASE Crash(p)  BY <1>4 DEF Crash
  <1> QED BY <1>1, <1>2, <1>3, <1>4

\* Every step under the lock leaves the lock with whoever has files in hand.
LEMMA LeaseStep ==
  ASSUME TypeOK, ThenInv, LeaseInv, NEW p \in Runs, RunStep(p), ~unlocked'
  PROVE  LeaseInv'
  <1> USE NoneAssumption DEF disk, lease, controller, work, ghost, Goto, IdlePCs, SavingPCs, PublishPCs
  <1> /\ pc \in [Runs -> PCs] /\ then \in [Runs -> PCs] /\ lock \in Runs \cup {None}
    BY DEF TypeOK
  <1> SUFFICES ASSUME NEW q \in Runs PROVE pc'[q] \notin IdlePCs <=> lock' = q  BY DEF LeaseInv
  <1> /\ pc[q] \notin IdlePCs <=> lock = q
      /\ pc[p] \notin IdlePCs <=> lock = p
    BY DEF LeaseInv
  <1> /\ pc[p] \in PublishPCs => then[p] \in SavingPCs \cup {"failed", "repair"}
      /\ pc[p] = "append" => then[p] \in {"targets", "suites", "mutants", "failed"}
      /\ pc[p] \in {"delete", "delete_journal"} => then[p] \in {"unsaved", "cold", "release"}
      /\ pc[p] = "collect" => then[p] \in {"publish", "release"}
    BY DEF ThenInv
  <1>1. CASE Start(p)  BY <1>1 DEF Start
  <1>2. CASE Acquire(p)  BY <1>2 DEF Acquire
  <1>3. CASE AcquireFail(p)  BY <1>3 DEF AcquireFail
  <1>4. CASE Answered(p)  BY <1>4 DEF Answered
  <1>5. CASE Get(p)  BY <1>5 DEF Get, Persist, Forget
  <1>6. CASE GetFail(p)  BY <1>6 DEF GetFail, Forget
  <1>7. CASE Cold(p)  BY <1>7 DEF Cold, Persist
  <1>8. CASE Put(p)  BY <1>8 DEF Put
  <1>9. CASE Compact(p)  BY <1>9 DEF Compact, Return
  <1>10. CASE PutFail(p)  BY <1>10 DEF PutFail, Disable, Forget
  <1>11. CASE AppendUnit(p)  BY <1>11 DEF AppendUnit, Append1
  <1>12. CASE AppendFail(p)  BY <1>12 DEF AppendFail, Append1, Disable, Forget
  <1>13. CASE AppendEnd(p)  BY <1>13 DEF AppendEnd, Return
  <1>14. CASE DeleteBase(p)  BY <1>14 DEF DeleteBase
  <1>15. CASE DeleteJournal(p)  BY <1>15 DEF DeleteJournal, Return
  <1>16. CASE DeleteFail(p)  BY <1>16 DEF DeleteFail, Return
  <1>17. CASE Baseline(p)  BY <1>17 DEF Baseline, Persist
  <1>18. CASE Vet(p)  BY <1>18 DEF Vet, Persist
  <1>19. CASE Unbuildable(p)  BY <1>19 DEF Unbuildable, Persist
  <1>20. CASE Compiled(p)  BY <1>20 DEF Compiled
  <1>21. CASE Measure(p)  BY <1>21 DEF Measure
  <1>22. CASE PublishPackage(p)  BY <1>22 DEF PublishPackage, Journal
  <1>23. CASE PublishNothing(p)  BY <1>23 DEF PublishNothing, Persist
  <1>24. CASE TargetsDone(p)  BY <1>24 DEF TargetsDone
  <1>25. CASE MeasureSuite(p)  BY <1>25 DEF MeasureSuite, Journal
  <1>26. CASE CompleteBaseline(p)  BY <1>26 DEF CompleteBaseline, Persist
  <1>27. CASE Race(p)  BY <1>27 DEF Race, Persist
  <1>28. CASE Mutation(p)  BY <1>28 DEF Mutation, Persist, NoMutation
  <1>29. CASE Probe(p)  BY <1>29 DEF Probe, Persist, NoMutation
  <1>30. CASE SaveMutant(p)  BY <1>30 DEF SaveMutant, Journal
  <1>31. CASE CompleteMutation(p)  BY <1>31 DEF CompleteMutation, Persist
  <1>32. CASE Discard(p)  BY <1>32 DEF Discard, Forget
  <1>33. CASE Verified(p)  BY <1>33 DEF Verified
  <1>34. CASE Fail(p)  BY <1>34 DEF Fail
  <1>35. CASE Keep(p)  BY <1>35 DEF Keep, Over
  <1>36. CASE Collect(p)  BY <1>36 DEF Collect, Over
  <1>37. CASE CollectFile(p)  BY <1>37 DEF CollectFile
  <1>38. CASE CollectEnd(p)  BY <1>38 DEF CollectEnd, Return
  <1>39. CASE Publish(p)  BY <1>39 DEF Publish, Forget
  <1>40. CASE PublishFail(p)  BY <1>40 DEF PublishFail
  <1>41. CASE Release(p)  BY <1>41 DEF Release, Unlock, Gone
  <1>42. CASE AcquireCancel(p)  BY <1>42 DEF AcquireCancel, Gone
  <1>43. CASE Crash(p)  BY <1>43 DEF Crash, Unlock, Gone, Append1
  <1> QED
    BY <1>1, <1>2, <1>3, <1>4, <1>5, <1>6, <1>7, <1>8, <1>9, <1>10, <1>11,
       <1>12, <1>13, <1>14, <1>15, <1>16, <1>17, <1>18, <1>19, <1>20, <1>21,
       <1>22, <1>23, <1>24, <1>25, <1>26, <1>27, <1>28, <1>29, <1>30, <1>31,
       <1>32, <1>33, <1>34, <1>35, <1>36, <1>37, <1>38, <1>39, <1>40, <1>41,
       <1>42, <1>43
    DEF RunStep, Open, Store, Round, End

\* Every step under the lock leaves what is given up owed to nobody.
LEMMA ForgottenStep ==
  ASSUME TypeOK, ThenInv, LeaseInv, ForgottenInv, NEW p \in Runs, RunStep(p), ~unlocked'
  PROVE  ForgottenInv'
  <1> USE NoneAssumption DEF disk, lease, controller, work, ghost, Goto, SavingPCs, PublishPCs
  <1> /\ pc \in [Runs -> PCs] /\ then \in [Runs -> PCs]  BY DEF TypeOK
  <1>a. \A q \in Runs : pc[q] \in {"delete", "delete_journal", "cold", "collect"} => recorded = {}
    BY DEF ForgottenInv
  <1> SUFFICES ASSUME NEW q \in Runs, pc'[q] \in {"delete", "delete_journal", "cold", "collect"}
               PROVE  recorded' = {}
    BY DEF ForgottenInv
  <1> SUFFICES ASSUME q = p PROVE recorded' = {}
    <2> SUFFICES ASSUME q # p PROVE recorded' = {}  OBVIOUS
    <2>1. pc'[q] = pc[q]  BY StaysPut
    <2>2. lock = q  BY <2>1 DEF LeaseInv, IdlePCs
    <2> QED BY <2>1, <2>2, OthersRest, <1>a
  <1> pc[p] \in {"delete", "delete_journal", "cold", "collect"} => recorded = {}  BY <1>a
  <1> /\ pc[p] \in PublishPCs => then[p] \in SavingPCs \cup {"failed", "repair"}
      /\ pc[p] = "append" => then[p] \in {"targets", "suites", "mutants", "failed"}
      /\ pc[p] \in {"delete", "delete_journal"} => then[p] \in {"unsaved", "cold", "release"}
      /\ pc[p] = "collect" => then[p] \in {"publish", "release"}
    BY DEF ThenInv
  <1>1. CASE Start(p)  BY <1>1 DEF Start
  <1>2. CASE Acquire(p)  BY <1>2 DEF Acquire
  <1>3. CASE AcquireFail(p)  BY <1>3 DEF AcquireFail
  <1>4. CASE Answered(p)  BY <1>4 DEF Answered
  <1>5. CASE Get(p)  BY <1>5 DEF Get, Persist, Forget
  <1>6. CASE GetFail(p)  BY <1>6 DEF GetFail, Forget
  <1>7. CASE Cold(p)  BY <1>7 DEF Cold, Persist
  <1>8. CASE Put(p)  BY <1>8 DEF Put
  <1>9. CASE Compact(p)  BY <1>9 DEF Compact, Return
  <1>10. CASE PutFail(p)  BY <1>10 DEF PutFail, Disable, Forget
  <1>11. CASE AppendUnit(p)  BY <1>11 DEF AppendUnit, Append1
  <1>12. CASE AppendFail(p)  BY <1>12 DEF AppendFail, Append1, Disable, Forget
  <1>13. CASE AppendEnd(p)  BY <1>13 DEF AppendEnd, Return
  <1>14. CASE DeleteBase(p)  BY <1>14 DEF DeleteBase
  <1>15. CASE DeleteJournal(p)  BY <1>15 DEF DeleteJournal, Return
  <1>16. CASE DeleteFail(p)  BY <1>16 DEF DeleteFail, Return
  <1>17. CASE Baseline(p)  BY <1>17 DEF Baseline, Persist
  <1>18. CASE Vet(p)  BY <1>18 DEF Vet, Persist
  <1>19. CASE Unbuildable(p)  BY <1>19 DEF Unbuildable, Persist
  <1>20. CASE Compiled(p)  BY <1>20 DEF Compiled
  <1>21. CASE Measure(p)  BY <1>21 DEF Measure
  <1>22. CASE PublishPackage(p)  BY <1>22 DEF PublishPackage, Journal
  <1>23. CASE PublishNothing(p)  BY <1>23 DEF PublishNothing, Persist
  <1>24. CASE TargetsDone(p)  BY <1>24 DEF TargetsDone
  <1>25. CASE MeasureSuite(p)  BY <1>25 DEF MeasureSuite, Journal
  <1>26. CASE CompleteBaseline(p)  BY <1>26 DEF CompleteBaseline, Persist
  <1>27. CASE Race(p)  BY <1>27 DEF Race, Persist
  <1>28. CASE Mutation(p)  BY <1>28 DEF Mutation, Persist, NoMutation
  <1>29. CASE Probe(p)  BY <1>29 DEF Probe, Persist, NoMutation
  <1>30. CASE SaveMutant(p)  BY <1>30 DEF SaveMutant, Journal
  <1>31. CASE CompleteMutation(p)  BY <1>31 DEF CompleteMutation, Persist
  <1>32. CASE Discard(p)  BY <1>32 DEF Discard, Forget
  <1>33. CASE Verified(p)  BY <1>33 DEF Verified
  <1>34. CASE Fail(p)  BY <1>34 DEF Fail
  <1>35. CASE Keep(p)  BY <1>35 DEF Keep, Over
  <1>36. CASE Collect(p)  BY <1>36 DEF Collect, Over
  <1>37. CASE CollectFile(p)  BY <1>37 DEF CollectFile
  <1>38. CASE CollectEnd(p)  BY <1>38 DEF CollectEnd, Return
  <1>39. CASE Publish(p)  BY <1>39 DEF Publish, Forget
  <1>40. CASE PublishFail(p)  BY <1>40 DEF PublishFail
  <1>41. CASE Release(p)  BY <1>41 DEF Release, Unlock, Gone
  <1>42. CASE AcquireCancel(p)  BY <1>42 DEF AcquireCancel, Gone
  <1>43. CASE Crash(p)  BY <1>43 DEF Crash, Unlock, Gone, Append1
  <1> QED
    BY <1>1, <1>2, <1>3, <1>4, <1>5, <1>6, <1>7, <1>8, <1>9, <1>10, <1>11,
       <1>12, <1>13, <1>14, <1>15, <1>16, <1>17, <1>18, <1>19, <1>20, <1>21,
       <1>22, <1>23, <1>24, <1>25, <1>26, <1>27, <1>28, <1>29, <1>30, <1>31,
       <1>32, <1>33, <1>34, <1>35, <1>36, <1>37, <1>38, <1>39, <1>40, <1>41,
       <1>42, <1>43
    DEF RunStep, Open, Store, Round, End

\* What one more line adds to what the lines say.
LEMMA ExtendingAppend ==
  ASSUME ShapeInv, KnownInv, NEW p \in Runs, pc[p] = "append", NEW u \in queue[p], Append1(p, u)
  PROVE  Extending' = Extending \cup {u}
  <1>1. /\ DOMAIN journal' = DOMAIN journal \cup {Len(journal) + 1}
        /\ \A i \in DOMAIN journal : journal'[i] = journal[i]
        /\ journal'[Len(journal) + 1].unit = u
    BY OneMoreLine
  <1> QED BY <1>1 DEF Extending

\* What one line more does to a journal of which every line extends the base.
LEMMA SavedAppend ==
  ASSUME SharedInv, NEW p \in Runs, pc[p] = "append", SavedOf(p), UNCHANGED <<base, known>>,
         NEW u \in queue[p], Append1(p, u)
  PROVE  /\ \A i \in DOMAIN journal' : journal'[i].base = base
         /\ Extending' = Extending \cup {u}
         /\ journal' # <<>>
  <1> ShapeInv /\ KnownInv  BY DEF SharedInv
  <1>1. /\ DOMAIN journal' = DOMAIN journal \cup {Len(journal) + 1}
        /\ \A i \in DOMAIN journal : journal'[i] = journal[i]
        /\ journal'[Len(journal) + 1].base = known[p]
    BY OneMoreLine
  <1>2. base = known[p] /\ \A i \in DOMAIN journal : journal[i].base = base  BY DEF SavedOf
  <1>3. journal' # <<>>  BY <1>1
  <1> QED BY <1>1, <1>2, <1>3, ExtendingAppend

\* Every step of a run leaves it holding what it saved.
LEMMA SavedStep ==
  ASSUME SharedInv, SharedInv', SavedInv, PublishInv, NEW p \in Runs, RunStep(p), ~unlocked', pc'[p] \in SavingPCs \cup {"append"}
  PROVE  SavedOf(p)'
  <1> USE NoneAssumption DEF disk, lease, controller, work, ghost, Goto, SavingPCs, PublishPCs
  <1> ShapeInv /\ ShapeInv' /\ ThenInv /\ KnownInv /\ TargetsInv /\ QueueInv  BY DEF SharedInv
  <1> /\ pc \in [Runs -> PCs] /\ then \in [Runs -> PCs]
      /\ state \in [Runs -> States] /\ known \in [Runs -> States \cup {None}]
      /\ base \in States \cup {None} /\ queue \in [Runs -> SUBSET Units]
      /\ selected \in [Runs -> SUBSET Targets] /\ fresh \in [Runs -> SUBSET Targets]
    BY DEF ShapeInv, TypeOK
  <1> state' \in [Runs -> States]  BY DEF ShapeInv, TypeOK
  <1> /\ pc[p] \in PublishPCs => then[p] \in SavingPCs \cup {"failed", "repair"}
      /\ pc[p] = "append" => then[p] \in {"targets", "suites", "mutants", "failed"}
      /\ pc[p] \in {"delete", "delete_journal"} => then[p] \in {"unsaved", "cold", "release"}
      /\ pc[p] = "collect" => then[p] \in {"publish", "release"}
    BY DEF ThenInv
  <1> SUFFICES /\ base' = known'[p] /\ torn' = FALSE
               /\ \A i \in DOMAIN journal' : journal'[i].base = base'
               /\ state'[p].units = base'.units \cup Extending' \cup queue'[p]
               /\ queue'[p] \cap (base'.units \cup Extending') = {}
               /\ state'[p].done /\ pc'[p] \in {"baseline", "vet", "compile", "targets", "suites"} => journal' = <<>>
    BY DEF SavedOf
  <1> pc[p] \in SavingPCs \cup {"append"} => SavedOf(p)  BY DEF SavedInv
  <1> pc[p] \in SavingPCs \cup {"append"} =>
       /\ base = known[p] /\ torn = FALSE
       /\ \A i \in DOMAIN journal : journal[i].base = base
       /\ state[p].units = base.units \cup Extending \cup queue[p]
       /\ queue[p] \cap (base.units \cup Extending) = {}
       /\ state[p].done /\ pc[p] \in {"baseline", "vet", "compile", "targets", "suites"} => journal = <<>>
    BY DEF SavedOf, TypeOK, ShapeInv
  <1> (UNCHANGED journal => UNCHANGED Extending) /\ (journal' = <<>> => Extending' = {})
    BY DEF Extending
  <1> pc[p] # "append" => queue[p] = {}  BY DEF QueueInv
  <1>1. CASE Start(p)  BY <1>1 DEF Start
  <1>2. CASE Acquire(p)  BY <1>2 DEF Acquire
  <1>3. CASE AcquireFail(p)  BY <1>3 DEF AcquireFail
  <1>4. CASE Answered(p)  BY <1>4 DEF Answered
  <1>5. CASE Get(p)  BY <1>5 DEF Get, Persist, Forget
  <1>6. CASE GetFail(p)  BY <1>6 DEF GetFail, Forget
  <1>7. CASE Cold(p)  BY <1>7 DEF Cold, Persist
  <1>8. CASE Put(p)  BY <1>8 DEF Put
  <1>9. CASE Compact(p)
    <2>1. base = state[p] /\ known[p] = state[p]
      BY <1>9 DEF Compact, PublishInv, PublishedOf, KnownInv
    <2>2. DOMAIN journal' = {} /\ Extending' = {}  BY <1>9 DEF Compact, Extending
    <2> QED BY <1>9, <2>1, <2>2 DEF Compact, Return
  <1>10. CASE PutFail(p)  BY <1>10 DEF PutFail, Disable, Forget
  <1>11. CASE AppendUnit(p)
    <2>1. PICK u \in queue[p] : /\ Append1(p, u) /\ queue' = [queue EXCEPT ![p] = @ \ {u}]
      BY <1>11 DEF AppendUnit
    <2>2. pc[p] = "append" /\ UNCHANGED <<base, known, state, pc>>  BY <1>11 DEF AppendUnit
    <2>3. torn' = FALSE  BY <2>1 DEF Append1
    <2>4. (\A i \in DOMAIN journal' : journal'[i].base = base) /\ Extending' = Extending \cup {u}
      BY <2>1, <2>2, SavedAppend
    <2> QED BY <2>1, <2>2, <2>3, <2>4
  <1>12. CASE AppendFail(p)  BY <1>12 DEF AppendFail, Append1, Disable, Forget
  <1>13. CASE AppendEnd(p)
    <2>1. then[p] \in {"targets", "suites"} => ~state[p].done  BY <1>13 DEF AppendEnd, TargetsInv
    <2> QED BY <1>13, <2>1 DEF AppendEnd, Return
  <1>14. CASE DeleteBase(p)  BY <1>14 DEF DeleteBase
  <1>15. CASE DeleteJournal(p)  BY <1>15 DEF DeleteJournal, Return
  <1>16. CASE DeleteFail(p)  BY <1>16 DEF DeleteFail, Return
  <1>17. CASE Baseline(p)  BY <1>17 DEF Baseline, Persist
  <1>18. CASE Vet(p)  BY <1>18 DEF Vet, Persist
  <1>19. CASE Unbuildable(p)  BY <1>19 DEF Unbuildable, Persist
  <1>20. CASE Compiled(p)  BY <1>20 DEF Compiled
  <1>21. CASE Measure(p)  BY <1>21 DEF Measure
  <1>22. CASE PublishPackage(p)
    <2>0. pc[p] \in SavingPCs /\ UNCHANGED <<base, journal, torn, known>>
      BY <1>22 DEF PublishPackage
    <2> PICK units : units = {Classified(t) : t \in fresh[p]}  OBVIOUS
    <2>1. /\ state' = [state EXCEPT ![p] = [state[p] EXCEPT !.units = @ \cup units]]
          /\ queue' = [queue EXCEPT ![p] = units] /\ pc' = [pc EXCEPT ![p] = "append"]
          /\ units \cap state[p].units = {}
      <3>1. \A t \in fresh[p] : Classified(t) \notin state[p].units
        BY WhatIsPending DEF TargetsInv, States, Classified
      <3>2. {Classified(t) : t \in fresh[p]} \cap state[p].units = {}  BY <3>1
      <3> QED BY <1>22, <3>2 DEF PublishPackage, Journal
    <2>2. PICK n : n = [state[p] EXCEPT !.units = @ \cup units]  OBVIOUS
    <2>3. n.units = state[p].units \cup units  BY <2>2 DEF States
    <2>4. state' = [state EXCEPT ![p] = n]  BY <2>1, <2>2
    <2> HIDE <2>2
    <2>5. UNCHANGED Extending  BY <2>0 DEF Extending
    <2> QED BY <2>0, <2>1, <2>3, <2>4, <2>5
  <1>23. CASE PublishNothing(p)  BY <1>23 DEF PublishNothing, Persist
  <1>24. CASE TargetsDone(p)  BY <1>24 DEF TargetsDone
  <1>25. CASE MeasureSuite(p)
    <2>0. pc[p] \in SavingPCs /\ UNCHANGED <<base, journal, torn, known>>
      BY <1>25 DEF MeasureSuite
    <2> PICK k \in Packages \ Saved(p, "suite") : Journal(p, {Suite(k)}, "suites")
      BY <1>25 DEF MeasureSuite
    <2> PICK units : units = {Suite(k)}  OBVIOUS
    <2>1. /\ state' = [state EXCEPT ![p] = [state[p] EXCEPT !.units = @ \cup units]]
          /\ queue' = [queue EXCEPT ![p] = units] /\ pc' = [pc EXCEPT ![p] = "append"]
          /\ units \cap state[p].units = {}
      <3>1. Suite(k) \notin state[p].units  BY DEF Saved, Of, Suite
      <3> QED BY <3>1 DEF Journal
    <2>2. PICK n : n = [state[p] EXCEPT !.units = @ \cup units]  OBVIOUS
    <2>3. n.units = state[p].units \cup units  BY <2>2 DEF States
    <2>4. state' = [state EXCEPT ![p] = n]  BY <2>1, <2>2
    <2> HIDE <2>2
    <2>5. UNCHANGED Extending  BY <2>0 DEF Extending
    <2> QED BY <2>0, <2>1, <2>3, <2>4, <2>5
  <1>26. CASE CompleteBaseline(p)  BY <1>26 DEF CompleteBaseline, Persist
  <1>27. CASE Race(p)  BY <1>27 DEF Race, Persist
  <1>28. CASE Mutation(p)  BY <1>28 DEF Mutation, Persist, NoMutation
  <1>29. CASE Probe(p)  BY <1>29 DEF Probe, Persist, NoMutation
  <1>30. CASE SaveMutant(p)
    <2>0. pc[p] \in SavingPCs /\ UNCHANGED <<base, journal, torn, known>>
      BY <1>30 DEF SaveMutant
    <2> PICK m \in Mutants \ Saved(p, "mutant") : Journal(p, {Mutant(m)}, "mutants")
      BY <1>30 DEF SaveMutant
    <2> PICK units : units = {Mutant(m)}  OBVIOUS
    <2>1. /\ state' = [state EXCEPT ![p] = [state[p] EXCEPT !.units = @ \cup units]]
          /\ queue' = [queue EXCEPT ![p] = units] /\ pc' = [pc EXCEPT ![p] = "append"]
          /\ units \cap state[p].units = {}
      <3>1. Mutant(m) \notin state[p].units  BY DEF Saved, Of, Mutant
      <3> QED BY <3>1 DEF Journal
    <2>2. PICK n : n = [state[p] EXCEPT !.units = @ \cup units]  OBVIOUS
    <2>3. n.units = state[p].units \cup units  BY <2>2 DEF States
    <2>4. state' = [state EXCEPT ![p] = n]  BY <2>1, <2>2
    <2> HIDE <2>2
    <2>5. UNCHANGED Extending  BY <2>0 DEF Extending
    <2> QED BY <2>0, <2>1, <2>3, <2>4, <2>5
  <1>31. CASE CompleteMutation(p)  BY <1>31 DEF CompleteMutation, Persist
  <1>32. CASE Discard(p)  BY <1>32 DEF Discard, Forget
  <1>33. CASE Verified(p)  BY <1>33 DEF Verified
  <1>34. CASE Fail(p)  BY <1>34 DEF Fail
  <1>35. CASE Keep(p)  BY <1>35 DEF Keep, Over
  <1>36. CASE Collect(p)  BY <1>36 DEF Collect, Over
  <1>37. CASE CollectFile(p)  BY <1>37 DEF CollectFile
  <1>38. CASE CollectEnd(p)  BY <1>38 DEF CollectEnd, Return
  <1>39. CASE Publish(p)  BY <1>39 DEF Publish, Forget
  <1>40. CASE PublishFail(p)  BY <1>40 DEF PublishFail
  <1>41. CASE Release(p)  BY <1>41 DEF Release, Unlock, Gone
  <1>42. CASE AcquireCancel(p)  BY <1>42 DEF AcquireCancel, Gone
  <1>43. CASE Crash(p)  BY <1>43 DEF Crash, Unlock, Gone, Append1
  <1> QED
    BY <1>1, <1>2, <1>3, <1>4, <1>5, <1>6, <1>7, <1>8, <1>9, <1>10, <1>11,
       <1>12, <1>13, <1>14, <1>15, <1>16, <1>17, <1>18, <1>19, <1>20, <1>21,
       <1>22, <1>23, <1>24, <1>25, <1>26, <1>27, <1>28, <1>29, <1>30, <1>31,
       <1>32, <1>33, <1>34, <1>35, <1>36, <1>37, <1>38, <1>39, <1>40, <1>41,
       <1>42, <1>43
    DEF RunStep, Open, Store, Round, End

\* What the next run would read.
LEMMA DurableIs ==
  ASSUME base \in States
  PROVE  Durable = base.units \cup {journal[i].unit : i \in Current(base)}
  <1>1. base # None  BY NoneAssumption
  <1> QED BY <1>1 DEF Durable, Replayed, States

LEMMA DurableWillBe ==
  ASSUME base' \in States
  PROVE  Durable' = base'.units \cup {journal'[i].unit : i \in {k \in DOMAIN journal' : journal'[k].base = base'}}
  <1>1. base' # None  BY NoneAssumption
  <1> QED BY <1>1 DEF Durable, Replayed, States, Current

\* A run between two publishes holds all that is owed, and whatever a line says is
\* more than its base.
LEMMA HoldsAll ==
  ASSUME SharedInv, DiskInv, NEW p \in Runs, pc[p] \in SavingPCs, SavedOf(p)
  PROVE  /\ recorded \subseteq state[p].units
         /\ known[p] \in States /\ known[p].units \subseteq state[p].units
         /\ journal # <<>> => state[p].units # known[p].units /\ state[p].vet
  <1>1. base = known[p] /\ known[p] \in States /\ queue[p] = {} /\ SameButUnits(state[p], known[p])
    BY DEF SharedInv, SavedOf, KnownInv, QueueInv, SavingPCs
  <1>2. state[p].units = base.units \cup Extending /\ \A i \in DOMAIN journal : journal[i].base = base
    BY <1>1 DEF SavedOf
  <1>3. Durable = base.units \cup Extending
    BY <1>1, <1>2, DurableIs DEF Current, Extending
  <1>4. ASSUME journal # <<>> PROVE state[p].units # known[p].units /\ state[p].vet
    <2>1. 1 \in DOMAIN journal  BY <1>4 DEF SharedInv, ShapeInv
    <2>2. base # None  BY <1>1, NoneAssumption
    <2>3. journal[1].unit \notin base.units
      BY <1>2, <2>1, <2>2 DEF DiskInv, ReadableInv, InOrder, Current
    <2>4. journal[1].unit \in state[p].units  BY <1>2, <2>1 DEF Extending
    <2>5. base.vet  BY <1>2, <2>1 DEF SharedInv, ShapeInv, TypeOK
    <2> QED BY <1>1, <2>3, <2>4, <2>5 DEF SameButUnits
  <1> QED BY <1>1, <1>2, <1>3, <1>4 DEF DiskInv

\* A document that is more than what was published is extended by no line.
LEMMA PublishFrom ==
  ASSUME SharedInv, DiskInv, NEW p \in Runs, pc[p] \in SavingPCs, SavedOf(p),
         NEW n, state'[p] = n, pc'[p] = "put", UNCHANGED <<base, journal>>,
         n.attempts = state[p].attempts, recorded' \subseteq n.units,
         journal # <<>> => n # known[p]
  PROVE  PublishedOf(p)'
  <1>1. base = known[p] /\ SameButUnits(state[p], known[p])
    BY DEF SharedInv, SavedOf, KnownInv
  <1>2. \A i \in DOMAIN journal : journal[i].base = base  BY DEF SavedOf
  <1>3. \A i \in DOMAIN journal : journal # <<>>  BY DEF SharedInv, ShapeInv
  <1>4. state[p].attempts \in Nat  BY DEF SharedInv, ShapeInv, TypeOK, States
  <1>5. \A i \in DOMAIN journal : journal[i].base # n /\ journal[i].base.attempts <= n.attempts
    BY <1>1, <1>2, <1>3, <1>4 DEF SameButUnits
  <1> QED BY <1>5 DEF PublishedOf

\* Every step of a run leaves what it publishes extended by no line.
LEMMA PublishedStep ==
  ASSUME SharedInv, SharedInv', SavedInv, PublishInv, ForgottenInv, DiskInv, NEW p \in Runs, RunStep(p), ~unlocked', pc'[p] \in PublishPCs
  PROVE  PublishedOf(p)'
  <1> USE NoneAssumption DEF disk, lease, controller, work, ghost, Goto, SavingPCs, PublishPCs
  <1> ShapeInv /\ ShapeInv' /\ ThenInv /\ KnownInv /\ TargetsInv /\ QueueInv  BY DEF SharedInv
  <1> /\ pc \in [Runs -> PCs] /\ then \in [Runs -> PCs]
      /\ state \in [Runs -> States] /\ known \in [Runs -> States \cup {None}]
      /\ base \in States \cup {None} /\ queue \in [Runs -> SUBSET Units]
      /\ selected \in [Runs -> SUBSET Targets] /\ fresh \in [Runs -> SUBSET Targets]
    BY DEF ShapeInv, TypeOK
  <1> state' \in [Runs -> States]  BY DEF ShapeInv, TypeOK
  <1> /\ pc[p] \in PublishPCs => then[p] \in SavingPCs \cup {"failed", "repair"}
      /\ pc[p] = "append" => then[p] \in {"targets", "suites", "mutants", "failed"}
      /\ pc[p] \in {"delete", "delete_journal"} => then[p] \in {"unsaved", "cold", "release"}
      /\ pc[p] = "collect" => then[p] \in {"publish", "release"}
    BY DEF ThenInv
  <1>k. pc[p] \in SavingPCs => known[p] \in States /\ SameButUnits(state[p], known[p])  BY DEF KnownInv
  <1>v. \A i \in DOMAIN journal : journal[i].base.vet  BY DEF ShapeInv, TypeOK
  <1>p. pc[p] \in PublishPCs => PublishedOf(p)  BY DEF PublishInv
  <1>1. CASE Start(p)  BY <1>1 DEF Start
  <1>2. CASE Acquire(p)  BY <1>2 DEF Acquire
  <1>3. CASE AcquireFail(p)  BY <1>3 DEF AcquireFail
  <1>4. CASE Answered(p)  BY <1>4 DEF Answered
  <1>5. CASE Get(p)
    <2>0. UNCHANGED <<base, journal>>  BY <1>5 DEF Get
    <2>1. CASE base = None /\ Persist(p, Blank, "baseline") /\ UNCHANGED recorded
      <3>1. recorded' = {}  BY <2>1 DEF DiskInv, Durable
      <3>2. state'[p].vet = FALSE /\ pc'[p] = "put"  BY <2>1 DEF Persist, Blank
      <3> QED BY <2>0, <3>1, <3>2, <1>v DEF PublishedOf
    <2>2. CASE base # None /\ Persist(p, [Replayed(base) EXCEPT !.attempts = @ + 1], "baseline") /\ UNCHANGED recorded
      <3>1. base \in States  BY <2>2
      <3>2. Replayed(base).attempts = base.attempts /\ Replayed(base).vet = base.vet /\ base.attempts \in Nat
        BY <3>1 DEF Replayed, States
      <3>3. Replayed(base) \in States  BY <3>1, ReplayedType
      <3> PICK n : n = [Replayed(base) EXCEPT !.attempts = @ + 1]  OBVIOUS
      <3>4. n.attempts = base.attempts + 1 /\ n.vet = base.vet /\ n.units = Replayed(base).units
        BY <3>2, <3>3 DEF States
      <3>5. state'[p] = n /\ pc'[p] = "put"  BY <2>2 DEF Persist
      <3>6. recorded' \subseteq n.units  BY <2>2, <3>4 DEF DiskInv, Durable
      <3>7. \A i \in DOMAIN journal : n.vet => journal[i].base.attempts <= base.attempts
        BY <2>2, <3>4 DEF DiskInv, ReadableInv
      <3>8. \A i \in DOMAIN journal : journal[i].base \in States /\ journal[i].base.attempts \in Nat
        BY DEF ShapeInv, TypeOK, States
      <3>9. \A i \in DOMAIN journal : /\ journal[i].base # n
                                      /\ n.vet => journal[i].base.attempts <= n.attempts
        <4> SUFFICES ASSUME NEW i \in DOMAIN journal
                     PROVE  journal[i].base # n /\ (n.vet => journal[i].base.attempts <= n.attempts)
          OBVIOUS
        <4>1. CASE n.vet
          <5>1. journal[i].base.attempts <= base.attempts /\ journal[i].base.attempts \in Nat
            BY <4>1, <3>7, <3>8
          <5>2. n.attempts = base.attempts + 1 /\ base.attempts \in Nat  BY <3>2, <3>4
          <5>3. journal[i].base.attempts # n.attempts /\ journal[i].base.attempts <= n.attempts
            BY <5>1, <5>2
          <5> QED BY <5>3
        <4>2. CASE ~n.vet  BY <4>2, <1>v
        <4> QED BY <4>1, <4>2
      <3> QED BY <2>0, <3>5, <3>6, <3>9 DEF PublishedOf
    <2>3. CASE pc'[p] = "delete"  BY <2>3
    <2> QED BY <1>5, <2>1, <2>2, <2>3 DEF Get, Forget
  <1>6. CASE GetFail(p)  BY <1>6 DEF GetFail, Forget
  <1>7. CASE Cold(p)
    <2>1. UNCHANGED <<base, journal, recorded>> /\ pc[p] = "cold"  BY <1>7 DEF Cold
    <2>2. recorded = {}  BY <2>1 DEF ForgottenInv
    <2>3. state'[p].vet = FALSE /\ pc'[p] = "put"  BY <1>7 DEF Cold, Persist, Blank
    <2> QED BY <2>1, <2>2, <2>3, <1>v DEF PublishedOf
  <1>8. CASE Put(p)
    <2>1. /\ PublishedOf(p) /\ base' = state[p] /\ UNCHANGED <<journal, recorded, state>>
      BY <1>8, <1>p DEF Put
    <2> QED BY <2>1 DEF PublishedOf
  <1>9. CASE Compact(p)  BY <1>9 DEF Compact, Return
  <1>10. CASE PutFail(p)  BY <1>10 DEF PutFail, Disable, Forget
  <1>11. CASE AppendUnit(p)  BY <1>11 DEF AppendUnit, Append1
  <1>12. CASE AppendFail(p)  BY <1>12 DEF AppendFail, Append1, Disable, Forget
  <1>13. CASE AppendEnd(p)  BY <1>13 DEF AppendEnd, Return
  <1>14. CASE DeleteBase(p)  BY <1>14 DEF DeleteBase
  <1>15. CASE DeleteJournal(p)  BY <1>15 DEF DeleteJournal, Return
  <1>16. CASE DeleteFail(p)  BY <1>16 DEF DeleteFail, Return
  <1>17. CASE Baseline(p)
    <2>0. pc[p] = "baseline" /\ UNCHANGED <<base, journal>>  BY <1>17 DEF Baseline
    <2>1. CASE pc' = [pc EXCEPT ![p] = "vet"]  BY <2>1
    <2>2. CASE Persist(p, [Blank EXCEPT !.attempts = state[p].attempts], "vet") /\ recorded' = {}
      <3>1. state'[p].vet = FALSE /\ pc'[p] = "put"  BY <2>2 DEF Persist, Blank
      <3> QED BY <2>0, <2>2, <3>1, <1>v DEF PublishedOf
    <2> QED BY <1>17, <2>1, <2>2 DEF Baseline
  <1>18. CASE Vet(p)
    <2>0. pc[p] = "vet" /\ UNCHANGED <<base, journal>>  BY <1>18 DEF Vet
    <2> SavedOf(p)  BY <2>0 DEF SavedInv
    <2>h. /\ recorded \subseteq state[p].units /\ known[p].units \subseteq state[p].units
          /\ journal # <<>> => state[p].units # known[p].units /\ state[p].vet
      BY <2>0, HoldsAll
    <2>1. CASE pc' = [pc EXCEPT ![p] = "compile"]  BY <2>1
    <2>2. CASE ~state[p].vet /\ Persist(p, [state[p] EXCEPT !.vet = TRUE], "compile")
      <3> PICK n : n = [state[p] EXCEPT !.vet = TRUE]  OBVIOUS
      <3>1. state'[p] = n /\ pc'[p] = "put"  BY <2>2 DEF Persist
      <3>2. n.attempts = state[p].attempts /\ n.units = state[p].units /\ n.vet
        BY OneField
      <3>3. recorded' \subseteq n.units  BY <1>18, <2>h, <3>2 DEF Vet
      <3>4. journal # <<>> => n # known[p]  BY <2>0, <2>h, <3>2, <1>k, <2>2 DEF SameButUnits
      <3> QED BY <2>0, <3>1, <3>2, <3>3, <3>4, PublishFrom
    <2> QED BY <1>18, <2>1, <2>2 DEF Vet
  <1>19. CASE Unbuildable(p)
    <2>0. pc[p] = "compile" /\ UNCHANGED <<base, journal>>  BY <1>19 DEF Unbuildable
    <2> SavedOf(p)  BY <2>0 DEF SavedInv
    <2>h. /\ recorded \subseteq state[p].units /\ known[p].units \subseteq state[p].units
          /\ journal # <<>> => state[p].units # known[p].units /\ state[p].vet
      BY <2>0, HoldsAll
    <2>1. PICK settled : /\ Persist(p, [state[p] EXCEPT !.units = @ \cup settled], "compile")
                         /\ ~(settled \subseteq state[p].units)
      BY <1>19 DEF Unbuildable
    <2> PICK n : n = [state[p] EXCEPT !.units = @ \cup settled]  OBVIOUS
    <2>5. state'[p] = n /\ pc'[p] = "put"  BY <2>1 DEF Persist
    <2>6. n.attempts = state[p].attempts /\ n.units = state[p].units \cup settled
      BY DEF States
    <2>7. recorded' \subseteq n.units  BY <1>19, <2>h, <2>6 DEF Unbuildable
    <2>8. journal # <<>> => n # known[p]  BY <2>0, <2>h, <2>6, <1>k, <2>1 DEF SameButUnits
    <2> QED BY <2>0, <2>5, <2>6, <2>7, <2>8, PublishFrom
  <1>20. CASE Compiled(p)  BY <1>20 DEF Compiled
  <1>21. CASE Measure(p)  BY <1>21 DEF Measure
  <1>22. CASE PublishPackage(p)  BY <1>22 DEF PublishPackage, Journal
  <1>23. CASE PublishNothing(p)
    <2>0. pc[p] = "targets" /\ UNCHANGED <<base, journal>>  BY <1>23 DEF PublishNothing
    <2> SavedOf(p)  BY <2>0 DEF SavedInv
    <2>h. /\ recorded \subseteq state[p].units /\ known[p].units \subseteq state[p].units
          /\ journal # <<>> => state[p].units # known[p].units /\ state[p].vet
      BY <2>0, HoldsAll
    <2>1. state'[p] = state[p] /\ pc'[p] = "put" /\ UNCHANGED recorded  BY <1>23 DEF PublishNothing, Persist
    <2> QED BY <2>0, <2>h, <2>1, PublishFrom
  <1>24. CASE TargetsDone(p)  BY <1>24 DEF TargetsDone
  <1>25. CASE MeasureSuite(p)  BY <1>25 DEF MeasureSuite, Journal
  <1>26. CASE CompleteBaseline(p)
    <2>0. pc[p] = "suites" /\ UNCHANGED <<base, journal>>  BY <1>26 DEF CompleteBaseline
    <2> SavedOf(p)  BY <2>0 DEF SavedInv
    <2>h. /\ recorded \subseteq state[p].units /\ known[p].units \subseteq state[p].units
          /\ journal # <<>> => state[p].units # known[p].units /\ state[p].vet
      BY <2>0, HoldsAll
    <2> PICK n : n = [state[p] EXCEPT !.done = TRUE, !.units = @ \ Of("suite", @)]  OBVIOUS
    <2>1. state'[p] = n /\ pc'[p] = "put"  BY <1>26 DEF CompleteBaseline, Persist
    <2>2. n.attempts = state[p].attempts /\ n.done /\ n.units = state[p].units \ Of("suite", state[p].units)
      BY DEF States
    <2>3. recorded' \subseteq n.units  BY <1>26, <2>h, <2>2 DEF CompleteBaseline, Of
    <2>4. state[p].done => journal = <<>>  BY <2>0 DEF SavedOf
    <2>5. journal # <<>> => n # known[p]  BY <2>0, <2>2, <2>4, <1>k DEF SameButUnits
    <2> QED BY <2>0, <2>1, <2>2, <2>3, <2>5, PublishFrom
  <1>27. CASE Race(p)
    <2>0. pc[p] = "race" /\ UNCHANGED <<base, journal>>  BY <1>27 DEF Race
    <2> SavedOf(p)  BY <2>0 DEF SavedInv
    <2>h. /\ recorded \subseteq state[p].units /\ known[p].units \subseteq state[p].units
          /\ journal # <<>> => state[p].units # known[p].units /\ state[p].vet
      BY <2>0, HoldsAll
    <2>1. CASE pc' = [pc EXCEPT ![p] = "mutation"]  BY <2>1
    <2>2. CASE ~state[p].race /\ Persist(p, [state[p] EXCEPT !.race = TRUE], "mutation") /\ UNCHANGED recorded
      <3> PICK n : n = [state[p] EXCEPT !.race = TRUE]  OBVIOUS
      <3>1. state'[p] = n /\ pc'[p] = "put"  BY <2>2 DEF Persist
      <3>2. n.attempts = state[p].attempts /\ n.units = state[p].units /\ n.race
        BY OneField
      <3>3. recorded' \subseteq n.units  BY <2>2, <2>h, <3>2
      <3>4. journal # <<>> => n # known[p]  BY <2>0, <2>h, <3>2, <1>k, <2>2 DEF SameButUnits
      <3> QED BY <2>0, <3>1, <3>2, <3>3, <3>4, PublishFrom
    <2>3. CASE /\ state[p].race /\ recorded' = recorded \ Of("mutant", recorded)
               /\ Persist(p, [state[p] EXCEPT !.race = FALSE, !.catalog = None, !.probe = FALSE,
                              !.mdone = FALSE, !.units = @ \ Of("mutant", @)], "race")
      <3> PICK n : n = [state[p] EXCEPT !.race = FALSE, !.catalog = None, !.probe = FALSE,
                                  !.mdone = FALSE, !.units = @ \ Of("mutant", @)]  OBVIOUS
      <3>1. state'[p] = n /\ pc'[p] = "put"  BY <2>3 DEF Persist
      <3>2. n.attempts = state[p].attempts /\ n.units = state[p].units \ Of("mutant", state[p].units) /\ ~n.race
        BY RaceDropped
      <3>3. recorded' \subseteq n.units  BY <2>3, <2>h, <3>2 DEF Of
      <3>4. journal # <<>> => n # known[p]  BY <2>0, <2>h, <3>2, <1>k, <2>3 DEF SameButUnits
      <3> QED BY <2>0, <3>1, <3>2, <3>3, <3>4, PublishFrom
    <2> QED BY <1>27, <2>1, <2>2, <2>3 DEF Race
  <1>28. CASE Mutation(p)
    <2>0. pc[p] = "mutation" /\ UNCHANGED <<base, journal>>  BY <1>28 DEF Mutation
    <2> SavedOf(p)  BY <2>0 DEF SavedInv
    <2>h. /\ recorded \subseteq state[p].units /\ known[p].units \subseteq state[p].units
          /\ journal # <<>> => state[p].units # known[p].units /\ state[p].vet
      BY <2>0, HoldsAll
    <2>1. CASE pc' = [pc EXCEPT ![p] = "probe"]  BY <2>1
    <2>2. ASSUME NEW c \in Catalogs, state[p].catalog # c, Persist(p, NoMutation(state[p], c), "probe"),
                 recorded' = recorded \ Of("mutant", recorded)
          PROVE  PublishedOf(p)'
      <3> PICK n : n = NoMutation(state[p], c)  OBVIOUS
      <3>1. state'[p] = n /\ pc'[p] = "put"  BY <2>2 DEF Persist
      <3>2. n.attempts = state[p].attempts /\ n.units = state[p].units \ Of("mutant", state[p].units) /\ n.catalog = c
        BY MutationDropped
      <3>3. recorded' \subseteq n.units  BY <2>2, <2>h, <3>2 DEF Of
      <3>4. journal # <<>> => n # known[p]  BY <2>0, <2>h, <3>2, <1>k, <2>2 DEF SameButUnits
      <3> QED BY <2>0, <3>1, <3>2, <3>3, <3>4, PublishFrom
    <2> QED BY <1>28, <2>1, <2>2 DEF Mutation
  <1>29. CASE Probe(p)
    <2>0. pc[p] = "probe" /\ UNCHANGED <<base, journal>>  BY <1>29 DEF Probe
    <2> SavedOf(p)  BY <2>0 DEF SavedInv
    <2>h. /\ recorded \subseteq state[p].units /\ known[p].units \subseteq state[p].units
          /\ journal # <<>> => state[p].units # known[p].units /\ state[p].vet
      BY <2>0, HoldsAll
    <2>1. CASE pc' = [pc EXCEPT ![p] = "mutants"]  BY <2>1
    <2>2. CASE /\ state[p].probe /\ recorded' = recorded \ Of("mutant", recorded)
               /\ Persist(p, NoMutation(state[p], state[p].catalog), "probe")
      <3>c. state[p].catalog \in Catalogs \cup {None}  BY DEF States
      <3> PICK n : n = NoMutation(state[p], state[p].catalog)  OBVIOUS
      <3>1. state'[p] = n /\ pc'[p] = "put"  BY <2>2 DEF Persist
      <3>2. n.attempts = state[p].attempts /\ n.units = state[p].units \ Of("mutant", state[p].units) /\ ~n.probe
        BY <3>c, MutationDropped
      <3>3. recorded' \subseteq n.units  BY <2>2, <2>h, <3>2 DEF Of
      <3>4. journal # <<>> => n # known[p]  BY <2>0, <2>h, <3>2, <1>k, <2>2 DEF SameButUnits
      <3> QED BY <2>0, <3>1, <3>2, <3>3, <3>4, PublishFrom
    <2>3. CASE ~state[p].probe /\ Persist(p, [state[p] EXCEPT !.probe = TRUE], "mutants") /\ UNCHANGED recorded
      <3> PICK n : n = [state[p] EXCEPT !.probe = TRUE]  OBVIOUS
      <3>1. state'[p] = n /\ pc'[p] = "put"  BY <2>3 DEF Persist
      <3>2. n.attempts = state[p].attempts /\ n.units = state[p].units /\ n.probe
        BY OneField
      <3>3. recorded' \subseteq n.units  BY <2>3, <2>h, <3>2
      <3>4. journal # <<>> => n # known[p]  BY <2>0, <2>h, <3>2, <1>k, <2>3 DEF SameButUnits
      <3> QED BY <2>0, <3>1, <3>2, <3>3, <3>4, PublishFrom
    <2> QED BY <1>29, <2>1, <2>2, <2>3 DEF Probe
  <1>30. CASE SaveMutant(p)  BY <1>30 DEF SaveMutant, Journal
  <1>31. CASE CompleteMutation(p)
    <2>0. pc[p] = "mutants" /\ UNCHANGED <<base, journal>>  BY <1>31 DEF CompleteMutation
    <2> SavedOf(p)  BY <2>0 DEF SavedInv
    <2>h. /\ recorded \subseteq state[p].units /\ known[p].units \subseteq state[p].units
          /\ journal # <<>> => state[p].units # known[p].units /\ state[p].vet
      BY <2>0, HoldsAll
    <2>1. Persist(p, [state[p] EXCEPT !.mdone = TRUE], "repair") /\ UNCHANGED recorded
      BY <1>31 DEF CompleteMutation
    <2> PICK n : n = [state[p] EXCEPT !.mdone = TRUE]  OBVIOUS
    <2>5. state'[p] = n /\ pc'[p] = "put"  BY <2>1 DEF Persist
    <2>6. n.attempts = state[p].attempts /\ n.units = state[p].units
      BY OneField
    <2>7. recorded' \subseteq n.units  BY <2>1, <2>h, <2>6
    <2>8. journal # <<>> => n # known[p]  BY <2>0, <2>h, <2>6, <1>k DEF SameButUnits
    <2> QED BY <2>0, <2>5, <2>6, <2>7, <2>8, PublishFrom
  <1>32. CASE Discard(p)  BY <1>32 DEF Discard, Forget
  <1>33. CASE Verified(p)  BY <1>33 DEF Verified
  <1>34. CASE Fail(p)  BY <1>34 DEF Fail
  <1>35. CASE Keep(p)  BY <1>35 DEF Keep, Over
  <1>36. CASE Collect(p)  BY <1>36 DEF Collect, Over
  <1>37. CASE CollectFile(p)  BY <1>37 DEF CollectFile
  <1>38. CASE CollectEnd(p)  BY <1>38 DEF CollectEnd, Return
  <1>39. CASE Publish(p)  BY <1>39 DEF Publish, Forget
  <1>40. CASE PublishFail(p)  BY <1>40 DEF PublishFail
  <1>41. CASE Release(p)  BY <1>41 DEF Release, Unlock, Gone
  <1>42. CASE AcquireCancel(p)  BY <1>42 DEF AcquireCancel, Gone
  <1>43. CASE Crash(p)  BY <1>43 DEF Crash, Unlock, Gone, Append1
  <1> QED
    BY <1>1, <1>2, <1>3, <1>4, <1>5, <1>6, <1>7, <1>8, <1>9, <1>10, <1>11,
       <1>12, <1>13, <1>14, <1>15, <1>16, <1>17, <1>18, <1>19, <1>20, <1>21,
       <1>22, <1>23, <1>24, <1>25, <1>26, <1>27, <1>28, <1>29, <1>30, <1>31,
       <1>32, <1>33, <1>34, <1>35, <1>36, <1>37, <1>38, <1>39, <1>40, <1>41,
       <1>42, <1>43
    DEF RunStep, Open, Store, Round, End

\* Every step of a run leaves only finished lines.
LEMMA WholeStep ==
  ASSUME SharedInv, SharedInv', SavedInv, WholeInv, NEW p \in Runs, RunStep(p), ~unlocked'
  PROVE  WholeInv'
  <1> USE NoneAssumption DEF disk, lease, controller, work, ghost, Goto
  <1> ShapeInv /\ ShapeInv' /\ KnownInv /\ QueueInv  BY DEF SharedInv
  <1> /\ pc \in [Runs -> PCs] /\ base \in States \cup {None}  BY DEF ShapeInv, TypeOK
  <1>s. pc[p] = "append" => SavedOf(p)  BY DEF SavedInv
  <1> \A i \in DOMAIN journal : journal[i].whole  BY DEF WholeInv
  <1> SUFFICES \A i \in DOMAIN journal' : journal'[i].whole  BY DEF WholeInv
  <1>a. ASSUME pc[p] = "append", NEW u \in queue[p], Append1(p, u)
        PROVE  \A i \in DOMAIN journal' : journal'[i].whole
    <2>1. torn = FALSE  BY <1>a, <1>s DEF SavedOf, ShapeInv, TypeOK
    <2>2. /\ DOMAIN journal' = DOMAIN journal \cup {Len(journal) + 1}
          /\ \A i \in DOMAIN journal : journal'[i] = journal[i]
          /\ journal'[Len(journal) + 1].whole = ~torn
      BY <1>a, OneMoreLine
    <2> QED BY <2>1, <2>2
  <1>1. CASE Start(p)  BY <1>1 DEF Start
  <1>2. CASE Acquire(p)  BY <1>2 DEF Acquire
  <1>3. CASE AcquireFail(p)  BY <1>3 DEF AcquireFail
  <1>4. CASE Answered(p)  BY <1>4 DEF Answered
  <1>5. CASE Get(p)  BY <1>5 DEF Get, Persist, Forget
  <1>6. CASE GetFail(p)  BY <1>6 DEF GetFail, Forget
  <1>7. CASE Cold(p)  BY <1>7 DEF Cold, Persist
  <1>8. CASE Put(p)  BY <1>8 DEF Put
  <1>9. CASE Compact(p)  BY <1>9 DEF Compact, Return
  <1>10. CASE PutFail(p)  BY <1>10 DEF PutFail, Disable, Forget
  <1>11. CASE AppendUnit(p)
    <2>1. PICK u \in queue[p] : Append1(p, u)  BY <1>11 DEF AppendUnit
    <2> QED BY <1>11, <2>1, <1>a DEF AppendUnit
  <1>12. CASE AppendFail(p)
    <2>1. CASE UNCHANGED journal  BY <2>1
    <2>2. CASE \E u \in queue[p] : Append1(p, u)  BY <1>12, <2>2, <1>a DEF AppendFail
    <2> QED BY <1>12, <2>1, <2>2 DEF AppendFail
  <1>13. CASE AppendEnd(p)  BY <1>13 DEF AppendEnd, Return
  <1>14. CASE DeleteBase(p)  BY <1>14 DEF DeleteBase
  <1>15. CASE DeleteJournal(p)  BY <1>15 DEF DeleteJournal, Return
  <1>16. CASE DeleteFail(p)  BY <1>16 DEF DeleteFail, Return
  <1>17. CASE Baseline(p)  BY <1>17 DEF Baseline, Persist
  <1>18. CASE Vet(p)  BY <1>18 DEF Vet, Persist
  <1>19. CASE Unbuildable(p)  BY <1>19 DEF Unbuildable, Persist
  <1>20. CASE Compiled(p)  BY <1>20 DEF Compiled
  <1>21. CASE Measure(p)  BY <1>21 DEF Measure
  <1>22. CASE PublishPackage(p)  BY <1>22 DEF PublishPackage, Journal
  <1>23. CASE PublishNothing(p)  BY <1>23 DEF PublishNothing, Persist
  <1>24. CASE TargetsDone(p)  BY <1>24 DEF TargetsDone
  <1>25. CASE MeasureSuite(p)  BY <1>25 DEF MeasureSuite, Journal
  <1>26. CASE CompleteBaseline(p)  BY <1>26 DEF CompleteBaseline, Persist
  <1>27. CASE Race(p)  BY <1>27 DEF Race, Persist
  <1>28. CASE Mutation(p)  BY <1>28 DEF Mutation, Persist, NoMutation
  <1>29. CASE Probe(p)  BY <1>29 DEF Probe, Persist, NoMutation
  <1>30. CASE SaveMutant(p)  BY <1>30 DEF SaveMutant, Journal
  <1>31. CASE CompleteMutation(p)  BY <1>31 DEF CompleteMutation, Persist
  <1>32. CASE Discard(p)  BY <1>32 DEF Discard, Forget
  <1>33. CASE Verified(p)  BY <1>33 DEF Verified
  <1>34. CASE Fail(p)  BY <1>34 DEF Fail
  <1>35. CASE Keep(p)  BY <1>35 DEF Keep, Over
  <1>36. CASE Collect(p)  BY <1>36 DEF Collect, Over
  <1>37. CASE CollectFile(p)
    <2>1. CASE UNCHANGED journal  BY <2>1
    <2>2. CASE journal' = <<>>  BY <2>2
    <2> QED BY <1>37, <2>1, <2>2 DEF CollectFile
  <1>38. CASE CollectEnd(p)  BY <1>38 DEF CollectEnd, Return
  <1>39. CASE Publish(p)  BY <1>39 DEF Publish, Forget
  <1>40. CASE PublishFail(p)  BY <1>40 DEF PublishFail
  <1>41. CASE Release(p)  BY <1>41 DEF Release, Unlock, Gone
  <1>42. CASE AcquireCancel(p)  BY <1>42 DEF AcquireCancel, Gone
  <1>43. CASE Crash(p)
    <2>1. CASE UNCHANGED journal  BY <2>1
    <2>2. CASE pc[p] = "append" /\ \E u \in queue[p] : Append1(p, u)  BY <2>2, <1>a
    <2> QED BY <1>43, <2>1, <2>2 DEF Crash
  <1> QED
    BY <1>1, <1>2, <1>3, <1>4, <1>5, <1>6, <1>7, <1>8, <1>9, <1>10, <1>11,
       <1>12, <1>13, <1>14, <1>15, <1>16, <1>17, <1>18, <1>19, <1>20, <1>21,
       <1>22, <1>23, <1>24, <1>25, <1>26, <1>27, <1>28, <1>29, <1>30, <1>31,
       <1>32, <1>33, <1>34, <1>35, <1>36, <1>37, <1>38, <1>39, <1>40, <1>41,
       <1>42, <1>43
    DEF RunStep, Open, Store, Round, End

\* Every step of a run leaves what is on disk readable.
LEMMA ReadableStep ==
  ASSUME SharedInv, SharedInv', CatalogInv, SavedInv, PublishInv, WholeInv, WholeInv', ReadableInv, NEW p \in Runs, RunStep(p), ~unlocked'
  PROVE  ReadableInv'
  <1> USE NoneAssumption DEF disk, lease, controller, work, ghost, Goto
  <1> ShapeInv /\ ShapeInv' /\ KnownInv /\ QueueInv  BY DEF SharedInv
  <1> /\ pc \in [Runs -> PCs] /\ base \in States \cup {None}  BY DEF ShapeInv, TypeOK
  <1>s. pc[p] = "append" => SavedOf(p)  BY DEF SavedInv
  <1>u. UNCHANGED <<base, journal>> => ReadableInv'
    BY DEF ReadableInv, InOrder, Current
  <1>n. base' = None => ReadableInv'  BY DEF ReadableInv
  <1>e. journal' = <<>> => ReadableInv'  BY DEF ReadableInv, InOrder, Current
  <1>a. ASSUME pc[p] = "append", NEW u \in queue[p], Append1(p, u), UNCHANGED base
        PROVE  ReadableInv'
    <2>1. /\ base = known[p] /\ \A i \in DOMAIN journal : journal[i].base = base
          /\ u \notin base.units \cup Extending
      BY <1>a, <1>s DEF SavedOf
    <2>2. known[p] \in States /\ known[p].catalog = state[p].catalog  BY <1>a DEF KnownInv, SameButUnits
    <2>3. base # None /\ InOrder(base)  BY <2>1, <2>2, NoneAssumption DEF ReadableInv
    <2>4. u.kind = "mutant" => base.catalog # None  BY <1>a, <2>1, <2>2 DEF CatalogInv
    <2>5. /\ DOMAIN journal' = DOMAIN journal \cup {Len(journal) + 1}
          /\ \A i \in DOMAIN journal : journal'[i] = journal[i] /\ i \in Nat /\ i < Len(journal) + 1
          /\ journal'[Len(journal) + 1].base = known[p] /\ journal'[Len(journal) + 1].unit = u
      BY <1>a, OneMoreLine
    <2>6. \A i \in DOMAIN journal' : journal'[i].base = base  BY <2>1, <2>5
    <2>7. Current(base)' = DOMAIN journal'  BY <1>a, <2>6 DEF Current
    <2>n. \A v \in base.units \cup Extending : NameOf(v) # NameOf(u)
      BY <1>a, <1>s, <2>1 DEF SavedOf, SharedInv, FitInv, Once
    <2>8. \A i, k \in DOMAIN journal' : i # k => NameOf(journal'[i].unit) # NameOf(journal'[k].unit)
      <3>1. \A i \in DOMAIN journal : NameOf(journal[i].unit) # NameOf(u)  BY <2>n DEF Extending
      <3>2. \A i, k \in DOMAIN journal : i # k => NameOf(journal[i].unit) # NameOf(journal[k].unit)
        BY <2>1, <2>3 DEF InOrder, Current
      <3> QED BY <2>5, <3>1, <3>2
    <2>9. \A i \in DOMAIN journal' : /\ \A v \in base.units : NameOf(v) # NameOf(journal'[i].unit)
                                     /\ journal'[i].unit.kind = "mutant" => base.catalog # None
      <3>1. \A i \in DOMAIN journal : /\ \A v \in base.units : NameOf(v) # NameOf(journal[i].unit)
                                      /\ journal[i].unit.kind = "mutant" => base.catalog # None
        BY <2>1, <2>3 DEF InOrder, Current
      <3>2. ASSUME NEW i \in DOMAIN journal
            PROVE  /\ \A v \in base.units : NameOf(v) # NameOf(journal'[i].unit)
                   /\ journal'[i].unit.kind = "mutant" => base.catalog # None
        <4>1. journal'[i] = journal[i]  BY <2>5
        <4> HIDE <1>a
        <4> QED BY ONLY <3>1, <4>1
      <3>3. /\ \A v \in base.units : NameOf(v) # NameOf(journal'[Len(journal) + 1].unit)
            /\ journal'[Len(journal) + 1].unit.kind = "mutant" => base.catalog # None
        BY <2>4, <2>5, <2>n
      <3> QED BY <2>5, <3>2, <3>3
    <2>10. InOrder(base)'  BY <1>a, <2>7, <2>8, <2>9 DEF InOrder, WholeInv
    <2>11. base.attempts <= base.attempts  BY <2>1, <2>2 DEF States
    <2> QED BY <1>a, <2>6, <2>10, <2>11 DEF ReadableInv
  <1>1. CASE Start(p)  BY <1>1, <1>u DEF Start
  <1>2. CASE Acquire(p)  BY <1>2, <1>u DEF Acquire
  <1>3. CASE AcquireFail(p)  BY <1>3, <1>u DEF AcquireFail
  <1>4. CASE Answered(p)  BY <1>4, <1>u DEF Answered
  <1>5. CASE Get(p)  BY <1>5, <1>u DEF Get
  <1>6. CASE GetFail(p)  BY <1>6, <1>u DEF GetFail
  <1>7. CASE Cold(p)  BY <1>7, <1>u DEF Cold
  <1>8. CASE Put(p)
    <2>1. base' = state[p] /\ journal' = journal  BY <1>8 DEF Put
    <2>2. PICK b : b = base'  OBVIOUS
    <2>3. \A i \in DOMAIN journal : /\ journal[i].base # b
                                    /\ b.vet => journal[i].base.attempts <= b.attempts
      BY <1>8, <2>1, <2>2 DEF Put, PublishInv, PublishedOf, PublishPCs
    <2>4. \A i \in DOMAIN journal : journal[i].whole  BY DEF WholeInv
    <2>5. \A i \in DOMAIN journal' : journal'[i].base # b
      BY ONLY <2>1, <2>3
    <2>6. Current(b)' = {}  BY ONLY <2>5 DEF Current
    <2>7. \A i \in DOMAIN journal' : journal'[i].whole  BY ONLY <2>1, <2>4
    <2>8. InOrder(b)'  BY ONLY <2>6, <2>7 DEF InOrder
    <2> QED BY <2>1, <2>2, <2>3, <2>8 DEF ReadableInv
  <1>9. CASE Compact(p)  BY <1>9, <1>e DEF Compact
  <1>10. CASE PutFail(p)  BY <1>10, <1>u DEF PutFail
  <1>11. CASE AppendUnit(p)
    <2>1. PICK u \in queue[p] : Append1(p, u)  BY <1>11 DEF AppendUnit
    <2> QED BY <1>11, <2>1, <1>a DEF AppendUnit
  <1>12. CASE AppendFail(p)
    <2>0. pc[p] = "append" /\ UNCHANGED <<base, known>> /\ recorded' = {}  BY <1>12 DEF AppendFail, Disable, Forget
    <2>1. CASE UNCHANGED journal  BY <2>0, <2>1, <1>u
    <2>2. CASE \E u \in queue[p] : Append1(p, u)  BY <2>0, <2>2, <1>a
    <2> QED BY <1>12, <2>1, <2>2 DEF AppendFail
  <1>13. CASE AppendEnd(p)  BY <1>13, <1>u DEF AppendEnd
  <1>14. CASE DeleteBase(p)  BY <1>14, <1>n DEF DeleteBase
  <1>15. CASE DeleteJournal(p)  BY <1>15, <1>e DEF DeleteJournal
  <1>16. CASE DeleteFail(p)  BY <1>16, <1>u DEF DeleteFail
  <1>17. CASE Baseline(p)  BY <1>17, <1>u DEF Baseline
  <1>18. CASE Vet(p)  BY <1>18, <1>u DEF Vet
  <1>19. CASE Unbuildable(p)  BY <1>19, <1>u DEF Unbuildable
  <1>20. CASE Compiled(p)  BY <1>20, <1>u DEF Compiled
  <1>21. CASE Measure(p)  BY <1>21, <1>u DEF Measure
  <1>22. CASE PublishPackage(p)  BY <1>22, <1>u DEF PublishPackage
  <1>23. CASE PublishNothing(p)  BY <1>23, <1>u DEF PublishNothing
  <1>24. CASE TargetsDone(p)  BY <1>24, <1>u DEF TargetsDone
  <1>25. CASE MeasureSuite(p)  BY <1>25, <1>u DEF MeasureSuite
  <1>26. CASE CompleteBaseline(p)  BY <1>26, <1>u DEF CompleteBaseline
  <1>27. CASE Race(p)  BY <1>27, <1>u DEF Race
  <1>28. CASE Mutation(p)  BY <1>28, <1>u DEF Mutation
  <1>29. CASE Probe(p)  BY <1>29, <1>u DEF Probe
  <1>30. CASE SaveMutant(p)  BY <1>30, <1>u DEF SaveMutant
  <1>31. CASE CompleteMutation(p)  BY <1>31, <1>u DEF CompleteMutation
  <1>32. CASE Discard(p)  BY <1>32, <1>u DEF Discard
  <1>33. CASE Verified(p)  BY <1>33, <1>u DEF Verified
  <1>34. CASE Fail(p)  BY <1>34, <1>u DEF Fail
  <1>35. CASE Keep(p)  BY <1>35, <1>u DEF Keep
  <1>36. CASE Collect(p)  BY <1>36, <1>u DEF Collect
  <1>37. CASE CollectFile(p)
    <2>1. CASE base' = None  BY <2>1, <1>n
    <2>2. CASE journal' = <<>>  BY <2>2, <1>e
    <2> QED BY <1>37, <2>1, <2>2 DEF CollectFile
  <1>38. CASE CollectEnd(p)  BY <1>38, <1>u DEF CollectEnd
  <1>39. CASE Publish(p)  BY <1>39, <1>u DEF Publish
  <1>40. CASE PublishFail(p)  BY <1>40, <1>u DEF PublishFail
  <1>41. CASE Release(p)  BY <1>41, <1>u DEF Release
  <1>42. CASE AcquireCancel(p)  BY <1>42, <1>u DEF AcquireCancel
  <1>43. CASE Crash(p)
    <2>0. UNCHANGED <<base, recorded>>  BY <1>43 DEF Crash
    <2>1. CASE UNCHANGED journal  BY <2>0, <2>1, <1>u
    <2>2. CASE pc[p] = "append" /\ \E u \in queue[p] : Append1(p, u)  BY <2>0, <2>2, <1>a
    <2> QED BY <1>43, <2>1, <2>2 DEF Crash
  <1> QED
    BY <1>1, <1>2, <1>3, <1>4, <1>5, <1>6, <1>7, <1>8, <1>9, <1>10, <1>11,
       <1>12, <1>13, <1>14, <1>15, <1>16, <1>17, <1>18, <1>19, <1>20, <1>21,
       <1>22, <1>23, <1>24, <1>25, <1>26, <1>27, <1>28, <1>29, <1>30, <1>31,
       <1>32, <1>33, <1>34, <1>35, <1>36, <1>37, <1>38, <1>39, <1>40, <1>41,
       <1>42, <1>43
    DEF RunStep, Open, Store, Round, End

\* Every step of a run leaves on disk what somebody was told is saved.
LEMMA OwedStep ==
  ASSUME SharedInv, SharedInv', SavedInv, PublishInv, ForgottenInv, DiskInv, NEW p \in Runs, RunStep(p), ~unlocked'
  PROVE  (recorded \subseteq Durable)'
  <1> USE NoneAssumption DEF disk, lease, controller, work, ghost, Goto
  <1> ShapeInv /\ ShapeInv' /\ KnownInv /\ QueueInv  BY DEF SharedInv
  <1> /\ pc \in [Runs -> PCs] /\ base \in States \cup {None}  BY DEF ShapeInv, TypeOK
  <1>s. pc[p] = "append" => SavedOf(p)  BY DEF SavedInv
  <1>d. recorded \subseteq Durable  BY DEF DiskInv
  <1>u. UNCHANGED <<base, journal>> /\ recorded' \subseteq recorded => (recorded \subseteq Durable)'
    BY <1>d DEF Durable, Replayed, Current
  <1>n. recorded' = {} => (recorded \subseteq Durable)'  OBVIOUS
  <1>g. pc[p] \in {"delete", "delete_journal", "cold", "collect"} => recorded = {}  BY DEF ForgottenInv
  <1>a. ASSUME pc[p] = "append", NEW u \in queue[p], Append1(p, u), UNCHANGED base,
               recorded' \subseteq recorded \cup {u}
        PROVE  (recorded \subseteq Durable)'
    <2>1. base = known[p] /\ \A i \in DOMAIN journal : journal[i].base = base
      BY <1>a, <1>s DEF SavedOf
    <2>2. base \in States  BY <1>a, <2>1 DEF KnownInv
    <2>3. Durable = base.units \cup Extending  BY <2>1, <2>2, DurableIs DEF Current, Extending
    <2>4. /\ DOMAIN journal' = DOMAIN journal \cup {Len(journal) + 1}
          /\ \A i \in DOMAIN journal : journal'[i] = journal[i]
          /\ journal'[Len(journal) + 1].base = known[p]
      BY <1>a, OneMoreLine
    <2>5. \A i \in DOMAIN journal' : journal'[i].base = base'  BY <1>a, <2>1, <2>4
    <2>6. Durable' = base'.units \cup Extending'
      BY <1>a, <2>2, <2>5, DurableWillBe DEF Extending
    <2>7. Extending' = Extending \cup {u}  BY <1>a, ExtendingAppend
    <2> QED BY <1>a, <1>d, <2>3, <2>6, <2>7
  <1>1. CASE Start(p)  BY <1>1, <1>u DEF Start
  <1>2. CASE Acquire(p)  BY <1>2, <1>u DEF Acquire
  <1>3. CASE AcquireFail(p)  BY <1>3, <1>u DEF AcquireFail
  <1>4. CASE Answered(p)  BY <1>4, <1>u DEF Answered
  <1>5. CASE Get(p)  BY <1>5, <1>n, <1>u DEF Get, Forget
  <1>6. CASE GetFail(p)  BY <1>6, <1>n DEF GetFail, Forget
  <1>7. CASE Cold(p)  BY <1>7, <1>u DEF Cold
  <1>8. CASE Put(p)
    <2>1. /\ base' = state[p] /\ recorded \subseteq state[p].units /\ UNCHANGED recorded
      BY <1>8 DEF Put, PublishInv, PublishedOf, PublishPCs
    <2>2. base' \in States  BY <2>1 DEF ShapeInv, TypeOK
    <2> QED BY <2>1, <2>2, DurableWillBe
  <1>9. CASE Compact(p)
    <2>1. /\ base' = base /\ base = state[p] /\ recorded \subseteq state[p].units
          /\ recorded' = recorded \cup state[p].units
      BY <1>9 DEF Compact, PublishInv, PublishedOf, PublishPCs
    <2>2. base' \in States  BY <2>1 DEF ShapeInv, TypeOK
    <2> QED BY <2>1, <2>2, DurableWillBe
  <1>10. CASE PutFail(p)  BY <1>10, <1>n DEF PutFail, Disable, Forget
  <1>11. CASE AppendUnit(p)
    <2>1. PICK u \in queue[p] : Append1(p, u) /\ recorded' = recorded \cup {u}  BY <1>11 DEF AppendUnit
    <2>2. pc[p] = "append" /\ UNCHANGED base  BY <1>11 DEF AppendUnit
    <2> QED BY <2>1, <2>2, <1>a
  <1>12. CASE AppendFail(p)  BY <1>12, <1>n DEF AppendFail, Disable, Forget
  <1>13. CASE AppendEnd(p)  BY <1>13, <1>u DEF AppendEnd
  <1>14. CASE DeleteBase(p)  BY <1>14, <1>g, <1>n DEF DeleteBase
  <1>15. CASE DeleteJournal(p)  BY <1>15, <1>g, <1>n DEF DeleteJournal
  <1>16. CASE DeleteFail(p)  BY <1>16, <1>u DEF DeleteFail
  <1>17. CASE Baseline(p)  BY <1>17, <1>n, <1>u DEF Baseline
  <1>18. CASE Vet(p)  BY <1>18, <1>u DEF Vet
  <1>19. CASE Unbuildable(p)  BY <1>19, <1>u DEF Unbuildable
  <1>20. CASE Compiled(p)  BY <1>20, <1>u DEF Compiled
  <1>21. CASE Measure(p)  BY <1>21, <1>u DEF Measure
  <1>22. CASE PublishPackage(p)  BY <1>22, <1>u DEF PublishPackage
  <1>23. CASE PublishNothing(p)  BY <1>23, <1>u DEF PublishNothing
  <1>24. CASE TargetsDone(p)  BY <1>24, <1>u DEF TargetsDone
  <1>25. CASE MeasureSuite(p)  BY <1>25, <1>u DEF MeasureSuite
  <1>26. CASE CompleteBaseline(p)  BY <1>26, <1>u DEF CompleteBaseline
  <1>27. CASE Race(p)  BY <1>27, <1>u DEF Race
  <1>28. CASE Mutation(p)  BY <1>28, <1>u DEF Mutation
  <1>29. CASE Probe(p)  BY <1>29, <1>u DEF Probe
  <1>30. CASE SaveMutant(p)  BY <1>30, <1>u DEF SaveMutant
  <1>31. CASE CompleteMutation(p)  BY <1>31, <1>u DEF CompleteMutation
  <1>32. CASE Discard(p)  BY <1>32, <1>n DEF Discard, Forget
  <1>33. CASE Verified(p)  BY <1>33, <1>u DEF Verified
  <1>34. CASE Fail(p)  BY <1>34, <1>u DEF Fail
  <1>35. CASE Keep(p)  BY <1>35, <1>u DEF Keep
  <1>36. CASE Collect(p)  BY <1>36, <1>n DEF Collect
  <1>37. CASE CollectFile(p)  BY <1>37, <1>g, <1>n DEF CollectFile
  <1>38. CASE CollectEnd(p)  BY <1>38, <1>u DEF CollectEnd
  <1>39. CASE Publish(p)  BY <1>39, <1>n DEF Publish, Forget
  <1>40. CASE PublishFail(p)  BY <1>40, <1>u DEF PublishFail
  <1>41. CASE Release(p)  BY <1>41, <1>u DEF Release
  <1>42. CASE AcquireCancel(p)  BY <1>42, <1>u DEF AcquireCancel
  <1>43. CASE Crash(p)
    <2>0. UNCHANGED <<base, recorded>>  BY <1>43 DEF Crash
    <2>1. CASE UNCHANGED journal  BY <2>0, <2>1, <1>u
    <2>2. CASE pc[p] = "append" /\ \E u \in queue[p] : Append1(p, u)  BY <2>0, <2>2, <1>a
    <2> QED BY <1>43, <2>1, <2>2 DEF Crash
  <1> QED
    BY <1>1, <1>2, <1>3, <1>4, <1>5, <1>6, <1>7, <1>8, <1>9, <1>10, <1>11,
       <1>12, <1>13, <1>14, <1>15, <1>16, <1>17, <1>18, <1>19, <1>20, <1>21,
       <1>22, <1>23, <1>24, <1>25, <1>26, <1>27, <1>28, <1>29, <1>30, <1>31,
       <1>32, <1>33, <1>34, <1>35, <1>36, <1>37, <1>38, <1>39, <1>40, <1>41,
       <1>42, <1>43
    DEF RunStep, Open, Store, Round, End

\* Every step under the lock, of any run, keeps the invariant.
LEMMA LockedStep ==
  ASSUME SharedInv, SharedInv', LockedInv, NEW p \in Runs, RunStep(p), ~unlocked'
  PROVE  LockedInv'
  <1> TypeOK /\ ThenInv  BY DEF SharedInv, ShapeInv
  <1> LeaseInv /\ SavedInv /\ PublishInv /\ ForgottenInv /\ DiskInv  BY DEF LockedInv
  <1>1. LeaseInv'  BY LeaseStep
  <1>2. ASSUME NEW q \in Runs, q # p, pc'[q] \notin IdlePCs
        PROVE  /\ UNCHANGED <<base, journal, torn, lock, recorded, measured>>
               /\ pc'[q] = pc[q] /\ then'[q] = then[q] /\ state'[q] = state[q] /\ known'[q] = known[q]
               /\ queue'[q] = queue[q]
    <2>1. pc'[q] = pc[q]  BY <1>2, StaysPut
    <2>2. lock = q  BY <1>2, <2>1 DEF LeaseInv
    <2> QED BY <1>2, <2>2, OthersRest
  <1>3. SavedInv'
    <2> SUFFICES ASSUME NEW q \in Runs, pc'[q] \in SavingPCs \cup {"append"}
                 PROVE  SavedOf(q)'
      BY DEF SavedInv
    <2>1. CASE q = p  BY <2>1, SavedStep
    <2>2. CASE q # p
      <3>1. pc'[q] \notin IdlePCs  BY DEF SavingPCs, IdlePCs
      <3>2. SavedOf(q)  BY <1>2, <2>2, <3>1 DEF SavedInv
      <3> QED BY <1>2, <2>2, <3>1, <3>2 DEF SavedOf, Extending
    <2> QED BY <2>1, <2>2
  <1>4. PublishInv'
    <2> SUFFICES ASSUME NEW q \in Runs, pc'[q] \in PublishPCs
                 PROVE  PublishedOf(q)'
      BY DEF PublishInv
    <2>1. CASE q = p  BY <2>1, PublishedStep
    <2>2. CASE q # p
      <3>1. pc'[q] \notin IdlePCs  BY DEF PublishPCs, IdlePCs
      <3>2. PublishedOf(q)  BY <1>2, <2>2, <3>1 DEF PublishInv
      <3> QED BY <1>2, <2>2, <3>1, <3>2 DEF PublishedOf
    <2> QED BY <2>1, <2>2
  <1>5. ForgottenInv'  BY ForgottenStep
  <1>6. WholeInv'  BY WholeStep DEF DiskInv
  <1>7. ReadableInv'  BY ReadableStep, <1>6 DEF DiskInv, SharedInv
  <1>8. (recorded \subseteq Durable)'  BY OwedStep
  <1> QED BY <1>1, <1>3, <1>4, <1>5, <1>6, <1>7, <1>8 DEF LockedInv, DiskInv

\* Only a run that goes on without the lock says so, and it never takes it back.
LEMMA UnlockedStays ==
  ASSUME NEW p \in Runs, RunStep(p)
  PROVE  unlocked => unlocked'
  BY DEF RunStep, Open, Store, Round, End, lease, Unlock,
      Start, Acquire, AcquireFail, Answered, Get,
      GetFail, Cold, Put, Compact, PutFail, AppendUnit, AppendFail, AppendEnd, DeleteBase,
      DeleteJournal, DeleteFail, Baseline, Vet, Unbuildable, Compiled, Measure, PublishPackage,
      PublishNothing, TargetsDone, MeasureSuite, CompleteBaseline, Race, Mutation, Probe,
      SaveMutant, CompleteMutation, Discard, Verified, Fail, Keep, Collect, CollectFile,
      CollectEnd, Publish, PublishFail, Release, AcquireCancel, Crash

LEMMA CheckpointStep == CheckpointInv /\ [Next]_vars => CheckpointInv'
  <1> SUFFICES ASSUME CheckpointInv, [Next]_vars PROVE CheckpointInv'  OBVIOUS
  <1>1. CASE \E p \in Runs : RunStep(p)
    <2> PICK p \in Runs : RunStep(p)  BY <1>1
    <2>1. SharedInv'  BY SharedStep DEF CheckpointInv
    <2>2. ~unlocked' => LockedInv'  BY <2>1, UnlockedStays, LockedStep DEF CheckpointInv
    <2> QED BY <2>1, <2>2 DEF CheckpointInv
  <1>2. CASE UNCHANGED vars
    <2> UNCHANGED <<base, journal, torn, lock, unlocked, pc, then, state, known, selected, fresh,
                    queue, recorded, measured, origin>>
      BY <1>2 DEF vars, disk, lease, controller, work, ghost
    <2>1. SharedInv'
      BY DEF CheckpointInv, SharedInv, ShapeInv, TypeOK, ThenInv, KnownInv, CatalogInv, TargetsInv,
         QueueInv, SoundInv, Sound, FitInv, Once, Cataloguing, Measuring, At, Pending, SavedTargets, Saved
    <2>2. ~unlocked' => LockedInv'
      BY DEF CheckpointInv, LockedInv, LeaseInv, SavedInv, SavedOf, PublishInv, PublishedOf,
         ForgottenInv, DiskInv, WholeInv, ReadableInv, InOrder, Current, Durable, Replayed, Extending
    <2> QED BY <2>1, <2>2 DEF CheckpointInv
  <1> QED BY <1>1, <1>2 DEF Next, RunStep

LEMMA CheckpointInitially == Init => CheckpointInv
  <1> SUFFICES ASSUME Init PROVE CheckpointInv  OBVIOUS
  <1> USE DEF Init
  <1>1. Blank \in States /\ Blank.units = {} /\ Blank.done = FALSE  BY BlankType DEF Blank
  <1>2. ShapeInv
    <2>1. /\ base \in States \cup {None} /\ torn \in BOOLEAN
          /\ lock \in Runs \cup {None} /\ unlocked \in BOOLEAN
          /\ pc \in [Runs -> PCs] /\ then \in [Runs -> PCs]
      BY DEF PCs
    <2>2. /\ state \in [Runs -> States] /\ known \in [Runs -> States \cup {None}]
          /\ selected \in [Runs -> SUBSET Targets] /\ fresh \in [Runs -> SUBSET Targets]
          /\ queue \in [Runs -> SUBSET Units]
      BY <1>1
    <2>3. /\ journal \in Seq(Lines) /\ DOMAIN journal = {}
          /\ recorded \subseteq Units /\ measured \subseteq Mutants \X Catalogs /\ origin \subseteq Targets
      OBVIOUS
    <2> QED BY <2>1, <2>2, <2>3 DEF ShapeInv, TypeOK
  <1>3. ThenInv /\ KnownInv  BY DEF ThenInv, KnownInv, SavingPCs, VettedPCs, PublishPCs
  <1>4. CatalogInv /\ QueueInv  BY DEF CatalogInv, QueueInv, Cataloguing, At, PublishPCs
  <1>5. TargetsInv  BY <1>1 DEF TargetsInv, Measuring, At, PublishPCs
  <1>6. SoundInv /\ FitInv  BY <1>1 DEF SoundInv, Sound, FitInv, Once
  <1>7. LeaseInv /\ SavedInv /\ PublishInv /\ ForgottenInv
    BY NoneAssumption DEF LeaseInv, IdlePCs, SavedInv, SavingPCs, PublishInv, PublishPCs, ForgottenInv
  <1>8. DiskInv  BY DEF DiskInv, WholeInv, ReadableInv
  <1> QED BY <1>2, <1>3, <1>4, <1>5, <1>6, <1>7, <1>8 DEF CheckpointInv, SharedInv, LockedInv

-----------------------------------------------------------------------------
(* What the checkpoint promises *)

\* The invariant holds in every reachable state, whoever has had the lock, died
\* or failed.
THEOREM CheckpointCorrect == Spec => []CheckpointInv
  BY CheckpointInitially, CheckpointStep, PTL DEF Spec

\* The checkpoint, the controllers and the lock keep their declared shape.
THEOREM TypeCorrect == Spec => []TypeOK
  <1>1. CheckpointInv => TypeOK  BY DEF CheckpointInv, SharedInv, ShapeInv
  <1> QED BY <1>1, CheckpointCorrect, PTL

\* Under the lock no torn write, no publish that was interrupted and no removal
\* that failed costs a later run what it was told is saved (PutCheckpoint,
\* AppendCheckpoint, applyCheckpointJournal).
THEOREM JournalKept == Spec => []JournalIsKept
  <1>1. CheckpointInv => JournalIsKept
    <2> SUFFICES ASSUME CheckpointInv, ~unlocked PROVE AlwaysReadable /\ NothingLost
      BY DEF JournalIsKept
    <2>1. NothingLost  BY DEF CheckpointInv, LockedInv, DiskInv, NothingLost
    <2>2. ASSUME base # None, ~Skips(Replayed(base)) PROVE InOrder(base) /\ Valid(base) /\ Valid(Replayed(base))
      <3>1. base \in States /\ InOrder(base) /\ Valid(base)
        BY <2>2 DEF CheckpointInv, SharedInv, ShapeInv, TypeOK, FitInv, LockedInv, DiskInv, ReadableInv
      <3>2. /\ Replayed(base).done = base.done
            /\ Replayed(base).units = base.units \cup {journal[i].unit : i \in Current(base)}
        BY <3>1 DEF Replayed, States
      <3>3. ASSUME base.done PROVE Of("suite", Replayed(base).units) = {}
        <4>1. \A u \in base.units : u.kind # "suite"  BY <3>1, <3>3 DEF Valid, Of
        <4>2. \A i \in Current(base) : journal[i].unit.kind # "suite"
          BY <3>3 DEF Current, CheckpointInv, SharedInv, FitInv
        <4> QED BY <3>2, <4>1, <4>2 DEF Of
      <3> QED BY <2>2, <3>1, <3>2, <3>3 DEF Valid
    <2> QED BY <2>1, <2>2 DEF AlwaysReadable, Replayable
  <1> QED BY <1>1, CheckpointCorrect, PTL

\* With the lock and without it, no result comes back under another catalogue
\* than it was measured for (mutation, applyCheckpointJournal).
THEOREM ReuseSound == Spec => []ReuseIsSound
  <1>1. CheckpointInv => ReuseIsSound
    <2> SUFFICES ASSUME CheckpointInv PROVE ReuseIsSound  OBVIOUS
    <2>1. \A p \in Runs : \A u \in Of("mutant", state[p].units) : <<u.id, state[p].catalog>> \in measured
      BY DEF CheckpointInv, SharedInv, SoundInv, Sound, Of
    <2>2. ASSUME base # None
          PROVE  \A u \in Of("mutant", Replayed(base).units) : <<u.id, Replayed(base).catalog>> \in measured
      <3>1. base \in States  BY <2>2 DEF CheckpointInv, SharedInv, ShapeInv, TypeOK
      <3>2. /\ Replayed(base).catalog = base.catalog
            /\ Replayed(base).units = base.units \cup {journal[i].unit : i \in Current(base)}
        BY <3>1 DEF Replayed, States
      <3> QED BY <2>2, <3>2 DEF CheckpointInv, SharedInv, SoundInv, Sound, Of, Current
    <2> QED BY <2>1, <2>2 DEF ReuseIsSound
  <1> QED BY <1>1, CheckpointCorrect, PTL

-----------------------------------------------------------------------------
(* Repair: a batch is applied whole or undone, and what the user saved stays. *)

\* A set of numbers has a least one.
LEMMA LeastIsThere == ASSUME NEW S, S \subseteq Nat, S /= {} PROVE \E x \in S : \A y \in S : x <= y
<1>1. PICK x \in S : \A y \in S : ~ (<<y, x>> \in OpToRel(<, Nat))
  BY NatLessThanWellFounded, WFMin
<1>2. ASSUME NEW y \in S PROVE x <= y
  <2>1. x \in Nat /\ y \in Nat /\ ~ (<<y, x>> \in OpToRel(<, Nat))
    BY <1>1
  <2>2. y < x => <<y, x>> \in OpToRel(<, Nat)
    BY <2>1 DEF OpToRel
  <2>3. ~(y < x)
    BY <2>1, <2>2, Zenon
  <2>4. x \in Nat /\ y \in Nat
    BY <2>1
  <2> QED BY ONLY <2>3, <2>4
<1> QED BY <1>2

RepairPhases == {"validate", "inspect", "check", "write", "rollback", "restore", "end"}
RepairResults == {"candidate", "rejected", "stored", "artifact", "applied"}

RepairTypes ==
  /\ mode \in {"fix", "run", "dry"} /\ phase \in RepairPhases
  /\ files \in [RepairPaths -> Nat] /\ original \in [RepairPaths -> Nat]
  /\ at \in Candidates /\ todo \subseteq Candidates /\ applied \subseteq todo
  /\ results \in [Candidates -> RepairResults]
  /\ edits \in [RepairPaths -> Seq(UserContent)]

\* The file holds what the user saved last.
SaveKept(p) ==
  /\ edits[p] /= <<>> /\ p \notin slipped
  /\ \A i \in Candidates : Path(i) = p => LastSave(p) \notin {Batch[i].preimage, Batch[i].content}
  => files[p] = LastSave(p)

SavesInv == \A p \in RepairPaths : SaveKept(p)

\* Between a comparison and its write a file that nobody saved is what was compared.
ComparedInv ==
  /\ phase = "write" /\ Path(at) \notin slipped => files[Path(at)] = Batch[at].preimage
  /\ phase = "restore" /\ Path(at) \notin slipped => files[Path(at)] = Batch[at].content

\* A file of the batch that nobody saved holds its candidate or what was there.
AsWritten ==
  \A i \in todo : edits[Path(i)] = <<>> =>
    files[Path(i)] = IF i \in applied THEN Batch[i].content ELSE original[Path(i)]

ApartPaths == \A i, j \in todo : i /= j => Path(i) /= Path(j)

\* A transaction writes its candidates in order and takes them back.
BatchInv ==
  /\ phase \in {"check", "write"} =>
       /\ at \in todo /\ applied = {i \in todo : i < at} /\ ApartPaths /\ AsWritten
       /\ \A i \in applied : results[i] = "applied"
  /\ phase \in {"rollback", "restore"} =>
       /\ ApartPaths /\ (failure = "rollback" \/ AsWritten)
       /\ phase = "restore" => at \in applied
  /\ phase \in {"validate", "inspect"} => applied = {}
  /\ phase = "inspect" => todo /= {}

\* A candidate in a file nobody saved was there before.
LeftAsFound ==
  \A i \in todo :
    files[Path(i)] = Batch[i].content /\ original[Path(i)] /= Batch[i].content => edits[Path(i)] /= <<>>

SettledInv ==
  /\ phase = "validate" => failure = "rollback" \/ LeftAsFound
  /\ phase = "end" => (\A i \in todo : results[i] = "applied") \/ failure = "rollback" \/ LeftAsFound

RepairInv == RepairTypes /\ SavesInv /\ ComparedInv /\ BatchInv /\ SettledInv

LEMMA BatchShape ==
  /\ Candidates \subseteq Nat \ {0} /\ 1 \in Candidates /\ Len(Batch) \in Candidates
  /\ \A i \in Candidates : i < Len(Batch) \/ i /= Len(Batch) => i + 1 \in Candidates
  /\ \A i \in Candidates : /\ Path(i) \in RepairPaths
                           /\ Batch[i].preimage \in Nat /\ Batch[i].content \in Nat
<1> DEFINE Shape == [path : RepairPaths, preimage : Nat, content : Nat \ {0}, passes : Nat]
<1>1. Batch \in Seq(Shape) /\ Batch /= <<>>
  BY RepairAssumption DEF Shape
<1> HIDE DEF Shape
<1>2. Len(Batch) \in Nat /\ Len(Batch) /= 0 /\ \A i \in 1 .. Len(Batch) : Batch[i] \in Shape
  BY <1>1
<1>3. Candidates = 1 .. Len(Batch)
  BY DEF Candidates
<1>4. \A i \in Candidates : Batch[i] \in Shape
  BY <1>2, <1>3
<1>5. \A i \in Candidates : Path(i) \in RepairPaths /\ Batch[i].preimage \in Nat /\ Batch[i].content \in Nat
  BY <1>4 DEF Path, Shape
<1>6. Len(Batch) \in Nat /\ Len(Batch) /= 0
  BY <1>2
<1> QED BY ONLY <1>3, <1>5, <1>6

\* What depends on the files and the saves alone stays where nobody writes.
LEMMA SavesStay ==
  ASSUME SavesInv, UNCHANGED <<files, edits, slipped>>
  PROVE  SavesInv'
  BY DEF SavesInv, SaveKept, LastSave

LEMMA RepairStarted == RepairInit => RepairInv
<1> SUFFICES ASSUME RepairInit PROVE RepairInv
  OBVIOUS
<1>1. PICK f \in [RepairPaths -> Nat] : RepairStart(f)
  BY DEF RepairInit
<1>2. RepairTypes
  BY <1>1, BatchShape, RepairAssumption DEF RepairStart, RepairTypes, RepairPhases, RepairResults
<1>3. SavesInv
  BY <1>1 DEF RepairStart, SavesInv, SaveKept
<1> QED BY <1>1, <1>2, <1>3 DEF RepairStart, RepairInv, ComparedInv, BatchInv, SettledInv, LeftAsFound

\* A transaction ends where nothing of it is left, or all of it.
LEMMA Ends ==
  ASSUME RepairTypes, EndTransaction, results' \in [Candidates -> RepairResults]
  PROVE  /\ phase' \in {"end", "validate"} /\ at' \in Candidates
         /\ results'[at] = "applied" => phase' = "end"
  BY BatchShape DEF RepairTypes, EndTransaction, NextCandidate, RepairPhases

LEMMA ChecksKeep ==
  ASSUME RepairInv, CheckCandidate \/ GenerateRepairs \/ Fix
  PROVE  RepairInv'
<1>1. /\ phase = "validate" /\ applied = {} /\ applied' = {} /\ (failure = "rollback" \/ LeftAsFound)
      /\ UNCHANGED <<mode, files, original, failure, edits, slipped>>
  BY DEF CheckCandidate, GenerateRepairs, Fix, Validated, RepairInv, BatchInv, SettledInv
<1>2. SavesInv'
  BY <1>1, SavesStay DEF RepairInv
<1>3. CASE CheckCandidate
  BY <1>1, <1>2, <1>3 DEF CheckCandidate, RepairInv, RepairTypes, ComparedInv, BatchInv, SettledInv, LeftAsFound
<1>4. CASE GenerateRepairs
  <2>1. /\ phase' \in {"validate", "inspect", "end"} /\ at' \in Candidates
        /\ phase' = "inspect" => todo' = {at}
        /\ phase' /= "inspect" => todo' = todo
        /\ results' \in [Candidates -> RepairResults]
    BY <1>1, <1>4, BatchShape DEF GenerateRepairs, NextCandidate, RepairInv, RepairTypes, RepairResults, RepairPhases
  <2>2. RepairTypes'
    BY <1>1, <2>1 DEF RepairInv, RepairTypes, RepairPhases
  <2>3. phase' /= "inspect" => (failure = "rollback" \/ LeftAsFound')
    BY <1>1, <2>1 DEF LeftAsFound
  <2> QED BY <1>1, <1>2, <2>1, <2>2, <2>3 DEF RepairInv, ComparedInv, BatchInv, SettledInv
<1>5. CASE Fix
  <2>1. /\ phase' \in {"validate", "inspect", "end"} /\ at' \in Candidates
        /\ phase' = "inspect" => todo' = Candidates
        /\ phase' /= "inspect" => todo' = todo
        /\ results' \in [Candidates -> RepairResults]
    BY <1>1, <1>5, BatchShape DEF Fix, RepairInv, RepairTypes, RepairResults, Candidates
  <2>2. RepairTypes'
    BY <1>1, <2>1 DEF RepairInv, RepairTypes, RepairPhases
  <2>3. phase' /= "inspect" => (failure = "rollback" \/ LeftAsFound')
    BY <1>1, <2>1 DEF LeftAsFound
  <2> QED BY <1>1, <1>2, <2>1, <2>2, <2>3, BatchShape DEF RepairInv, ComparedInv, BatchInv, SettledInv
<1> QED BY <1>3, <1>4, <1>5

LEMMA InspectKeeps ==
  ASSUME RepairInv, InspectApplications
  PROVE  RepairInv'
<1>1. /\ phase = "inspect" /\ applied = {} /\ applied' = {} /\ todo /= {} /\ original' = files
      /\ UNCHANGED <<mode, files, todo, failure, edits, slipped>>
  BY DEF InspectApplications, RepairInv, BatchInv
<1>2. SavesInv'
  BY <1>1, SavesStay DEF RepairInv
<1>3. results' \in [Candidates -> RepairResults]
  BY DEF InspectApplications, RepairInv, RepairTypes, RepairResults
<1>4. LeftAsFound' /\ AsWritten'
  BY <1>1 DEF LeftAsFound, AsWritten
<1>5. CASE EndTransaction
  <2>1. phase' \in {"end", "validate"} /\ at' \in Candidates
    BY <1>3, <1>5, Ends DEF RepairInv
  <2>2. RepairTypes'
    BY <1>1, <1>3, <2>1 DEF RepairInv, RepairTypes, RepairPhases
  <2> QED BY <1>1, <1>2, <1>4, <2>1, <2>2 DEF RepairInv, ComparedInv, BatchInv, SettledInv
<1>6. CASE phase' = "check" /\ at' \in After(0, todo) /\ ~(\E i, j \in todo : i /= j /\ Path(i) = Path(j))
  <2>1. at' \in todo /\ \A k \in todo : k > 0 => at' <= k
    BY <1>6 DEF After
  <2>2. {i \in todo : i < at'} = {}
    <3>1. ASSUME NEW i \in todo PROVE ~(i < at')
      <4>1. i \in Nat /\ i > 0 /\ at' \in Nat
        BY <2>1, BatchShape DEF RepairInv, RepairTypes
      <4>2. at' <= i
        BY <2>1, <4>1
      <4> QED BY ONLY <4>1, <4>2
    <3> QED BY <3>1
  <2>3. RepairTypes'
    BY <1>1, <1>3, <1>6, <2>1 DEF RepairInv, RepairTypes, RepairPhases
  <2>4. ApartPaths'
    BY <1>1, <1>6 DEF ApartPaths
  <2> QED BY <1>1, <1>2, <1>4, <1>6, <2>1, <2>2, <2>3, <2>4 DEF RepairInv, ComparedInv, BatchInv, SettledInv
<1> QED BY <1>5, <1>6 DEF InspectApplications

LEMMA CompareKeeps ==
  ASSUME RepairInv, CheckPreimage
  PROVE  RepairInv'
<1>1. /\ phase = "check" /\ UNCHANGED <<mode, files, original, at, todo, applied, edits, slipped>>
      /\ at \in todo /\ applied = {i \in todo : i < at} /\ ApartPaths /\ AsWritten
      /\ \A i \in applied : results[i] = "applied"
  BY DEF CheckPreimage, RepairInv, BatchInv
<1>2. SavesInv'
  BY <1>1, SavesStay DEF RepairInv
<1>3. ApartPaths' /\ AsWritten'
  BY <1>1 DEF ApartPaths, AsWritten
<1>4. CASE phase' = "write" /\ files[Path(at)] = Batch[at].preimage /\ UNCHANGED <<results, failure>>
  <2>1. RepairTypes'
    BY <1>1, <1>4 DEF RepairInv, RepairTypes, RepairPhases
  <2> QED BY <1>1, <1>2, <1>3, <1>4, <2>1 DEF RepairInv, ComparedInv, BatchInv, SettledInv
<1>5. CASE phase' = "rollback" /\ results' = [Unapplied(results) EXCEPT ![at] = "artifact"]
  <2>1. RepairTypes'
    BY <1>1, <1>5 DEF RepairInv, RepairTypes, RepairPhases, RepairResults, Unapplied
  <2> QED BY <1>1, <1>2, <1>3, <1>5, <2>1 DEF RepairInv, ComparedInv, BatchInv, SettledInv
<1> QED BY <1>4, <1>5 DEF CheckPreimage

\* A file that takes what it is given: the saves of others are not disturbed, and
\* one that was compared held what a candidate knows of.
LEMMA PutKeepsSaves ==
  ASSUME RepairInv, NEW i \in Candidates, NEW content,
         files' = [files EXCEPT ![Path(i)] = content], UNCHANGED <<edits, slipped>>,
         Path(i) \notin slipped => files[Path(i)] \in {Batch[i].preimage, Batch[i].content}
  PROVE  SavesInv'
<1> SUFFICES ASSUME NEW p \in RepairPaths, edits[p] /= <<>>, p \notin slipped,
                    \A j \in Candidates : Path(j) = p => LastSave(p) \notin {Batch[j].preimage, Batch[j].content}
             PROVE  files'[p] = LastSave(p)
  BY DEF SavesInv, SaveKept, LastSave
<1>1. files[p] = LastSave(p)
  BY DEF RepairInv, SavesInv, SaveKept
<1>2. p /= Path(i)
  BY <1>1
<1> QED BY <1>1, <1>2, BatchShape DEF RepairInv, RepairTypes

LEMMA WriteKeeps ==
  ASSUME RepairInv, WriteCandidate
  PROVE  RepairInv'
<1>1. /\ phase = "write" /\ UNCHANGED <<mode, original, todo, edits, slipped>>
      /\ at \in todo /\ at \in Candidates /\ applied = {i \in todo : i < at} /\ ApartPaths /\ AsWritten
      /\ \A i \in applied : results[i] = "applied"
  BY DEF WriteCandidate, RepairInv, BatchInv, RepairTypes
<1>2. CASE WriteSucceeds
  <2>1. /\ files' = [files EXCEPT ![Path(at)] = Batch[at].content]
        /\ results' = [results EXCEPT ![at] = "applied"] /\ applied' = applied \cup {at}
    BY <1>2 DEF WriteSucceeds
  <2>2. /\ files' \in [RepairPaths -> Nat] /\ results' \in [Candidates -> RepairResults]
        /\ applied' \subseteq todo' /\ \A i \in applied' : results'[i] = "applied"
    BY <1>1, <2>1, BatchShape DEF RepairInv, RepairTypes, RepairResults
  <2>3. SavesInv'
    <3>1. Path(at) \notin slipped => files[Path(at)] \in {Batch[at].preimage, Batch[at].content}
      BY <1>1 DEF RepairInv, ComparedInv
    <3> QED BY <1>1, <2>1, <3>1, PutKeepsSaves
  <2>4. ApartPaths' /\ AsWritten'
    <3>1. ASSUME NEW i \in todo, edits[Path(i)] = <<>>
          PROVE  files'[Path(i)] = IF i \in applied' THEN Batch[i].content ELSE original[Path(i)]
      <4>1. CASE i = at
        BY <1>1, <2>1, <4>1, BatchShape DEF RepairInv, RepairTypes
      <4>2. CASE i /= at
        <5>1. Path(i) /= Path(at) /\ Path(i) \in RepairPaths /\ Path(at) \in RepairPaths
          BY <1>1, <4>2, BatchShape DEF ApartPaths, RepairInv, RepairTypes
        <5>2. files'[Path(i)] = files[Path(i)] /\ (i \in applied' <=> i \in applied)
          BY <2>1, <4>2, <5>1 DEF RepairInv, RepairTypes
        <5> QED BY <1>1, <3>1, <5>2 DEF AsWritten
      <4> QED BY <4>1, <4>2
    <3>2. AsWritten'
      BY <1>1, <3>1 DEF AsWritten
    <3> QED BY <1>1, <3>2 DEF ApartPaths
  <2>5. CASE After(at, todo) = {} /\ EndTransaction
    <3>1. results'[at] = "applied"
      BY <1>1, <2>1 DEF RepairInv, RepairTypes
    <3>2. phase' = "end" /\ at' \in Candidates
      BY <2>2, <2>5, <3>1, Ends DEF RepairInv
    <3>3. todo = applied'
      <4>1. ASSUME NEW j \in todo PROVE j <= at
        <5>1. todo \subseteq Nat
          BY BatchShape DEF RepairInv, RepairTypes
        <5>2. SUFFICES ASSUME j > at PROVE FALSE
          BY <5>1, <1>1
        <5>3. PICK least \in {k \in todo : k > at} : \A k \in {l \in todo : l > at} : least <= k
          BY <5>1, <5>2, LeastIsThere
        <5>4. least \in After(at, todo)
          BY <5>3 DEF After
        <5> QED BY <2>5, <5>4
      <4>2. ASSUME NEW j \in todo PROVE j = at \/ j \in applied
        <5>1. j \in Nat /\ at \in Nat /\ j <= at
          BY <1>1, <4>1, BatchShape DEF RepairInv, RepairTypes
        <5>2. j = at \/ j < at
          BY ONLY <5>1
        <5> QED BY <1>1, <5>2
      <4> QED BY <1>1, <2>1, <2>2, <4>2
    <3>4. RepairTypes'
      BY <1>1, <2>2, <3>2 DEF RepairInv, RepairTypes, RepairPhases
    <3> QED BY <1>1, <2>2, <2>3, <3>2, <3>3, <3>4 DEF RepairInv, ComparedInv, BatchInv, SettledInv
  <2>6. CASE phase' = "check" /\ at' \in After(at, todo)
    <3>1. at' \in todo /\ at' > at /\ \A k \in todo : k > at => at' <= k
      BY <2>6 DEF After
    <3>2. todo \subseteq Nat
      BY BatchShape DEF RepairInv, RepairTypes
    <3>3. applied' = {i \in todo : i < at'}
      <4>1. ASSUME NEW i \in todo PROVE i \in applied \cup {at} <=> i < at'
        <5>1. i \in Nat /\ at \in Nat /\ at' \in Nat /\ at' > at /\ (i > at => at' <= i)
          BY <1>1, <3>1, <3>2
        <5>2. i <= at <=> i < at'
          BY ONLY <5>1
        <5>3. i <= at <=> i = at \/ i < at
          BY ONLY <5>1
        <5> QED BY <1>1, <5>2, <5>3
      <4>2. applied \cup {at} \subseteq todo
        BY <1>1
      <4> QED BY <2>1, <4>1, <4>2
    <3>4. RepairTypes'
      BY <1>1, <2>2, <2>6, <3>1 DEF RepairInv, RepairTypes, RepairPhases
    <3> QED BY <1>1, <2>2, <2>3, <2>4, <2>6, <3>1, <3>3, <3>4 DEF RepairInv, ComparedInv, BatchInv, SettledInv
  <2> QED BY <1>2, <2>5, <2>6 DEF WriteSucceeds
<1>3. CASE phase' = "rollback" /\ results' = Unapplied(results) /\ UNCHANGED <<files, applied, at>>
  <2>1. RepairTypes'
    BY <1>1, <1>3 DEF RepairInv, RepairTypes, RepairPhases, RepairResults, Unapplied
  <2>2. SavesInv'
    BY <1>1, <1>3, SavesStay DEF RepairInv
  <2>3. ApartPaths' /\ AsWritten'
    BY <1>1, <1>3 DEF ApartPaths, AsWritten
  <2> QED BY <1>1, <1>3, <2>1, <2>2, <2>3 DEF RepairInv, ComparedInv, BatchInv, SettledInv
<1> QED BY <1>2, <1>3 DEF WriteCandidate

LEMMA RollbackKeeps ==
  ASSUME RepairInv, Rollback
  PROVE  RepairInv'
<1>1. /\ phase = "rollback" /\ UNCHANGED <<mode, files, original, todo, results, edits, slipped>>
      /\ ApartPaths /\ (failure = "rollback" \/ AsWritten)
  BY DEF Rollback, RepairInv, BatchInv
<1>2. SavesInv'
  BY <1>1, SavesStay DEF RepairInv
<1>3. ApartPaths'
  BY <1>1 DEF ApartPaths
<1>4. CASE applied = {} /\ EndTransaction /\ UNCHANGED <<applied, failure>>
  <2>1. phase' \in {"end", "validate"} /\ at' \in Candidates
    BY <1>1, <1>4, Ends DEF RepairInv, RepairTypes
  <2>2. RepairTypes'
    BY <1>1, <1>4, <2>1 DEF RepairInv, RepairTypes, RepairPhases
  <2>3. failure' = "rollback" \/ LeftAsFound'
    BY <1>1, <1>4 DEF AsWritten, LeftAsFound
  <2> QED BY <1>1, <1>2, <1>4, <2>1, <2>2, <2>3 DEF RepairInv, ComparedInv, BatchInv, SettledInv
<1>5. CASE \E i \in applied :
             /\ at' = i
             /\ IF files[Path(i)] = Batch[i].content
                THEN phase' = "restore" /\ UNCHANGED <<applied, failure>>
                ELSE applied' = applied \ {i} /\ failure' = "rollback" /\ UNCHANGED phase
  <2>1. PICK i \in applied :
             /\ at' = i
             /\ IF files[Path(i)] = Batch[i].content
                THEN phase' = "restore" /\ UNCHANGED <<applied, failure>>
                ELSE applied' = applied \ {i} /\ failure' = "rollback" /\ UNCHANGED phase
    BY <1>5
  <2>2. CASE files[Path(i)] = Batch[i].content
    <3>1. phase' = "restore" /\ at' \in applied' /\ files'[Path(at')] = Batch[at'].content
          /\ UNCHANGED <<applied, failure>>
      BY <1>1, <2>1, <2>2
    <3>2. RepairTypes'
      BY <1>1, <2>1, <3>1 DEF RepairInv, RepairTypes, RepairPhases
    <3>3. failure' = "rollback" \/ AsWritten'
      BY <1>1, <3>1 DEF AsWritten
    <3>4. ComparedInv'
      BY <3>1 DEF ComparedInv, Path
    <3> QED BY <1>2, <1>3, <3>1, <3>2, <3>3, <3>4 DEF RepairInv, BatchInv, SettledInv
  <2>3. CASE files[Path(i)] /= Batch[i].content
    <3>1. applied' = applied \ {i} /\ failure' = "rollback" /\ phase' = "rollback" /\ at' = i
      BY <1>1, <2>1, <2>3
    <3>2. RepairTypes'
      BY <1>1, <3>1 DEF RepairInv, RepairTypes, RepairPhases
    <3> QED BY <1>2, <1>3, <3>1, <3>2 DEF RepairInv, ComparedInv, BatchInv, SettledInv
  <2> QED BY <2>2, <2>3
<1> QED BY <1>4, <1>5 DEF Rollback

LEMMA RestoreKeeps ==
  ASSUME RepairInv, Restore
  PROVE  RepairInv'
<1>1. /\ phase = "restore" /\ phase' = "rollback" /\ applied' = applied \ {at}
      /\ UNCHANGED <<mode, original, at, todo, results, edits, slipped>>
      /\ ApartPaths /\ (failure = "rollback" \/ AsWritten) /\ at \in applied /\ at \in todo /\ at \in Candidates
  BY DEF Restore, RepairInv, BatchInv, RepairTypes
<1>2. ApartPaths'
  BY <1>1 DEF ApartPaths
<1>3. CASE files' = [files EXCEPT ![Path(at)] = original[Path(at)]] /\ UNCHANGED failure
  <2>1. RepairTypes'
    BY <1>1, <1>3, BatchShape DEF RepairInv, RepairTypes, RepairPhases
  <2>2. SavesInv'
    <3>1. Path(at) \notin slipped => files[Path(at)] \in {Batch[at].preimage, Batch[at].content}
      BY <1>1 DEF RepairInv, ComparedInv
    <3> QED BY <1>1, <1>3, <3>1, PutKeepsSaves
  <2>3. ASSUME AsWritten PROVE AsWritten'
    <3>1. ASSUME NEW i \in todo, edits[Path(i)] = <<>>
          PROVE  files'[Path(i)] = IF i \in applied' THEN Batch[i].content ELSE original[Path(i)]
      <4>1. CASE i = at
        BY <1>1, <1>3, <4>1, BatchShape DEF RepairInv, RepairTypes
      <4>2. CASE i /= at
        <5>1. Path(i) /= Path(at) /\ Path(i) \in RepairPaths /\ Path(at) \in RepairPaths
          BY <1>1, <4>2, BatchShape DEF ApartPaths, RepairInv, RepairTypes
        <5>2. files'[Path(i)] = files[Path(i)] /\ (i \in applied' <=> i \in applied)
          BY <1>1, <1>3, <4>2, <5>1 DEF RepairInv, RepairTypes
        <5> QED BY <2>3, <3>1, <5>2 DEF AsWritten
      <4> QED BY <4>1, <4>2
    <3> QED BY <1>1, <3>1 DEF AsWritten
  <2> QED BY <1>1, <1>2, <1>3, <2>1, <2>2, <2>3 DEF RepairInv, ComparedInv, BatchInv, SettledInv
<1>4. CASE failure' = "rollback" /\ UNCHANGED files
  <2>1. RepairTypes'
    BY <1>1, <1>4 DEF RepairInv, RepairTypes, RepairPhases
  <2>2. SavesInv'
    BY <1>1, <1>4, SavesStay DEF RepairInv
  <2> QED BY <1>1, <1>2, <1>4, <2>1, <2>2 DEF RepairInv, ComparedInv, BatchInv, SettledInv
<1> QED BY <1>3, <1>4 DEF Restore

LEMMA UserKeeps ==
  ASSUME RepairInv, UserSaves
  PROVE  RepairInv'
<1>1. PICK p \in RepairPaths, c \in UserContent :
        /\ files' = [files EXCEPT ![p] = c]
        /\ edits' = [edits EXCEPT ![p] = Append(@, c)]
        /\ slipped' = IF phase \in {"write", "restore"} /\ p = Path(at) THEN slipped \cup {p} ELSE slipped \ {p}
  BY DEF UserSaves
<1>2. phase /= "end" /\ UNCHANGED <<mode, original, phase, at, todo, applied, results, failure>>
  BY DEF UserSaves
<1>3. /\ Append(edits[p], c) \in Seq(UserContent) /\ Append(edits[p], c) /= <<>>
      /\ Append(edits[p], c)[Len(Append(edits[p], c))] = c
  <2>1. PICK s \in Seq(UserContent) : s = edits[p]
    BY DEF RepairInv, RepairTypes
  <2>2. /\ Append(s, c) \in Seq(UserContent) /\ Append(s, c) /= <<>>
        /\ Append(s, c)[Len(Append(s, c))] = c
    BY ONLY <2>1, c \in UserContent
  <2> QED BY <2>1, <2>2
<1>4. /\ files'[p] = c /\ edits'[p] = Append(edits[p], c)
      /\ \A q \in RepairPaths \ {p} : files'[q] = files[q] /\ edits'[q] = edits[q]
  BY <1>1 DEF RepairInv, RepairTypes
<1>5. RepairTypes'
  <2>1. files' \in [RepairPaths -> Nat] /\ edits' \in [RepairPaths -> Seq(UserContent)]
    BY <1>1, <1>3, RepairAssumption DEF RepairInv, RepairTypes
  <2> QED BY <1>2, <2>1 DEF RepairInv, RepairTypes
<1>6. SavesInv'
  <2>1. ASSUME NEW q \in RepairPaths PROVE SaveKept(q)'
    <3>1. CASE q = p
      BY <1>3, <1>4, <3>1 DEF SaveKept, LastSave
    <3>2. CASE q /= p
      <4>1. q \notin slipped' => q \notin slipped
        BY <1>1, <3>2
      <4>2. files'[q] = files[q] /\ edits'[q] = edits[q]
        BY <1>4, <3>2
      <4> QED BY <4>1, <4>2 DEF RepairInv, SavesInv, SaveKept, LastSave
    <3> QED BY <3>1, <3>2
  <2> QED BY <2>1 DEF SavesInv
<1>7. ASSUME phase \in {"write", "restore"}, Path(at) \notin slipped'
      PROVE  files'[Path(at)] = files[Path(at)] /\ Path(at) \notin slipped
  <2>1. Path(at) /= p /\ Path(at) \in RepairPaths
    BY <1>1, <1>7, BatchShape DEF RepairInv, RepairTypes
  <2> QED BY <1>1, <1>4, <1>7, <2>1
<1>8. ComparedInv'
  BY <1>2, <1>7 DEF RepairInv, ComparedInv, Path
<1>9. /\ ApartPaths => ApartPaths'
      /\ AsWritten => AsWritten'
      /\ LeftAsFound => LeftAsFound'
  <2>1. ASSUME NEW i \in todo
        PROVE  edits'[Path(i)] = <<>> => edits[Path(i)] = <<>> /\ files'[Path(i)] = files[Path(i)]
    <3>1. Path(i) \in RepairPaths
      BY BatchShape DEF RepairInv, RepairTypes
    <3> QED BY <1>3, <1>4, <3>1
  <2> QED BY <1>2, <2>1 DEF ApartPaths, AsWritten, LeftAsFound
<1> QED BY <1>2, <1>5, <1>6, <1>8, <1>9 DEF RepairInv, BatchInv, SettledInv

\* Whatever the user saves meanwhile, a batch of repairs is applied whole or
\* undone, and what the user saved last stays, for any batch, any files and any
\* number of saves (ApplyCandidates, rollbackApplications).
THEOREM RepairsWhole == RepairSpec => []RepairsAreAllOrNothing
<1>1. RepairInv /\ [RepairNext]_repairVars => RepairInv'
  <2> SUFFICES ASSUME RepairInv, [RepairNext]_repairVars PROVE RepairInv'
    OBVIOUS
  <2>1. CASE UNCHANGED repairVars
    BY <2>1 DEF repairVars, RepairInv, RepairTypes, SavesInv, SaveKept, LastSave, ComparedInv, BatchInv, ApartPaths,
                AsWritten, SettledInv, LeftAsFound, Path
  <2>2. CASE RepairNext
    BY <2>2, ChecksKeep, InspectKeeps, CompareKeeps, WriteKeeps, RollbackKeeps, RestoreKeeps, UserKeeps DEF RepairNext
  <2> QED BY <2>1, <2>2
<1>2. RepairInv => RepairsAreAllOrNothing
  BY DEF RepairInv, SavesInv, SaveKept, SettledInv, LeftAsFound, RepairsAreAllOrNothing
<1> QED BY <1>1, <1>2, RepairStarted, PTL DEF RepairSpec

-----------------------------------------------------------------------------
(* Round: what a run opens it gives back, and what it files it measured. *)

AloneSteps == {"inspect", "inputs", "cache", "discover", "impact", "resources"}
PreparingSteps == {"baseline", "settle", "settle failed", "settle findings"}
LaterSteps == {"graph", "race", "probe", "mutation", "repair"}

\* What is open at each step; the build cache may be, wherever the scratch is.
HeldInv ==
  /\ step \in {"arguments", "scratch", "end"} => held = {}
  /\ step \in {"snapshot", "compare"} => held \ {"cache"} = {"scratch"}
  /\ step \in AloneSteps => held \ {"cache"} = {"scratch", "workspace"}
  /\ step \in {"baseline scratch"} \cup LaterSteps => held \ {"cache"} = {"scratch", "workspace", "resources"}
  /\ step \in PreparingSteps => held \ {"cache"} = {"scratch", "workspace", "resources", "baseline"}

\* The preparation is over before the run leaves the steps it works in.
PreparingInv ==
  /\ preparing \in {"none", "running", "ended"}
  /\ preparing /= "none" => step \in PreparingSteps
  /\ reply /= "none" <=> step = "end"

\* The evidence of a round rests on contents between the copy and the live one.
ReadInv ==
  /\ live \in Nat /\ copy \in Nat /\ copy <= live
  /\ \A n \in read : n \in Nat /\ copy <= n /\ n <= live
  /\ step \notin {"arguments", "scratch", "snapshot", "end"} => copy \in read

RoundSteps ==
  {"arguments", "scratch", "snapshot", "compare", "end", "baseline scratch"}
    \cup AloneSteps \cup PreparingSteps \cup LaterSteps

RoundInv == step \in RoundSteps /\ HeldInv /\ PreparingInv /\ ReadInv /\ FiledIsMeasured

LEMMA RoundStarted == RoundInit => RoundInv
  BY DEF RoundInit, RoundInv, RoundSteps, HeldInv, PreparingInv, ReadInv, FiledIsMeasured,
         AloneSteps, PreparingSteps, LaterSteps

\* At every step of the run what is open is what the next step expects, and the
\* preparation is over where it must be.
LEMMA StepsHold ==
  ASSUME RoundInv, RoundNext
  PROVE  step' \in RoundSteps /\ HeldInv' /\ PreparingInv'
<1> USE DEF RoundSteps, HeldInv, PreparingInv, AloneSteps, PreparingSteps, LaterSteps, Going, RoundAt,
            GoesTo, Returns, CloseWorkspace, CloseRound
<1> USE DEF RoundInv
<1>1. CASE Arguments  BY <1>1 DEF Arguments
<1>2. CASE OpenScratch  BY <1>2 DEF OpenScratch
<1>3. CASE OpenWorkspace  BY <1>3 DEF OpenWorkspace
<1>4. CASE InspectWorkspace  BY <1>4 DEF InspectWorkspace
<1>5. CASE AssuranceInputs  BY <1>5 DEF AssuranceInputs
<1>6. CASE CacheCheck  BY <1>6 DEF CacheCheck
<1>7. CASE DiscoverTargets  BY <1>7 DEF DiscoverTargets
<1>8. CASE SelectImpact  BY <1>8 DEF SelectImpact
<1>9. CASE AcquireResources  BY <1>9 DEF AcquireResources
<1>10. CASE StartPreparation  BY <1>10 DEF StartPreparation
<1>11. CASE CollectBaseline  BY <1>11 DEF CollectBaseline
<1>12. CASE SettlePreparation  BY <1>12 DEF SettlePreparation
<1>13. CASE SaveGraph  BY <1>13 DEF SaveGraph
<1>14. CASE CollectRace  BY <1>14 DEF CollectRace
<1>15. CASE ProbeTargets  BY <1>15 DEF ProbeTargets
<1>16. CASE EvaluateMutants  BY <1>16 DEF EvaluateMutants
<1>17. CASE AttemptRepairs  BY <1>17 DEF AttemptRepairs
<1>18. CASE CompareDigest  BY <1>18 DEF CompareDigest
<1>19. CASE PreparationEnds  BY <1>19 DEF PreparationEnds
<1>20. CASE UserEdits  BY <1>20 DEF UserEdits
<1> QED
  BY RoundNext, <1>1, <1>2, <1>3, <1>4, <1>5, <1>6, <1>7, <1>8, <1>9, <1>10,
     <1>11, <1>12, <1>13, <1>14, <1>15, <1>16, <1>17, <1>18, <1>19, <1>20
     DEF RoundNext, RoundStep

\* What the round rests on is read between its copy and the live tree.
LEMMA EvidenceKept == ASSUME RoundInv, RoundNext PROVE ReadInv'
<1> USE DEF RoundInv, ReadInv, RoundSteps, AloneSteps, PreparingSteps, LaterSteps, PreparingInv, Going, RoundAt,
            GoesTo, Returns
<1>1. CASE Arguments  BY <1>1 DEF Arguments
<1>2. CASE OpenScratch  BY <1>2 DEF OpenScratch
<1>3. CASE OpenWorkspace  BY <1>3 DEF OpenWorkspace
<1>4. CASE InspectWorkspace  BY <1>4 DEF InspectWorkspace
<1>5. CASE AssuranceInputs  BY <1>5 DEF AssuranceInputs
<1>6. CASE CacheCheck  BY <1>6 DEF CacheCheck
<1>7. CASE DiscoverTargets  BY <1>7 DEF DiscoverTargets
<1>8. CASE SelectImpact
  <2>1. /\ live \in Nat /\ live' = live /\ copy' = copy /\ read' \subseteq read \cup {live} /\ copy \in read
        /\ read' = read \cup {live} \/ read' = read
    BY <1>8 DEF SelectImpact
  <2>2. copy <= live /\ \A n \in read : n \in Nat /\ copy <= n /\ n <= live
    OBVIOUS
  <2>3. \A n \in read' : n \in Nat /\ copy <= n /\ n <= live
    BY ONLY <2>1, <2>2
  <2> QED BY <2>1, <2>3
<1>9. CASE AcquireResources  BY <1>9 DEF AcquireResources
<1>10. CASE StartPreparation  BY <1>10 DEF StartPreparation
<1>11. CASE CollectBaseline  BY <1>11 DEF CollectBaseline
<1>12. CASE SettlePreparation  BY <1>12 DEF SettlePreparation
<1>13. CASE SaveGraph  BY <1>13 DEF SaveGraph
<1>14. CASE CollectRace  BY <1>14 DEF CollectRace
<1>15. CASE ProbeTargets  BY <1>15 DEF ProbeTargets
<1>16. CASE EvaluateMutants  BY <1>16 DEF EvaluateMutants
<1>17. CASE AttemptRepairs  BY <1>17 DEF AttemptRepairs
<1>18. CASE CompareDigest  BY <1>18 DEF CompareDigest
<1>19. CASE PreparationEnds  BY <1>19 DEF PreparationEnds
<1>20. CASE UserEdits
  <2>1. live' = live + 1 /\ UNCHANGED <<copy, read, step>>
    BY <1>20 DEF UserEdits
  <2>2. live \in Nat /\ copy \in Nat /\ copy <= live /\ \A n \in read : n \in Nat /\ copy <= n /\ n <= live
    OBVIOUS
  <2>3. live + 1 \in Nat /\ \A n \in Nat : n <= live => n <= live + 1
    BY ONLY <2>2
  <2>4. \A n \in read : n \in Nat /\ copy <= n /\ n <= live + 1
    BY ONLY <2>2, <2>3
  <2>5. step \notin {"arguments", "scratch", "snapshot", "end"} => copy \in read
    OBVIOUS
  <2> QED BY ONLY <2>1, <2>2, <2>3, <2>4, <2>5
<1> QED
  BY RoundNext, <1>1, <1>2, <1>3, <1>4, <1>5, <1>6, <1>7, <1>8, <1>9, <1>10,
     <1>11, <1>12, <1>13, <1>14, <1>15, <1>16, <1>17, <1>18, <1>19, <1>20
     DEF RoundNext, RoundStep

\* A full report is filed at the end alone, by which the copy and the live tree
\* are one, so that nothing else was read.
LEMMA FiledKept == ASSUME RoundInv, RoundNext PROVE FiledIsMeasured'
<1>1. CASE SelectImpact
  <2>1. filed' = filed \/ filed' = filed \cup {FiledReport("empty changeset")}
    BY <1>1 DEF SelectImpact
  <2>2. FiledReport("empty changeset").kind = "empty changeset"
    BY DEF FiledReport
  <2> QED BY <2>1, <2>2 DEF RoundInv, FiledIsMeasured
<1>2. CASE CompareDigest
  <2>1. ASSUME NEW r \in filed', r \notin filed, ~r.slipped
        PROVE  r.read = {r.digest}
    <3>1. PICK verdict \in {"assured", "insufficient"} : r = FiledReport(verdict)
      BY <1>2, <2>1 DEF CompareDigest
    <3>2. digest = live /\ read' = read /\ step = "compare"
      BY <1>2, <2>1 DEF CompareDigest, RoundAt
    <3>3. copy = live /\ r.read = read /\ r.digest = live
      BY <2>1, <3>1, <3>2 DEF FiledReport
    <3>4. \A n \in read : n = live
      BY <3>3 DEF RoundInv, ReadInv
    <3>5. live \in read
      BY <3>2, <3>3 DEF RoundInv, ReadInv
    <3> QED BY <3>3, <3>4, <3>5
  <2> QED BY <2>1 DEF RoundInv, FiledIsMeasured
<1>3. CASE UNCHANGED filed
  BY <1>3 DEF RoundInv, FiledIsMeasured
<1>4. SelectImpact \/ CompareDigest \/ UNCHANGED filed
  BY DEF RoundNext, RoundStep, Arguments, OpenScratch, OpenWorkspace, InspectWorkspace, AssuranceInputs,
         CacheCheck, DiscoverTargets, AcquireResources, StartPreparation,
         CollectBaseline, SettlePreparation, SaveGraph, CollectRace, ProbeTargets, EvaluateMutants,
         AttemptRepairs, PreparationEnds, UserEdits
<1> QED BY <1>1, <1>2, <1>3, <1>4

\* Whatever ends a run, nothing it opened stays open, and a full report in the
\* exact cache is about the content its digest names, for any number of rounds,
\* any options and any edits of the user (run.go's round and its deferred calls).
THEOREM RoundOrderly == RoundSpec => []RoundIsOrderly
<1>1. RoundInv /\ [RoundNext]_roundVars => RoundInv'
  <2>1. CASE UNCHANGED roundVars
    BY <2>1 DEF roundVars, RoundInv, RoundSteps, HeldInv, PreparingInv, ReadInv, FiledIsMeasured
  <2>2. ASSUME RoundInv, RoundNext PROVE RoundInv'
    BY <2>2, StepsHold, EvidenceKept, FiledKept DEF RoundInv
  <2> QED BY <2>1, <2>2
<1>2. RoundInv => RoundIsOrderly
  BY DEF RoundInv, HeldInv, PreparingInv, PreparingSteps, RoundIsOrderly, GivenBackInOrder, FiledIsMeasured,
         AloneSteps, LaterSteps, RoundSteps
<1> QED BY <1>1, <1>2, RoundStarted, PTL DEF RoundSpec

-----------------------------------------------------------------------------
(* SessionCalls: what calls leave behind, and what a probe pass answers. *)

CallSteps == {"idle", "scratch", "args", "copy", "run", "ran", "capture", "leaving", "returned"}
BusySteps == {"args", "copy", "run", "ran", "capture", "leaving"}
Inputs == SessionCallers \cup {Seed}

\* Every answer a call can give; an inconsistent probe pass is none of them.
CallAnswers ==
  {"none", "closed", "not prepared", "negative", "not found", "rejected", "package", "environment", "scratch",
   "reserved", "workspace", "artifacts", "result", "failed", "cancelled"}

Calls ==
  [at : CallSteps, request : SessionRequests \cup {"none"}, copy : SUBSET Inputs, raw : SUBSET SessionMutants,
   artifacts : SUBSET Inputs, answer : CallAnswers, infected : SUBSET SessionMutants]

CallTypes ==
  /\ build \in SessionBuilds /\ mainTree \subseteq Inputs
  /\ scratches \subseteq SessionCallers /\ keptScratch \subseteq SessionCallers
  /\ call \in [SessionCallers -> Calls]

\* A call's scratch is there while it works, and after it only if it was kept.
ScratchOf(c) ==
  /\ call[c].at \in {"idle", "scratch"} => c \notin scratches /\ c \notin keptScratch
  /\ call[c].at \in BusySteps => c \in scratches
  /\ call[c].at \in {"args", "copy", "run", "ran"} => c \notin keptScratch
  /\ call[c].at = "returned" => (c \in scratches <=> c \in keptScratch)
  /\ c \in keptScratch => build.keep

\* A fuzz target of Exec or Control that runs has its own copy of the tree.
CopyOf(c) ==
  /\ c \in mainTree => call[c].at \notin {"idle", "scratch"} /\ "fuzz" \notin call[c].request.args
  /\ call[c].at = "run" /\ "fuzz" \in call[c].request.args /\ call[c].request.kind # "probe" => call[c].copy # NoCopy

\* What a probe pass logs its own binary can report.
ProbeOf(c) ==
  /\ call[c].raw \subseteq build.survived \cap build.hinted
  /\ call[c].at \notin {"ran", "capture", "leaving", "returned"} => call[c].raw = {}
  /\ call[c].request.kind # "probe" => call[c].raw = {}
  /\ call[c].at \notin {"leaving", "returned"} => call[c].infected = {} /\ call[c].answer = "none"
  /\ call[c].answer = "result" => call[c].infected = call[c].raw \cap build.accepted

CallsInv == CallTypes /\ \A c \in SessionCallers : ScratchOf(c) /\ CopyOf(c) /\ ProbeOf(c)

LEMMA CallsStarted == SessionCallsInit(SessionBuilds) => CallsInv
  BY SeedAssumption DEF SessionCallsInit, SessionBuilds, NotCalled, NoCopy, CallsInv, CallTypes, Calls, CallSteps, CallAnswers,
     BusySteps, Inputs, ScratchOf, CopyOf, ProbeOf, Fuzzes

LEMMA Refusals ==
  ASSUME NEW r
  PROVE  Refusal(r) \in {"none", "closed", "not prepared", "negative", "not found", "rejected", "package", "environment"}
  BY DEF Refusal

\* What a call does is its own: it moves one caller, and the others' scratch stays.
LEMMA OneCallMoves ==
  ASSUME CallsInv, NEW c \in SessionCallers, UNCHANGED build, mainTree' \subseteq mainTree \cup {c},
         NEW n \in Calls, call' = [call EXCEPT ![c] = n],
         scratches' \subseteq scratches \cup {c}, scratches \subseteq scratches' \cup {c},
         keptScratch' \subseteq keptScratch \cup {c}, keptScratch \subseteq keptScratch' \cup {c},
         ScratchOf(c)', CopyOf(c)', ProbeOf(c)'
  PROVE  CallsInv'
<1>0. scratches' \subseteq SessionCallers /\ keptScratch' \subseteq SessionCallers
  BY DEF CallsInv, CallTypes
<1>1. call' \in [SessionCallers -> Calls] /\ \A d \in SessionCallers \ {c} : call'[d] = call[d]
  BY DEF CallsInv, CallTypes
<1>2. CallTypes'
  BY <1>0, <1>1 DEF CallsInv, CallTypes, Inputs
<1>3. ASSUME NEW d \in SessionCallers PROVE (ScratchOf(d) /\ CopyOf(d) /\ ProbeOf(d))'
  <2>1. CASE d = c  BY <2>1
  <2>2. CASE d # c
    <3>1. call'[d] = call[d] /\ (d \in mainTree' => d \in mainTree)  BY <1>1, <2>2
    <3>2. ScratchOf(d) /\ CopyOf(d) /\ ProbeOf(d)  BY DEF CallsInv
    <3>3. ScratchOf(d)'  BY <2>2, <3>1, <3>2 DEF ScratchOf
    <3>4. CopyOf(d)'  BY <3>1, <3>2 DEF CopyOf
    <3>5. ProbeOf(d)'  BY <3>1, <3>2 DEF ProbeOf
    <3> QED BY <3>3, <3>4, <3>5
  <2> QED BY <2>1, <2>2
<1> QED BY <1>2, <1>3 DEF CallsInv

\* A call that returns takes its scratch along, unless it was kept.
LEMMA LeavingKeeps ==
  ASSUME CallsInv, NEW c \in SessionCallers, NEW answer \in CallAnswers, Leave(c, answer),
         UNCHANGED <<build, mainTree, keptScratch>>,
         call[c].at \in {"scratch", "args", "copy", "capture", "leaving"},
         answer = "result" => call[c].answer = "result"
  PROVE  CallsInv'
<1> DEFINE n == [call[c] EXCEPT !.at = "returned", !.answer = answer]
<1>1. call[c] \in Calls /\ ScratchOf(c) /\ CopyOf(c) /\ ProbeOf(c)  BY DEF CallsInv, CallTypes
<1>2. n \in Calls /\ call' = [call EXCEPT ![c] = n]  BY <1>1 DEF Calls, CallSteps, Leave
<1>3. call'[c] = n  BY <1>2 DEF CallsInv, CallTypes
<1>4. /\ n.at = "returned" /\ n.answer = answer
      /\ n.request = call[c].request /\ n.raw = call[c].raw /\ n.infected = call[c].infected
  BY <1>1 DEF Calls
<1> HIDE DEF n
<1>5. ScratchOf(c)'  BY <1>1, <1>3, <1>4 DEF ScratchOf, Leave, BusySteps
<1>6. CopyOf(c)'  BY <1>1, <1>3, <1>4 DEF CopyOf
<1>7. ProbeOf(c)'  BY <1>1, <1>3, <1>4 DEF ProbeOf
<1>8. mainTree' \subseteq mainTree \cup {c}  OBVIOUS
<1>9. scratches' \subseteq scratches \cup {c} /\ scratches \subseteq scratches' \cup {c}
  BY DEF Leave
<1> QED BY <1>2, <1>5, <1>6, <1>7, <1>8, <1>9, OneCallMoves

LEMMA EntersKeeps == ASSUME CallsInv, NEW c \in SessionCallers, Enters(c) PROVE CallsInv'
<1>1. PICK r \in SessionRequests :
        call' = [call EXCEPT ![c].request = r, ![c].at = IF Refusal(r) = "none" THEN "scratch" ELSE "returned",
                             ![c].answer = IF Refusal(r) = "none" THEN "none" ELSE Refusal(r)]
  BY DEF Enters
<1> DEFINE n == [call[c] EXCEPT !.request = r, !.at = IF Refusal(r) = "none" THEN "scratch" ELSE "returned",
                                !.answer = IF Refusal(r) = "none" THEN "none" ELSE Refusal(r)]
<1>2. call[c] \in Calls /\ ScratchOf(c) /\ CopyOf(c) /\ ProbeOf(c) /\ call[c].at = "idle"
  BY DEF CallsInv, CallTypes, Enters
<1>3. UNCHANGED <<build, mainTree, scratches, keptScratch>>  BY DEF Enters, Shared
<1>4. n \in Calls /\ call' = [call EXCEPT ![c] = n]
  BY <1>1, <1>2, Refusals DEF Calls, CallSteps, CallAnswers
<1>5. call'[c] = n  BY <1>4 DEF CallsInv, CallTypes
<1>6. /\ n.at \in {"scratch", "returned"} /\ (n.at = "scratch" => n.answer = "none") /\ n.answer # "result"
      /\ n.raw = call[c].raw /\ n.infected = call[c].infected
  BY <1>2, Refusals DEF Calls
<1> HIDE DEF n
<1>7. ScratchOf(c)'  BY <1>2, <1>3, <1>5, <1>6 DEF ScratchOf, BusySteps
<1>8. CopyOf(c)'  BY <1>2, <1>3, <1>5, <1>6 DEF CopyOf
<1>9. ProbeOf(c)'  BY <1>2, <1>3, <1>5, <1>6 DEF ProbeOf
<1> QED BY <1>3, <1>4, <1>7, <1>8, <1>9, OneCallMoves

LEMMA MakeScratchKeeps == ASSUME CallsInv, NEW c \in SessionCallers, MakeScratch(c) PROVE CallsInv'
<1>1. CASE Leave(c, "scratch")
  BY <1>1, LeavingKeeps DEF MakeScratch, Shared, CallAnswers
<1>2. CASE call' = [call EXCEPT ![c].at = "args"] /\ scratches' = scratches \cup {c}
  <2> DEFINE n == [call[c] EXCEPT !.at = "args"]
  <2>1. call[c] \in Calls /\ ScratchOf(c) /\ CopyOf(c) /\ ProbeOf(c) /\ call[c].at = "scratch"
    BY DEF CallsInv, CallTypes, MakeScratch
  <2>2. UNCHANGED <<build, mainTree, keptScratch>>  BY DEF MakeScratch, Shared
  <2>3. n \in Calls /\ call' = [call EXCEPT ![c] = n]  BY <1>2, <2>1 DEF Calls, CallSteps
  <2>4. call'[c] = n  BY <2>3 DEF CallsInv, CallTypes
  <2>5. /\ n.at = "args" /\ n.request = call[c].request /\ n.raw = call[c].raw
        /\ n.infected = call[c].infected /\ n.answer = call[c].answer
    BY <2>1 DEF Calls
  <2> HIDE DEF n
  <2>6. ScratchOf(c)'  BY <1>2, <2>1, <2>2, <2>4, <2>5 DEF ScratchOf, BusySteps
  <2>7. CopyOf(c)'  BY <2>1, <2>2, <2>4, <2>5 DEF CopyOf
  <2>8. ProbeOf(c)'  BY <2>1, <2>2, <2>4, <2>5 DEF ProbeOf
  <2> QED BY <1>2, <2>2, <2>3, <2>6, <2>7, <2>8, OneCallMoves
<1> QED BY <1>1, <1>2 DEF MakeScratch

\* The steps of a call between the making of its scratch and its return.
LEMMA WorkKeeps ==
  ASSUME CallsInv, NEW c \in SessionCallers, UNCHANGED <<build, mainTree, scratches, keptScratch>>,
         NEW n \in Calls, call' = [call EXCEPT ![c] = n],
         call[c].at \in BusySteps, n.at \in BusySteps, n.request = call[c].request,
         n.at \in {"args", "copy", "run", "ran"} => call[c].at \in {"args", "copy", "run", "ran"},
         n.at = "run" /\ "fuzz" \in n.request.args /\ n.request.kind # "probe" => n.copy # NoCopy,
         ProbeOf(c)'
  PROVE  CallsInv'
<1>1. ScratchOf(c) /\ CopyOf(c) /\ call'[c] = n  BY DEF CallsInv, CallTypes
<1>2. ScratchOf(c)'  BY <1>1 DEF ScratchOf, BusySteps
<1>3. CopyOf(c)'  BY <1>1 DEF CopyOf, BusySteps
<1>4. mainTree' \subseteq mainTree \cup {c}  OBVIOUS
<1> QED BY <1>2, <1>3, <1>4, OneCallMoves

LEMMA SettleKeeps == ASSUME CallsInv, NEW c \in SessionCallers, Settle(c) PROVE CallsInv'
<1> DEFINE r == call[c].request
           next == IF "fuzz" \in r.args /\ r.kind # "probe" THEN "copy" ELSE "run"
           n == [call[c] EXCEPT !.at = next]
<1>1. /\ call[c] \in Calls /\ ProbeOf(c) /\ call[c].at = "args"
      /\ UNCHANGED <<build, mainTree, keptScratch>>
  BY DEF CallsInv, CallTypes, Settle, Shared
<1>2. CASE Leave(c, "reserved")
  BY <1>1, <1>2, LeavingKeeps DEF CallAnswers
<1>3. CASE call' = [call EXCEPT ![c].at = next] /\ UNCHANGED scratches
  <2>1. n \in Calls /\ call' = [call EXCEPT ![c] = n]  BY <1>1, <1>3 DEF Calls, CallSteps
  <2>2. call'[c] = n  BY <2>1 DEF CallsInv, CallTypes
  <2>3. /\ n.at = next /\ n.request = r /\ n.raw = call[c].raw
        /\ n.infected = call[c].infected /\ n.answer = call[c].answer
    BY <1>1 DEF Calls
  <2>4. ProbeOf(c)'  BY <1>1, <2>2, <2>3 DEF ProbeOf
  <2>5. n.at \in {"copy", "run"} /\ (n.at = "run" => ~ ("fuzz" \in r.args /\ r.kind # "probe"))
    BY <2>3
  <2> HIDE DEF n, next
  <2> QED BY <1>1, <1>3, <2>1, <2>3, <2>4, <2>5, WorkKeeps DEF BusySteps
<1> QED BY <1>2, <1>3 DEF Settle, Fuzzes

LEMMA CopyTreeKeeps == ASSUME CallsInv, NEW c \in SessionCallers, CopyTree(c) PROVE CallsInv'
<1>1. /\ call[c] \in Calls /\ ProbeOf(c) /\ call[c].at = "copy"
      /\ UNCHANGED <<build, mainTree, keptScratch>> /\ mainTree \subseteq Inputs
  BY DEF CallsInv, CallTypes, CopyTree, Shared
<1>2. CASE Leave(c, "workspace")
  BY <1>1, <1>2, LeavingKeeps DEF CallAnswers
<1>3. ASSUME NEW tree \in SUBSET mainTree, Seed \in tree, UNCHANGED scratches,
             call' = [call EXCEPT ![c].copy = tree, ![c].at = "run"]
      PROVE  CallsInv'
  <2> DEFINE n == [call[c] EXCEPT !.copy = tree, !.at = "run"]
  <2>1. n \in Calls /\ call' = [call EXCEPT ![c] = n]  BY <1>1, <1>3 DEF Calls, CallSteps
  <2>2. call'[c] = n  BY <2>1 DEF CallsInv, CallTypes
  <2>3. /\ n.at = "run" /\ n.copy # NoCopy /\ n.request = call[c].request /\ n.raw = call[c].raw
        /\ n.infected = call[c].infected /\ n.answer = call[c].answer
    BY <1>1, <1>3 DEF Calls, NoCopy
  <2> HIDE DEF n
  <2>4. ProbeOf(c)'  BY <1>1, <2>2, <2>3 DEF ProbeOf
  <2> QED BY <1>1, <1>3, <2>1, <2>3, <2>4, WorkKeeps DEF BusySteps
<1> QED BY <1>2, <1>3 DEF CopyTree

LEMMA AnswersKeeps == ASSUME CallsInv, NEW c \in SessionCallers, Answers(c) PROVE CallsInv'
<1> DEFINE many == Cardinality(Captured(c)) > MaxArtifacts
           n == [call[c] EXCEPT !.at = "leaving", !.artifacts = IF many THEN {} ELSE Captured(c),
                                !.answer = IF many THEN "artifacts" ELSE "result"]
<1>1. /\ call[c] \in Calls /\ ProbeOf(c) /\ call[c].at = "capture" /\ call[c].request.kind # "probe"
      /\ UNCHANGED <<build, mainTree, scratches, keptScratch>>
      /\ call' = [call EXCEPT ![c].at = "leaving", ![c].artifacts = IF many THEN {} ELSE Captured(c),
                              ![c].answer = IF many THEN "artifacts" ELSE "result"]
  BY DEF CallsInv, CallTypes, Answers, Shared
<1>2. Captured(c) \subseteq Inputs  BY <1>1 DEF Captured, Calls
<1> HIDE DEF many
<1>3. n \in Calls /\ call' = [call EXCEPT ![c] = n]  BY <1>1, <1>2 DEF Calls, CallSteps, CallAnswers
<1>4. call'[c] = n  BY <1>3 DEF CallsInv, CallTypes
<1>5. /\ n.at = "leaving" /\ n.request = call[c].request /\ n.raw = call[c].raw
      /\ n.infected = call[c].infected
  BY <1>1 DEF Calls
<1> HIDE DEF n
<1>6. ProbeOf(c)'  BY <1>1, <1>4, <1>5 DEF ProbeOf
<1> QED BY <1>1, <1>3, <1>5, <1>6, WorkKeeps DEF BusySteps

LEMMA ProbeAnswersKeeps == ASSUME CallsInv, NEW c \in SessionCallers, ProbeAnswers(c) PROVE CallsInv'
<1> DEFINE raw == call[c].raw
           infected == raw \cap build.accepted
           n == [call[c] EXCEPT !.at = "leaving", !.answer = "result", !.infected = infected]
<1>1. /\ call[c] \in Calls /\ ProbeOf(c) /\ call[c].at = "capture" /\ build \in SessionBuilds
      /\ UNCHANGED <<build, mainTree, scratches, keptScratch>>
  BY DEF CallsInv, CallTypes, ProbeAnswers, Shared
<1>2. raw \subseteq SessionMutants /\ infected \subseteq ProbedMutants /\ infected \subseteq SessionMutants
  BY <1>1 DEF Calls, ProbeOf, ProbedMutants
<1>3. call' = [call EXCEPT ![c].at = "leaving", ![c].answer = "result", ![c].infected = infected]
  BY <1>2 DEF ProbeAnswers
<1>4. n \in Calls /\ call' = [call EXCEPT ![c] = n]  BY <1>1, <1>2, <1>3 DEF Calls, CallSteps, CallAnswers
<1>5. call'[c] = n  BY <1>4 DEF CallsInv, CallTypes
<1>6. n.at = "leaving" /\ n.request = call[c].request /\ n.raw = raw /\ n.infected = infected  BY <1>1 DEF Calls
<1> HIDE DEF n
<1>7. ProbeOf(c)'  BY <1>1, <1>5, <1>6 DEF ProbeOf
<1> QED BY <1>1, <1>4, <1>6, <1>7, WorkKeeps DEF BusySteps

LEMMA LeavesKeeps == ASSUME CallsInv, NEW c \in SessionCallers, Leaves(c) PROVE CallsInv'
<1>1. PICK answer \in (IF call[c].at = "leaving" THEN {call[c].answer} ELSE {}) \cup {"failed", "cancelled"} :
        Leave(c, answer)
  BY DEF Leaves
<1>2. /\ call[c] \in Calls /\ call[c].at \in {"capture", "leaving"} /\ UNCHANGED <<build, mainTree, keptScratch>>
  BY DEF CallsInv, CallTypes, Leaves, Shared
<1>3. answer \in CallAnswers /\ (answer = "result" => call[c].answer = "result")
  BY <1>1, <1>2 DEF Calls, CallAnswers
<1> QED BY <1>1, <1>2, <1>3, LeavingKeeps

LEMMA ExecutesKeeps == ASSUME CallsInv, NEW c \in SessionCallers, Executes(c) PROVE CallsInv'
<1> DEFINE r == call[c].request
<1>1. PICK w \in {{}, {c}}, raw \in IF r.kind = "probe" THEN SUBSET (build.survived \cap build.hinted) ELSE {{}} :
        /\ call' = [call EXCEPT ![c].at = "ran", ![c].raw = raw,
                                ![c].copy = IF @ = NoCopy THEN @ ELSE @ \cup w]
        /\ mainTree' = IF r.kind # "probe" /\ call[c].copy = NoCopy THEN mainTree \cup w ELSE mainTree
  BY DEF Executes
<1> DEFINE n == [call[c] EXCEPT !.at = "ran", !.raw = raw, !.copy = IF @ = NoCopy THEN @ ELSE @ \cup w]
<1>2. /\ call[c] \in Calls /\ ScratchOf(c) /\ CopyOf(c) /\ ProbeOf(c) /\ call[c].at = "run" /\ build \in SessionBuilds
      /\ UNCHANGED <<build, scratches, keptScratch>>
  BY DEF CallsInv, CallTypes, Executes
<1>3. w \subseteq Inputs /\ raw \subseteq SessionMutants /\ raw \subseteq build.survived \cap build.hinted
  BY <1>2 DEF Inputs, SessionBuilds
<1>4. n \in Calls /\ call' = [call EXCEPT ![c] = n]  BY <1>1, <1>2, <1>3 DEF Calls, CallSteps
<1>5. call'[c] = n  BY <1>4 DEF CallsInv, CallTypes
<1>6. /\ n.at = "ran" /\ n.request = r /\ n.raw = raw
      /\ n.infected = call[c].infected /\ n.answer = call[c].answer
  BY <1>2 DEF Calls
<1> HIDE DEF n
<1>7. ScratchOf(c)'  BY <1>2, <1>5, <1>6 DEF ScratchOf, BusySteps
<1>8. c \in mainTree' => "fuzz" \notin r.args
  BY <1>1, <1>2 DEF CopyOf
<1>9. CopyOf(c)'  BY <1>5, <1>6, <1>8 DEF CopyOf
<1>10. ProbeOf(c)'  BY <1>1, <1>2, <1>3, <1>5, <1>6 DEF ProbeOf
<1>11. mainTree' \subseteq mainTree \cup {c}  BY <1>1
<1> QED BY <1>2, <1>4, <1>7, <1>9, <1>10, <1>11, OneCallMoves

LEMMA KeepsKeeps == ASSUME CallsInv, NEW c \in SessionCallers, Keeps(c) PROVE CallsInv'
<1> DEFINE n == [call[c] EXCEPT !.at = "capture"]
<1>1. /\ call[c] \in Calls /\ ScratchOf(c) /\ CopyOf(c) /\ ProbeOf(c) /\ call[c].at = "ran"
      /\ UNCHANGED <<build, mainTree, scratches>>
  BY DEF CallsInv, CallTypes, Keeps, Shared
<1>2. n \in Calls /\ call' = [call EXCEPT ![c] = n]  BY <1>1 DEF Calls, CallSteps, Keeps
<1>3. call'[c] = n  BY <1>2 DEF CallsInv, CallTypes
<1>4. /\ n.at = "capture" /\ n.request = call[c].request /\ n.raw = call[c].raw
      /\ n.infected = call[c].infected /\ n.answer = call[c].answer
  BY <1>1 DEF Calls
<1> HIDE DEF n
<1>5. keptScratch' \subseteq keptScratch \cup {c} /\ keptScratch \subseteq keptScratch' \cup {c} /\ (c \in keptScratch' => build.keep)
  BY <1>1 DEF Keeps, ScratchOf
<1>6. ScratchOf(c)'  BY <1>1, <1>3, <1>4, <1>5 DEF ScratchOf, BusySteps
<1>7. CopyOf(c)'  BY <1>1, <1>3, <1>4 DEF CopyOf
<1>8. ProbeOf(c)'  BY <1>1, <1>3, <1>4 DEF ProbeOf
<1> QED BY <1>1, <1>2, <1>5, <1>6, <1>7, <1>8, OneCallMoves

LEMMA ClosesSessionKeeps == ASSUME CallsInv, ClosesSession PROVE CallsInv'
<1>1. /\ UNCHANGED <<build, mainTree, keptScratch, call>> /\ scratches' = IF build.keep THEN scratches ELSE {}
      /\ \A c \in SessionCallers : call[c].at \in {"idle", "returned"}
  BY DEF ClosesSession
<1>2. ASSUME NEW c \in SessionCallers PROVE (ScratchOf(c) /\ CopyOf(c) /\ ProbeOf(c))'
  <2>1. ScratchOf(c) /\ CopyOf(c) /\ ProbeOf(c)  BY DEF CallsInv
  <2>2. ScratchOf(c)'  BY <1>1, <2>1 DEF ScratchOf, BusySteps
  <2> QED BY <1>1, <2>1, <2>2 DEF CopyOf, ProbeOf
<1> QED BY <1>1, <1>2 DEF CallsInv, CallTypes

\* However the calls of a session overlap and fail, no fuzz target leaves an
\* input in the frozen tree, the scratch that stays is the scratch that was kept,
\* and no probe pass contradicts its binary, for any calls, requests and builds
\* (Exec, Control and Probe with their deferred removals; filterInfected).
THEOREM CallsClean == SessionCallsSpec => []CallsAreClean
<1>1. CallsInv /\ [SessionCallsNext]_sessionCallVars => CallsInv'
  <2> SUFFICES ASSUME CallsInv, [SessionCallsNext]_sessionCallVars PROVE CallsInv'
    OBVIOUS
  <2>1. CASE UNCHANGED sessionCallVars
    BY <2>1 DEF sessionCallVars, CallsInv, CallTypes, ScratchOf, CopyOf, ProbeOf
  <2>2. CASE SessionCallsNext
    BY <2>2, EntersKeeps, MakeScratchKeeps, SettleKeeps, CopyTreeKeeps, ExecutesKeeps, KeepsKeeps, AnswersKeeps,
       ProbeAnswersKeeps, LeavesKeeps, ClosesSessionKeeps DEF SessionCallsNext
  <2> QED BY <2>1, <2>2
<1>2. ASSUME CallsInv PROVE CallsAreClean
  <2>1. \A c \in SessionCallers : ScratchOf(c) /\ CopyOf(c) /\ ProbeOf(c) /\ call[c].answer \in CallAnswers
    BY <1>2 DEF CallsInv, CallTypes, Calls
  <2>2. keptScratch \subseteq SessionCallers /\ scratches \subseteq SessionCallers
    BY <1>2 DEF CallsInv, CallTypes
  <2>3. CallsLeaveNothing
    BY <2>1, <2>2 DEF CallsLeaveNothing, ScratchOf, CopyOf, Fuzzes
  <2>4. ProbesAreConsistent
    BY <2>1 DEF ProbesAreConsistent, ProbeOf, CallAnswers
  <2> QED BY <2>3, <2>4 DEF CallsAreClean
<1> QED BY <1>1, <1>2, CallsStarted, PTL DEF SessionCallsSpec

===========================================================================
