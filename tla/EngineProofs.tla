----------------------------- MODULE EngineProofs -----------------------------
(***************************************************************************)
(* Proofs about the parts of the engine, for any number of mutants, of     *)
(* workers and of runs: what an outcome is worth and that the execution    *)
(* phase implements Verdicts (Schedule), what a stored outcome may stand   *)
(* for (OutcomeCache), that every mutant starts from the files that were   *)
(* copied (Snapshot), that a filed run is found again (HistoryStore), what *)
(* a collection of old recordings may take (Recordings), and that a run    *)
(* that narrows has the verdicts of one that does not (Narrowing).         *)
(***************************************************************************)
EXTENDS Schedule, OutcomeCache, Snapshot, HistoryStore, Recordings, Narrowing,
        FiniteSetTheorems, WellFoundedInduction, TLAPS

-----------------------------------------------------------------------------
(* Schedule: no outcome that was not measured.                              *)

Tree(m) == \E k \in 1 .. Len(attempts[m]) : attempts[m][k] = "tree"

Trying(a) == pc[a] \in {"pass", "running", "restore", "book"}

\* The mutants whose retry is still to come, or under way.
Owed(m) == m \in pending /\ (m > at[Main] \/ (m = at[Main] /\ Trying(Main)))

\* TypeOK, with what its later conjuncts need of the shape of the books.
Types ==
  /\ n \in 0 .. N /\ next \in Nat
  /\ binaries \in BOOLEAN /\ isolate \in BOOLEAN
  /\ cancelled \in BOOLEAN /\ failed \in BOOLEAN
  /\ never \subseteq Mutants /\ narrowed \subseteq Mutants /\ pending \subseteq 1 .. n
  /\ pc \in [Actors -> Places] /\ at \in [Actors -> 0 .. n]
  /\ whole \in [Actors -> BOOLEAN] /\ out \in [Actors -> PassOutcomes \cup {"none"}]
  /\ dirty \subseteq Workers
  /\ attempts \in [Mutants -> Seq(PassOutcomes)]
  /\ final \in [Mutants -> Outcomes] /\ told \in [Mutants -> Outcomes \cup {"none"}]
  /\ result \in {"running", "ok", "refused", "broken", "interrupted"}

\* Workers run only while Schedule waits for them.
Phases ==
  /\ \A w \in Workers : pc[w] \in {"idle", "poll", "take", "pass", "running", "restore", "book", "exited"}
  /\ pc[Main] \in {"start", "wait", "retry", "pass", "running", "restore", "book", "broken", "returned"}
  /\ pc[Main] # "wait" => \A w \in Workers : pc[w] \in {"idle", "exited"}
  /\ pc[Main] \notin {"start", "wait", "returned"} => \A w \in Workers : pc[w] = "exited"
  /\ result = "running" <=> pc[Main] # "returned"
  /\ failed => pc[Main] \in {"wait", "returned"}
  /\ pc[Main] \in {"start", "wait"} => at[Main] = 0
  /\ pc[Main] \notin {"start", "returned"} => n > 0

\* A pass that was made has an outcome.
Passes ==
  \A a \in Actors :
    /\ pc[a] \in {"restore", "book"} => out[a] # "none"
    /\ pc[a] = "restore" => out[a] # "tree"
    /\ out[a] = "not_run" => cancelled

\* A tree is dirty in the hands of an actor that is to put it back, or that
\* could not, and then nothing else runs in it.  The retries use the first.
Soiled(a) ==
  pc[a] \in {"restore", "broken", "returned"} \/ (pc[a] = "book" /\ out[a] = "tree")

Trees ==
  \A w \in dirty :
    Soiled(w) \/ (pc[w] = "exited" /\ (failed \/ (w = 0 /\ Soiled(Main))))

\* A mutant is in the hands of one worker, and nothing is known of it.
Hands ==
  /\ \A w \in Workers :
       IF Trying(w)
       THEN /\ at[w] \in 1 .. n /\ at[w] <= next
            /\ attempts[at[w]] = <<>> /\ told[at[w]] = "none" /\ at[w] \notin pending
       ELSE at[w] = 0
  /\ \A v, w \in Workers : at[v] = at[w] /\ at[v] # 0 => v = w
  /\ \A m \in Mutants : m > next => attempts[m] = <<>> /\ told[m] = "none" /\ m \notin pending

\* What is held back timed out once; what is not has at most two attempts.
Held ==
  /\ Trying(Main) => at[Main] \in pending
  /\ \A m \in Mutants : Owed(m) => attempts[m] = <<"timed_out">> /\ m \notin never /\ told[m] = "none"
  /\ \A m \in Mutants : Len(attempts[m]) <= 2

\* Schedule returns what it said.
Announced == \A m \in Mutants : final[m] = IF told[m] = "none" THEN "not_run" ELSE told[m]

\* A mutant without a verdict is in a worker's hands, is owed a retry, or was
\* lost with its tree.
Accounted ==
  \A m \in 1 .. n : m <= next /\ told[m] = "none" =>
    (\E w \in Workers : at[w] = m) \/ Owed(m) \/ Tree(m)

\* A tree that was lost ends the phase, and nothing else is called broken.
Ended ==
  /\ \A m \in Mutants : Tree(m) => failed \/ pc[Main] \in {"broken", "returned"}
  /\ failed \/ pc[Main] = "broken" => \E m \in Mutants : Tree(m)
  /\ \A m \in Mutants : told[m] = "not_run" => cancelled

\* The books are empty before the workers start, and the first worker does not
\* stop before the queue is empty unless something made it stop.
Drained ==
  /\ pc[Main] = "start" => \A m \in Mutants : attempts[m] = <<>>
  /\ pc[Main] \notin {"start", "returned"} /\ pc[0] = "exited" /\ ~cancelled /\ ~failed => next >= n

Inv ==
  /\ Types /\ Phases /\ Passes /\ Trees /\ Hands /\ Held
  /\ Announced /\ Accounted /\ Ended /\ Drained

-----------------------------------------------------------------------------

\* The goroutine Schedule runs on is none of the workers, and its retries use
\* the first worker's copy of the tree.
LEMMA ActorFacts ==
  /\ Main \notin Workers /\ 0 \in Workers /\ Actors = Workers \cup {Main}
  /\ Slot(Main) = 0 /\ \A w \in Workers : Slot(w) = w
  BY JobsAssumption DEF Main, Workers, Actors, Slot

\* The phase starts in such a state.
LEMMA InvInit == Init => Inv
  <1> SUFFICES ASSUME Init PROVE Inv
    OBVIOUS
  <1> USE ActorFacts, NAssumption DEF Init, Mutants
  <1>1. Types
    <2>1. attempts \in [Mutants -> Seq(PassOutcomes)]
      <3> <<>> \in Seq(PassOutcomes)
        OBVIOUS
      <3> QED OBVIOUS
    <2>2. pc \in [Actors -> Places]
      BY DEF Places
    <2>3. never \subseteq Mutants /\ narrowed \subseteq Mutants /\ n \in 0 .. N
      OBVIOUS
    <2>4. at \in [Actors -> 0 .. n]
      OBVIOUS
    <2>5. out \in [Actors -> PassOutcomes \cup {"none"}] /\ whole \in [Actors -> BOOLEAN]
      BY DEF PassOutcomes
    <2>6. final \in [Mutants -> Outcomes] /\ told \in [Mutants -> Outcomes \cup {"none"}]
      BY DEF Outcomes
    <2> QED BY <2>1, <2>2, <2>3, <2>4, <2>5, <2>6 DEF Types
  <1>2. Phases BY DEF Phases
  <1>3. Passes BY DEF Passes
  <1>4. Trees BY DEF Trees
  <1>5. Hands BY DEF Hands, Trying
  <1>6. Held BY DEF Held, Trying, Owed
  <1>7. Announced BY DEF Announced
  <1>8. Accounted BY DEF Accounted, Tree
  <1>9. Ended BY DEF Ended, Tree
  <1>10. Drained BY DEF Drained
  <1> QED BY <1>1, <1>2, <1>3, <1>4, <1>5, <1>6, <1>7, <1>8, <1>9, <1>10 DEF Inv

\* While the books stay, a tree that was lost stays lost.
LEMMA TreeStays ==
  ASSUME attempts' = attempts
  PROVE  \A m : Tree(m)' = Tree(m)
  BY DEF Tree

\* An attempt that goes into the books is the last of its mutant, and of no other.
LEMMA Recorded ==
  ASSUME Types, NEW m \in Mutants, NEW o \in PassOutcomes, Record(m, o)
  PROVE  /\ attempts' \in [Mutants -> Seq(PassOutcomes)]
         /\ \A k \in Mutants : k # m => attempts'[k] = attempts[k]
         /\ attempts'[m] = Append(attempts[m], o)
         /\ Len(attempts'[m]) = Len(attempts[m]) + 1
         /\ attempts[m] = <<>> => attempts'[m] = <<o>>
         /\ \A k \in Mutants : Tree(k)' <=> Tree(k) \/ (k = m /\ o = "tree")
  <1>1. attempts \in [Mutants -> Seq(PassOutcomes)]
    BY DEF Types
  <1>2. /\ \A k \in Mutants : k # m => attempts'[k] = attempts[k]
        /\ attempts'[m] = Append(attempts[m], o)
    BY <1>1 DEF Record
  <1>3. attempts[m] \in Seq(PassOutcomes)
    BY <1>1
  <1>4. attempts' \in [Mutants -> Seq(PassOutcomes)]
    BY <1>1, <1>3 DEF Record
  <1>0. Append(<<>>, o) = <<o>>
    OBVIOUS
  <1>5. /\ Len(attempts'[m]) = Len(attempts[m]) + 1
        /\ attempts[m] = <<>> => attempts'[m] = <<o>>
    <2>1. Len(Append(attempts[m], o)) = Len(attempts[m]) + 1
      BY <1>3
    <2> QED BY <1>0, <1>2, <2>1
  <1>6. Tree(m)' <=> Tree(m) \/ o = "tree"
    BY <1>2, <1>3, <1>5 DEF Tree
  <1>7. \A k \in Mutants : k # m => Tree(k)' = Tree(k)
    BY <1>2 DEF Tree
  <1> QED BY <1>2, <1>4, <1>5, <1>6, <1>7

\* A pass that is refused leaves the tree alone.
LEMMA InvPassRefuse ==
  ASSUME Inv, NEW a \in Actors, PassRefuse(a)
  PROVE  Inv'
  <1> USE ActorFacts DEF PassRefuse, options, books, Goto
  <1>1. Types' BY DEF Inv, Types, Places, PassOutcomes
  <1>2. Phases' BY DEF Inv, Types, Phases
  <1>3. Passes' BY DEF Inv, Types, Passes
  <1>4. Trees' BY DEF Inv, Types, Phases, Trees, Soiled
  <1>5. Hands' BY DEF Inv, Types, Hands, Trying
  <1>6. Held' BY DEF Inv, Types, Held, Trying, Owed
  <1>7. Announced' BY DEF Inv, Announced
  <1>8. Accounted' BY TreeStays DEF Inv, Types, Accounted, Owed, Trying, Mutants
  <1>9. Ended' BY TreeStays DEF Inv, Types, Ended
  <1>10. Drained' BY DEF Inv, Types, Drained
  <1> QED BY <1>1, <1>2, <1>3, <1>4, <1>5, <1>6, <1>7, <1>8, <1>9, <1>10 DEF Inv

\* A pass that starts has found a clean tree.
LEMMA InvPassStart ==
  ASSUME Inv, NEW a \in Actors, PassStart(a)
  PROVE  Inv'
  <1> USE ActorFacts DEF PassStart, options, books, Goto
  <1>1. Types' BY DEF Inv, Types, Places, PassOutcomes
  <1>2. Phases' BY DEF Inv, Types, Phases
  <1>3. Passes' BY DEF Inv, Types, Passes
  <1>4. Trees' BY DEF Inv, Types, Phases, Trees, Soiled
  <1>5. Hands' BY DEF Inv, Types, Hands, Trying
  <1>6. Held' BY DEF Inv, Types, Held, Trying, Owed
  <1>7. Announced' BY DEF Inv, Announced
  <1>8. Accounted' BY TreeStays DEF Inv, Types, Accounted, Owed, Trying, Mutants
  <1>9. Ended' BY TreeStays DEF Inv, Types, Ended
  <1>10. Drained' BY DEF Inv, Types, Drained
  <1> QED BY <1>1, <1>2, <1>3, <1>4, <1>5, <1>6, <1>7, <1>8, <1>9, <1>10 DEF Inv

\* A pass that ends leaves its tree to be put back.
LEMMA InvPassEnd ==
  ASSUME Inv, NEW a \in Actors, PassEnd(a)
  PROVE  Inv'
  <1> USE ActorFacts DEF PassEnd, options, books, Goto
  <1>1. Types' BY DEF Inv, Types, Places, PassOutcomes
  <1>2. Phases' BY DEF Inv, Types, Phases
  <1>3. Passes' BY DEF Inv, Types, Passes
  <1>4. Trees' BY DEF Inv, Types, Phases, Trees, Soiled
  <1>5. Hands' BY DEF Inv, Types, Hands, Trying
  <1>6. Held' BY DEF Inv, Types, Held, Trying, Owed
  <1>7. Announced' BY DEF Inv, Announced
  <1>8. Accounted' BY TreeStays DEF Inv, Types, Accounted, Owed, Trying, Mutants
  <1>9. Ended' BY TreeStays DEF Inv, Types, Ended
  <1>10. Drained' BY DEF Inv, Types, Drained
  <1> QED BY <1>1, <1>2, <1>3, <1>4, <1>5, <1>6, <1>7, <1>8, <1>9, <1>10 DEF Inv

\* A tree that is put back is ready for the next pass.
LEMMA InvRestore ==
  ASSUME Inv, NEW a \in Actors, Restore(a)
  PROVE  Inv'
  <1> USE ActorFacts DEF Restore, options, books, Goto
  <1>1. Types' BY DEF Inv, Types, Places, PassOutcomes
  <1>2. Phases' BY DEF Inv, Types, Phases
  <1>3. Passes' BY DEF Inv, Types, Passes
  <1>4. Trees' 
    <2>1. CASE a = Main BY <2>1 DEF Inv, Types, Phases, Trees, Soiled
    <2>2. CASE a \in Workers BY <2>2 DEF Inv, Types, Trees, Soiled
    <2> QED BY <2>1, <2>2
  <1>5. Hands' BY DEF Inv, Types, Hands, Trying
  <1>6. Held' BY DEF Inv, Types, Held, Trying, Owed
  <1>7. Announced' BY DEF Inv, Announced
  <1>8. Accounted' BY TreeStays DEF Inv, Types, Accounted, Owed, Trying, Mutants
  <1>9. Ended' BY TreeStays DEF Inv, Types, Ended
  <1>10. Drained' BY DEF Inv, Types, Drained
  <1> QED BY <1>1, <1>2, <1>3, <1>4, <1>5, <1>6, <1>7, <1>8, <1>9, <1>10 DEF Inv

\* A tree that is not put back is nobody's to run in.
LEMMA InvRestoreFail ==
  ASSUME Inv, NEW a \in Actors, RestoreFail(a)
  PROVE  Inv'
  <1> USE ActorFacts DEF RestoreFail, options, books, Goto
  <1>1. Types' BY DEF Inv, Types, Places, PassOutcomes
  <1>2. Phases' BY DEF Inv, Types, Phases
  <1>3. Passes' BY DEF Inv, Types, Passes
  <1>4. Trees' BY DEF Inv, Types, Phases, Trees, Soiled
  <1>5. Hands' BY DEF Inv, Types, Hands, Trying
  <1>6. Held' BY DEF Inv, Types, Held, Trying, Owed
  <1>7. Announced' BY DEF Inv, Announced
  <1>8. Accounted' BY TreeStays DEF Inv, Types, Accounted, Owed, Trying, Mutants
  <1>9. Ended' BY TreeStays DEF Inv, Types, Ended
  <1>10. Drained' BY DEF Inv, Types, Drained
  <1> QED BY <1>1, <1>2, <1>3, <1>4, <1>5, <1>6, <1>7, <1>8, <1>9, <1>10 DEF Inv

\* A worker goes on, or stops with the context.
LEMMA InvPoll ==
  ASSUME Inv, NEW w \in Workers, Poll(w)
  PROVE  Inv'
  <1> USE ActorFacts DEF Poll, options, books, Goto
  <1>1. Types' BY DEF Inv, Types, Places
  <1>2. Phases' BY DEF Inv, Types, Phases
  <1>3. Passes' BY DEF Inv, Types, Passes
  <1>4. Trees' 
    <2>1. pc'[Main] = pc[Main] /\ out' = out
      BY DEF Inv, Types
    <2>2. w \notin dirty
      BY DEF Inv, Trees, Soiled
    <2>3. \A v \in Workers : v # w => pc'[v] = pc[v]
      BY DEF Inv, Types
    <2> QED BY <2>1, <2>2, <2>3 DEF Inv, Types, Trees, Soiled
  <1>5. Hands' BY DEF Inv, Types, Hands, Trying
  <1>6. Held' BY DEF Inv, Types, Held, Trying, Owed
  <1>7. Announced' BY DEF Inv, Announced
  <1>8. Accounted' BY TreeStays DEF Inv, Types, Accounted, Owed, Trying, Mutants
  <1>9. Ended' BY TreeStays DEF Inv, Types, Ended
  <1>10. Drained' BY DEF Inv, Types, Drained
  <1> QED BY <1>1, <1>2, <1>3, <1>4, <1>5, <1>6, <1>7, <1>8, <1>9, <1>10 DEF Inv

\* A worker takes the next mutant, which nobody has taken.
LEMMA InvTakeOne ==
  ASSUME Inv, NEW w \in Workers, next < n, next' = next + 1, Start(w, "take", next + 1),
         UNCHANGED <<options, cancelled, books, failed, result>>
  PROVE  Inv'
  <1> USE ActorFacts DEF Start, options, books, Goto
  <1> DEFINE m == next + 1
  <1>n. n \in Nat /\ next \in Nat /\ \A k \in 1 .. n : k \in Mutants
    BY NAssumption DEF Inv, Types, Mutants
  <1>0. /\ m \in 1 .. n /\ m \in Mutants /\ m > next /\ n \in Nat /\ next \in Nat
        /\ pc[Main] = "wait" /\ at[Main] = 0
    BY <1>n DEF Inv, Phases
  <1>a. /\ pc' = [pc EXCEPT ![w] = "pass"] /\ at' = [at EXCEPT ![w] = m] /\ pc[w] = "take"
        /\ pc \in [Actors -> Places] /\ at \in [Actors -> 0 .. n]
    BY DEF Inv, Types
  <1>b. pc'[w] = "pass" /\ at'[w] = m /\ \A v \in Actors : v # w => pc'[v] = pc[v] /\ at'[v] = at[v]
    BY <1>a
  <1>1. Types' BY <1>0, <1>a DEF Inv, Types, Places
  <1>2. Phases' BY <1>0, <1>b DEF Inv, Phases
  <1>3. Passes' BY <1>b DEF Inv, Passes
  <1>4. Trees'
    <2>1. w \notin dirty
      BY DEF Inv, Trees, Soiled
    <2> QED BY <1>b, <2>1 DEF Inv, Types, Trees, Soiled
  <1>5. Hands'
    <2>1. attempts[m] = <<>> /\ told[m] = "none" /\ m \notin pending
      BY <1>0 DEF Inv, Hands
    <2>2. \A v \in Workers : at[v] # m /\ (Trying(v) => at[v] <= next)
      BY <1>0 DEF Inv, Hands
    <2>3. \A v \in Workers :
            IF Trying(v)'
            THEN /\ at'[v] \in 1 .. n /\ at'[v] <= next'
                 /\ attempts'[at'[v]] = <<>> /\ told'[at'[v]] = "none" /\ at'[v] \notin pending'
            ELSE at'[v] = 0
      <3> SUFFICES ASSUME NEW v \in Workers
                   PROVE  IF Trying(v)'
                          THEN /\ at'[v] \in 1 .. n /\ at'[v] <= next'
                               /\ attempts'[at'[v]] = <<>> /\ told'[at'[v]] = "none" /\ at'[v] \notin pending'
                          ELSE at'[v] = 0
        OBVIOUS
      <3>1. CASE v = w BY <1>0, <1>b, <2>1, <3>1 DEF Trying
      <3>2. CASE v # w
        <4>1. Trying(v)' = Trying(v) /\ at'[v] = at[v]
          BY <1>b, <3>2 DEF Trying
        <4>2. Trying(v) => at[v] \in Nat
          BY <1>0 DEF Inv, Hands
        <4> QED BY <1>0, <4>1, <4>2 DEF Inv, Hands
      <3> QED BY <3>1, <3>2
    <2>4. \A u, v \in Workers : at'[u] = at'[v] /\ at'[u] # 0 => u = v
      BY <1>b, <2>2 DEF Inv, Hands
    <2>5. \A k \in Mutants : k > next' => k > next
      BY <1>0 DEF Mutants
    <2> QED BY <2>3, <2>4, <2>5 DEF Inv, Hands
  <1>6. Held' BY <1>b DEF Inv, Held, Trying, Owed
  <1>7. Announced' BY DEF Inv, Announced
  <1>8. Accounted'
    <2> SUFFICES ASSUME NEW k \in 1 .. n, k <= next', told[k] = "none"
                 PROVE  (\E v \in Workers : at'[v] = k) \/ Owed(k)' \/ Tree(k)'
      BY DEF Accounted
    <2>1. CASE k = m BY <1>b, <2>1
    <2>2. CASE k # m
      <3>1. k <= next
        BY <1>0, <2>2
      <3>2. Owed(k) => Owed(k)'
        BY <1>b DEF Owed, Trying
      <3>3. \A v \in Workers : at[v] = k => at'[v] = k
        BY <1>a, <1>b DEF Inv, Hands, Trying
      <3> QED BY <3>1, <3>2, <3>3, TreeStays DEF Inv, Accounted
    <2> QED BY <2>1, <2>2
  <1>9. Ended' BY <1>b, TreeStays DEF Inv, Ended
  <1>10. Drained' BY <1>0, <1>b DEF Inv, Drained
  <1> QED BY <1>1, <1>2, <1>3, <1>4, <1>5, <1>6, <1>7, <1>8, <1>9, <1>10 DEF Inv

\* A worker that finds the queue empty stops.
LEMMA InvTakeNone ==
  ASSUME Inv, NEW w \in Workers, next >= n, next' = next + 1, Goto(w, "take", "exited"),
         UNCHANGED <<at, whole, out, dirty>>,
         UNCHANGED <<options, cancelled, books, failed, result>>
  PROVE  Inv'
  <1> USE ActorFacts DEF options, books, Goto
  <1>0. /\ n \in Nat /\ next \in Nat /\ pc[Main] = "wait" /\ pc'[w] = "exited"
        /\ \A v \in Actors : v # w => pc'[v] = pc[v]
    BY DEF Inv, Types, Phases
  <1>1. Types' BY DEF Inv, Types, Places
  <1>2. Phases' BY <1>0 DEF Inv, Phases
  <1>3. Passes' BY <1>0 DEF Inv, Passes
  <1>4. Trees'
    <2>1. w \notin dirty
      BY DEF Inv, Trees, Soiled
    <2> QED BY <1>0, <2>1 DEF Inv, Types, Trees, Soiled
  <1>5. Hands'
    <2>1. \A v \in Workers : Trying(v)' = Trying(v) /\ (Trying(v) => at[v] \in Nat)
      BY <1>0 DEF Inv, Hands, Trying
    <2>2. \A k \in Mutants : k > next' => k > next
      BY <1>0 DEF Mutants
    <2> QED BY <1>0, <2>1, <2>2 DEF Inv, Hands
  <1>6. Held' BY <1>0 DEF Inv, Held, Trying, Owed
  <1>7. Announced' BY DEF Inv, Announced
  <1>8. Accounted'
    <2>1. \A k \in 1 .. n : k <= next
      BY <1>0
    <2>2. \A k : Owed(k)' = Owed(k)
      BY <1>0 DEF Owed, Trying
    <2> QED BY <2>1, <2>2, TreeStays DEF Inv, Accounted
  <1>9. Ended' BY <1>0, TreeStays DEF Inv, Ended
  <1>10. Drained' BY <1>0 DEF Inv, Drained
  <1> QED BY <1>1, <1>2, <1>3, <1>4, <1>5, <1>6, <1>7, <1>8, <1>9, <1>10 DEF Inv

\* A verdict that is announced is the one returned, of its mutant and no other.
LEMMA Announces ==
  ASSUME Types, NEW m \in Mutants, NEW f \in Outcomes, Finish(m, f)
  PROVE  /\ final' \in [Mutants -> Outcomes] /\ told' \in [Mutants -> Outcomes \cup {"none"}]
         /\ final'[m] = f /\ told'[m] = f /\ f # "none"
         /\ \A k \in Mutants : k # m => final'[k] = final[k] /\ told'[k] = told[k]
  BY DEF Types, Finish, Outcomes

\* What filing an attempt does to the books: a lost tree stops the worker, a
\* verdict is given, or a first timeout is held back.
LEMMA BookKinds ==
  ASSUME Inv, NEW w \in Workers, Book(w)
  PROVE  \/ /\ out[w] = "tree" /\ failed' = TRUE /\ pc' = [pc EXCEPT ![w] = "exited"]
            /\ UNCHANGED <<final, pending, told>>
         \/ /\ out[w] # "tree" /\ failed' = failed /\ pc' = [pc EXCEPT ![w] = "poll"]
            /\ pending' = pending
            /\ \E f \in Outcomes : Finish(at[w], f) /\ (f = "not_run" => cancelled)
         \/ /\ out[w] = "timed_out" /\ failed' = failed /\ pc' = [pc EXCEPT ![w] = "poll"]
            /\ at[w] \notin never /\ HoldBack(at[w])
  <1> USE DEF Goto
  <1>1. out[w] \in PassOutcomes /\ (out[w] = "not_run" => cancelled)
    BY ActorFacts DEF Inv, Types, Passes, Book
  <1>2. CASE out[w] = "tree" BY <1>2 DEF Book
  <1>3. CASE out[w] \notin {"tree", "timed_out", "diverged"}
    BY <1>1, <1>3 DEF Book, Settle, Outcomes, PassOutcomes
  <1>4. CASE out[w] \in {"timed_out", "diverged"}
    <2>1. CASE at[w] \in never \/ out[w] = "diverged"
      BY <1>4, <2>1 DEF Book, Confirm, Outcomes
    <2>2. CASE ~(at[w] \in never \/ out[w] = "diverged")
      BY <1>4, <2>2 DEF Book
    <2> QED BY <2>1, <2>2
  <1> QED BY <1>2, <1>3, <1>4

\* A worker files its attempt.
LEMMA InvBook ==
  ASSUME Inv, NEW w \in Workers, Book(w)
  PROVE  Inv'
  <1> USE ActorFacts
  <1> DEFINE m == at[w]
             o == out[w]
  <1>n. \A k \in 1 .. n : k \in Mutants
    BY NAssumption DEF Inv, Types, Mutants
  <1>a. /\ m \in 1 .. n /\ m \in Mutants /\ n \in Nat /\ next \in Nat /\ m <= next
        /\ attempts[m] = <<>> /\ told[m] = "none" /\ m \notin pending
    BY NAssumption DEF Inv, Types, Hands, Book, Trying, Mutants
  <1>b. /\ pc[w] = "book" /\ pc[Main] = "wait" /\ at[Main] = 0
        /\ o \in PassOutcomes
    BY DEF Inv, Types, Phases, Passes, Book
  <1>c. Record(m, o) /\ options' = options /\ cancelled' = cancelled /\ next' = next
        /\ dirty' = dirty /\ result' = result
        /\ at' = [at EXCEPT ![w] = 0] /\ Forget(w)
    BY DEF Book
  <1>d. /\ attempts' \in [Mutants -> Seq(PassOutcomes)]
        /\ \A k \in Mutants : k # m => attempts'[k] = attempts[k]
        /\ attempts'[m] = <<o>>
        /\ \A k \in Mutants : Tree(k)' <=> Tree(k) \/ (k = m /\ o = "tree")
    BY <1>a, <1>b, <1>c, Recorded DEF Inv
  <1>i. /\ final' \in [Mutants -> Outcomes] /\ told' \in [Mutants -> Outcomes \cup {"none"}]
        /\ pending' \subseteq pending \cup {m} /\ pending \subseteq pending'
        /\ \A k \in Mutants : k # m => final'[k] = final[k] /\ told'[k] = told[k]
        /\ told'[m] = "none" => o = "tree" \/ m \in pending'
        /\ m \in pending' => o = "timed_out" /\ m \notin never /\ told'[m] = "none"
        /\ final'[m] = IF told'[m] = "none" THEN "not_run" ELSE told'[m]
        /\ told'[m] = "not_run" => cancelled
        /\ pc' = [pc EXCEPT ![w] = IF o = "tree" THEN "exited" ELSE "poll"]
        /\ failed' = IF o = "tree" THEN TRUE ELSE failed
    <2>0. /\ final \in [Mutants -> Outcomes] /\ told \in [Mutants -> Outcomes \cup {"none"}]
          /\ final[m] = "not_run"
      BY <1>a DEF Inv, Types, Announced
    <2>1. CASE \E f \in Outcomes : Finish(m, f) /\ (f = "not_run" => cancelled) /\ o # "tree"
                 /\ pending' = pending /\ failed' = failed /\ pc' = [pc EXCEPT ![w] = "poll"]
      BY <1>a, <2>1, Announces DEF Inv
    <2>2. CASE o = "tree" /\ UNCHANGED <<final, pending, told>>
                 /\ failed' = TRUE /\ pc' = [pc EXCEPT ![w] = "exited"]
      BY <1>a, <2>0, <2>2
    <2>3. CASE o = "timed_out" /\ m \notin never /\ HoldBack(m)
                 /\ failed' = failed /\ pc' = [pc EXCEPT ![w] = "poll"]
      BY <1>a, <2>0, <2>3 DEF HoldBack
    <2> QED BY <2>1, <2>2, <2>3, BookKinds
  <1>e. /\ pc'[w] = IF o = "tree" THEN "exited" ELSE "poll"
        /\ at'[w] = 0 /\ out'[w] = "none" /\ whole'[w] = FALSE
        /\ \A v \in Actors : v # w => pc'[v] = pc[v] /\ at'[v] = at[v] /\ out'[v] = out[v]
    BY <1>c, <1>i DEF Inv, Types, Forget
  <1>f. \A k : Owed(k) <=> k \in pending /\ k > 0
    BY <1>b DEF Owed, Trying
  <1>g. \A k : Owed(k)' <=> k \in pending' /\ k > 0
    BY <1>b, <1>e DEF Owed, Trying
  <1>h. \A k \in Mutants : k > 0
    BY DEF Mutants
  <1>1. Types'
    <2>1. whole' \in [Actors -> BOOLEAN] /\ out' \in [Actors -> PassOutcomes \cup {"none"}]
      BY <1>c DEF Inv, Types, Forget
    <2>2. at' \in [Actors -> 0 .. n] /\ pc' \in [Actors -> Places]
      BY <1>a, <1>c, <1>i DEF Inv, Types, Places
    <2>3. /\ final' \in [Mutants -> Outcomes] /\ told' \in [Mutants -> Outcomes \cup {"none"}]
          /\ pending' \subseteq 1 .. n /\ failed' \in BOOLEAN
      BY <1>a, <1>i DEF Inv, Types
    <2> QED BY <1>c, <1>d, <2>1, <2>2, <2>3 DEF Inv, Types, options
  <1>2. Phases'
    <2>1. failed' => pc'[Main] = "wait"
      BY <1>b, <1>e
    <2> QED BY <1>b, <1>c, <1>e, <2>1 DEF Inv, Phases, options
  <1>3. Passes' BY <1>c, <1>e DEF Inv, Passes
  <1>4. Trees'
    <2>1. ASSUME w \in dirty PROVE pc'[w] = "exited" /\ failed' = TRUE
      <3>1. o = "tree" BY <1>b, <2>1 DEF Inv, Trees, Soiled
      <3> QED BY <1>e, <1>i, <3>1
    <2>2. failed => failed'
      BY <1>i
    <2>3. \A v \in Actors : v # w => Soiled(v)' = Soiled(v) /\ (pc[v] = "exited" => pc'[v] = "exited")
      BY <1>e DEF Soiled
    <2> QED BY <1>c, <2>1, <2>2, <2>3 DEF Inv, Types, Trees
  <1>5. Hands'
    <2>1. \A v \in Workers : v # w /\ Trying(v) =>
            at[v] # m /\ attempts'[at[v]] = <<>> /\ told'[at[v]] = "none" /\ at[v] \notin pending'
      <3> SUFFICES ASSUME NEW v \in Workers, v # w, Trying(v)
                   PROVE  at[v] # m /\ attempts'[at[v]] = <<>> /\ told'[at[v]] = "none" /\ at[v] \notin pending'
        OBVIOUS
      <3>1. at[v] \in 1 .. n /\ at[v] # m /\ at[v] \in Mutants
        BY <1>a, <1>n DEF Inv, Hands, Book, Trying
      <3>2. attempts[at[v]] = <<>> /\ told[at[v]] = "none" /\ at[v] \notin pending
        BY DEF Inv, Hands
      <3> QED BY <1>d, <1>i, <3>1, <3>2
    <2>2. \A v \in Workers : v # w => Trying(v)' = Trying(v)
      BY <1>e DEF Trying
    <2>3. ~Trying(w)'
      BY <1>e DEF Trying
    <2>4. \A k \in Mutants : k > next => attempts'[k] = <<>> /\ told'[k] = "none" /\ k \notin pending'
      <3> SUFFICES ASSUME NEW k \in Mutants, k > next
                   PROVE  attempts'[k] = <<>> /\ told'[k] = "none" /\ k \notin pending'
        OBVIOUS
      <3>1. k # m
        BY <1>a
      <3> QED BY <1>d, <1>i, <3>1 DEF Inv, Hands
    <2>5. \A u, v \in Workers : at'[u] = at'[v] /\ at'[u] # 0 => u = v
      BY <1>e DEF Inv, Hands
    <2> QED BY <1>c, <1>e, <2>1, <2>2, <2>3, <2>4, <2>5 DEF Inv, Hands, options
  <1>6. Held'
    <2>1. ~Trying(Main)'
      BY <1>b, <1>e DEF Trying
    <2>2. ASSUME NEW k \in Mutants, Owed(k)'
          PROVE  attempts'[k] = <<"timed_out">> /\ k \notin never' /\ told'[k] = "none"
      <3>1. CASE k = m
        BY <1>c, <1>d, <1>g, <1>i, <2>2, <3>1 DEF options
      <3>2. CASE k # m
        <4>1. k \in pending /\ k > 0 /\ told'[k] = told[k]
          BY <1>g, <1>i, <2>2, <3>2
        <4> QED BY <1>c, <1>d, <1>f, <3>2, <4>1 DEF Inv, Held, options
      <3> QED BY <3>1, <3>2
    <2>3. \A k \in Mutants : Len(attempts'[k]) <= 2
      <3>1. Len(<<o>>) = 1
        OBVIOUS
      <3>2. ASSUME NEW k \in Mutants PROVE Len(attempts'[k]) <= 2
        <4>1. CASE k = m
          <5>1. attempts'[k] = <<o>>
            BY <1>d, <4>1
          <5> QED BY <3>1, <5>1
        <4>2. CASE k # m BY <1>d, <4>2 DEF Inv, Held
        <4> QED BY <4>1, <4>2
      <3> QED BY <3>2
    <2> QED BY <2>1, <2>2, <2>3 DEF Held
  <1>7. Announced' BY <1>i DEF Inv, Announced
  <1>8. Accounted'
    <2> SUFFICES ASSUME NEW k \in 1 .. n, k <= next, told'[k] = "none"
                 PROVE  (\E v \in Workers : at'[v] = k) \/ Owed(k)' \/ Tree(k)'
      BY <1>c DEF Accounted, options
    <2>0. k \in Mutants
      BY <1>n
    <2>1. CASE k = m
      <3>1. o = "tree" \/ m \in pending'
        BY <1>i, <2>1
      <3> QED BY <1>a, <1>d, <1>g, <1>h, <2>1, <3>1
    <2>2. CASE k # m
      <3>1. told[k] = "none" /\ (Owed(k) => Owed(k)') /\ k \in Mutants
        BY <1>a, <1>f, <1>g, <1>i, <2>2, <2>0
      <3>2. \A v \in Workers : at[v] = k => at'[v] = k
        BY <1>e, <2>2
      <3> QED BY <1>d, <3>1, <3>2 DEF Inv, Accounted
    <2> QED BY <2>1, <2>2
  <1>9. Ended'
    <2>1. \A k \in Mutants : Tree(k)' => failed'
      BY <1>b, <1>d, <1>i DEF Inv, Ended
    <2>2. failed' => \E k \in Mutants : Tree(k)'
      BY <1>a, <1>d, <1>i DEF Inv, Ended
    <2>3. \A k \in Mutants : told'[k] = "not_run" => cancelled
      BY <1>i DEF Inv, Ended
    <2> QED BY <1>b, <1>c, <1>e, <2>1, <2>2, <2>3 DEF Ended
  <1>10. Drained'
    <2>1. w = 0 /\ pc'[w] = "exited" => failed' = TRUE
      BY <1>e, <1>i
    <2>2. failed => failed'
      BY <1>i
    <2>3. pc'[Main] = "wait" /\ (0 # w => pc'[0] = pc[0])
      BY <1>b, <1>e
    <2> QED BY <1>b, <1>c, <2>1, <2>2, <2>3 DEF Inv, Drained, options
  <1> QED BY <1>1, <1>2, <1>3, <1>4, <1>5, <1>6, <1>7, <1>8, <1>9, <1>10 DEF Inv

\* Before the workers start nothing has been tried.
LEMMA AtStart ==
  ASSUME Inv, pc[Main] = "start"
  PROVE  /\ dirty = {} /\ \A w \in Workers : pc[w] \in {"idle", "exited"} /\ at[w] = 0
         /\ at[Main] = 0
  <1>1. \A w \in Workers : pc[w] \in {"idle", "exited"} /\ at[w] = 0
    BY DEF Inv, Phases, Hands, Trying
  <1>2. \A w \in dirty : FALSE
    BY <1>1, ActorFacts DEF Inv, Types, Phases, Trees, Soiled
  <1> QED BY <1>1, <1>2 DEF Inv, Phases

\* Schedule starts its workers, or has nothing to run.
LEMMA InvBegin ==
  ASSUME Inv, Begin
  PROVE  Inv'
  <1> USE ActorFacts DEF Begin, options, books, Return, Goto
  <1>0. dirty = {} /\ at[Main] = 0 /\ \A w \in Workers : pc[w] \in {"idle", "exited"} /\ at[w] = 0
    BY AtStart
  <1>a. pc[Main] = "start" /\ n \in Nat /\ Workers \subseteq Nat
    BY DEF Inv, Types, Workers
  <1>b. /\ \A w \in Workers : pc'[w] \in {"idle", "poll", "exited"}
        /\ \/ pc'[Main] = "wait" /\ n > 0 /\ pc'[0] = "poll" /\ result' = result
           \/ /\ pc'[Main] = "returned" /\ result' # "running"
              /\ \A w \in Workers : pc'[w] = pc[w]
    <2>1. CASE /\ n > 0 /\ UNCHANGED result
               /\ pc' = [a \in Actors |-> IF a = Main THEN "wait"
                                        ELSE IF a < n THEN "poll" ELSE "exited"]
      <3>1. pc'[Main] = "wait" /\ pc'[0] = "poll"
        BY <1>a, <2>1
      <3>2. \A w \in Workers : pc'[w] \in {"poll", "exited"}
        BY <1>a, <2>1
      <3> QED BY <2>1, <3>1, <3>2
    <2>2. CASE Return("start", "ok") \/ Return("start", "refused")
      BY <1>0, <2>2 DEF Inv, Types
    <2> QED BY <2>1, <2>2
  <1>c. \A k \in Mutants : Owed(k)' = Owed(k)
    BY <1>a, <1>b DEF Owed, Trying
  <1>1. Types'
    <2>1. pc' \in [Actors -> Places]
      BY DEF Inv, Types, Places
    <2> QED BY <2>1 DEF Inv, Types
  <1>2. Phases' BY <1>0, <1>a, <1>b DEF Inv, Types, Phases
  <1>3. Passes' BY <1>b DEF Inv, Passes
  <1>4. Trees' BY <1>0 DEF Trees
  <1>5. Hands' BY <1>0, <1>b DEF Inv, Hands, Trying
  <1>6. Held' BY <1>b, <1>c DEF Inv, Held, Trying
  <1>7. Announced' BY DEF Inv, Announced
  <1>8. Accounted'
    <2> SUFFICES ASSUME NEW k \in 1 .. n, k <= next, told[k] = "none"
                 PROVE  (\E v \in Workers : at[v] = k) \/ Owed(k)' \/ Tree(k)'
      BY DEF Accounted
    <2>1. k \in Mutants
      BY NAssumption DEF Inv, Types, Mutants
    <2> QED BY <1>c, <2>1, TreeStays DEF Inv, Accounted
  <1>9. Ended' BY <1>a, <1>b, TreeStays DEF Inv, Ended, Phases
  <1>10. Drained' BY <1>b DEF Inv, Drained
  <1> QED BY <1>1, <1>2, <1>3, <1>4, <1>5, <1>6, <1>7, <1>8, <1>9, <1>10 DEF Inv

\* Every worker has returned.
LEMMA InvJoin ==
  ASSUME Inv, Join
  PROVE  Inv'
  <1> USE ActorFacts DEF Join, options, books, run, Return, Goto
  <1>1. Types' BY DEF Inv, Types, Places
  <1>2. Phases' BY DEF Inv, Types, Phases
  <1>3. Passes' BY DEF Inv, Types, Passes
  <1>4. Trees' BY DEF Inv, Types, Trees, Soiled
  <1>5. Hands' BY DEF Inv, Types, Hands, Trying
  <1>6. Held' BY DEF Inv, Types, Held, Trying, Owed
  <1>7. Announced' BY DEF Inv, Announced
  <1>8. Accounted' BY TreeStays DEF Inv, Types, Accounted, Owed, Trying, Mutants
  <1>9. Ended' BY TreeStays DEF Inv, Types, Ended
  <1>10. Drained' BY DEF Inv, Types, Drained
  <1> QED BY <1>1, <1>2, <1>3, <1>4, <1>5, <1>6, <1>7, <1>8, <1>9, <1>10 DEF Inv

\* Schedule returns.
LEMMA InvFinished ==
  ASSUME Inv, Finished
  PROVE  Inv'
  <1> USE ActorFacts DEF Finished, options, books, run, Return, Goto
  <1>1. Types' BY DEF Inv, Types, Places
  <1>2. Phases' BY DEF Inv, Types, Phases
  <1>3. Passes' BY DEF Inv, Types, Passes
  <1>4. Trees' BY DEF Inv, Types, Trees, Soiled
  <1>5. Hands' BY DEF Inv, Types, Hands, Trying
  <1>6. Held' BY DEF Inv, Types, Held, Trying, Owed
  <1>7. Announced' BY DEF Inv, Announced
  <1>8. Accounted' BY TreeStays DEF Inv, Types, Accounted, Owed, Trying, Mutants
  <1>9. Ended' BY TreeStays DEF Inv, Types, Ended
  <1>10. Drained' BY DEF Inv, Types, Drained
  <1> QED BY <1>1, <1>2, <1>3, <1>4, <1>5, <1>6, <1>7, <1>8, <1>9, <1>10 DEF Inv

\* The context ends.
LEMMA InvCancel ==
  ASSUME Inv, Cancel
  PROVE  Inv'
  <1> USE ActorFacts DEF Cancel, options, books, run, Return, Goto
  <1>1. Types' BY DEF Inv, Types, Places
  <1>2. Phases' BY DEF Inv, Types, Phases
  <1>3. Passes' BY DEF Inv, Types, Passes
  <1>4. Trees' BY DEF Inv, Types, Trees, Soiled
  <1>5. Hands' BY DEF Inv, Types, Hands, Trying
  <1>6. Held' BY DEF Inv, Types, Held, Trying, Owed
  <1>7. Announced' BY DEF Inv, Announced
  <1>8. Accounted' BY TreeStays DEF Inv, Types, Accounted, Owed, Trying, Mutants
  <1>9. Ended' BY TreeStays DEF Inv, Types, Ended
  <1>10. Drained' BY DEF Inv, Types, Drained
  <1> QED BY <1>1, <1>2, <1>3, <1>4, <1>5, <1>6, <1>7, <1>8, <1>9, <1>10 DEF Inv

\* Schedule takes the next mutant held back, in the first worker's tree.
LEMMA InvRetryOne ==
  ASSUME Inv, NEW m \in HeldBack, \A k \in HeldBack : m <= k,
         Start(Main, "retry", m),
         UNCHANGED <<options, cancelled, next, books, failed, result>>
  PROVE  Inv'
  <1> USE ActorFacts DEF Start, options, books, Goto
  <1>0. /\ m \in 1 .. n /\ m \in pending /\ m \in Mutants /\ m > at[Main]
        /\ n \in Nat /\ at[Main] \in Nat
    BY NAssumption DEF Inv, Types, HeldBack, Mutants
  <1>a. /\ pc[Main] = "retry" /\ pc'[Main] = "pass" /\ at'[Main] = m
        /\ \A w \in Workers : pc'[w] = pc[w] /\ at'[w] = at[w] /\ pc[w] = "exited"
    BY DEF Inv, Types, Phases
  <1>b. \A k \in Mutants : Owed(k)' => Owed(k)
    BY <1>0, <1>a DEF Owed, Trying, Mutants
  <1>c. \A k \in Mutants : Owed(k) => Owed(k)'
    <2> SUFFICES ASSUME NEW k \in Mutants, Owed(k) PROVE Owed(k)'
      OBVIOUS
    <2>1. k \in HeldBack
      BY <1>a DEF Owed, Trying, HeldBack
    <2>2. m <= k /\ k \in Nat /\ m \in Nat
      BY <2>1, <1>0 DEF Mutants
    <2> QED BY <1>a, <2>1, <2>2 DEF Owed, Trying, HeldBack
  <1>1. Types' BY <1>0 DEF Inv, Types, Places
  <1>2. Phases' BY <1>0, <1>a DEF Inv, Phases
  <1>3. Passes' BY <1>a DEF Inv, Passes
  <1>4. Trees'
    <2>1. \A w \in dirty : failed
      BY <1>a DEF Inv, Types, Trees, Soiled
    <2> QED BY <1>a, <2>1 DEF Inv, Phases, Trees
  <1>5. Hands' BY <1>a DEF Inv, Hands, Trying
  <1>6. Held'
    <2>1. \A k \in Mutants : Owed(k)' => attempts[k] = <<"timed_out">> /\ k \notin never /\ told[k] = "none"
      BY <1>b DEF Inv, Held
    <2> QED BY <1>0, <1>a, <2>1 DEF Inv, Held
  <1>7. Announced' BY DEF Inv, Announced
  <1>8. Accounted'
    <2> SUFFICES ASSUME NEW k \in 1 .. n, k <= next, told[k] = "none"
                 PROVE  (\E v \in Workers : at'[v] = k) \/ Owed(k)' \/ Tree(k)'
      BY DEF Accounted
    <2>1. k \in Mutants
      BY <1>0, NAssumption DEF Inv, Types, Mutants
    <2> QED BY <1>a, <1>c, <2>1, TreeStays DEF Inv, Accounted
  <1>9. Ended' BY <1>a, TreeStays DEF Inv, Ended
  <1>10. Drained' BY <1>a DEF Inv, Drained
  <1> QED BY <1>1, <1>2, <1>3, <1>4, <1>5, <1>6, <1>7, <1>8, <1>9, <1>10 DEF Inv

\* Once the context is over the mutants held back are given up, one by one.
LEMMA InvRetryNone ==
  ASSUME Inv, NEW m \in HeldBack, \A k \in HeldBack : m <= k,
         cancelled, Goto(Main, "retry", "retry"), at' = [at EXCEPT ![Main] = m],
         Finish(m, "not_run"), UNCHANGED <<whole, out, dirty, attempts, pending>>,
         UNCHANGED <<options, cancelled, next, failed, result>>
  PROVE  Inv'
  <1> USE ActorFacts DEF options, Goto
  <1>0. /\ m \in 1 .. n /\ m \in pending /\ m \in Mutants /\ m > at[Main]
        /\ n \in Nat /\ at[Main] \in Nat
    BY NAssumption DEF Inv, Types, HeldBack, Mutants
  <1>a. /\ pc[Main] = "retry" /\ pc' = pc /\ at'[Main] = m
        /\ \A w \in Workers : at'[w] = at[w] /\ pc[w] = "exited"
    BY DEF Inv, Types, Phases
  <1>b. /\ final' \in [Mutants -> Outcomes] /\ told' \in [Mutants -> Outcomes \cup {"none"}]
        /\ final'[m] = "not_run" /\ told'[m] = "not_run"
        /\ \A k \in Mutants : k # m => final'[k] = final[k] /\ told'[k] = told[k]
    BY <1>0, Announces DEF Inv, Outcomes
  <1>c. \A k \in Mutants : Owed(k)' <=> Owed(k) /\ k # m
    <2> SUFFICES ASSUME NEW k \in Mutants PROVE Owed(k)' <=> Owed(k) /\ k # m
      OBVIOUS
    <2>1. k \in Nat /\ m \in Nat
      BY <1>0 DEF Mutants
    <2>2. Owed(k) => m <= k
      BY <1>a DEF Owed, Trying, HeldBack
    <2> QED BY <1>0, <1>a, <2>1, <2>2 DEF Owed, Trying
  <1>1. Types' BY <1>0, <1>a, <1>b DEF Inv, Types
  <1>2. Phases' BY <1>0, <1>a DEF Inv, Phases
  <1>3. Passes' BY <1>a DEF Inv, Passes
  <1>4. Trees' BY <1>a DEF Inv, Trees, Soiled
  <1>5. Hands'
    <2>1. \A k \in Mutants : k > next => attempts[k] = <<>> /\ told'[k] = "none" /\ k \notin pending
      BY <1>b, <1>0 DEF Inv, Hands
    <2> QED BY <1>a, <2>1 DEF Inv, Hands, Trying
  <1>6. Held'
    <2>1. \A k \in Mutants : Owed(k)' => attempts[k] = <<"timed_out">> /\ k \notin never /\ told'[k] = "none"
      BY <1>b, <1>c DEF Inv, Held
    <2> QED BY <1>a, <2>1 DEF Inv, Held, Trying
  <1>7. Announced' BY <1>b DEF Inv, Announced
  <1>8. Accounted'
    <2> SUFFICES ASSUME NEW k \in 1 .. n, k <= next, told'[k] = "none"
                 PROVE  (\E v \in Workers : at'[v] = k) \/ Owed(k)' \/ Tree(k)'
      BY DEF Accounted
    <2>1. k \in Mutants
      BY <1>0, NAssumption DEF Inv, Types, Mutants
    <2>2. k # m /\ told[k] = "none"
      BY <1>b, <2>1
    <2> QED BY <1>a, <1>c, <2>1, <2>2, TreeStays DEF Inv, Accounted
  <1>9. Ended' BY <1>a, <1>b, TreeStays DEF Inv, Ended
  <1>10. Drained' BY <1>a DEF Inv, Drained
  <1> QED BY <1>1, <1>2, <1>3, <1>4, <1>5, <1>6, <1>7, <1>8, <1>9, <1>10 DEF Inv

\* A retry is filed: a verdict whatever it found, unless its tree was lost.
LEMMA InvRetryBook ==
  ASSUME Inv, RetryBook
  PROVE  Inv'
  <1> USE ActorFacts
  <1> DEFINE m == at[Main]
             o == out[Main]
  <1>n. \A k \in 1 .. n : k \in Mutants
    BY NAssumption DEF Inv, Types, Mutants
  <1>a. /\ pc[Main] = "book" /\ m \in pending /\ m \in Mutants /\ n \in Nat
        /\ o \in PassOutcomes /\ (o = "not_run" => cancelled)
        /\ \A w \in Workers : pc[w] = "exited"
    BY <1>n, NAssumption DEF Inv, Types, Phases, Passes, Held, RetryBook, Trying
  <1>b. Owed(m) /\ attempts[m] = <<"timed_out">> /\ told[m] = "none"
    BY <1>a DEF Inv, Held, Owed, Trying
  <1>c. Record(m, o) /\ Forget(Main)
        /\ UNCHANGED <<options, cancelled, next, at, dirty, pending, failed, result>>
    BY DEF RetryBook
  <1>d. /\ attempts' \in [Mutants -> Seq(PassOutcomes)]
        /\ \A k \in Mutants : k # m => attempts'[k] = attempts[k]
        /\ Len(attempts'[m]) = 2
        /\ \A k \in Mutants : Tree(k)' <=> Tree(k) \/ (k = m /\ o = "tree")
    <2>1. Len(<<"timed_out">>) = 1
      OBVIOUS
    <2>2. Len(attempts[m]) = 1
      BY <1>b, <2>1
    <2>3. Len(attempts'[m]) = Len(attempts[m]) + 1
      BY <1>a, <1>c, Recorded DEF Inv
    <2>4. Len(attempts'[m]) = 2
      BY <2>2, <2>3
    <2> QED BY <1>a, <1>c, <2>4, Recorded DEF Inv
  <1>e. /\ pc' = [pc EXCEPT ![Main] = IF o = "tree" THEN "broken" ELSE "retry"]
        /\ final' \in [Mutants -> Outcomes] /\ told' \in [Mutants -> Outcomes \cup {"none"}]
        /\ \A k \in Mutants : k # m => final'[k] = final[k] /\ told'[k] = told[k]
        /\ told'[m] = "none" => o = "tree"
        /\ final'[m] = IF told'[m] = "none" THEN "not_run" ELSE told'[m]
        /\ told'[m] = "not_run" => cancelled
    <2>1. CASE o = "tree"
      BY <1>a, <1>b, <2>1 DEF RetryBook, Goto, Inv, Types, Announced
    <2>2. CASE o # "tree"
      <3>1. Confirm(m, o) /\ pc' = [pc EXCEPT ![Main] = "retry"]
        BY <2>2 DEF RetryBook, Goto
      <3>2. PICK f \in Outcomes : Finish(m, f) /\ (f = "not_run" => cancelled)
        BY <1>a, <2>2, <3>1 DEF Confirm, Settle, Outcomes, PassOutcomes
      <3> QED BY <1>a, <2>2, <3>1, <3>2, Announces DEF Inv
    <2> QED BY <2>1, <2>2
  <1>f. /\ pc'[Main] = IF o = "tree" THEN "broken" ELSE "retry"
        /\ out'[Main] = "none"
        /\ \A w \in Workers : pc'[w] = pc[w] /\ out'[w] = out[w]
    BY <1>c, <1>e DEF Inv, Types, Forget
  <1>g. \A k \in Mutants : Owed(k)' <=> Owed(k) /\ k # m
    <2> SUFFICES ASSUME NEW k \in Mutants PROVE Owed(k)' <=> Owed(k) /\ k # m
      OBVIOUS
    <2>1. k \in Nat /\ m \in Nat
      BY <1>a DEF Mutants
    <2> QED BY <1>a, <1>c, <1>f, <2>1 DEF Owed, Trying
  <1>1. Types'
    <2>1. whole' \in [Actors -> BOOLEAN] /\ out' \in [Actors -> PassOutcomes \cup {"none"}]
      BY <1>c DEF Inv, Types, Forget
    <2>2. pc' \in [Actors -> Places]
      BY <1>e DEF Inv, Types, Places
    <2> QED BY <1>c, <1>d, <1>e, <2>1, <2>2 DEF Inv, Types, options
  <1>2. Phases' BY <1>a, <1>c, <1>f DEF Inv, Phases, options
  <1>3. Passes' BY <1>c, <1>f DEF Inv, Passes
  <1>4. Trees'
    <2>1. ~failed
      BY <1>a DEF Inv, Phases
    <2>2. \A w \in dirty : w = 0 /\ Soiled(Main)
      BY <1>a, <2>1 DEF Inv, Types, Trees, Soiled
    <2>3. Soiled(Main) => Soiled(Main)'
      BY <1>a, <1>f DEF Soiled
    <2> QED BY <1>a, <1>c, <1>f, <2>2, <2>3 DEF Trees
  <1>5. Hands'
    <2>1. \A k \in Mutants : k > next => k # m
      BY <1>a, <1>b DEF Inv, Hands
    <2> QED BY <1>a, <1>c, <1>d, <1>e, <1>f, <2>1 DEF Inv, Hands, Trying, options
  <1>6. Held'
    <2>1. ~Trying(Main)'
      BY <1>f DEF Trying
    <2>2. \A k \in Mutants : Owed(k)' => attempts'[k] = <<"timed_out">> /\ k \notin never' /\ told'[k] = "none"
      BY <1>c, <1>d, <1>e, <1>g DEF Inv, Held, options
    <2>3. ASSUME NEW k \in Mutants PROVE Len(attempts'[k]) <= 2
      <3>1. CASE k = m
        <4>1. Len(attempts'[m]) = 2
          BY <1>d
        <4> QED BY <3>1, <4>1
      <3>2. CASE k # m BY <1>d, <3>2 DEF Inv, Held
      <3> QED BY <3>1, <3>2
    <2> QED BY <2>1, <2>2, <2>3 DEF Held
  <1>7. Announced' BY <1>e DEF Inv, Announced
  <1>8. Accounted'
    <2> SUFFICES ASSUME NEW k \in 1 .. n, k <= next, told'[k] = "none"
                 PROVE  (\E v \in Workers : at'[v] = k) \/ Owed(k)' \/ Tree(k)'
      BY <1>c DEF Accounted, options
    <2>0. k \in Mutants
      BY <1>n
    <2>1. CASE k = m BY <1>d, <1>e, <2>0, <2>1
    <2>2. CASE k # m BY <1>c, <1>d, <1>e, <1>g, <2>0, <2>2 DEF Inv, Accounted
    <2> QED BY <2>1, <2>2
  <1>9. Ended'
    <2>1. \A k \in Mutants : Tree(k)' => failed \/ o = "tree"
      BY <1>a, <1>d DEF Inv, Ended
    <2>2. o = "tree" => \E k \in Mutants : Tree(k)'
      BY <1>a, <1>d
    <2>3. failed => \E k \in Mutants : Tree(k)'
      BY <1>d DEF Inv, Ended
    <2>4. \A k \in Mutants : told'[k] = "not_run" => cancelled
      BY <1>e DEF Inv, Ended
    <2> QED BY <1>c, <1>f, <2>1, <2>2, <2>3, <2>4 DEF Ended
  <1>10. Drained' BY <1>a, <1>c, <1>f DEF Inv, Drained, options
  <1> QED BY <1>1, <1>2, <1>3, <1>4, <1>5, <1>6, <1>7, <1>8, <1>9, <1>10 DEF Inv


\* Every step of the phase keeps the invariant.
LEMMA InvStep == Inv /\ [Next]_vars => Inv'
  <1> SUFFICES ASSUME Inv, [Next]_vars PROVE Inv'
    OBVIOUS
  <1>1. ASSUME NEW a \in Actors, RunOne(a) PROVE Inv'
    BY <1>1, InvPassRefuse, InvPassStart, InvPassEnd, InvRestore, InvRestoreFail DEF RunOne
  <1>2. ASSUME NEW w \in Workers, Take(w) PROVE Inv'
    <2>1. CASE next < n /\ next' = next + 1 /\ Start(w, "take", next + 1)
      BY <1>2, <2>1, InvTakeOne DEF Take
    <2>2. CASE next >= n /\ next' = next + 1 /\ Goto(w, "take", "exited") /\ UNCHANGED <<at, whole, out, dirty>>
      BY <1>2, <2>2, InvTakeNone DEF Take
    <2> QED BY <1>2, <2>1, <2>2 DEF Take
  <1>3. ASSUME NEW w \in Workers, WorkerStep(w) PROVE Inv'
    BY <1>1, <1>2, <1>3, ActorFacts, InvPoll, InvBook DEF WorkerStep
  <1>4. CASE Retry
    <2>1. PICK m \in HeldBack :
            /\ \A k \in HeldBack : m <= k
            /\ \/ ~cancelled /\ Start(Main, "retry", m) /\ UNCHANGED books
               \/ /\ cancelled /\ Goto(Main, "retry", "retry")
                  /\ at' = [at EXCEPT ![Main] = m]
                  /\ Finish(m, "not_run")
                  /\ UNCHANGED <<whole, out, dirty, attempts, pending>>
      BY <1>4 DEF Retry
    <2>2. CASE Start(Main, "retry", m) /\ UNCHANGED books
      BY <1>4, <2>1, <2>2, InvRetryOne DEF Retry
    <2>3. CASE ~(Start(Main, "retry", m) /\ UNCHANGED books)
      BY <1>4, <2>1, <2>3, InvRetryNone DEF Retry
    <2> QED BY <2>2, <2>3
  <1>5. CASE MainStep
    BY <1>1, <1>4, <1>5, ActorFacts, InvBegin, InvJoin, InvRetryBook, InvFinished DEF MainStep
  <1>6. CASE UNCHANGED vars
    <2> USE <1>6 DEF vars, options, books, run
    <2>1. \A a : Trying(a)' = Trying(a) /\ Soiled(a)' = Soiled(a) /\ Owed(a)' = Owed(a) /\ Tree(a)' = Tree(a)
      BY DEF Trying, Soiled, Owed, Tree
    <2>2. Types' /\ Phases' /\ Passes'
      BY DEF Inv, Types, Phases, Passes
    <2>3. Trees' /\ Hands' /\ Held'
      BY <2>1 DEF Inv, Trees, Hands, Held
    <2>4. Announced' /\ Accounted' /\ Ended' /\ Drained'
      BY <2>1 DEF Inv, Announced, Accounted, Ended, Drained
    <2> QED BY <2>2, <2>3, <2>4 DEF Inv
  <1> QED BY <1>3, <1>5, <1>6, InvCancel DEF Next, Done

\* The state is always of its declared shape, and a mutant is attempted at most
\* twice: the books of the phase (schedule.go's results).
LEMMA InvTypeOK == Inv => TypeOK
  <1> SUFFICES ASSUME Inv PROVE TypeOK
    OBVIOUS
  <1>1. \A m \in Mutants : Len(attempts[m]) <= 2 /\ \A k \in DOMAIN attempts[m] : attempts[m][k] \in PassOutcomes
    BY DEF Inv, Types, Held
  <1> QED BY <1>1 DEF Inv, Types, TypeOK

\* The invariant is an invariant of the phase.
THEOREM Invariance == Spec => []Inv
  BY InvInit, InvStep, PTL DEF Spec

\* No worker reads past the queue, and no mutant is attempted a third time
\* (schedule.go's counter, and the retry loop over what was held back).
THEOREM TypeCorrect == Spec => []TypeOK
  BY Invariance, InvTypeOK, PTL

\* An outcome is worth what it says, whatever the workers do: every pass starts
\* in a tree that was put back (run.go's restore), a retry runs alone after
\* wg.Wait, and what Schedule returns is what the hooks announced.
THEOREM OutcomesEarned == Spec => []OutcomesAreEarned
  <1>1. Inv => FreshTree
    <2> SUFFICES ASSUME Inv, NEW a \in Actors, pc[a] = "pass", Slot(a) \in dirty PROVE FALSE
      BY DEF FreshTree
    <2>1. CASE a \in Workers
      BY <2>1, ActorFacts DEF Inv, Trees, Soiled
    <2>2. CASE a = Main
      <3>1. pc[0] = "exited" /\ ~failed
        BY <2>2, ActorFacts DEF Inv, Phases
      <3> QED BY <2>2, <3>1, ActorFacts DEF Inv, Trees, Soiled
    <2> QED BY <2>1, <2>2, ActorFacts
  <1>2. Inv => RetryAlone
    BY DEF Inv, Phases, RetryAlone
  <1>3. Inv => ReturnedIsAnnounced
    BY DEF Inv, Announced, ReturnedIsAnnounced
  <1> QED BY <1>1, <1>2, <1>3, Invariance, PTL DEF OutcomesAreEarned

-----------------------------------------------------------------------------
(* Schedule implements Verdicts. *)

\* The phase starts as a run that has promised nothing yet.
LEMMA InitMaps == Init => V!Init
  <1> SUFFICES ASSUME Init PROVE V!Init
    OBVIOUS
  <1> QED BY NAssumption DEF Init, V!Init, Mutants

\* What Verdicts calls broken is a tree that was lost.
LEMMA BrokenMaps == V!Broken <=> \E m \in Mutants : Tree(m)
  BY DEF V!Broken, Tree

\* A pass, a poll, a taken mutant are nothing to Verdicts.
LEMMA WorkMaps ==
  ASSUME UNCHANGED <<options, cancelled, books, result>>
  PROVE  UNCHANGED V!vars
  BY DEF options, books, V!vars

\* A worker's filed attempt is an observation.
LEMMA BookMaps ==
  ASSUME Inv, NEW w \in Workers, Book(w)
  PROVE  V!Observe(at[w], out[w]) /\ at[w] \in Mutants /\ out[w] \in V!Observations
  <1>1. /\ at[w] \in 1 .. n /\ at[w] \in Mutants /\ attempts[at[w]] = <<>> /\ told[at[w]] = "none"
    BY NAssumption DEF Inv, Types, Hands, Book, Trying, Mutants
  <1>2. result = "running"
    BY DEF Inv, Phases, Book
  <1>3. out[w] \in PassOutcomes /\ (out[w] = "not_run" => cancelled)
    BY ActorFacts DEF Inv, Types, Passes, Book
  <1>4. /\ attempts' = [attempts EXCEPT ![at[w]] = Append(@, out[w])]
        /\ UNCHANGED <<n, never, cancelled, result>>
    BY DEF Book, Record, options
  <1>5. IF out[w] = "tree" \/ (out[w] = "timed_out" /\ at[w] \notin never)
        THEN told' = told
        ELSE told' = [told EXCEPT ![at[w]] = V!Judgement(TRUE, out[w])]
    <2>1. CASE out[w] = "tree" BY <2>1 DEF Book
    <2>2. CASE out[w] \notin {"tree", "timed_out", "diverged"}
      BY <1>3, <2>2 DEF Book, Settle, Finish, V!Judgement, PassOutcomes
    <2>3. CASE out[w] = "timed_out" /\ at[w] \notin never
      BY <2>3 DEF Book, HoldBack
    <2>4. CASE out[w] = "diverged" \/ (out[w] = "timed_out" /\ at[w] \in never)
      BY <2>4 DEF Book, Confirm, Finish, V!Judgement
    <2> QED BY <2>1, <2>2, <2>3, <2>4
  <1>6. V!Observe(at[w], out[w])
    BY <1>1, <1>2, <1>3, <1>4, <1>5 DEF V!Observe
  <1> QED BY <1>1, <1>3, <1>6 DEF V!Observations, PassOutcomes

\* A retry's filed attempt is the second observation.
LEMMA RetryBookMaps ==
  ASSUME Inv, RetryBook
  PROVE  V!Observe(at[Main], out[Main]) /\ at[Main] \in Mutants /\ out[Main] \in V!Observations
  <1>1. /\ at[Main] \in 1 .. n /\ at[Main] \in Mutants /\ at[Main] \notin never
        /\ attempts[at[Main]] = <<"timed_out">> /\ told[at[Main]] = "none"
    <2>1. at[Main] \in pending /\ Trying(Main)
      BY DEF Inv, Held, RetryBook, Trying
    <2>2. \A k \in 1 .. n : k \in Mutants
      BY NAssumption DEF Inv, Types, Mutants
    <2>3. at[Main] \in 1 .. n
      BY <2>1 DEF Inv, Types
    <2> QED BY <2>1, <2>2, <2>3 DEF Inv, Held, Owed
  <1>2. result = "running"
    BY DEF Inv, Phases, RetryBook
  <1>3. out[Main] \in PassOutcomes /\ (out[Main] = "not_run" => cancelled)
    BY ActorFacts DEF Inv, Types, Passes, RetryBook
  <1>4. /\ attempts' = [attempts EXCEPT ![at[Main]] = Append(@, out[Main])]
        /\ UNCHANGED <<n, never, cancelled, result>>
    BY DEF RetryBook, Record, options
  <1>5. IF out[Main] = "tree" THEN told' = told
        ELSE told' = [told EXCEPT ![at[Main]] = V!Judgement(FALSE, out[Main])]
    BY <1>3 DEF RetryBook, Confirm, Settle, Finish, V!Judgement, PassOutcomes
  <1>6. <<"timed_out">> # <<>>
    OBVIOUS
  <1>7. V!Observe(at[Main], out[Main])
    BY <1>1, <1>2, <1>3, <1>4, <1>5, <1>6 DEF V!Observe, V!Unconfirmed
  <1> QED BY <1>1, <1>3, <1>7 DEF V!Observations, PassOutcomes

\* A mutant held back is given up only when the run is told to stop.
LEMMA RetryMaps ==
  ASSUME Inv, Retry
  PROVE  (\E m \in Mutants : V!GiveUp(m)) \/ UNCHANGED V!vars
  <1>1. PICK m \in HeldBack :
          \/ UNCHANGED books
          \/ /\ cancelled /\ Goto(Main, "retry", "retry")
             /\ Finish(m, "not_run") /\ UNCHANGED <<attempts, pending>>
    BY DEF Retry
  <1>2. UNCHANGED <<options, cancelled, result>>
    BY DEF Retry
  <1>3. CASE UNCHANGED books BY <1>2, <1>3, WorkMaps
  <1>4. CASE cancelled /\ Goto(Main, "retry", "retry") /\ Finish(m, "not_run") /\ UNCHANGED <<attempts, pending>>
    <2>1. m \in 1 .. n /\ m \in Mutants /\ Owed(m)
      BY NAssumption DEF Inv, Types, HeldBack, Owed, Mutants
    <2>2. /\ attempts[m] = <<"timed_out">> /\ m \notin never /\ told[m] = "none" /\ result = "running"
      BY <1>4, <2>1 DEF Inv, Held, Phases, Goto
    <2>3. V!GiveUp(m)
      BY <1>2, <1>4, <2>1, <2>2 DEF V!GiveUp, V!Unconfirmed, Finish, options
    <2> QED BY <2>1, <2>3
  <1> QED BY <1>1, <1>3, <1>4

\* Schedule refuses a run without binaries before anything was tried, and has
\* kept every promise when nothing was selected.
LEMMA BeginMaps ==
  ASSUME Inv, Begin
  PROVE  V!End \/ UNCHANGED V!vars
  <1>1. CASE UNCHANGED result BY <1>1, WorkMaps DEF Begin
  <1>2. CASE Return("start", "ok") /\ n = 0
    <2>1. ~V!Broken /\ result = "running"
      BY <1>2, BrokenMaps DEF Inv, Ended, Phases, Return, Goto
    <2>2. 1 .. n = {}
      BY <1>2
    <2> QED BY <1>2, <2>1, <2>2 DEF Begin, Return, V!End, options, books
  <1>3. CASE Return("start", "refused") /\ n > 0
    <2>1. result = "running" /\ (\A m \in Mutants : attempts[m] = <<>>)
      BY <1>3 DEF Inv, Drained, Phases, Return, Goto
    <2>2. 1 \in 1 .. n
      BY <1>3 DEF Inv, Types
    <2> QED BY <1>3, <2>1, <2>2 DEF Begin, Return, V!End, options, books
  <1> QED BY <1>1, <1>2, <1>3 DEF Begin

\* A worker that lost a tree ends the phase once the others have returned.
LEMMA JoinMaps ==
  ASSUME Inv, Join
  PROVE  V!End \/ UNCHANGED V!vars
  <1>1. CASE failed /\ Return("wait", "broken")
    <2>1. V!Broken /\ result = "running"
      BY <1>1, BrokenMaps DEF Inv, Ended, Phases, Return, Goto
    <2> QED BY <1>1, <2>1 DEF Join, Return, V!End, options, books
  <1>2. CASE UNCHANGED result BY <1>2, WorkMaps DEF Join
  <1> QED BY <1>1, <1>2 DEF Join

\* No error means that every mutant has its verdict.
LEMMA FinishedMaps ==
  ASSUME Inv, Finished
  PROVE  V!End
  <1>0. result = "running" /\ UNCHANGED <<n, never, attempts, told, cancelled>>
    BY DEF Inv, Phases, Finished, Return, Goto, options, books
  <1>1. CASE Return("broken", "broken")
    <2>1. V!Broken
      BY <1>1, BrokenMaps DEF Inv, Ended, Return, Goto
    <2> QED BY <1>0, <1>1, <2>1 DEF Return, V!End
  <1>2. CASE HeldBack = {} /\ cancelled /\ Return("retry", "interrupted")
    <2>1. ~V!Broken
      BY <1>2, BrokenMaps DEF Inv, Ended, Phases, Return, Goto
    <2> QED BY <1>0, <1>2, <2>1 DEF Return, V!End
  <1>3. CASE HeldBack = {} /\ ~cancelled /\ Return("retry", "ok")
    <2>0. pc[Main] = "retry" /\ ~failed
      BY <1>3 DEF Inv, Phases, Return, Goto
    <2>1. ~V!Broken
      BY <2>0, BrokenMaps DEF Inv, Ended
    <2>2. next >= n
      BY <1>3, <2>0, ActorFacts DEF Inv, Phases, Drained
    <2>3. ASSUME NEW m \in 1 .. n PROVE told[m] \notin {"none", "not_run"}
      <3>1. m \in Mutants /\ m <= next /\ m # 0
        BY <2>2, NAssumption DEF Inv, Types, Mutants
      <3>2. told[m] # "not_run"
        BY <1>3, <3>1 DEF Inv, Ended
      <3>3. \A w \in Workers : at[w] # m
        BY <2>0, <3>1 DEF Inv, Phases, Hands, Trying
      <3>4. ~Owed(m)
        BY <1>3, <2>0 DEF Owed, Trying, HeldBack
      <3>5. ~Tree(m)
        BY <2>0, <3>1 DEF Inv, Ended
      <3> QED BY <3>1, <3>2, <3>3, <3>4, <3>5 DEF Inv, Accounted
    <2> QED BY <1>0, <1>3, <2>1, <2>3 DEF Return, V!End
  <1> QED BY <1>1, <1>2, <1>3 DEF Finished

\* Every step of the phase is a step of Verdicts, or nothing to it.
LEMMA StepMaps == Inv /\ [Next]_vars => [V!Next]_(V!vars)
  <1> SUFFICES ASSUME Inv, [Next]_vars PROVE V!Next \/ UNCHANGED V!vars
    OBVIOUS
  <1>1. ASSUME NEW a \in Actors, RunOne(a) PROVE UNCHANGED V!vars
    BY <1>1, WorkMaps DEF RunOne, PassRefuse, PassStart, PassEnd, Restore, RestoreFail
  <1>2. ASSUME NEW w \in Workers, WorkerStep(w) PROVE V!Next \/ UNCHANGED V!vars
    <2>1. CASE Poll(w) \/ Take(w) BY <2>1, WorkMaps DEF Poll, Take
    <2>2. CASE RunOne(w) BY <1>1, <2>2, ActorFacts
    <2>3. CASE Book(w) BY <2>3, BookMaps DEF V!Next
    <2> QED BY <1>2, <2>1, <2>2, <2>3 DEF WorkerStep
  <1>3. CASE MainStep
    BY <1>1, <1>3, ActorFacts, BeginMaps, JoinMaps, RetryMaps, RetryBookMaps, FinishedMaps
    DEF MainStep, V!Next
  <1>4. CASE Cancel
    BY <1>4 DEF Cancel, V!Next, V!Interrupt, options, books
  <1>5. CASE UNCHANGED vars
    BY <1>5, WorkMaps DEF vars
  <1> QED BY <1>2, <1>3, <1>4, <1>5 DEF Next, Done

\* The execution phase implements its promise, for any number of mutants and
\* workers: a verdict is given once and follows from the attempts, a first
\* timeout alone decides nothing, and no error means that every selected mutant
\* has a verdict (execute.Schedule).
THEOREM Implements == Spec => ImplementsVerdicts
  <1>1. Spec => [][V!Next]_(V!vars)
    BY Invariance, StepMaps, PTL DEF Spec
  <1> QED BY <1>1, InitMaps, PTL DEF Spec, ImplementsVerdicts, V!Spec

-----------------------------------------------------------------------------
(* OutcomeCache: a stored outcome stands for a measurement, whoever stored  *)
(* it and under which limits.                                               *)

IdleUser == {CacheUser0}
BusyUser == [at : {"lookup", "measure"}, key : CacheKeys, timeout : TimeLimits,
             memory : MemoryLimits, caching : BOOLEAN, hit : {FALSE}]
StoredVerdicts == {"killed", "survived", "timed_out", "errored"}
ReportingUser == [at : {"done"}, key : CacheKeys, timeout : TimeLimits, memory : MemoryLimits,
                  caching : BOOLEAN, hit : BOOLEAN, says : StoredVerdicts, unbounded : BOOLEAN]

Entries == [key : CacheKeys, outcome : StoredVerdicts, exceeded : BOOLEAN, diverged : BOOLEAN,
            duration : Nat, timeout : TimeLimits, memory : MemoryLimits, old : BOOLEAN]

\* An entry holds what its own run measured under its own limits.
MeasuredOnce(e) ==
  LET m == Measured(nature[e.key], e.timeout, e.memory)
  IN /\ e.outcome = m.outcome /\ e.exceeded = m.exceeded
     /\ e.diverged = m.diverged /\ e.duration = m.duration
     /\ Cacheable(e.outcome)

\* What a run says is its own measurement, or an entry's that had no bound.
SaysRight(u) ==
  \/ u.says = Measured(nature[u.key], u.timeout, u.memory).outcome
  \/ u.hit /\ u.unbounded /\ u.memory > 0

CacheTypes ==
  /\ nature \in [CacheKeys -> Natures]
  /\ filed = NoFile \/ filed \in Entries
  /\ user \in [CacheRuns -> IdleUser \cup BusyUser \cup ReportingUser]

CacheInv ==
  /\ CacheTypes
  /\ filed /= NoFile => MeasuredOnce(filed)
  /\ \A r \in CacheRuns : user[r] \in ReportingUser => SaysRight(user[r])

\* A stored entry that the two tests let through says what a measurement under
\* the other limits would say, unless it was made without a memory bound
\* (UsableUnder, UsableWithin).
LEMMA Reuse ==
  ASSUME NEW does \in Natures, NEW e \in Entries, NEW t \in TimeLimits, NEW b \in MemoryLimits,
         LET m == Measured(does, e.timeout, e.memory)
         IN /\ e.outcome = m.outcome /\ e.exceeded = m.exceeded
            /\ e.diverged = m.diverged /\ e.duration = m.duration,
         Cacheable(e.outcome), UsableUnder(e, t), UsableWithin(e, b)
  PROVE  e.outcome = Measured(does, t, b).outcome \/ (e.memory = 0 /\ b > 0)
<1> DEFINE exceeds(u, l) == l > 0 /\ does.peak > l /\ does.swell <= u
           ends(u) == does.time <= u
<1>1. /\ does.time \in Nat /\ does.swell \in Nat /\ does.peak \in Nat
      /\ does.verdict \in {"killed", "survived", "diverged", "errored"}
      /\ does.swell <= does.time
      /\ e.timeout \in Nat /\ e.memory \in Nat /\ t \in Nat /\ b \in Nat
  BY OutcomeCacheAssumption DEF Entries
<1>2. ASSUME NEW u \in Nat, NEW l \in Nat
      PROVE  /\ exceeds(u, l) => Measured(does, u, l) =
                  [outcome |-> "killed", exceeded |-> TRUE, diverged |-> FALSE, duration |-> does.swell]
             /\ ~exceeds(u, l) /\ ends(u) /\ does.verdict = "diverged" => Measured(does, u, l) =
                  [outcome |-> "timed_out", exceeded |-> FALSE, diverged |-> TRUE, duration |-> does.time]
             /\ ~exceeds(u, l) /\ ends(u) /\ does.verdict /= "diverged" => Measured(does, u, l) =
                  [outcome |-> does.verdict, exceeded |-> FALSE, diverged |-> FALSE, duration |-> does.time]
             /\ ~exceeds(u, l) /\ ~ends(u) => Measured(does, u, l) =
                  [outcome |-> "timed_out", exceeded |-> FALSE, diverged |-> FALSE, duration |-> u]
  BY <1>1, <1>2 DEF Measured
<1>3. CASE exceeds(e.timeout, e.memory)
  <2>1. /\ e.outcome = "killed" /\ e.exceeded /\ ~e.diverged /\ e.duration = does.swell
    BY <1>1, <1>2, <1>3
  <2>2. does.swell <= t /\ b > 0 /\ b <= e.memory
    BY <2>1, <1>1 DEF UsableUnder, UsableWithin
  <2>3. exceeds(t, b)
    BY <2>2, <1>1, <1>3
  <2> QED BY <2>1, <2>3, <1>1, <1>2
<1>4. CASE ~exceeds(e.timeout, e.memory) /\ ends(e.timeout) /\ does.verdict = "diverged"
  <2>1. e.outcome = "timed_out" /\ ~e.exceeded /\ e.diverged /\ e.duration = does.time
    BY <1>1, <1>2, <1>4
  <2>2. e.memory = 0 \/ b = 0 \/ b >= e.memory
    BY <2>1, <1>1 DEF UsableWithin
  <2> QED BY <2>1, <2>2, <1>1, <1>2, <1>4
<1>5. CASE ~exceeds(e.timeout, e.memory) /\ ends(e.timeout) /\ does.verdict /= "diverged"
  <2>1. e.outcome = does.verdict /\ ~e.exceeded /\ ~e.diverged /\ e.duration = does.time
    BY <1>1, <1>2, <1>5
  <2>2. does.time <= t /\ (e.memory = 0 \/ does.verdict = "killed" \/ b = 0 \/ b >= e.memory)
    BY <2>1, <1>1 DEF UsableUnder, UsableWithin
  <2> QED BY <2>1, <2>2, <1>1, <1>2, <1>5
<1>6. CASE ~exceeds(e.timeout, e.memory) /\ ~ends(e.timeout)
  <2>1. e.outcome = "timed_out" /\ ~e.exceeded /\ ~e.diverged
    BY <1>1, <1>2, <1>6
  <2>2. t <= e.timeout /\ (e.memory = 0 \/ b = 0 \/ b >= e.memory)
    BY <2>1, <1>1 DEF UsableUnder, UsableWithin
  <2> QED BY <2>1, <2>2, <1>1, <1>2, <1>6
<1> QED BY <1>3, <1>4, <1>5, <1>6

\* A run's record says where it is.
LEMMA UserPlaces ==
  /\ \A u \in IdleUser : u.at = "idle"
  /\ \A u \in BusyUser : u.at \in {"lookup", "measure"}
  /\ \A u \in ReportingUser : u.at = "done"
<1>1. \A u \in IdleUser : u.at = "idle"
  BY DEF IdleUser, CacheUser0
<1>2. \A u \in BusyUser : u.at \in {"lookup", "measure"}
  BY DEF BusyUser
<1>3. \A u \in ReportingUser : u.at = "done"
  BY DEF ReportingUser
<1> QED BY <1>1, <1>2, <1>3

LEMMA CacheStart == OutcomeCacheInit => CacheInv
  BY DEF OutcomeCacheInit, CacheInv, CacheTypes, IdleUser, BusyUser, ReportingUser, CacheUser0

LEMMA CacheStep == CacheInv /\ [OutcomeCacheNext]_cacheVars => CacheInv'
<1> SUFFICES ASSUME CacheInv, [OutcomeCacheNext]_cacheVars PROVE CacheInv'
  OBVIOUS
<1> USE DEF CacheInv, CacheTypes
<1>s. ASSUME NEW r \in CacheRuns, user' = [user EXCEPT ![r] = user'[r]], UNCHANGED nature,
             user'[r] \in BusyUser \cup ReportingUser, user'[r] \in ReportingUser => SaysRight(user'[r]),
             filed' = NoFile \/ filed' \in Entries, filed' /= NoFile => MeasuredOnce(filed')
      PROVE  CacheInv'
  BY <1>s DEF SaysRight, MeasuredOnce
<1>f. ASSUME UNCHANGED <<nature, user>>,
             filed' = NoFile \/ filed' \in Entries, filed' /= NoFile => MeasuredOnce(filed')
      PROVE  CacheInv'
  BY <1>f DEF SaysRight, MeasuredOnce
<1>1. ASSUME NEW r \in CacheRuns, OpenCache(r) PROVE CacheInv'
  <2>1. user' = [user EXCEPT ![r] = user'[r]] /\ user'[r] \in BusyUser
    <3>1. PICK key \in CacheKeys, t \in TimeLimits, m \in MemoryLimits, opened \in BOOLEAN :
            user' = [user EXCEPT ![r] = [at |-> IF opened THEN "lookup" ELSE "measure", key |-> key,
                       timeout |-> t, memory |-> m, caching |-> opened, hit |-> FALSE]]
      BY <1>1 DEF OpenCache
    <3>2. [at |-> IF opened THEN "lookup" ELSE "measure", key |-> key,
           timeout |-> t, memory |-> m, caching |-> opened, hit |-> FALSE] \in BusyUser
      BY DEF BusyUser
    <3> QED BY <3>1, <3>2
  <2>2. user'[r] \notin ReportingUser
    BY <2>1 DEF BusyUser, ReportingUser
  <2> QED BY <1>1, <2>1, <2>2, <1>s DEF OpenCache
<1>2. ASSUME NEW r \in CacheRuns, Lookup(r) PROVE CacheInv'
  <2>1. user[r] \in BusyUser
    BY <1>2, UserPlaces DEF Lookup
  <2>2. CASE /\ filed /= NoFile /\ CheckEntry(filed, user[r].key)
             /\ UsableUnder(filed, user[r].timeout) /\ UsableWithin(filed, user[r].memory)
    <3>1. user' = [user EXCEPT ![r] = [at |-> "done", key |-> user[r].key, timeout |-> user[r].timeout,
                     memory |-> user[r].memory, caching |-> TRUE, hit |-> TRUE,
                     says |-> filed.outcome, unbounded |-> filed.memory = 0]]
      BY <1>2, <2>2 DEF Lookup
    <3>2. filed \in Entries /\ MeasuredOnce(filed) /\ filed.key = user[r].key
      BY <2>2 DEF CheckEntry
    <3>3. user'[r] \in ReportingUser
      BY <3>1, <3>2, <2>1 DEF ReportingUser, BusyUser, Entries
    <3>4. nature[user[r].key] \in Natures
      BY <2>1 DEF BusyUser
    <3>5. \/ filed.outcome = Measured(nature[user[r].key], user[r].timeout, user[r].memory).outcome
          \/ filed.memory = 0 /\ user[r].memory > 0
      BY <2>1, <2>2, <3>2, <3>4, Reuse DEF BusyUser, MeasuredOnce
    <3>6. SaysRight(user'[r])
      BY <3>1, <3>5 DEF SaysRight
    <3> QED BY <1>2, <3>1, <3>3, <3>6, <1>s DEF Lookup, SaysRight, MeasuredOnce
  <2>3. CASE user' = [user EXCEPT ![r].at = "measure"]
    <3>1. user'[r] \in BusyUser /\ user' = [user EXCEPT ![r] = user'[r]]
      BY <2>1, <2>3 DEF BusyUser
    <3>2. user'[r] \notin ReportingUser
      BY <3>1 DEF BusyUser, ReportingUser
    <3> QED BY <1>2, <3>1, <3>2, <1>s DEF Lookup, MeasuredOnce
  <2> QED BY <1>2, <2>2, <2>3 DEF Lookup, Becomes
<1>3. ASSUME NEW r \in CacheRuns, Put(r) PROVE CacheInv'
  <2> DEFINE m == Measurement(r)
             entry == [key |-> user[r].key, outcome |-> m.outcome, exceeded |-> m.exceeded,
                       diverged |-> m.diverged, duration |-> m.duration,
                       timeout |-> user[r].timeout, memory |-> user[r].memory, old |-> FALSE]
  <2>1. user[r] \in BusyUser
    BY <1>3, UserPlaces DEF Put
  <2>2. nature[user[r].key] \in Natures
    BY <2>1 DEF BusyUser
  <2>3. m.outcome \in StoredVerdicts /\ m.exceeded \in BOOLEAN /\ m.diverged \in BOOLEAN /\ m.duration \in Nat
    BY <2>1, <2>2, OutcomeCacheAssumption DEF BusyUser, Measurement, Measured, StoredVerdicts
  <2>4. user' = [user EXCEPT ![r] = user'[r]] /\ user'[r] \in ReportingUser /\ SaysRight(user'[r])
    <3>1. user' = [user EXCEPT ![r] = [at |-> "done", key |-> user[r].key, timeout |-> user[r].timeout,
                      memory |-> user[r].memory, caching |-> user[r].caching, hit |-> FALSE,
                      says |-> m.outcome, unbounded |-> FALSE]]
      BY <1>3 DEF Put
    <3> HIDE DEF m
    <3>2. user'[r] \in ReportingUser
      BY <3>1, <2>1, <2>3 DEF BusyUser, ReportingUser
    <3>3. SaysRight(user'[r])
      BY <3>1 DEF SaysRight, m, Measurement
    <3> QED BY <3>1, <3>2, <3>3
  <2>5. filed' = filed \/ (filed' = entry /\ CheckEntry(entry, user[r].key))
    BY <1>3 DEF Put
  <2>6. entry \in Entries
    BY <2>1, <2>3 DEF BusyUser, Entries
  <2>7. CheckEntry(entry, user[r].key) => MeasuredOnce(entry)
    BY DEF CheckEntry, MeasuredOnce, Measurement
  <2>8. UNCHANGED nature
    BY <1>3 DEF Put
  <2> QED BY <2>4, <2>5, <2>6, <2>7, <2>8, <1>s DEF SaysRight, MeasuredOnce
<1>4. ASSUME EntryAges PROVE CacheInv'
  <2>1. filed \in Entries /\ filed' = [filed EXCEPT !.old = TRUE] /\ MeasuredOnce(filed)
    BY <1>4 DEF EntryAges
  <2>2. filed' \in Entries /\ UNCHANGED <<nature, user>>
    BY <1>4, <2>1 DEF EntryAges, Entries
  <2>3. MeasuredOnce(filed')
    BY <2>1, <2>2 DEF MeasuredOnce, Entries
  <2> QED BY <2>2, <2>3, <1>f DEF MeasuredOnce
<1>5. ASSUME Collect \/ CleanOutcomes PROVE CacheInv'
  <2>1. UNCHANGED <<nature, user>> /\ (filed' = filed \/ filed' = NoFile)
    BY <1>5 DEF Collect, CleanOutcomes
  <2> QED BY <2>1, <1>f DEF MeasuredOnce
<1>6. ASSUME UNCHANGED cacheVars PROVE CacheInv'
  BY <1>6, <1>f DEF cacheVars, MeasuredOnce
<1> QED BY <1>1, <1>2, <1>3, <1>4, <1>5, <1>6 DEF OutcomeCacheNext

\* Whatever other runs stored, aged and collected meanwhile, a run says of its
\* mutant what it would have measured itself.
THEOREM CachedRemeasured == OutcomeCacheSpec => []CachedIsRemeasured
<1>1. CacheInv => CachedIsRemeasured
  BY UserPlaces DEF CacheInv, CacheTypes, CachedIsRemeasured, SaysRight, Measurement
<1> QED BY <1>1, CacheStart, CacheStep, PTL DEF OutcomeCacheSpec

-----------------------------------------------------------------------------
(* Facts about sets of numbers and about sequences.                         *)

\* A set of numbers has a least one.
LEMMA LeastIsThere == ASSUME NEW S, S \subseteq Nat, S /= {} PROVE \E x \in S : \A y \in S : x <= y
<1>1. PICK x \in S : \A y \in S : ~ (<<y, x>> \in OpToRel(<, Nat))
  BY NatLessThanWellFounded, WFMin
<1>2. ASSUME NEW y \in S PROVE x <= y
  <2>1. x \in Nat /\ y \in Nat /\ ~ (<<y, x>> \in OpToRel(<, Nat))
    BY <1>1
  <2>2. y < x => <<y, x>> \in OpToRel(<, Nat)
    BY <2>1 DEF OpToRel
  <2>3. ~(y < x)
    BY <2>1, <2>2, Zenon
  <2>4. x \in Nat /\ y \in Nat
    BY <2>1
  <2> QED BY ONLY <2>3, <2>4
<1> QED BY <1>2

\* A finite set of numbers has a greatest one: the one with the fewest above it.
LEMMA GreatestIsThere ==
  ASSUME NEW S, S \subseteq Nat, S /= {}, IsFiniteSet(S)
  PROVE  \E x \in S : \A y \in S : y <= x
<1> DEFINE Above(x) == {y \in S : y > x}
           Counts == {Cardinality(Above(x)) : x \in S}
<1>1. \A x \in S : IsFiniteSet(Above(x)) /\ Cardinality(Above(x)) \in Nat
  BY FS_Subset, FS_CardinalityType
<1>2. Counts \subseteq Nat /\ Counts /= {}
  BY <1>1
<1>3. PICK least \in Counts : \A m \in Counts : least <= m
  BY <1>2, LeastIsThere
<1>4. PICK x \in S : least = Cardinality(Above(x))
  BY <1>3
<1>5. ASSUME NEW y \in S, y > x PROVE FALSE
  <2>1. Above(y) \subseteq Above(x) /\ y \in Above(x) /\ y \notin Above(y)
    <3>1. x \in Nat /\ y \in Nat
      OBVIOUS
    <3>2. \A z \in S : z \in Nat /\ (z > y => z > x)
      BY <1>5, <3>1
    <3>3. ~(y > y)
      BY <3>1
    <3> QED BY <1>5, <3>2, <3>3
  <2>2. Cardinality(Above(y)) <= Cardinality(Above(x)) /\ Cardinality(Above(y)) /= Cardinality(Above(x))
    BY <1>1, <2>1, FS_Subset
  <2>3. Cardinality(Above(x)) <= Cardinality(Above(y))
    BY <1>3, <1>4
  <2>4. Cardinality(Above(x)) \in Nat /\ Cardinality(Above(y)) \in Nat
    BY <1>1
  <2> HIDE DEF Above
  <2> QED BY ONLY <2>2, <2>3, <2>4
<1> QED BY <1>5

\* The first of a sequence, and the others.
LEMMA HeadOfMany ==
  ASSUME NEW S, NEW q \in Seq(S), q /= <<>>
  PROVE  Head(q) \in S /\ Tail(q) \in Seq(S)
  OBVIOUS

\* The sequence of a finite set is of its elements.
LEMMA SequenceOfSet == ASSUME NEW S, IsFiniteSet(S) PROVE SetToSeq(S) \in Seq(S)
<1>1. Cardinality(S) \in Nat /\ ExistsBijection(1..Cardinality(S), S)
  BY FS_CardinalityType
<1>2. \E f \in [1..Cardinality(S) -> S] : IsInjective(f)
  BY <1>1 DEF ExistsBijection, Bijection, Injection
<1>3. SetToSeq(S) \in [1..Cardinality(S) -> S]
  BY <1>2 DEF SetToSeq
<1> QED BY <1>1, <1>3

\* Min is that least one.
LEMMA MinIsThere == ASSUME NEW S, S \subseteq Nat, S /= {} PROVE Min(S) \in S
<1>1. PICK x \in S : \A y \in S : x <= y
  BY LeastIsThere
<1> QED BY <1>1 DEF Min

-----------------------------------------------------------------------------
(* Snapshot: every mutant starts from the files that were copied.           *)

TreeNames == {"user", "snap", "worker"}
Copies == {"snap", "worker"}
Same(t) == trees[t] = manifest[t]

SnapshotTypes ==
  /\ trees \in [TreeNames -> [Files -> Nat]] /\ manifest \in [Copies -> [Files -> Nat]]
  /\ listed \subseteq Files /\ drifts \subseteq Files /\ writes \in Nat

\* A copy and its manifest are equal while nobody but the copying writes into it,
\* and what is put back covers what differs.
SnapshotInv ==
  /\ SnapshotTypes
  /\ step \in {"walk snap", "copy snap"} => Same("snap")
  /\ step = "baseline" /\ writes = 0 => Same("snap")
  /\ step = "restore snap" => isolating /\ Redigest("snap") \subseteq drifts
  /\ step = "instrument" /\ isolating => Same("snap")
  /\ step = "walk worker" =>
       isolating /\ \A f \in Files : trees["snap"][f] \in {manifest["snap"][f], InstrumentedText}
  /\ step \in {"walk snap", "copy snap", "baseline", "restore snap", "instrument", "walk worker", "copy worker"} =>
       Same("worker")
  /\ step = "restore worker" => isolating /\ Redigest("worker") \subseteq drifts
  /\ step \in {"gate", "gated", "ready"} /\ isolating => Same("worker")
  /\ step = "gated" => Unexpected = {}

\* Two copies that agree on every file are one.
LEMMA Agree ==
  ASSUME SnapshotTypes, NEW t \in Copies, \A f \in Files : trees[t][f] = manifest[t][f]
  PROVE  Same(t)
  BY DEF SnapshotTypes, Same, TreeNames, Copies

LEMMA BothCopies ==
  ASSUME NEW T, NEW c \in T, NEW pair, pair = [snap |-> c, worker |-> c]
  PROVE  pair \in [{"snap", "worker"} -> T]
  OBVIOUS

LEMMA SnapshotStarts == SnapshotInit => SnapshotInv
<1> SUFFICES ASSUME SnapshotInit PROVE SnapshotInv
  OBVIOUS
<1>1. PICK there \in SUBSET (Files \ Generated) :
        trees = [user |-> [f \in Files |-> IF f \in there THEN 1 ELSE 0], snap |-> Nothing, worker |-> Nothing]
  BY DEF SnapshotInit
<1>2. Nothing \in [Files -> Nat] /\ [f \in Files |-> IF f \in there THEN 1 ELSE 0] \in [Files -> Nat]
  BY DEF Nothing
<1>3. trees \in [TreeNames -> [Files -> Nat]] /\ trees["snap"] = Nothing /\ trees["worker"] = Nothing
  BY <1>1, <1>2 DEF TreeNames
<1>4. /\ manifest = [snap |-> Nothing, worker |-> Nothing] /\ step = "walk snap" /\ writes = 0
      /\ listed = {} /\ drifts = {}
  BY DEF SnapshotInit
<1>5. manifest["snap"] = Nothing /\ manifest["worker"] = Nothing
  BY <1>4
<1>6. manifest \in [Copies -> [Files -> Nat]]
  <2>1. manifest = [snap |-> Nothing, worker |-> Nothing]
    BY <1>4
  <2> QED BY ONLY <1>2, <2>1, BothCopies DEF Copies
<1> QED BY <1>3, <1>4, <1>5, <1>6 DEF SnapshotInv, SnapshotTypes, Same

\* What the gate lets through differs from the manifest where instrumentation
\* wrote, and nowhere else.
LEMMA GateIsExact ==
  ASSUME SnapshotTypes, Unexpected = {}
  PROVE  /\ \A f \in Files \ (Instrumented \cup Generated) : trees["snap"][f] = manifest["snap"][f]
         /\ \A f \in Instrumented : (trees["snap"][f] = 0) <=> (manifest["snap"][f] = 0)
  BY SnapshotAssumption DEF Unexpected, Redigest

LEMMA SnapshotStep == SnapshotInv /\ [SnapshotNext]_snapshotVars => SnapshotInv'
<1> SUFFICES ASSUME SnapshotInv, [SnapshotNext]_snapshotVars PROVE SnapshotInv'
  OBVIOUS
<1>t. trees \in [TreeNames -> [Files -> Nat]] /\ manifest \in [Copies -> [Files -> Nat]]
      /\ listed \subseteq Files /\ drifts \subseteq Files /\ writes \in Nat
  BY DEF SnapshotInv, SnapshotTypes
<1>1. CASE UserEdits
  <2>1. PICK f \in Files, c \in {0, 1, 2} : trees' = [trees EXCEPT !["user"][f] = c]
    BY <1>1 DEF UserEdits
  <2>2. UNCHANGED <<step, isolating, gated, irregular, listed, uncopied, manifest, drifts, writes>>
    BY <1>1 DEF UserEdits
  <2>3. trees' \in [TreeNames -> [Files -> Nat]] /\ trees'["snap"] = trees["snap"] /\ trees'["worker"] = trees["worker"]
    BY <1>t, <2>1 DEF TreeNames
  <2> QED BY <2>2, <2>3 DEF SnapshotInv, SnapshotTypes, Same, Redigest, Unexpected
<1>2. ASSUME NEW t \in Copies, TestWrites(t), TestsWrite, t = "snap" => step = "baseline" \/ ~isolating,
             step \in {"baseline", "instrumented baseline", "measure"},
             t = "worker" => step \in {"instrumented baseline", "measure"}
      PROVE  SnapshotInv'
  <2>1. PICK f \in Files, c \in {0, 3} : trees' = [trees EXCEPT ![t][f] = c]
    BY <1>2 DEF TestWrites
  <2>2. /\ UNCHANGED <<step, isolating, gated, irregular, listed, uncopied, manifest, drifts, edits>>
        /\ writes' = writes + 1
    BY <1>2 DEF TestWrites
  <2>3. trees' \in [TreeNames -> [Files -> Nat]] /\ writes' \in Nat /\ writes' /= 0
    BY <1>t, <2>1, <2>2 DEF TreeNames, Copies
  <2>4. t = "snap" => trees'["worker"] = trees["worker"]
    BY <1>t, <2>1 DEF TreeNames, Copies
  <2>5. step = "baseline" => t = "snap"
    BY <1>2 DEF Copies
  <2> QED BY <1>2, <2>2, <2>3, <2>4, <2>5 DEF SnapshotInv, SnapshotTypes, Same
<1>3. ASSUME NEW t \in Copies, Walk(t) PROVE SnapshotInv'
  <2>1. /\ UNCHANGED <<isolating, gated, trees, irregular, manifest, drifts, edits, writes>>
        /\ listed' \subseteq Files
        /\ \/ step' = "over"
           \/ step = "walk snap" /\ step' = "copy snap"
           \/ step = "walk worker" /\ step' = "copy worker"
    BY <1>t, <1>3 DEF Walk, Present, Source, Copies
  <2> QED BY <2>1 DEF SnapshotInv, SnapshotTypes, Same
<1>4. ASSUME NEW t \in Copies, CopyOne(t) PROVE SnapshotInv'
  <2>1. /\ step = (IF t = "snap" THEN "copy snap" ELSE "copy worker")
        /\ UNCHANGED <<step, isolating, gated, irregular, drifts, edits, writes>>
    BY <1>4 DEF CopyOne
  <2>2. PICK f \in listed :
          /\ \/ \E read \in {trees[Source(t)][f]} \cup (IF t = "snap" /\ edits > 0 THEN {1, 2} ELSE {}) :
                  CopyFile(t, f, read)
             \/ UNCHANGED <<trees, manifest>>
          /\ listed' = listed \ {f}
    BY <1>4 DEF CopyOne
  <2>3. CASE UNCHANGED <<trees, manifest>>
    BY <1>t, <2>1, <2>2, <2>3 DEF SnapshotInv, SnapshotTypes, Same
  <2>4. ASSUME NEW read \in {trees[Source(t)][f]} \cup (IF t = "snap" /\ edits > 0 THEN {1, 2} ELSE {}),
               CopyFile(t, f, read)
        PROVE  SnapshotInv'
    <3>1. read \in Nat /\ f \in Files
      BY <1>t, <2>2, <2>4 DEF Source, TreeNames, Copies
    <3>2. /\ trees' = [trees EXCEPT ![t] = [trees[t] EXCEPT ![f] = read]]
          /\ manifest' = [manifest EXCEPT ![t] = [manifest[t] EXCEPT ![f] = read]]
      BY <2>4 DEF CopyFile
    <3>3. /\ trees' \in [TreeNames -> [Files -> Nat]] /\ manifest' \in [Copies -> [Files -> Nat]]
          /\ trees'[t] = [trees[t] EXCEPT ![f] = read] /\ manifest'[t] = [manifest[t] EXCEPT ![f] = read]
          /\ \A s \in Copies \ {t} : trees'[s] = trees[s] /\ manifest'[s] = manifest[s]
      BY <1>t, <3>1, <3>2 DEF TreeNames, Copies
    <3>4. \A s \in Copies : Same(s) => Same(s)'
      BY <3>3 DEF Same
    <3>5. step' \in {"copy snap", "copy worker"} /\ step' = step
      BY <2>1
    <3>6. "snap" \in Copies /\ "worker" \in Copies
      BY DEF Copies
    <3> QED BY <2>1, <2>2, <3>3, <3>4, <3>5, <3>6, <1>t DEF SnapshotInv, SnapshotTypes
  <2> QED BY <2>2, <2>3, <2>4
<1>5. ASSUME NEW t \in Copies, CopyEnds(t) PROVE SnapshotInv'
  <2>1. CASE uncopied /= {}
    <3>1. /\ step' = "over" /\ UNCHANGED <<listed, drifts, writes>>
          /\ trees' = [trees EXCEPT ![t] = Nothing] /\ manifest' = [manifest EXCEPT ![t] = Nothing]
      BY <1>5, <2>1 DEF CopyEnds
    <3>2. trees' \in [TreeNames -> [Files -> Nat]] /\ manifest' \in [Copies -> [Files -> Nat]]
      BY <1>t, <3>1 DEF Nothing
    <3> QED BY <1>t, <3>1, <3>2 DEF SnapshotInv, SnapshotTypes
  <2>2. CASE uncopied = {}
    <3>1. /\ UNCHANGED <<trees, manifest, isolating, listed, drifts, writes>>
          /\ \/ step = "copy snap" /\ step' = "baseline"
             \/ step = "copy worker" /\ step' = "instrumented baseline"
      BY <1>5, <2>2 DEF CopyEnds, Copies
    <3> QED BY <3>1 DEF SnapshotInv, SnapshotTypes, Same
  <2> QED BY <2>1, <2>2
<1>6. ASSUME NEW t \in Copies, RestoreOne(t) PROVE SnapshotInv'
  <2> DEFINE f == Min(drifts)
             content == trees[Source(t)][f]
  <2>1. /\ step = (IF t = "snap" THEN "restore snap" ELSE "restore worker") /\ drifts /= {}
        /\ UNCHANGED <<isolating, gated, irregular, listed, manifest, edits, writes>>
    BY <1>6 DEF RestoreOne
  <2>2. Redigest(t) \subseteq drifts /\ isolating
    BY <2>1 DEF SnapshotInv, Copies
  <2>3. ASSUME NEW c \in Nat, trees' = [trees EXCEPT ![t][f] = c], f \in Files,
               c = manifest[t][f], drifts' = drifts \ {f}, UNCHANGED step
        PROVE  SnapshotInv'
    <3> HIDE DEF f, content
    <3>1. /\ trees' \in [TreeNames -> [Files -> Nat]] /\ trees'[t] = [trees[t] EXCEPT ![f] = c]
          /\ \A s \in Copies \ {t} : trees'[s] = trees[s]
      BY <1>t, <2>3 DEF TreeNames, Copies
    <3>2. Redigest(t)' \subseteq drifts'
      <4>1. ASSUME NEW g \in Files, manifest'[t][g] /= trees'[t][g] PROVE g \in drifts'
        <5>1. g /= f
          BY <1>t, <2>1, <2>3, <3>1, <4>1 DEF TreeNames, Copies
        <5>2. trees'[t][g] = trees[t][g]
          BY <1>t, <3>1, <5>1 DEF TreeNames, Copies
        <5>3. g \in Redigest(t)
          BY <2>1, <4>1, <5>2 DEF Redigest
        <5> QED BY <2>2, <2>3, <5>1, <5>3
      <4> QED BY <4>1 DEF Redigest
    <3>3. t = "snap" => Same("worker")'
      <4>1. t = "snap" => Same("worker")
        BY <2>1 DEF SnapshotInv
      <4> QED BY <2>1, <3>1, <4>1 DEF Same, Copies
    <3>4. CASE t = "snap"
      BY <1>t, <2>1, <2>2, <2>3, <3>1, <3>2, <3>3, <3>4 DEF SnapshotInv, SnapshotTypes
    <3>5. CASE t = "worker"
      BY <1>t, <2>1, <2>2, <2>3, <3>1, <3>2, <3>5 DEF SnapshotInv, SnapshotTypes
    <3> QED BY <3>4, <3>5 DEF Copies
  <2>4. f \in drifts /\ f \in Files
    <3>1. drifts \subseteq Nat
      BY <1>t, SnapshotAssumption
    <3>2. f \in drifts
      BY <2>1, <3>1, MinIsThere
    <3> QED BY <1>t, <3>2
  <2>5. content \in Nat /\ manifest[t][f] \in Nat
    BY <1>t, <2>4 DEF Source, TreeNames, Copies
  <2>6. CASE manifest[t][f] = 0
    <3>1. trees' = [trees EXCEPT ![t][f] = 0] /\ drifts' = drifts \ {f} /\ UNCHANGED step
      BY <1>6, <2>6 DEF RestoreOne
    <3> DEFINE c == 0
    <3>2. c \in Nat /\ trees' = [trees EXCEPT ![t][f] = c] /\ c = manifest[t][f]
      BY <2>6, <3>1
    <3> HIDE DEF c, f
    <3> QED BY <2>3, <2>4, <3>1, <3>2
  <2>7. CASE manifest[t][f] /= 0
    <3>1. /\ trees' = [trees EXCEPT ![t][f] = content]
          /\ \/ Restored(t, f, content) /\ drifts' = drifts \ {f} /\ UNCHANGED step
             \/ drifts' = {} /\ step' = "over"
      BY <1>6, <2>7 DEF RestoreOne
    <3>2. CASE Restored(t, f, content) /\ drifts' = drifts \ {f} /\ UNCHANGED step
      BY <2>3, <2>4, <2>5, <3>1, <3>2 DEF Restored
    <3>3. CASE drifts' = {} /\ step' = "over"
      <4>1. trees' \in [TreeNames -> [Files -> Nat]]
        BY <1>t, <2>5, <3>1 DEF TreeNames
      <4> QED BY <1>t, <2>1, <3>3, <4>1 DEF SnapshotInv, SnapshotTypes
    <3> QED BY <3>1, <3>2, <3>3
  <2> QED BY <2>6, <2>7
<1>7. ASSUME NEW t \in Copies, RestoreEnds(t) PROVE SnapshotInv'
  <2>1. /\ drifts = {}
        /\ UNCHANGED <<isolating, gated, trees, irregular, listed, uncopied, manifest, drifts, edits, writes>>
        /\ \/ t = "snap" /\ step = "restore snap" /\ step' = "instrument"
           \/ t = "worker" /\ step = "restore worker" /\ step' \in {"gate", "ready"}
    BY <1>7 DEF RestoreEnds, Copies
  <2>2. Redigest(t) = {}
    BY <2>1 DEF SnapshotInv
  <2>3. Same(t)
    BY <2>2, Agree DEF Redigest, SnapshotInv
  <2>4. Same(t)'
    BY <2>1, <2>3 DEF Same
  <2> QED BY <1>t, <2>1, <2>4 DEF SnapshotInv, SnapshotTypes, Same
<1>8. CASE BaselineEnds
  <2>1. /\ step = "baseline" /\ step' = (IF isolating THEN "restore snap" ELSE "instrument")
        /\ drifts' = (IF isolating THEN Redigest("snap") ELSE {})
        /\ UNCHANGED <<isolating, gated, trees, irregular, listed, uncopied, manifest, edits, writes>>
    BY <1>8 DEF BaselineEnds
  <2>2. Redigest("snap") \subseteq Files /\ Redigest("snap")' = Redigest("snap")
    BY <2>1 DEF Redigest
  <2> QED BY <1>t, <2>1, <2>2 DEF SnapshotInv, SnapshotTypes, Same
<1>9. CASE Instrument
  <2> DEFINE text == [f \in Files |-> IF f \in Generated \/ (f \in Instrumented /\ trees["snap"][f] /= 0)
                                     THEN InstrumentedText ELSE trees["snap"][f]]
  <2>1. /\ step = "instrument" /\ step' = (IF isolating THEN "walk worker" ELSE "instrumented baseline")
        /\ trees' = [trees EXCEPT !["snap"] = text]
        /\ UNCHANGED <<isolating, gated, irregular, listed, uncopied, manifest, drifts, edits, writes>>
    BY <1>9 DEF Instrument
  <2>2. text \in [Files -> Nat]
    BY <1>t DEF TreeNames, InstrumentedText
  <2>3. \A f \in Files : text[f] \in {trees["snap"][f], InstrumentedText}
    OBVIOUS
  <2> HIDE DEF text
  <2>4. trees' \in [TreeNames -> [Files -> Nat]] /\ trees'["snap"] = text /\ trees'["worker"] = trees["worker"]
    BY <1>t, <2>1, <2>2 DEF TreeNames
  <2>5. isolating => \A f \in Files : trees'["snap"][f] \in {manifest["snap"][f], InstrumentedText}
    BY <2>1, <2>3, <2>4 DEF SnapshotInv, Same
  <2> QED BY <1>t, <2>1, <2>4, <2>5 DEF SnapshotInv, SnapshotTypes, Same
<1>10. CASE InstrumentedBaselineEnds \/ MutantEnds
  <2>1. /\ step \in {"instrumented baseline", "measure"}
        /\ step' \in (IF isolating THEN {"restore worker"} ELSE {"gate", "ready"})
        /\ drifts' = (IF isolating THEN Redigest("worker") ELSE drifts)
        /\ UNCHANGED <<isolating, gated, trees, irregular, listed, uncopied, manifest, edits, writes>>
    BY <1>10 DEF InstrumentedBaselineEnds, MutantEnds
  <2>2. Redigest("worker") \subseteq Files /\ Redigest("worker")' = Redigest("worker")
    BY <2>1 DEF Redigest
  <2> QED BY <1>t, <2>1, <2>2 DEF SnapshotInv, SnapshotTypes, Same
<1>11. CASE DriftGate
  <2>1. /\ step = "gate" /\ UNCHANGED <<isolating, trees, irregular, listed, manifest, drifts, edits, writes>>
        /\ step' = "over" \/ (step' = "gated" /\ Unexpected = {})
    BY <1>11 DEF DriftGate
  <2>2. Unexpected' = Unexpected
    BY <2>1 DEF Unexpected, Redigest
  <2> QED BY <1>t, <2>1, <2>2 DEF SnapshotInv, SnapshotTypes, Same
<1>12. CASE MutantStarts
  <2>1. /\ step' = "measure"
        /\ UNCHANGED <<isolating, gated, trees, irregular, listed, uncopied, manifest, drifts, edits, writes>>
    BY <1>12 DEF MutantStarts
  <2> QED BY <1>t, <2>1 DEF SnapshotInv, SnapshotTypes, Same
<1>13. CASE UNCHANGED snapshotVars
  BY <1>13 DEF snapshotVars, SnapshotInv, SnapshotTypes, Same, Redigest, Unexpected
<1>14. CASE TestsWrite
  BY <1>2, <1>14 DEF TestsWrite, Copies
<1> QED BY <1>1, <1>3, <1>4, <1>5, <1>6, <1>7, <1>8, <1>9, <1>10, <1>11, <1>12, <1>13, <1>14
        DEF SnapshotNext, Copies

\* However the source is edited under the copying and whatever the tests write,
\* every mutant starts from the recorded files, for any tree and any number of
\* edits and writes (Create, Restore, driftGate).
THEOREM StartFromTheSame == SnapshotSpec => []MutantsStartFromTheSame
<1>1. SnapshotInv => MutantsStartFromTheSame
  BY GateIsExact DEF SnapshotInv, MutantsStartFromTheSame, Same
<1> QED BY <1>1, SnapshotStarts, SnapshotStep, PTL DEF SnapshotSpec

-----------------------------------------------------------------------------
(* HistoryStore: a filed run is found again, whoever files beside it, dies  *)
(* or cleans.                                                               *)

Markers == Digests \cup {NoMarker, HalfMarker, OtherTool}
Workspaces == [there : BOOLEAN, marker : Markers, runsDir : BOOLEAN,
               files : SUBSET StoredRuns, latest : StoredRuns \cup {0}]
Owning == {"claimed", "run", "latest", "stored"}
Writers == {"called", "look", "look again", "create", "in place", "refused", "failed", "dead"} \cup Owning

\* A directory that a clean has left: of the key of its digest, and all the runs
\* of that digest are of the module that is cleaned.
Doomed == {e \in [key : Keys, digest : Digests] :
             /\ KeyOf[e.digest] = e.key
             /\ \A r \in StoredRuns : DigestOf[r] = e.digest => ModuleOf[r] = Cleaned}

HistoryTypes ==
  /\ linking \in BOOLEAN
  /\ store \in [Keys -> Workspaces]
  /\ writing \in [StoredRuns -> Writers]
  /\ cleaning \in [at : {"idle", "runs", "latest"}, left : Seq(Doomed), done : Nat]
  /\ deleted \subseteq StoredRuns

\* A directory is of the key of its marker and holds documents of its owner only.
PlaceInv ==
  \A k \in Keys :
    /\ store[k].marker \in Digests => KeyOf[store[k].marker] = k
    /\ \A r \in RunsIn(k) : DigestOf[r] = store[k].marker
    /\ linking => store[k].marker /= HalfMarker

\* Who writes a marker in place is alone with half of it, who claimed a directory
\* owns it, and what is filed is there until a clean takes it.
WriterInv ==
  \A r \in StoredRuns :
    /\ writing[r] = "in place" =>
         /\ ~linking /\ store[Dir(r)].marker = HalfMarker
         /\ \A s \in StoredRuns : writing[s] = "in place" /\ Dir(s) = Dir(r) => s = r
    /\ writing[r] \in Owning => store[Dir(r)].marker = DigestOf[r]
    /\ writing[r] \in {"latest", "stored"} /\ r \notin deleted => r \in store[Dir(r)].files
    /\ linking /\ writing[r] = "refused" => store[Dir(r)].marker \in {OtherTool} \cup (Digests \ {DigestOf[r]})

CleanInv ==
  /\ \A r \in deleted : ModuleOf[r] = Cleaned
  /\ cleaning.at = "latest" =>
       /\ cleaning.left /= <<>>
       /\ store[Head(cleaning.left).key].marker = Head(cleaning.left).digest

HistoryInv == HistoryTypes /\ PlaceInv /\ WriterInv /\ CleanInv

LEMMA MarkersApart ==
  /\ \A r \in StoredRuns : DigestOf[r] \in Digests /\ Dir(r) \in Keys /\ r \in Nat /\ r /= 0
  /\ NoMarker \notin Digests /\ HalfMarker \notin Digests /\ OtherTool \notin Digests
  /\ NoMarker /= HalfMarker /\ NoMarker /= OtherTool /\ HalfMarker /= OtherTool
  BY HistoryAssumption DEF Dir, NoMarker, HalfMarker, OtherTool

LEMMA RunsAreRuns ==
  ASSUME HistoryTypes, NEW k \in Keys
  PROVE  RunsIn(k) \subseteq StoredRuns
  BY DEF HistoryTypes, Workspaces, RunsIn

LEMMA HistoryStarts == HistoryInit => HistoryInv
<1> SUFFICES ASSUME HistoryInit PROVE HistoryInv
  OBVIOUS
<1> DEFINE Blank == {NoWorkspace, [NoWorkspace EXCEPT !.there = TRUE, !.marker = OtherTool]}
<1>1. /\ linking \in BOOLEAN /\ store \in [Keys -> Blank]
      /\ writing = [r \in StoredRuns |-> "called"] /\ deleted = {}
      /\ cleaning = [at |-> "idle", left |-> <<>>, done |-> 0]
  BY DEF HistoryInit
<1>2. \A w \in Blank : /\ w \in Workspaces /\ w.files = {} /\ w.latest = 0
                       /\ w.marker \in {NoMarker, OtherTool}
  <2>1. NoWorkspace \in Workspaces /\ NoWorkspace.files = {} /\ NoWorkspace.latest = 0 /\ NoWorkspace.marker = NoMarker
    BY DEF NoWorkspace, Workspaces, Markers
  <2>2. ASSUME NEW w, w = [NoWorkspace EXCEPT !.there = TRUE, !.marker = OtherTool]
        PROVE  w \in Workspaces /\ w.files = {} /\ w.latest = 0 /\ w.marker = OtherTool
    <3>1. w = [there |-> TRUE, marker |-> OtherTool, runsDir |-> FALSE, files |-> {}, latest |-> 0]
      BY <2>2 DEF NoWorkspace
    <3> QED BY <3>1 DEF Workspaces, Markers
  <2> QED BY <2>1, <2>2
<1> HIDE DEF Blank
<1>3. \A k \in Keys : store[k] \in Blank
  BY <1>1
<1>4. HistoryTypes
  <2>1. <<>> \in Seq(Doomed)
    OBVIOUS
  <2>2. store \in [Keys -> Workspaces]
    BY <1>1, <1>2
  <2> QED BY <1>1, <2>1, <2>2 DEF HistoryTypes, Writers
<1>5. PlaceInv
  BY <1>2, <1>3, MarkersApart DEF PlaceInv, RunsIn
<1>6. WriterInv /\ CleanInv
  BY <1>1 DEF WriterInv, CleanInv, Owning
<1> QED BY <1>4, <1>5, <1>6 DEF HistoryInv

\* What a step of a writer leaves alone.
Writes(r) ==
  \/ ClaimMakes(r) \/ ClaimLooks(r) \/ CreateMarker(r) \/ CreateMarkerInPlace(r)
  \/ StoreMakes(r) \/ StoreRun(r) \/ StoreLatest(r) \/ WriteStops(r)

LEMMA PutDir ==
  ASSUME HistoryTypes, NEW r \in StoredRuns,
         \/ store' = store
         \/ \E v \in BOOLEAN : SetDir(r, "there", v) \/ SetDir(r, "runsDir", v)
         \/ \E m \in Markers : SetDir(r, "marker", m)
         \/ \E fs \in SUBSET StoredRuns : SetDir(r, "files", fs)
         \/ \E l \in StoredRuns : SetDir(r, "latest", l)
  PROVE  store' \in [Keys -> Workspaces] /\ \A k \in Keys \ {Dir(r)} : store'[k] = store[k]
<1>1. Dir(r) \in Keys
  BY MarkersApart
<1>2. store \in [Keys -> Workspaces]
  BY DEF HistoryTypes
<1>3. \A w \in Workspaces :
        /\ \A v \in BOOLEAN : [w EXCEPT !["there"] = v] \in Workspaces /\ [w EXCEPT !["runsDir"] = v] \in Workspaces
        /\ \A m \in Markers : [w EXCEPT !["marker"] = m] \in Workspaces
        /\ \A fs \in SUBSET StoredRuns : [w EXCEPT !["files"] = fs] \in Workspaces
        /\ \A l \in StoredRuns : [w EXCEPT !["latest"] = l] \in Workspaces
  BY DEF Workspaces
<1>4. ASSUME NEW w \in Workspaces, store' = [store EXCEPT ![Dir(r)] = w]
      PROVE  store' \in [Keys -> Workspaces] /\ \A k \in Keys \ {Dir(r)} : store'[k] = store[k]
  BY <1>1, <1>2, <1>4
<1>5. store[Dir(r)] \in Workspaces
  BY <1>1, <1>2
<1>6. CASE store' = store
  BY <1>2, <1>6
<1>7. CASE \E v \in BOOLEAN : SetDir(r, "there", v) \/ SetDir(r, "runsDir", v)
  BY <1>3, <1>4, <1>5, <1>7 DEF SetDir
<1>8. CASE \E m \in Markers : SetDir(r, "marker", m)
  BY <1>3, <1>4, <1>5, <1>8 DEF SetDir
<1>9. CASE \E fs \in SUBSET StoredRuns : SetDir(r, "files", fs)
  BY <1>3, <1>4, <1>5, <1>9 DEF SetDir
<1>10. CASE \E l \in StoredRuns : SetDir(r, "latest", l)
  BY <1>3, <1>4, <1>5, <1>10 DEF SetDir
<1> QED BY <1>6, <1>7, <1>8, <1>9, <1>10

\* What the rest of the invariant says of a run whose step leaves the markers and
\* takes no document away.
LEMMA FilingKeeps ==
  ASSUME HistoryInv, HistoryTypes', NEW r \in StoredRuns,
         UNCHANGED <<linking, cleaning, deleted>>,
         \A k \in Keys : /\ store'[k].marker = store[k].marker
                        /\ store[k].files \subseteq store'[k].files
                        /\ RunsIn(k)' \subseteq RunsIn(k) \cup (IF k = Dir(r) /\ writing[r] \in Owning THEN {r} ELSE {}),
         \A s \in StoredRuns \ {r} : writing'[s] = writing[s],
         writing'[r] /= "in place",
         writing'[r] \in Owning => store[Dir(r)].marker = DigestOf[r],
         writing'[r] \in {"latest", "stored"} /\ r \notin deleted => r \in store'[Dir(r)].files,
         linking /\ writing'[r] = "refused" => store[Dir(r)].marker \in {OtherTool} \cup (Digests \ {DigestOf[r]})
  PROVE  HistoryInv'
<1>1. PlaceInv'
  <2>1. ASSUME NEW k \in Keys, NEW s \in RunsIn(k)' PROVE DigestOf[s] = store'[k].marker
    <3>1. s \in RunsIn(k) \/ (s = r /\ k = Dir(r) /\ writing[r] \in Owning)
      BY <2>1
    <3>2. CASE s \in RunsIn(k)
      BY <2>1, <3>2 DEF HistoryInv, PlaceInv
    <3>3. CASE s = r /\ k = Dir(r) /\ writing[r] \in Owning
      BY <2>1, <3>3 DEF HistoryInv, WriterInv
    <3> QED BY <3>1, <3>2, <3>3
  <2> QED BY <2>1 DEF HistoryInv, PlaceInv
<1>2. WriterInv'
  <2>1. \A s \in StoredRuns : Dir(s) \in Keys
    BY MarkersApart
  <2>2. ASSUME NEW s \in StoredRuns
        PROVE  /\ writing'[s] = "in place" =>
                    /\ ~linking' /\ store'[Dir(s)].marker = HalfMarker
                    /\ \A z \in StoredRuns : writing'[z] = "in place" /\ Dir(z) = Dir(s) => z = s
               /\ writing'[s] \in Owning => store'[Dir(s)].marker = DigestOf[s]
               /\ writing'[s] \in {"latest", "stored"} /\ s \notin deleted' => s \in store'[Dir(s)].files
               /\ linking' /\ writing'[s] = "refused" =>
                    store'[Dir(s)].marker \in {OtherTool} \cup (Digests \ {DigestOf[s]})
    <3>1. store'[Dir(s)].marker = store[Dir(s)].marker /\ store[Dir(s)].files \subseteq store'[Dir(s)].files
      BY <2>1, <2>2
    <3>2. CASE s = r
      BY <3>1, <3>2
    <3>3. CASE s /= r
      <4>1. writing'[s] = writing[s]
        BY <2>2, <3>3
      <4>2. \A z \in StoredRuns : writing'[z] = "in place" => writing[z] = "in place"
        OBVIOUS
      <4> QED BY <2>2, <3>1, <4>1, <4>2 DEF HistoryInv, WriterInv
    <3> QED BY <3>2, <3>3
  <2> QED BY <2>2 DEF WriterInv, Dir
<1>3. CleanInv'
  <2>1. cleaning.at = "latest" => Head(cleaning.left).key \in Keys
    <3>1. cleaning.left \in Seq(Doomed)
      BY DEF HistoryInv, HistoryTypes
    <3>2. cleaning.left /= <<>> => Head(cleaning.left) \in Doomed
      BY <3>1, HeadOfMany
    <3> QED BY <3>2 DEF HistoryInv, CleanInv, Doomed
  <2> QED BY <2>1 DEF HistoryInv, CleanInv
<1> QED BY <1>1, <1>2, <1>3 DEF HistoryInv

\* The same for a step that writes the marker of a directory nobody owns.
LEMMA MarkingKeeps ==
  ASSUME HistoryInv, HistoryTypes', NEW r \in StoredRuns, NEW m \in Markers,
         UNCHANGED <<linking, cleaning, deleted>>,
         store[Dir(r)].marker \in {NoMarker, HalfMarker},
         \A s \in StoredRuns \ {r} : writing[s] = "in place" => Dir(s) /= Dir(r),
         \A k \in Keys \ {Dir(r)} : store'[k] = store[k],
         store'[Dir(r)].marker = m, m \in {NoMarker, HalfMarker, DigestOf[r]},
         RunsIn(Dir(r))' = RunsIn(Dir(r)),
         m = HalfMarker => ~linking,
         \A s \in StoredRuns \ {r} : writing'[s] = writing[s],
         writing'[r] = "in place" => m = HalfMarker,
         writing'[r] \in {"in place", "claimed", "failed"},
         writing'[r] = "claimed" => m = DigestOf[r]
  PROVE  HistoryInv'
<1>1. Dir(r) \in Keys /\ RunsIn(Dir(r)) = {}
  <2>1. Dir(r) \in Keys /\ store[Dir(r)].marker \notin Digests
    BY MarkersApart
  <2>2. \A s \in RunsIn(Dir(r)) : s \in StoredRuns /\ DigestOf[s] = store[Dir(r)].marker
    BY <2>1, RunsAreRuns DEF HistoryInv, PlaceInv
  <2> QED BY <2>1, <2>2, MarkersApart
<1>2. ASSUME NEW s \in StoredRuns, s /= r, Dir(s) = Dir(r)
      PROVE  writing[s] \notin Owning /\ writing[s] /= "in place" /\ ~(linking /\ writing[s] = "refused")
  <2>1. store[Dir(s)].marker \in {NoMarker, HalfMarker} /\ DigestOf[s] \in Digests
    BY <1>2, MarkersApart
  <2>2. /\ writing[s] \in Owning => store[Dir(s)].marker = DigestOf[s]
        /\ linking /\ writing[s] = "refused" => store[Dir(s)].marker \in {OtherTool} \cup (Digests \ {DigestOf[s]})
    BY <1>2 DEF HistoryInv, WriterInv
  <2>3. store[Dir(s)].marker \notin Digests /\ store[Dir(s)].marker /= OtherTool
    BY <2>1, MarkersApart
  <2> QED BY <1>2, <2>1, <2>2, <2>3
<1>3. PlaceInv'
  <2>1. ASSUME NEW k \in Keys
        PROVE  /\ store'[k].marker \in Digests => KeyOf[store'[k].marker] = k
               /\ \A s \in RunsIn(k)' : DigestOf[s] = store'[k].marker
               /\ linking' => store'[k].marker /= HalfMarker
    <3>1. CASE k = Dir(r)
      BY <1>1, <3>1, MarkersApart DEF Dir
    <3>2. CASE k /= Dir(r)
      <4>1. store'[k] = store[k]
        BY <2>1, <3>2
      <4>2. RunsIn(k)' = RunsIn(k)
        BY <4>1 DEF RunsIn
      <4> QED BY <2>1, <4>1, <4>2 DEF HistoryInv, PlaceInv
    <3> QED BY <3>1, <3>2
  <2> QED BY <2>1 DEF PlaceInv
<1>4. WriterInv'
  <2>2. ASSUME NEW s \in StoredRuns
        PROVE  /\ writing'[s] = "in place" =>
                    /\ ~linking' /\ store'[Dir(s)].marker = HalfMarker
                    /\ \A z \in StoredRuns : writing'[z] = "in place" /\ Dir(z) = Dir(s) => z = s
               /\ writing'[s] \in Owning => store'[Dir(s)].marker = DigestOf[s]
               /\ writing'[s] \in {"latest", "stored"} /\ s \notin deleted' => s \in store'[Dir(s)].files
               /\ linking' /\ writing'[s] = "refused" =>
                    store'[Dir(s)].marker \in {OtherTool} \cup (Digests \ {DigestOf[s]})
    <3>1. CASE s = r
      BY <1>2, <3>1 DEF Owning
    <3>2. CASE s /= r /\ Dir(s) = Dir(r)
      BY <1>2, <2>2, <3>2 DEF Owning
    <3>3. CASE s /= r /\ Dir(s) /= Dir(r)
      <4>1. writing'[s] = writing[s] /\ Dir(s) \in Keys
        BY <2>2, <3>3, MarkersApart
      <4>2. store'[Dir(s)] = store[Dir(s)]
        BY <3>3, <4>1
      <4>3. \A z \in StoredRuns : Dir(z) = Dir(s) => z /= r /\ writing'[z] = writing[z]
        BY <3>3
      <4> QED BY <2>2, <4>1, <4>2, <4>3 DEF HistoryInv, WriterInv
    <3> QED BY <3>1, <3>2, <3>3
  <2> QED BY <2>2 DEF WriterInv, Dir
<1>5. CleanInv'
  <2>1. cleaning.at = "latest" => Head(cleaning.left) \in Doomed
    <3>1. cleaning.left \in Seq(Doomed)
      BY DEF HistoryInv, HistoryTypes
    <3> QED BY <3>1, HeadOfMany DEF HistoryInv, CleanInv
  <2>2. cleaning.at = "latest" => Head(cleaning.left).key /= Dir(r)
    BY <2>1, MarkersApart DEF HistoryInv, CleanInv, Doomed
  <2>3. cleaning.at = "latest" => store'[Head(cleaning.left).key] = store[Head(cleaning.left).key]
    BY <2>1, <2>2 DEF Doomed
  <2> QED BY <2>3 DEF HistoryInv, CleanInv
<1> QED BY <1>3, <1>4, <1>5 DEF HistoryInv

LEMMA WriterTypes ==
  ASSUME HistoryTypes, NEW r \in StoredRuns, Writes(r)
  PROVE  /\ HistoryTypes' /\ UNCHANGED <<linking, cleaning, deleted>>
         /\ \A k \in Keys \ {Dir(r)} : store'[k] = store[k]
         /\ \A s \in StoredRuns \ {r} : writing'[s] = writing[s]
<1>1. Dir(r) \in Keys /\ DigestOf[r] \in Digests
  BY MarkersApart
<1>2. /\ UNCHANGED <<linking, cleaning, deleted>>
      /\ \E place \in Writers : WriteGoes(r, place)
  BY DEF Writes, ClaimMakes, ClaimLooks, CreateMarker, CreateMarkerInPlace, StoreMakes, StoreRun,
         StoreLatest, WriteStops, Writers, Owning
<1>3. \/ store' = store
      \/ \E v \in BOOLEAN : SetDir(r, "there", v) \/ SetDir(r, "runsDir", v)
      \/ \E m \in Markers : SetDir(r, "marker", m)
      \/ \E fs \in SUBSET StoredRuns : SetDir(r, "files", fs)
      \/ \E l \in StoredRuns : SetDir(r, "latest", l)
  <2>1. store[Dir(r)].files \cup {r} \in SUBSET StoredRuns
    BY <1>1 DEF HistoryTypes, Workspaces
  <2>2. {DigestOf[r], HalfMarker, NoMarker} \subseteq Markers
    BY <1>1 DEF Markers
  <2>3. CASE ClaimMakes(r) \/ StoreMakes(r)
    BY <2>3 DEF ClaimMakes, StoreMakes
  <2>4. CASE ClaimLooks(r) \/ WriteStops(r)
    BY <2>4 DEF ClaimLooks, WriteStops
  <2>5. CASE CreateMarker(r)
    BY <2>2, <2>5 DEF CreateMarker
  <2>6. CASE CreateMarkerInPlace(r)
    BY <2>2, <2>6 DEF CreateMarkerInPlace
  <2>7. CASE StoreRun(r)
    BY <2>1, <2>7 DEF StoreRun
  <2>8. CASE StoreLatest(r)
    BY <2>8 DEF StoreLatest
  <2> QED BY <2>3, <2>4, <2>5, <2>6, <2>7, <2>8 DEF Writes
<1>4. store' \in [Keys -> Workspaces] /\ \A k \in Keys \ {Dir(r)} : store'[k] = store[k]
  BY <1>3, PutDir
<1>5. writing' \in [StoredRuns -> Writers] /\ \A s \in StoredRuns \ {r} : writing'[s] = writing[s]
  BY <1>2 DEF HistoryTypes, WriteGoes
<1> QED BY <1>2, <1>4, <1>5 DEF HistoryTypes

LEMMA WriterKeeps ==
  ASSUME HistoryInv, NEW r \in StoredRuns, Writes(r)
  PROVE  HistoryInv'
<1>1. /\ HistoryTypes' /\ UNCHANGED <<linking, cleaning, deleted>>
      /\ \A k \in Keys \ {Dir(r)} : store'[k] = store[k]
      /\ \A s \in StoredRuns \ {r} : writing'[s] = writing[s]
  BY WriterTypes DEF HistoryInv
<1>2. /\ Dir(r) \in Keys /\ DigestOf[r] \in Digests
      /\ store \in [Keys -> Workspaces] /\ writing \in [StoredRuns -> Writers]
      /\ store[Dir(r)] \in Workspaces
  BY MarkersApart DEF HistoryInv, HistoryTypes
<1>3. ASSUME NEW k \in Keys, store'[k] = store[k] PROVE RunsIn(k)' = RunsIn(k)
  BY <1>3 DEF RunsIn
<1>4. CASE UNCHANGED store /\ WriteGoes(r, "dead")
  <2>1. writing'[r] = "dead"
    BY <1>2, <1>4 DEF WriteGoes
  <2> QED BY <1>1, <1>3, <1>4, <2>1, FilingKeeps DEF Owning
<1>5. CASE ClaimLooks(r)
  <2>1. /\ store' = store /\ writing[r] \in {"look", "look again"}
        /\ writing'[r] \in {"create", "failed", "claimed", "refused"}
        /\ writing'[r] = "claimed" => store[Dir(r)].marker = DigestOf[r]
        /\ writing'[r] = "refused" => store[Dir(r)].marker /= DigestOf[r] /\ store[Dir(r)].marker /= NoMarker
    BY <1>2, <1>5 DEF ClaimLooks, SameMarker, WriteGoes
  <2>2. store[Dir(r)].marker \in Markers /\ (linking => store[Dir(r)].marker /= HalfMarker)
    BY <1>2 DEF Workspaces, HistoryInv, PlaceInv
  <2>3. linking /\ writing'[r] = "refused" => store[Dir(r)].marker \in {OtherTool} \cup (Digests \ {DigestOf[r]})
    BY <2>1, <2>2 DEF Markers
  <2> QED BY <1>1, <1>3, <2>1, <2>3, FilingKeeps DEF Owning
<1>6. CASE ClaimMakes(r) \/ StoreMakes(r)
  <2>1. /\ store'[Dir(r)].marker = store[Dir(r)].marker /\ store'[Dir(r)].files = store[Dir(r)].files
        /\ store'[Dir(r)].latest = store[Dir(r)].latest
        /\ writing'[r] = "look" \/ (writing[r] = "claimed" /\ writing'[r] = "run")
    BY <1>2, <1>6 DEF ClaimMakes, StoreMakes, SetDir, WriteGoes, Workspaces
  <2>2. RunsIn(Dir(r))' = RunsIn(Dir(r))
    BY <2>1 DEF RunsIn, Dir
  <2>3. writing'[r] \in Owning => store[Dir(r)].marker = DigestOf[r]
    BY <2>1 DEF HistoryInv, WriterInv, Owning
  <2> QED BY <1>1, <1>3, <2>1, <2>2, <2>3, FilingKeeps
<1>7. CASE CreateMarker(r)
  <2>1. CASE store[Dir(r)].marker /= NoMarker
    <3>1. store' = store /\ writing'[r] = "look again"
      BY <1>2, <1>7, <2>1 DEF CreateMarker, WriteGoes
    <3> QED BY <1>1, <1>3, <3>1, FilingKeeps DEF Owning
  <2>2. CASE store[Dir(r)].marker = NoMarker
    <3> DEFINE m == IF linking THEN DigestOf[r] ELSE HalfMarker
    <3>1. SetDir(r, "marker", m) /\ writing'[r] = (IF linking THEN "claimed" ELSE "in place")
      BY <1>2, <1>7, <2>2 DEF CreateMarker, WriteGoes
    <3>2. /\ store'[Dir(r)].marker = m /\ store'[Dir(r)].files = store[Dir(r)].files
          /\ store'[Dir(r)].latest = store[Dir(r)].latest
      BY <1>2, <3>1 DEF SetDir, Workspaces
    <3>3. RunsIn(Dir(r))' = RunsIn(Dir(r))
      BY <3>2 DEF RunsIn, Dir
    <3>4. ASSUME NEW s \in StoredRuns \ {r}, writing[s] = "in place" PROVE Dir(s) /= Dir(r)
      <4>1. store[Dir(s)].marker = HalfMarker
        BY <3>4 DEF HistoryInv, WriterInv
      <4> QED BY <2>2, <4>1, MarkersApart
    <3>5. m \in Markers /\ m \in {NoMarker, HalfMarker, DigestOf[r]}
      BY <1>2 DEF Markers
    <3>6. /\ m = HalfMarker => ~linking
          /\ writing'[r] = "in place" => m = HalfMarker
          /\ writing'[r] = "claimed" => m = DigestOf[r]
          /\ writing'[r] \in {"in place", "claimed", "failed"}
      BY <1>2, <3>1, MarkersApart
    <3> HIDE DEF m
    <3> QED BY <1>1, <2>2, <3>2, <3>3, <3>4, <3>5, <3>6, MarkingKeeps
  <2> QED BY <2>1, <2>2
<1>8. CASE CreateMarkerInPlace(r)
  <2>1. PICK m \in {DigestOf[r], NoMarker} :
          SetDir(r, "marker", m) /\ WriteGoes(r, IF m = NoMarker THEN "failed" ELSE "claimed")
    BY <1>2, <1>8, MarkersApart DEF CreateMarkerInPlace
  <2>2. /\ store'[Dir(r)].marker = m /\ store'[Dir(r)].files = store[Dir(r)].files
        /\ store'[Dir(r)].latest = store[Dir(r)].latest
        /\ writing'[r] = (IF m = NoMarker THEN "failed" ELSE "claimed")
    BY <1>2, <2>1 DEF SetDir, WriteGoes, Workspaces
  <2>3. RunsIn(Dir(r))' = RunsIn(Dir(r))
    BY <2>2 DEF RunsIn, Dir
  <2>4. writing[r] = "in place"
    BY <1>8 DEF CreateMarkerInPlace
  <2>5. /\ store[Dir(r)].marker = HalfMarker
        /\ \A s \in StoredRuns : writing[s] = "in place" /\ Dir(s) = Dir(r) => s = r
    BY <2>4 DEF HistoryInv, WriterInv
  <2>6. m \in Markers /\ m /= HalfMarker
    BY <1>2, MarkersApart DEF Markers
  <2> QED BY <1>1, <2>1, <2>2, <2>3, <2>5, <2>6, MarkingKeeps
<1>9. CASE StoreRun(r)
  <2>1. CASE store[Dir(r)].runsDir
    <3>1. /\ store'[Dir(r)].marker = store[Dir(r)].marker
          /\ store'[Dir(r)].files = store[Dir(r)].files \cup {r}
          /\ store'[Dir(r)].latest = store[Dir(r)].latest
          /\ writing[r] = "run" /\ writing'[r] = "latest"
      BY <1>2, <1>9, <2>1 DEF StoreRun, SetDir, WriteGoes, Workspaces
    <3>2. RunsIn(Dir(r))' = RunsIn(Dir(r)) \cup {r}
      BY <3>1 DEF RunsIn, Dir
    <3>3. writing[r] \in Owning /\ store[Dir(r)].marker = DigestOf[r]
      BY <3>1 DEF HistoryInv, WriterInv, Owning
    <3> QED BY <1>1, <1>3, <3>1, <3>2, <3>3, FilingKeeps
  <2>2. CASE ~store[Dir(r)].runsDir
    <3>1. store' = store /\ writing'[r] = "failed"
      BY <1>2, <1>9, <2>2 DEF StoreRun, WriteGoes
    <3> QED BY <1>1, <1>3, <3>1, FilingKeeps DEF Owning
  <2> QED BY <2>1, <2>2
<1>10. CASE StoreLatest(r)
  <2>1. /\ store'[Dir(r)].marker = store[Dir(r)].marker /\ store'[Dir(r)].files = store[Dir(r)].files
        /\ store'[Dir(r)].latest = r /\ writing[r] = "latest" /\ writing'[r] = "stored"
    BY <1>2, <1>10 DEF StoreLatest, SetDir, WriteGoes, Workspaces
  <2>2. RunsIn(Dir(r))' \subseteq RunsIn(Dir(r)) \cup {r}
    BY <2>1 DEF RunsIn, Dir
  <2>3. /\ writing[r] \in Owning /\ store[Dir(r)].marker = DigestOf[r]
        /\ r \notin deleted => r \in store[Dir(r)].files
    BY <2>1 DEF HistoryInv, WriterInv, Owning
  <2> QED BY <1>1, <1>3, <2>1, <2>2, <2>3, FilingKeeps
<1>11. CASE WriteStops(r)
  BY <1>4, <1>11 DEF WriteStops
<1> QED BY <1>5, <1>6, <1>7, <1>8, <1>9, <1>10, <1>11 DEF Writes

\* A directory that a clean finds with a run of the module is all of the module's.
LEMMA FoundIsDoomed ==
  ASSUME HistoryInv, NEW k \in Keys, Owned(k), NEW r \in RunsIn(k), ModuleOf[r] = Cleaned
  PROVE  [key |-> k, digest |-> store[k].marker] \in Doomed
<1>1. r \in StoredRuns /\ DigestOf[r] = store[k].marker
  BY RunsAreRuns DEF HistoryInv, PlaceInv
<1>2. \A s \in StoredRuns : DigestOf[s] = store[k].marker => ModuleOf[s] = Cleaned
  BY <1>1, HistoryAssumption
<1> QED BY <1>2 DEF Owned, Doomed

LEMMA CleanReadsKeeps == ASSUME HistoryInv, CleanReads PROVE HistoryInv'
<1> DEFINE mine == {k \in Keys : Owned(k) /\ \E r \in RunsIn(k) : ModuleOf[r] = Cleaned}
           condemned == {[key |-> k, digest |-> store[k].marker] : k \in mine}
<1>1. /\ UNCHANGED <<linking, store, writing, deleted>>
      /\ cleaning' = [cleaning EXCEPT !.at = "runs", !.left = SetToSeq(condemned)]
  BY DEF CleanReads
<1>2. condemned \subseteq Doomed
  BY FoundIsDoomed
<1>3. IsFiniteSet(condemned)
  <2>1. IsFiniteSet(mine)
    BY HistoryAssumption, FS_Subset
  <2> DEFINE f == [k \in mine |-> [key |-> k, digest |-> store[k].marker]]
  <2>2. f \in [mine -> condemned] /\ \A y \in condemned : \E k \in mine : f[k] = y
    OBVIOUS
  <2>3. \A a, b \in DOMAIN f : f[a] = f[b] => a = b
    <3>1. ASSUME NEW a \in mine, NEW b \in mine, f[a] = f[b] PROVE a = b
      <4>1. f[a].key = a /\ f[b].key = b
        OBVIOUS
      <4> QED BY <3>1, <4>1
    <3> QED BY <3>1
  <2>4. f \in Bijection(mine, condemned)
    BY <2>2, <2>3 DEF Bijection, Injection, Surjection, IsInjective
  <2>5. ExistsBijection(mine, condemned)
    BY <2>4 DEF ExistsBijection
  <2> QED BY <2>1, <2>5, FS_Bijection
<1> HIDE DEF condemned
<1>4. SetToSeq(condemned) \in Seq(Doomed)
  BY <1>2, <1>3, SequenceOfSet
<1>5. cleaning' \in [at : {"idle", "runs", "latest"}, left : Seq(Doomed), done : Nat] /\ cleaning'.at = "runs"
  BY <1>1, <1>4 DEF HistoryInv, HistoryTypes
<1> QED BY <1>1, <1>5 DEF HistoryInv, HistoryTypes, PlaceInv, WriterInv, CleanInv, RunsIn, Dir

\* What the rest says when a clean took documents of one directory.
LEMMA CleaningKeeps ==
  ASSUME HistoryInv, NEW k \in Keys, NEW e \in Doomed, k = e.key, store[k].marker = e.digest,
         UNCHANGED <<linking, writing>>,
         store' \in [Keys -> Workspaces],
         \A j \in Keys \ {k} : store'[j] = store[j],
         store'[k].marker = store[k].marker, RunsIn(k)' \subseteq RunsIn(k),
         deleted \subseteq deleted', deleted' \subseteq deleted \cup RunsIn(k),
         store[k].files \subseteq store'[k].files \cup deleted'
  PROVE  /\ store' \in [Keys -> Workspaces] /\ deleted' \subseteq StoredRuns
         /\ PlaceInv' /\ WriterInv' /\ \A r \in deleted' : ModuleOf[r] = Cleaned
<1>1. RunsIn(k) \subseteq StoredRuns /\ deleted \subseteq StoredRuns
  BY RunsAreRuns DEF HistoryInv, HistoryTypes
<1>2. \A r \in RunsIn(k) : ModuleOf[r] = Cleaned
  BY <1>1 DEF HistoryInv, PlaceInv, Doomed
<1>3. \A j \in Keys : store'[j].marker = store[j].marker /\ RunsIn(j)' \subseteq RunsIn(j)
  <2>1. ASSUME NEW j \in Keys, j /= k PROVE RunsIn(j)' = RunsIn(j) /\ store'[j].marker = store[j].marker
    BY <2>1 DEF RunsIn
  <2> QED BY <2>1
<1>4. PlaceInv'
  BY <1>3 DEF HistoryInv, PlaceInv
<1>5. WriterInv'
  <2>1. ASSUME NEW r \in StoredRuns
        PROVE  /\ store'[Dir(r)].marker = store[Dir(r)].marker
               /\ r \in store[Dir(r)].files => r \in store'[Dir(r)].files \/ r \in deleted'
    <3>1. Dir(r) \in Keys
      BY MarkersApart
    <3>2. CASE Dir(r) = k
      BY <3>2
    <3>3. CASE Dir(r) /= k
      BY <3>1, <3>3
    <3> QED BY <3>2, <3>3
  <2>2. ASSUME NEW r \in StoredRuns
        PROVE  /\ writing[r] = "in place" =>
                    /\ ~linking /\ store[Dir(r)].marker = HalfMarker
                    /\ \A s \in StoredRuns : writing[s] = "in place" /\ Dir(s) = Dir(r) => s = r
               /\ writing[r] \in Owning => store[Dir(r)].marker = DigestOf[r]
               /\ writing[r] \in {"latest", "stored"} /\ r \notin deleted => r \in store[Dir(r)].files
               /\ linking /\ writing[r] = "refused" =>
                    store[Dir(r)].marker \in {OtherTool} \cup (Digests \ {DigestOf[r]})
    BY DEF HistoryInv, WriterInv
  <2>3. ASSUME NEW r \in StoredRuns PROVE Dir(r)' = Dir(r)
    BY DEF Dir
  <2> QED BY <2>1, <2>2, <2>3 DEF WriterInv
<1> QED BY <1>1, <1>2, <1>4, <1>5 DEF HistoryInv, CleanInv

LEMMA CleanKeeps == ASSUME HistoryInv, RemoveRuns \/ RemoveLatest \/ CleanEnds PROVE HistoryInv'
<1>0. PICK e : e = Head(cleaning.left)
  OBVIOUS
<1>k. PICK k : k = e.key
  OBVIOUS
<1> DEFINE Cleans == [at : {"idle", "runs", "latest"}, left : Seq(Doomed), done : Nat]
<1>1. cleaning \in Cleans /\ cleaning.left \in Seq(Doomed) /\ cleaning.done + 1 \in Nat
      /\ store \in [Keys -> Workspaces]
  BY DEF HistoryInv, HistoryTypes
<1>2. cleaning.left /= <<>> => /\ e \in Doomed /\ k \in Keys /\ store[k] \in Workspaces
                              /\ Tail(cleaning.left) \in Seq(Doomed)
  BY <1>0, <1>k, <1>1, HeadOfMany DEF Doomed
<1>3. <<>> \in Seq(Doomed)
  OBVIOUS
<1>4. CASE cleaning' = [at |-> "idle", left |-> <<>>, done |-> cleaning.done + 1]
           /\ UNCHANGED <<linking, store, writing, deleted>>
  <2>1. cleaning' \in Cleans /\ cleaning'.at = "idle"
    BY <1>1, <1>3, <1>4
  <2> QED BY <1>4, <2>1 DEF HistoryInv, HistoryTypes, PlaceInv, WriterInv, CleanInv, RunsIn, Dir
<1>5. CASE RemoveRuns /\ store[k].marker = e.digest
  <2>1. /\ cleaning.left /= <<>> /\ UNCHANGED <<linking, writing>>
        /\ deleted' = deleted \cup store[k].files
        /\ store' = [store EXCEPT ![k].runsDir = FALSE, ![k].files = {}]
        /\ cleaning' = [cleaning EXCEPT !.at = "latest"]
    BY <1>0, <1>k, <1>5 DEF RemoveRuns
  <2>2. store' = [store EXCEPT ![k] = [store[k] EXCEPT !.runsDir = FALSE, !.files = {}]]
    BY <1>1, <1>2, <2>1
  <2>3. /\ store' \in [Keys -> Workspaces] /\ \A j \in Keys \ {k} : store'[j] = store[j]
        /\ store'[k].marker = store[k].marker /\ store'[k].files = {} /\ store'[k].latest = store[k].latest
    <3>1. PICK w : w = [store[k] EXCEPT !.runsDir = FALSE, !.files = {}]
      OBVIOUS
    <3>2. /\ w \in Workspaces /\ w.marker = store[k].marker /\ w.files = {} /\ w.latest = store[k].latest
      BY <1>2, <2>1, <3>1 DEF Workspaces
    <3>3. store' = [store EXCEPT ![k] = w]
      BY <2>2, <3>1
    <3> QED BY <1>1, <1>2, <2>1, <3>2, <3>3
  <2>4. /\ RunsIn(k)' \subseteq RunsIn(k) /\ deleted' \subseteq deleted \cup RunsIn(k)
        /\ store[k].files \subseteq store'[k].files \cup deleted' /\ deleted \subseteq deleted'
    BY <2>1, <2>3 DEF RunsIn
  <2>5. /\ deleted' \subseteq StoredRuns /\ PlaceInv' /\ WriterInv' /\ \A r \in deleted' : ModuleOf[r] = Cleaned
    BY <1>k, <1>2, <1>5, <2>1, <2>3, <2>4, CleaningKeeps
  <2>6. cleaning' \in Cleans /\ cleaning'.left = cleaning.left
    BY <1>1, <2>1
  <2>7. CleanInv'
    BY <1>0, <1>k, <1>5, <2>1, <2>3, <2>5, <2>6 DEF CleanInv
  <2> QED BY <2>1, <2>3, <2>5, <2>6, <2>7 DEF HistoryInv, HistoryTypes
<1>6. CASE RemoveLatest
  <2>1. /\ cleaning.at = "latest" /\ UNCHANGED <<linking, writing>>
        /\ deleted' = deleted \cup ({store[k].latest} \ {0})
        /\ store' = [store EXCEPT ![k].latest = 0]
        /\ cleaning' = [cleaning EXCEPT !.at = "runs", !.left = Tail(@)]
    BY <1>0, <1>k, <1>6 DEF RemoveLatest
  <2>2. cleaning.left /= <<>> /\ store[k].marker = e.digest
    BY <1>0, <1>k, <2>1 DEF HistoryInv, CleanInv
  <2>3. /\ store' \in [Keys -> Workspaces] /\ \A j \in Keys \ {k} : store'[j] = store[j]
        /\ store'[k].marker = store[k].marker /\ store'[k].files = store[k].files /\ store'[k].latest = 0
    <3>1. store' = [store EXCEPT ![k] = [store[k] EXCEPT !.latest = 0]]
      BY <1>1, <1>2, <2>1, <2>2
    <3>2. [store[k] EXCEPT !.latest = 0] \in Workspaces
      BY <1>2, <2>2 DEF Workspaces
    <3> QED BY <1>1, <1>2, <2>2, <3>1, <3>2 DEF Workspaces
  <2>4. /\ RunsIn(k)' \subseteq RunsIn(k) /\ deleted' \subseteq deleted \cup RunsIn(k)
        /\ store[k].files \subseteq store'[k].files \cup deleted' /\ deleted \subseteq deleted'
    BY <2>1, <2>3 DEF RunsIn
  <2>5. /\ deleted' \subseteq StoredRuns /\ PlaceInv' /\ WriterInv' /\ \A r \in deleted' : ModuleOf[r] = Cleaned
    BY <1>k, <1>2, <2>1, <2>2, <2>3, <2>4, CleaningKeeps
  <2>6. cleaning' \in Cleans /\ cleaning'.at = "runs"
    BY <1>1, <1>2, <2>1, <2>2
  <2> QED BY <2>1, <2>3, <2>5, <2>6 DEF HistoryInv, HistoryTypes, CleanInv
<1>7. CASE RemoveRuns /\ store[k].marker /= e.digest
  BY <1>0, <1>k, <1>4, <1>7 DEF RemoveRuns
<1>8. CASE CleanEnds
  BY <1>4, <1>8 DEF CleanEnds
<1> QED BY <1>5, <1>6, <1>7, <1>8

LEMMA HistoryMoves == HistoryInv /\ [HistoryNext]_historyVars => HistoryInv'
<1> SUFFICES ASSUME HistoryInv, [HistoryNext]_historyVars PROVE HistoryInv'
  OBVIOUS
<1>1. CASE UNCHANGED historyVars
  BY <1>1 DEF historyVars, HistoryInv, HistoryTypes, PlaceInv, WriterInv, CleanInv, RunsIn, Dir
<1>2. ASSUME NEW r \in StoredRuns, Writes(r) PROVE HistoryInv'
  BY <1>2, WriterKeeps
<1> QED BY <1>1, <1>2, CleanReadsKeeps, CleanKeeps DEF HistoryNext, Writes

\* A run that was told its report is filed is found in the history of its module
\* until a clean of that module takes it, a directory is refused only for what
\* owns it, and no document lands in or leaves another's directory, for any number
\* of runs, workspaces and cleans (History.Write, List, RemoveRuns).
THEOREM HistoryKept == HistorySpec => []HistoryIsKept
<1>1. ASSUME HistoryInv PROVE HistoryIsKept
  <2>1. FiledIsFound
    <3>1. ASSUME NEW r \in StoredRuns, writing[r] = "stored", r \notin deleted
          PROVE  r \in ReadHistory(ModuleOf[r]) /\ Newest(ModuleOf[r]) >= r
      <4> DEFINE runs == ReadHistory(ModuleOf[r])
      <4>1. /\ Dir(r) \in Keys /\ store[Dir(r)].marker = DigestOf[r] /\ r \in store[Dir(r)].files
        BY <1>1, <3>1, MarkersApart DEF HistoryInv, WriterInv, Owning
      <4>2. Owned(Dir(r)) /\ r \in RunsIn(Dir(r))
        BY <4>1, MarkersApart DEF Owned, RunsIn, Dir
      <4>3. r \in runs
        BY <4>1, <4>2 DEF ReadHistory
      <4>4. runs \subseteq StoredRuns
        BY <1>1, RunsAreRuns DEF ReadHistory, HistoryInv
      <4>5. IsFiniteSet(runs) /\ runs \subseteq Nat
        BY <4>4, HistoryAssumption, FS_Subset
      <4> HIDE DEF runs
      <4>6. \E x \in runs : \A s \in runs : s <= x
        BY <4>3, <4>5, GreatestIsThere
      <4>7. Newest(ModuleOf[r]) = CHOOSE x \in runs : \A s \in runs : s <= x
        BY <4>3 DEF Newest, runs
      <4>8. Newest(ModuleOf[r]) \in runs /\ \A s \in runs : s <= Newest(ModuleOf[r])
        BY <4>6, <4>7
      <4>9. Newest(ModuleOf[r]) \in Nat /\ r \in Nat /\ r <= Newest(ModuleOf[r])
        BY <4>3, <4>5, <4>8
      <4>10. Newest(ModuleOf[r]) >= r
        BY ONLY <4>9
      <4> QED BY <4>3, <4>10 DEF runs
    <3> QED BY <3>1 DEF FiledIsFound
  <2>2. RefusalIsDeserved
    BY <1>1 DEF HistoryInv, WriterInv, RefusalIsDeserved
  <2>3. OwnersAreApart
    <3>1. ASSUME NEW k \in Keys, NEW r \in RunsIn(k) PROVE DigestOf[r] = store[k].marker /\ DigestOf[r] \in Digests
      BY <1>1, RunsAreRuns, MarkersApart DEF HistoryInv, PlaceInv
    <3> QED BY <1>1, <3>1 DEF OwnersAreApart, HistoryInv, CleanInv
  <2> QED BY <2>1, <2>2, <2>3 DEF HistoryIsKept
<1> QED BY <1>1, HistoryStarts, HistoryMoves, PTL DEF HistorySpec

(* Recordings: collections take old finished ones, whoever records beside   *)
(* them and whoever dies.                                                   *)

RecordingFiles == {"stream", "run-end", "error", "rest", "preserved"}
JobPlaces == {"none", "opening", "running", "ended", "bundling", "bundle_error", "bundle_rest", "bundle_last", "over"}
Directories == [root : Roots \cup {"none"}, files : SUBSET RecordingFiles]

RecordingsTypes ==
  /\ job \in [RunIDs -> [at : JobPlaces, traced : BOOLEAN, outcome : {"none", "done", "failed", "interrupted"}]]
  /\ dir \in [RunIDs -> Directories]
  /\ swept \in [Sweepers -> [root : Roots \cup {"none"}, stale : SUBSET RunIDs, all : BOOLEAN]]
  /\ cleaned \in [TraceCleaners -> BOOLEAN]

\* A run whose directory is still to be made.
Unborn(r) ==
  \/ job[r].at \in {"none", "opening"}
  \/ job[r].at \in {"running", "ended", "bundling"} /\ ~job[r].traced

\* A run's directory is made once, and its bundle is written in order.
Orderly(r) ==
  /\ job[r].at = "none" => ~job[r].traced
  /\ job[r].at = "opening" => job[r].traced
  /\ Unborn(r) => dir[r] = NoRecording
  /\ dir[r].root = "none" => dir[r] = NoRecording
  /\ job[r].at = "bundle_rest" /\ dir[r] /= NoRecording => "error" \in dir[r].files
  /\ job[r].at = "bundle_last" /\ dir[r] /= NoRecording => {"error", "rest"} \subseteq dir[r].files
  /\ "preserved" \in dir[r].files => {"error", "rest"} \subseteq dir[r].files

JobInv == \A r \in RunIDs : Orderly(r)

WholeDirectory(r) == IF dir[r].root = "trace" THEN "run-end" \in dir[r].files ELSE "preserved" \in dir[r].files

\* What a collector is still to remove is what it looked at, and was finished.
StaleInv ==
  \A c \in Sweepers : \A r \in swept[c].stale :
    /\ ~Unborn(r) /\ swept[c].root \in Roots
    /\ dir[r] = NoRecording \/ (dir[r].root = swept[c].root /\ (swept[c].all \/ WholeDirectory(r)))

\* The finished recordings of a root, and those newer than a run.
DoneIn(root) == {s \in NamesIn(root) : FinishedRecording(s) \/ "preserved" \in dir[s].files}
Newer(root, r) == {s \in DoneIn(root) : s > r}

\* Where nobody ran `trace clean`, what is still to be removed has enough newer ones.
KeepInv ==
  (\A x \in TraceCleaners : ~cleaned[x]) =>
    /\ \A x \in TraceCleaners : swept[x].stale = {}
    /\ \A c \in RunIDs : \A r \in swept[c].stale : Cardinality(Newer(swept[c].root, r)) >= RetainRuns

RecordingsInv == RecordingsTypes /\ JobInv /\ StaleInv /\ KeepInv

LEMMA RecordingsStart == RecordingsInit => RecordingsInv
<1> SUFFICES ASSUME RecordingsInit PROVE RecordingsInv
  OBVIOUS
<1>1. /\ job = [r \in RunIDs |-> Job0] /\ dir = [r \in RunIDs |-> NoRecording]
      /\ swept = [c \in Sweepers |-> Swept] /\ cleaned = [c \in TraceCleaners |-> FALSE]
  BY DEF RecordingsInit
<1>2. /\ Job0 \in [at : JobPlaces, traced : BOOLEAN, outcome : {"none", "done", "failed", "interrupted"}]
      /\ Job0.at = "none" /\ ~Job0.traced
  BY DEF Job0, JobPlaces
<1>3. NoRecording \in Directories /\ NoRecording.files = {}
  BY DEF NoRecording, Directories
<1>4. Swept \in [root : Roots \cup {"none"}, stale : SUBSET RunIDs, all : BOOLEAN] /\ Swept.stale = {}
  BY DEF Swept
<1>5. RecordingsTypes
  BY <1>1, <1>2, <1>3, <1>4 DEF RecordingsTypes
<1>6. JobInv
  BY <1>1, <1>2, <1>3 DEF JobInv, Orderly
<1>7. StaleInv /\ KeepInv
  BY <1>1, <1>4 DEF StaleInv, KeepInv, Sweepers
<1> QED BY <1>5, <1>6, <1>7 DEF RecordingsInv

LEMMA NewerIsFinite ==
  ASSUME NEW root, NEW r
  PROVE  /\ DoneIn(root) \subseteq RunIDs /\ IsFiniteSet(DoneIn(root))
         /\ IsFiniteSet(Newer(root, r)) /\ Cardinality(Newer(root, r)) \in Nat
<1>1. DoneIn(root) \subseteq RunIDs
  BY DEF DoneIn, NamesIn
<1>2. Newer(root, r) \subseteq DoneIn(root)
  BY DEF Newer
<1>3. IsFiniteSet(DoneIn(root))
  BY <1>1, RecordingsAssumption, FS_Subset
<1>4. IsFiniteSet(Newer(root, r))
  BY <1>2, <1>3, FS_Subset
<1> QED BY <1>1, <1>3, <1>4, FS_CardinalityType

\* What is planned: finished recordings of the root, with enough newer ones.
LEMMA Planned ==
  ASSUME RecordingsInv, NEW root \in Roots, NEW keep \in Nat, NEW all \in BOOLEAN
  PROVE  /\ PlanSweep(root, keep, all) \subseteq RunIDs
         /\ \A r \in PlanSweep(root, keep, all) :
              /\ ~Unborn(r) /\ dir[r].root = root /\ (all \/ WholeDirectory(r))
              /\ ~all => Cardinality(Newer(root, r)) >= keep
<1> DEFINE candidates == {r \in NamesIn(root) : all \/ FinishedIn(root, r)}
<1>1. PlanSweep(root, keep, all) = candidates \ NewestOf(keep, candidates)
  BY DEF PlanSweep
<1>2. candidates \subseteq RunIDs
  BY DEF NamesIn
<1>3. ASSUME NEW r \in candidates
      PROVE  /\ ~Unborn(r) /\ dir[r].root = root /\ (all \/ WholeDirectory(r))
             /\ ~all => r \in DoneIn(root)
  <2>1. r \in RunIDs /\ dir[r].root = root /\ Marker(root) \in dir[r].files /\ (all \/ FinishedIn(root, r))
    BY DEF NamesIn
  <2>2. dir[r] /= NoRecording
    BY <2>1 DEF NoRecording, Roots
  <2>3. ~Unborn(r)
    BY <2>1, <2>2 DEF RecordingsInv, JobInv, Orderly
  <2>4. FinishedIn(root, r) => WholeDirectory(r) /\ r \in DoneIn(root)
    <3>1. CASE root = "trace"
      BY <2>1, <3>1 DEF FinishedIn, FinishedRecording, WholeDirectory, DoneIn, NamesIn
    <3>2. CASE root = "diagnostics"
      BY <2>1, <3>2 DEF FinishedIn, FinishedBundle, WholeDirectory, DoneIn, NamesIn, Marker
    <3> QED BY <3>1, <3>2 DEF Roots
  <2> QED BY <2>1, <2>3, <2>4
<1>4. ASSUME NEW r \in candidates, r \notin NewestOf(keep, candidates), ~all
      PROVE  Cardinality(Newer(root, r)) >= keep
  <2> DEFINE above == {s \in candidates : s > r}
  <2>1. ~(Cardinality(above) < keep)
    BY <1>4 DEF NewestOf
  <2>2. above \subseteq Newer(root, r)
    BY <1>3, <1>4 DEF Newer
  <2>3. IsFiniteSet(above) /\ Cardinality(above) \in Nat /\ Cardinality(above) <= Cardinality(Newer(root, r))
    BY <2>2, NewerIsFinite, FS_Subset, FS_CardinalityType
  <2>4. Cardinality(Newer(root, r)) \in Nat
    BY NewerIsFinite
  <2> HIDE DEF above
  <2> QED BY <2>1, <2>3, <2>4
<1> HIDE DEF candidates
<1> QED BY <1>1, <1>2, <1>3, <1>4

\* What a step may do to the directories and to where the runs are.
AgesAt(r) ==
  /\ Unborn(r)' => Unborn(r)
  /\ \/ dir'[r] = dir[r] \/ dir'[r] = NoRecording \/ Unborn(r)
     \/ dir[r] /= NoRecording /\ dir'[r].root = dir[r].root /\ dir[r].files \subseteq dir'[r].files

Ages == \A r \in RunIDs : AgesAt(r)

\* Of a collector whose step is none or takes from what it has planned.
Fewer(c) ==
  /\ swept'[c].stale \subseteq swept[c].stale
  /\ swept'[c].stale /= {} => swept'[c].root = swept[c].root /\ swept'[c].all = swept[c].all

\* Of one that has planned, which looks at the directories as they are.
Plans(c) ==
  \E root \in Roots, keep \in 0..RetainRuns, all \in BOOLEAN :
    Plan(c, root, keep, all) /\ (~(c \in TraceCleaners) => keep = RetainRuns /\ ~all)

LEMMA WholeStays ==
  ASSUME RecordingsTypes, RecordingsTypes', NEW r \in RunIDs, dir'[r].root = dir[r].root, dir[r].files \subseteq dir'[r].files
  PROVE  WholeDirectory(r) => WholeDirectory(r)'
  BY DEF WholeDirectory

LEMMA StaleStays ==
  ASSUME RecordingsInv, RecordingsTypes', Ages, NEW c \in Sweepers, Fewer(c)
  PROVE  \A r \in swept'[c].stale :
           /\ ~Unborn(r)' /\ swept'[c].root \in Roots
           /\ dir'[r] = NoRecording \/ (dir'[r].root = swept'[c].root /\ (swept'[c].all \/ WholeDirectory(r)'))
<1> SUFFICES ASSUME NEW r \in swept'[c].stale
             PROVE  /\ ~Unborn(r)' /\ swept'[c].root \in Roots
                    /\ dir'[r] = NoRecording \/ (dir'[r].root = swept'[c].root /\ (swept'[c].all \/ WholeDirectory(r)'))
  OBVIOUS
<1>1. /\ r \in swept[c].stale /\ swept'[c].root = swept[c].root /\ swept'[c].all = swept[c].all
      /\ r \in RunIDs
  BY DEF Fewer, RecordingsTypes
<1>2. /\ ~Unborn(r) /\ swept[c].root \in Roots
      /\ dir[r] = NoRecording \/ (dir[r].root = swept[c].root /\ (swept[c].all \/ WholeDirectory(r)))
  BY <1>1 DEF RecordingsInv, StaleInv
<1>3. /\ ~Unborn(r)'
      /\ \/ dir'[r] = dir[r] \/ dir'[r] = NoRecording
         \/ dir[r] /= NoRecording /\ dir'[r].root = dir[r].root /\ dir[r].files \subseteq dir'[r].files
  BY <1>1, <1>2 DEF Ages, AgesAt
<1>4. CASE dir'[r] = NoRecording
  BY <1>1, <1>2, <1>3, <1>4
<1>5. CASE dir[r] = NoRecording
  BY <1>1, <1>2, <1>3, <1>5
<1>6. CASE dir[r] /= NoRecording /\ dir'[r].root = dir[r].root /\ dir[r].files \subseteq dir'[r].files
  BY <1>1, <1>2, <1>3, <1>6, WholeStays DEF RecordingsInv
<1> QED BY <1>3, <1>4, <1>5, <1>6

LEMMA PlansShape ==
  ASSUME RecordingsInv, NEW c \in Sweepers, NEW root \in Roots, NEW keep \in Nat, NEW all \in BOOLEAN,
         Plan(c, root, keep, all)
  PROVE  /\ swept' \in [Sweepers -> [root : Roots \cup {"none"}, stale : SUBSET RunIDs, all : BOOLEAN]]
         /\ \A x \in Sweepers \ {c} : swept'[x] = swept[x]
         /\ swept'[c].stale = PlanSweep(root, keep, all)
         /\ swept'[c].stale /= {} => swept'[c].root = root /\ swept'[c].all = all
<1> DEFINE stale == PlanSweep(root, keep, all)
           plan == IF stale = {} THEN Swept ELSE [root |-> root, stale |-> stale, all |-> all]
<1>1. swept' = [swept EXCEPT ![c] = plan]
  BY DEF Plan
<1>2. stale \subseteq RunIDs
  BY Planned
<1>3. /\ plan \in [root : Roots \cup {"none"}, stale : SUBSET RunIDs, all : BOOLEAN]
      /\ plan.stale = stale /\ (plan.stale /= {} => plan.root = root /\ plan.all = all)
  BY <1>2 DEF Swept
<1> HIDE DEF plan, stale
<1>4. swept \in [Sweepers -> [root : Roots \cup {"none"}, stale : SUBSET RunIDs, all : BOOLEAN]]
  BY DEF RecordingsInv, RecordingsTypes
<1> QED BY <1>1, <1>3, <1>4 DEF stale

\* Every collector has planned, or has no more than it had.
LEMMA StaleStep ==
  ASSUME RecordingsInv, RecordingsTypes', Ages,
         NEW p \in Sweepers, \A c \in Sweepers \ {p} : Fewer(c),
         Fewer(p) \/ (UNCHANGED dir /\ Plans(p))
  PROVE  StaleInv'
<1>1. CASE \A c \in Sweepers : Fewer(c)
  BY <1>1, StaleStays DEF StaleInv
<1>2. CASE UNCHANGED dir /\ Plans(p)
  <2>1. PICK root \in Roots, keep \in 0..RetainRuns, all \in BOOLEAN : Plan(p, root, keep, all)
    BY <1>2 DEF Plans
  <2>2. keep \in Nat
    BY RecordingsAssumption
  <2>3. /\ swept'[p].stale = PlanSweep(root, keep, all)
        /\ swept'[p].stale /= {} => swept'[p].root = root /\ swept'[p].all = all
    BY <2>1, <2>2, PlansShape
  <2>4. ASSUME NEW r \in swept'[p].stale
        PROVE  /\ ~Unborn(r)' /\ swept'[p].root \in Roots
               /\ dir'[r].root = swept'[p].root /\ (swept'[p].all \/ WholeDirectory(r)')
    <3>1. /\ r \in RunIDs /\ ~Unborn(r) /\ dir[r].root = root /\ (all \/ WholeDirectory(r))
      BY <2>2, <2>3, <2>4, Planned
    <3>2. WholeDirectory(r)' = WholeDirectory(r)
      BY <1>2 DEF WholeDirectory
    <3> QED BY <1>2, <2>3, <3>1, <3>2 DEF Ages, AgesAt
  <2> QED BY <2>4, StaleStays DEF StaleInv
<1> QED BY <1>1, <1>2

LEMMA SameNewer ==
  ASSUME NEW c, NEW r, NEW root, swept'[c].root = root
  PROVE  Newer(swept[c].root, r)' = Newer(root, r)'
  BY DEF Newer, DoneIn, NamesIn, Marker, FinishedRecording

\* A step that takes nothing finished away leaves the newer ones.
LEMMA KeepStep ==
  ASSUME RecordingsInv, RecordingsTypes',
         NEW p \in Sweepers, \A c \in Sweepers \ {p} : Fewer(c),
         Fewer(p) \/ Plans(p),
         \A root \in Roots : DoneIn(root) \subseteq DoneIn(root)',
         \A x \in TraceCleaners : ~cleaned'[x] => ~cleaned[x] /\ Fewer(x)
  PROVE  KeepInv'
<1> SUFFICES ASSUME \A x \in TraceCleaners : ~cleaned'[x]
             PROVE  /\ \A x \in TraceCleaners : swept'[x].stale = {}
                    /\ \A c \in RunIDs : \A r \in swept'[c].stale :
                         Cardinality(Newer(swept[c].root, r))' >= RetainRuns
  BY DEF KeepInv
<1>1. /\ \A x \in TraceCleaners : swept[x].stale = {}
      /\ \A c \in RunIDs : \A r \in swept[c].stale : Cardinality(Newer(swept[c].root, r)) >= RetainRuns
  BY DEF RecordingsInv, KeepInv
<1>2. \A x \in TraceCleaners : swept'[x].stale = {}
  BY <1>1 DEF Fewer
<1>3. ASSUME NEW root \in Roots, NEW r, Cardinality(Newer(root, r)) >= RetainRuns
      PROVE  Cardinality(Newer(root, r)') >= RetainRuns
  <2>1. Newer(root, r) \subseteq Newer(root, r)'
    BY DEF Newer
  <2>2. DoneIn(root)' \subseteq RunIDs
    BY DEF DoneIn, NamesIn
  <2>3. Newer(root, r)' \subseteq RunIDs
    BY <2>2 DEF Newer
  <2>4. IsFiniteSet(Newer(root, r)')
    BY <2>3, RecordingsAssumption, FS_Subset
  <2>5. /\ Cardinality(Newer(root, r)) <= Cardinality(Newer(root, r)')
        /\ Cardinality(Newer(root, r)) \in Nat /\ Cardinality(Newer(root, r)') \in Nat
    BY <2>1, <2>4, FS_Subset, FS_CardinalityType
  <2> QED BY <1>3, <2>5, RecordingsAssumption
<1>4. ASSUME NEW c \in RunIDs, NEW r \in swept'[c].stale
      PROVE  Cardinality(Newer(swept[c].root, r))' >= RetainRuns
  <2>0. c \in Sweepers /\ c \notin TraceCleaners
    BY RecordingsAssumption DEF Sweepers
  <2>1. CASE Fewer(c)
    <3>1. r \in swept[c].stale /\ swept'[c].root = swept[c].root
      BY <1>4, <2>1 DEF Fewer
    <3>2. swept[c].root \in Roots
      BY <2>0, <3>1 DEF RecordingsInv, StaleInv
    <3>3. Cardinality(Newer(swept[c].root, r)) >= RetainRuns
      BY <1>1, <3>1
    <3> QED BY <1>3, <3>1, <3>2, <3>3, SameNewer
  <2>2. CASE c = p /\ Plans(p)
    <3>1. PICK root \in Roots : Plan(c, root, RetainRuns, FALSE)
      BY <2>0, <2>2 DEF Plans
    <3>2. /\ swept'[c].stale = PlanSweep(root, RetainRuns, FALSE)
          /\ swept'[c].stale /= {} => swept'[c].root = root
      BY <2>0, <3>1, PlansShape, RecordingsAssumption
    <3>3. Cardinality(Newer(root, r)) >= RetainRuns
      <4> DEFINE all == FALSE
      <4>1. all \in BOOLEAN /\ ~all /\ r \in PlanSweep(root, RetainRuns, all)
        BY <1>4, <3>2
      <4> HIDE DEF all
      <4> QED BY <4>1, Planned, RecordingsAssumption
    <3>4. Cardinality(Newer(root, r)') >= RetainRuns
      BY <1>3, <3>3
    <3>5. swept'[c].root = root
      BY <1>4, <3>2
    <3> QED BY <3>4, <3>5, SameNewer
  <2> QED BY <2>0, <2>1, <2>2
<1> QED BY <1>2, <1>4

\* What a step of a run does to the run, and to nobody else.
LEMMA RunStep ==
  ASSUME RecordingsInv, NEW r \in RunIDs, RecordingRunNext(r)
  PROVE  /\ \A s \in RunIDs \ {r} : job'[s] = job[s] /\ dir'[s] = dir[s]
         /\ job' \in [RunIDs -> [at : JobPlaces, traced : BOOLEAN, outcome : {"none", "done", "failed", "interrupted"}]]
         /\ dir' \in [RunIDs -> Directories] /\ UNCHANGED cleaned
<1> DEFINE JobRecords == [at : JobPlaces, traced : BOOLEAN, outcome : {"none", "done", "failed", "interrupted"}]
<1>1. job \in [RunIDs -> JobRecords] /\ dir \in [RunIDs -> Directories] /\ job[r] \in JobRecords /\ dir[r] \in Directories
  BY DEF RecordingsInv, RecordingsTypes
<1>2. JobOver \in JobRecords /\ NoRecording \in Directories
  BY DEF JobOver, Job0, NoRecording, Directories, JobPlaces
<1>3. ASSUME NEW j \in JobRecords, NEW d \in Directories,
             job' = [job EXCEPT ![r] = j], dir' = [dir EXCEPT ![r] = d]
      PROVE  /\ \A s \in RunIDs \ {r} : job'[s] = job[s] /\ dir'[s] = dir[s]
             /\ job' \in [RunIDs -> JobRecords] /\ dir' \in [RunIDs -> Directories]
  BY <1>1, <1>3
<1>4. \A place \in JobPlaces : [job[r] EXCEPT !.at = place] \in JobRecords
  BY <1>1
<1>5. \A x \in RecordingFiles : [dir[r] EXCEPT !.files = @ \cup {x}] \in Directories
  BY <1>1 DEF Directories
<1>6. dir = [dir EXCEPT ![r] = dir[r]]
  BY <1>1
<1>7. UNCHANGED cleaned
  BY DEF RecordingRunNext, BeginRun, Open, OpenRefused, EngineEnds, NoBundle, BundleBegins, BundleDirectory, WriteBundle,
         WriteBundleFails, Killed
<1>8. \E j \in JobRecords : job' = [job EXCEPT ![r] = j]
  <2> HIDE DEF JobRecords
  <2>p. {"opening", "running", "bundling", "bundle_error", "bundle_rest", "bundle_last"} \subseteq JobPlaces
    BY DEF JobPlaces
  <2>1. CASE BeginRun(r)
    <3>1. [Job0 EXCEPT !.at = "opening", !.traced = TRUE] \in JobRecords
      BY DEF Job0, JobPlaces, JobRecords
    <3> QED BY <1>4, <2>p, <2>1, <3>1 DEF BeginRun
  <2>2. CASE EngineEnds(r)
    <3>1. PICK outcome \in {"done", "failed", "interrupted"} :
            job' = [job EXCEPT ![r].at = "ended", ![r].outcome = outcome]
      BY <2>2 DEF EngineEnds
    <3>2. job' = [job EXCEPT ![r] = [job[r] EXCEPT !.at = "ended", !.outcome = outcome]]
      BY <1>1, <3>1
    <3>3. [job[r] EXCEPT !.at = "ended", !.outcome = outcome] \in JobRecords
      BY <1>1 DEF JobPlaces, JobRecords
    <3> QED BY <3>2, <3>3
  <2>6. CASE OpenRefused(r)
    <3>1. job' = [job EXCEPT ![r] = [job[r] EXCEPT !.at = "running", !.traced = FALSE]]
      BY <1>1, <2>6 DEF OpenRefused
    <3>2. [job[r] EXCEPT !.at = "running", !.traced = FALSE] \in JobRecords
      BY <1>1 DEF JobPlaces, JobRecords
    <3> QED BY <3>1, <3>2
  <2>3. CASE Open(r) \/ BundleBegins(r) \/ BundleDirectory(r)
    BY <1>4, <2>p, <2>3 DEF Open, BundleBegins, BundleDirectory, At
  <2>4. CASE NoBundle(r) \/ WriteBundleFails(r) \/ Killed(r)
    BY <1>2, <2>4 DEF NoBundle, WriteBundleFails, Killed, Ends
  <2>5. CASE WriteBundle(r)
    BY <1>2, <1>4, <2>p, <2>5 DEF WriteBundle, At, Ends
  <2> QED BY <2>1, <2>2, <2>3, <2>4, <2>5, <2>6 DEF RecordingRunNext
<1>9. \E d \in Directories : dir' = [dir EXCEPT ![r] = d]
  <2>1. CASE BeginRun(r) \/ OpenRefused(r) \/ NoBundle(r) \/ BundleBegins(r) \/ Killed(r)
    BY <1>1, <1>6, <2>1 DEF BeginRun, OpenRefused, NoBundle, BundleBegins, Killed
  <2>2. CASE Open(r)
    <3>1. [root |-> "trace", files |-> {"stream"}] \in Directories
      BY DEF Directories, Roots, RecordingFiles
    <3> QED BY <1>1, <1>6, <2>2, <3>1 DEF Open
  <2>3. CASE EngineEnds(r)
    BY <1>1, <1>5, <1>6, <2>3 DEF EngineEnds, RecordingFiles
  <2>4. CASE BundleDirectory(r)
    <3>1. [root |-> "diagnostics", files |-> {}] \in Directories
      BY DEF Directories, Roots, RecordingFiles
    <3> QED BY <1>1, <1>6, <2>4, <3>1 DEF BundleDirectory
  <2>5. CASE WriteBundle(r)
    BY <1>5, <2>5 DEF WriteBundle, RecordingFiles
  <2>6. CASE WriteBundleFails(r)
    BY <1>1, <1>2, <1>6, <2>6 DEF WriteBundleFails
  <2> QED BY <2>1, <2>2, <2>3, <2>4, <2>5, <2>6 DEF RecordingRunNext
<1> QED BY <1>3, <1>7, <1>8, <1>9

LEMMA RunOrderly ==
  ASSUME RecordingsInv, NEW r \in RunIDs, RecordingRunNext(r)
  PROVE  Orderly(r)' /\ AgesAt(r) /\ (dir'[r] = NoRecording => dir[r].files = {} \/ dir'[r] = dir[r])
<1> DEFINE Goal == Orderly(r)' /\ AgesAt(r) /\ (dir'[r] = NoRecording => dir[r].files = {} \/ dir'[r] = dir[r])
<1>1. /\ job \in [RunIDs -> [at : JobPlaces, traced : BOOLEAN, outcome : {"none", "done", "failed", "interrupted"}]]
      /\ dir \in [RunIDs -> Directories] /\ dir[r] \in Directories
  BY DEF RecordingsInv, RecordingsTypes
<1>2. Orderly(r)
  BY DEF RecordingsInv, JobInv
<1>3. JobOver.at = "over"
  BY DEF JobOver, Job0
<1>4. CASE UNCHANGED dir /\ job'[r].at = "over"
  BY <1>2, <1>4 DEF Orderly, AgesAt, Unborn
<1>5. CASE BeginRun(r)
  <2>1. /\ job[r].at = "none" /\ dir' = dir
        /\ \/ job'[r].at = "opening" /\ job'[r].traced
           \/ job'[r].at = "running" /\ job'[r].traced = job[r].traced
    BY <1>1, <1>5 DEF BeginRun, Job0
  <2> QED BY <1>2, <2>1 DEF Orderly, AgesAt, Unborn
<1>6. CASE Open(r)
  <2>1. /\ job[r].at = "opening" /\ job'[r].at = "running" /\ job'[r].traced = job[r].traced
        /\ dir'[r] = [root |-> "trace", files |-> {"stream"}]
    BY <1>1, <1>6 DEF Open, At
  <2> QED BY <1>2, <2>1 DEF Orderly, AgesAt, Unborn, NoRecording
<1>13. CASE OpenRefused(r)
  <2>1. job[r].at = "opening" /\ job'[r].at = "running" /\ ~job'[r].traced /\ dir'[r] = dir[r]
    BY <1>1, <1>13 DEF OpenRefused
  <2> QED BY <1>2, <2>1 DEF Orderly, AgesAt, Unborn
<1>7. CASE EngineEnds(r)
  <2>1. /\ job[r].at = "running" /\ job'[r].at = "ended" /\ job'[r].traced = job[r].traced
        /\ \/ dir'[r] = dir[r]
           \/ /\ job[r].traced /\ dir[r].root = "trace"
              /\ dir'[r].root = "trace" /\ dir'[r].files = dir[r].files \cup {"run-end"}
    <3>1. PICK outcome \in {"done", "failed", "interrupted"} :
            job' = [job EXCEPT ![r].at = "ended", ![r].outcome = outcome]
      BY <1>7 DEF EngineEnds
    <3>2. job' = [job EXCEPT ![r] = [job[r] EXCEPT !.at = "ended", !.outcome = outcome]]
      BY <1>1, <3>1
    <3>3. job'[r].at = "ended" /\ job'[r].traced = job[r].traced
      BY <1>1, <3>2
    <3> QED BY <1>1, <1>7, <3>3 DEF EngineEnds, Traced, Directories
  <2> QED BY <1>2, <2>1 DEF Orderly, AgesAt, Unborn, NoRecording
<1>8. CASE NoBundle(r) \/ Killed(r)
  <2>1. UNCHANGED dir /\ job'[r].at = "over"
    BY <1>1, <1>3, <1>8 DEF NoBundle, Killed, Ends
  <2> QED BY <1>4, <2>1
<1>9. CASE BundleBegins(r)
  <2>1. /\ job[r].at = "ended" /\ job'[r].at = "bundling" /\ job'[r].traced = job[r].traced /\ dir' = dir
    BY <1>1, <1>9 DEF BundleBegins, At
  <2> QED BY <1>2, <2>1 DEF Orderly, AgesAt, Unborn
<1>10. CASE BundleDirectory(r)
  <2>1. /\ job[r].at = "bundling" /\ job'[r].at = "bundle_error"
        /\ dir'[r] = (IF job[r].traced THEN dir[r] ELSE [root |-> "diagnostics", files |-> {}])
    BY <1>1, <1>10 DEF BundleDirectory, At
  <2> QED BY <1>2, <2>1 DEF Orderly, AgesAt, Unborn, NoRecording
<1>11. CASE WriteBundle(r)
  <2>1. PICK x \in {"error", "rest", "preserved"} :
          /\ dir[r].root /= "none" /\ dir'[r].root = dir[r].root /\ dir'[r].files = dir[r].files \cup {x}
          /\ \/ x = "error" /\ job[r].at = "bundle_error" /\ job'[r].at = "bundle_rest"
             \/ x = "rest" /\ job[r].at = "bundle_rest" /\ job'[r].at = "bundle_last"
             \/ x = "preserved" /\ job[r].at = "bundle_last" /\ job'[r].at = "over"
    BY <1>1, <1>3, <1>11 DEF WriteBundle, At, Ends, Directories
  <2> QED BY <1>2, <2>1 DEF Orderly, AgesAt, Unborn, NoRecording
<1>12. CASE WriteBundleFails(r)
  <2>1. /\ job[r].at \in {"bundle_error", "bundle_rest", "bundle_last"} /\ job'[r].at = "over"
        /\ dir'[r] = dir[r] \/ (dir'[r] = NoRecording /\ dir[r].files = {})
    BY <1>1, <1>3, <1>12 DEF WriteBundleFails
  <2> QED BY <1>2, <2>1 DEF Orderly, AgesAt, Unborn, NoRecording
<1> QED BY <1>5, <1>6, <1>7, <1>8, <1>9, <1>10, <1>11, <1>12, <1>13 DEF RecordingRunNext

SweptTypes == [Sweepers -> [root : Roots \cup {"none"}, stale : SUBSET RunIDs, all : BOOLEAN]]

LEMMA RunSweeps ==
  ASSUME RecordingsInv, NEW r \in RunIDs, RecordingRunNext(r)
  PROVE  /\ swept' \in SweptTypes /\ \A c \in Sweepers \ {r} : Fewer(c)
         /\ Fewer(r) \/ (UNCHANGED dir /\ Plans(r))
         /\ UNCHANGED dir \/ UNCHANGED swept
<1>1. swept \in SweptTypes /\ r \in Sweepers /\ r \notin TraceCleaners /\ RetainRuns \in 0..RetainRuns
      /\ RetainRuns \in Nat
  BY RecordingsAssumption DEF RecordingsInv, RecordingsTypes, SweptTypes, Sweepers
<1>2. CASE UNCHANGED swept
  BY <1>1, <1>2 DEF Fewer
<1>3. CASE swept' = [swept EXCEPT ![r] = Swept] /\ UNCHANGED dir
  <2>1. swept' \in SweptTypes /\ swept'[r].stale = {} /\ \A c \in Sweepers \ {r} : swept'[c] = swept[c]
    BY <1>1, <1>3 DEF SweptTypes, Swept
  <2> QED BY <1>3, <2>1 DEF Fewer
<1>4. ASSUME NEW root \in Roots, Plan(r, root, RetainRuns, FALSE), UNCHANGED dir
      PROVE  /\ swept' \in SweptTypes /\ \A c \in Sweepers \ {r} : Fewer(c)
             /\ UNCHANGED dir /\ Plans(r)
  <2>1. swept' \in SweptTypes /\ \A c \in Sweepers \ {r} : swept'[c] = swept[c]
    <3> DEFINE all == FALSE
    <3>1. all \in BOOLEAN /\ Plan(r, root, RetainRuns, all)
      BY <1>4
    <3> HIDE DEF all
    <3> QED BY <1>1, <3>1, PlansShape DEF SweptTypes
  <2>2. Plans(r)
    BY <1>1, <1>4 DEF Plans
  <2> QED BY <1>4, <2>1, <2>2 DEF Fewer
<1>5. \/ UNCHANGED swept
      \/ swept' = [swept EXCEPT ![r] = Swept] /\ UNCHANGED dir
      \/ \E root \in Roots : Plan(r, root, RetainRuns, FALSE) /\ UNCHANGED dir
  BY DEF RecordingRunNext, BeginRun, Open, OpenRefused, EngineEnds, NoBundle, BundleBegins, BundleDirectory, WriteBundle,
         WriteBundleFails, Killed, Roots
<1> QED BY <1>2, <1>3, <1>4, <1>5

\* A run takes nothing finished away.
LEMMA RunLeavesDone ==
  ASSUME RecordingsInv, NEW r \in RunIDs, RecordingRunNext(r), NEW root \in Roots
  PROVE  DoneIn(root) \subseteq DoneIn(root)'
<1> SUFFICES ASSUME NEW s \in DoneIn(root) PROVE s \in DoneIn(root)'
  OBVIOUS
<1>1. /\ s \in RunIDs /\ dir[s].root = root /\ Marker(root) \in dir[s].files
      /\ "run-end" \in dir[s].files \/ "preserved" \in dir[s].files
  BY DEF DoneIn, NamesIn, FinishedRecording
<1>2. dir[s] /= NoRecording /\ dir[s].files /= {}
  BY <1>1 DEF NoRecording, Roots
<1>3. ~Unborn(s)
  BY <1>1, <1>2 DEF RecordingsInv, JobInv, Orderly
<1>4. dir'[s].root = dir[s].root /\ dir[s].files \subseteq dir'[s].files
  <2>1. CASE s = r
    BY <1>2, <1>3, <2>1, RunOrderly DEF AgesAt
  <2>2. CASE s /= r
    BY <1>1, <2>2, RunStep
  <2> QED BY <2>1, <2>2
<1>5. /\ s \in RunIDs /\ dir'[s].root = root /\ Marker(root) \in dir'[s].files
      /\ "run-end" \in dir'[s].files \/ "preserved" \in dir'[s].files
  BY <1>1, <1>4
<1> QED BY <1>5 DEF DoneIn, NamesIn, FinishedRecording, Marker

LEMMA RunKeeps ==
  ASSUME RecordingsInv, NEW r \in RunIDs, RecordingRunNext(r)
  PROVE  RecordingsInv' /\ CollectsOldFinished
<1>1. RecordingsTypes'
  BY RunStep, RunSweeps DEF RecordingsInv, RecordingsTypes, SweptTypes
<1>2. ASSUME NEW s \in RunIDs, s /= r PROVE Orderly(s)' /\ AgesAt(s)
  <2>1. job'[s] = job[s] /\ dir'[s] = dir[s] /\ Orderly(s)
    BY <1>2, RunStep DEF RecordingsInv, JobInv
  <2> QED BY <2>1 DEF Orderly, AgesAt, Unborn
<1>3. JobInv' /\ Ages
  BY <1>2, RunOrderly DEF JobInv, Ages
<1>4. r \in Sweepers /\ UNCHANGED cleaned
  BY RunStep DEF Sweepers
<1>5. /\ \A c \in Sweepers \ {r} : Fewer(c)
      /\ Fewer(r) \/ (UNCHANGED dir /\ Plans(r))
      /\ UNCHANGED dir \/ UNCHANGED swept
  BY RunSweeps
<1>6. StaleInv'
  BY <1>1, <1>3, <1>4, <1>5, StaleStep
<1>7. \A x \in TraceCleaners : Fewer(x)
  BY <1>5, RecordingsAssumption DEF Sweepers
<1>8. KeepInv'
  BY <1>1, <1>4, <1>5, <1>7, RunLeavesDone, KeepStep
<1>9. CollectsOldFinished
  BY <1>5 DEF CollectsOldFinished, SweepRemoves
<1> QED BY <1>1, <1>3, <1>6, <1>8, <1>9 DEF RecordingsInv

LEMMA CleanKeepsOld ==
  ASSUME RecordingsInv, NEW c \in TraceCleaners, Clean(c)
  PROVE  RecordingsInv' /\ CollectsOldFinished
<1>1. PICK root \in Roots, keep \in 0..RetainRuns, all \in BOOLEAN : Plan(c, root, keep, all)
  BY DEF Clean
<1>2. cleaned' = [cleaned EXCEPT ![c] = TRUE] /\ UNCHANGED <<job, dir>>
  BY DEF Clean
<1>3. c \in Sweepers /\ keep \in Nat
  BY RecordingsAssumption DEF Sweepers
<1>4. swept' \in SweptTypes /\ \A x \in Sweepers \ {c} : swept'[x] = swept[x]
  BY <1>1, <1>3, PlansShape DEF SweptTypes
<1>5. RecordingsTypes' /\ cleaned'[c] = TRUE
  BY <1>2, <1>4 DEF RecordingsInv, RecordingsTypes, SweptTypes
<1>6. JobInv' /\ Ages
  BY <1>2 DEF RecordingsInv, JobInv, Orderly, Unborn, Ages, AgesAt
<1>7. \A x \in Sweepers \ {c} : Fewer(x)
  BY <1>4 DEF Fewer
<1>8. UNCHANGED dir /\ Plans(c)
  BY <1>1, <1>2 DEF Plans
<1>9. StaleInv'
  BY <1>3, <1>5, <1>6, <1>7, <1>8, StaleStep
<1>10. KeepInv'
  BY <1>5 DEF KeepInv
<1>11. CollectsOldFinished
  BY <1>2 DEF CollectsOldFinished, SweepRemoves
<1> QED BY <1>5, <1>6, <1>9, <1>10, <1>11 DEF RecordingsInv

LEMMA FailKeeps ==
  ASSUME RecordingsInv, NEW c \in Sweepers, PruneFails(c)
  PROVE  RecordingsInv' /\ CollectsOldFinished
<1>1. swept' = [swept EXCEPT ![c] = Swept] /\ UNCHANGED <<job, dir, cleaned>>
  BY DEF PruneFails
<1>2. /\ swept' \in SweptTypes /\ swept'[c].stale = {}
      /\ \A x \in Sweepers \ {c} : swept'[x] = swept[x]
  BY <1>1 DEF RecordingsInv, RecordingsTypes, SweptTypes, Swept
<1>3. \A x \in Sweepers : Fewer(x)
  BY <1>2 DEF Fewer
<1>4. RecordingsTypes'
  BY <1>1, <1>2 DEF RecordingsInv, RecordingsTypes, SweptTypes
<1>5. JobInv' /\ Ages
  BY <1>1 DEF RecordingsInv, JobInv, Orderly, Unborn, Ages, AgesAt
<1>6. StaleInv'
  BY <1>3, <1>4, <1>5, StaleStep
<1>7. \A root \in Roots : DoneIn(root) \subseteq DoneIn(root)'
  BY <1>1 DEF DoneIn, NamesIn, FinishedRecording
<1>8. KeepInv'
  BY <1>1, <1>3, <1>4, <1>7, KeepStep DEF Sweepers
<1>9. CollectsOldFinished
  BY <1>1 DEF CollectsOldFinished, SweepRemoves
<1> QED BY <1>4, <1>5, <1>6, <1>8, <1>9 DEF RecordingsInv

LEMMA PruneKeeps ==
  ASSUME RecordingsInv, NEW c \in Sweepers, Prune(c)
  PROVE  RecordingsInv' /\ CollectsOldFinished
<1>0. PICK r : r = CHOOSE q \in swept[c].stale : \A s \in swept[c].stale : q <= s
  OBVIOUS
<1>1. /\ swept[c].stale /= {} /\ UNCHANGED <<job, cleaned>>
      /\ dir' = (IF dir[r].root = swept[c].root THEN [dir EXCEPT ![r] = NoRecording] ELSE dir)
      /\ swept' = [swept EXCEPT ![c] = StillStale(swept[c], r)]
  BY <1>0 DEF Prune
<1>2. /\ swept \in SweptTypes /\ swept[c] \in [root : Roots \cup {"none"}, stale : SUBSET RunIDs, all : BOOLEAN]
      /\ dir \in [RunIDs -> Directories]
  BY DEF RecordingsInv, RecordingsTypes, SweptTypes
<1>3. r \in swept[c].stale /\ r \in RunIDs
  <2>1. swept[c].stale \subseteq Nat
    BY <1>2, RecordingsAssumption
  <2>2. \E x \in swept[c].stale : \A s \in swept[c].stale : x <= s
    BY <1>1, <2>1, LeastIsThere
  <2> QED BY <1>0, <1>2, <2>2
<1>4. PICK w : w = StillStale(swept[c], r)
  OBVIOUS
<1>5. /\ w \in [root : Roots \cup {"none"}, stale : SUBSET RunIDs, all : BOOLEAN]
      /\ w.stale = swept[c].stale \ {r}
      /\ w.stale /= {} => w.root = swept[c].root /\ w.all = swept[c].all
  BY <1>2, <1>3, <1>4 DEF Swept, StillStale
<1>6. swept' \in SweptTypes /\ swept'[c] = w /\ \A x \in Sweepers \ {c} : swept'[x] = swept[x]
  <2>1. swept' = [swept EXCEPT ![c] = w]
    BY <1>1, <1>4
  <2> QED BY <1>2, <1>5, <2>1 DEF SweptTypes
<1>7. \A x \in Sweepers : Fewer(x)
  BY <1>5, <1>6 DEF Fewer
<1>8. /\ dir' \in [RunIDs -> Directories] /\ \A s \in RunIDs \ {r} : dir'[s] = dir[s]
      /\ \/ dir' = dir
         \/ dir'[r] = NoRecording /\ dir[r].root = swept[c].root
  <2>1. NoRecording \in Directories
    BY DEF NoRecording, Directories
  <2> QED BY <1>1, <1>2, <1>3, <2>1
<1>9. RecordingsTypes'
  BY <1>1, <1>6, <1>8 DEF RecordingsInv, RecordingsTypes, SweptTypes
<1>10. ~Unborn(r) /\ Orderly(r) /\ swept[c].root \in Roots
       /\ (dir[r] = NoRecording \/ (dir[r].root = swept[c].root /\ (swept[c].all \/ WholeDirectory(r))))
  BY <1>3 DEF RecordingsInv, StaleInv, JobInv
<1>11. JobInv' /\ Ages
  <2>1. ASSUME NEW s \in RunIDs PROVE Orderly(s)' /\ AgesAt(s)
    <3>1. CASE dir'[s] = dir[s]
      BY <1>1, <3>1 DEF RecordingsInv, JobInv, Orderly, AgesAt, Unborn
    <3>2. CASE s = r /\ dir'[s] = NoRecording
      BY <1>1, <1>10, <3>2 DEF Orderly, AgesAt, Unborn, NoRecording
    <3> QED BY <1>8, <3>1, <3>2
  <2> QED BY <2>1 DEF JobInv, Ages
<1>12. StaleInv'
  BY <1>7, <1>9, <1>11, StaleStep
<1>13. ASSUME \A x \in TraceCleaners : ~cleaned[x]
       PROVE  /\ \A x \in TraceCleaners : swept[x].stale = {}
              /\ \A d \in RunIDs : \A q \in swept[d].stale : Cardinality(Newer(swept[d].root, q)) >= RetainRuns
              /\ c \in RunIDs /\ Cardinality(Newer(swept[c].root, r)) >= RetainRuns
  <2>1. /\ \A x \in TraceCleaners : swept[x].stale = {}
        /\ \A d \in RunIDs : \A q \in swept[d].stale : Cardinality(Newer(swept[d].root, q)) >= RetainRuns
    BY <1>13 DEF RecordingsInv, KeepInv
  <2>2. c \in RunIDs
    BY <1>1, <2>1 DEF Sweepers
  <2> QED BY <1>3, <2>1, <2>2
<1>14. KeepInv'
  <2>1. CASE dir' = dir
    <3>1. \A root \in Roots : DoneIn(root) \subseteq DoneIn(root)'
      BY <2>1 DEF DoneIn, NamesIn, FinishedRecording
    <3> QED BY <1>1, <1>7, <1>9, <3>1, KeepStep DEF Sweepers
  <2>2. CASE dir'[r] = NoRecording /\ dir[r].root = swept[c].root
    <3> SUFFICES ASSUME \A x \in TraceCleaners : ~cleaned'[x]
                 PROVE  /\ \A x \in TraceCleaners : swept'[x].stale = {}
                        /\ \A d \in RunIDs : \A q \in swept'[d].stale :
                             Cardinality(Newer(swept[d].root, q))' >= RetainRuns
      BY DEF KeepInv
    <3>1. \A x \in TraceCleaners : ~cleaned[x]
      BY <1>1
    <3>2. \A x \in TraceCleaners : swept'[x].stale = {}
      BY <1>7, <1>13, <3>1 DEF Fewer, Sweepers
    <3>3. ASSUME NEW d \in RunIDs, NEW q \in swept'[d].stale
          PROVE  Cardinality(Newer(swept[d].root, q))' >= RetainRuns
      <4>0. d \in Sweepers
        BY DEF Sweepers
      <4>1. PICK root : root = swept[d].root
        OBVIOUS
      <4>2. q \in swept[d].stale /\ swept'[d].root = root /\ root \in Roots
        <5>1. q \in swept[d].stale /\ swept'[d].root = root
          BY <1>7, <3>3, <4>0, <4>1 DEF Fewer
        <5> QED BY <4>0, <4>1, <5>1 DEF RecordingsInv, StaleInv
      <4>3. Cardinality(Newer(root, q)) >= RetainRuns
        BY <1>13, <3>1, <4>1, <4>2
      <4>4. DoneIn(root) \ {r} \subseteq DoneIn(root)'
        BY <1>8 DEF DoneIn, NamesIn, FinishedRecording
      <4>5. q \in Nat /\ r \in Nat /\ DoneIn(root) \subseteq Nat
        BY <1>3, <4>0, <4>2, NewerIsFinite, RecordingsAssumption DEF RecordingsInv, RecordingsTypes
      <4>6. PICK kept \in {Newer(root, q), Newer(swept[c].root, r)} : kept \subseteq Newer(root, q)'
        <5>1. CASE root = swept[c].root /\ q < r
          <6>1. Newer(root, r) \subseteq Newer(root, q)'
            <7>1. ASSUME NEW s \in DoneIn(root), s > r PROVE s \in DoneIn(root)' /\ s > q
              <8>1. s \in Nat
                BY <4>5
              <8>2. s /= r /\ s > q
                BY <4>5, <5>1, <7>1, <8>1
              <8> QED BY <4>4, <8>2
            <7> QED BY <7>1 DEF Newer
          <6> QED BY <5>1, <6>1
        <5>2. CASE ~(q < r)
          <6>1. ASSUME NEW s \in DoneIn(root), s > q PROVE s \in DoneIn(root)'
            <7>1. s \in Nat /\ s /= r
              BY <4>5, <5>2, <6>1
            <7> QED BY <4>4, <7>1
          <6> QED BY <6>1 DEF Newer
        <5>3. CASE root /= swept[c].root
          <6>1. r \notin DoneIn(root)
            BY <2>2, <5>3 DEF DoneIn, NamesIn
          <6>2. DoneIn(root) \subseteq DoneIn(root)'
            BY <4>4, <6>1
          <6> QED BY <6>2 DEF Newer
        <5> QED BY <5>1, <5>2, <5>3
      <4>7. Cardinality(kept) >= RetainRuns
        BY <1>13, <3>1, <4>3, <4>6
      <4>8. Newer(root, q)' \subseteq RunIDs
        BY DEF Newer, DoneIn, NamesIn
      <4>9. IsFiniteSet(Newer(root, q)')
        BY <4>8, RecordingsAssumption, FS_Subset
      <4>10. /\ Cardinality(kept) <= Cardinality(Newer(root, q)')
             /\ Cardinality(kept) \in Nat /\ Cardinality(Newer(root, q)') \in Nat
        BY <4>6, <4>9, FS_Subset, FS_CardinalityType
      <4>11. Cardinality(Newer(root, q)') >= RetainRuns
        BY <4>7, <4>10, RecordingsAssumption
      <4> QED BY <4>2, <4>11, SameNewer
    <3> QED BY <3>2, <3>3
  <2> QED BY <1>8, <2>1, <2>2
<1>15. CollectsOldFinished
  <2>1. ASSUME NEW x \in Sweepers, NEW q \in RunIDs, SweepRemoves(x, q)
        PROVE  /\ x = c /\ q = r /\ dir[r] /= NoRecording /\ dir[r].root = swept[c].root
    <3>1. dir'[q] /= dir[q] /\ swept'[x] /= swept[x] /\ dir[q] /= NoRecording
      BY <2>1 DEF SweepRemoves
    <3> QED BY <1>6, <1>8, <3>1
  <2>2. ASSUME NEW x \in Sweepers, NEW q \in RunIDs, SweepRemoves(x, q), ~swept[x].all
        PROVE  IF dir[q].root = "trace" THEN FinishedRecording(q) ELSE {"error", "rest", "preserved"} \subseteq dir[q].files
    <3>1. x = c /\ q = r /\ WholeDirectory(r)
      BY <1>10, <2>1, <2>2
    <3> QED BY <1>10, <3>1 DEF WholeDirectory, FinishedRecording, Orderly
  <2>3. ASSUME NEW x \in RunIDs, NEW q \in RunIDs, SweepRemoves(x, q), \A y \in TraceCleaners : ~cleaned[y]
        PROVE  Cardinality({s \in NamesIn(dir[q].root) :
                              s > q /\ (FinishedRecording(s) \/ "preserved" \in dir[s].files)}) >= RetainRuns
    <3>1. q = r /\ dir[r].root = swept[c].root
      BY <2>1, <2>3 DEF Sweepers
    <3>2. Cardinality(Newer(dir[q].root, q)) >= RetainRuns
      BY <1>13, <2>3, <3>1
    <3>3. Newer(dir[q].root, q) = {s \in NamesIn(dir[q].root) :
                              s > q /\ (FinishedRecording(s) \/ "preserved" \in dir[s].files)}
      BY DEF Newer, DoneIn
    <3> QED BY <3>2, <3>3
  <2> QED BY <2>2, <2>3 DEF CollectsOldFinished
<1> QED BY <1>9, <1>11, <1>12, <1>14, <1>15 DEF RecordingsInv

\* However long ago a collector looked, it takes only what was finished, and the
\* collection a run makes leaves the newest RetainRuns, for any number of runs and
\* collectors (planSweep, prune).
THEOREM RecordingsKept == RecordingsSpec => RecordingsAreKept
<1>1. RecordingsInv /\ [RecordingsNext]_recordingsVars => RecordingsInv' /\ [CollectsOldFinished]_recordingsVars
  <2> SUFFICES ASSUME RecordingsInv, [RecordingsNext]_recordingsVars
               PROVE  RecordingsInv' /\ [CollectsOldFinished]_recordingsVars
    OBVIOUS
  <2>1. CASE UNCHANGED recordingsVars
    <3>1. RecordingsInv'
      BY <2>1 DEF recordingsVars, RecordingsInv, RecordingsTypes, JobInv, Orderly, Unborn, StaleInv, WholeDirectory, KeepInv,
                  Newer, DoneIn, NamesIn, FinishedRecording
    <3> QED BY <2>1, <3>1
  <2>2. CASE RecordingsNext
    BY <2>2, RunKeeps, PruneKeeps, FailKeeps, CleanKeepsOld DEF RecordingsNext
  <2> QED BY <2>1, <2>2
<1> QED BY <1>1, RecordingsStart, PTL DEF RecordingsSpec, RecordingsAreKept

-----------------------------------------------------------------------------
(* Narrowing: however a run narrows, the verdicts are those of whole passes. *)

\* The tests answer as they do at the start, and every set has its shape.
NarrowingTypes ==
  /\ narrowing \in NarrowingOptions /\ suite \in TestSuites
  /\ target \in [narrowing.selected -> [bins : SUBSET Bins, tests : SUBSET Tests]]
  /\ passes \in [Bins -> {Waiting, Unmeasured} \cup {LoggedAs(log) : log \in SUBSET narrowing.probed}]
  /\ tree \in [dirty : BOOLEAN, spoilt : BOOLEAN]
  /\ found \in [narrowing.selected -> {"none", "survived", "killed"}]
  /\ nwAt = "done" => \A m \in narrowing.selected : found[m] # "none"
  /\ nwAt = "probe" => narrowing.probing

\* A test that was singled out passes a control with the others of its binary.
TestsAreControlled ==
  \A m \in narrowing.selected, b \in Bins : ControlPasses(target[m].tests \cap TestsIn(b))

\* In a clean tree a measured pass names every mutant in the probe tree that its
\* binary is infected by.
LogsAreComplete ==
  ~tree.spoilt =>
    \A b \in Bins : passes[b].state = "measured" =>
      {m \in InProbeTree : b \in suite.manner[m].infects} \subseteq passes[b].named

\* Coverage by binary is exact, and coverage by test is where tests are steady.
Trusted == ~tree.spoilt /\ (Steady \/ narrowing.coverage # "test")

\* No binary that kills a mutant was left out of those it is measured against,
\* and no verdict so far is another one than a whole pass gives, the survival of
\* a mutant apart whose probe was rejected.
NothingIsLost ==
  Trusted =>
    \A m \in narrowing.selected :
      /\ m \notin Silent => (target[m].bins # {} => suite.manner[m].kill \subseteq target[m].bins)
      /\ m \notin Silent => (found[m] = "survived" => suite.manner[m].kill = {})
      /\ found[m] = "killed" => suite.manner[m].kill # {}

NarrowingInv == NarrowingTypes /\ TestsAreControlled /\ LogsAreComplete /\ NothingIsLost

\* A run that starts has narrowed nothing and found nothing.
LEMMA NarrowingInvInit ==
  ASSUME NEW o \in NarrowingOptions, NEW s \in TestSuites, NarrowingStart(o, s)
  PROVE  NarrowingInv
<1>1. ControlPasses({})
  <2>1. Cardinality({}) = 0  BY FS_EmptySet
  <2>2. \A b \in Bins : {} \cap TestsIn(b) = {}  OBVIOUS
  <2> QED  BY <2>1, <2>2 DEF ControlPasses
<1>2. NarrowingTypes
  BY DEF NarrowingStart, NarrowingTypes, NarrowingOptions, TestSuites, WholeTarget, Waiting
<1>3. TestsAreControlled
  <2>1. \A m \in narrowing.selected, b \in Bins : target[m].tests \cap TestsIn(b) = {}
    BY DEF NarrowingStart, WholeTarget
  <2> QED  BY <2>1, <1>1 DEF TestsAreControlled
<1>4. LogsAreComplete
  BY DEF NarrowingStart, LogsAreComplete, Waiting
<1>5. NothingIsLost
  BY DEF NarrowingStart, NothingIsLost, WholeTarget
<1> QED  BY <1>2, <1>3, <1>4, <1>5 DEF NarrowingInv

\* What a binary's mutants stand in, of a suite that has its shape.
LEMMA MannersHold ==
  ASSUME NarrowingTypes, NEW m \in narrowing.selected
  PROVE  LET r == suite.manner[m]
         IN /\ r.alone \subseteq Tests /\ r.reach \subseteq Bins
            /\ r.infects \subseteq r.reach /\ r.kill \subseteq r.infects
            /\ BinsOf(r.fails) \subseteq r.kill
            /\ m \in CatalogMutants
<1>1. m \in CatalogMutants  BY DEF NarrowingTypes, NarrowingOptions
<1>2. suite.manner[m] \in Manners  BY <1>1 DEF NarrowingTypes, TestSuites
<1> QED  BY <1>1, <1>2 DEF Manners

\* Fewer tests pass a control that more of them pass.
LEMMA ControlOfFewer ==
  ASSUME NEW U \in SUBSET Tests, NEW T \in SUBSET U, ControlPasses(U)
  PROVE  ControlPasses(T)
<1>1. T \subseteq suite.solo  BY DEF ControlPasses
<1>2. ASSUME NEW b \in Bins, b \in suite.clash
      PROVE  Cardinality(T \cap TestsIn(b)) < 2
  <2>1. IsFiniteSet(U \cap TestsIn(b))
    BY FS_Subset, TestsAssumption
  <2>2. T \cap TestsIn(b) \subseteq U \cap TestsIn(b)  OBVIOUS
  <2>3. /\ IsFiniteSet(T \cap TestsIn(b))
        /\ Cardinality(T \cap TestsIn(b)) <= Cardinality(U \cap TestsIn(b))
    BY <2>1, <2>2, FS_Subset
  <2>4. Cardinality(U \cap TestsIn(b)) < 2  BY <1>2 DEF ControlPasses
  <2>5. Cardinality(T \cap TestsIn(b)) \in Nat /\ Cardinality(U \cap TestsIn(b)) \in Nat
    BY <2>1, <2>3, FS_CardinalityType
  <2> QED  BY <2>3, <2>4, <2>5
<1> QED  BY <1>1, <1>2 DEF ControlPasses

\* A plan that is reliable passes its control.
LEMMA ReliablePlans ==
  ASSUME NarrowingTypes, NEW m \in narrowing.selected, NEW answered \in BOOLEAN,
         Reliable(PlanOf(m), answered)
  PROVE  ControlPasses(PlanOf(m))
<1>1. CASE answered /\ ControlPasses(PlanOf(m))  BY <1>1
<1>2. CASE Cardinality(PlanOf(m)) = 1
  <2>1. PlanOf(m) \subseteq Tests  BY DEF PlanOf
  <2>2. PlanOf(m) \subseteq suite.solo  BY DEF PlanOf, TestProfile
  <2>3. ASSUME NEW b \in Bins
        PROVE  Cardinality(PlanOf(m) \cap TestsIn(b)) < 2
    <3>1. IsFiniteSet(PlanOf(m))  BY <2>1, FS_Subset, TestsAssumption
    <3>2. /\ IsFiniteSet(PlanOf(m) \cap TestsIn(b))
          /\ Cardinality(PlanOf(m) \cap TestsIn(b)) <= Cardinality(PlanOf(m))
      BY <3>1, FS_Subset
    <3>3. Cardinality(PlanOf(m) \cap TestsIn(b)) \in Nat  BY <3>2, FS_CardinalityType
    <3> QED  BY <3>2, <3>3, <1>2
  <2> QED  BY <2>2, <2>3 DEF ControlPasses
<1> QED  BY <1>1, <1>2 DEF Reliable

\* Where tests are steady, the binaries that tests cover a mutant in are all
\* that could kill it.
LEMMA CoveringIsEnough ==
  ASSUME NarrowingTypes, NEW m \in narrowing.selected, Steady
  PROVE  suite.manner[m].kill \subseteq CoveringBinaries(m)
<1> DEFINE r == suite.manner[m]
<1>1. r.kill \subseteq r.reach /\ r.reach \subseteq Bins /\ m \in CatalogMutants /\ r.alone \subseteq Tests
  BY MannersHold
<1>2. r.reach = BinsOf(r.alone)  BY <1>1 DEF Steady
<1>3. ASSUME NEW b \in r.kill
      PROVE  b \in CoveringBinaries(m)
  <2>1. b \in Bins /\ b \in r.reach  BY <1>1, <1>3
  <2>2. CASE b \in Whole
    BY <2>1, <2>2, <1>1 DEF CoveringBinaries, CoveringOf, BinaryProfile
  <2>3. CASE b \notin Whole
    <3>1. TestsIn(b) \subseteq suite.solo  BY <2>1, <2>3 DEF Whole
    <3>2. PICK t \in r.alone : t[1] = b  BY <2>1, <1>2 DEF BinsOf
    <3>3. t \in Tests /\ t \in TestsIn(b)  BY <1>1, <3>2 DEF TestsIn
    <3>4. m \in TestProfile(t)  BY <3>1, <3>2, <3>3, <1>1 DEF TestProfile
    <3>5. t \in PlanOf(m)  BY <3>2, <3>3, <3>4, <2>3 DEF PlanOf
    <3> QED  BY <3>2, <3>5 DEF CoveringBinaries, BinsOf
  <2> QED  BY <2>2, <2>3
<1> QED  BY <1>3

\* A binary that kills a mutant that is probed is kept.
LEMMA KillersAreKept ==
  ASSUME NarrowingTypes, LogsAreComplete, ~tree.spoilt, NextPass = {},
         NEW m \in narrowing.selected, m \in InProbeTree,
         suite.manner[m].kill \subseteq target[m].bins
  PROVE  suite.manner[m].kill \subseteq Keep(m)
<1> SUFFICES ASSUME NEW b \in suite.manner[m].kill PROVE b \in Keep(m)
  OBVIOUS
<1>1. b \in target[m].bins /\ b \in Bins /\ b \in suite.manner[m].infects
  BY MannersHold
<1>2. passes[b] \in {Waiting, Unmeasured} \cup {LoggedAs(log) : log \in SUBSET narrowing.probed}
  BY <1>1 DEF NarrowingTypes
<1>3. passes[b] # Waiting  BY <1>1 DEF NextPass
<1>4. CASE passes[b] = Unmeasured  BY <1>1, <1>4 DEF Keep
<1>5. CASE passes[b] \in {LoggedAs(log) : log \in SUBSET narrowing.probed}
  <2>1. passes[b].state = "measured"  BY <1>5 DEF LoggedAs
  <2>2. m \in passes[b].named  BY <2>1, <1>1 DEF LogsAreComplete
  <2> QED  BY <1>1, <2>2 DEF Keep, Named
<1> QED  BY <1>2, <1>3, <1>4, <1>5

\* What kills a mutant in a pass, of whichever binaries, is a binary that does.
LEMMA PassesAreRight ==
  ASSUME NarrowingTypes, TestsAreControlled, NEW m \in narrowing.selected, NEW bs \in SUBSET Bins,
         PassKills(m, bs, target[m].tests) \/ PassKills(m, bs, {})
  PROVE  suite.manner[m].kill # {}
<1> DEFINE r == suite.manner[m]
<1>1. r.kill \subseteq Bins /\ BinsOf(r.fails) \subseteq r.kill  BY MannersHold
<1>2. ASSUME PassKills(m, bs, {})
      PROVE  r.kill # {}
  <2>1. PICK b \in bs : IF {} \cap TestsIn(b) = {} THEN b \in r.kill
                        ELSE \/ r.fails \cap {} \cap TestsIn(b) # {}
                             \/ ~ControlPasses({} \cap TestsIn(b))
    BY <1>2 DEF PassKills
  <2>2. {} \cap TestsIn(b) = {}  OBVIOUS
  <2> QED  BY <2>1, <2>2
<1>3. ASSUME PassKills(m, bs, target[m].tests)
      PROVE  r.kill # {}
  <2> DEFINE ts == target[m].tests
  <2>1. PICK b \in bs : IF ts \cap TestsIn(b) = {} THEN b \in r.kill
                        ELSE \/ r.fails \cap ts \cap TestsIn(b) # {}
                             \/ ~ControlPasses(ts \cap TestsIn(b))
    BY <1>3 DEF PassKills
  <2>2. ControlPasses(ts \cap TestsIn(b))  BY DEF TestsAreControlled
  <2>3. CASE r.fails \cap ts \cap TestsIn(b) # {}
    <3>1. PICK t \in r.fails : TRUE  BY <2>3
    <3>2. t[1] \in BinsOf(r.fails)  BY <3>1 DEF BinsOf
    <3> QED  BY <3>2, <1>1
  <2> QED  BY <2>1, <2>2, <2>3
<1> QED  BY <1>2, <1>3

\* What a whole pass over the binaries bs finds, if no killer is left out of them.
LEMMA WholePassesAreRight ==
  ASSUME NarrowingTypes, TestsAreControlled, NEW m \in narrowing.selected, NEW bs \in SUBSET Bins,
         suite.manner[m].kill \subseteq bs
  PROVE  (PassKills(m, bs, target[m].tests) \/ PassKills(m, bs, {})) <=> suite.manner[m].kill # {}
<1> DEFINE r == suite.manner[m]
<1>1. r.kill # {} => PassKills(m, bs, {})
  <2> SUFFICES ASSUME r.kill # {} PROVE PassKills(m, bs, {})
    OBVIOUS
  <2>1. PICK b \in r.kill : TRUE  OBVIOUS
  <2>2. b \in bs /\ {} \cap TestsIn(b) = {}  BY <2>1
  <2> QED  BY <2>1, <2>2 DEF PassKills
<1> QED  BY <1>1, PassesAreRight

\* A step that only goes on to another phase, the last one apart.
LEMMA OnlyThePhase ==
  ASSUME NarrowingInv, UNCHANGED <<narrowing, suite, target, passes, tree, found>>, nwAt' # "done",
         nwAt' = "probe" => narrowing.probing
  PROVE  NarrowingInv'
<1>1. NarrowingTypes'  BY DEF NarrowingInv, NarrowingTypes
<1>2. TestsAreControlled'
  BY DEF NarrowingInv, TestsAreControlled, ControlPasses
<1>3. LogsAreComplete'  BY DEF NarrowingInv, LogsAreComplete, InProbeTree
<1>4. NothingIsLost'
  BY DEF NarrowingInv, NothingIsLost, Trusted, Steady, Silent
<1> QED  BY <1>1, <1>2, <1>3, <1>4 DEF NarrowingInv

\* Where a step of coverage leads is never the end, and to probes only if asked.
LEMMA CoverageGoesOn == AfterCoverage # "done" /\ (AfterCoverage = "probe" => narrowing.probing)
BY DEF AfterCoverage

\* Coverage by binary: a binary that kills a mutant reaches it.
LEMMA CoverageOfBinariesStep ==
  ASSUME NarrowingInv, CoverageOfBinaries
  PROVE  NarrowingInv'
<1> USE DEF NarrowingInv
<1>1. nwAt' # "done" /\ (nwAt' = "probe" => narrowing.probing)
  BY CoverageGoesOn DEF CoverageOfBinaries, Continue
<1>2. UNCHANGED <<narrowing, suite, passes, tree>>  BY DEF CoverageOfBinaries
<1>3. target' = [m \in narrowing.selected |-> [bins |-> CoveringOf(m, Bins), tests |-> {}]]
  BY DEF CoverageOfBinaries
<1>4. found' = [m \in narrowing.selected |-> IF CoveringOf(m, Bins) = {} THEN "survived" ELSE found[m]]
  BY DEF CoverageOfBinaries, Settles
<1>5. \A m \in narrowing.selected : CoveringOf(m, Bins) \subseteq Bins /\ suite.manner[m].kill \subseteq CoveringOf(m, Bins)
  BY MannersHold DEF CoveringOf, BinaryProfile
<1>6. NarrowingTypes'
  BY <1>1, <1>2, <1>3, <1>4, <1>5 DEF NarrowingTypes
<1>7. TestsAreControlled'
  <2>1. ASSUME NEW m \in narrowing.selected, NEW b \in Bins
        PROVE  ControlPasses({} \cap TestsIn(b))
    <3>1. ControlPasses(target[m].tests \cap TestsIn(b))  BY DEF TestsAreControlled
    <3>2. target[m].tests \cap TestsIn(b) \subseteq Tests  BY DEF TestsIn
    <3> QED  BY <3>1, <3>2, ControlOfFewer
  <2>2. \A T : ControlPasses(T)' <=> ControlPasses(T)  BY <1>2 DEF ControlPasses
  <2>3. \A m \in narrowing.selected : target'[m].tests = {}  BY <1>3
  <2> QED  BY <1>2, <2>1, <2>2, <2>3 DEF TestsAreControlled
<1>8. LogsAreComplete'  BY <1>2 DEF LogsAreComplete, InProbeTree
<1>9. NothingIsLost'
  <2> SUFFICES ASSUME Trusted', NEW m \in narrowing.selected
               PROVE  /\ m \notin Silent => (target'[m].bins # {} => suite.manner[m].kill \subseteq target'[m].bins)
                      /\ m \notin Silent => (found'[m] = "survived" => suite.manner[m].kill = {})
                      /\ found'[m] = "killed" => suite.manner[m].kill # {}
    BY <1>2 DEF NothingIsLost, Silent
  <2>1. Trusted  BY <1>2 DEF Trusted, Steady
  <2>2. target'[m].bins = CoveringOf(m, Bins)  BY <1>3
  <2>3. found'[m] = IF CoveringOf(m, Bins) = {} THEN "survived" ELSE found[m]  BY <1>4
  <2> QED  BY <2>1, <2>2, <2>3, <1>5 DEF NothingIsLost
<1> QED  BY <1>6, <1>7, <1>8, <1>9

\* Coverage by test: a plan that is kept passed its control, and where tests are
\* steady no binary that kills a mutant is missed.
LEMMA CoverageOfTestsStep ==
  ASSUME NarrowingInv, CoverageOfTests
  PROVE  NarrowingInv'
<1> USE DEF NarrowingInv
<1> DEFINE TestsFor(m, answered) == IF Reliable(PlanOf(m), answered) THEN PlanOf(m) ELSE {}
<1>1. nwAt' # "done" /\ narrowing.coverage = "test" /\ (nwAt' = "probe" => narrowing.probing)
  BY CoverageGoesOn DEF CoverageOfTests, Continue
<1>2. UNCHANGED <<narrowing, suite, passes, tree>>  BY DEF CoverageOfTests
<1>3. PICK answered \in BOOLEAN :
        target' = [m \in narrowing.selected |->
                     [bins |-> CoveringBinaries(m), tests |-> TestsFor(m, answered)]]
  BY DEF CoverageOfTests
<1>4. found' = [m \in narrowing.selected |-> IF CoveringBinaries(m) = {} THEN "survived" ELSE found[m]]
  BY DEF CoverageOfTests, Settles
<1>5. \A m \in narrowing.selected : CoveringBinaries(m) \subseteq Bins /\ TestsFor(m, answered) \subseteq Tests
  BY DEF CoveringBinaries, CoveringOf, PlanOf, BinsOf, Bins, Whole
<1>6. NarrowingTypes'
  BY <1>1, <1>2, <1>3, <1>4, <1>5 DEF NarrowingTypes
<1>7. TestsAreControlled'
  <2>1. ASSUME NEW m \in narrowing.selected, NEW b \in Bins
        PROVE  ControlPasses(TestsFor(m, answered) \cap TestsIn(b))
    <3>1. CASE Reliable(PlanOf(m), answered)
      <4>1. ControlPasses(PlanOf(m)) /\ PlanOf(m) \subseteq Tests
        BY <3>1, ReliablePlans DEF PlanOf
      <4>2. PlanOf(m) \cap TestsIn(b) \subseteq PlanOf(m)  OBVIOUS
      <4> QED  BY <4>1, <4>2, <3>1, ControlOfFewer
    <3>2. CASE ~Reliable(PlanOf(m), answered)
      <4>1. ControlPasses(target[m].tests \cap TestsIn(b))  BY DEF TestsAreControlled
      <4>2. target[m].tests \cap TestsIn(b) \subseteq Tests  BY DEF TestsIn
      <4>3. ControlPasses({} \cap TestsIn(b))  BY <4>1, <4>2, ControlOfFewer
      <4> QED  BY <4>3, <3>2
    <3> QED  BY <3>1, <3>2
  <2>2. \A T : ControlPasses(T)' <=> ControlPasses(T)  BY <1>2 DEF ControlPasses
  <2>3. \A m \in narrowing.selected : target'[m].tests = TestsFor(m, answered)  BY <1>3
  <2> HIDE DEF TestsFor
  <2> QED  BY <1>2, <2>1, <2>2, <2>3 DEF TestsAreControlled
<1>8. LogsAreComplete'  BY <1>2 DEF LogsAreComplete, InProbeTree
<1>9. NothingIsLost'
  <2> SUFFICES ASSUME Trusted', NEW m \in narrowing.selected
               PROVE  /\ m \notin Silent => (target'[m].bins # {} => suite.manner[m].kill \subseteq target'[m].bins)
                      /\ m \notin Silent => (found'[m] = "survived" => suite.manner[m].kill = {})
                      /\ found'[m] = "killed" => suite.manner[m].kill # {}
    BY <1>2 DEF NothingIsLost, Silent
  <2>1. Trusted /\ Steady  BY <1>1, <1>2 DEF Trusted, Steady
  <2>2. suite.manner[m].kill \subseteq CoveringBinaries(m)  BY <2>1, CoveringIsEnough
  <2>3. target'[m].bins = CoveringBinaries(m)  BY <1>3
  <2>4. found'[m] = IF CoveringBinaries(m) = {} THEN "survived" ELSE found[m]  BY <1>4
  <2> QED  BY <2>1, <2>2, <2>3, <2>4 DEF NothingIsLost
<1> QED  BY <1>6, <1>7, <1>8, <1>9

\* A pass that measured its binary in a clean tree logged what infects it.
LEMMA ProbeMeasuredStep ==
  ASSUME NarrowingInv, ProbeMeasured
  PROVE  NarrowingInv'
<1> USE DEF NarrowingInv
<1>1. UNCHANGED <<narrowing, suite, nwAt, target, found>>  BY DEF ProbeMeasured
<1>2a. PICK b \in NextPass : \E log \in InfectionLogs(b) : passes' = [passes EXCEPT ![b] = LoggedAs(log)]
  BY DEF ProbeMeasured
<1>2. PICK log \in InfectionLogs(b) : passes' = [passes EXCEPT ![b] = LoggedAs(log)]
  BY <1>2a
<1>3. tree' = [dirty |-> FALSE, spoilt |-> tree.spoilt \/ tree.dirty]  BY DEF ProbeMeasured
<1>4. b \in Bins /\ log \subseteq InProbeTree /\ log \subseteq narrowing.probed
  <2>1. b \in Bins  BY DEF NextPass
  <2>2. CASE tree.dirty  BY <1>2, <2>1, <2>2 DEF InfectionLogs, InProbeTree
  <2>3. CASE ~tree.dirty  BY <1>2, <2>1, <2>3 DEF InfectionLogs, InProbeTree
  <2> QED  BY <2>1, <2>2, <2>3
<1>5. tree.dirty \in BOOLEAN /\ tree.spoilt \in BOOLEAN  BY DEF NarrowingTypes
<1>6. NarrowingTypes'
  <2>1. passes' \in [Bins -> {Waiting, Unmeasured} \cup {LoggedAs(l) : l \in SUBSET narrowing.probed}]
    BY <1>2, <1>4 DEF NarrowingTypes
  <2>2. tree' \in [dirty : BOOLEAN, spoilt : BOOLEAN]  BY <1>3, <1>5
  <2> QED  BY <1>1, <2>1, <2>2 DEF NarrowingTypes
<1>7. TestsAreControlled'  BY <1>1 DEF TestsAreControlled, ControlPasses
<1>8. LogsAreComplete'
  <2> SUFFICES ASSUME ~tree'.spoilt, NEW c \in Bins, passes'[c].state = "measured"
               PROVE  {m \in InProbeTree : c \in suite.manner[m].infects} \subseteq passes'[c].named
    BY <1>1 DEF LogsAreComplete, InProbeTree
  <2>1. ~tree.spoilt /\ ~tree.dirty  BY <1>3, <1>5
  <2>2. CASE c = b
    <3>1. log = {m \in InProbeTree : b \in suite.manner[m].infects}  BY <2>1 DEF InfectionLogs
    <3>2. passes'[b] = LoggedAs(log)  BY <1>2, <1>4 DEF NarrowingTypes
    <3> QED  BY <2>2, <3>1, <3>2 DEF LoggedAs
  <2>3. CASE c # b
    <3>1. passes'[c] = passes[c]  BY <1>2, <2>3 DEF NarrowingTypes
    <3> QED  BY <2>1, <3>1 DEF LogsAreComplete
  <2> QED  BY <2>2, <2>3
<1>9. NothingIsLost'
  <2>1. Trusted' => Trusted  BY <1>1, <1>3, <1>5 DEF Trusted, Steady
  <2> QED  BY <1>1, <2>1 DEF NothingIsLost, Silent
<1> QED  BY <1>6, <1>7, <1>8, <1>9

\* A pass that answered nothing leaves the logs of the others.
LEMMA ProbeUnmeasuredStep ==
  ASSUME NarrowingInv, ProbeUnmeasured
  PROVE  NarrowingInv'
<1> USE DEF NarrowingInv
<1>1. UNCHANGED <<narrowing, suite, nwAt, target, found>>  BY DEF ProbeUnmeasured
<1>2. PICK b \in NextPass : passes' = [passes EXCEPT ![b] = Unmeasured]  BY DEF ProbeUnmeasured
<1>3. tree' = [dirty |-> tree.dirty \/ suite.writes, spoilt |-> tree.spoilt \/ tree.dirty]
  BY DEF ProbeUnmeasured
<1>4. b \in Bins  BY DEF NextPass
<1>5. tree.dirty \in BOOLEAN /\ tree.spoilt \in BOOLEAN /\ suite.writes \in BOOLEAN
  BY DEF NarrowingTypes, TestSuites
<1>6. NarrowingTypes'
  <2>1. passes' \in [Bins -> {Waiting, Unmeasured} \cup {LoggedAs(l) : l \in SUBSET narrowing.probed}]
    BY <1>2, <1>4 DEF NarrowingTypes
  <2>2. tree' \in [dirty : BOOLEAN, spoilt : BOOLEAN]  BY <1>3, <1>5
  <2> QED  BY <1>1, <2>1, <2>2 DEF NarrowingTypes
<1>7. TestsAreControlled'  BY <1>1 DEF TestsAreControlled, ControlPasses
<1>8. LogsAreComplete'
  <2> SUFFICES ASSUME ~tree'.spoilt, NEW c \in Bins, passes'[c].state = "measured"
               PROVE  {m \in InProbeTree : c \in suite.manner[m].infects} \subseteq passes'[c].named
    BY <1>1 DEF LogsAreComplete, InProbeTree
  <2>1. ~tree.spoilt  BY <1>3, <1>5
  <2>2. passes'[b] = Unmeasured  BY <1>2, <1>4 DEF NarrowingTypes
  <2>3. c # b  BY <2>2 DEF Unmeasured
  <2>4. passes'[c] = passes[c]  BY <1>2, <2>3 DEF NarrowingTypes
  <2> QED  BY <2>1, <2>4 DEF LogsAreComplete
<1>9. NothingIsLost'
  <2>1. Trusted' => Trusted  BY <1>1, <1>3, <1>5 DEF Trusted, Steady
  <2> QED  BY <1>1, <2>1 DEF NothingIsLost, Silent
<1> QED  BY <1>6, <1>7, <1>8, <1>9

\* What the probes settle: a binary that kills a mutant is never ruled out.
LEMMA ApplyProbeStep ==
  ASSUME NarrowingInv, ApplyProbe
  PROVE  NarrowingInv'
<1> USE DEF NarrowingInv
<1> DEFINE Decided == {m \in Running \cap narrowing.probed : target[m].bins # {}}
<1> DEFINE Narrowed(m) == [bins |-> Keep(m), tests |-> {t \in target[m].tests : t[1] \in Keep(m)}]
<1>1. UNCHANGED <<narrowing, suite, passes, tree>> /\ nwAt' = "measure"
  BY DEF ApplyProbe, Continue
<1>2. target' = [m \in narrowing.selected |->
                   IF m \in Decided /\ Keep(m) # {} THEN Narrowed(m) ELSE target[m]]
  BY DEF ApplyProbe
<1>3. found' = [m \in narrowing.selected |-> IF m \in Decided /\ Keep(m) = {} THEN "survived" ELSE found[m]]
  <2>1. \A m \in narrowing.selected : m \in {d \in Decided : Keep(d) = {}} <=> m \in Decided /\ Keep(m) = {}
    OBVIOUS
  <2>2. found' = [m \in narrowing.selected |->
                    IF m \in {d \in Decided : Keep(d) = {}} THEN "survived" ELSE found[m]]
    BY DEF ApplyProbe, Settles
  <2> QED  BY <2>1, <2>2
<1>4. \A m \in Decided : NextPass = {} /\ m \in narrowing.probed /\ target[m].bins # {}
  BY DEF ApplyProbe
<1>4a. \A m \in Decided : m \in Silent \/ m \in InProbeTree
  BY DEF ApplyProbe, NarrowingTypes, Silent, InProbeTree
<1>5. \A m \in narrowing.selected :
        /\ Keep(m) \subseteq target[m].bins
        /\ target[m].bins \subseteq Bins /\ target[m].tests \subseteq Tests
  BY DEF Keep, NarrowingTypes
<1> HIDE DEF Decided
<1>6. NarrowingTypes'
  BY <1>1, <1>2, <1>3, <1>5 DEF NarrowingTypes
<1>7. TestsAreControlled'
  <2>1. \A T : ControlPasses(T)' <=> ControlPasses(T)  BY <1>1 DEF ControlPasses
  <2>2. ASSUME NEW m \in narrowing.selected, NEW b \in Bins
        PROVE  ControlPasses(target'[m].tests \cap TestsIn(b))
    <3>1. target'[m].tests \subseteq target[m].tests  BY <1>2
    <3>2. ControlPasses(target[m].tests \cap TestsIn(b))  BY DEF TestsAreControlled
    <3>3. target[m].tests \cap TestsIn(b) \subseteq Tests  BY <1>5
    <3> QED  BY <3>1, <3>2, <3>3, ControlOfFewer
  <2> QED  BY <1>1, <2>1, <2>2 DEF TestsAreControlled
<1>8. LogsAreComplete'  BY <1>1 DEF LogsAreComplete, InProbeTree
<1>9. NothingIsLost'
  <2> SUFFICES ASSUME Trusted', NEW m \in narrowing.selected
               PROVE  /\ m \notin Silent => (target'[m].bins # {} => suite.manner[m].kill \subseteq target'[m].bins)
                      /\ m \notin Silent => (found'[m] = "survived" => suite.manner[m].kill = {})
                      /\ found'[m] = "killed" => suite.manner[m].kill # {}
    BY <1>1 DEF NothingIsLost, Silent
  <2>1. Trusted /\ ~tree.spoilt  BY <1>1 DEF Trusted, Steady
  <2>2. /\ m \notin Silent => (target[m].bins # {} => suite.manner[m].kill \subseteq target[m].bins)
        /\ m \notin Silent => (found[m] = "survived" => suite.manner[m].kill = {})
        /\ found[m] = "killed" => suite.manner[m].kill # {}
    BY <2>1 DEF NothingIsLost
  <2>3. CASE m \in Decided
    <3>1. m \notin Silent => suite.manner[m].kill \subseteq Keep(m)
      BY <1>4, <1>4a, <2>1, <2>2, <2>3, KillersAreKept
    <3>2. CASE Keep(m) = {}
      <4>1. target'[m] = target[m] /\ found'[m] = "survived"  BY <1>2, <1>3, <2>3, <3>2
      <4> QED  BY <4>1, <3>1, <3>2, <2>2
    <3>3. CASE Keep(m) # {}
      <4>1. target'[m].bins = Keep(m) /\ found'[m] = found[m]  BY <1>2, <1>3, <2>3, <3>3
      <4> QED  BY <4>1, <3>1, <2>2
    <3> QED  BY <3>2, <3>3
  <2>4. CASE m \notin Decided
    <3>1. target'[m] = target[m] /\ found'[m] = found[m]  BY <1>2, <1>3, <2>4
    <3> QED  BY <3>1, <2>2
  <2> QED  BY <2>3, <2>4
<1> QED  BY <1>6, <1>7, <1>8, <1>9

\* The measurement: what the targets find is what whole passes would.
LEMMA MeasureStep ==
  ASSUME NarrowingInv, Measure
  PROVE  NarrowingInv'
<1> USE DEF NarrowingInv
<1> DEFINE Ran(m) == IF target[m].bins = {} THEN Bins ELSE target[m].bins
<1> DEFINE Dies(m) == PassKills(m, Ran(m), target[m].tests) \/ PassKills(m, Ran(m), {})
<1>1. UNCHANGED <<narrowing, suite, target, passes, tree>> /\ nwAt' = "done"
  BY DEF Measure, Continue
<1>2. found' = [m \in narrowing.selected |->
                  IF found[m] # "none" THEN found[m] ELSE IF Dies(m) THEN "killed" ELSE "survived"]
  BY DEF Measure
<1>3. \A m \in narrowing.selected : Ran(m) \subseteq Bins  BY DEF NarrowingTypes
<1>4. NarrowingTypes'
  <2> HIDE DEF Dies
  <2>1. found' \in [narrowing.selected -> {"none", "survived", "killed"}]
    BY <1>2 DEF NarrowingTypes
  <2>2. \A m \in narrowing.selected : found'[m] # "none"  BY <1>2 DEF NarrowingTypes
  <2> QED  BY <1>1, <2>1, <2>2 DEF NarrowingTypes
<1>5. TestsAreControlled'  BY <1>1 DEF TestsAreControlled, ControlPasses
<1>6. LogsAreComplete'  BY <1>1 DEF LogsAreComplete, InProbeTree
<1>7. NothingIsLost'
  <2> SUFFICES ASSUME Trusted', NEW m \in narrowing.selected
               PROVE  /\ m \notin Silent => (target[m].bins # {} => suite.manner[m].kill \subseteq target[m].bins)
                      /\ m \notin Silent => (found'[m] = "survived" => suite.manner[m].kill = {})
                      /\ found'[m] = "killed" => suite.manner[m].kill # {}
    BY <1>1 DEF NothingIsLost, Silent
  <2>1. Trusted  BY <1>1 DEF Trusted, Steady
  <2>2. /\ m \notin Silent => (target[m].bins # {} => suite.manner[m].kill \subseteq target[m].bins)
        /\ m \notin Silent => (found[m] = "survived" => suite.manner[m].kill = {})
        /\ found[m] = "killed" => suite.manner[m].kill # {}
    BY <2>1 DEF NothingIsLost
  <2>3. m \notin Silent => suite.manner[m].kill \subseteq Ran(m)  BY <2>2, MannersHold
  <2>4. /\ Dies(m) => suite.manner[m].kill # {}
        /\ m \notin Silent => (Dies(m) <=> suite.manner[m].kill # {})
    BY <1>3, <2>3, WholePassesAreRight, PassesAreRight
  <2>5. found'[m] = IF found[m] # "none" THEN found[m] ELSE IF Dies(m) THEN "killed" ELSE "survived"
    BY <1>2
  <2> HIDE DEF Dies
  <2> QED  BY <2>2, <2>4, <2>5
<1> QED  BY <1>4, <1>5, <1>6, <1>7

\* Every step of a run keeps the invariant.
LEMMA NarrowingInvStep == NarrowingInv /\ [NarrowingNext]_narrowingVars => NarrowingInv'
<1> SUFFICES ASSUME NarrowingInv, [NarrowingNext]_narrowingVars PROVE NarrowingInv'
  OBVIOUS
<1>1. CASE BuildTestBinaries
  <2>1. /\ nwAt' # "done" /\ (nwAt' = "probe" => narrowing.probing)
        /\ UNCHANGED <<narrowing, suite, target, passes, tree, found>>
    BY <1>1, CoverageGoesOn DEF BuildTestBinaries, Continue
  <2> QED  BY <2>1, OnlyThePhase
<1>2. CASE CoverageUnavailable
  <2>1. /\ nwAt' # "done" /\ (nwAt' = "probe" => narrowing.probing)
        /\ UNCHANGED <<narrowing, suite, target, passes, tree, found>>
    BY <1>2, CoverageGoesOn DEF CoverageUnavailable, Continue
  <2> QED  BY <2>1, OnlyThePhase
<1>3. CASE CoverageOfBinaries  BY <1>3, CoverageOfBinariesStep
<1>4. CASE CoverageOfTests  BY <1>4, CoverageOfTestsStep
<1>5. CASE ProbeTreeFails
  <2>1. /\ nwAt' # "done" /\ (nwAt' = "probe" => narrowing.probing)
        /\ UNCHANGED <<narrowing, suite, target, passes, tree, found>>
    BY <1>5 DEF ProbeTreeFails, Continue
  <2> QED  BY <2>1, OnlyThePhase
<1>6. CASE ProbeMeasured  BY <1>6, ProbeMeasuredStep
<1>7. CASE ProbeUnmeasured  BY <1>7, ProbeUnmeasuredStep
<1>8. CASE RestoreProbeTreeFails
  <2>1. /\ nwAt' # "done" /\ (nwAt' = "probe" => narrowing.probing)
        /\ UNCHANGED <<narrowing, suite, target, passes, tree, found>>
    BY <1>8 DEF RestoreProbeTreeFails, Continue
  <2> QED  BY <2>1, OnlyThePhase
<1>9. CASE SettleRefuses
  <2>1. /\ nwAt' # "done" /\ (nwAt' = "probe" => narrowing.probing)
        /\ UNCHANGED <<narrowing, suite, target, passes, tree, found>>
    BY <1>9 DEF SettleRefuses, Continue
  <2> QED  BY <2>1, OnlyThePhase
<1>10. CASE ApplyProbe  BY <1>10, ApplyProbeStep
<1>11. CASE Measure  BY <1>11, MeasureStep
<1>12. CASE UNCHANGED narrowingVars
  <2>1. UNCHANGED <<narrowing, suite, nwAt, target, passes, tree, found>>
    BY <1>12 DEF narrowingVars
  <2>2. NarrowingTypes'  BY <2>1 DEF NarrowingInv, NarrowingTypes
  <2>3. TestsAreControlled'  BY <2>1 DEF NarrowingInv, TestsAreControlled, ControlPasses
  <2>4. LogsAreComplete'  BY <2>1 DEF NarrowingInv, LogsAreComplete, InProbeTree
  <2>5. NothingIsLost'  BY <2>1 DEF NarrowingInv, NothingIsLost, Trusted, Steady, Silent
  <2> QED  BY <2>2, <2>3, <2>4, <2>5 DEF NarrowingInv
<1> QED
  BY <1>1, <1>2, <1>3, <1>4, <1>5, <1>6, <1>7, <1>8, <1>9, <1>10, <1>11, <1>12 DEF NarrowingNext

\* Narrowing changes no verdict (internal/engine coverage.go, testcoverage.go and
\* probe.go): whatever of the coverage, the controls and the probe passes failed,
\* a mutant has the verdict that every binary measured as a whole would have
\* given it, for any mutants, tests and ways in which they may behave.
THEOREM NarrowingIsSound == NarrowingSpec => []VerdictsAreUnnarrowed
<1>1. (\E o \in NarrowingOptions, s \in TestSuites : NarrowingStart(o, s)) => NarrowingInv
  BY NarrowingInvInit
<1>2. NarrowingInv => VerdictsAreUnnarrowed
  <2> SUFFICES ASSUME NarrowingInv PROVE VerdictsAreUnnarrowed
    OBVIOUS
  <2>1. VerdictIsUnnarrowed
    <3> SUFFICES ASSUME nwAt = "done", Steady, ~tree.spoilt, NEW m \in narrowing.selected
                 PROVE  /\ m \notin Silent => found[m] = Verdict(m)
                        /\ found[m] = "killed" => Verdict(m) = "killed"
      BY DEF VerdictIsUnnarrowed
    <3>1. found[m] \in {"survived", "killed"}  BY DEF NarrowingInv, NarrowingTypes
    <3>2. Trusted  BY DEF Trusted
    <3> QED  BY <3>1, <3>2 DEF NarrowingInv, NothingIsLost, Verdict
  <2>2. SettledIsUnobservable
    BY DEF NarrowingInv, NothingIsLost, Trusted, SettledIsUnobservable
  <2> QED  BY <2>1, <2>2 DEF VerdictsAreUnnarrowed
<1> QED  BY <1>1, <1>2, NarrowingInvStep, PTL DEF NarrowingSpec

==========================================================================
