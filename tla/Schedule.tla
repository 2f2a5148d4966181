----------------------------- MODULE Schedule -----------------------------
(***************************************************************************)
(* The execution phase (internal/execute/schedule.go and run.go): workers  *)
(* take mutants from one counter and measure them, each in its own copy of *)
(* the tree when the run isolates; what timed out is held back and         *)
(* measured again, alone, once the queue has drained.                      *)
(*                                                                         *)
(* One attempt (RunOne) is a pass over the tests that cover the mutant, if *)
(* the run narrowed it to some, and, when that survives or there was none, *)
(* a pass over the whole of the binaries.  The copy of the tree is put     *)
(* back after every pass.                                                  *)
(***************************************************************************)
EXTENDS Naturals, Sequences

CONSTANTS
  N,      \* at most this many mutants are selected
  Jobs    \* opts.workers()

ASSUME NAssumption == N \in Nat
ASSUME JobsAssumption == Jobs \in Nat \ {0}

Mutants == 1 .. N
Workers == 0 .. Jobs - 1
Main == Jobs                       \* the goroutine Schedule runs on
Actors == Workers \cup {Main}
Slot(a) == IF a = Main THEN 0 ELSE a    \* retryWorker is worker 0

VARIABLES
  n,          \* len(mutants)
  binaries,   \* there is a test binary
  isolate,    \* workers have copies of the tree, and Restores to put them back
  never,      \* the mutants that are NeverReturns
  narrowed,   \* the mutants with Tests
  cancelled,  \* ctx.Err() != nil
  next,       \* the counter the workers share
  pc, at, whole, out,     \* of every actor: place, mutant, pass, outcome
  dirty,      \* the copies of the tree that tests wrote to
  attempts,   \* results[i].Attempts, by their outcomes
  final,      \* results[i].Final
  pending,    \* the mutants held back
  failed,     \* a tree was not put back
  told,       \* history: what hooks.Finished said of each mutant
  result      \* the error Schedule returned

options == <<n, binaries, isolate, never, narrowed>>
books == <<attempts, final, pending, told>>
run == <<pc, at, whole, out, dirty>>
vars == <<options, cancelled, next, run, books, failed, result>>

Init ==
  /\ n \in 0 .. N
  /\ binaries \in BOOLEAN
  /\ isolate \in BOOLEAN
  /\ never \in SUBSET (1 .. n)
  /\ narrowed \in SUBSET (1 .. n)
  /\ cancelled = FALSE
  /\ next = 0
  /\ pc = [a \in Actors |-> IF a = Main THEN "start" ELSE "idle"]
  /\ at = [a \in Actors |-> 0]
  /\ whole = [a \in Actors |-> FALSE]
  /\ out = [a \in Actors |-> "none"]
  /\ dirty = {}
  /\ attempts = [m \in Mutants |-> <<>>]
  /\ final = [m \in Mutants |-> "not_run"]
  /\ pending = {}
  /\ failed = FALSE
  /\ told = [m \in Mutants |-> "none"]
  /\ result = "running"

Goto(a, from, to) == pc[a] = from /\ pc' = [pc EXCEPT ![a] = to]

Return(from, error) ==
  /\ Goto(Main, from, "returned")
  /\ result' = error

-----------------------------------------------------------------------------
(* RunOne *)

\* hooks.Started, and the first pass of an attempt at mutant m.
Start(a, from, m) ==
  /\ Goto(a, from, "pass")
  /\ at' = [at EXCEPT ![a] = m]
  /\ whole' = [whole EXCEPT ![a] = m \notin narrowed]
  /\ UNCHANGED <<out, dirty>>

\* A pass that starts no binary leaves the tree alone: the context is over
\* already, or the request or its scratch directory is refused.
PassRefuse(a) ==
  /\ Goto(a, "pass", "book")
  /\ \/ cancelled /\ out' = [out EXCEPT ![a] = "not_run"]
     \/ out' = [out EXCEPT ![a] = "errored"]
  /\ UNCHANGED <<options, cancelled, next, at, whole, dirty, books, failed, result>>

PassStart(a) ==
  /\ Goto(a, "pass", "running")
  /\ ~cancelled
  /\ UNCHANGED <<options, cancelled, next, at, whole, out, dirty, books, failed, result>>

\* The binaries are run in turn until one decides the pass.  Tests write into a
\* tree only where the run isolates: the drift gate has seen to that.
PassEnd(a) ==
  /\ Goto(a, "running", "restore")
  /\ \E o \in {"killed", "survived", "timed_out", "diverged", "errored", "not_run"} :
       /\ o = "not_run" => cancelled
       /\ out' = [out EXCEPT ![a] = o]
  /\ \/ isolate /\ dirty' = dirty \cup {Slot(a)}
     \/ UNCHANGED dirty
  /\ UNCHANGED <<options, cancelled, next, at, whole, books, failed, result>>

\* MUTANT: the tree is put back between mutants and not between passes.
RestoreOnce(a) ==
  /\ out' = out
  /\ IF out[a] = "survived" /\ ~whole[a]
     THEN Goto(a, "restore", "pass") /\ whole' = [whole EXCEPT ![a] = TRUE] /\ UNCHANGED dirty
     ELSE Goto(a, "restore", "book") /\ dirty' = dirty \ {Slot(a)} /\ UNCHANGED whole
  /\ UNCHANGED <<options, cancelled, next, at, books, failed, result>>

\* The copy is put back, and what survived its covering tests meets the rest.
Restore(a) ==
  /\ out' = out /\ dirty' = dirty \ {Slot(a)}
  /\ IF out[a] = "survived" /\ ~whole[a]
     THEN Goto(a, "restore", "pass") /\ whole' = [whole EXCEPT ![a] = TRUE]
     ELSE Goto(a, "restore", "book") /\ UNCHANGED whole
  /\ UNCHANGED <<options, cancelled, next, at, books, failed, result>>

RestoreFail(a) ==
  /\ isolate
  /\ Goto(a, "restore", "book")
  /\ out' = [out EXCEPT ![a] = "tree"]
  /\ UNCHANGED <<options, cancelled, next, at, whole, dirty, books, failed, result>>

RunOne(a) == PassRefuse(a) \/ PassStart(a) \/ PassEnd(a) \/ Restore(a) \/ RestoreFail(a)

-----------------------------------------------------------------------------
(* Workers *)

Poll(w) ==
  /\ \/ Goto(w, "poll", "take") /\ ~cancelled
     \/ Goto(w, "poll", "exited") /\ cancelled
  /\ UNCHANGED <<options, cancelled, next, at, whole, out, dirty, books, failed, result>>

\* MUTANT: a worker that finds the queue empty looks again.
TakeAgain(w) ==
  /\ \/ next < n /\ next' = next + 1 /\ Start(w, "take", next + 1)
     \/ next >= n /\ Goto(w, "take", "poll") /\ UNCHANGED <<next, at, whole, out, dirty>>
  /\ UNCHANGED <<options, cancelled, books, failed, result>>

Take(w) ==
  /\ next' = next + 1
  /\ \/ next < n /\ Start(w, "take", next + 1)
     \/ next >= n /\ Goto(w, "take", "exited") /\ UNCHANGED <<at, whole, out, dirty>>
  /\ UNCHANGED <<options, cancelled, books, failed, result>>

\* The attempt goes into the books, and its variables out of scope.
Record(m, o) == attempts' = [attempts EXCEPT ![m] = Append(@, o)]

Forget(a) == whole' = [whole EXCEPT ![a] = FALSE] /\ out' = [out EXCEPT ![a] = "none"]

\* hooks.Finished is told the final outcome.
Finish(m, f) ==
  /\ final' = [final EXCEPT ![m] = f]
  /\ told' = [told EXCEPT ![m] = f]

Settle(m, o) == Finish(m, o)

\* MUTANT: a retry that finishes is believed.
ConfirmLast(m, o) == Finish(m, IF o = "diverged" THEN "timed_out" ELSE o)

\* confirm: two timeouts are a timeout, and a retry that finished tells nothing.
Confirm(m, o) ==
  CASE o \in {"timed_out", "diverged"} -> Finish(m, "timed_out")
    [] o \in {"killed", "survived"}    -> Finish(m, "inconclusive")
    [] OTHER                           -> Settle(m, o)

HoldBack(m) == pending' = pending \cup {m} /\ UNCHANGED <<final, told>>

\* A tree that was not put back ends this worker; the others work on.
Book(w) ==
  LET m == at[w]
      o == out[w]
  IN /\ pc[w] = "book" /\ Record(m, o)
     /\ at' = [at EXCEPT ![w] = 0] /\ Forget(w)
     /\ IF o = "tree"
        THEN Goto(w, "book", "exited") /\ failed' = TRUE /\ UNCHANGED <<final, pending, told>>
        ELSE /\ Goto(w, "book", "poll")
             /\ UNCHANGED failed
             /\ IF o \notin {"timed_out", "diverged"}
                THEN Settle(m, o) /\ UNCHANGED pending
                ELSE IF m \in never \/ o = "diverged"
                     THEN Confirm(m, o) /\ UNCHANGED pending
                     ELSE HoldBack(m)
     /\ UNCHANGED <<options, cancelled, next, dirty, result>>

-----------------------------------------------------------------------------
(* Schedule *)

Begin ==
  /\ \/ n = 0 /\ Return("start", "ok")
     \/ n > 0 /\ ~binaries /\ Return("start", "refused")
     \/ /\ n > 0 /\ binaries /\ pc[Main] = "start"
        /\ pc' = [a \in Actors |-> IF a = Main THEN "wait"
                                   ELSE IF a < n THEN "poll" ELSE "exited"]
        /\ UNCHANGED result
  /\ UNCHANGED <<options, cancelled, next, at, whole, out, dirty, books, failed>>

\* wg.Wait().
Join ==
  /\ \A w \in Workers : pc[w] = "exited"
  /\ \/ failed /\ Return("wait", "broken")
     \/ ~failed /\ Goto(Main, "wait", "retry") /\ UNCHANGED result
  /\ UNCHANGED <<options, cancelled, next, at, whole, out, dirty, books, failed>>

HeldBack == {m \in pending : m > at[Main]}

\* The next mutant held back, in the order of the queue.
Retry ==
  /\ \E m \in HeldBack :
       /\ \A k \in HeldBack : m <= k
       /\ \/ ~cancelled /\ Start(Main, "retry", m) /\ UNCHANGED books
          \/ /\ cancelled /\ Goto(Main, "retry", "retry")
             /\ at' = [at EXCEPT ![Main] = m]
             /\ Finish(m, "not_run")
             /\ UNCHANGED <<whole, out, dirty, attempts, pending>>
  /\ UNCHANGED <<options, cancelled, next, failed, result>>

RetryBook ==
  LET m == at[Main]
      o == out[Main]
  IN /\ pc[Main] = "book" /\ Record(m, o) /\ Forget(Main)
     /\ IF o = "tree"
        THEN Goto(Main, "book", "broken") /\ UNCHANGED <<final, told>>
        ELSE Goto(Main, "book", "retry") /\ Confirm(m, o)
     /\ UNCHANGED <<options, cancelled, next, at, dirty, pending, failed, result>>

Finished ==
  /\ \/ Return("broken", "broken")
     \/ HeldBack = {} /\ cancelled /\ Return("retry", "interrupted")
     \/ HeldBack = {} /\ ~cancelled /\ Return("retry", "ok")
  /\ UNCHANGED <<options, cancelled, next, at, whole, out, dirty, books, failed>>

\* The caller's context ends, at any moment.
Cancel ==
  /\ ~cancelled
  /\ cancelled' = TRUE
  /\ UNCHANGED <<options, next, run, books, failed, result>>

WorkerStep(w) == Poll(w) \/ Take(w) \/ RunOne(w) \/ Book(w)
MainStep == Begin \/ Join \/ Retry \/ RunOne(Main) \/ RetryBook \/ Finished

Done == pc[Main] = "returned" /\ UNCHANGED vars

Next == (\E w \in Workers : WorkerStep(w)) \/ MainStep \/ Cancel \/ Done

Spec == Init /\ [][Next]_vars

\* Goroutines are scheduled, and a test binary ends or is killed at its timeout.
FairSpec == Spec /\ WF_vars(MainStep) /\ \A w \in Workers : WF_vars(WorkerStep(w))

-----------------------------------------------------------------------------
(* Properties *)

Places == {"idle", "start", "poll", "take", "pass", "running", "restore", "book", "exited",
           "wait", "retry", "broken", "returned"}
Outcomes == {"killed", "survived", "timed_out", "inconclusive", "errored", "not_run"}
PassOutcomes == {"killed", "survived", "timed_out", "diverged", "errored", "not_run", "tree"}

\* The state is of the declared shape; a worker never holds an index past the
\* slice, and a mutant is attempted at most twice.
TypeOK ==
  /\ n \in 0 .. N /\ next \in Nat
  /\ {binaries, isolate, cancelled, failed} \subseteq BOOLEAN
  /\ never \subseteq Mutants /\ narrowed \subseteq Mutants /\ pending \subseteq 1 .. n
  /\ pc \in [Actors -> Places] /\ at \in [Actors -> 0 .. n]
  /\ whole \in [Actors -> BOOLEAN] /\ out \in [Actors -> PassOutcomes \cup {"none"}]
  /\ dirty \subseteq Workers
  /\ DOMAIN attempts = Mutants
  /\ \A m \in Mutants : Len(attempts[m]) <= 2 /\ \A k \in DOMAIN attempts[m] : attempts[m][k] \in PassOutcomes
  /\ final \in [Mutants -> Outcomes] /\ told \in [Mutants -> Outcomes \cup {"none"}]
  /\ result \in {"running", "ok", "refused", "broken", "interrupted"}

\* No pass starts in a tree that an earlier pass wrote to and nobody put back,
\* the retries in worker 0's copy included.
FreshTree == \A a \in Actors : pc[a] = "pass" => Slot(a) \notin dirty

\* A timeout is measured again with nothing else running.
RetryAlone ==
  pc[Main] \in {"pass", "running", "restore", "book"} => \A w \in Workers : pc[w] = "exited"

\* What Schedule returns is what the hooks said, mutant by mutant: no outcome
\* is returned that was not announced, and none announced is changed later,
\* however the phase ends.
ReturnedIsAnnounced ==
  result # "running" =>
    \A m \in Mutants : final[m] = IF told[m] = "none" THEN "not_run" ELSE told[m]

\* An outcome is worth what it says: measured in a clean tree, a timeout
\* confirmed alone, and returned as announced.
OutcomesAreEarned == FreshTree /\ RetryAlone /\ ReturnedIsAnnounced

V == INSTANCE Verdicts WITH
       selected <- 1 .. n, certain <- never, evidence <- attempts,
       verdict <- told, interrupted <- cancelled, over <- result

\* The phase implements the promise: verdicts are given once and follow from
\* the attempts, a first timeout alone decides nothing, and no error means that
\* every selected mutant has a verdict.
ImplementsVerdicts == V!Spec

\* Schedule returns, whatever times out, fails or is cancelled.
Returns == <>(pc[Main] = "returned")
=============================================================================
