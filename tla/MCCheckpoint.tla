---------------------------- MODULE MCCheckpoint ----------------------------
(***************************************************************************)
(* Instances of Checkpoint for TLC, three in one run: runs that take turns *)
(* under the lock, two that replay a mutant under it, and two that go on   *)
(* without it and have nothing but mutants to save.                        *)
(***************************************************************************)
EXTENDS Checkpoint, TLC

CONSTANTS t1, t2, k1, k2

VARIABLE part

\* Every target is of one package.
Together == [t \in Targets |-> k1]

Every == {Targets}
AnyOfThem == SUBSET Targets

\* Runs are interchangeable; of the targets one skips itself.
Symmetric == Permutations(Runs)

Started == {p \in Runs : pc[p] # "new"}

\* Two runs without the lock that select no target and measure no suite.
MutantsAlone ==
  /\ lock' = None /\ Cardinality(Started') <= 2
  /\ \A p \in Runs : selected'[p] = {} /\ Of("suite", state'[p].units) = {}

-----------------------------------------------------------------------------
EachInit == Init /\ part \in {"locked", "replayed", "unlocked"} /\ replay = (part = "replayed")

EachNext == /\ Next
            /\ part \in {"locked", "replayed"} => ~unlocked'
            /\ part = "replayed" => Cardinality(Started') <= 2
            /\ part = "unlocked" => MutantsAlone
            /\ UNCHANGED part

EachSpec == EachInit /\ [][EachNext]_<<vars, part>>

\* One instance, for a question about runs that have the lock and a probe session.
LockedSpec ==
  part = "locked" /\ Init /\ ~replay /\ [][Next /\ ~unlocked' /\ UNCHANGED part]_<<vars, part>>
=============================================================================
