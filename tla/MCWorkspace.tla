---------------------------- MODULE MCWorkspace ----------------------------
(***************************************************************************)
(* Small instances of Workspace for TLC, two in one run: in the one two    *)
(* callers write any file of the tree, in the other three write sources,   *)
(* and what is removed or kept may fail.                                   *)
(***************************************************************************)
EXTENDS Workspace, TLC

VARIABLES
  part,    \* which of the two instances a behaviour is of
  quiet    \* the caller that never calls, or Nobody

\* Callers run the same code, so they are interchangeable in safety runs.
CallerSymmetry == Permutations(Callers)

DataInit == part = "data" /\ quiet \in Callers /\ ~keep
LocksInit == part = "locks" /\ quiet = Nobody

\* Nothing that is removed resists.
DataNext ==
  /\ part = "data"
  /\ \E p \in Callers \ {quiet} : Begin(p) \/ Progress(p) \/ ChildWrite(p)
  /\ ~failing' /\ reported' = {}

\* Assets and what is not in the manifest are left alone.
LocksNext ==
  /\ part = "locks"
  /\ Next
  /\ \A f \in Paths \ Sources : files'[f] = files[f]

BothInit == Init /\ (DataInit \/ LocksInit)
BothNext == (DataNext \/ LocksNext) /\ UNCHANGED <<part, quiet>>
BothSpec == BothInit /\ [][BothNext]_<<vars, part, quiet>>
=============================================================================
