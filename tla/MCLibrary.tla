----------------------------- MODULE MCLibrary ------------------------------
(***************************************************************************)
(* Concurrent parts that share no state, checked in one run: the listings  *)
(* memo, the process runner, the recorder and the resource manager.  A     *)
(* behaviour chooses its part and leaves the others where they start.      *)
(***************************************************************************)
EXTENDS ModuleMemo, Runner, Recorder, Resource

VARIABLE part

Parts == {"memo", "runner", "recorder", "resource"}

\* A part that is not chosen has one start only, and darwin, which differs
\* from linux in how memory is accounted, has the bounded starts; a leader
\* that ignores a signal has a child that does.
Unchosen ==
  /\ box.platform = "darwin" => box.limit > 0 /\ box.timeout
  /\ box.deaf /= {"leader"}
  /\ part /= "runner" =>
       ~ended /\ box = [platform |-> "linux", limit |-> 0, timeout |-> FALSE, deaf |-> {}, pipe |-> FALSE]
  /\ part /= "recorder" => sink = [kind |-> "ring", capacity |-> 0]
  /\ part /= "resource" => kind = "shared"

LibraryInit ==
  /\ part \in Parts
  /\ MemoInit /\ RunnerInit /\ RecorderInit /\ ResourceInit
  /\ Unchosen

LibraryNext ==
  \/ part = "memo" /\ MemoNext /\ UNCHANGED <<part, runnerVars, recorderVars, resourceVars>>
  \/ part = "runner" /\ RunnerNext /\ UNCHANGED <<part, memoVars, recorderVars, resourceVars>>
  \/ part = "recorder" /\ RecorderNext /\ UNCHANGED <<part, memoVars, runnerVars, resourceVars>>
  \/ part = "resource" /\ ResourceNext /\ UNCHANGED <<part, memoVars, runnerVars, recorderVars>>

libraryVars == <<part, memoVars, runnerVars, recorderVars, resourceVars>>

\* The fairness of each part; a part that is not chosen has made no step, and
\* then nothing it has to do is waiting.
LibrarySpec ==
  /\ LibraryInit /\ [][LibraryNext]_libraryVars
  /\ MemoFairness /\ RunnerFairness

-----------------------------------------------------------------------------
\* A call of Module, and a call of Run, comes back.
CallsComeBack == AsksReturn /\ RunReturns
=============================================================================
