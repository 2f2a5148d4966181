----------------------------- MODULE Verdicts -----------------------------
(***************************************************************************)
(* What a run promises about every mutant it selected: a verdict is given  *)
(* once, from what was observed and from nothing else; a first timeout is  *)
(* not evidence unless the mutant is known not to return; and a run that   *)
(* reports no error has given every verdict.                               *)
(***************************************************************************)
EXTENDS Naturals, Sequences

CONSTANT Mutants

VARIABLES
  selected,     \* the mutants of this run
  certain,      \* the mutants whose first timeout needs no second
  evidence,     \* what each attempt at a mutant observed
  verdict,      \* what the run announced of it, or "none"
  interrupted,  \* the run was told to stop
  over          \* how the run ended, or "running"

vars == <<selected, certain, evidence, verdict, interrupted, over>>

Observations == {"killed", "survived", "timed_out", "diverged", "errored", "tree", "not_run"}

\* A tree that could not be put back ends the run: nothing measured in it counts.
Broken == \E m \in Mutants : \E k \in 1 .. Len(evidence[m]) : evidence[m][k] = "tree"

Unconfirmed(m) == evidence[m] = <<"timed_out">> /\ m \notin certain

\* The verdict that attempts support.
Judgement(first, e) ==
  CASE e \in {"timed_out", "diverged"} -> "timed_out"
    [] e \in {"killed", "survived"} -> IF first THEN e ELSE "inconclusive"
    [] OTHER -> e

Init ==
  /\ selected \subseteq Mutants
  /\ certain \subseteq Mutants
  /\ evidence = [m \in Mutants |-> <<>>]
  /\ verdict = [m \in Mutants |-> "none"]
  /\ interrupted = FALSE
  /\ over = "running"

\* An attempt, at once followed by the verdict it settles, if it settles one.
Observe(m, o) ==
  /\ over = "running" /\ m \in selected /\ verdict[m] = "none"
  /\ evidence[m] = <<>> \/ Unconfirmed(m)
  /\ o = "not_run" => interrupted
  /\ evidence' = [evidence EXCEPT ![m] = Append(@, o)]
  /\ IF o = "tree" \/ (evidence[m] = <<>> /\ o = "timed_out" /\ m \notin certain)
     THEN UNCHANGED verdict
     ELSE verdict' = [verdict EXCEPT ![m] = Judgement(evidence[m] = <<>>, o)]
  /\ UNCHANGED <<selected, certain, interrupted, over>>

\* The retry of a first timeout is given up when the run is told to stop.
GiveUp(m) ==
  /\ over = "running" /\ m \in selected /\ verdict[m] = "none"
  /\ Unconfirmed(m) /\ interrupted
  /\ verdict' = [verdict EXCEPT ![m] = "not_run"]
  /\ UNCHANGED <<selected, certain, evidence, interrupted, over>>

Interrupt ==
  /\ interrupted' = TRUE
  /\ UNCHANGED <<selected, certain, evidence, verdict, over>>

End ==
  /\ over = "running"
  /\ \/ over' = "broken" /\ Broken
     \/ over' = "interrupted" /\ ~Broken /\ interrupted
     \/ over' = "ok" /\ ~Broken /\ \A m \in selected : verdict[m] \notin {"none", "not_run"}
     \/ over' = "refused" /\ selected # {} /\ \A m \in Mutants : evidence[m] = <<>>
  /\ UNCHANGED <<selected, certain, evidence, verdict, interrupted>>

Next ==
  \/ \E m \in Mutants : GiveUp(m) \/ \E o \in Observations : Observe(m, o)
  \/ Interrupt \/ End

Spec == Init /\ [][Next]_vars
=============================================================================
