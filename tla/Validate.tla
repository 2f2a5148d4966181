------------------------------ MODULE Validate -------------------------------
(***************************************************************************)
(* Compile validation (internal/validate validate.go, bisect.go): one      *)
(* build with every mutant spliced in, and when that fails a search that   *)
(* isolates the files the compiler names, one after the other, each over   *)
(* the accepted mutants of the files isolated before it.                   *)
(*                                                                         *)
(* What the compiler minds is a set of conflicts: a tree fails to build    *)
(* when it holds every mutant of one of them.  Which files a failed build  *)
(* names is free, because a compiler reports where it noticed.             *)
(***************************************************************************)
EXTENDS Integers, Sequences, FiniteSets, SequencesExt

CONSTANTS
  Catalogued,      \* each catalogued file's mutants, in order; files are numbers
  LinearThreshold  \* at most so many candidates are tried one by one

VARIABLES
  conflicts,  \* what does not compile together
  sick,       \* the tree does not build without any mutant either
  vAt,        \* the phase
  spliced,    \* the mutants that each file of the snapshot holds now
  pending,    \* files that have not been isolated
  blamed,     \* files of this round that are still to be isolated
  condemned,  \* what was rejected so far
  rounds      \* rounds that are left

validateVars == <<conflicts, sick, vAt, spliced, pending, blamed, condemned, rounds>>

Paths == DOMAIN Catalogued
ByPath(f) == ToSet(Catalogued[f])
Everything == UNION {ByPath(f) : f \in Paths}
InTree(tree) == UNION {tree[f] : f \in Paths}
Broken(mutants) == \E c \in conflicts : c \subseteq mutants

ValidateStart(c, s) ==
  /\ conflicts = c /\ sick = s
  /\ vAt = "build" /\ spliced = [f \in Paths |-> ByPath(f)]
  /\ pending = Paths /\ blamed = {} /\ condemned = {}
  /\ rounds = Cardinality(Paths) + 1

-----------------------------------------------------------------------------
(* bisect.go *)

\* incremental: one candidate after the other, on top of those accepted.
Incremental(cands, others) ==
  FoldLeft(LAMBDA got, c : IF Broken(got \cup {c} \cup others) THEN got ELSE got \cup {c}, {}, cands)

RECURSIVE IsolateUnjoined(_, _)
RECURSIVE Isolate(_, _)

\* MUTANT: two halves that compile are taken to compile together.
IsolateUnjoined(cands, others) ==
  CASE cands = <<>> -> {}
    [] cands /= <<>> /\ ~Broken(ToSet(cands) \cup others) -> ToSet(cands)
    [] cands /= <<>> /\ Broken(ToSet(cands) \cup others) /\ Len(cands) <= LinearThreshold ->
         Incremental(cands, others)
    [] OTHER -> LET mid == Len(cands) \div 2
                IN IsolateUnjoined(SubSeq(cands, 1, mid), others)
                     \cup IsolateUnjoined(SubSeq(cands, mid + 1, Len(cands)), others)

\* isolate: the candidates of one file that compile together and with the
\* others; halves are joined, and tried one by one where the join fails.
Isolate(cands, others) ==
  CASE cands = <<>> -> {}
    [] cands /= <<>> /\ ~Broken(ToSet(cands) \cup others) -> ToSet(cands)
    [] cands /= <<>> /\ Broken(ToSet(cands) \cup others) /\ Len(cands) <= LinearThreshold ->
         Incremental(cands, others)
    [] OTHER -> LET mid   == Len(cands) \div 2
                    left  == Isolate(SubSeq(cands, 1, mid), others)
                    right == Isolate(SubSeq(cands, mid + 1, Len(cands)), others)
                IN IF left = {} \/ right = {} \/ ~Broken(left \cup right \cup others)
                   THEN left \cup right
                   ELSE Incremental(SelectSeq(cands, LAMBDA c : c \in left \cup right), others)

-----------------------------------------------------------------------------
(* validate.go *)

\* blame: the pending files that the build named, or all of them.
Blame(named, left) == IF named \cap left = {} THEN left ELSE named \cap left

Restored(files) == [f \in Paths |-> IF f \in files THEN {} ELSE spliced[f]]
Reinstated(files) == [f \in Paths |-> IF f \in files THEN ByPath(f) ELSE spliced[f]]

\* The build with every mutant; when it fails every file is restored.
FirstBuild ==
  /\ vAt = "build"
  /\ IF ~sick /\ ~Broken(InTree(spliced))
     THEN vAt' = "done" /\ UNCHANGED <<spliced, blamed>>
     ELSE /\ vAt' = "gate" /\ spliced' = Restored(Paths)
          /\ \E named \in SUBSET Paths : blamed' = Blame(named, pending)
  /\ UNCHANGED <<conflicts, sick, pending, condemned, rounds>>

\* A tree that does not build without mutants rejects none.
GateBuild ==
  /\ vAt = "gate"
  /\ vAt' = IF sick THEN "not_induced" ELSE "isolate"
  /\ UNCHANGED <<conflicts, sick, spliced, pending, blamed, condemned, rounds>>

\* One blamed file, in the order of their paths.
IsolateFile ==
  /\ vAt = "isolate" /\ blamed /= {}
  /\ LET f == CHOOSE f \in blamed : \A g \in blamed : f <= g
         others == InTree([spliced EXCEPT ![f] = {}])
         accepted == Isolate(Catalogued[f], others)
     IN /\ spliced' = [spliced EXCEPT ![f] = accepted]
        /\ condemned' = condemned \cup (ByPath(f) \ accepted)
        /\ pending' = pending \ {f} /\ blamed' = blamed \ {f}
  /\ UNCHANGED <<conflicts, sick, vAt, rounds>>

\* The round's build, with the pending files as they were catalogued.
RoundBuild ==
  /\ vAt = "isolate" /\ blamed = {}
  /\ LET tree == Reinstated(pending)
     IN IF ~Broken(InTree(tree))
        THEN vAt' = "done" /\ spliced' = tree /\ UNCHANGED <<blamed, rounds>>
        ELSE IF pending = {} \/ rounds = 1
        THEN vAt' = "still_failing" /\ spliced' = Restored(pending) /\ UNCHANGED <<blamed, rounds>>
        ELSE /\ spliced' = Restored(pending) /\ rounds' = rounds - 1 /\ UNCHANGED vAt
             /\ \E named \in SUBSET Paths : blamed' = Blame(named, pending)
  /\ UNCHANGED <<conflicts, sick, pending, condemned>>

\* A build that cannot be run, outlives its limit or is interrupted: what was
\* rejected of the files before it is returned with the error.
BuildUnanswered ==
  /\ vAt \in {"build", "gate", "isolate"}
  /\ vAt' = "error"
  /\ UNCHANGED <<conflicts, sick, spliced, pending, blamed, condemned, rounds>>

ValidateNext == FirstBuild \/ GateBuild \/ IsolateFile \/ RoundBuild \/ BuildUnanswered

-----------------------------------------------------------------------------

\* The search ends with a tree that holds exactly the mutants it accepts and
\* builds, it never comes to doubt its own accepted set, and whenever it ends
\* it has rejected only mutants the compiler has something against: one bad
\* candidate costs one candidate, whichever files a failed build names.
AcceptedIsWhatBuilds ==
  /\ vAt = "done" => InTree(spliced) = Everything \ condemned /\ ~Broken(InTree(spliced)) /\ ~sick
  /\ vAt /= "still_failing"
  /\ condemned \subseteq UNION conflicts
  /\ sick => condemned = {}
=============================================================================
