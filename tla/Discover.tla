------------------------------ MODULE Discover -------------------------------
(***************************************************************************)
(* Discovery (internal/discover): the walk that proposes edits of a        *)
(* condition, and what it claims of them: a branch proof (branch.go), a    *)
(* probe (guard.go, effects.go) and a termination proof (termination.go).  *)
(*                                                                         *)
(* A condition is an expression                                            *)
(*   <<"name", v>>, <<"const", n>>, <<"bool", b>>, <<"call">>,             *)
(*   <<"isnt", v>> (v != nil, an error), <<"is", v>>, <<"not", e>>,        *)
(*   <<"and", e, f>>, <<"or", e, f>>, <<"cmp", op, e, f>>, <<"bin", ...>>  *)
(* A call has an effect and may return either way.  A node is the path     *)
(* from the root to it; parentheses are left out.                          *)
(***************************************************************************)
EXTENDS Integers, Sequences, FiniteSets, SequencesExt

CONSTANTS
  Conditions,   \* the expressions that are walked
  Places,       \* where they stand: "if", "for", "case", "tagged", "value", "const"
  IntWidth      \* bits of an integer

VARIABLES
  place, cond,  \* the condition, and the statement it belongs to
  bare,         \* the body that it gates is empty
  walked, proposed,  \* has the file been walked, and the candidates
  loopShape     \* a counted loop and the edit of it, with its verdict

discoverVars == <<place, cond, bare, walked, proposed, loopShape>>

-----------------------------------------------------------------------------
(* Expressions *)

Parts(e) == CASE e[1] \in {"and", "or"} -> <<e[2], e[3]>>
              [] e[1] \in {"cmp", "bin"} -> <<e[3], e[4]>>
              [] e[1] = "not" -> <<e[2]>>
              [] OTHER -> <<>>

RECURSIVE Nodes(_)
Nodes(e) == {<<>>} \cup UNION {{<<i>> \o p : p \in Nodes(Parts(e)[i])} : i \in 1..Len(Parts(e))}

RECURSIVE At(_, _)
At(e, p) == IF p = <<>> THEN e ELSE At(Parts(e)[p[1]], Tail(p))

RECURSIVE Put(_, _, _)
Put(e, p, by) ==
  IF p = <<>> THEN by
  ELSE LET part == Put(Parts(e)[p[1]], Tail(p), by)
           k == IF e[1] \in {"cmp", "bin"} THEN p[1] + 2 ELSE p[1] + 1
       IN [e EXCEPT ![k] = part]

Ancestors(p) == {SubSeq(p, 1, k) : k \in 0..(Len(p) - 1)}

\* What evaluating an expression does: its value, whether it panics, its calls.
RECURSIVE Eval(_, _)
Eval(e, env) ==
  LET one(v) == [v |-> v, panic |-> FALSE, calls |-> 0]
      l == Eval(Parts(e)[1], env)
      r == Eval(Parts(e)[2], env)
      both(v) == [v |-> v, panic |-> l.panic \/ r.panic, calls |-> l.calls + r.calls]
  IN CASE e[1] = "name" -> one(env[e[2]])
       [] e[1] \in {"const", "bool"} -> one(e[2])
       [] e[1] = "call" -> [v |-> env.f, panic |-> FALSE, calls |-> 1]
       [] e[1] = "isnt" -> one(~env[e[2]])
       [] e[1] = "is" -> one(env[e[2]])
       [] e[1] = "not" -> [l EXCEPT !.v = ~@]
       [] e[1] = "and" -> IF l.panic \/ ~l.v THEN l ELSE both(r.v)
       [] e[1] = "or" -> IF l.panic \/ l.v THEN l ELSE both(r.v)
       [] e[1] = "cmp" /\ ~(l.panic \/ r.panic) ->
            both(CASE e[2] = "<" -> l.v < r.v [] e[2] = "<=" -> l.v <= r.v
                   [] e[2] = ">" -> l.v > r.v [] e[2] = ">=" -> l.v >= r.v
                   [] e[2] = "==" -> l.v = r.v [] e[2] = "!=" -> l.v /= r.v)
       [] e[1] = "cmp" -> both(FALSE)
       [] e[1] = "bin" /\ e[2] = "/" /\ r.v = 0 -> [both(0) EXCEPT !.panic = TRUE]
       [] OTHER -> both(CASE e[2] = "+" -> l.v + r.v [] e[2] = "-" -> l.v - r.v
                          [] e[2] = "*" -> l.v * r.v [] e[2] = "/" -> l.v \div r.v)

\* A constant expression.
RECURSIVE Literal(_)
Literal(e) ==
  \/ e[1] \in {"const", "bool"}
  \/ Parts(e) /= <<>> /\ \A i \in 1..Len(Parts(e)) : Literal(Parts(e)[i])

Envs == [{"a", "b", "e", "f"} -> BOOLEAN]
Numbers == [{"x", "y"} -> {0, 1}]
EnvOf(bools, ints) == [v \in {"a", "b", "e", "f", "x", "y"} |-> IF v \in {"x", "y"} THEN ints[v] ELSE bools[v]]
AllEnvs == {EnvOf(s, t) : s \in Envs, t \in Numbers}
AnEnv == EnvOf([v \in {"a", "b", "e", "f"} |-> FALSE], [v \in {"x", "y"} |-> 0])

-----------------------------------------------------------------------------
(* rules.go, walk.go: the edits of one node *)

ComparisonSwaps ==
  [eq |-> <<"==", "!=", "eq-to-neq">>, ne |-> <<"!=", "==", "neq-to-eq">>, lt |-> <<"<", "<=", "lt-to-le">>,
   le |-> <<"<=", "<", "le-to-lt">>, gt |-> <<">", ">=", "gt-to-ge">>, ge |-> <<">=", ">", "ge-to-gt">>]
IntegerSwaps ==
  [add |-> <<"+", "-", "add-to-sub">>, sub |-> <<"-", "+", "sub-to-add">>,
   mul |-> <<"*", "/", "mul-to-div">>, div |-> <<"/", "*", "div-to-mul">>]

Swapped(table, e) ==
  {<<table[k][3], [e EXCEPT ![2] = table[k][2]]>> : k \in {x \in DOMAIN table : table[x][1] = e[2]}}

\* What the walk proposes at a node, whatever the statement: <<rule, becomes>>.
NodeEdits(e) ==
  CASE e[1] = "cmp" -> Swapped(ComparisonSwaps, e)
    [] e[1] = "bin" -> Swapped(IntegerSwaps, e)
    [] e[1] = "and" -> {<<"and-to-or", [e EXCEPT ![1] = "or"]>>}
    [] e[1] = "or" -> {<<"or-to-and", [e EXCEPT ![1] = "and"]>>}
    [] e[1] = "not" -> {<<"remove-negation", e[2]>>}
    [] e[1] = "bool" -> {<<IF e[2] THEN "true-to-false" ELSE "false-to-true", <<"bool", ~e[2]>>>>}
    [] e[1] = "isnt" -> {<<"neq-to-eq", <<"is", e[2]>>>>, <<"nil-error-branch", <<"bool", FALSE>>>>}
    [] OTHER -> {}

NegateCondition(e) ==
  CASE place = "if" -> {<<"negate-condition", <<"not", e>>>>}
    [] place = "for" -> {<<"negate-loop-condition", <<"not", e>>>>}
    [] OTHER -> {}

\* A condition that is the constant already is not settled.
SettleCondition(e) ==
  LET settle(rule, b) == IF Literal(e) /\ Eval(e, AnEnv).v = b THEN {} ELSE {<<rule, <<"bool", b>>>>}
  IN CASE place = "if" -> settle("condition-to-true", TRUE) \cup settle("condition-to-false", FALSE)
       [] place = "for" -> settle("loop-condition-to-false", FALSE)
       [] OTHER -> {}

EditsOf(e, p) == NodeEdits(At(e, p)) \cup (IF p = <<>> THEN NegateCondition(e) \cup SettleCondition(e) ELSE {})

-----------------------------------------------------------------------------
(* branch.go *)

DecreasingRules == {"le-to-lt", "ge-to-gt", "or-to-and", "nil-error-branch",
                    "condition-to-false", "loop-condition-to-false"}

RECURSIVE Inert(_)
Inert(e) ==
  /\ e[1] /= "call"
  /\ e[1] = "bin" /\ e[2] = "/" => Literal(e[4])
  /\ \A i \in 1..Len(Parts(e)) : Inert(Parts(e)[i])

\* MUTANT: a negation is crossed like a bracket.
GatedBodyThroughNot(p) ==
  /\ place \in {"if", "for", "case", "tagged"} /\ ~bare
  /\ \A q \in Ancestors(p) : At(cond, q)[1] \in {"and", "or", "not"}

\* gatedBody: outward through && and || to the statement whose body it gates.
GatedBody(p) ==
  /\ place \in {"if", "for", "case", "tagged"} /\ ~bare
  /\ \A q \in Ancestors(p) : At(cond, q)[1] \in {"and", "or"}

BranchProof(rule, p) == rule \in DecreasingRules /\ GatedBody(p) /\ Inert(cond)

-----------------------------------------------------------------------------
(* guard.go and effects.go: the probe of an edit *)

RECURSIVE EffectFree(_)
EffectFree(e) == e[1] /= "call" /\ \A i \in 1..Len(Parts(e)) : EffectFree(Parts(e)[i])

\* An error is an interface, and comparing one may panic.
RECURSIVE PanicFree(_)
PanicFree(e) ==
  /\ e[1] \notin {"call", "isnt", "is"}
  /\ e[1] = "bin" /\ e[2] = "/" => Literal(e[4]) /\ Eval(e[4], AnEnv).v /= 0
  /\ \A i \in 1..Len(Parts(e)) : PanicFree(Parts(e)[i])

\* formCSite: the nearest expression around the edit that is a bool.
FormCSite(p) ==
  LET bool == {q \in Ancestors(p) \cup {p} : At(cond, q)[1] \notin {"bin", "const", "name"}
                                             \/ At(cond, q) \in {<<"name", "a">>, <<"name", "b">>}}
  IN CHOOSE q \in bool : \A r \in bool : Len(r) <= Len(q)

IntroducesPanic(e, becomes) ==
  becomes[1] = "bin" /\ becomes[2] = "/" /\ ~(Literal(e[4]) /\ Eval(e[4], AnEnv).v /= 0)

\* The statement evaluates nothing with an effect.
InertContext == place /= "value" /\ EffectFree(cond)

\* boolProbe and, where it gives none, valueProbe: the span evaluated twice.
ProbeSites(p) ==
  IF ~InertContext THEN {}
  ELSE IF PanicFree(At(cond, FormCSite(p))) THEN {FormCSite(p)}
  ELSE {q \in {p} : PanicFree(At(cond, q))}

Probe(p, becomes) == IF IntroducesPanic(At(cond, p), becomes) THEN {} ELSE ProbeSites(p)

\* The walk of the file; a constant's declaration is left alone.
Walk ==
  /\ ~walked /\ walked' = TRUE
  /\ proposed' = IF place = "const" THEN {}
                 ELSE UNION {{[path |-> p, rule |-> x[1], becomes |-> x[2],
                               branch |-> BranchProof(x[1], p), probes |-> Probe(p, x[2])] :
                              x \in EditsOf(cond, p)} : p \in Nodes(cond)}
  /\ UNCHANGED <<place, cond, bare, loopShape>>

-----------------------------------------------------------------------------
(* termination.go *)

Comparisons == {"<", "<=", ">", ">="}

Negated(op) == CASE op = "<" -> ">=" [] op = "<=" -> ">" [] op = ">" -> "<=" [] op = ">=" -> "<"
Moved(op) == CASE op = "<" -> "<=" [] op = "<=" -> "<" [] op = ">" -> ">=" [] op = ">=" -> ">"

LoopSteps == {-2, -1, 1, 2}

\* Which way the variable has to move for the condition to become false.
Progresses(op, step) == IF op \in {"<", "<="} THEN step > 0 ELSE step < 0

LoopEdits == {"negate", "move", "settle", "reverse", "delete", "elsewhere"}

\* What the edited loop is.
EditedLoop(l, edit) ==
  CASE edit = "negate" -> [l EXCEPT !.op = Negated(@)]
    [] edit = "move" -> [l EXCEPT !.op = Moved(@)]
    [] edit = "settle" -> [l EXCEPT !.op = "never"]
    [] edit = "reverse" -> [l EXCEPT !.step = -@]
    [] edit = "delete" -> [l EXCEPT !.step = 0]
    [] OTHER -> l

\* applyToLoop: an edit outside the condition and the post statement leaves the
\* loop what it was.
AppliedToLoop(l, edit) ==
  CASE edit \in {"negate", "move"} -> EditedLoop(l, edit)
    [] edit = "settle" -> l
    [] edit \in {"reverse", "delete"} /\ l.slot = "post" -> EditedLoop(l, edit)
    [] OTHER -> l

\* assignsWithin, boundMoves
BodyMoves(l) == l.also \in {"variable", "bound"}

\* readInductionLoop, readBodyStep: nothing else in the body moves the variable
\* or its bound, and no continue skips a step that stands in the body.
ReadInductionLoop(l) == ~BodyMoves(l) /\ (l.slot = "body" => l.also /= "continue")

\* terminationProof
TerminationProof(l, edit) ==
  IF ~ReadInductionLoop(l) \/ ~Progresses(l.op, l.step) THEN "none"
  ELSE LET m == AppliedToLoop(l, edit)
       IN IF Progresses(m.op, m.step) THEN "bounded" ELSE "unbounded"

ReadLoop ==
  /\ loopShape.verdict = "unread"
  /\ loopShape' = [loopShape EXCEPT !.verdict = TerminationProof(loopShape.loop, loopShape.edit)]
  /\ UNCHANGED <<place, cond, bare, walked, proposed>>

DiscoverNext == Walk \/ ReadLoop

NoLoop == [loop |-> [op |-> "<", step |-> 1, slot |-> "post", also |-> "nothing", signed |-> TRUE], edit |-> "move", verdict |-> "unread"]

DiscoverStart ==
  \/ /\ place \in Places /\ cond \in Conditions /\ bare \in BOOLEAN /\ walked = FALSE /\ proposed = {}
     /\ loopShape = [NoLoop EXCEPT !.verdict = "none"]
  \/ /\ place = "value" /\ cond = <<"call">> /\ bare = FALSE /\ walked = TRUE /\ proposed = {}
     /\ \E op \in Comparisons, step \in LoopSteps, slot \in {"post", "body"}, signed \in BOOLEAN,
           also \in {"nothing", "continue", "variable", "bound"}, edit \in LoopEdits :
          loopShape = [loop |-> [op |-> op, step |-> step, slot |-> slot, also |-> also, signed |-> signed],
                       edit |-> edit, verdict |-> "unread"]

-----------------------------------------------------------------------------
(* What the program does *)

Mutated(c) == Put(cond, c.path, c.becomes)

\* What the condition is compared with for its body to be entered: true, and in
\* a switch with a tag whatever the tag is.
Tags == IF place = "tagged" THEN BOOLEAN ELSE {TRUE}

Enters(e, env, tag) == ~Eval(e, env).panic /\ Eval(e, env).v = tag

\* Every condition that carries a branch proof enters its body wherever its
\* mutant does, and neither evaluation can be told from the other by an effect or
\* a panic; and a probe evaluates the edited site beside the original without a
\* panic and without an effect of its own.  gatedBody asks nothing of a switch's
\* tag, and where the tag is false the proof is wrong: the label that holds less
\* often is entered more often.  Those entries are excepted.
ProofsHold ==
  \A c \in proposed : \A env \in AllEnvs :
    LET o == Eval(cond, env)
        m == Eval(Mutated(c), env)
    IN /\ c.branch => /\ \A tag \in Tags \ {FALSE} : Enters(Mutated(c), env, tag) => Enters(cond, env, tag)
                      /\ ~o.panic /\ ~m.panic /\ o.calls = 0 /\ m.calls = 0
       /\ \A q \in c.probes : LET x == Eval(At(Mutated(c), q), env) IN ~x.panic /\ x.calls = 0

-----------------------------------------------------------------------------

Size == 2 ^ IntWidth
Lowest(l) == IF l.signed THEN -(Size \div 2) ELSE 0
Highest(l) == Lowest(l) + Size - 1
Wrapped(l, n) == ((n - Lowest(l)) % Size) + Lowest(l)

Holds(l, i, n) == CASE l.op = "<" -> i < n [] l.op = "<=" -> i <= n [] l.op = ">" -> i > n
                    [] l.op = ">=" -> i >= n [] OTHER -> FALSE

\* Does the loop end, from i, within so many iterations and without the variable
\* leaving its type's range on the way?
RECURSIVE EndsDirectly(_, _, _, _)
EndsDirectly(l, i, n, fuel) ==
  ~Holds(l, i, n) \/ (/\ fuel > 0 /\ Wrapped(l, i + l.step) = i + l.step
                      /\ EndsDirectly(l, i + l.step, n, fuel - 1))

InType(l) == Lowest(l)..Highest(l)

\* What else the body does may keep the variable as far from its bound as it was.
Hindered(l) ==
  IF l.also \in {"variable", "bound"} \/ (l.also = "continue" /\ l.slot = "body") THEN [l EXCEPT !.step = 0] ELSE l

\* A step in the body that the edit reverses or deletes: applyToLoop looks for an
\* edit of the step in the post statement only, so its default branch calls the
\* loop bounded ("the edit is outside the loop's condition and step"), and it is
\* not: docs/operators.md calls a reversed or deleted step unbounded.
StepInBodyEdited(l, edit) == l.slot = "body" /\ edit \in {"reverse", "delete"}

\* A loop proved bounded ends where its bound keeps clear of the ends of the
\* variable's type, save those whose edited step is in the body, and one proved
\* unbounded runs, from some start, until its variable leaves the type.
VerdictsHold ==
  LET l == loopShape.loop
      m == Hindered(EditedLoop(l, loopShape.edit))
      reach == IF l.step > 0 THEN l.step ELSE -l.step
  IN /\ loopShape.verdict = "bounded" /\ ~StepInBodyEdited(l, loopShape.edit) =>
          \A i \in InType(l), n \in (Lowest(l) + reach)..(Highest(l) - reach) : EndsDirectly(m, i, n, Size)
     /\ loopShape.verdict = "unbounded" => \E i, n \in InType(l) : ~EndsDirectly(m, i, n, Size)

=============================================================================
