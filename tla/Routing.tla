------------------------------ MODULE Routing ------------------------------
(***************************************************************************)
(* One mutant in successive runs of goatest: which targets it is routed to *)
(* (block and file coverage, the proofs that discharge a target, the       *)
(* probes, the package suite), what executing them concludes, and the      *)
(* record a run leaves in the evidence store for the next one to reuse     *)
(* (goatest/internal/assure/mutation.go and mutation_evidence.go).         *)
(*                                                                         *)
(* Between two runs the tree is edited.  A behaviour key is what the files *)
(* behind it held: Narrow[s] for a subject that stayed inside its closure, *)
(* the whole tree for one that was observed to read outside it.            *)
(***************************************************************************)
EXTENDS Naturals, FiniteSets

CONSTANTS
    RoutingTargets,   \* the targets the run measured
    OwnTargets,       \* those of the mutant's own package
    Narrow,           \* the files in the closure of each target and of the suite
    TreeFiles,        \* every file of the tree
    RoutingOptions,   \* what was measured, and how targets share an environment
    RoutingRuns,      \* bound: the number of runs
    Worlds,           \* bound: what the tests may do on a tree
    Edits             \* bound: the sets of files changed between two runs

Suite == "suite"
Subjects == RoutingTargets \cup {Suite}

\* Every target has an execution environment, and the tree has every closure.
ASSUME RoutingAssumption ==
    /\ OwnTargets \subseteq RoutingTargets /\ Suite \notin RoutingTargets
    /\ Narrow \in [Subjects -> SUBSET TreeFiles]
    /\ Edits \subseteq SUBSET TreeFiles
    /\ Worlds \subseteq [Subjects -> [level : 0..5, base : BOOLEAN, mut : BOOLEAN, missed : BOOLEAN]]
    /\ \A options \in RoutingOptions : RoutingTargets \subseteq UNION options.environments

(***************************************************************************)
(* How far a subject gets with the mutant, each level including the ones   *)
(* below it: it does not execute the file; only the file; the mutated      *)
(* place; the body of the branch the mutation narrows; with a value that   *)
(* differs from the original's; and so that a test fails.                  *)
(***************************************************************************)
InFile    == 1
AtPlace   == 2
InBranch  == 3
Infected  == 4
Failing   == 5

VARIABLES
    tree,        \* file -> its content
    world,       \* subject -> [level, base, mut, missed]: what it does on this tree
    routing,     \* the options of this project
    record,      \* the record of the mutant in the evidence store
    ruling,      \* [verdict, how]: what the last run reported
    runs         \* how many runs have ended

routingVars == <<tree, world, routing, record, ruling, runs>>

NoRuling == [verdict |-> "none", how |-> "none"]
NoRecord == [outcome |-> "none"]

-----------------------------------------------------------------------------
(* Behaviour keys *)

\* What the baseline saw the target read outside its closure.
WholeTree(t) == world[t].base

\* The key of a subject: the content of its closure, or of the whole tree.
TargetKey(s, whole) ==
    [target |-> s, whole |-> whole,
     key |-> [f \in (IF whole THEN TreeFiles ELSE Narrow[s]) |-> tree[f]]]

\* A suite is measured whole when each target of the package has exact blocks
\* and passed; its key joins its own closure with the keys of its targets.
SuiteMeasured == OwnTargets \cap routing.inexact = {}
SuiteKey(whole) ==
    [whole |-> whole,
     key |-> <<TargetKey(Suite, whole).key, {TargetKey(t, whole) : t \in OwnTargets}>>]

TargetMatches(k) ==
    /\ k.whole \/ ~WholeTree(k.target)
    /\ k = TargetKey(k.target, k.whole)

SuiteMatches(k) ==
    /\ SuiteMeasured
    /\ k.whole \/ \A t \in OwnTargets : ~WholeTree(t)
    /\ k = SuiteKey(k.whole)

-----------------------------------------------------------------------------
(* The route *)

Probed(t) == t \in routing.probed
ShowsInfection(t) == world[t].level >= Infected
SeenAt(t, level) == world[t].level >= level /\ ~world[t].missed

ExecutingTargets == {t \in RoutingTargets : SeenAt(t, InFile)}

\* Without a position inside an instrumented block, the whole file decides.
ReachingByCoverage ==
    IF ~routing.block THEN ExecutingTargets
    ELSE {t \in ExecutingTargets : t \in routing.inexact \/ SeenAt(t, AtPlace)}

DischargeNarrowedBranch(reaching) ==
    IF ~routing.branch THEN {}
    ELSE {t \in reaching : t \notin routing.inexact /\ ~SeenAt(t, InBranch)}

DischargeNeverInfected(reaching) == {t \in reaching : Probed(t) /\ ~ShowsInfection(t)}

RouteMutant ==
    LET branch == DischargeNarrowedBranch(ReachingByCoverage)
        discharged == IF ~routing.block THEN {}
                      ELSE branch \cup DischargeNeverInfected(ReachingByCoverage \ branch)
    IN  [reaching |-> ReachingByCoverage \ discharged, discharged |-> discharged,
         suiteCoverage |-> FALSE, suiteReached |-> FALSE,
         suiteProbe |-> FALSE, suiteInfected |-> FALSE, suiteWhole |-> FALSE]

Unrouted(r) == r.reaching = {} /\ r.discharged = {}

ApplySuiteCoverage(r) ==
    IF Unrouted(r) /\ routing.suiteCoverage /\ routing.block
    THEN [r EXCEPT !.suiteCoverage = TRUE, !.suiteReached = SeenAt(Suite, AtPlace),
                   !.suiteWhole = WholeTree(Suite)]
    ELSE r

\* A suite probe answers for a mutant no target is routed to, and where it
\* shows an infection it overrules coverage that saw nothing; the targets whose
\* probe was infected join the route, unless the suite is to run anyway.
ApplyProbes(r0) ==
    LET r == IF Unrouted(r0) /\ routing.suiteProbe
             THEN [r0 EXCEPT !.suiteProbe = TRUE, !.suiteInfected = ShowsInfection(Suite),
                             !.suiteWhole = WholeTree(Suite),
                             !.suiteCoverage = @ /\ (r0.suiteReached \/ ~ShowsInfection(Suite))]
             ELSE r0
        unseen == r.suiteCoverage /\ ~r.suiteReached
        settled == /\ Unrouted(r) /\ ~unseen
                   /\ \/ ~r.suiteProbe /\ r.suiteCoverage
                      \/ r.suiteInfected
        joining == {t \in RoutingTargets \ r.discharged : Probed(t) /\ ShowsInfection(t)}
    IN  IF settled THEN r ELSE [r EXCEPT !.reaching = @ \cup joining]

Route == ApplyProbes(ApplySuiteCoverage(RouteMutant))

\* Targets of one environment are executed by one command.
TargetGroups(targets) ==
    {g \in {targets \cap e : e \in routing.environments} : g /= {}}

-----------------------------------------------------------------------------
(* Reuse of the record of an earlier run *)

ReuseKill(r) ==
    /\ record.outcome = "killed"
    /\ \E g \in TargetGroups(r.reaching) :
          \A k \in record.keys : k.target \in g /\ TargetMatches(k)

\* A survival is reused when one recorded target still reaches the mutant.
ExhaustsSome(r) ==
    /\ record.outcome = "survived"
    /\ \E t \in r.reaching : \E k \in record.keys : k.target = t /\ TargetMatches(k)

Exhausts(r) ==
    /\ record.outcome = "survived"
    /\ r.reaching /= {}
    /\ \A t \in r.reaching :
          /\ t \notin routing.inexact
          /\ \E k \in record.keys : k.target = t /\ TargetMatches(k)

SuiteAnswers(r) ==
    /\ record.outcome = "unreached"
    /\ r.reaching = {}
    /\ SuiteMatches(record.suite)

ReuseVerdict(r) == Exhausts(r) \/ SuiteAnswers(r)

-----------------------------------------------------------------------------
(* Execution, and the record it leaves *)

\* What one execution may answer: the original control is unavailable, fails or
\* exceeds its budget, or the mutant exceeds its own and the ceiling after it
\* (unknown); the tool breaks (error); or the tests answer.
MayAnswer(subjects) ==
    {"unknown", "error",
     IF \E s \in subjects : world[s].level = Failing THEN "killed" ELSE "survived"}

\* One reader in a command widens the key of every target of that command.
Observed(group, t) == WholeTree(t) \/ \E s \in group : world[s].mut

RecordSuite(kind, whole) ==
    LET wide == whole \/ \E t \in OwnTargets : WholeTree(t)
    IN  IF SuiteMeasured
        THEN [outcome |-> "unreached", suite |-> SuiteKey(wide), kind |-> kind]
        ELSE record

RecordExhausted(groups) ==
    IF UNION groups \cap routing.inexact = {}
    THEN [outcome |-> "survived",
          keys |-> UNION {{TargetKey(t, Observed(g, t)) : t \in g} : g \in groups}]
    ELSE record

RecordKill(group) ==
    [outcome |-> "killed", keys |-> {TargetKey(t, Observed(group, t)) : t \in group}]

Concludes(verdict, how, rec) ==
    /\ ruling' = [verdict |-> verdict, how |-> how]
    /\ record' = rec

\* No target is routed to the mutant: the package suite is executed with it.
ExecuteSuite ==
    \E answer \in MayAnswer({Suite}) :
       CASE answer = "killed"   -> Concludes("killed", "suite", record)
         [] answer = "survived" ->
               Concludes("survived", "suite", RecordSuite("executed", world[Suite].mut))
         [] answer = "unknown"  -> Concludes("inconclusive", "suite", record)
         [] answer = "error"    -> Concludes("error", "suite", record)

\* The groups are executed in turn until one kills or breaks; the ones before
\* it survived or answered nothing.
ExecuteGroups(groups) ==
    \/ \E g \in groups : "killed" \in MayAnswer(g) /\ Concludes("killed", "executed", RecordKill(g))
    \/ \E g \in groups : "error" \in MayAnswer(g) /\ Concludes("error", "executed", record)
    \/ \E g \in groups : "unknown" \in MayAnswer(g) /\ Concludes("inconclusive", "executed", record)
    \/ /\ \A g \in groups : "survived" \in MayAnswer(g)
       /\ Concludes("survived", "executed", RecordExhausted(groups))

EvaluateMutationSeed ==
    LET r == Route
        suiteSettles == Unrouted(r) /\ \/ r.suiteCoverage /\ ~r.suiteReached
                                       \/ r.suiteProbe /\ ~r.suiteInfected
    IN  CASE ReuseKill(r) -> Concludes("killed", "reused", record)
          [] ~ReuseKill(r) /\ suiteSettles ->
                Concludes("survived", "suite", RecordSuite("measured", r.suiteWhole))
          [] ~ReuseKill(r) /\ ~suiteSettles /\ ReuseVerdict(r) ->
                Concludes("survived", IF record.outcome = "survived" THEN "reused"
                                    ELSE record.kind, record)
          [] OTHER ->
                IF r.reaching /= {} THEN ExecuteGroups(TargetGroups(r.reaching))
                ELSE IF r.discharged = {} THEN ExecuteSuite
                ELSE Concludes("survived", "proved", RecordSuite("discharged", r.suiteWhole))

Evaluate ==
    /\ runs < RoutingRuns /\ ruling.verdict = "none"
    /\ EvaluateMutationSeed
    /\ runs' = runs + 1
    /\ UNCHANGED <<tree, world, routing>>

-----------------------------------------------------------------------------
(* The tests, and the edits between runs (external) *)

\* Tests are deterministic: what the original does depends on the closure, and on
\* the rest of the tree only for a subject that reads it; so does what the mutant
\* does, which another part of the tree may be read by.
Deterministic(edited, next) ==
    \A s \in Subjects :
       LET w == world[s]  n == next[s]
           stays(reads) == edited \cap (IF reads THEN TreeFiles ELSE Narrow[s]) = {}
       IN  /\ stays(w.base) => /\ n.base = w.base /\ n.missed = w.missed
                               /\ (n.level >= Infected) = (w.level >= Infected)
                               /\ w.level < Infected => n.level = w.level
           /\ stays(w.mut) => n.mut = w.mut /\ (n.level = Failing) = (w.level = Failing)
           /\ stays(w.base) /\ stays(w.mut) => n = w

\* The suite runs every target of its package.
SuiteIncludes(w) ==
    \A t \in OwnTargets : /\ w[t].level <= w[Suite].level
                          /\ w[t].base => w[Suite].base
                          /\ w[t].mut => w[Suite].mut

\* A subject the mutant does not infect does what the original does.
UninfectedIsOriginal(w) ==
    \A s \in Subjects : w[s].level < Infected => w[s].mut = w[s].base /\ ~w[s].missed

Edit ==
    /\ runs < RoutingRuns /\ ruling.verdict /= "none"
    /\ \E edited \in Edits : \E next \in Worlds :
          /\ Deterministic(edited, next) /\ SuiteIncludes(next) /\ UninfectedIsOriginal(next)
          /\ world' = next
          /\ tree' = [f \in TreeFiles |-> IF f \in edited THEN tree[f] + 1 ELSE tree[f]]
    /\ ruling' = NoRuling
    /\ UNCHANGED <<routing, record, runs>>

RoutingStart(w) ==
    /\ SuiteIncludes(w) /\ UninfectedIsOriginal(w)
    /\ world = w
    /\ routing \in RoutingOptions
    /\ tree = [f \in TreeFiles |-> 0]
    /\ record = NoRecord
    /\ ruling = NoRuling
    /\ runs = 0

RoutingNext == Evaluate \/ Edit

-----------------------------------------------------------------------------
(* Properties *)

\* What executing every target that executes the place would have concluded, and
\* without one the package suite: nothing narrowed, nothing reused.  Where blocks
\* say nothing, of the mutant or of a target, the file stands for the place.
Places(t) == IF routing.block /\ t \notin routing.inexact THEN AtPlace ELSE InFile
Unnarrowed ==
    LET reaching == {t \in RoutingTargets : world[t].level >= Places(t)}
    IN  IF reaching = {} THEN world[Suite].level = Failing
        ELSE \E t \in reaching : world[t].level = Failing

\* A conclusive verdict of a run is the one the unnarrowed, unremembered run of
\* the same tests on the same tree reaches, whether targets were discharged, the
\* suite's coverage or probe answered, or the record of an earlier run on another
\* tree did.  A ruling read from the record of a discharge is set apart.
RoutedIsTrue ==
    /\ ruling.verdict \in {"killed", "survived"}
    /\ \A s \in Subjects : ~world[s].missed
    /\ ruling.how /= "discharged"
    => (ruling.verdict = "killed") = Unnarrowed

=============================================================================
