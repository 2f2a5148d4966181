------------------------------ MODULE MCGoatest ------------------------------
(***************************************************************************)
(* The parts of goatest, and the session calls it makes, in one run of TLC: *)
(* the round and its repairs, the selection of targets, the baseline and    *)
(* the probe passes, the routing of mutants and the build cache.  The parts *)
(* share no state: a behaviour chooses its part, and the variables of the   *)
(* others rest.                                                             *)
(***************************************************************************)
EXTENDS Round, Repair, SessionCalls, Impact, Integers, TLC

VARIABLES
  part,
  clock, acts, objs, sound, req, col, persist, collected, left, answered,
  seed, seedGeneration, generation, seededGeneration, disabled, admission, projMutex,
  active, stage, projHeld, written, returned, projected, version, needs, view,
  nature, saved, enabled, starts, where, memory, ahead,
  attempt, catalog, probePhase, journal, carried, probeSaved, resume, facts, queue, working,
  slots, cancelled

buildCacheVars ==
  <<clock, acts, objs, sound, req, col, persist, collected, left, answered>>
projectionVars ==
  <<seed, seedGeneration, generation, seededGeneration, disabled, admission, projMutex,
    active, stage, projHeld, written, returned, projected, version, needs, view>>
baselineVars ==
  <<nature, saved, enabled, starts, where, memory, ahead>>
probePassVars ==
  <<attempt, catalog, probePhase, journal, carried, probeSaved, resume, facts, queue,
    working, slots, cancelled>>
goatestVars ==
  <<part, routingVars, roundVars, repairVars, impactVars, buildCacheVars, projectionVars,
    baselineVars, probePassVars, sessionCallVars>>

-----------------------------------------------------------------------------
(* Routing: a target of the mutant's package, one of another, and the suite. *)

PairOf(l, b, m, x) == [level |-> l, base |-> b, mut |-> m, missed |-> x]
OwnPairs == {PairOf(l, r, r, FALSE) : l \in {0, 2, 4, 5}, r \in BOOLEAN}
FilePair == PairOf(1, FALSE, FALSE, FALSE)
SuitePairs == {p \in OwnPairs : p.level # 2}
OtherPairs == {PairOf(l, FALSE, FALSE, FALSE) : l \in 0..5}
              \cup {PairOf(l, FALSE, TRUE, FALSE) : l \in {4, 5}} \cup {PairOf(5, FALSE, FALSE, TRUE)}
WorldOf(a, b, c) == [s \in {"t1", "t2", "suite"} |-> CASE s = "t1" -> a [] s = "t2" -> b [] s = "suite" -> c]
SomeWorlds ==
  {w \in {WorldOf(a, b, c) : a \in OwnPairs, b \in OtherPairs, c \in SuitePairs}
         \cup {WorldOf(FilePair, PairOf(l, FALSE, FALSE, FALSE), PairOf(m, FALSE, FALSE, FALSE)) : l \in {0, 2, 5}, m \in {4, 5}}
         \cup {WorldOf(PairOf(l, FALSE, FALSE, FALSE), PairOf(0, FALSE, FALSE, FALSE), c) :
                   l \in {0, 2}, c \in {PairOf(4, TRUE, FALSE, FALSE), PairOf(5, FALSE, TRUE, FALSE)}} :
     SuiteIncludes(w) /\ UninfectedIsOriginal(w)}
FilesOf == [s \in {"t1", "t2", "suite"} |-> IF s = "t2" THEN {"q"} ELSE {"p"}]
OptionOf(probed, coverage, probe, block, branch, environments, inexact) ==
  [probed |-> probed, suiteCoverage |-> coverage, suiteProbe |-> probe, block |-> block,
   branch |-> branch, environments |-> environments, inexact |-> inexact]
Both == {"t1", "t2"}
Apart == {{"t1"}, {"t2"}}
SomeOptions ==
  {OptionOf({}, FALSE, FALSE, TRUE, FALSE, {Both}, {}), OptionOf({}, FALSE, FALSE, TRUE, TRUE, Apart, {}),
   OptionOf(Both, TRUE, TRUE, TRUE, TRUE, {Both}, {}), OptionOf(Both, TRUE, FALSE, TRUE, FALSE, Apart, {}),
   OptionOf({}, TRUE, FALSE, TRUE, FALSE, {Both}, {}), OptionOf({}, FALSE, FALSE, FALSE, FALSE, {Both}, {}),
   OptionOf(Both, FALSE, TRUE, TRUE, FALSE, {Both}, {"t1"})}

SomeEdits == {{}, {"p"}, {"q"}, {"data"}}

\* The round: every option, and a user who edits the tree under it.
RoundOptions == [changed : BOOLEAN, replay : BOOLEAN, resources : BOOLEAN, noRepair : BOOLEAN]

\* Repairs: three candidates, the second of a file that is not there.
CandidateOf(p, pre, c) == [path |-> p, preimage |-> pre, content |-> c, passes |-> 3]
SomeBatch == <<CandidateOf("a", 1, 11), CandidateOf("b", 0, 12), CandidateOf("c", 3, 13)>>

RepairStarts == \E c \in {3, 4} : RepairStart([a |-> 1, b |-> 0, c |-> c])

\* Impact: three packages, of which two have a target.
TextOf(t, i) == [imports |-> i, text |-> t]
NoText == [imports |-> {}, text |-> 0]
FilesOfPackages ==
  "a" :> {"a.go", "a_const.go", "a_test.go"} @@ "b" :> {"b.go", "b_const.go"} @@ "c" :> {"c.go", "c_more.go", "c_test.go"}
TextsOfFiles ==
  "a.go" :> {NoText, TextOf(1, {}), TextOf(1, {"b"})} @@ "a_const.go" :> {TextOf(1, {}), TextOf(2, {})}
  @@ "a_test.go" :> {TextOf(1, {}), TextOf(1, {"c"})} @@ "b.go" :> {TextOf(1, {}), TextOf(1, {"c"})}
  @@ "b_const.go" :> {NoText, TextOf(1, {})} @@ "c.go" :> {TextOf(1, {}), TextOf(2, {})}
  @@ "c_more.go" :> {NoText, TextOf(1, {})}
  @@ "c_test.go" :> {TextOf(1, {}), TextOf(2, {})}
StartingTree ==
  [f \in DOMAIN TextsOfFiles |-> IF f = "a.go" THEN TextOf(1, {"b"}) ELSE TextOf(1, {})]

TargetPackages == "ta" :> "a" @@ "tc" :> "c"
SomeTrees == {StartingTree}

\* The build cache: two actions with one output, one of them of the host.
Layered == INSTANCE BuildCache WITH
  Actions <- {"a1", "a2"}, OutputOf <- [a1 |-> "o1", a2 |-> "o1"],
  Touch <- [scratch |-> 1, base |-> 1], Servers <- {"s"}, HostActions <- {"a2"},
  BaseTTL <- 1, MaxBytes <- 3, MaxTime <- 3, MaxRequests <- 2, MaxCollections <- 1

Projecting == INSTANCE Projection WITH
  Natives <- {"n1", "n2"}, Compiles <- {"c1", "c2"}, Preparation <- "prep", held <- projHeld

\* The baseline: three targets of two binaries, interrupted up to twice.
SomeEnds == {<<{}, {}, {}>>, <<{}, {"exit"}, {}>>, <<{}, {}, {"skip", "exit"}>>, <<{"timeout"}, {}, {}>>}
SomeNatures ==
  {n \in [probing : BOOLEAN, rejected : {"", "vet", "build"}, compiles : {{1}, {1, 2}, {}}, ends : SomeEnds,
          files : {{<<1, 1>>, <<2, 1>>, <<3, 2>>}}, blocks : {{<<1, 1>>, <<3, 2>>}, {<<3, 2>>}, {}},
          suites : {{1, 2}, {2}}] :
     /\ n.probing => n.compiles = {1, 2}
     /\ ~n.probing => n.blocks = {}
     /\ n.rejected # "" => n.compiles = {1, 2} /\ n.ends = <<{}, {}, {}>> /\ n.blocks = {}}

Baseline == INSTANCE BaselineRun WITH
  Selected <- 1..3, Binaries <- {1, 2}, BinaryOf <- <<1, 1, 2>>, Instruments <- <<{1}, {2}>>, MaxStarts <- 3

\* The probe pass: two targets and a suite, over four catalogues.
MutantOf(id, accepted, probed) == [id |-> id, accepted |-> accepted, probed |-> probed]
InfectsOf == [i \in {"t1", "t2", "p"} |-> CASE i = "t1" -> {"a"} [] i = "t2" -> {"a", "b"} [] OTHER -> {"b"}]
SomeCatalogs ==
  {<<MutantOf("a", TRUE, TRUE), MutantOf("b", TRUE, TRUE)>>, <<MutantOf("a", TRUE, TRUE), MutantOf("b", TRUE, FALSE)>>,
   <<MutantOf("a", TRUE, TRUE), MutantOf("b", FALSE, FALSE)>>, <<MutantOf("b", TRUE, TRUE)>>}

Probing == INSTANCE ProbePass WITH
  Targets <- {"t1", "t2"}, SuitePackages <- {"p"}, Infects <- InfectsOf, Catalogs <- SomeCatalogs,
  Jobs <- 2, MaxAttempts <- 2, phase <- probePhase, saved <- probeSaved

\* The calls of a session: two callers, and requests that are refused or not.
RequestOf(k, m, a) ==
  [kind |-> k, mutant |-> m, limits |-> "ok", package |-> "all", environment |-> "ok", args |-> a]
SomeRequests ==
  {RequestOf("exec", 1, {"fuzz"}), RequestOf("exec", 2, {}), RequestOf("exec", 9, {}),
   RequestOf("control", 0, {"fuzz"}), RequestOf("probe", 0, {}), RequestOf("probe", 0, {"fuzz"}),
   RequestOf("probe", 0, {"fuzz", "reserved"}), [RequestOf("control", 0, {}) EXCEPT !.limits = "negative"],
   [RequestOf("probe", 0, {}) EXCEPT !.package = "absent"], [RequestOf("exec", 1, {}) EXCEPT !.environment = "invalid"]}
SomeBuilds ==
  {b \in [accepted : {{1}, {1, 2}}, survived : {{1, 2}, {2}}, hinted : {{1, 2}, {1}}, keep : BOOLEAN, probes : BOOLEAN] :
     ~b.probes => b.survived = {2} /\ b.hinted = {1}}

-----------------------------------------------------------------------------

Parts == {"routing", "round", "repair", "impact", "buildcache", "projection", "baseline", "probe", "session"}
Rest == "rest"

RoutingRests ==
  /\ tree = Rest /\ world = Rest /\ routing = Rest /\ record = Rest /\ runs = Rest
  /\ ruling = NoRuling
RoundRests ==
  /\ live = Rest /\ atHead = Rest /\ step = Rest /\ asked = Rest /\ round = Rest
  /\ copy = Rest /\ digest = Rest /\ read = Rest /\ held = {} /\ preparing = "none"
  /\ filed = {} /\ reply = "none"
RepairRests ==
  /\ mode = Rest /\ files = Rest /\ original = Rest /\ phase = Rest /\ at = Rest
  /\ passed = Rest /\ todo = Rest /\ applied = Rest /\ results = Rest /\ failure = Rest
  /\ edits = Rest /\ slipped = Rest
ImpactRests ==
  /\ base = Rest /\ work = Rest /\ graph = Rest /\ seen = Rest /\ selection = NoSelection
  /\ changes = Rest
BuildCacheRests ==
  /\ clock = Rest /\ acts = Rest /\ objs = Rest /\ sound = Rest /\ req = Rest
  /\ col = Rest /\ persist = Rest /\ collected = Rest /\ left = Rest /\ answered = Rest
ProjectionRests ==
  /\ seed = Rest /\ seedGeneration = Rest /\ generation = Rest /\ seededGeneration = Rest /\ disabled = Rest
  /\ admission = Rest /\ projMutex = Rest /\ active = Rest /\ stage = Rest /\ projHeld = Rest
  /\ written = Rest /\ returned = Rest /\ projected = Rest /\ version = Rest /\ needs = Rest
  /\ view = Rest
BaselineRests ==
  /\ nature = Rest /\ saved = Rest /\ enabled = Rest /\ starts = Rest /\ where = Rest
  /\ memory = Rest /\ ahead = Rest
ProbePassRests ==
  /\ attempt = Rest /\ catalog = Rest /\ probePhase = Rest /\ journal = Rest /\ carried = Rest
  /\ probeSaved = Rest /\ resume = Rest /\ facts = Rest /\ queue = Rest /\ working = Rest
  /\ slots = Rest /\ cancelled = Rest
SessionCallRests ==
  /\ build = Rest /\ sessionClosed = Rest /\ mainTree = {} /\ probeTree = {} /\ scratches = {}
  /\ keptScratch = {} /\ call = [c \in SessionCallers |-> NotCalled]

GoatestInit ==
  /\ part \in Parts
  /\ IF part = "routing" THEN \E w \in Worlds : RoutingStart(w) ELSE RoutingRests
  /\ IF part = "round" THEN RoundInit ELSE RoundRests
  /\ IF part = "repair" THEN RepairStarts ELSE RepairRests
  /\ IF part = "impact" THEN (\E start \in StartingTrees : ImpactStart(start)) ELSE ImpactRests
  /\ IF part = "buildcache" THEN Layered!BuildCacheInit ELSE BuildCacheRests
  /\ IF part = "projection" THEN Projecting!ProjectionInit ELSE ProjectionRests
  /\ IF part = "baseline" THEN Baseline!BaselineInit(SomeNatures) ELSE BaselineRests
  /\ IF part = "probe" THEN Probing!ProbePassInit ELSE ProbePassRests
  /\ IF part = "session" THEN SessionCallsInit(SomeBuilds) ELSE SessionCallRests

GoatestNext ==
  /\ UNCHANGED part
  /\ IF part = "routing" THEN RoutingNext ELSE UNCHANGED routingVars
  /\ IF part = "round" THEN RoundNext ELSE UNCHANGED roundVars
  /\ IF part = "repair" THEN RepairNext ELSE UNCHANGED repairVars
  /\ IF part = "impact" THEN ImpactNext ELSE UNCHANGED impactVars
  /\ IF part = "buildcache" THEN Layered!BuildCacheNext ELSE UNCHANGED buildCacheVars
  /\ IF part = "projection" THEN Projecting!ProjectionNext ELSE UNCHANGED projectionVars
  /\ IF part = "baseline" THEN Baseline!BaselineNext ELSE UNCHANGED baselineVars
  /\ IF part = "probe" THEN Probing!ProbePassNext ELSE UNCHANGED probePassVars
  /\ IF part = "session" THEN SessionCallsNext ELSE UNCHANGED sessionCallVars

GoatestSpec == GoatestInit /\ [][GoatestNext]_goatestVars

\* The baseline alone.
BaselineSpec == part = "baseline" /\ GoatestSpec

-----------------------------------------------------------------------------
(* Properties.  The named parts are stated in the modules of the parts, and *)
(* Round's, Repair's and SessionCalls' as their modules state them.         *)

\* Nothing that was read from the build cache is collected before its time, and
\* what a projection admitted is served.
CacheServes ==
  /\ part = "buildcache" => Layered!ReadIsSpared
  /\ part = "projection" => Projecting!AdmittedIsServed

\* Evidence that was resumed is what an uninterrupted run would have found: the
\* baseline's results, and the probe facts of the catalogue in force.
EvidenceIsTrue ==
  /\ part = "baseline" => Baseline!ResumedIsTheSame
  /\ part = "probe" => Probing!FactsAreTrue

\* goatest/docs/checkpoint-v1.md:63-66: an unfinished baseline stores the
\* instrumentation of a package on at most one of its targets.
OneAnchor == Baseline!OneAnchor
=============================================================================
