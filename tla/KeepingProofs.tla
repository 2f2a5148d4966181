---------------------------- MODULE KeepingProofs ----------------------------
(***************************************************************************)
(* Proofs about what goatest keeps, for any number of runs, collections and *)
(* directories: what keeps a directory from being taken (KeptTemp), that    *)
(* what was kept of a run survives every collection (Retention), and that   *)
(* what a later run leaves out because of it need not be run (Routing,      *)
(* Impact).                                                                 *)
(***************************************************************************)
EXTENDS Impact, KeptTemp, Retention, FiniteSetTheorems, TLAPS

-----------------------------------------------------------------------------
(* Impact: what a narrowed run leaves out.                                  *)

\* Of every target the graph holds what its last measurement saw, whichever runs
\* were merged since, and a narrowed selection was made by such a graph.
GraphInv ==
  /\ DOMAIN graph.targets = DOMAIN seen
  /\ DOMAIN seen \subseteq DOMAIN ImpactTargets
  /\ \A t \in DOMAIN seen :
       /\ graph.targets[t].deps = seen[t].linked
       /\ graph.targets[t].covered =
            {f \in seen[t].present \cap CodeFiles :
               PackageOf(f) \in seen[t].linked \cup {ImpactTargets[t]}}

LEMMA GraphStart ==
  ASSUME NEW start, ImpactStart(start)
  PROVE  GraphInv /\ AffectedAreSelected
BY DEF ImpactStart, GraphInv, AffectedAreSelected, NoSelection

LEMMA MergeKeeps ==
  ASSUME GraphInv,
         NEW s, s.broad \in BOOLEAN, s.targets \subseteq DOMAIN ImpactTargets,
         s.broad => s.targets = DOMAIN ImpactTargets,
         graph' = MergeGraph(BuildGraph(s.targets), s),
         seen' = SeenBy(s.targets)
  PROVE  GraphInv'
<1> DEFINE fresh == [t \in s.targets |-> Measurement(work, t)]
           merged == [t \in s.targets \cup DOMAIN graph.targets |->
                        IF t \in s.targets THEN fresh[t] ELSE graph.targets[t]]
<1>1. graph'.targets = IF s.broad THEN fresh ELSE merged
  BY DEF MergeGraph, BuildGraph
<1>2. /\ DOMAIN seen' = s.targets \cup DOMAIN seen
      /\ \A t \in DOMAIN seen' :
           seen'[t] = IF t \in s.targets
                      THEN [linked |-> TestBinaryClosure(work, ImpactTargets[t]),
                            present |-> Present(work)]
                      ELSE seen[t]
  BY DEF SeenBy
<1>3. DOMAIN graph'.targets = DOMAIN seen'
  BY <1>1, <1>2 DEF GraphInv
<1>4. ASSUME NEW t \in DOMAIN seen'
      PROVE  /\ graph'.targets[t].deps = seen'[t].linked
             /\ graph'.targets[t].covered =
                  {f \in seen'[t].present \cap CodeFiles :
                     PackageOf(f) \in seen'[t].linked \cup {ImpactTargets[t]}}
  <2>1. CASE t \in s.targets
    <3>1. graph'.targets[t] = Measurement(work, t)
      BY <1>1, <2>1
    <3>2. /\ seen'[t].linked = TestBinaryClosure(work, ImpactTargets[t])
          /\ seen'[t].present = Present(work)
      <4>1. seen'[t] = [linked |-> TestBinaryClosure(work, ImpactTargets[t]), present |-> Present(work)]
        BY <1>2, <2>1, Zenon
      <4>2. QED
        BY <4>1
    <3>3. /\ Measurement(work, t).deps = TestBinaryClosure(work, ImpactTargets[t])
          /\ Measurement(work, t).covered =
               {f \in Present(work) \cap CodeFiles :
                  PackageOf(f) \in TestBinaryClosure(work, ImpactTargets[t]) \cup {ImpactTargets[t]}}
      BY DEF Measurement
    <3>4. \A f : f \in Measurement(work, t).covered
                <=> f \in {g \in seen'[t].present \cap CodeFiles :
                             PackageOf(g) \in seen'[t].linked \cup {ImpactTargets[t]}}
      BY <3>2, <3>3
    <3>5. QED
      BY <3>1, <3>2, <3>3, <3>4
  <2>2. CASE t \notin s.targets
    <3>1. t \in DOMAIN seen /\ seen'[t] = seen[t] /\ ~s.broad
      BY <1>2, <2>2 DEF GraphInv
    <3>2. graph'.targets[t] = graph.targets[t]
      BY <1>1, <2>2, <3>1 DEF GraphInv
    <3>3. QED
      BY <3>1, <3>2 DEF GraphInv
  <2>3. QED
    BY <2>1, <2>2
<1>5. DOMAIN seen' \subseteq DOMAIN ImpactTargets
  BY <1>2 DEF GraphInv
<1>6. QED
  BY <1>3, <1>4, <1>5 DEF GraphInv, PackageOf

LEMMA SelectedAreAffected ==
  ASSUME GraphInv,
         ~SelectTargets.broad,
         NEW t \in DOMAIN seen,
         seen[t].linked = TestBinaryClosure(base, ImpactTargets[t]),
         NEW f \in ChangedFiles,
         DependsOn(t, f),
         ~(f \in CodeFiles /\ PackageOf(f) = ImpactTargets[t] /\ f \notin seen[t].present)
  PROVE  t \in SelectTargets.targets
<1>1. Affected(ChangedFiles).targets \subseteq SelectTargets.targets
  BY DEF SelectTargets, Everything
<1>2. \/ f \in TestFiles /\ ImpactTargets[t] = PackageOf(f)
      \/ PackageOf(f) \in graph.targets[t].deps
      \/ f \in graph.targets[t].covered
  <2>1. CASE PackageOf(f) = ImpactTargets[t] /\ f \in TestFiles
    BY <2>1
  <2>2. CASE PackageOf(f) = ImpactTargets[t] /\ f \in CodeFiles
    BY <2>2 DEF GraphInv
  <2>3. CASE PackageOf(f) \in TestBinaryClosure(base, ImpactTargets[t])
    BY <2>3 DEF GraphInv
  <2>4. QED
    BY <2>1, <2>2, <2>3 DEF DependsOn
<1>3. t \in Affected(ChangedFiles).targets
  BY <1>2 DEF Affected, GraphInv
<1>4. QED
  BY <1>1, <1>3

LEMMA ImpactStep ==
  ASSUME GraphInv, AffectedAreSelected, [ImpactNext]_impactVars
  PROVE  GraphInv' /\ AffectedAreSelected'
<1>1. CASE RunChanged
  <2>1. PICK s \in (IF graph.files = {} THEN {} ELSE {SelectTargets}) \cup {Everything} :
          /\ selection' = [broad |-> s.broad, targets |-> s.targets,
                           seen |-> seen, changed |-> ChangedFiles]
          /\ \/ UNCHANGED <<graph, seen>>
             \/ /\ graph' = MergeGraph(BuildGraph(s.targets), s)
                /\ seen' = SeenBy(s.targets)
    BY <1>1 DEF RunChanged
  <2>2. UNCHANGED <<base, work>>
    BY <1>1 DEF RunChanged
  <2>3. /\ s.broad \in BOOLEAN /\ s.targets \subseteq DOMAIN ImpactTargets
        /\ s.broad => s.targets = DOMAIN ImpactTargets
    <3>1. CASE s = Everything
      BY <3>1 DEF Everything
    <3>2. CASE s = SelectTargets
      BY <3>2 DEF SelectTargets, Everything, Affected, GraphInv
    <3>3. QED
      BY <2>1, <3>1, <3>2
  <2>4. GraphInv'
    <3>1. CASE UNCHANGED <<graph, seen>>
      BY <3>1 DEF GraphInv, PackageOf
    <3>2. CASE graph' = MergeGraph(BuildGraph(s.targets), s) /\ seen' = SeenBy(s.targets)
      BY <2>3, <3>2, MergeKeeps
    <3>3. QED
      BY <2>1, <3>1, <3>2
  <2>5. AffectedAreSelected'
    <3> SUFFICES ASSUME ~selection'.broad, NEW t \in DOMAIN selection'.seen,
                        selection'.seen[t].linked = TestBinaryClosure(base, ImpactTargets[t]),
                        NEW f \in selection'.changed, DependsOn(t, f), ~Unseen(t, f)'
                 PROVE  t \in selection'.targets
      BY <2>2 DEF AffectedAreSelected, DependsOn, TestBinaryClosure, Imports, PackageOf
    <3>1. s = SelectTargets
      BY <2>1 DEF Everything
    <3>2. QED
      BY <2>1, <3>1, SelectedAreAffected DEF Unseen, PackageOf
  <2>6. QED
    BY <2>4, <2>5
<1>2. CASE EditFile \/ Commit
  <2>1. selection' = NoSelection /\ UNCHANGED <<graph, seen>>
    BY <1>2 DEF EditFile, Commit
  <2>2. QED
    BY <2>1 DEF NoSelection, AffectedAreSelected, GraphInv, PackageOf
<1>3. CASE UNCHANGED impactVars
  BY <1>3 DEF impactVars, GraphInv, AffectedAreSelected, DependsOn, Unseen, PackageOf,
              TestBinaryClosure, Imports
<1>4. QED
  BY <1>1, <1>2, <1>3 DEF ImpactNext


-----------------------------------------------------------------------------
(* Routing: what the records of earlier runs stand for.                     *)

WorldsType == [Subjects -> [level : 0..5, base : BOOLEAN, mut : BOOLEAN, missed : BOOLEAN]]

\* The content of the files behind a key now, and the keys that were taken of an
\* earlier content: contents only grow, so a key once out of date stays so.
Behind(s, whole) == IF whole THEN TreeFiles ELSE Narrow[s]
Stamp(at, s, whole) == [f \in Behind(s, whole) |-> at[f]]
NoLater(at, key, s, whole) ==
  /\ key \in [Behind(s, whole) -> Nat]
  /\ \A f \in Behind(s, whole) : key[f] <= at[f]

\* A target whose key still holds did not make the mutant fail and would not now;
\* of a group that killed it, one still does.
TargetKeysInv ==
  record.outcome \in {"killed", "survived"} =>
    /\ \A k \in record.keys :
         /\ k.target \in RoutingTargets /\ k.whole \in BOOLEAN
         /\ NoLater(tree, k.key, k.target, k.whole)
         /\ k.key = Stamp(tree, k.target, k.whole) => k.whole \/ ~world[k.target].mut
         /\ record.outcome = "survived" /\ k.key = Stamp(tree, k.target, k.whole)
              => world[k.target].level /= Failing
    /\ record.outcome = "killed" /\ (\A k \in record.keys : k.key = Stamp(tree, k.target, k.whole))
         => \E k \in record.keys : world[k.target].level = Failing

\* A suite whose key still holds passes with the mutant, unless its coverage
\* missed what it executes.  A discharge says nothing of the suite.
SuiteKeyInv ==
  record.outcome = "unreached" =>
    LET whole == record.suite.whole  key == record.suite.key[1]
    IN  /\ whole \in BOOLEAN
        /\ NoLater(tree, key, Suite, whole)
        /\ key = Stamp(tree, Suite, whole) /\ record.kind /= "discharged" =>
             \/ world[Suite].missed /\ (whole \/ ~world[Suite].base)
             \/ world[Suite].level /= Failing /\ (whole \/ ~world[Suite].mut)

RoutingInv ==
  /\ tree \in [TreeFiles -> Nat]
  /\ world \in WorldsType /\ UninfectedIsOriginal(world)
  /\ routing \in RoutingOptions
  /\ TargetKeysInv /\ SuiteKeyInv

\* A key that holds after an edit held before it, and the edit left alone what is
\* behind it.
LEMMA StampAfterEdit ==
  ASSUME tree \in [TreeFiles -> Nat],
         NEW edited \in SUBSET TreeFiles,
         tree' = [f \in TreeFiles |-> IF f \in edited THEN tree[f] + 1 ELSE tree[f]],
         NEW s \in Subjects, NEW whole \in BOOLEAN, NEW key, NoLater(tree, key, s, whole)
  PROVE  /\ NoLater(tree', key, s, whole)
         /\ key = Stamp(tree', s, whole) =>
              edited \cap Behind(s, whole) = {} /\ key = Stamp(tree, s, whole)
<1>1. Behind(s, whole) \subseteq TreeFiles
  BY RoutingAssumption DEF Behind
<1>2. \A f \in Behind(s, whole) :
        /\ key[f] \in Nat /\ tree[f] \in Nat /\ key[f] <= tree[f]
        /\ tree'[f] = IF f \in edited THEN tree[f] + 1 ELSE tree[f]
  BY <1>1 DEF NoLater
<1>4. NoLater(tree', key, s, whole)
  BY <1>2 DEF NoLater
<1>5. ASSUME key = Stamp(tree', s, whole)
      PROVE  edited \cap Behind(s, whole) = {} /\ key = Stamp(tree, s, whole)
  <2>1. \A f \in Behind(s, whole) : key[f] = tree'[f]
    BY <1>5 DEF Stamp
  <2>2. \A f \in Behind(s, whole) : f \notin edited /\ key[f] = tree[f]
    BY <1>2, <2>1
  <2>3. key \in [Behind(s, whole) -> Nat]
    BY DEF NoLater
  <2>4. QED
    BY <2>2, <2>3 DEF Stamp
<1>6. QED
  BY <1>4, <1>5

\* What an edit outside the files behind its key leaves of a subject.
LEMMA SubjectAfterEdit ==
  ASSUME world \in WorldsType, NEW next \in WorldsType,
         NEW edited \in SUBSET TreeFiles, Deterministic(edited, next),
         NEW s \in Subjects, NEW whole \in BOOLEAN, edited \cap Behind(s, whole) = {}
  PROVE  /\ whole \/ ~world[s].mut =>
              next[s].mut = world[s].mut /\ (next[s].level = Failing <=> world[s].level = Failing)
         /\ whole \/ ~world[s].base =>
              next[s].base = world[s].base /\ next[s].missed = world[s].missed
<1> DEFINE stays(reads) == edited \cap (IF reads THEN TreeFiles ELSE Narrow[s]) = {}
<1>1. /\ stays(world[s].base) => next[s].base = world[s].base /\ next[s].missed = world[s].missed
      /\ stays(world[s].mut) =>
           next[s].mut = world[s].mut /\ (next[s].level = Failing) = (world[s].level = Failing)
  BY DEF Deterministic
<1>2. /\ whole \/ ~world[s].mut => stays(world[s].mut)
      /\ whole \/ ~world[s].base => stays(world[s].base)
  BY RoutingAssumption DEF Behind, WorldsType
<1>3. QED
  BY <1>1, <1>2

LEMMA EditKeeps ==
  ASSUME RoutingInv, Edit
  PROVE  RoutingInv'
<1>1. PICK edited \in Edits, next \in Worlds :
        /\ Deterministic(edited, next) /\ UninfectedIsOriginal(next)
        /\ world' = next
        /\ tree' = [f \in TreeFiles |-> IF f \in edited THEN tree[f] + 1 ELSE tree[f]]
  BY DEF Edit
<1>2. UNCHANGED <<routing, record>>
  BY DEF Edit
<1>3. edited \in SUBSET TreeFiles /\ next \in WorldsType
  BY RoutingAssumption DEF WorldsType
<1>4. tree' \in [TreeFiles -> Nat]
  BY <1>1 DEF RoutingInv
<1>5. Suite \in Subjects /\ RoutingTargets \subseteq Subjects
  BY DEF Subjects
<1>6. TargetKeysInv'
  <2> SUFFICES ASSUME record.outcome \in {"killed", "survived"}
               PROVE  TargetKeysInv'
    BY <1>2 DEF TargetKeysInv
  <2>1. ASSUME NEW k \in record.keys
        PROVE  /\ k.target \in RoutingTargets /\ k.whole \in BOOLEAN
               /\ NoLater(tree', k.key, k.target, k.whole)
               /\ k.key = Stamp(tree', k.target, k.whole) =>
                    /\ k.key = Stamp(tree, k.target, k.whole)
                    /\ k.whole \/ ~next[k.target].mut
                    /\ next[k.target].level = Failing <=> world[k.target].level = Failing
    <3>1. k.target \in RoutingTargets /\ k.whole \in BOOLEAN /\ NoLater(tree, k.key, k.target, k.whole)
      BY DEF RoutingInv, TargetKeysInv
    <3>2. /\ NoLater(tree', k.key, k.target, k.whole)
          /\ k.key = Stamp(tree', k.target, k.whole) =>
               edited \cap Behind(k.target, k.whole) = {} /\ k.key = Stamp(tree, k.target, k.whole)
      BY <1>1, <1>3, <1>5, <3>1, StampAfterEdit DEF RoutingInv
    <3>3. ASSUME k.key = Stamp(tree', k.target, k.whole)
          PROVE  /\ k.key = Stamp(tree, k.target, k.whole)
                 /\ k.whole \/ ~next[k.target].mut
                 /\ next[k.target].level = Failing <=> world[k.target].level = Failing
      <4>1. edited \cap Behind(k.target, k.whole) = {} /\ k.key = Stamp(tree, k.target, k.whole)
        BY <3>2, <3>3
      <4>2. k.whole \/ ~world[k.target].mut
        BY <4>1 DEF RoutingInv, TargetKeysInv
      <4>3. /\ next[k.target].mut = world[k.target].mut
            /\ next[k.target].level = Failing <=> world[k.target].level = Failing
        BY <1>1, <1>3, <1>5, <3>1, <4>1, <4>2, SubjectAfterEdit DEF RoutingInv
      <4>4. QED
        BY <4>1, <4>2, <4>3
    <3>4. QED
      BY <3>1, <3>2, <3>3
  <2>2. /\ record.outcome = "survived" =>
             \A k \in record.keys : k.key = Stamp(tree, k.target, k.whole) => world[k.target].level /= Failing
        /\ record.outcome = "killed" /\ (\A k \in record.keys : k.key = Stamp(tree, k.target, k.whole))
             => \E k \in record.keys : world[k.target].level = Failing
    BY DEF RoutingInv, TargetKeysInv
  <2>3. world' = next /\ record' = record
    BY <1>1, <1>2
  <2>4. QED
    BY <2>1, <2>2, <2>3 DEF TargetKeysInv
<1>7. SuiteKeyInv'
  <2> SUFFICES ASSUME record.outcome = "unreached"
               PROVE  SuiteKeyInv'
    BY <1>2 DEF SuiteKeyInv
  <2> DEFINE whole == record.suite.whole
             key == record.suite.key[1]
  <2>1. whole \in BOOLEAN /\ NoLater(tree, key, Suite, whole)
    BY DEF RoutingInv, SuiteKeyInv
  <2>2. /\ NoLater(tree', key, Suite, whole)
        /\ key = Stamp(tree', Suite, whole) =>
             edited \cap Behind(Suite, whole) = {} /\ key = Stamp(tree, Suite, whole)
    <3> HIDE DEF whole, key
    <3>1. QED
      BY <1>1, <1>3, <1>5, <2>1, StampAfterEdit DEF RoutingInv
  <2>3. ASSUME key = Stamp(tree', Suite, whole), record.kind /= "discharged"
        PROVE  \/ next[Suite].missed /\ (whole \/ ~next[Suite].base)
               \/ next[Suite].level /= Failing /\ (whole \/ ~next[Suite].mut)
    <3>1. \/ world[Suite].missed /\ (whole \/ ~world[Suite].base)
          \/ world[Suite].level /= Failing /\ (whole \/ ~world[Suite].mut)
      BY <2>2, <2>3 DEF RoutingInv, SuiteKeyInv
    <3>2. /\ whole \/ ~world[Suite].mut =>
               /\ next[Suite].mut = world[Suite].mut
               /\ next[Suite].level = Failing <=> world[Suite].level = Failing
          /\ whole \/ ~world[Suite].base =>
               next[Suite].base = world[Suite].base /\ next[Suite].missed = world[Suite].missed
      <4>1. edited \cap Behind(Suite, whole) = {}
        BY <2>2, <2>3
      <4> HIDE DEF whole, key
      <4>2. QED
        BY <1>1, <1>3, <1>5, <2>1, <4>1, SubjectAfterEdit DEF RoutingInv
    <3>3. QED
      BY <3>1, <3>2
  <2>4. record' = record /\ world' = next
    BY <1>1, <1>2
  <2>5. QED
    BY <2>1, <2>2, <2>3, <2>4 DEF SuiteKeyInv
<1>8. QED
  BY <1>1, <1>2, <1>3, <1>4, <1>6, <1>7 DEF RoutingInv

\* What a route says of the targets and the suite, whatever was measured of them:
\* it takes no target that does not reach the mutant, and leaves out one that does
\* only where its coverage missed it or its result is the original's.
RouteSound(r) ==
  /\ r.reaching \subseteq RoutingTargets /\ r.discharged \subseteq RoutingTargets
  /\ \A t \in r.reaching \cup r.discharged : world[t].level >= Places(t)
  /\ \A t \in RoutingTargets :
       world[t].level >= Places(t) /\ ~world[t].missed => t \in r.reaching \cup r.discharged
  /\ \A t \in r.discharged : world[t].missed \/ world[t].level /= Failing

\* The suite's own coverage or probe did not see the mutant change anything.
SuiteSettles(r) ==
  Unrouted(r) /\ \/ r.suiteCoverage /\ ~r.suiteReached
                 \/ r.suiteProbe /\ ~r.suiteInfected

SuiteSound(r) ==
  SuiteSettles(r) =>
    /\ r.suiteWhole = world[Suite].base
    /\ world[Suite].missed \/ world[Suite].level < Infected

LEMMA WorldsAreTyped ==
  ASSUME RoutingInv, NEW s \in Subjects
  PROVE  /\ world[s].level \in 0..5
         /\ world[s].base \in BOOLEAN /\ world[s].mut \in BOOLEAN /\ world[s].missed \in BOOLEAN
         /\ world[s].level < Infected => world[s].mut = world[s].base /\ ~world[s].missed
BY DEF RoutingInv, WorldsType, UninfectedIsOriginal

LEMMA RouteIsSound ==
  ASSUME RoutingInv
  PROVE  RouteSound(Route) /\ SuiteSound(Route)
<1> DEFINE r0 == RouteMutant
           r1 == ApplySuiteCoverage(r0)
           probed == IF Unrouted(r1) /\ routing.suiteProbe
                     THEN [r1 EXCEPT !.suiteProbe = TRUE, !.suiteInfected = ShowsInfection(Suite),
                                     !.suiteWhole = WholeTree(Suite),
                                     !.suiteCoverage = @ /\ (r1.suiteReached \/ ~ShowsInfection(Suite))]
                     ELSE r1
           joining == {t \in RoutingTargets \ probed.discharged : Probed(t) /\ ShowsInfection(t)}
<1>1. \A t \in RoutingTargets : world[t].level \in 0..5 /\ world[t].missed \in BOOLEAN
  BY WorldsAreTyped DEF Subjects
<1>2. /\ r0.reaching \subseteq ReachingByCoverage /\ r0.discharged \subseteq ReachingByCoverage
      /\ ReachingByCoverage \subseteq r0.reaching \cup r0.discharged
      /\ \A t \in r0.discharged :
           \/ ~ShowsInfection(t)
           \/ ~SeenAt(t, InBranch)
  BY DEF RouteMutant, DischargeNarrowedBranch, DischargeNeverInfected
<1>3. /\ ReachingByCoverage \subseteq RoutingTargets
      /\ \A t \in ReachingByCoverage : world[t].level >= Places(t)
      /\ \A t \in RoutingTargets :
           world[t].level >= Places(t) /\ ~world[t].missed => t \in ReachingByCoverage
  BY <1>1 DEF ReachingByCoverage, ExecutingTargets, SeenAt, Places, InFile, AtPlace
<1>4. \A t \in r0.discharged : world[t].missed \/ world[t].level /= Failing
  BY <1>1, <1>2, <1>3 DEF ShowsInfection, SeenAt, InBranch, Infected, Failing
<1>5. RouteSound(r0)
  BY <1>2, <1>3, <1>4 DEF RouteSound
<1>6. probed.reaching = r0.reaching /\ probed.discharged = r0.discharged
  BY DEF RouteMutant, ApplySuiteCoverage
<1>7. /\ Route.discharged = probed.discharged
      /\ Route.reaching \in {probed.reaching, probed.reaching \cup joining}
      /\ Route.suiteCoverage = probed.suiteCoverage /\ Route.suiteReached = probed.suiteReached
      /\ Route.suiteProbe = probed.suiteProbe /\ Route.suiteInfected = probed.suiteInfected
      /\ Route.suiteWhole = probed.suiteWhole
  <2>1. probed = [reaching |-> r0.reaching, discharged |-> r0.discharged,
                  suiteCoverage |-> probed.suiteCoverage, suiteReached |-> probed.suiteReached,
                  suiteProbe |-> probed.suiteProbe, suiteInfected |-> probed.suiteInfected,
                  suiteWhole |-> probed.suiteWhole]
    BY DEF RouteMutant, ApplySuiteCoverage
  <2>2. Route = probed \/ Route = [probed EXCEPT !.reaching = @ \cup joining]
    <3>1. Route = ApplyProbes(r1)
      BY DEF Route
    <3> HIDE DEF r0
    <3>2. QED
      BY <3>1 DEF ApplyProbes
  <2> HIDE DEF probed, joining, r0
  <2>3. QED
    BY <2>1, <2>2
<1>8. RouteSound(Route)
  <2>1. \A t \in joining : t \in RoutingTargets /\ world[t].level >= Places(t)
    BY <1>1 DEF ShowsInfection, Places, Infected, InFile, AtPlace
  <2> HIDE DEF joining, probed, r0
  <2>2. QED
    BY <1>5, <1>6, <1>7, <2>1 DEF RouteSound
<1>9. SuiteSound(Route)
  <2> SUFFICES ASSUME SuiteSettles(Route)
               PROVE  /\ Route.suiteWhole = world[Suite].base
                      /\ world[Suite].missed \/ world[Suite].level < Infected
    BY DEF SuiteSound
  <2>1. world[Suite].level \in 0..5 /\ world[Suite].missed \in BOOLEAN
    BY WorldsAreTyped DEF Subjects
  <2>2. Unrouted(r0)
    BY <1>6, <1>7 DEF SuiteSettles, Unrouted
  <2>3. CASE probed.suiteCoverage /\ ~probed.suiteReached
    <3>1. probed.suiteWhole = WholeTree(Suite) /\ ~SeenAt(Suite, AtPlace)
      BY <2>2, <2>3 DEF RouteMutant, ApplySuiteCoverage, Unrouted
    <3>2. QED
      BY <1>7, <2>1, <3>1 DEF WholeTree, SeenAt, AtPlace, Infected
  <2>4. CASE probed.suiteProbe /\ ~probed.suiteInfected
    <3>1. probed.suiteWhole = WholeTree(Suite) /\ ~ShowsInfection(Suite)
      BY <2>2, <2>4 DEF RouteMutant, ApplySuiteCoverage, Unrouted
    <3>2. QED
      BY <1>7, <2>1, <3>1 DEF WholeTree, ShowsInfection, Infected
  <2>5. QED
    BY <1>7, <2>3, <2>4 DEF SuiteSettles
<1>10. QED
  BY <1>8, <1>9

\* The unnarrowed run, told by a sound route.
LEMMA RoutedVerdict ==
  ASSUME RoutingInv, \A s \in Subjects : ~world[s].missed, NEW r, RouteSound(r)
  PROVE  /\ (\E t \in r.reaching : world[t].level = Failing) => Unnarrowed
         /\ r.reaching \cup r.discharged /= {}
              => (Unnarrowed => \E t \in r.reaching : world[t].level = Failing)
         /\ Unrouted(r) => (Unnarrowed <=> world[Suite].level = Failing)
<1>1. \A t \in RoutingTargets : world[t].level \in 0..5 /\ ~world[t].missed
  BY WorldsAreTyped DEF Subjects
<1>2. {t \in RoutingTargets : world[t].level >= Places(t)} = r.reaching \cup r.discharged
  BY <1>1 DEF RouteSound
<1>3. \A t \in r.discharged : world[t].level /= Failing
  BY <1>1 DEF RouteSound
<1>4. QED
  BY <1>2, <1>3 DEF Unnarrowed, Unrouted

LEMMA StampIsPast ==
  ASSUME tree \in [TreeFiles -> Nat], NEW s \in Subjects, NEW whole \in BOOLEAN
  PROVE  NoLater(tree, Stamp(tree, s, whole), s, whole)
<1>1. Behind(s, whole) \subseteq TreeFiles
  BY RoutingAssumption DEF Behind
<1>2. QED
  BY <1>1 DEF NoLater, Stamp

LEMMA KeysAre ==
  ASSUME NEW s, NEW whole
  PROVE  /\ TargetKey(s, whole).target = s /\ TargetKey(s, whole).whole = whole
         /\ TargetKey(s, whole).key = Stamp(tree, s, whole)
         /\ SuiteKey(whole).whole = whole /\ SuiteKey(whole).key[1] = Stamp(tree, Suite, whole)
BY DEF TargetKey, SuiteKey, Stamp, Behind

LEMMA RecordKept ==
  ASSUME RoutingInv, UNCHANGED <<tree, world, routing, record>>
  PROVE  RoutingInv'
BY DEF RoutingInv, TargetKeysInv, SuiteKeyInv, UninfectedIsOriginal

\* What is recorded of a suite that passed with the mutant, or was discharged.
LEMMA SuiteRecorded ==
  ASSUME RoutingInv, UNCHANGED <<tree, world, routing>>,
         NEW kind, NEW whole \in BOOLEAN,
         kind /= "discharged" =>
            \/ world[Suite].missed /\ (whole \/ ~world[Suite].base)
            \/ world[Suite].level /= Failing /\ (whole \/ ~world[Suite].mut),
         record' = RecordSuite(kind, whole)
  PROVE  RoutingInv'
<1> DEFINE wide == whole \/ \E t \in OwnTargets : WholeTree(t)
<1>1. CASE SuiteMeasured
  <2>1. record' = [outcome |-> "unreached", suite |-> SuiteKey(wide), kind |-> kind]
    BY <1>1 DEF RecordSuite
  <2>2. wide \in BOOLEAN /\ (whole => wide)
    OBVIOUS
  <2> HIDE DEF wide
  <2>3. /\ record'.outcome = "unreached" /\ record'.kind = kind
        /\ record'.suite.whole = wide /\ record'.suite.key[1] = Stamp(tree, Suite, wide)
    BY <2>1, KeysAre
  <2>4. NoLater(tree, Stamp(tree, Suite, wide), Suite, wide)
    BY <2>2, StampIsPast DEF RoutingInv, Subjects
  <2>5. SuiteKeyInv'
    BY <2>2, <2>3, <2>4 DEF SuiteKeyInv
  <2>6. TargetKeysInv'
    BY <2>3 DEF TargetKeysInv
  <2>7. QED
    BY <2>5, <2>6 DEF RoutingInv, UninfectedIsOriginal
<1>2. CASE ~SuiteMeasured
  BY <1>2, RecordKept DEF RecordSuite
<1>3. QED
  BY <1>1, <1>2

\* What is recorded of targets that were executed together.
LEMMA TargetsRecorded ==
  ASSUME RoutingInv, UNCHANGED <<tree, world, routing>>,
         NEW keys,
         record'.keys = keys,
         \A k \in keys : \E g \in SUBSET RoutingTargets : \E t \in g : k = TargetKey(t, Observed(g, t)),
         \/ record'.outcome = "survived" /\ \A k \in keys : world[k.target].level /= Failing
         \/ record'.outcome = "killed" /\ \E k \in keys : world[k.target].level = Failing
  PROVE  RoutingInv'
<1>1. ASSUME NEW k \in keys
      PROVE  /\ k.target \in RoutingTargets /\ k.whole \in BOOLEAN
             /\ NoLater(tree, k.key, k.target, k.whole)
             /\ k.whole \/ ~world[k.target].mut
  <2> PICK g \in SUBSET RoutingTargets : \E t \in g : k = TargetKey(t, Observed(g, t))
    OBVIOUS
  <2>1. PICK t \in g : k = TargetKey(t, Observed(g, t))
    OBVIOUS
  <2>2. t \in Subjects /\ t \in RoutingTargets
    BY DEF Subjects
  <2>3. Observed(g, t) \in BOOLEAN /\ (Observed(g, t) \/ ~world[t].mut)
    <3>1. world[t].base \in BOOLEAN
      BY <2>2, WorldsAreTyped
    <3>2. QED
      BY <3>1, Zenon DEF Observed, WholeTree
  <2>4. k.target = t /\ k.whole = Observed(g, t) /\ k.key = Stamp(tree, t, Observed(g, t))
    BY <2>1, KeysAre
  <2>5. QED
    BY <2>2, <2>3, <2>4, StampIsPast DEF RoutingInv
<1>2. record'.outcome /= "unreached"
  OBVIOUS
<1>3. SuiteKeyInv'
  BY <1>2 DEF SuiteKeyInv
<1>4. TargetKeysInv'
  BY <1>1 DEF TargetKeysInv
<1>5. QED
  BY <1>3, <1>4 DEF RoutingInv, UninfectedIsOriginal

\* The groups are the routed targets, each with those of its environment.
LEMMA GroupsCover ==
  ASSUME RoutingInv, NEW targets \in SUBSET RoutingTargets
  PROVE  /\ UNION TargetGroups(targets) = targets
         /\ \A g \in TargetGroups(targets) : g \subseteq targets /\ g /= {}
<1>1. RoutingTargets \subseteq UNION routing.environments
  BY RoutingAssumption DEF RoutingInv
<1>2. ASSUME NEW t \in targets  PROVE t \in UNION TargetGroups(targets)
  <2>1. PICK e \in routing.environments : t \in e
    BY <1>1
  <2>2. targets \cap e \in TargetGroups(targets) /\ t \in targets \cap e
    BY <2>1, Zenon DEF TargetGroups
  <2>3. QED
    BY <2>2
<1>3. QED
  BY <1>2 DEF TargetGroups

RulingIs(verdict, how) == ruling' = [verdict |-> verdict, how |-> how]

LEMMA VerdictGiven ==
  ASSUME RoutingInv, UNCHANGED <<world, routing>>,
         NEW verdict, NEW how, RulingIs(verdict, how),
         verdict \in {"killed", "survived"} /\ (\A s \in Subjects : ~world[s].missed) /\ how /= "discharged"
           => (verdict = "killed" <=> Unnarrowed)
  PROVE  RoutedIsTrue'
BY DEF RoutedIsTrue, RulingIs, Unnarrowed, Places

LEMMA GroupsExecuted ==
  ASSUME RoutingInv, UNCHANGED <<tree, world, routing>>,
         NEW r, RouteSound(r), r.reaching /= {},
         ExecuteGroups(TargetGroups(r.reaching))
  PROVE  RoutingInv' /\ RoutedIsTrue'
<1> DEFINE groups == TargetGroups(r.reaching)
<1>1. /\ UNION groups = r.reaching
      /\ \A g \in groups : g \subseteq r.reaching /\ g \in SUBSET RoutingTargets
  BY GroupsCover DEF RouteSound
<1>2. CASE \E g \in groups : "killed" \in MayAnswer(g) /\ Concludes("killed", "executed", RecordKill(g))
  <2>1. PICK g \in groups : "killed" \in MayAnswer(g) /\ Concludes("killed", "executed", RecordKill(g))
    BY <1>2
  <2>2. PICK t \in g : world[t].level = Failing
    BY <2>1 DEF MayAnswer
  <2> DEFINE keys == {TargetKey(s, Observed(g, s)) : s \in g}
  <2>3. record' = [outcome |-> "killed", keys |-> keys] /\ RulingIs("killed", "executed")
    BY <2>1 DEF Concludes, RecordKill, RulingIs
  <2>4. \A k \in keys : \E h \in SUBSET RoutingTargets : \E s \in h : k = TargetKey(s, Observed(h, s))
    BY <1>1
  <2>5. \E k \in keys : world[k.target].level = Failing
    <3>1. TargetKey(t, Observed(g, t)) \in keys /\ TargetKey(t, Observed(g, t)).target = t
      BY KeysAre
    <3>2. QED
      BY <2>2, <3>1
  <2>6. RoutingInv'
    <3> HIDE DEF keys
    <3>1. QED
      BY <2>3, <2>4, <2>5, TargetsRecorded
  <2>7. t \in r.reaching
    BY <1>1
  <2>8. RoutedIsTrue'
    BY <2>2, <2>3, <2>7, RoutedVerdict, VerdictGiven
  <2>9. QED
    BY <2>6, <2>8
<1>3. CASE \E how \in {"executed"}, verdict \in {"error", "inconclusive"} : Concludes(verdict, how, record)
  <2>1. record' = record /\ ruling'.verdict \notin {"killed", "survived"}
    BY <1>3 DEF Concludes
  <2>2. QED
    BY <2>1, RecordKept DEF RoutedIsTrue
<1>4. CASE /\ \A g \in groups : "survived" \in MayAnswer(g)
           /\ Concludes("survived", "executed", RecordExhausted(groups))
  <2>1. \A t \in r.reaching : world[t].level /= Failing
    BY <1>1, <1>4 DEF MayAnswer
  <2> DEFINE keys == RecordExhausted(groups).keys
  <2>2. RoutingInv'
    <3>1. CASE UNION groups \cap routing.inexact = {}
      <4>1. record' = [outcome |-> "survived", keys |-> keys]
        BY <1>4, <3>1 DEF Concludes, RecordExhausted
      <4>2. \A k \in keys : \E g \in groups : \E t \in g : k = TargetKey(t, Observed(g, t))
        BY <3>1 DEF RecordExhausted
      <4> HIDE DEF keys, groups
      <4>3. \A k \in keys : world[k.target].level /= Failing
        BY <1>1, <2>1, <4>2, KeysAre
      <4>4. \A k \in keys : \E g \in SUBSET RoutingTargets : \E t \in g : k = TargetKey(t, Observed(g, t))
        BY <1>1, <4>2
      <4>5. QED
        BY <4>1, <4>3, <4>4, TargetsRecorded
    <3>2. CASE UNION groups \cap routing.inexact /= {}
      BY <1>4, <3>2, RecordKept DEF Concludes, RecordExhausted
    <3>3. QED
      BY <3>1, <3>2
  <2>3. RulingIs("survived", "executed")
    BY <1>4 DEF Concludes, RulingIs
  <2>4. RoutedIsTrue'
    BY <2>1, <2>3, RoutedVerdict, VerdictGiven
  <2>5. QED
    BY <2>2, <2>4
<1>5. QED
  BY <1>2, <1>3, <1>4 DEF ExecuteGroups

LEMMA SuiteExecuted ==
  ASSUME RoutingInv, UNCHANGED <<tree, world, routing>>,
         NEW r, RouteSound(r), Unrouted(r), ExecuteSuite
  PROVE  RoutingInv' /\ RoutedIsTrue'
<1>1. Suite \in Subjects /\ world[Suite].mut \in BOOLEAN
  BY WorldsAreTyped DEF Subjects
<1>2. CASE world[Suite].level = Failing /\ Concludes("killed", "suite", record)
  <2>1. RulingIs("killed", "suite") /\ record' = record
    BY <1>2 DEF Concludes, RulingIs
  <2>2. QED
    BY <1>2, <2>1, RecordKept, RoutedVerdict, VerdictGiven
<1>3. CASE /\ world[Suite].level /= Failing
           /\ Concludes("survived", "suite", RecordSuite("executed", world[Suite].mut))
  <2>1. RulingIs("survived", "suite") /\ record' = RecordSuite("executed", world[Suite].mut)
    BY <1>3 DEF Concludes, RulingIs
  <2>2. RoutingInv'
    BY <1>1, <1>3, <2>1, SuiteRecorded
  <2>3. RoutedIsTrue'
    BY <1>3, <2>1, RoutedVerdict, VerdictGiven
  <2>4. QED
    BY <2>2, <2>3
<1>4. CASE \E verdict \in {"error", "inconclusive"} : Concludes(verdict, "suite", record)
  <2>1. record' = record /\ ruling'.verdict \notin {"killed", "survived"}
    BY <1>4 DEF Concludes
  <2>2. QED
    BY <2>1, RecordKept DEF RoutedIsTrue
<1>5. QED
  BY <1>2, <1>3, <1>4 DEF ExecuteSuite, MayAnswer

\* What a record answers for, a run of this tree would have found.
LEMMA KillReused ==
  ASSUME RoutingInv, NEW r, RouteSound(r), ReuseKill(r)
  PROVE  \E t \in r.reaching : world[t].level = Failing
<1>1. PICK g \in TargetGroups(r.reaching) : \A k \in record.keys : k.target \in g /\ TargetMatches(k)
  BY DEF ReuseKill
<1>2. g \subseteq r.reaching
  BY GroupsCover DEF RouteSound
<1>3. \A k \in record.keys : k.key = Stamp(tree, k.target, k.whole)
  BY <1>1, KeysAre DEF TargetMatches
<1>4. PICK k \in record.keys : world[k.target].level = Failing
  BY <1>3 DEF RoutingInv, TargetKeysInv, ReuseKill
<1>5. QED
  BY <1>1, <1>2, <1>4

LEMMA SurvivalReused ==
  ASSUME RoutingInv, NEW r, RouteSound(r), Exhausts(r)
  PROVE  \A t \in r.reaching : world[t].level /= Failing
<1> TAKE t \in r.reaching
<1>1. PICK k \in record.keys : k.target = t /\ TargetMatches(k)
  BY DEF Exhausts
<1>2. k.key = Stamp(tree, k.target, k.whole)
  BY <1>1, KeysAre DEF TargetMatches
<1>3. QED
  BY <1>1, <1>2 DEF RoutingInv, TargetKeysInv, Exhausts

LEMMA SuiteReused ==
  ASSUME RoutingInv, NEW r, SuiteAnswers(r), record.kind /= "discharged", ~world[Suite].missed
  PROVE  world[Suite].level /= Failing
<1>1. record.suite.key[1] = Stamp(tree, Suite, record.suite.whole)
  BY KeysAre DEF SuiteAnswers, SuiteMatches
<1>2. QED
  BY <1>1 DEF RoutingInv, SuiteKeyInv, SuiteAnswers

LEMMA EvaluateKeeps ==
  ASSUME RoutingInv, Evaluate
  PROVE  RoutingInv' /\ RoutedIsTrue'
<1> DEFINE r == Route
<1>1. RouteSound(r) /\ SuiteSound(r)
  BY RouteIsSound
<1>2. UNCHANGED <<tree, world, routing>> /\ EvaluateMutationSeed
  BY DEF Evaluate
<1>3. Suite \in Subjects
  BY DEF Subjects
<1>4. \/ ReuseKill(r) /\ Concludes("killed", "reused", record)
      \/ SuiteSettles(r) /\ Concludes("survived", "suite", RecordSuite("measured", r.suiteWhole))
      \/ Exhausts(r) /\ Concludes("survived", "reused", record)
      \/ SuiteAnswers(r) /\ Concludes("survived", record.kind, record)
      \/ r.reaching /= {} /\ ExecuteGroups(TargetGroups(r.reaching))
      \/ Unrouted(r) /\ ExecuteSuite
      \/ /\ r.reaching = {} /\ r.discharged /= {}
         /\ Concludes("survived", "proved", RecordSuite("discharged", r.suiteWhole))
  BY <1>2, Zenon DEF EvaluateMutationSeed, SuiteSettles, ReuseVerdict, Exhausts, SuiteAnswers, Unrouted
<1> HIDE DEF r
<1>5. CASE ReuseKill(r) /\ Concludes("killed", "reused", record)
  <2>1. RulingIs("killed", "reused") /\ record' = record
    BY <1>5 DEF Concludes, RulingIs
  <2>2. QED
    BY <1>1, <1>2, <1>5, <2>1, KillReused, RecordKept, RoutedVerdict, VerdictGiven
<1>6. CASE SuiteSettles(r) /\ Concludes("survived", "suite", RecordSuite("measured", r.suiteWhole))
  <2>1. RulingIs("survived", "suite") /\ record' = RecordSuite("measured", r.suiteWhole)
    BY <1>6 DEF Concludes, RulingIs
  <2>2. /\ r.suiteWhole = world[Suite].base /\ r.suiteWhole \in BOOLEAN
        /\ world[Suite].missed \/ world[Suite].level < Infected
    BY <1>1, <1>3, <1>6, WorldsAreTyped DEF SuiteSound
  <2>3. \/ world[Suite].missed
        \/ world[Suite].level /= Failing /\ world[Suite].mut = world[Suite].base
    BY <1>3, <2>2, WorldsAreTyped DEF Infected, Failing
  <2>4. RoutingInv'
    BY <1>2, <1>3, <2>1, <2>2, <2>3, SuiteRecorded, WorldsAreTyped
  <2>5. Unrouted(r)
    BY <1>6 DEF SuiteSettles
  <2>6. RoutedIsTrue'
    BY <1>1, <1>2, <1>3, <2>1, <2>3, <2>5, RoutedVerdict, VerdictGiven
  <2>7. QED
    BY <2>4, <2>6
<1>7. CASE Exhausts(r) /\ Concludes("survived", "reused", record)
  <2>1. RulingIs("survived", "reused") /\ record' = record /\ r.reaching /= {}
    BY <1>7 DEF Concludes, RulingIs, Exhausts
  <2>2. QED
    BY <1>1, <1>2, <1>7, <2>1, SurvivalReused, RecordKept, RoutedVerdict, VerdictGiven
<1>8. CASE SuiteAnswers(r) /\ Concludes("survived", record.kind, record)
  <2>1. RulingIs("survived", record.kind) /\ record' = record /\ r.reaching = {}
    BY <1>8 DEF Concludes, RulingIs, SuiteAnswers
  <2>2. CASE r.discharged = {}
    BY <1>1, <1>2, <1>3, <1>8, <2>1, <2>2, SuiteReused, RecordKept, RoutedVerdict, VerdictGiven DEF Unrouted
  <2>3. CASE r.discharged /= {}
    BY <1>1, <1>2, <2>1, <2>3, RecordKept, RoutedVerdict, VerdictGiven
  <2>4. QED
    BY <2>2, <2>3
<1>9. CASE r.reaching /= {} /\ ExecuteGroups(TargetGroups(r.reaching))
  BY <1>1, <1>2, <1>9, GroupsExecuted
<1>10. CASE Unrouted(r) /\ ExecuteSuite
  BY <1>1, <1>2, <1>10, SuiteExecuted
<1>11. CASE /\ r.reaching = {} /\ r.discharged /= {}
            /\ Concludes("survived", "proved", RecordSuite("discharged", r.suiteWhole))
  <2>1. RulingIs("survived", "proved") /\ record' = RecordSuite("discharged", r.suiteWhole)
    BY <1>11 DEF Concludes, RulingIs
  <2>2. r.suiteWhole \in BOOLEAN
    BY <1>3, WorldsAreTyped DEF r, Route, ApplyProbes, ApplySuiteCoverage, RouteMutant, WholeTree
  <2>3. RoutingInv'
    BY <1>2, <2>1, <2>2, SuiteRecorded
  <2>4. RoutedIsTrue'
    BY <1>1, <1>2, <1>11, <2>1, RoutedVerdict, VerdictGiven
  <2>5. QED
    BY <2>3, <2>4
<1>12. QED
  BY <1>4, <1>5, <1>6, <1>7, <1>8, <1>9, <1>10, <1>11

LEMMA RoutingStep ==
  ASSUME RoutingInv, RoutedIsTrue, [RoutingNext]_routingVars
  PROVE  RoutingInv' /\ RoutedIsTrue'
<1>1. CASE Evaluate
  BY <1>1, EvaluateKeeps
<1>2. CASE Edit
  <2>1. ruling' = NoRuling
    BY <1>2 DEF Edit
  <2>2. QED
    BY <1>2, <2>1, EditKeeps DEF RoutedIsTrue, NoRuling
<1>3. CASE UNCHANGED routingVars
  BY <1>3, RecordKept DEF routingVars, RoutedIsTrue, Unnarrowed, Places
<1>4. QED
  BY <1>1, <1>2, <1>3 DEF RoutingNext

LEMMA RoutingStarts ==
  ASSUME NEW w \in Worlds, RoutingStart(w)
  PROVE  RoutingInv /\ RoutedIsTrue
<1>1. record.outcome = "none" /\ ruling.verdict = "none"
  BY DEF RoutingStart, NoRecord, NoRuling
<1>2. tree \in [TreeFiles -> Nat] /\ world \in WorldsType
  BY RoutingAssumption DEF RoutingStart, WorldsType
<1>3. QED
  BY <1>1, <1>2 DEF RoutingStart, RoutingInv, TargetKeysInv, SuiteKeyInv, RoutedIsTrue

-----------------------------------------------------------------------------
(* Both *)

\* The invariant of the two histories: what the records and the graph hold is what
\* was measured, and the last ruling and the last selection were earned by it.
SkippingInv == RoutingInv /\ RoutedIsTrue /\ GraphInv /\ AffectedAreSelected

LEMMA SkippingStep ==
  ASSUME SkippingInv, [SkippingNext]_<<routingVars, impactVars>>
  PROVE  SkippingInv'
<1>1. [RoutingNext]_routingVars /\ [ImpactNext]_impactVars
  BY DEF SkippingNext
<1>2. RoutingInv' /\ RoutedIsTrue'
  BY <1>1, RoutingStep DEF SkippingInv
<1>3. GraphInv' /\ AffectedAreSelected'
  BY <1>1, ImpactStep DEF SkippingInv
<1>4. QED
  BY <1>2, <1>3 DEF SkippingInv

\* What a run of goatest leaves out would have changed nothing: the verdict of a
\* mutant that was narrowed, discharged or remembered (evaluateMutationSeed) is the
\* one that executing every target on this tree gives, and a narrowed run takes
\* every target that the changed files may affect (selectImpact), whatever was
\* edited, committed, measured and merged before.
THEOREM SkippingIsSound == SkippingSpec => []SkippedIsEarned
<1>1. SkippingInit => SkippingInv
  BY RoutingStarts, GraphStart DEF SkippingInit, SkippingInv
<1>2. SkippingInv /\ [SkippingNext]_<<routingVars, impactVars>> => SkippingInv'
  BY SkippingStep
<1>3. SkippingInv => SkippedIsEarned
  BY DEF SkippingInv, SkippedIsEarned
<1>4. QED
  BY <1>1, <1>2, <1>3, PTL DEF SkippingSpec

(* Retention: what goatest keeps of its runs, whoever collects and whoever   *)
(* dies.                                                                    *)

Resting == {"start", "done"}
WithoutLease == {"work", "publish", "staged", "index_any", "index_full", "leave", "done"}
Unpublished == {"start", "work", "evict", "publish", "staged"}
OverShelf == {"full", "list", "remove", "unlink"}

\* Who is at work holds the lease, except those who went on without it, and they
\* neither delete nor collect.
LeaseInv ==
  /\ \A p \in Invocations \ leaseless : stand[p] \notin Resting => lease = p
  /\ \A p \in Invocations : lease = p => stand[p] \notin Resting /\ p \notin leaseless
  /\ \A p \in leaseless : stand[p] \in WithoutLease

\* The report an index names, unless it is of a run that is not protected.
Named(slot) == {index[slot]} \cap (Reports \ (leaseless \cup missed))

\* What is staged or about to be indexed is whole.
StagedInv ==
  \A p \in Verifies \ leaseless :
    /\ stand[p] = "staged" => shelf[p] = [at |-> "staging", whole |-> TRUE]
    /\ stand[p] \in {"index_any", "index_full"} => shelf[p] = Published

\* No index names a report that is still to come.
UnnamedInv == \A p \in Verifies, slot \in Slots : stand[p] \in Unpublished => index[slot] /= p

\* What an index names is whole on the shelf.
NamedInv == \A slot \in Slots : \A r \in Named(slot) : shelf[r] = Published

\* A collection that is past an index guards what it names, and condemns nothing
\* it guards.
GuardInv ==
  \A p \in Invocations :
    /\ stand[p] \in OverShelf => Named("any") \subseteq guarded[p]
    /\ stand[p] \in OverShelf \ {"full"} => Named("full") \subseteq guarded[p]
    /\ stand[p] \notin {"remove", "unlink"} => doomed[p] = {}
    /\ \A d \in doomed[p] : d[1] \notin guarded[p]

ShelfInv == StagedInv /\ UnnamedInv /\ NamedInv /\ GuardInv

\* Who deletes a checkpoint has answered it.
WorkInv ==
  /\ WorkIsKept
  /\ \A p \in Verifies :
       /\ stand[p] \in {"start", "work"} => outcome[p] = "none"
       /\ outcome[p] = "ok" => p \notin leaseless
       /\ stand[p] = "delete" => outcome[p] = "ok"
       /\ stand[p] \in {"index_any", "index_full", "delete"} /\ outcome[p] = "ok" =>
            input[p] \in answered \cup tainted \cup {"none"}

\* Who sweeps the candidates has seen that no checkpoint is left.
CandidateInv ==
  /\ CandidatesAreThere /\ waiting \subseteq checkpoints
  /\ \A p \in Invocations : stand[p] = "sweep" => checkpoints \subseteq tainted

Shelved == [at : {"none", "staging", "published"}, whole : BOOLEAN]
Condemnable == Reports \X {"none", "staging", "published"}

RetentionInv == RetentionTypeOK /\ LeaseInv /\ ShelfInv /\ WorkInv /\ CandidateInv

LEMMA RetentionStarts == RetentionInit => RetentionInv
  <1> SUFFICES ASSUME RetentionInit PROVE RetentionInv  OBVIOUS
  <1> USE RetentionAssumption
  <1> PICK named \in [Slots -> Past \cup {"none", "unreadable"}],
           ages \in [Past -> 1..Cardinality(Past)], held \in SUBSET Inputs,
           starters \in SUBSET Invocations, inputs \in [Verifies -> Inputs \cup {"none"}] :
             RetentionStart(named, ages, held, starters, inputs)
    BY DEF RetentionInit
  <1> USE DEF RetentionStart
  <1>1. RetentionTypeOK
    <2>1. turn \in [Reports -> Nat]
      <3> SUFFICES ASSUME NEW r \in Reports PROVE (IF r \in Past THEN ages[r] ELSE 0) \in Nat  OBVIOUS
      <3>1. IsFiniteSet(Past)  BY FS_Subset DEF Reports
      <3>2. Cardinality(Past) \in Nat  BY <3>1, FS_CardinalityType
      <3> QED BY <3>2
    <2> QED BY <2>1 DEF RetentionTypeOK, Published, Gone, Reports, Slots
  <1>2. LeaseInv  BY DEF LeaseInv, Resting
  <1>3. ShelfInv
    <2>1. \A slot \in Slots : index[slot] \in Past \cup {"none", "unreadable"}  OBVIOUS
    <2>2. \A p \in Invocations : stand[p] \in Resting /\ guarded[p] = {} /\ doomed[p] = {}
      BY DEF Resting
    <2>3. \A r \in Past : shelf[r] = Published  BY DEF Reports
    <2> HIDE DEF RetentionStart
    <2>4. StagedInv  BY <2>2 DEF StagedInv, Resting, Invocations
    <2>5. UnnamedInv
      <3> SUFFICES ASSUME NEW p \in Verifies, NEW slot \in Slots PROVE index[slot] /= p  BY DEF UnnamedInv
      <3>1. p \in Invocations /\ p \in Reports  BY DEF Invocations, Reports
      <3> QED BY <2>1, <3>1
    <2>6. NamedInv  BY <2>1, <2>3 DEF NamedInv, Named
    <2>7. GuardInv  BY <2>2 DEF GuardInv, Resting, OverShelf
    <2> QED BY <2>4, <2>5, <2>6, <2>7 DEF ShelfInv
  <1>4. WorkInv
    <2>1. WorkIsKept  BY DEF WorkIsKept
    <2>2. \A p \in Verifies : outcome[p] = "none" /\ stand[p] \in Resting  BY DEF Resting, Invocations
    <2> HIDE DEF RetentionStart
    <2> QED BY <2>1, <2>2 DEF WorkInv, Resting
  <1>5. CandidateInv  BY DEF CandidateInv, CandidatesAreThere
  <1> QED BY <1>1, <1>2, <1>3, <1>4, <1>5 DEF RetentionInv

LEMMA RetentionTypesStep == RetentionTypeOK /\ [RetentionNext]_retentionVars => RetentionTypeOK'
  <1> SUFFICES ASSUME RetentionTypeOK, [RetentionNext]_retentionVars PROVE RetentionTypeOK'  OBVIOUS
  <1> USE RetentionAssumption DEF RetentionTypeOK, Invocations, Reports, Slots
  <1>1. ASSUME NEW p \in Invocations, Locks(p) PROVE RetentionTypeOK'
    BY <1>1 DEF Locks, GoesOn, Leased, reportVars, repairVars, passVars, pastVars
  <1>2. ASSUME NEW p \in Invocations, LocksNot(p) PROVE RetentionTypeOK'
    BY <1>2 DEF LocksNot, GoesOn, Leased, reportVars, repairVars, passVars, pastVars
  <1>3. ASSUME NEW p \in Invocations, WorksWithout(p) PROVE RetentionTypeOK'
    BY <1>3 DEF WorksWithout, GoesOn, Leased, reportVars, repairVars, passVars, pastVars
  <1>4. ASSUME NEW p \in Invocations, Unlocks(p) PROVE RetentionTypeOK'
    BY <1>4 DEF Unlocks, GoesOn, Leased, reportVars, repairVars, passVars, pastVars
  <1>5. ASSUME NEW p \in Invocations, DiesHolding(p) PROVE RetentionTypeOK'
    BY <1>5 DEF DiesHolding, GoesOn, Leased, reportVars, repairVars, passVars, pastVars
  <1>6. ASSUME NEW p \in Invocations, Evicts(p) PROVE RetentionTypeOK'
    BY <1>6 DEF Evicts, GiveUp, GoesOn, Leased, reportVars, repairVars, passVars, pastVars
  <1>7. ASSUME NEW p \in Invocations, ReadsAny(p) PROVE RetentionTypeOK'
    BY <1>7 DEF ReadsAny, Reads, GoesOn, Leased, reportVars, repairVars, passVars, pastVars
  <1>8. ASSUME NEW p \in Invocations, ReadsFull(p) PROVE RetentionTypeOK'
    BY <1>8 DEF ReadsFull, Reads, GoesOn, Leased, reportVars, repairVars, passVars, pastVars
  <1>9. ASSUME NEW p \in Invocations, Lists(p) PROVE RetentionTypeOK'
    <2> HIDE DEF Reports, RetentionTypeOK
    <2>1. {<<r, shelf[r].at>> : r \in Surplus \ guarded[p]} \subseteq Condemnable
      <3> SUFFICES ASSUME NEW r \in Reports PROVE <<r, shelf[r].at>> \in Condemnable
        BY DEF Surplus, OnShelf
      <3> QED BY DEF RetentionTypeOK, Condemnable
    <2>2. doomed' \in [Invocations -> SUBSET Condemnable]
      BY <1>9, <2>1 DEF Lists, RetentionTypeOK, Condemnable
    <2> QED BY <1>9, <2>2 DEF Condemnable, RetentionTypeOK, Lists, GoesOn, Leased, reportVars, repairVars, passVars, pastVars
  <1>10. ASSUME NEW p \in Invocations, Breaks(p) PROVE RetentionTypeOK'
    <2> HIDE DEF Reports, RetentionTypeOK
    <2>1. PICK d \in doomed[p] : shelf' = [shelf EXCEPT ![d[1]].whole = FALSE]  BY <1>10 DEF Breaks
    <2> DEFINE r == d[1]
    <2>2. shelf \in [Reports -> Shelved]  BY DEF RetentionTypeOK, Shelved
    <2>3. shelf' \in [Reports -> Shelved]
      <3>1. \A s \in Shelved : [s EXCEPT !.whole = FALSE] \in Shelved  BY DEF Shelved
      <3>2. shelf' = [shelf EXCEPT ![r] = [shelf[r] EXCEPT !.whole = FALSE]]  BY <2>1
      <3> HIDE DEF Shelved, r
      <3> QED BY <2>2, <3>1, <3>2
    <2> QED BY <1>10, <2>3 DEF Breaks, Shelved, RetentionTypeOK, GoesOn, Leased, reportVars, repairVars, passVars, pastVars
  <1>11. ASSUME NEW p \in Invocations, Removes(p) PROVE RetentionTypeOK'
    <2> HIDE DEF Reports, RetentionTypeOK
    <2>1. PICK d \in doomed[p] :
            shelf' = [shelf EXCEPT ![d[1]] = Gone] /\ doomed' = [doomed EXCEPT ![p] = @ \ {d}]
      BY <1>11 DEF Removes
    <2>2. shelf' \in [Reports -> Shelved]  BY <2>1 DEF Gone, Shelved, RetentionTypeOK
    <2>3. doomed' \in [Invocations -> SUBSET Condemnable]  BY <2>1 DEF RetentionTypeOK, Condemnable
    <2> QED BY <1>11, <2>2, <2>3 DEF Removes, Shelved, Condemnable, RetentionTypeOK, GoesOn, Leased, reportVars, repairVars, passVars, pastVars
  <1>12. ASSUME NEW p \in Invocations, Collected(p) PROVE RetentionTypeOK'
    BY <1>12 DEF Collected, GoesOn, Leased, reportVars, repairVars, passVars, pastVars
  <1>13. ASSUME NEW p \in Invocations, AsksPending(p) PROVE RetentionTypeOK'
    BY <1>13 DEF AsksPending, GoesOn, Leased, reportVars, repairVars, passVars, pastVars
  <1>14. ASSUME NEW p \in Invocations, CollectsCandidate(p) PROVE RetentionTypeOK'
    BY <1>14, SMTT(30) DEF CollectsCandidate, GoesOn, Leased, reportVars, repairVars, passVars, pastVars
  <1>15. ASSUME NEW p \in Verifies, Checkpoints(p) PROVE RetentionTypeOK'
    BY <1>15 DEF Checkpoints, GoesOn, Leased, reportVars, repairVars, passVars, pastVars
  <1>16. ASSUME NEW p \in Verifies, StoresCandidate(p) PROVE RetentionTypeOK'
    BY <1>16 DEF StoresCandidate, GoesOn, Leased, reportVars, repairVars, passVars, pastVars
  <1>17. ASSUME NEW p \in Verifies, Forgoes(p) PROVE RetentionTypeOK'
    BY <1>17 DEF Forgoes, GiveUp, GoesOn, Leased, reportVars, repairVars, passVars, pastVars
  <1>18. ASSUME NEW p \in Verifies, Finishes(p) PROVE RetentionTypeOK'
    BY <1>18 DEF Finishes, GoesOn, Leased, reportVars, repairVars, passVars, pastVars
  <1>19. ASSUME NEW p \in Verifies, Unwritten(p) PROVE RetentionTypeOK'
    <2>1. shelf' \in [Reports -> Shelved]
      <3>1. shelf' = shelf \/ shelf' = [shelf EXCEPT ![p] = Gone]  BY <1>19 DEF Unwritten
      <3>2. shelf \in [Reports -> Shelved] /\ Gone \in Shelved  BY DEF Shelved, Gone
      <3> HIDE DEF Reports, RetentionTypeOK, Shelved
      <3> QED BY <3>1, <3>2
    <2>2. stand' = [stand EXCEPT ![p] = "leave"]  BY <1>19 DEF Unwritten, GoesOn
    <2> HIDE DEF Reports
    <2> QED BY <1>19, <2>1, <2>2 DEF Unwritten, Shelved, GoesOn, Leased, reportVars, repairVars, passVars, pastVars
  <1>20. ASSUME NEW p \in Verifies, Stages(p) PROVE RetentionTypeOK'
    <2>1. Cardinality({r \in Reports : turn[r] > 0}) \in Nat
      BY FS_Subset, FS_CardinalityType
    <2>2. 1 + Cardinality({r \in Reports : turn[r] > 0}) \in Nat  BY <2>1
    <2> HIDE DEF Reports
    <2> QED BY <1>20, <2>2 DEF Stages, GoesOn, Leased, reportVars, repairVars, passVars, pastVars
  <1>21. ASSUME NEW p \in Verifies, Publishes(p) PROVE RetentionTypeOK'
    BY <1>21, SMTT(30) DEF Publishes, AfterIndexes, GoesOn, Leased, reportVars, repairVars, passVars, pastVars
  <1>22. ASSUME NEW p \in Verifies, IndexesAny(p) PROVE RetentionTypeOK'
    BY <1>22 DEF IndexesAny, Indexed, AfterIndexes, GoesOn, Leased, reportVars, repairVars, passVars, pastVars
  <1>23. ASSUME NEW p \in Verifies, IndexesFull(p) PROVE RetentionTypeOK'
    BY <1>23 DEF IndexesFull, Indexed, AfterIndexes, GoesOn, Leased, reportVars, repairVars, passVars, pastVars
  <1>24. ASSUME NEW p \in Verifies, Unindexed(p) PROVE RetentionTypeOK'
    BY <1>24 DEF Unindexed, GoesOn, Leased, reportVars, repairVars, passVars, pastVars
  <1>25. ASSUME NEW p \in Verifies, DeletesCheckpoint(p) PROVE RetentionTypeOK'
    BY <1>25 DEF DeletesCheckpoint, GoesOn, Leased, reportVars, repairVars, passVars, pastVars
  <1>26. CASE UNCHANGED retentionVars
    BY <1>26 DEF retentionVars, reportVars, repairVars, passVars, pastVars
  <1> QED
    BY <1>1, <1>2, <1>3, <1>4, <1>5, <1>6, <1>7, <1>8, <1>9, <1>10, <1>11, <1>12, <1>13,
       <1>14, <1>15, <1>16, <1>17, <1>18, <1>19, <1>20, <1>21, <1>22, <1>23, <1>24, <1>25, <1>26 DEF RetentionNext

LEMMA LeaseStep == RetentionTypeOK /\ LeaseInv /\ WorkInv /\ [RetentionNext]_retentionVars => LeaseInv'
  <1> SUFFICES ASSUME RetentionTypeOK /\ LeaseInv /\ WorkInv, [RetentionNext]_retentionVars PROVE LeaseInv'  OBVIOUS
  <1> USE RetentionAssumption DEF RetentionTypeOK, LeaseInv, WorkInv, Resting, WithoutLease, Invocations
  <1>1. ASSUME NEW p \in Invocations, Locks(p) PROVE LeaseInv'
    BY <1>1 DEF Locks, GoesOn, Leased, reportVars, repairVars, passVars, pastVars
  <1>2. ASSUME NEW p \in Invocations, LocksNot(p) PROVE LeaseInv'
    BY <1>2 DEF LocksNot, GoesOn, Leased, reportVars, repairVars, passVars, pastVars
  <1>3. ASSUME NEW p \in Invocations, WorksWithout(p) PROVE LeaseInv'
    BY <1>3 DEF WorksWithout, GoesOn, Leased, reportVars, repairVars, passVars, pastVars
  <1>4. ASSUME NEW p \in Invocations, Unlocks(p) PROVE LeaseInv'
    BY <1>4 DEF Unlocks, GoesOn, Leased, reportVars, repairVars, passVars, pastVars
  <1>5. ASSUME NEW p \in Invocations, DiesHolding(p) PROVE LeaseInv'
    BY <1>5 DEF DiesHolding, GoesOn, Leased, reportVars, repairVars, passVars, pastVars
  <1>6. ASSUME NEW p \in Invocations, Evicts(p) PROVE LeaseInv'
    BY <1>6 DEF Evicts, GiveUp, GoesOn, Leased, reportVars, repairVars, passVars, pastVars
  <1>7. ASSUME NEW p \in Invocations, ReadsAny(p) PROVE LeaseInv'
    BY <1>7 DEF ReadsAny, Reads, GoesOn, Leased, reportVars, repairVars, passVars, pastVars
  <1>8. ASSUME NEW p \in Invocations, ReadsFull(p) PROVE LeaseInv'
    BY <1>8 DEF ReadsFull, Reads, GoesOn, Leased, reportVars, repairVars, passVars, pastVars
  <1>9. ASSUME NEW p \in Invocations, Lists(p) PROVE LeaseInv'
    BY <1>9 DEF Lists, GoesOn, Leased, reportVars, repairVars, passVars, pastVars
  <1>10. ASSUME NEW p \in Invocations, Breaks(p) PROVE LeaseInv'
    BY <1>10 DEF Breaks, IsNext, GoesOn, Leased, reportVars, repairVars, passVars, pastVars
  <1>11. ASSUME NEW p \in Invocations, Removes(p) PROVE LeaseInv'
    BY <1>11 DEF Removes, IsNext, GoesOn, Leased, reportVars, repairVars, passVars, pastVars
  <1>12. ASSUME NEW p \in Invocations, Collected(p) PROVE LeaseInv'
    BY <1>12 DEF Collected, GoesOn, Leased, reportVars, repairVars, passVars, pastVars
  <1>13. ASSUME NEW p \in Invocations, AsksPending(p) PROVE LeaseInv'
    BY <1>13 DEF AsksPending, GoesOn, Leased, reportVars, repairVars, passVars, pastVars
  <1>14. ASSUME NEW p \in Invocations, CollectsCandidate(p) PROVE LeaseInv'
    BY <1>14 DEF CollectsCandidate, GoesOn, Leased, reportVars, repairVars, passVars, pastVars
  <1>15. ASSUME NEW p \in Verifies, Checkpoints(p) PROVE LeaseInv'
    BY <1>15 DEF Checkpoints, GoesOn, Leased, reportVars, repairVars, passVars, pastVars
  <1>16. ASSUME NEW p \in Verifies, StoresCandidate(p) PROVE LeaseInv'
    BY <1>16 DEF StoresCandidate, GoesOn, Leased, reportVars, repairVars, passVars, pastVars
  <1>17. ASSUME NEW p \in Verifies, Forgoes(p) PROVE LeaseInv'
    BY <1>17 DEF Forgoes, GiveUp, GoesOn, Leased, reportVars, repairVars, passVars, pastVars
  <1>18. ASSUME NEW p \in Verifies, Finishes(p) PROVE LeaseInv'
    BY <1>18 DEF Finishes, GoesOn, Leased, reportVars, repairVars, passVars, pastVars
  <1>19. ASSUME NEW p \in Verifies, Unwritten(p) PROVE LeaseInv'
    BY <1>19 DEF Unwritten, GoesOn, Leased, reportVars, repairVars, passVars, pastVars
  <1>20. ASSUME NEW p \in Verifies, Stages(p) PROVE LeaseInv'
    BY <1>20 DEF Stages, GoesOn, Leased, reportVars, repairVars, passVars, pastVars
  <1>21. ASSUME NEW p \in Verifies, Publishes(p) PROVE LeaseInv'
    BY <1>21 DEF Publishes, AfterIndexes, GoesOn, Leased, reportVars, repairVars, passVars, pastVars
  <1>22. ASSUME NEW p \in Verifies, IndexesAny(p) PROVE LeaseInv'
    BY <1>22 DEF IndexesAny, Indexed, AfterIndexes, GoesOn, Leased, reportVars, repairVars, passVars, pastVars
  <1>23. ASSUME NEW p \in Verifies, IndexesFull(p) PROVE LeaseInv'
    BY <1>23 DEF IndexesFull, Indexed, AfterIndexes, GoesOn, Leased, reportVars, repairVars, passVars, pastVars
  <1>24. ASSUME NEW p \in Verifies, Unindexed(p) PROVE LeaseInv'
    BY <1>24 DEF Unindexed, GoesOn, Leased, reportVars, repairVars, passVars, pastVars
  <1>25. ASSUME NEW p \in Verifies, DeletesCheckpoint(p) PROVE LeaseInv'
    BY <1>25 DEF DeletesCheckpoint, GoesOn, Leased, reportVars, repairVars, passVars, pastVars
  <1>26. CASE UNCHANGED retentionVars
    BY <1>26 DEF retentionVars, reportVars, repairVars, passVars, pastVars
  <1> QED
    BY <1>1, <1>2, <1>3, <1>4, <1>5, <1>6, <1>7, <1>8, <1>9, <1>10, <1>11, <1>12, <1>13,
       <1>14, <1>15, <1>16, <1>17, <1>18, <1>19, <1>20, <1>21, <1>22, <1>23, <1>24, <1>25, <1>26 DEF RetentionNext

Publishing == {"publish", "staged", "index_any", "index_full"}

\* A run that publishes changes what an index names to itself at most: if it has
\* the lease nobody collects, and if it has none its report is not guarded.
LEMMA GuardsKept ==
  ASSUME RetentionTypeOK, LeaseInv, GuardInv, NEW p \in Verifies,
         stand[p] \in Publishing, stand'[p] \notin OverShelf,
         \A q \in Invocations : q /= p => stand'[q] = stand[q],
         UNCHANGED <<guarded, doomed, leaseless, missed>>,
         \A slot \in Slots : index'[slot] \in {index[slot], p}
  PROVE  GuardInv'
  <1>1. p \in Invocations  BY DEF Invocations
  <1>2. \A q \in Invocations : stand'[q] \in OverShelf => stand[q] \in OverShelf /\ p \in leaseless
    <2> SUFFICES ASSUME NEW q \in Invocations, stand'[q] \in OverShelf, p \notin leaseless PROVE FALSE
      OBVIOUS
    <2>1. q /= p /\ stand[q] \in OverShelf  OBVIOUS
    <2>2. q \notin leaseless  BY <2>1 DEF LeaseInv, WithoutLease, OverShelf
    <2>3. lease = q  BY <2>1, <2>2 DEF LeaseInv, Resting, OverShelf
    <2>4. lease = p  BY <1>1 DEF LeaseInv, Resting, Publishing
    <2> QED BY <2>1, <2>3, <2>4
  <1>3. p \in leaseless => \A slot \in Slots : Named(slot)' \subseteq Named(slot)
    BY DEF Named
  <1>4. doomed[p] = {}  BY <1>1 DEF GuardInv, Publishing
  <1> SUFFICES ASSUME NEW q \in Invocations
               PROVE /\ stand'[q] \in OverShelf => Named("any")' \subseteq guarded[q]
                     /\ stand'[q] \in OverShelf \ {"full"} => Named("full")' \subseteq guarded[q]
                     /\ stand'[q] \notin {"remove", "unlink"} => doomed[q] = {}
                     /\ \A d \in doomed[q] : d[1] \notin guarded[q]
    BY DEF GuardInv
  <1>5. CASE q = p  BY <1>4, <1>5 DEF OverShelf
  <1>6. CASE q /= p
    <2>1. stand'[q] = stand[q]  BY <1>6
    <2> QED BY <2>1, <1>2, <1>3 DEF GuardInv, Slots
  <1> QED BY <1>5, <1>6

LEMMA ShelfStep == RetentionTypeOK /\ LeaseInv /\ ShelfInv /\ [RetentionNext]_retentionVars => ShelfInv'
  <1> SUFFICES ASSUME RetentionTypeOK /\ LeaseInv /\ ShelfInv, [RetentionNext]_retentionVars PROVE ShelfInv'  OBVIOUS
  <1> USE RetentionAssumption DEF RetentionTypeOK, LeaseInv, ShelfInv, StagedInv, UnnamedInv, NamedInv, GuardInv, Named, Resting, WithoutLease, OverShelf, Unpublished, Published, Gone, Invocations, Reports, Slots
  <1>1. ASSUME NEW p \in Invocations, Locks(p) PROVE ShelfInv'
    BY <1>1 DEF Locks, GoesOn, Leased, reportVars, repairVars, passVars, pastVars
  <1>2. ASSUME NEW p \in Invocations, LocksNot(p) PROVE ShelfInv'
    BY <1>2 DEF LocksNot, GoesOn, Leased, reportVars, repairVars, passVars, pastVars
  <1>3. ASSUME NEW p \in Invocations, WorksWithout(p) PROVE ShelfInv'
    BY <1>3 DEF WorksWithout, GoesOn, Leased, reportVars, repairVars, passVars, pastVars
  <1>4. ASSUME NEW p \in Invocations, Unlocks(p) PROVE ShelfInv'
    BY <1>4 DEF Unlocks, GoesOn, Leased, reportVars, repairVars, passVars, pastVars
  <1>5. ASSUME NEW p \in Invocations, DiesHolding(p) PROVE ShelfInv'
    BY <1>5 DEF DiesHolding, GoesOn, Leased, reportVars, repairVars, passVars, pastVars
  <1>6. ASSUME NEW p \in Invocations, Evicts(p) PROVE ShelfInv'
    BY <1>6 DEF Evicts, GiveUp, GoesOn, Leased, reportVars, repairVars, passVars, pastVars
  <1>7. ASSUME NEW p \in Invocations, ReadsAny(p) PROVE ShelfInv'
    BY <1>7 DEF ReadsAny, Reads, GoesOn, Leased, reportVars, repairVars, passVars, pastVars
  <1>8. ASSUME NEW p \in Invocations, ReadsFull(p) PROVE ShelfInv'
    BY <1>8 DEF ReadsFull, Reads, GoesOn, Leased, reportVars, repairVars, passVars, pastVars
  <1>9. ASSUME NEW p \in Invocations, Lists(p) PROVE ShelfInv'
    BY <1>9 DEF Lists, GoesOn, Leased, reportVars, repairVars, passVars, pastVars
  <1>10. ASSUME NEW p \in Invocations, Breaks(p) PROVE ShelfInv'
    <2>1. lease = p /\ p \notin leaseless  BY <1>10 DEF Breaks, GoesOn
    <2>2. PICK d \in doomed[p] : shelf' = [shelf EXCEPT ![d[1]].whole = FALSE]  BY <1>10 DEF Breaks
    <2>3. \A slot \in Slots : d[1] \notin Named(slot)  BY <1>10 DEF Breaks, GoesOn
    <2>4. \A r \in Reports \ {d[1]} : shelf'[r] = shelf[r]  BY <2>2
    <2>5. \A v \in Verifies \ leaseless : stand[v] \notin {"staged", "index_any", "index_full"} /\ stand'[v] \notin {"staged", "index_any", "index_full"}
      BY <1>10, <2>1 DEF Breaks, GoesOn
    <2> QED BY <1>10, <2>3, <2>4, <2>5 DEF Breaks, GoesOn, Leased, reportVars, repairVars, passVars, pastVars
  <1>11. ASSUME NEW p \in Invocations, Removes(p) PROVE ShelfInv'
    <2>1. lease = p /\ p \notin leaseless  BY <1>11 DEF Removes, GoesOn
    <2>2. PICK d \in doomed[p] :
            shelf' = [shelf EXCEPT ![d[1]] = Gone] /\ doomed' = [doomed EXCEPT ![p] = @ \ {d}]
      BY <1>11 DEF Removes
    <2>3. \A slot \in Slots : d[1] \notin Named(slot)  BY <1>11 DEF Removes, GoesOn
    <2>4. \A r \in Reports \ {d[1]} : shelf'[r] = shelf[r]  BY <2>2
    <2>5. \A v \in Verifies \ leaseless : stand[v] \notin {"staged", "index_any", "index_full"} /\ stand'[v] \notin {"staged", "index_any", "index_full"}
      BY <1>11, <2>1 DEF Removes, GoesOn
    <2> QED BY <1>11, <2>2, <2>3, <2>4, <2>5 DEF Removes, GoesOn, Leased, reportVars, repairVars, passVars, pastVars
  <1>12. ASSUME NEW p \in Invocations, Collected(p) PROVE ShelfInv'
    BY <1>12 DEF Collected, GoesOn, Leased, reportVars, repairVars, passVars, pastVars
  <1>13. ASSUME NEW p \in Invocations, AsksPending(p) PROVE ShelfInv'
    BY <1>13 DEF AsksPending, GoesOn, Leased, reportVars, repairVars, passVars, pastVars
  <1>14. ASSUME NEW p \in Invocations, CollectsCandidate(p) PROVE ShelfInv'
    BY <1>14, SMTT(30) DEF CollectsCandidate, GoesOn, Leased, reportVars, repairVars, passVars, pastVars
  <1>15. ASSUME NEW p \in Verifies, Checkpoints(p) PROVE ShelfInv'
    BY <1>15 DEF Checkpoints, GoesOn, Leased, reportVars, repairVars, passVars, pastVars
  <1>16. ASSUME NEW p \in Verifies, StoresCandidate(p) PROVE ShelfInv'
    BY <1>16 DEF StoresCandidate, GoesOn, Leased, reportVars, repairVars, passVars, pastVars
  <1>17. ASSUME NEW p \in Verifies, Forgoes(p) PROVE ShelfInv'
    BY <1>17 DEF Forgoes, GiveUp, GoesOn, Leased, reportVars, repairVars, passVars, pastVars
  <1>18. ASSUME NEW p \in Verifies, Finishes(p) PROVE ShelfInv'
    BY <1>18 DEF Finishes, GoesOn, Leased, reportVars, repairVars, passVars, pastVars
  <1>19. ASSUME NEW p \in Verifies, Unwritten(p) PROVE ShelfInv'
    <2> HIDE DEF LeaseInv, ShelfInv, GuardInv, RetentionTypeOK, Reports
    <2>1. /\ stand[p] \in Publishing /\ stand'[p] \notin OverShelf /\ p \in Invocations /\ p \in Reports
          /\ \A q \in Invocations : q /= p => stand'[q] = stand[q]
          /\ UNCHANGED <<guarded, doomed, leaseless, missed>>
      BY <1>19 DEF Publishing, Reports, RetentionTypeOK, Unwritten, GoesOn, Leased, reportVars, repairVars, passVars, pastVars
    <2>2. index' = index /\ \A r \in Reports \ {p} : shelf'[r] = shelf[r]
      BY <1>19 DEF RetentionTypeOK, Unwritten, GoesOn, Leased, reportVars, repairVars, passVars, pastVars
    <2>3. \A slot \in Slots : index[slot] /= p
      BY <1>19 DEF ShelfInv, UnnamedInv, Unwritten, GoesOn, Leased, reportVars, repairVars, passVars, pastVars
    <2>4. GuardInv  BY DEF ShelfInv
    <2>5. GuardInv'
      <3> HIDE DEF OverShelf, Slots, Invocations, Named
      <3> QED BY <2>1, <2>2, <2>4, GuardsKept
    <2>6. stand'[p] = "leave"  BY <1>19 DEF RetentionTypeOK, Unwritten, GoesOn, Leased, reportVars, repairVars, passVars, pastVars
    <2>7. StagedInv'
      <3> SUFFICES ASSUME NEW v \in Verifies \ leaseless
                   PROVE /\ stand'[v] = "staged" => shelf'[v] = [at |-> "staging", whole |-> TRUE]
                         /\ stand'[v] \in {"index_any", "index_full"} => shelf'[v] = Published
        BY <2>1 DEF StagedInv
      <3>1. CASE v = p  BY <3>1, <2>6
      <3>2. CASE v /= p  BY <3>2, <2>1, <2>2 DEF ShelfInv, StagedInv, Reports
      <3> QED BY <3>1, <3>2
    <2>8. UnnamedInv'  BY <2>1, <2>2, <2>3 DEF UnnamedInv, ShelfInv
    <2>9. NamedInv'  BY <2>1, <2>2, <2>3 DEF NamedInv, ShelfInv
    <2> QED BY <2>5, <2>7, <2>8, <2>9 DEF ShelfInv
  <1>20. ASSUME NEW p \in Verifies, Stages(p) PROVE ShelfInv'
    <2> HIDE DEF LeaseInv, ShelfInv, GuardInv, RetentionTypeOK, Reports
    <2>1. /\ stand[p] \in Publishing /\ stand'[p] \notin OverShelf /\ p \in Invocations /\ p \in Reports
          /\ \A q \in Invocations : q /= p => stand'[q] = stand[q]
          /\ UNCHANGED <<guarded, doomed, leaseless, missed>>
      BY <1>20 DEF Publishing, Reports, RetentionTypeOK, Stages, GoesOn, Leased, reportVars, repairVars, passVars, pastVars
    <2>2. index' = index /\ \A r \in Reports \ {p} : shelf'[r] = shelf[r]
      BY <1>20 DEF RetentionTypeOK, Stages, GoesOn, Leased, reportVars, repairVars, passVars, pastVars
    <2>3. \A slot \in Slots : index[slot] /= p
      BY <1>20 DEF ShelfInv, UnnamedInv, Stages, GoesOn, Leased, reportVars, repairVars, passVars, pastVars
    <2>4. GuardInv  BY DEF ShelfInv
    <2>5. GuardInv'
      <3> HIDE DEF OverShelf, Slots, Invocations, Named
      <3> QED BY <2>1, <2>2, <2>4, GuardsKept
    <2>6. stand'[p] = "staged" /\ shelf'[p] = [at |-> "staging", whole |-> TRUE]
      BY <1>20, <2>1 DEF RetentionTypeOK, Stages, GoesOn, Leased, reportVars, repairVars, passVars, pastVars
    <2>7. StagedInv'
      <3> SUFFICES ASSUME NEW v \in Verifies \ leaseless
                   PROVE /\ stand'[v] = "staged" => shelf'[v] = [at |-> "staging", whole |-> TRUE]
                         /\ stand'[v] \in {"index_any", "index_full"} => shelf'[v] = Published
        BY <2>1 DEF StagedInv
      <3>1. CASE v = p  BY <3>1, <2>6
      <3>2. CASE v /= p  BY <3>2, <2>1, <2>2 DEF ShelfInv, StagedInv, Reports
      <3> QED BY <3>1, <3>2
    <2>8. UnnamedInv'  BY <2>1, <2>2, <2>3 DEF UnnamedInv, ShelfInv
    <2>9. NamedInv'  BY <2>1, <2>2, <2>3 DEF NamedInv, ShelfInv
    <2> QED BY <2>5, <2>7, <2>8, <2>9 DEF ShelfInv
  <1>21. ASSUME NEW p \in Verifies, Publishes(p) PROVE ShelfInv'
    <2> HIDE DEF LeaseInv, ShelfInv, GuardInv, RetentionTypeOK, Reports
    <2>1. /\ stand[p] \in Publishing /\ stand'[p] \notin OverShelf /\ p \in Invocations /\ p \in Reports
          /\ \A q \in Invocations : q /= p => stand'[q] = stand[q]
          /\ UNCHANGED <<guarded, doomed, leaseless, missed>>
      BY <1>21 DEF Publishing, Reports, RetentionTypeOK, Publishes, AfterIndexes, GoesOn, Leased, reportVars, repairVars, passVars, pastVars
    <2>2. index' = index /\ \A r \in Reports \ {p} : shelf'[r] = shelf[r]
      BY <1>21 DEF RetentionTypeOK, Publishes, AfterIndexes, GoesOn, Leased, reportVars, repairVars, passVars, pastVars
    <2>3. \A slot \in Slots : index[slot] /= p
      BY <1>21 DEF ShelfInv, UnnamedInv, Publishes, AfterIndexes, GoesOn, Leased, reportVars, repairVars, passVars, pastVars
    <2>4. GuardInv  BY DEF ShelfInv
    <2>5. GuardInv'
      <3> HIDE DEF OverShelf, Slots, Invocations, Named
      <3> QED BY <2>1, <2>2, <2>4, GuardsKept
    <2>6. /\ stand'[p] \in {"index_any", "delete", "any", "leave"}
          /\ p \notin leaseless => shelf'[p] = Published
      <3>1. stand'[p] \in {"index_any", "delete", "any", "leave"}
        BY <1>21 DEF RetentionTypeOK, Publishes, AfterIndexes, GoesOn, Leased, reportVars, repairVars, passVars, pastVars
      <3>2. p \notin leaseless => shelf[p] = [at |-> "staging", whole |-> TRUE]
        BY <1>21 DEF ShelfInv, StagedInv, Publishes, AfterIndexes, GoesOn, Leased, reportVars, repairVars, passVars, pastVars
      <3>3. shelf'[p] = [shelf[p] EXCEPT !.at = "published"]  BY <1>21, <2>1 DEF Publishes, RetentionTypeOK
      <3>4. ASSUME p \notin leaseless PROVE shelf'[p] = Published
        <4> DEFINE r == shelf[p]
                   t == shelf'[p]
        <4>1. r = [at |-> "staging", whole |-> TRUE]  BY <3>2, <3>4
        <4>2. t = [r EXCEPT !.at = "published"]  BY <3>3
        <4> HIDE DEF r, t
        <4>3. t = Published  BY <4>1, <4>2
        <4> QED BY <4>3 DEF t
      <3> QED BY <3>1, <3>4
    <2>7. StagedInv'
      <3> SUFFICES ASSUME NEW v \in Verifies \ leaseless
                   PROVE /\ stand'[v] = "staged" => shelf'[v] = [at |-> "staging", whole |-> TRUE]
                         /\ stand'[v] \in {"index_any", "index_full"} => shelf'[v] = Published
        BY <2>1 DEF StagedInv
      <3>1. CASE v = p  BY <3>1, <2>6
      <3>2. CASE v /= p  BY <3>2, <2>1, <2>2 DEF ShelfInv, StagedInv, Reports
      <3> QED BY <3>1, <3>2
    <2>8. UnnamedInv'  BY <2>1, <2>2, <2>3 DEF UnnamedInv, ShelfInv
    <2>9. NamedInv'  BY <2>1, <2>2, <2>3 DEF NamedInv, ShelfInv
    <2> QED BY <2>5, <2>7, <2>8, <2>9 DEF ShelfInv
  <1>22. ASSUME NEW p \in Verifies, IndexesAny(p) PROVE ShelfInv'
    <2> HIDE DEF LeaseInv, ShelfInv, GuardInv, RetentionTypeOK, Reports
    <2>1. /\ stand[p] \in Publishing /\ stand'[p] \notin OverShelf /\ p \in Invocations /\ p \in Reports
          /\ \A q \in Invocations : q /= p => stand'[q] = stand[q]
          /\ UNCHANGED <<guarded, doomed, leaseless, missed>>
      BY <1>22 DEF Publishing, Reports, RetentionTypeOK, IndexesAny, Indexed, AfterIndexes, GoesOn, Leased, reportVars, repairVars, passVars, pastVars
    <2>2. index' = [index EXCEPT !["any"] = p] /\ shelf' = shelf  BY <1>22 DEF IndexesAny, Indexed, AfterIndexes, GoesOn, Leased, reportVars, repairVars, passVars, pastVars
    <2>3. index \in [Slots -> Reports \cup {"none", "unreadable"}]  BY DEF RetentionTypeOK
    <2>4. \A slot \in Slots : index'[slot] \in {index[slot], p}  BY <2>2, <2>3
    <2>guards. GuardInv  BY DEF ShelfInv
    <2>5. GuardInv'
      <3> HIDE DEF OverShelf, Slots, Invocations, Named
      <3> QED BY <2>1, <2>4, <2>guards, GuardsKept
    <2>6. p \notin leaseless => shelf[p] = Published  BY <1>22 DEF ShelfInv, StagedInv, IndexesAny, Indexed, AfterIndexes, GoesOn, Leased, reportVars, repairVars, passVars, pastVars
    <2>7. StagedInv'
      <3> SUFFICES ASSUME NEW v \in Verifies \ leaseless
                   PROVE /\ stand'[v] = "staged" => shelf[v] = [at |-> "staging", whole |-> TRUE]
                         /\ stand'[v] \in {"index_any", "index_full"} => shelf[v] = Published
        BY <2>1, <2>2 DEF StagedInv
      <3>1. CASE v = p
        <4>1. stand'[p] /= "staged"  BY <1>22 DEF RetentionTypeOK, IndexesAny, Indexed, AfterIndexes, GoesOn, Leased, reportVars, repairVars, passVars, pastVars
        <4> QED BY <3>1, <4>1, <2>6
      <3>2. CASE v /= p  BY <3>2, <2>1 DEF ShelfInv, StagedInv
      <3> QED BY <3>1, <3>2
    <2>8. UnnamedInv'
      <3>1. stand'[p] \notin Unpublished  BY <1>22 DEF RetentionTypeOK, IndexesAny, Indexed, AfterIndexes, GoesOn, Leased, reportVars, repairVars, passVars, pastVars
      <3> QED BY <2>1, <2>4, <3>1 DEF UnnamedInv, ShelfInv
    <2>9. NamedInv'  BY <2>1, <2>2, <2>4, <2>6 DEF NamedInv, ShelfInv
    <2> QED BY <2>5, <2>7, <2>8, <2>9 DEF ShelfInv
  <1>23. ASSUME NEW p \in Verifies, IndexesFull(p) PROVE ShelfInv'
    <2> HIDE DEF LeaseInv, ShelfInv, GuardInv, RetentionTypeOK, Reports
    <2>1. /\ stand[p] \in Publishing /\ stand'[p] \notin OverShelf /\ p \in Invocations /\ p \in Reports
          /\ \A q \in Invocations : q /= p => stand'[q] = stand[q]
          /\ UNCHANGED <<guarded, doomed, leaseless, missed>>
      BY <1>23 DEF Publishing, Reports, RetentionTypeOK, IndexesFull, Indexed, AfterIndexes, GoesOn, Leased, reportVars, repairVars, passVars, pastVars
    <2>2. index' = [index EXCEPT !["full"] = p] /\ shelf' = shelf  BY <1>23 DEF IndexesFull, Indexed, AfterIndexes, GoesOn, Leased, reportVars, repairVars, passVars, pastVars
    <2>3. index \in [Slots -> Reports \cup {"none", "unreadable"}]  BY DEF RetentionTypeOK
    <2>4. \A slot \in Slots : index'[slot] \in {index[slot], p}  BY <2>2, <2>3
    <2>guards. GuardInv  BY DEF ShelfInv
    <2>5. GuardInv'
      <3> HIDE DEF OverShelf, Slots, Invocations, Named
      <3> QED BY <2>1, <2>4, <2>guards, GuardsKept
    <2>6. p \notin leaseless => shelf[p] = Published  BY <1>23 DEF ShelfInv, StagedInv, IndexesFull, Indexed, AfterIndexes, GoesOn, Leased, reportVars, repairVars, passVars, pastVars
    <2>7. StagedInv'
      <3> SUFFICES ASSUME NEW v \in Verifies \ leaseless
                   PROVE /\ stand'[v] = "staged" => shelf[v] = [at |-> "staging", whole |-> TRUE]
                         /\ stand'[v] \in {"index_any", "index_full"} => shelf[v] = Published
        BY <2>1, <2>2 DEF StagedInv
      <3>1. CASE v = p
        <4>1. stand'[p] /= "staged"  BY <1>23 DEF RetentionTypeOK, IndexesFull, Indexed, AfterIndexes, GoesOn, Leased, reportVars, repairVars, passVars, pastVars
        <4> QED BY <3>1, <4>1, <2>6
      <3>2. CASE v /= p  BY <3>2, <2>1 DEF ShelfInv, StagedInv
      <3> QED BY <3>1, <3>2
    <2>8. UnnamedInv'
      <3>1. stand'[p] \notin Unpublished  BY <1>23 DEF RetentionTypeOK, IndexesFull, Indexed, AfterIndexes, GoesOn, Leased, reportVars, repairVars, passVars, pastVars
      <3> QED BY <2>1, <2>4, <3>1 DEF UnnamedInv, ShelfInv
    <2>9. NamedInv'  BY <2>1, <2>2, <2>4, <2>6 DEF NamedInv, ShelfInv
    <2> QED BY <2>5, <2>7, <2>8, <2>9 DEF ShelfInv
  <1>24. ASSUME NEW p \in Verifies, Unindexed(p) PROVE ShelfInv'
    BY <1>24 DEF Unindexed, GoesOn, Leased, reportVars, repairVars, passVars, pastVars
  <1>25. ASSUME NEW p \in Verifies, DeletesCheckpoint(p) PROVE ShelfInv'
    BY <1>25 DEF DeletesCheckpoint, GoesOn, Leased, reportVars, repairVars, passVars, pastVars
  <1>26. CASE UNCHANGED retentionVars
    BY <1>26 DEF retentionVars, reportVars, repairVars, passVars, pastVars
  <1> QED
    BY <1>1, <1>2, <1>3, <1>4, <1>5, <1>6, <1>7, <1>8, <1>9, <1>10, <1>11, <1>12, <1>13,
       <1>14, <1>15, <1>16, <1>17, <1>18, <1>19, <1>20, <1>21, <1>22, <1>23, <1>24, <1>25, <1>26 DEF RetentionNext

LEMMA WorkStep == RetentionTypeOK /\ LeaseInv /\ WorkInv /\ [RetentionNext]_retentionVars => WorkInv'
  <1> SUFFICES ASSUME RetentionTypeOK /\ LeaseInv /\ WorkInv, [RetentionNext]_retentionVars PROVE WorkInv'  OBVIOUS
  <1> USE RetentionAssumption DEF RetentionTypeOK, LeaseInv, WorkInv, WorkIsKept, Resting, WithoutLease, Invocations
  <1>1. ASSUME NEW p \in Invocations, Locks(p) PROVE WorkInv'
    BY <1>1 DEF Locks, GoesOn, Leased, reportVars, repairVars, passVars, pastVars
  <1>2. ASSUME NEW p \in Invocations, LocksNot(p) PROVE WorkInv'
    BY <1>2 DEF LocksNot, GoesOn, Leased, reportVars, repairVars, passVars, pastVars
  <1>3. ASSUME NEW p \in Invocations, WorksWithout(p) PROVE WorkInv'
    BY <1>3 DEF WorksWithout, GoesOn, Leased, reportVars, repairVars, passVars, pastVars
  <1>4. ASSUME NEW p \in Invocations, Unlocks(p) PROVE WorkInv'
    BY <1>4 DEF Unlocks, GoesOn, Leased, reportVars, repairVars, passVars, pastVars
  <1>5. ASSUME NEW p \in Invocations, DiesHolding(p) PROVE WorkInv'
    BY <1>5 DEF DiesHolding, GoesOn, Leased, reportVars, repairVars, passVars, pastVars
  <1>6. ASSUME NEW p \in Invocations, Evicts(p) PROVE WorkInv'
    BY <1>6 DEF Evicts, GiveUp, GoesOn, Leased, reportVars, repairVars, passVars, pastVars
  <1>7. ASSUME NEW p \in Invocations, ReadsAny(p) PROVE WorkInv'
    BY <1>7 DEF ReadsAny, Reads, GoesOn, Leased, reportVars, repairVars, passVars, pastVars
  <1>8. ASSUME NEW p \in Invocations, ReadsFull(p) PROVE WorkInv'
    BY <1>8 DEF ReadsFull, Reads, GoesOn, Leased, reportVars, repairVars, passVars, pastVars
  <1>9. ASSUME NEW p \in Invocations, Lists(p) PROVE WorkInv'
    BY <1>9 DEF Lists, GoesOn, Leased, reportVars, repairVars, passVars, pastVars
  <1>10. ASSUME NEW p \in Invocations, Breaks(p) PROVE WorkInv'
    BY <1>10 DEF Breaks, IsNext, GoesOn, Leased, reportVars, repairVars, passVars, pastVars
  <1>11. ASSUME NEW p \in Invocations, Removes(p) PROVE WorkInv'
    BY <1>11 DEF Removes, IsNext, GoesOn, Leased, reportVars, repairVars, passVars, pastVars
  <1>12. ASSUME NEW p \in Invocations, Collected(p) PROVE WorkInv'
    BY <1>12 DEF Collected, GoesOn, Leased, reportVars, repairVars, passVars, pastVars
  <1>13. ASSUME NEW p \in Invocations, AsksPending(p) PROVE WorkInv'
    BY <1>13 DEF AsksPending, GoesOn, Leased, reportVars, repairVars, passVars, pastVars
  <1>14. ASSUME NEW p \in Invocations, CollectsCandidate(p) PROVE WorkInv'
    BY <1>14 DEF CollectsCandidate, GoesOn, Leased, reportVars, repairVars, passVars, pastVars
  <1>15. ASSUME NEW p \in Verifies, Checkpoints(p) PROVE WorkInv'
    BY <1>15 DEF Checkpoints, GoesOn, Leased, reportVars, repairVars, passVars, pastVars
  <1>16. ASSUME NEW p \in Verifies, StoresCandidate(p) PROVE WorkInv'
    BY <1>16 DEF StoresCandidate, GoesOn, Leased, reportVars, repairVars, passVars, pastVars
  <1>17. ASSUME NEW p \in Verifies, Forgoes(p) PROVE WorkInv'
    BY <1>17 DEF Forgoes, GiveUp, GoesOn, Leased, reportVars, repairVars, passVars, pastVars
  <1>18. ASSUME NEW p \in Verifies, Finishes(p) PROVE WorkInv'
    BY <1>18 DEF Finishes, GoesOn, Leased, reportVars, repairVars, passVars, pastVars
  <1>19. ASSUME NEW p \in Verifies, Unwritten(p) PROVE WorkInv'
    BY <1>19 DEF Unwritten, GoesOn, Leased, reportVars, repairVars, passVars, pastVars
  <1>20. ASSUME NEW p \in Verifies, Stages(p) PROVE WorkInv'
    BY <1>20 DEF Stages, GoesOn, Leased, reportVars, repairVars, passVars, pastVars
  <1>21. ASSUME NEW p \in Verifies, Publishes(p) PROVE WorkInv'
    BY <1>21 DEF Publishes, AfterIndexes, GoesOn, Leased, reportVars, repairVars, passVars, pastVars
  <1>22. ASSUME NEW p \in Verifies, IndexesAny(p) PROVE WorkInv'
    BY <1>22 DEF IndexesAny, Indexed, AfterIndexes, GoesOn, Leased, reportVars, repairVars, passVars, pastVars
  <1>23. ASSUME NEW p \in Verifies, IndexesFull(p) PROVE WorkInv'
    BY <1>23 DEF IndexesFull, Indexed, AfterIndexes, GoesOn, Leased, reportVars, repairVars, passVars, pastVars
  <1>24. ASSUME NEW p \in Verifies, Unindexed(p) PROVE WorkInv'
    BY <1>24 DEF Unindexed, GoesOn, Leased, reportVars, repairVars, passVars, pastVars
  <1>25. ASSUME NEW p \in Verifies, DeletesCheckpoint(p) PROVE WorkInv'
    BY <1>25 DEF DeletesCheckpoint, GoesOn, Leased, reportVars, repairVars, passVars, pastVars
  <1>26. CASE UNCHANGED retentionVars
    BY <1>26 DEF retentionVars, reportVars, repairVars, passVars, pastVars
  <1> QED
    BY <1>1, <1>2, <1>3, <1>4, <1>5, <1>6, <1>7, <1>8, <1>9, <1>10, <1>11, <1>12, <1>13,
       <1>14, <1>15, <1>16, <1>17, <1>18, <1>19, <1>20, <1>21, <1>22, <1>23, <1>24, <1>25, <1>26 DEF RetentionNext

LEMMA CandidateStep == RetentionTypeOK /\ LeaseInv /\ CandidateInv /\ [RetentionNext]_retentionVars => CandidateInv'
  <1> SUFFICES ASSUME RetentionTypeOK /\ LeaseInv /\ CandidateInv, [RetentionNext]_retentionVars PROVE CandidateInv'  OBVIOUS
  <1> USE RetentionAssumption DEF RetentionTypeOK, LeaseInv, CandidateInv, CandidatesAreThere, Resting, WithoutLease, Invocations
  <1>1. ASSUME NEW p \in Invocations, Locks(p) PROVE CandidateInv'
    BY <1>1 DEF Locks, GoesOn, Leased, reportVars, repairVars, passVars, pastVars
  <1>2. ASSUME NEW p \in Invocations, LocksNot(p) PROVE CandidateInv'
    BY <1>2 DEF LocksNot, GoesOn, Leased, reportVars, repairVars, passVars, pastVars
  <1>3. ASSUME NEW p \in Invocations, WorksWithout(p) PROVE CandidateInv'
    BY <1>3 DEF WorksWithout, GoesOn, Leased, reportVars, repairVars, passVars, pastVars
  <1>4. ASSUME NEW p \in Invocations, Unlocks(p) PROVE CandidateInv'
    BY <1>4 DEF Unlocks, GoesOn, Leased, reportVars, repairVars, passVars, pastVars
  <1>5. ASSUME NEW p \in Invocations, DiesHolding(p) PROVE CandidateInv'
    BY <1>5 DEF DiesHolding, GoesOn, Leased, reportVars, repairVars, passVars, pastVars
  <1>6. ASSUME NEW p \in Invocations, Evicts(p) PROVE CandidateInv'
    BY <1>6 DEF Evicts, GiveUp, GoesOn, Leased, reportVars, repairVars, passVars, pastVars
  <1>7. ASSUME NEW p \in Invocations, ReadsAny(p) PROVE CandidateInv'
    BY <1>7 DEF ReadsAny, Reads, GoesOn, Leased, reportVars, repairVars, passVars, pastVars
  <1>8. ASSUME NEW p \in Invocations, ReadsFull(p) PROVE CandidateInv'
    BY <1>8 DEF ReadsFull, Reads, GoesOn, Leased, reportVars, repairVars, passVars, pastVars
  <1>9. ASSUME NEW p \in Invocations, Lists(p) PROVE CandidateInv'
    BY <1>9 DEF Lists, GoesOn, Leased, reportVars, repairVars, passVars, pastVars
  <1>10. ASSUME NEW p \in Invocations, Breaks(p) PROVE CandidateInv'
    BY <1>10 DEF Breaks, IsNext, GoesOn, Leased, reportVars, repairVars, passVars, pastVars
  <1>11. ASSUME NEW p \in Invocations, Removes(p) PROVE CandidateInv'
    BY <1>11 DEF Removes, IsNext, GoesOn, Leased, reportVars, repairVars, passVars, pastVars
  <1>12. ASSUME NEW p \in Invocations, Collected(p) PROVE CandidateInv'
    BY <1>12 DEF Collected, GoesOn, Leased, reportVars, repairVars, passVars, pastVars
  <1>13. ASSUME NEW p \in Invocations, AsksPending(p) PROVE CandidateInv'
    BY <1>13 DEF AsksPending, GoesOn, Leased, reportVars, repairVars, passVars, pastVars
  <1>14. ASSUME NEW p \in Invocations, CollectsCandidate(p) PROVE CandidateInv'
    BY <1>14 DEF CollectsCandidate, GoesOn, Leased, reportVars, repairVars, passVars, pastVars
  <1>15. ASSUME NEW p \in Verifies, Checkpoints(p) PROVE CandidateInv'
    BY <1>15 DEF Checkpoints, GoesOn, Leased, reportVars, repairVars, passVars, pastVars
  <1>16. ASSUME NEW p \in Verifies, StoresCandidate(p) PROVE CandidateInv'
    BY <1>16 DEF StoresCandidate, GoesOn, Leased, reportVars, repairVars, passVars, pastVars
  <1>17. ASSUME NEW p \in Verifies, Forgoes(p) PROVE CandidateInv'
    BY <1>17 DEF Forgoes, GiveUp, GoesOn, Leased, reportVars, repairVars, passVars, pastVars
  <1>18. ASSUME NEW p \in Verifies, Finishes(p) PROVE CandidateInv'
    BY <1>18 DEF Finishes, GoesOn, Leased, reportVars, repairVars, passVars, pastVars
  <1>19. ASSUME NEW p \in Verifies, Unwritten(p) PROVE CandidateInv'
    BY <1>19 DEF Unwritten, GoesOn, Leased, reportVars, repairVars, passVars, pastVars
  <1>20. ASSUME NEW p \in Verifies, Stages(p) PROVE CandidateInv'
    BY <1>20 DEF Stages, GoesOn, Leased, reportVars, repairVars, passVars, pastVars
  <1>21. ASSUME NEW p \in Verifies, Publishes(p) PROVE CandidateInv'
    BY <1>21 DEF Publishes, AfterIndexes, GoesOn, Leased, reportVars, repairVars, passVars, pastVars
  <1>22. ASSUME NEW p \in Verifies, IndexesAny(p) PROVE CandidateInv'
    BY <1>22 DEF IndexesAny, Indexed, AfterIndexes, GoesOn, Leased, reportVars, repairVars, passVars, pastVars
  <1>23. ASSUME NEW p \in Verifies, IndexesFull(p) PROVE CandidateInv'
    BY <1>23 DEF IndexesFull, Indexed, AfterIndexes, GoesOn, Leased, reportVars, repairVars, passVars, pastVars
  <1>24. ASSUME NEW p \in Verifies, Unindexed(p) PROVE CandidateInv'
    BY <1>24 DEF Unindexed, GoesOn, Leased, reportVars, repairVars, passVars, pastVars
  <1>25. ASSUME NEW p \in Verifies, DeletesCheckpoint(p) PROVE CandidateInv'
    BY <1>25 DEF DeletesCheckpoint, GoesOn, Leased, reportVars, repairVars, passVars, pastVars
  <1>26. CASE UNCHANGED retentionVars
    BY <1>26 DEF retentionVars, reportVars, repairVars, passVars, pastVars
  <1> QED
    BY <1>1, <1>2, <1>3, <1>4, <1>5, <1>6, <1>7, <1>8, <1>9, <1>10, <1>11, <1>12, <1>13,
       <1>14, <1>15, <1>16, <1>17, <1>18, <1>19, <1>20, <1>21, <1>22, <1>23, <1>24, <1>25, <1>26 DEF RetentionNext

\* Whatever runs, cache gc and cache flush do at the same time, die of or fail at:
\* the report an index names stays whole, the work of a checkpoint stays until a
\* report answers it, and the candidates that were stored beside a checkpoint stay
\* with it; for any number of processes, reports and inputs.
THEOREM DurableKept == RetentionSpec => []DurableIsKept
  <1>1. RetentionInv /\ [RetentionNext]_retentionVars => RetentionInv'
    BY RetentionTypesStep, LeaseStep, ShelfStep, WorkStep, CandidateStep DEF RetentionInv
  <1>2. RetentionInv => DurableIsKept
    <2> SUFFICES ASSUME RetentionInv PROVE DurableIsKept  OBVIOUS
    <2>1. NamedAreThere  BY DEF RetentionInv, ShelfInv, NamedInv, Named, NamedAreThere
    <2> QED BY <2>1 DEF RetentionInv, WorkInv, CandidateInv, DurableIsKept
  <1> QED BY <1>1, <1>2, RetentionStarts, PTL DEF RetentionSpec

-----------------------------------------------------------------------------
(* KeptTemp: what keeps a directory of goatest from being taken.             *)

SweepPlaces == {"sweep", "sweep_lock", "sweep_unlock", "sweep_empty", "sweep_unlink"}
GcPlaces == {"collect", "gc_empty", "gc_unlink"}
EndPlaces == {"close", "kept", "note", "noting", "drop_empty", "drop_unlink", "done"}
Standing == SweepPlaces \cup GcPlaces \cup EndPlaces
            \cup {"start", "scratch", "claim", "mark", "native", "work", "ledger"}
OwnOf(r) == {ScratchOf(r), NativeOf(r)}
Ours(d) == d[1] \in {"scratch", "native"}

\* What a collection and a run make and have claimed, by where they are.
CollectorAt(p) ==
  /\ making[p] = NoDir /\ native[p] = NoDir
  /\ place[p] \in {"start", "ledger", "done"} \cup SweepPlaces \cup GcPlaces

KeeperAt(r) ==
  \/ /\ making[r] = NoDir /\ native[r] = NoDir
     /\ place[r] \in {"start", "scratch", "done"} \cup SweepPlaces
     /\ place[r] \in SweepPlaces => scan[r].of = "scratch"
  \/ /\ making[r] = ScratchOf(r) /\ native[r] = NoDir
     /\ place[r] \in {"claim", "mark", "native", "work"} \cup SweepPlaces
     /\ place[r] \in SweepPlaces => scan[r].of = "native"
  \/ /\ making[r] = ScratchOf(r) /\ native[r] \in {NoDir, SharedNative, NativeOf(r)}
     /\ place[r] \in EndPlaces
  \/ /\ making[r] \in {SharedNative, NativeOf(r)} /\ native[r] = NoDir
     /\ place[r] \in {"claim", "mark", "work", "close"}
  \/ /\ making[r] = NativeOf(r) /\ native[r] = NoDir
     /\ place[r] \in {"drop_empty", "drop_unlink"}
  \/ /\ making[r] = NativeOf(r) /\ native[r] = making[r]
     /\ place[r] \in {"work"} \cup (EndPlaces \ {"done"})
  \/ /\ making[r] = SharedNative /\ native[r] = making[r]
     /\ place[r] \in {"work", "close", "kept", "note", "noting"}

PlaceInv ==
  /\ place \in [Movers -> Standing]
  /\ \A p \in Collectors : CollectorAt(p)
  /\ \A r \in Keepers : KeeperAt(r)

\* A run has not claimed a directory of its own yet; it never uses it again; it
\* never marks it again.
Ahead(r, d) ==
  \/ making[r] = NoDir /\ place[r] /= "done"
  \/ making[r] = d /\ place[r] = "claim"
  \/ /\ d = NativeOf(r)
     /\ \/ making[r] = ScratchOf(r) /\ place[r] \in {"claim", "mark", "native"} \cup SweepPlaces
        \/ making[r] = SharedNative /\ place[r] = "claim"
Over(r, d) == ~Ahead(r, d) /\ ~Uses(r, d)
Sealed(r, d) == Over(r, d) \/ (place[r] = "kept" /\ making[r] = d)
Marking(r, d) == making[r] = d /\ place[r] = "mark"

\* What a sweep or a collection looks at.
ScanInv ==
  \A p \in Movers :
    /\ place[p] \in SweepPlaces => scan[p].of \in {"scratch", "native"}
    /\ scan[p].of \in {"scratch", "native"} => \A d \in scan[p].left : d[1] = scan[p].of
    /\ place[p] \in SweepPlaces \ {"sweep"} => scan[p].at \in TempDirs /\ Ours(scan[p].at)
    /\ place[p] \in GcPlaces => scan[p].of = "ledger"
    /\ place[p] \in {"gc_empty", "gc_unlink"} => scan[p].at \in TempDirs

\* Before a run claims a directory nothing in it is marked, locked or old.
AheadInv ==
  \A r \in Keepers : \A d \in OwnOf(r) : Ahead(r, d) =>
    /\ d \notin stale /\ ownerMarker[d] = Unmarked /\ ownerLock[d] = "absent"
    /\ d \in present => making[r] = d

\* What a run uses is there, locked by it, and marked once it is claimed.
InUseInv ==
  \A r \in Keepers : \A d \in OwnOf(r) : Uses(r, d) =>
    /\ d \in present /\ d \notin stale /\ ownerLock[d] = r
    /\ Marking(r, d) => ownerMarker[d] = Unmarked
    /\ ~Marking(r, d) => ownerMarker[d].run = r
    /\ ownerMarker[d].kept => place[r] = "kept" /\ making[r] = d

\* Who is about to remove a directory saw a marker, or a lock, or an age that it
\* can only have when its run is done with it.
AskedInv ==
  \A p \in Movers, r \in Keepers :
    /\ place[p] = "sweep_lock" /\ scan[p].at \in OwnOf(r) =>
         ~Ahead(r, scan[p].at) /\ ~Marking(r, scan[p].at)
    /\ place[p] \in {"sweep_unlock", "sweep_empty", "sweep_unlink", "gc_empty", "gc_unlink"} =>
         (scan[p].at \in OwnOf(r) => Over(r, scan[p].at))

\* Only a run that marks a directory for the last time says that it is kept.
MarkerInv ==
  /\ ownerMarker[Foreign] = Unmarked
  /\ \A d \in TempDirs : ownerMarker[d].kept => ownerMarker[d].run /= "nobody"
  /\ \A r \in Keepers : \A d \in OwnOf(r) : ownerMarker[d].kept => ownerMarker[d].run = r /\ Sealed(r, d)

\* What was kept when a sweep began is kept still, or was emptied just now.
ListingInv ==
  \A p \in Movers : scan[p].of \in {"scratch", "native"} =>
    /\ \A d \in scan[p].kept : Ours(d) =>
         /\ ownerMarker[d].kept \/ (ownerMarker[d] = Unmarked /\ d \notin stale)
         /\ \A r \in Keepers : d \in OwnOf(r) => Sealed(r, d)
    /\ place[p] \in SweepPlaces \ {"sweep"} => scan[p].at \notin scan[p].kept

\* The ledger names a run's directory when the run is done with it.
NotedInv ==
  \A r \in Keepers : \A d \in OwnOf(r) :
    /\ ledger[d] /= "nobody" => Over(r, d)
    /\ \A p \in Movers : loaded[p][d] /= "nobody" => Over(r, d)

\* Who writes the ledger holds its lock since it read it.
LedgerInv ==
  /\ \A p \in Movers : ledgerLock = p <=> place[p] \in {"noting"} \cup GcPlaces
  /\ \A p \in Movers : place[p] = "noting" => loaded[p] = ledger
  /\ \A p \in Movers, d \in TempDirs : place[p] \in GcPlaces => loaded[p][d] \in {ledger[d], "nobody"}
  /\ LedgerIsKept

\* A collection has seen every line that is there.
ReadInv ==
  \A p \in Movers : place[p] \in GcPlaces =>
    \A d \in TempDirs : ledger[d] /= "nobody" => d \in scan[p].kept

ForeignInv == \A p \in Collectors : place[p] \in {"gc_empty", "gc_unlink"} => scan[p].at /= Foreign

LEMMA DirFacts ==
  /\ {SharedNative, Foreign} \subseteq TempDirs /\ NoDir \notin TempDirs /\ SharedNative /= Foreign
  /\ ~Ours(SharedNative) /\ ~Ours(Foreign)
  /\ \A r \in Keepers :
       /\ {ScratchOf(r), NativeOf(r)} \subseteq TempDirs /\ ScratchOf(r) /= NativeOf(r)
       /\ Ours(ScratchOf(r)) /\ Ours(NativeOf(r))
       /\ {ScratchOf(r), NativeOf(r)} \cap {SharedNative, Foreign, NoDir} = {}
       /\ \A q \in Keepers : q /= r => OwnOf(r) \cap OwnOf(q) = {}
  <1> USE KeptTempAssumption
  <1>1. /\ {SharedNative, Foreign} \subseteq TempDirs /\ NoDir \notin TempDirs /\ SharedNative /= Foreign
        /\ ~Ours(SharedNative) /\ ~Ours(Foreign)
    BY DEF SharedNative, Foreign, TempDirs, NoDir, Ours
  <1> SUFFICES ASSUME NEW r \in Keepers
               PROVE /\ {ScratchOf(r), NativeOf(r)} \subseteq TempDirs /\ ScratchOf(r) /= NativeOf(r)
                     /\ Ours(ScratchOf(r)) /\ Ours(NativeOf(r))
                     /\ {ScratchOf(r), NativeOf(r)} \cap {SharedNative, Foreign, NoDir} = {}
                     /\ \A q \in Keepers : q /= r => OwnOf(r) \cap OwnOf(q) = {}
    BY <1>1
  <1>2. {ScratchOf(r), NativeOf(r)} \subseteq TempDirs  BY DEF TempDirs, ScratchOf, NativeOf
  <1>3. ScratchOf(r) /= NativeOf(r) /\ Ours(ScratchOf(r)) /\ Ours(NativeOf(r))
    BY DEF ScratchOf, NativeOf, Ours
  <1>4. {ScratchOf(r), NativeOf(r)} \cap {SharedNative, Foreign, NoDir} = {}
    BY <1>3, <1>1, <1>2
  <1>5. ASSUME NEW q \in Keepers, q /= r PROVE OwnOf(r) \cap OwnOf(q) = {}
    BY <1>5 DEF OwnOf, ScratchOf, NativeOf
  <1> QED BY <1>2, <1>3, <1>4, <1>5

\* A step of one process leaves the others where they are.
LEMMA Elsewhere ==
  ASSUME PlaceInv, NEW p \in Movers, place' \in [Movers -> Standing],
         \A q \in Movers \ {p} : place'[q] = place[q] /\ making'[q] = making[q] /\ native'[q] = native[q]
                                  /\ scan'[q] = scan[q],
         p \in Collectors => CollectorAt(p)', p \in Keepers => KeeperAt(p)'
  PROVE  PlaceInv'
  <1>1. ASSUME NEW q \in Collectors PROVE CollectorAt(q)'
    <2>1. CASE q = p  BY <2>1
    <2>2. CASE q /= p  BY <2>2 DEF PlaceInv, CollectorAt, Movers
    <2> QED BY <2>1, <2>2
  <1>2. ASSUME NEW q \in Keepers PROVE KeeperAt(q)'
    <2>1. CASE q = p  BY <2>1
    <2>2. CASE q /= p  BY <2>2 DEF PlaceInv, KeeperAt, Movers
    <2> QED BY <2>1, <2>2
  <1> QED BY <1>1, <1>2 DEF PlaceInv

LEMMA PlaceStep == KeptTempTypeOK /\ PlaceInv /\ [KeptTempNext]_keptTempVars => PlaceInv'
  <1> SUFFICES ASSUME KeptTempTypeOK /\ PlaceInv, [KeptTempNext]_keptTempVars PROVE PlaceInv'  OBVIOUS
  <1> USE DirFacts DEF KeptTempTypeOK, PlaceInv
  <1>1. ASSUME NEW p \in Movers, Classify(p) PROVE PlaceInv'
    <2>1. \A q \in Movers \ {p} : place'[q] = place[q] /\ making'[q] = making[q] /\ native'[q] = native[q] /\ scan'[q] = scan[q]
      BY <1>1 DEF Classify, MovesOn, tempDisk, ledgerVars
    <2>2. place' \in [Movers -> Standing]  BY <1>1 DEF Classify, MovesOn, tempDisk, ledgerVars, Standing, SweepPlaces, GcPlaces, EndPlaces
    <2>3. p \in Collectors => CollectorAt(p)'
      BY <1>1, KeptTempAssumption DEF Classify, MovesOn, tempDisk, ledgerVars, Movers, CollectorAt, SweepPlaces, GcPlaces
    <2>4. p \in Keepers => KeeperAt(p)'
      BY <1>1, KeptTempAssumption DEF Classify, MovesOn, tempDisk, ledgerVars, Movers, KeeperAt, SweepPlaces, GcPlaces, EndPlaces
    <2> QED BY <2>1, <2>2, <2>3, <2>4, Elsewhere
  <1>2. ASSUME NEW p \in Movers, SweepSpares(p) PROVE PlaceInv'
    <2>1. \A q \in Movers \ {p} : place'[q] = place[q] /\ making'[q] = making[q] /\ native'[q] = native[q] /\ scan'[q] = scan[q]
      BY <1>2 DEF SweepSpares, MovesOn, tempDisk, ledgerVars
    <2>2. place' \in [Movers -> Standing]  BY <1>2 DEF SweepSpares, MovesOn, tempDisk, ledgerVars, Standing, SweepPlaces, GcPlaces, EndPlaces
    <2>3. p \in Collectors => CollectorAt(p)'
      BY <1>2, KeptTempAssumption DEF SweepSpares, MovesOn, tempDisk, ledgerVars, Movers, CollectorAt, SweepPlaces, GcPlaces
    <2>4. p \in Keepers => KeeperAt(p)'
      BY <1>2, KeptTempAssumption DEF SweepSpares, MovesOn, tempDisk, ledgerVars, Movers, KeeperAt, SweepPlaces, GcPlaces, EndPlaces
    <2> QED BY <2>1, <2>2, <2>3, <2>4, Elsewhere
  <1>3. ASSUME NEW p \in Movers, SweepLocks(p) PROVE PlaceInv'
    <2>1. \A q \in Movers \ {p} : place'[q] = place[q] /\ making'[q] = making[q] /\ native'[q] = native[q] /\ scan'[q] = scan[q]
      BY <1>3 DEF SweepLocks, MovesOn, LockDir, IsHeld, tempDisk, ledgerVars
    <2>2. place' \in [Movers -> Standing]  BY <1>3 DEF SweepLocks, MovesOn, LockDir, IsHeld, tempDisk, ledgerVars, Standing, SweepPlaces, GcPlaces, EndPlaces
    <2>3. p \in Collectors => CollectorAt(p)'
      BY <1>3, KeptTempAssumption DEF SweepLocks, MovesOn, LockDir, IsHeld, tempDisk, ledgerVars, Movers, CollectorAt, SweepPlaces, GcPlaces
    <2>4. p \in Keepers => KeeperAt(p)'
      BY <1>3, KeptTempAssumption DEF SweepLocks, MovesOn, LockDir, IsHeld, tempDisk, ledgerVars, Movers, KeeperAt, SweepPlaces, GcPlaces, EndPlaces
    <2> QED BY <2>1, <2>2, <2>3, <2>4, Elsewhere
  <1>4. ASSUME NEW p \in Movers, SweepUnlocks(p) PROVE PlaceInv'
    <2>1. \A q \in Movers \ {p} : place'[q] = place[q] /\ making'[q] = making[q] /\ native'[q] = native[q] /\ scan'[q] = scan[q]
      BY <1>4 DEF SweepUnlocks, MovesOn, UnlockDir, tempDisk, ledgerVars
    <2>2. place' \in [Movers -> Standing]  BY <1>4 DEF SweepUnlocks, MovesOn, UnlockDir, tempDisk, ledgerVars, Standing, SweepPlaces, GcPlaces, EndPlaces
    <2>3. p \in Collectors => CollectorAt(p)'
      BY <1>4, KeptTempAssumption DEF SweepUnlocks, MovesOn, UnlockDir, tempDisk, ledgerVars, Movers, CollectorAt, SweepPlaces, GcPlaces
    <2>4. p \in Keepers => KeeperAt(p)'
      BY <1>4, KeptTempAssumption DEF SweepUnlocks, MovesOn, UnlockDir, tempDisk, ledgerVars, Movers, KeeperAt, SweepPlaces, GcPlaces, EndPlaces
    <2> QED BY <2>1, <2>2, <2>3, <2>4, Elsewhere
  <1>5. ASSUME NEW p \in Movers, SweepEmpties(p) PROVE PlaceInv'
    <2>1. \A q \in Movers \ {p} : place'[q] = place[q] /\ making'[q] = making[q] /\ native'[q] = native[q] /\ scan'[q] = scan[q]
      BY <1>5 DEF SweepEmpties, MovesOn, EmptyDir, tempDisk, ledgerVars
    <2>2. place' \in [Movers -> Standing]  BY <1>5 DEF SweepEmpties, MovesOn, EmptyDir, tempDisk, ledgerVars, Standing, SweepPlaces, GcPlaces, EndPlaces
    <2>3. p \in Collectors => CollectorAt(p)'
      BY <1>5, KeptTempAssumption DEF SweepEmpties, MovesOn, EmptyDir, tempDisk, ledgerVars, Movers, CollectorAt, SweepPlaces, GcPlaces
    <2>4. p \in Keepers => KeeperAt(p)'
      BY <1>5, KeptTempAssumption DEF SweepEmpties, MovesOn, EmptyDir, tempDisk, ledgerVars, Movers, KeeperAt, SweepPlaces, GcPlaces, EndPlaces
    <2> QED BY <2>1, <2>2, <2>3, <2>4, Elsewhere
  <1>6. ASSUME NEW p \in Movers, SweepUnlinks(p) PROVE PlaceInv'
    <2>1. \A q \in Movers \ {p} : place'[q] = place[q] /\ making'[q] = making[q] /\ native'[q] = native[q] /\ scan'[q] = scan[q]
      BY <1>6 DEF SweepUnlinks, MovesOn, Unlinkable, UnlinkDir, tempDisk, ledgerVars
    <2>2. place' \in [Movers -> Standing]  BY <1>6 DEF SweepUnlinks, MovesOn, Unlinkable, UnlinkDir, tempDisk, ledgerVars, Standing, SweepPlaces, GcPlaces, EndPlaces
    <2>3. p \in Collectors => CollectorAt(p)'
      BY <1>6, KeptTempAssumption DEF SweepUnlinks, MovesOn, Unlinkable, UnlinkDir, tempDisk, ledgerVars, Movers, CollectorAt, SweepPlaces, GcPlaces
    <2>4. p \in Keepers => KeeperAt(p)'
      BY <1>6, KeptTempAssumption DEF SweepUnlinks, MovesOn, Unlinkable, UnlinkDir, tempDisk, ledgerVars, Movers, KeeperAt, SweepPlaces, GcPlaces, EndPlaces
    <2> QED BY <2>1, <2>2, <2>3, <2>4, Elsewhere
  <1>7. ASSUME NEW p \in Movers, RunSweeps(p) PROVE PlaceInv'
    <2>1. \A q \in Movers \ {p} : place'[q] = place[q] /\ making'[q] = making[q] /\ native'[q] = native[q] /\ scan'[q] = scan[q]
      BY <1>7 DEF RunSweeps, MovesOn, SweepLists, tempDisk, ledgerVars
    <2>2. place' \in [Movers -> Standing]  BY <1>7 DEF RunSweeps, MovesOn, SweepLists, tempDisk, ledgerVars, Standing, SweepPlaces, GcPlaces, EndPlaces
    <2>3. p \in Collectors => CollectorAt(p)'
      BY <1>7, KeptTempAssumption DEF RunSweeps, MovesOn, SweepLists, tempDisk, ledgerVars, Movers, CollectorAt, SweepPlaces, GcPlaces
    <2>4. p \in Keepers => KeeperAt(p)'
      <3>1. \/ place'[p] = "sweep" /\ scan'[p].of = "scratch"
            \/ place'[p] = "scratch"
        BY <1>7 DEF RunSweeps, MovesOn, SweepLists
      <3>2. place[p] = "start" /\ UNCHANGED <<making, native>>
        BY <1>7 DEF RunSweeps, MovesOn, SweepLists
      <3> QED BY <3>1, <3>2, KeptTempAssumption DEF Movers, KeeperAt, SweepPlaces, EndPlaces
    <2> QED BY <2>1, <2>2, <2>3, <2>4, Elsewhere
  <1>8. ASSUME NEW p \in Movers, ScratchSwept(p) PROVE PlaceInv'
    <2>1. \A q \in Movers \ {p} : place'[q] = place[q] /\ making'[q] = making[q] /\ native'[q] = native[q] /\ scan'[q] = scan[q]
      BY <1>8 DEF ScratchSwept, MovesOn, SweptAll, NoScan, tempDisk, ledgerVars
    <2>2. place' \in [Movers -> Standing]  BY <1>8 DEF ScratchSwept, MovesOn, SweptAll, NoScan, tempDisk, ledgerVars, Standing, SweepPlaces, GcPlaces, EndPlaces
    <2>3. p \in Collectors => CollectorAt(p)'
      BY <1>8, KeptTempAssumption DEF ScratchSwept, MovesOn, SweptAll, NoScan, tempDisk, ledgerVars, Movers, CollectorAt, SweepPlaces, GcPlaces
    <2>4. p \in Keepers => KeeperAt(p)'
      BY <1>8, KeptTempAssumption DEF ScratchSwept, MovesOn, SweptAll, NoScan, tempDisk, ledgerVars, Movers, KeeperAt, SweepPlaces, GcPlaces, EndPlaces
    <2> QED BY <2>1, <2>2, <2>3, <2>4, Elsewhere
  <1>9. ASSUME NEW p \in Movers, MakesScratch(p) PROVE PlaceInv'
    <2>1. \A q \in Movers \ {p} : place'[q] = place[q] /\ making'[q] = making[q] /\ native'[q] = native[q] /\ scan'[q] = scan[q]
      BY <1>9 DEF MakesScratch, MovesOn, Makes, NoScan, tempDisk, ledgerVars
    <2>2. place' \in [Movers -> Standing]  BY <1>9 DEF MakesScratch, MovesOn, Makes, NoScan, tempDisk, ledgerVars, Standing, SweepPlaces, GcPlaces, EndPlaces
    <2>3. p \in Collectors => CollectorAt(p)'
      BY <1>9, KeptTempAssumption DEF MakesScratch, MovesOn, Makes, NoScan, tempDisk, ledgerVars, Movers, CollectorAt, SweepPlaces, GcPlaces
    <2>4. p \in Keepers => KeeperAt(p)'
      BY <1>9, KeptTempAssumption DEF MakesScratch, MovesOn, Makes, NoScan, tempDisk, ledgerVars, Movers, KeeperAt, SweepPlaces, GcPlaces, EndPlaces
    <2> QED BY <2>1, <2>2, <2>3, <2>4, Elsewhere
  <1>10. ASSUME NEW p \in Movers, NativeSweeps(p) PROVE PlaceInv'
    <2>1. \A q \in Movers \ {p} : place'[q] = place[q] /\ making'[q] = making[q] /\ native'[q] = native[q] /\ scan'[q] = scan[q]
      BY <1>10 DEF NativeSweeps, MovesOn, SweepLists, tempDisk, ledgerVars
    <2>2. place' \in [Movers -> Standing]  BY <1>10 DEF NativeSweeps, MovesOn, SweepLists, tempDisk, ledgerVars, Standing, SweepPlaces, GcPlaces, EndPlaces
    <2>3. p \in Collectors => CollectorAt(p)'
      BY <1>10, KeptTempAssumption DEF NativeSweeps, MovesOn, SweepLists, tempDisk, ledgerVars, Movers, CollectorAt, SweepPlaces, GcPlaces
    <2>4. p \in Keepers => KeeperAt(p)'
      BY <1>10, KeptTempAssumption DEF NativeSweeps, MovesOn, SweepLists, tempDisk, ledgerVars, Movers, KeeperAt, SweepPlaces, GcPlaces, EndPlaces
    <2> QED BY <2>1, <2>2, <2>3, <2>4, Elsewhere
  <1>11. ASSUME NEW p \in Movers, Uncached(p) PROVE PlaceInv'
    <2>1. \A q \in Movers \ {p} : place'[q] = place[q] /\ making'[q] = making[q] /\ native'[q] = native[q] /\ scan'[q] = scan[q]
      BY <1>11 DEF Uncached, MovesOn, tempDisk, ledgerVars
    <2>2. place' \in [Movers -> Standing]  BY <1>11 DEF Uncached, MovesOn, tempDisk, ledgerVars, Standing, SweepPlaces, GcPlaces, EndPlaces
    <2>3. p \in Collectors => CollectorAt(p)'
      BY <1>11, KeptTempAssumption DEF Uncached, MovesOn, tempDisk, ledgerVars, Movers, CollectorAt, SweepPlaces, GcPlaces
    <2>4. p \in Keepers => KeeperAt(p)'
      BY <1>11, KeptTempAssumption DEF Uncached, MovesOn, tempDisk, ledgerVars, Movers, KeeperAt, SweepPlaces, GcPlaces, EndPlaces
    <2> QED BY <2>1, <2>2, <2>3, <2>4, Elsewhere
  <1>12. ASSUME NEW p \in Movers, MakesShared(p) PROVE PlaceInv'
    <2>1. \A q \in Movers \ {p} : place'[q] = place[q] /\ making'[q] = making[q] /\ native'[q] = native[q] /\ scan'[q] = scan[q]
      BY <1>12 DEF MakesShared, MovesOn, SweptAll, Makes, NoScan, tempDisk, ledgerVars
    <2>2. place' \in [Movers -> Standing]  BY <1>12 DEF MakesShared, MovesOn, SweptAll, Makes, NoScan, tempDisk, ledgerVars, Standing, SweepPlaces, GcPlaces, EndPlaces
    <2>3. p \in Collectors => CollectorAt(p)'
      BY <1>12, KeptTempAssumption DEF MakesShared, MovesOn, SweptAll, Makes, NoScan, tempDisk, ledgerVars, Movers, CollectorAt, SweepPlaces, GcPlaces
    <2>4. p \in Keepers => KeeperAt(p)'
      BY <1>12, KeptTempAssumption DEF MakesShared, MovesOn, SweptAll, Makes, NoScan, tempDisk, ledgerVars, Movers, KeeperAt, SweepPlaces, GcPlaces, EndPlaces
    <2> QED BY <2>1, <2>2, <2>3, <2>4, Elsewhere
  <1>13. ASSUME NEW p \in Movers, SharedTaken(p) PROVE PlaceInv'
    <2>1. \A q \in Movers \ {p} : place'[q] = place[q] /\ making'[q] = making[q] /\ native'[q] = native[q] /\ scan'[q] = scan[q]
      BY <1>13 DEF SharedTaken, MovesOn, IsHeld, Makes, NoScan, tempDisk, ledgerVars
    <2>2. place' \in [Movers -> Standing]  BY <1>13 DEF SharedTaken, MovesOn, IsHeld, Makes, NoScan, tempDisk, ledgerVars, Standing, SweepPlaces, GcPlaces, EndPlaces
    <2>3. p \in Collectors => CollectorAt(p)'
      BY <1>13, KeptTempAssumption DEF SharedTaken, MovesOn, IsHeld, Makes, NoScan, tempDisk, ledgerVars, Movers, CollectorAt, SweepPlaces, GcPlaces
    <2>4. p \in Keepers => KeeperAt(p)'
      BY <1>13, KeptTempAssumption DEF SharedTaken, MovesOn, IsHeld, Makes, NoScan, tempDisk, ledgerVars, Movers, KeeperAt, SweepPlaces, GcPlaces, EndPlaces
    <2> QED BY <2>1, <2>2, <2>3, <2>4, Elsewhere
  <1>14. ASSUME NEW p \in Movers, Claims(p) PROVE PlaceInv'
    <2>1. \A q \in Movers \ {p} : place'[q] = place[q] /\ making'[q] = making[q] /\ native'[q] = native[q] /\ scan'[q] = scan[q]
      BY <1>14 DEF Claims, MovesOn, LockDir, IsHeld, tempDisk, ledgerVars
    <2>2. place' \in [Movers -> Standing]  BY <1>14 DEF Claims, MovesOn, LockDir, IsHeld, tempDisk, ledgerVars, Standing, SweepPlaces, GcPlaces, EndPlaces
    <2>3. p \in Collectors => CollectorAt(p)'
      BY <1>14, KeptTempAssumption DEF Claims, MovesOn, LockDir, IsHeld, tempDisk, ledgerVars, Movers, CollectorAt, SweepPlaces, GcPlaces
    <2>4. p \in Keepers => KeeperAt(p)'
      BY <1>14, KeptTempAssumption DEF Claims, MovesOn, LockDir, IsHeld, tempDisk, ledgerVars, Movers, KeeperAt, SweepPlaces, GcPlaces, EndPlaces
    <2> QED BY <2>1, <2>2, <2>3, <2>4, Elsewhere
  <1>15. ASSUME NEW p \in Movers, Marks(p) PROVE PlaceInv'
    <2>1. \A q \in Movers \ {p} : place'[q] = place[q] /\ making'[q] = making[q] /\ native'[q] = native[q] /\ scan'[q] = scan[q]
      BY <1>15 DEF Marks, MovesOn, MarkDir, MarkerOf, tempDisk, ledgerVars
    <2>2. place' \in [Movers -> Standing]  BY <1>15 DEF Marks, MovesOn, MarkDir, MarkerOf, tempDisk, ledgerVars, Standing, SweepPlaces, GcPlaces, EndPlaces
    <2>3. p \in Collectors => CollectorAt(p)'
      BY <1>15, KeptTempAssumption DEF Marks, MovesOn, MarkDir, MarkerOf, tempDisk, ledgerVars, Movers, CollectorAt, SweepPlaces, GcPlaces
    <2>4. p \in Keepers => KeeperAt(p)'
      BY <1>15, KeptTempAssumption DEF Marks, MovesOn, MarkDir, MarkerOf, tempDisk, ledgerVars, Movers, KeeperAt, SweepPlaces, GcPlaces, EndPlaces
    <2> QED BY <2>1, <2>2, <2>3, <2>4, Elsewhere
  <1>16. ASSUME NEW p \in Movers, ClaimFails(p) PROVE PlaceInv'
    <2>1. \A q \in Movers \ {p} : place'[q] = place[q] /\ making'[q] = making[q] /\ native'[q] = native[q] /\ scan'[q] = scan[q]
      BY <1>16 DEF ClaimFails, MovesOn, UnlockDir, tempDisk, ledgerVars
    <2>2. place' \in [Movers -> Standing]  BY <1>16 DEF ClaimFails, MovesOn, UnlockDir, tempDisk, ledgerVars, Standing, SweepPlaces, GcPlaces, EndPlaces
    <2>3. p \in Collectors => CollectorAt(p)'
      BY <1>16, KeptTempAssumption DEF ClaimFails, MovesOn, UnlockDir, tempDisk, ledgerVars, Movers, CollectorAt, SweepPlaces, GcPlaces
    <2>4. p \in Keepers => KeeperAt(p)'
      BY <1>16, KeptTempAssumption DEF ClaimFails, MovesOn, UnlockDir, tempDisk, ledgerVars, Movers, KeeperAt, SweepPlaces, GcPlaces, EndPlaces
    <2> QED BY <2>1, <2>2, <2>3, <2>4, Elsewhere
  <1>17. ASSUME NEW p \in Movers, Works(p) PROVE PlaceInv'
    <2>1. \A q \in Movers \ {p} : place'[q] = place[q] /\ making'[q] = making[q] /\ native'[q] = native[q] /\ scan'[q] = scan[q]
      BY <1>17 DEF Works, MovesOn, OwnDirs, tempDisk, ledgerVars
    <2>2. place' \in [Movers -> Standing]  BY <1>17 DEF Works, MovesOn, OwnDirs, tempDisk, ledgerVars, Standing, SweepPlaces, GcPlaces, EndPlaces
    <2>3. p \in Collectors => CollectorAt(p)'
      BY <1>17, KeptTempAssumption DEF Works, MovesOn, OwnDirs, tempDisk, ledgerVars, Movers, CollectorAt, SweepPlaces, GcPlaces
    <2>4. p \in Keepers => KeeperAt(p)'
      BY <1>17, KeptTempAssumption DEF Works, MovesOn, OwnDirs, tempDisk, ledgerVars, Movers, KeeperAt, SweepPlaces, GcPlaces, EndPlaces
    <2> QED BY <2>1, <2>2, <2>3, <2>4, Elsewhere
  <1>18. ASSUME NEW p \in Movers, NoNative(p) PROVE PlaceInv'
    <2>1. \A q \in Movers \ {p} : place'[q] = place[q] /\ making'[q] = making[q] /\ native'[q] = native[q] /\ scan'[q] = scan[q]
      BY <1>18 DEF NoNative, MovesOn, LetGo, tempDisk, ledgerVars
    <2>2. place' \in [Movers -> Standing]
      <3>1. \E e \in {"done", "close", "note", "drop_empty"} : place' = [place EXCEPT ![p] = e]
        BY <1>18 DEF NoNative, MovesOn, LetGo, tempDisk, ledgerVars
      <3>2. {"done", "close", "note", "drop_empty"} \subseteq Standing  BY DEF Standing, EndPlaces
      <3> HIDE DEF KeptTempTypeOK
      <3> QED BY <3>1, <3>2
    <2>3. p \in Collectors => CollectorAt(p)'
      BY <1>18, KeptTempAssumption DEF NoNative, MovesOn, LetGo, tempDisk, ledgerVars, Movers, CollectorAt, SweepPlaces, GcPlaces
    <2>4. p \in Keepers => KeeperAt(p)'
      BY <1>18, KeptTempAssumption DEF NoNative, MovesOn, LetGo, tempDisk, ledgerVars, Movers, KeeperAt, SweepPlaces, GcPlaces, EndPlaces
    <2> QED BY <2>1, <2>2, <2>3, <2>4, Elsewhere
  <1>19. ASSUME NEW p \in Movers, KeepMarks(p) PROVE PlaceInv'
    <2>1. \A q \in Movers \ {p} : place'[q] = place[q] /\ making'[q] = making[q] /\ native'[q] = native[q] /\ scan'[q] = scan[q]
      BY <1>19 DEF KeepMarks, MovesOn, MarkDir, MarkerOf, Leaving, tempDisk, ledgerVars
    <2>2. place' \in [Movers -> Standing]  BY <1>19 DEF KeepMarks, MovesOn, MarkDir, MarkerOf, Leaving, tempDisk, ledgerVars, Standing, SweepPlaces, GcPlaces, EndPlaces
    <2>3. p \in Collectors => CollectorAt(p)'
      BY <1>19, KeptTempAssumption DEF KeepMarks, MovesOn, MarkDir, MarkerOf, Leaving, tempDisk, ledgerVars, Movers, CollectorAt, SweepPlaces, GcPlaces
    <2>4. p \in Keepers => KeeperAt(p)'
      BY <1>19, KeptTempAssumption DEF KeepMarks, MovesOn, MarkDir, MarkerOf, Leaving, tempDisk, ledgerVars, Movers, KeeperAt, SweepPlaces, GcPlaces, EndPlaces
    <2> QED BY <2>1, <2>2, <2>3, <2>4, Elsewhere
  <1>20. ASSUME NEW p \in Movers, KeepUnlocks(p) PROVE PlaceInv'
    <2>1. \A q \in Movers \ {p} : place'[q] = place[q] /\ making'[q] = making[q] /\ native'[q] = native[q] /\ scan'[q] = scan[q]
      BY <1>20 DEF KeepUnlocks, MovesOn, UnlockDir, Leaving, tempDisk, ledgerVars
    <2>2. place' \in [Movers -> Standing]  BY <1>20 DEF KeepUnlocks, MovesOn, UnlockDir, Leaving, tempDisk, ledgerVars, Standing, SweepPlaces, GcPlaces, EndPlaces
    <2>3. p \in Collectors => CollectorAt(p)'
      BY <1>20, KeptTempAssumption DEF KeepUnlocks, MovesOn, UnlockDir, Leaving, tempDisk, ledgerVars, Movers, CollectorAt, SweepPlaces, GcPlaces
    <2>4. p \in Keepers => KeeperAt(p)'
      BY <1>20, KeptTempAssumption DEF KeepUnlocks, MovesOn, UnlockDir, Leaving, tempDisk, ledgerVars, Movers, KeeperAt, SweepPlaces, GcPlaces, EndPlaces
    <2> QED BY <2>1, <2>2, <2>3, <2>4, Elsewhere
  <1>21. ASSUME NEW p \in Movers, KeepFails(p) PROVE PlaceInv'
    <2>1. \A q \in Movers \ {p} : place'[q] = place[q] /\ making'[q] = making[q] /\ native'[q] = native[q] /\ scan'[q] = scan[q]
      BY <1>21 DEF KeepFails, MovesOn, UnlockDir, Leaving, LetGo, tempDisk, ledgerVars
    <2>2. place' \in [Movers -> Standing]
      <3>1. \E e \in {"done", "close", "note", "drop_empty"} : place' = [place EXCEPT ![p] = e]
        BY <1>21 DEF KeepFails, MovesOn, UnlockDir, Leaving, LetGo, tempDisk, ledgerVars
      <3>2. {"done", "close", "note", "drop_empty"} \subseteq Standing  BY DEF Standing, EndPlaces
      <3> HIDE DEF KeptTempTypeOK
      <3> QED BY <3>1, <3>2
    <2>3. p \in Collectors => CollectorAt(p)'
      BY <1>21, KeptTempAssumption DEF KeepFails, MovesOn, UnlockDir, Leaving, LetGo, tempDisk, ledgerVars, Movers, CollectorAt, SweepPlaces, GcPlaces
    <2>4. p \in Keepers => KeeperAt(p)'
      BY <1>21, KeptTempAssumption DEF KeepFails, MovesOn, UnlockDir, Leaving, LetGo, tempDisk, ledgerVars, Movers, KeeperAt, SweepPlaces, GcPlaces, EndPlaces
    <2> QED BY <2>1, <2>2, <2>3, <2>4, Elsewhere
  <1>22. ASSUME NEW p \in Movers, Releases(p) PROVE PlaceInv'
    <2>1. \A q \in Movers \ {p} : place'[q] = place[q] /\ making'[q] = making[q] /\ native'[q] = native[q] /\ scan'[q] = scan[q]
      BY <1>22 DEF Releases, MovesOn, UnlockDir, Leaving, LetGo, tempDisk, ledgerVars
    <2>2. place' \in [Movers -> Standing]  BY <1>22, SMTT(30) DEF Releases, MovesOn, UnlockDir, Leaving, LetGo, tempDisk, ledgerVars, Standing, SweepPlaces, GcPlaces, EndPlaces
    <2>3. p \in Collectors => CollectorAt(p)'
      BY <1>22, KeptTempAssumption DEF Releases, MovesOn, UnlockDir, Leaving, LetGo, tempDisk, ledgerVars, Movers, CollectorAt, SweepPlaces, GcPlaces
    <2>4. p \in Keepers => KeeperAt(p)'
      BY <1>22, KeptTempAssumption DEF Releases, MovesOn, UnlockDir, Leaving, LetGo, tempDisk, ledgerVars, Movers, KeeperAt, SweepPlaces, GcPlaces, EndPlaces
    <2> QED BY <2>1, <2>2, <2>3, <2>4, Elsewhere
  <1>23. ASSUME NEW p \in Movers, DropEmpties(p) PROVE PlaceInv'
    <2>1. \A q \in Movers \ {p} : place'[q] = place[q] /\ making'[q] = making[q] /\ native'[q] = native[q] /\ scan'[q] = scan[q]
      BY <1>23 DEF DropEmpties, MovesOn, EmptyDir, tempDisk, ledgerVars
    <2>2. place' \in [Movers -> Standing]  BY <1>23 DEF DropEmpties, MovesOn, EmptyDir, tempDisk, ledgerVars, Standing, SweepPlaces, GcPlaces, EndPlaces
    <2>3. p \in Collectors => CollectorAt(p)'
      BY <1>23, KeptTempAssumption DEF DropEmpties, MovesOn, EmptyDir, tempDisk, ledgerVars, Movers, CollectorAt, SweepPlaces, GcPlaces
    <2>4. p \in Keepers => KeeperAt(p)'
      BY <1>23, KeptTempAssumption DEF DropEmpties, MovesOn, EmptyDir, tempDisk, ledgerVars, Movers, KeeperAt, SweepPlaces, GcPlaces, EndPlaces
    <2> QED BY <2>1, <2>2, <2>3, <2>4, Elsewhere
  <1>24. ASSUME NEW p \in Movers, DropUnlinks(p) PROVE PlaceInv'
    <2>1. \A q \in Movers \ {p} : place'[q] = place[q] /\ making'[q] = making[q] /\ native'[q] = native[q] /\ scan'[q] = scan[q]
      BY <1>24 DEF DropUnlinks, MovesOn, Unlinkable, UnlinkDir, LetGo, tempDisk, ledgerVars
    <2>2. place' \in [Movers -> Standing]
      <3>1. \E e \in {"work", "done", "close"} : place' = [place EXCEPT ![p] = e]
        BY <1>24 DEF DropUnlinks, MovesOn, LetGo
      <3>2. {"work", "done", "close"} \subseteq Standing  BY DEF Standing, EndPlaces
      <3> HIDE DEF KeptTempTypeOK
      <3> QED BY <3>1, <3>2
    <2>3. p \in Collectors => CollectorAt(p)'
      BY <1>24, KeptTempAssumption DEF DropUnlinks, MovesOn, Unlinkable, UnlinkDir, LetGo, tempDisk, ledgerVars, Movers, CollectorAt, SweepPlaces, GcPlaces
    <2>4. p \in Keepers => KeeperAt(p)'
      BY <1>24, KeptTempAssumption DEF DropUnlinks, MovesOn, Unlinkable, UnlinkDir, LetGo, tempDisk, ledgerVars, Movers, KeeperAt, SweepPlaces, GcPlaces, EndPlaces
    <2> QED BY <2>1, <2>2, <2>3, <2>4, Elsewhere
  <1>25. ASSUME NEW p \in Movers, NoteReads(p) PROVE PlaceInv'
    <2>1. \A q \in Movers \ {p} : place'[q] = place[q] /\ making'[q] = making[q] /\ native'[q] = native[q] /\ scan'[q] = scan[q]
      BY <1>25 DEF NoteReads, MovesOn, TakeLedger, tempDisk, ledgerVars
    <2>2. place' \in [Movers -> Standing]  BY <1>25 DEF NoteReads, MovesOn, TakeLedger, tempDisk, ledgerVars, Standing, SweepPlaces, GcPlaces, EndPlaces
    <2>3. p \in Collectors => CollectorAt(p)'
      BY <1>25, KeptTempAssumption DEF NoteReads, MovesOn, TakeLedger, tempDisk, ledgerVars, Movers, CollectorAt, SweepPlaces, GcPlaces
    <2>4. p \in Keepers => KeeperAt(p)'
      BY <1>25, KeptTempAssumption DEF NoteReads, MovesOn, TakeLedger, tempDisk, ledgerVars, Movers, KeeperAt, SweepPlaces, GcPlaces, EndPlaces
    <2> QED BY <2>1, <2>2, <2>3, <2>4, Elsewhere
  <1>26. ASSUME NEW p \in Movers, NoteWrites(p) PROVE PlaceInv'
    <2>1. \A q \in Movers \ {p} : place'[q] = place[q] /\ making'[q] = making[q] /\ native'[q] = native[q] /\ scan'[q] = scan[q]
      BY <1>26 DEF NoteWrites, MovesOn, LetGo, SaveLedger, Leaving, UnreadLedger, tempDisk, ledgerVars
    <2>2. place' \in [Movers -> Standing]  BY <1>26, SMTT(30) DEF NoteWrites, MovesOn, LetGo, SaveLedger, Leaving, UnreadLedger, tempDisk, ledgerVars, Standing, SweepPlaces, GcPlaces, EndPlaces
    <2>3. p \in Collectors => CollectorAt(p)'
      BY <1>26, KeptTempAssumption DEF NoteWrites, MovesOn, LetGo, SaveLedger, Leaving, UnreadLedger, tempDisk, ledgerVars, Movers, CollectorAt, SweepPlaces, GcPlaces
    <2>4. p \in Keepers => KeeperAt(p)'
      BY <1>26, KeptTempAssumption DEF NoteWrites, MovesOn, LetGo, SaveLedger, Leaving, UnreadLedger, tempDisk, ledgerVars, Movers, KeeperAt, SweepPlaces, GcPlaces, EndPlaces
    <2> QED BY <2>1, <2>2, <2>3, <2>4, Elsewhere
  <1>27. ASSUME NEW p \in Movers, NoteGivesUp(p) PROVE PlaceInv'
    <2>1. \A q \in Movers \ {p} : place'[q] = place[q] /\ making'[q] = making[q] /\ native'[q] = native[q] /\ scan'[q] = scan[q]
      BY <1>27 DEF NoteGivesUp, MovesOn, LetGo, tempDisk, ledgerVars
    <2>2. place' \in [Movers -> Standing]
      <3>1. \E e \in {"done", "close", "note", "drop_empty"} : place' = [place EXCEPT ![p] = e]
        BY <1>27 DEF NoteGivesUp, MovesOn, LetGo, tempDisk, ledgerVars
      <3>2. {"done", "close", "note", "drop_empty"} \subseteq Standing  BY DEF Standing, EndPlaces
      <3> HIDE DEF KeptTempTypeOK
      <3> QED BY <3>1, <3>2
    <2>3. p \in Collectors => CollectorAt(p)'
      BY <1>27, KeptTempAssumption DEF NoteGivesUp, MovesOn, LetGo, tempDisk, ledgerVars, Movers, CollectorAt, SweepPlaces, GcPlaces
    <2>4. p \in Keepers => KeeperAt(p)'
      BY <1>27, KeptTempAssumption DEF NoteGivesUp, MovesOn, LetGo, tempDisk, ledgerVars, Movers, KeeperAt, SweepPlaces, GcPlaces, EndPlaces
    <2> QED BY <2>1, <2>2, <2>3, <2>4, Elsewhere
  <1>28. ASSUME NEW p \in Movers, GcSweeps(p) PROVE PlaceInv'
    <2>1. \A q \in Movers \ {p} : place'[q] = place[q] /\ making'[q] = making[q] /\ native'[q] = native[q] /\ scan'[q] = scan[q]
      BY <1>28 DEF GcSweeps, MovesOn, SweptAll, SweepLists, tempDisk, ledgerVars
    <2>2. place' \in [Movers -> Standing]  BY <1>28 DEF GcSweeps, MovesOn, SweptAll, SweepLists, tempDisk, ledgerVars, Standing, SweepPlaces, GcPlaces, EndPlaces
    <2>3. p \in Collectors => CollectorAt(p)'
      BY <1>28, KeptTempAssumption DEF GcSweeps, MovesOn, SweptAll, SweepLists, tempDisk, ledgerVars, Movers, CollectorAt, SweepPlaces, GcPlaces
    <2>4. p \in Keepers => KeeperAt(p)'
      BY <1>28, KeptTempAssumption DEF GcSweeps, MovesOn, SweptAll, SweepLists, tempDisk, ledgerVars, Movers, KeeperAt, SweepPlaces, GcPlaces, EndPlaces
    <2> QED BY <2>1, <2>2, <2>3, <2>4, Elsewhere
  <1>29. ASSUME NEW p \in Movers, GcSwept(p) PROVE PlaceInv'
    <2>1. \A q \in Movers \ {p} : place'[q] = place[q] /\ making'[q] = making[q] /\ native'[q] = native[q] /\ scan'[q] = scan[q]
      BY <1>29 DEF GcSwept, MovesOn, SweptAll, NoScan, tempDisk, ledgerVars
    <2>2. place' \in [Movers -> Standing]  BY <1>29 DEF GcSwept, MovesOn, SweptAll, NoScan, tempDisk, ledgerVars, Standing, SweepPlaces, GcPlaces, EndPlaces
    <2>3. p \in Collectors => CollectorAt(p)'
      BY <1>29, KeptTempAssumption DEF GcSwept, MovesOn, SweptAll, NoScan, tempDisk, ledgerVars, Movers, CollectorAt, SweepPlaces, GcPlaces
    <2>4. p \in Keepers => KeeperAt(p)'
      BY <1>29, KeptTempAssumption DEF GcSwept, MovesOn, SweptAll, NoScan, tempDisk, ledgerVars, Movers, KeeperAt, SweepPlaces, GcPlaces, EndPlaces
    <2> QED BY <2>1, <2>2, <2>3, <2>4, Elsewhere
  <1>30. ASSUME NEW p \in Movers, GcReads(p) PROVE PlaceInv'
    <2>1. \A q \in Movers \ {p} : place'[q] = place[q] /\ making'[q] = making[q] /\ native'[q] = native[q] /\ scan'[q] = scan[q]
      BY <1>30 DEF GcReads, MovesOn, TakeLedger, tempDisk, ledgerVars
    <2>2. place' \in [Movers -> Standing]  BY <1>30 DEF GcReads, MovesOn, TakeLedger, tempDisk, ledgerVars, Standing, SweepPlaces, GcPlaces, EndPlaces
    <2>3. p \in Collectors => CollectorAt(p)'
      BY <1>30, KeptTempAssumption DEF GcReads, MovesOn, TakeLedger, tempDisk, ledgerVars, Movers, CollectorAt, SweepPlaces, GcPlaces
    <2>4. p \in Keepers => KeeperAt(p)'
      BY <1>30, KeptTempAssumption DEF GcReads, MovesOn, TakeLedger, tempDisk, ledgerVars, Movers, KeeperAt, SweepPlaces, GcPlaces, EndPlaces
    <2> QED BY <2>1, <2>2, <2>3, <2>4, Elsewhere
  <1>31. ASSUME NEW p \in Movers, GcGivesUp(p) PROVE PlaceInv'
    <2>1. \A q \in Movers \ {p} : place'[q] = place[q] /\ making'[q] = making[q] /\ native'[q] = native[q] /\ scan'[q] = scan[q]
      BY <1>31 DEF GcGivesUp, MovesOn, tempDisk, ledgerVars
    <2>2. place' \in [Movers -> Standing]  BY <1>31 DEF GcGivesUp, MovesOn, tempDisk, ledgerVars, Standing, SweepPlaces, GcPlaces, EndPlaces
    <2>3. p \in Collectors => CollectorAt(p)'
      BY <1>31, KeptTempAssumption DEF GcGivesUp, MovesOn, tempDisk, ledgerVars, Movers, CollectorAt, SweepPlaces, GcPlaces
    <2>4. p \in Keepers => KeeperAt(p)'
      BY <1>31, KeptTempAssumption DEF GcGivesUp, MovesOn, tempDisk, ledgerVars, Movers, KeeperAt, SweepPlaces, GcPlaces, EndPlaces
    <2> QED BY <2>1, <2>2, <2>3, <2>4, Elsewhere
  <1>32. ASSUME NEW p \in Movers, GcPasses(p) PROVE PlaceInv'
    <2>1. \A q \in Movers \ {p} : place'[q] = place[q] /\ making'[q] = making[q] /\ native'[q] = native[q] /\ scan'[q] = scan[q]
      BY <1>32 DEF GcPasses, MovesOn, tempDisk, ledgerVars
    <2>2. place' \in [Movers -> Standing]  BY <1>32 DEF GcPasses, MovesOn, tempDisk, ledgerVars, Standing, SweepPlaces, GcPlaces, EndPlaces
    <2>3. p \in Collectors => CollectorAt(p)'
      BY <1>32, KeptTempAssumption DEF GcPasses, MovesOn, tempDisk, ledgerVars, Movers, CollectorAt, SweepPlaces, GcPlaces
    <2>4. p \in Keepers => KeeperAt(p)'
      BY <1>32, KeptTempAssumption DEF GcPasses, MovesOn, tempDisk, ledgerVars, Movers, KeeperAt, SweepPlaces, GcPlaces, EndPlaces
    <2> QED BY <2>1, <2>2, <2>3, <2>4, Elsewhere
  <1>33. ASSUME NEW p \in Movers, GcTakes(p) PROVE PlaceInv'
    <2>1. \A q \in Movers \ {p} : place'[q] = place[q] /\ making'[q] = making[q] /\ native'[q] = native[q] /\ scan'[q] = scan[q]
      BY <1>33 DEF GcTakes, MovesOn, Vouched, MarkerOf, tempDisk, ledgerVars
    <2>2. place' \in [Movers -> Standing]  BY <1>33 DEF GcTakes, MovesOn, Vouched, MarkerOf, tempDisk, ledgerVars, Standing, SweepPlaces, GcPlaces, EndPlaces
    <2>3. p \in Collectors => CollectorAt(p)'
      BY <1>33, KeptTempAssumption DEF GcTakes, MovesOn, Vouched, MarkerOf, tempDisk, ledgerVars, Movers, CollectorAt, SweepPlaces, GcPlaces
    <2>4. p \in Keepers => KeeperAt(p)'
      BY <1>33, KeptTempAssumption DEF GcTakes, MovesOn, Vouched, MarkerOf, tempDisk, ledgerVars, Movers, KeeperAt, SweepPlaces, GcPlaces, EndPlaces
    <2> QED BY <2>1, <2>2, <2>3, <2>4, Elsewhere
  <1>34. ASSUME NEW p \in Movers, GcEmpties(p) PROVE PlaceInv'
    <2>1. \A q \in Movers \ {p} : place'[q] = place[q] /\ making'[q] = making[q] /\ native'[q] = native[q] /\ scan'[q] = scan[q]
      BY <1>34 DEF GcEmpties, MovesOn, EmptyDir, tempDisk, ledgerVars
    <2>2. place' \in [Movers -> Standing]  BY <1>34 DEF GcEmpties, MovesOn, EmptyDir, tempDisk, ledgerVars, Standing, SweepPlaces, GcPlaces, EndPlaces
    <2>3. p \in Collectors => CollectorAt(p)'
      BY <1>34, KeptTempAssumption DEF GcEmpties, MovesOn, EmptyDir, tempDisk, ledgerVars, Movers, CollectorAt, SweepPlaces, GcPlaces
    <2>4. p \in Keepers => KeeperAt(p)'
      BY <1>34, KeptTempAssumption DEF GcEmpties, MovesOn, EmptyDir, tempDisk, ledgerVars, Movers, KeeperAt, SweepPlaces, GcPlaces, EndPlaces
    <2> QED BY <2>1, <2>2, <2>3, <2>4, Elsewhere
  <1>35. ASSUME NEW p \in Movers, GcUnlinks(p) PROVE PlaceInv'
    <2>1. \A q \in Movers \ {p} : place'[q] = place[q] /\ making'[q] = making[q] /\ native'[q] = native[q] /\ scan'[q] = scan[q]
      BY <1>35 DEF GcUnlinks, MovesOn, Unlinkable, UnlinkDir, tempDisk, ledgerVars
    <2>2. place' \in [Movers -> Standing]  BY <1>35 DEF GcUnlinks, MovesOn, Unlinkable, UnlinkDir, tempDisk, ledgerVars, Standing, SweepPlaces, GcPlaces, EndPlaces
    <2>3. p \in Collectors => CollectorAt(p)'
      BY <1>35, KeptTempAssumption DEF GcUnlinks, MovesOn, Unlinkable, UnlinkDir, tempDisk, ledgerVars, Movers, CollectorAt, SweepPlaces, GcPlaces
    <2>4. p \in Keepers => KeeperAt(p)'
      BY <1>35, KeptTempAssumption DEF GcUnlinks, MovesOn, Unlinkable, UnlinkDir, tempDisk, ledgerVars, Movers, KeeperAt, SweepPlaces, GcPlaces, EndPlaces
    <2> QED BY <2>1, <2>2, <2>3, <2>4, Elsewhere
  <1>36. ASSUME NEW p \in Movers, GcWrites(p) PROVE PlaceInv'
    <2>1. \A q \in Movers \ {p} : place'[q] = place[q] /\ making'[q] = making[q] /\ native'[q] = native[q] /\ scan'[q] = scan[q]
      BY <1>36 DEF GcWrites, MovesOn, SaveLedger, NoScan, UnreadLedger, tempDisk, ledgerVars
    <2>2. place' \in [Movers -> Standing]  BY <1>36 DEF GcWrites, MovesOn, SaveLedger, NoScan, UnreadLedger, tempDisk, ledgerVars, Standing, SweepPlaces, GcPlaces, EndPlaces
    <2>3. p \in Collectors => CollectorAt(p)'
      BY <1>36, KeptTempAssumption DEF GcWrites, MovesOn, SaveLedger, NoScan, UnreadLedger, tempDisk, ledgerVars, Movers, CollectorAt, SweepPlaces, GcPlaces
    <2>4. p \in Keepers => KeeperAt(p)'
      BY <1>36, KeptTempAssumption DEF GcWrites, MovesOn, SaveLedger, NoScan, UnreadLedger, tempDisk, ledgerVars, Movers, KeeperAt, SweepPlaces, GcPlaces, EndPlaces
    <2> QED BY <2>1, <2>2, <2>3, <2>4, Elsewhere
  <1>37. ASSUME NEW p \in Movers, Dies(p) PROVE PlaceInv'
    <2>1. \A q \in Movers \ {p} : place'[q] = place[q] /\ making'[q] = making[q] /\ native'[q] = native[q] /\ scan'[q] = scan[q]
      BY <1>37 DEF Dies, UnreadLedger, NoScan, tempDisk, ledgerVars
    <2>2. place' \in [Movers -> Standing]  BY <1>37 DEF Dies, UnreadLedger, NoScan, tempDisk, ledgerVars, Standing, SweepPlaces, GcPlaces, EndPlaces
    <2>3. p \in Collectors => CollectorAt(p)'
      BY <1>37, KeptTempAssumption DEF Dies, UnreadLedger, NoScan, tempDisk, ledgerVars, Movers, CollectorAt, SweepPlaces, GcPlaces
    <2>4. p \in Keepers => KeeperAt(p)'
      BY <1>37, KeptTempAssumption DEF Dies, UnreadLedger, NoScan, tempDisk, ledgerVars, Movers, KeeperAt, SweepPlaces, GcPlaces, EndPlaces
    <2> QED BY <2>1, <2>2, <2>3, <2>4, Elsewhere
  <1>38. ASSUME NEW e \in TempDirs, Ages(e) PROVE PlaceInv'
    BY <1>38 DEF Ages, CollectorAt, KeeperAt, tempDisk, ledgerVars
  <1>39. CASE UNCHANGED keptTempVars
    BY <1>39 DEF CollectorAt, KeeperAt, keptTempVars, tempDisk, ledgerVars
  <1> QED
    BY <1>1, <1>2, <1>3, <1>4, <1>5, <1>6, <1>7, <1>8, <1>9, <1>10, <1>11, <1>12,
       <1>13, <1>14, <1>15, <1>16, <1>17, <1>18, <1>19, <1>20, <1>21, <1>22, <1>23, <1>24,
       <1>25, <1>26, <1>27, <1>28, <1>29, <1>30, <1>31, <1>32, <1>33, <1>34, <1>35, <1>36,
       <1>37, <1>38, <1>39
    DEF KeptTempNext, SweepNext, RunNext, LedgerNext

MarkerSet == [run : Keepers \cup {Earlier, "nobody"}, kept : BOOLEAN]
Lines == [TempDirs -> Keepers \cup {Earlier, "nobody"}]
Scans == [of : {"none", "scratch", "native", "ledger"}, left : SUBSET TempDirs,
          at : TempDirs \cup {NoDir}, kept : SUBSET TempDirs]

LEMMA KeptTypesStep == KeptTempTypeOK /\ PlaceInv /\ ScanInv /\ [KeptTempNext]_keptTempVars => KeptTempTypeOK'
  <1> SUFFICES ASSUME KeptTempTypeOK /\ PlaceInv /\ ScanInv, [KeptTempNext]_keptTempVars PROVE KeptTempTypeOK'  OBVIOUS
  <1> USE DirFacts, KeptTempAssumption DEF KeptTempTypeOK, PlaceInv, ScanInv, CollectorAt, KeeperAt, Movers, SweepPlaces, GcPlaces, EndPlaces, UnreadLedger, NoScan, Unmarked
  <1>1. ASSUME NEW p \in Movers, Classify(p) PROVE KeptTempTypeOK'
    BY <1>1, SMTT(30) DEF Classify, MovesOn, tempDisk, ledgerVars
  <1>2. ASSUME NEW p \in Movers, SweepSpares(p) PROVE KeptTempTypeOK'
    BY <1>2 DEF SweepSpares, MovesOn, tempDisk, ledgerVars
  <1>3. ASSUME NEW p \in Movers, SweepLocks(p) PROVE KeptTempTypeOK'
    BY <1>3 DEF SweepLocks, MovesOn, LockDir, IsHeld, tempDisk, ledgerVars
  <1>4. ASSUME NEW p \in Movers, SweepUnlocks(p) PROVE KeptTempTypeOK'
    BY <1>4 DEF SweepUnlocks, MovesOn, UnlockDir, tempDisk, ledgerVars
  <1>5. ASSUME NEW p \in Movers, SweepEmpties(p) PROVE KeptTempTypeOK'
    BY <1>5 DEF SweepEmpties, MovesOn, EmptyDir, tempDisk, ledgerVars
  <1>6. ASSUME NEW p \in Movers, SweepUnlinks(p) PROVE KeptTempTypeOK'
    BY <1>6 DEF SweepUnlinks, MovesOn, Unlinkable, UnlinkDir, tempDisk, ledgerVars
  <1>7. ASSUME NEW p \in Movers, RunSweeps(p) PROVE KeptTempTypeOK'
    <2>1. /\ present' \subseteq TempDirs /\ filled' \subseteq TempDirs /\ stale' \subseteq TempDirs
          /\ ownerLock' \in [TempDirs -> Movers \cup {"free", "absent"}]
          /\ ownerMarker' \in [TempDirs -> MarkerSet] /\ keeps' \subseteq Keepers
      BY <1>7 DEF RunSweeps, MovesOn, SweepLists, tempDisk, ledgerVars, MarkerSet
    <2>2. /\ ledger' \in Lines /\ recorded' \in Lines /\ loaded' \in [Movers -> Lines]
          /\ ledgerLock' \in Movers \cup {"free"}
      BY <1>7 DEF RunSweeps, MovesOn, SweepLists, tempDisk, ledgerVars, Lines
    <2>3. making' \in [Movers -> TempDirs \cup {NoDir}] /\ native' \in [Movers -> TempDirs \cup {NoDir}]
      BY <1>7 DEF RunSweeps, MovesOn, SweepLists, tempDisk, ledgerVars
    <2>4. scan' \in [Movers -> Scans]
      <3>1. scan' = scan \/ \E s \in Scans : scan' = [scan EXCEPT ![p] = s]
        <4>1. CASE scan' = scan  BY <4>1
        <4>2. CASE SweepLists(p, "scratch")
          <5> DEFINE s == [of |-> "scratch", left |-> {d \in present : d[1] = "scratch"}, at |-> NoDir,
                           kept |-> {d \in present : ownerMarker[d].kept}]
          <5>1. s \in Scans  BY DEF Scans
          <5>2. scan' = [scan EXCEPT ![p] = s]  BY <4>2 DEF SweepLists
          <5> QED BY <5>1, <5>2
        <4> QED BY <1>7, <4>1, <4>2 DEF RunSweeps
      <3>2. scan \in [Movers -> Scans]  BY DEF Scans
      <3> HIDE DEF Scans, KeptTempTypeOK, PlaceInv, ScanInv
      <3> QED BY <3>1, <3>2
    <2> QED BY <2>1, <2>2, <2>3, <2>4 DEF MarkerSet, Lines, Scans
  <1>8. ASSUME NEW p \in Movers, ScratchSwept(p) PROVE KeptTempTypeOK'
    BY <1>8 DEF ScratchSwept, MovesOn, SweptAll, NoScan, tempDisk, ledgerVars
  <1>9. ASSUME NEW p \in Movers, MakesScratch(p) PROVE KeptTempTypeOK'
    <2>1. /\ present' \subseteq TempDirs /\ filled' \subseteq TempDirs /\ stale' \subseteq TempDirs
          /\ ownerLock' \in [TempDirs -> Movers \cup {"free", "absent"}]
          /\ ownerMarker' \in [TempDirs -> MarkerSet] /\ keeps' \subseteq Keepers
      BY <1>9, SMTT(30) DEF MakesScratch, MovesOn, Makes, NoScan, tempDisk, ledgerVars, MarkerSet
    <2>2. /\ ledger' \in Lines /\ recorded' \in Lines /\ loaded' \in [Movers -> Lines]
          /\ ledgerLock' \in Movers \cup {"free"}
      BY <1>9 DEF MakesScratch, MovesOn, Makes, NoScan, tempDisk, ledgerVars, Lines
    <2>3. making' \in [Movers -> TempDirs \cup {NoDir}] /\ native' \in [Movers -> TempDirs \cup {NoDir}]
      BY <1>9 DEF MakesScratch, MovesOn, Makes, NoScan, tempDisk, ledgerVars
    <2>4. scan' \in [Movers -> Scans]
      BY <1>9 DEF MakesScratch, MovesOn, Makes, NoScan, tempDisk, ledgerVars, Scans
    <2> QED BY <2>1, <2>2, <2>3, <2>4 DEF MarkerSet, Lines, Scans
  <1>10. ASSUME NEW p \in Movers, NativeSweeps(p) PROVE KeptTempTypeOK'
    BY <1>10 DEF NativeSweeps, MovesOn, SweepLists, tempDisk, ledgerVars
  <1>11. ASSUME NEW p \in Movers, Uncached(p) PROVE KeptTempTypeOK'
    BY <1>11 DEF Uncached, MovesOn, tempDisk, ledgerVars
  <1>12. ASSUME NEW p \in Movers, MakesShared(p) PROVE KeptTempTypeOK'
    BY <1>12 DEF MakesShared, MovesOn, SweptAll, Makes, NoScan, tempDisk, ledgerVars
  <1>13. ASSUME NEW p \in Movers, SharedTaken(p) PROVE KeptTempTypeOK'
    BY <1>13 DEF SharedTaken, MovesOn, IsHeld, Makes, NoScan, tempDisk, ledgerVars
  <1>14. ASSUME NEW p \in Movers, Claims(p) PROVE KeptTempTypeOK'
    BY <1>14 DEF Claims, MovesOn, LockDir, IsHeld, tempDisk, ledgerVars
  <1>15. ASSUME NEW p \in Movers, Marks(p) PROVE KeptTempTypeOK'
    BY <1>15 DEF Marks, MovesOn, MarkDir, MarkerOf, tempDisk, ledgerVars
  <1>16. ASSUME NEW p \in Movers, ClaimFails(p) PROVE KeptTempTypeOK'
    <2>1. /\ present' \subseteq TempDirs /\ filled' \subseteq TempDirs /\ stale' \subseteq TempDirs
          /\ ownerLock' \in [TempDirs -> Movers \cup {"free", "absent"}]
          /\ ownerMarker' \in [TempDirs -> MarkerSet] /\ keeps' \subseteq Keepers
      <3>1. ownerLock' = [ownerLock EXCEPT ![making[p]] = IF @ = p THEN "free" ELSE @]
        BY <1>16 DEF ClaimFails, MovesOn, UnlockDir, tempDisk, ledgerVars
      <3>4. making[p] \in TempDirs
        <4>1. p \in Keepers /\ place[p] \in {"claim", "mark"}  BY <1>16 DEF ClaimFails
        <4>2. KeeperAt(p)  BY <4>1 DEF PlaceInv
        <4> QED BY <4>1, <4>2 DEF KeeperAt
      <3>2. ownerLock' \in [TempDirs -> Movers \cup {"free", "absent"}]
        <4> DEFINE d == making[p]
                   l == IF ownerLock[d] = p THEN "free" ELSE ownerLock[d]
        <4>1. l \in Movers \cup {"free", "absent"}  BY <3>4
        <4>2. ownerLock' = [ownerLock EXCEPT ![d] = l]  BY <3>1
        <4> HIDE DEF d, l
        <4> QED BY <4>1, <4>2
      <3>3. UNCHANGED <<present, filled, stale, ownerMarker, keeps>>  BY <1>16 DEF ClaimFails, MovesOn, UnlockDir, tempDisk, ledgerVars
      <3> QED BY <3>2, <3>3 DEF MarkerSet
    <2>2. /\ ledger' \in Lines /\ recorded' \in Lines /\ loaded' \in [Movers -> Lines]
          /\ ledgerLock' \in Movers \cup {"free"}
      BY <1>16 DEF ClaimFails, MovesOn, UnlockDir, tempDisk, ledgerVars, Lines
    <2>3. making' \in [Movers -> TempDirs \cup {NoDir}] /\ native' \in [Movers -> TempDirs \cup {NoDir}]
      BY <1>16 DEF ClaimFails, MovesOn, UnlockDir, tempDisk, ledgerVars
    <2>4. scan' \in [Movers -> Scans]
      <3>1. scan' = scan  BY <1>16 DEF ClaimFails, MovesOn, UnlockDir, tempDisk, ledgerVars
      <3> QED BY <3>1 DEF Scans
    <2> QED BY <2>1, <2>2, <2>3, <2>4 DEF MarkerSet, Lines, Scans
  <1>17. ASSUME NEW p \in Movers, Works(p) PROVE KeptTempTypeOK'
    BY <1>17 DEF Works, MovesOn, OwnDirs, tempDisk, ledgerVars
  <1>18. ASSUME NEW p \in Movers, NoNative(p) PROVE KeptTempTypeOK'
    <2>1. /\ present' \subseteq TempDirs /\ filled' \subseteq TempDirs /\ stale' \subseteq TempDirs
          /\ ownerLock' \in [TempDirs -> Movers \cup {"free", "absent"}]
          /\ ownerMarker' \in [TempDirs -> MarkerSet] /\ keeps' \subseteq Keepers
      BY <1>18 DEF NoNative, MovesOn, LetGo, tempDisk, ledgerVars, MarkerSet
    <2>2. /\ ledger' \in Lines /\ recorded' \in Lines /\ loaded' \in [Movers -> Lines]
          /\ ledgerLock' \in Movers \cup {"free"}
      BY <1>18 DEF NoNative, MovesOn, LetGo, tempDisk, ledgerVars, Lines
    <2>3. making' \in [Movers -> TempDirs \cup {NoDir}] /\ native' \in [Movers -> TempDirs \cup {NoDir}]
      <3>1. p \in Keepers  BY <1>18 DEF NoNative, MovesOn, LetGo, tempDisk, ledgerVars
      <3>2. making' = making \/ making' = [making EXCEPT ![p] = ScratchOf(p)]  BY <1>18 DEF NoNative, MovesOn, LetGo, tempDisk, ledgerVars
      <3>3. native' = native  BY <1>18 DEF NoNative, MovesOn, LetGo, tempDisk, ledgerVars
      <3> QED BY <3>1, <3>2, <3>3
    <2>4. scan' \in [Movers -> Scans]
      <3>1. scan' = scan  BY <1>18 DEF NoNative, MovesOn, LetGo, tempDisk, ledgerVars
      <3> QED BY <3>1 DEF Scans
    <2> QED BY <2>1, <2>2, <2>3, <2>4 DEF MarkerSet, Lines, Scans
  <1>19. ASSUME NEW p \in Movers, KeepMarks(p) PROVE KeptTempTypeOK'
    BY <1>19 DEF KeepMarks, MovesOn, MarkDir, MarkerOf, Leaving, tempDisk, ledgerVars
  <1>20. ASSUME NEW p \in Movers, KeepUnlocks(p) PROVE KeptTempTypeOK'
    BY <1>20, SMTT(30) DEF KeepUnlocks, MovesOn, UnlockDir, Leaving, tempDisk, ledgerVars
  <1>21. ASSUME NEW p \in Movers, KeepFails(p) PROVE KeptTempTypeOK'
    BY <1>21, SMTT(30) DEF KeepFails, MovesOn, UnlockDir, Leaving, LetGo, tempDisk, ledgerVars
  <1>22. ASSUME NEW p \in Movers, Releases(p) PROVE KeptTempTypeOK'
    <2>1. /\ present' \subseteq TempDirs /\ filled' \subseteq TempDirs /\ stale' \subseteq TempDirs
          /\ ownerLock' \in [TempDirs -> Movers \cup {"free", "absent"}]
          /\ ownerMarker' \in [TempDirs -> MarkerSet] /\ keeps' \subseteq Keepers
      BY <1>22 DEF Releases, MovesOn, UnlockDir, Leaving, LetGo, tempDisk, ledgerVars, MarkerSet
    <2>2. /\ ledger' \in Lines /\ recorded' \in Lines /\ loaded' \in [Movers -> Lines]
          /\ ledgerLock' \in Movers \cup {"free"}
      BY <1>22 DEF Releases, MovesOn, UnlockDir, Leaving, LetGo, tempDisk, ledgerVars, Lines
    <2>3. making' \in [Movers -> TempDirs \cup {NoDir}] /\ native' \in [Movers -> TempDirs \cup {NoDir}]
      <3>1. p \in Keepers  BY <1>22 DEF Releases, MovesOn, UnlockDir, Leaving, LetGo, tempDisk, ledgerVars
      <3>2. making' = making \/ making' = [making EXCEPT ![p] = ScratchOf(p)]  BY <1>22 DEF Releases, MovesOn, UnlockDir, Leaving, LetGo, tempDisk, ledgerVars
      <3>3. native' = native  BY <1>22 DEF Releases, MovesOn, UnlockDir, Leaving, LetGo, tempDisk, ledgerVars
      <3> QED BY <3>1, <3>2, <3>3
    <2>4. scan' \in [Movers -> Scans]
      <3>1. scan' = scan  BY <1>22 DEF Releases, MovesOn, UnlockDir, Leaving, LetGo, tempDisk, ledgerVars
      <3> QED BY <3>1 DEF Scans
    <2> QED BY <2>1, <2>2, <2>3, <2>4 DEF MarkerSet, Lines, Scans
  <1>23. ASSUME NEW p \in Movers, DropEmpties(p) PROVE KeptTempTypeOK'
    BY <1>23 DEF DropEmpties, MovesOn, EmptyDir, tempDisk, ledgerVars
  <1>24. ASSUME NEW p \in Movers, DropUnlinks(p) PROVE KeptTempTypeOK'
    <2>1. /\ present' \subseteq TempDirs /\ filled' \subseteq TempDirs /\ stale' \subseteq TempDirs
          /\ ownerLock' \in [TempDirs -> Movers \cup {"free", "absent"}]
          /\ ownerMarker' \in [TempDirs -> MarkerSet] /\ keeps' \subseteq Keepers
      BY <1>24 DEF DropUnlinks, MovesOn, Unlinkable, UnlinkDir, LetGo, tempDisk, ledgerVars, MarkerSet
    <2>2. /\ ledger' \in Lines /\ recorded' \in Lines /\ loaded' \in [Movers -> Lines]
          /\ ledgerLock' \in Movers \cup {"free"}
      BY <1>24 DEF DropUnlinks, MovesOn, Unlinkable, UnlinkDir, LetGo, tempDisk, ledgerVars, Lines
    <2>3. making' \in [Movers -> TempDirs \cup {NoDir}] /\ native' \in [Movers -> TempDirs \cup {NoDir}]
      <3>1. p \in Keepers  BY <1>24 DEF DropUnlinks, MovesOn, Unlinkable, UnlinkDir, LetGo, tempDisk, ledgerVars
      <3>2. making' = making \/ making' = [making EXCEPT ![p] = ScratchOf(p)]  BY <1>24 DEF DropUnlinks, MovesOn, Unlinkable, UnlinkDir, LetGo, tempDisk, ledgerVars
      <3>3. native' = native  BY <1>24 DEF DropUnlinks, MovesOn, Unlinkable, UnlinkDir, LetGo, tempDisk, ledgerVars
      <3> QED BY <3>1, <3>2, <3>3
    <2>4. scan' \in [Movers -> Scans]
      <3>1. scan' = scan  BY <1>24 DEF DropUnlinks, MovesOn, Unlinkable, UnlinkDir, LetGo, tempDisk, ledgerVars
      <3> QED BY <3>1 DEF Scans
    <2> QED BY <2>1, <2>2, <2>3, <2>4 DEF MarkerSet, Lines, Scans
  <1>25. ASSUME NEW p \in Movers, NoteReads(p) PROVE KeptTempTypeOK'
    BY <1>25 DEF NoteReads, MovesOn, TakeLedger, tempDisk, ledgerVars
  <1>26. ASSUME NEW p \in Movers, NoteWrites(p) PROVE KeptTempTypeOK'
    <2>1. /\ present' \subseteq TempDirs /\ filled' \subseteq TempDirs /\ stale' \subseteq TempDirs
          /\ ownerLock' \in [TempDirs -> Movers \cup {"free", "absent"}]
          /\ ownerMarker' \in [TempDirs -> MarkerSet] /\ keeps' \subseteq Keepers
      BY <1>26 DEF NoteWrites, MovesOn, LetGo, SaveLedger, Leaving, UnreadLedger, tempDisk, ledgerVars, MarkerSet
    <2>2. /\ ledger' \in Lines /\ recorded' \in Lines /\ loaded' \in [Movers -> Lines]
          /\ ledgerLock' \in Movers \cup {"free"}
      <3>1. p \in Keepers  BY <1>26 DEF NoteWrites, MovesOn, LetGo, SaveLedger, Leaving, UnreadLedger, tempDisk, ledgerVars
      <3>2. /\ ledger' = ledger \/ ledger' = [loaded[p] EXCEPT ![Leaving(p)] = p]
            /\ recorded' = recorded \/ recorded' = [recorded EXCEPT ![Leaving(p)] = p]
            /\ loaded' = [loaded EXCEPT ![p] = UnreadLedger]
            /\ ledgerLock' = IF ledgerLock = p THEN "free" ELSE ledgerLock
        BY <1>26 DEF NoteWrites, SaveLedger
      <3>3. loaded[p] \in Lines /\ recorded \in Lines /\ ledger \in Lines /\ loaded \in [Movers -> Lines]
        BY DEF Lines
      <3>4. \A f \in Lines : \A d : [f EXCEPT ![d] = p] \in Lines  BY <3>1 DEF Lines
      <3>5. ledger' \in Lines /\ recorded' \in Lines
        <4> DEFINE written == [loaded[p] EXCEPT ![Leaving(p)] = p]
                   noted == [recorded EXCEPT ![Leaving(p)] = p]
        <4>1. written \in Lines
          <5> DEFINE d == Leaving(p)
          <5> HIDE DEF Lines, d
          <5> QED BY <3>3, <3>4
        <4>2. noted \in Lines
          <5> DEFINE d == Leaving(p)
          <5> HIDE DEF Lines, d
          <5> QED BY <3>3, <3>4
        <4>3. (ledger' = ledger \/ ledger' = written) /\ (recorded' = recorded \/ recorded' = noted)  BY <3>2
        <4> HIDE DEF written, noted, Lines
        <4> QED BY <3>3, <4>1, <4>2, <4>3
      <3>6. UnreadLedger \in Lines  BY DEF Lines
      <3>7. loaded' \in [Movers -> Lines]
        <4> HIDE DEF UnreadLedger, Lines
        <4> QED BY <3>2, <3>3, <3>6
      <3> QED BY <3>2, <3>5, <3>7
    <2>3. making' \in [Movers -> TempDirs \cup {NoDir}] /\ native' \in [Movers -> TempDirs \cup {NoDir}]
      <3>1. p \in Keepers  BY <1>26 DEF NoteWrites, MovesOn, LetGo, SaveLedger, Leaving, UnreadLedger, tempDisk, ledgerVars
      <3>2. making' = making \/ making' = [making EXCEPT ![p] = ScratchOf(p)]  BY <1>26 DEF NoteWrites, MovesOn, LetGo, SaveLedger, Leaving, UnreadLedger, tempDisk, ledgerVars
      <3>3. native' = native  BY <1>26 DEF NoteWrites, MovesOn, LetGo, SaveLedger, Leaving, UnreadLedger, tempDisk, ledgerVars
      <3> QED BY <3>1, <3>2, <3>3
    <2>4. scan' \in [Movers -> Scans]
      <3>1. scan' = scan  BY <1>26 DEF NoteWrites, MovesOn, LetGo, SaveLedger, Leaving, UnreadLedger, tempDisk, ledgerVars
      <3> QED BY <3>1 DEF Scans
    <2> QED BY <2>1, <2>2, <2>3, <2>4 DEF MarkerSet, Lines, Scans
  <1>27. ASSUME NEW p \in Movers, NoteGivesUp(p) PROVE KeptTempTypeOK'
    <2>1. /\ present' \subseteq TempDirs /\ filled' \subseteq TempDirs /\ stale' \subseteq TempDirs
          /\ ownerLock' \in [TempDirs -> Movers \cup {"free", "absent"}]
          /\ ownerMarker' \in [TempDirs -> MarkerSet] /\ keeps' \subseteq Keepers
      BY <1>27 DEF NoteGivesUp, MovesOn, LetGo, tempDisk, ledgerVars, MarkerSet
    <2>2. /\ ledger' \in Lines /\ recorded' \in Lines /\ loaded' \in [Movers -> Lines]
          /\ ledgerLock' \in Movers \cup {"free"}
      BY <1>27 DEF NoteGivesUp, MovesOn, LetGo, tempDisk, ledgerVars, Lines
    <2>3. making' \in [Movers -> TempDirs \cup {NoDir}] /\ native' \in [Movers -> TempDirs \cup {NoDir}]
      <3>1. p \in Keepers  BY <1>27 DEF NoteGivesUp, MovesOn, LetGo, tempDisk, ledgerVars
      <3>2. making' = making \/ making' = [making EXCEPT ![p] = ScratchOf(p)]  BY <1>27 DEF NoteGivesUp, MovesOn, LetGo, tempDisk, ledgerVars
      <3>3. native' = native  BY <1>27 DEF NoteGivesUp, MovesOn, LetGo, tempDisk, ledgerVars
      <3> QED BY <3>1, <3>2, <3>3
    <2>4. scan' \in [Movers -> Scans]
      <3>1. scan' = scan  BY <1>27 DEF NoteGivesUp, MovesOn, LetGo, tempDisk, ledgerVars
      <3> QED BY <3>1 DEF Scans
    <2> QED BY <2>1, <2>2, <2>3, <2>4 DEF MarkerSet, Lines, Scans
  <1>28. ASSUME NEW p \in Movers, GcSweeps(p) PROVE KeptTempTypeOK'
    <2>1. /\ present' \subseteq TempDirs /\ filled' \subseteq TempDirs /\ stale' \subseteq TempDirs
          /\ ownerLock' \in [TempDirs -> Movers \cup {"free", "absent"}]
          /\ ownerMarker' \in [TempDirs -> MarkerSet] /\ keeps' \subseteq Keepers
      BY <1>28 DEF GcSweeps, MovesOn, SweptAll, SweepLists, tempDisk, ledgerVars, MarkerSet
    <2>2. /\ ledger' \in Lines /\ recorded' \in Lines /\ loaded' \in [Movers -> Lines]
          /\ ledgerLock' \in Movers \cup {"free"}
      BY <1>28 DEF GcSweeps, MovesOn, SweptAll, SweepLists, tempDisk, ledgerVars, Lines
    <2>3. making' \in [Movers -> TempDirs \cup {NoDir}] /\ native' \in [Movers -> TempDirs \cup {NoDir}]
      BY <1>28 DEF GcSweeps, MovesOn, SweptAll, SweepLists, tempDisk, ledgerVars
    <2>4. scan' \in [Movers -> Scans]
      BY <1>28 DEF GcSweeps, MovesOn, SweptAll, SweepLists, tempDisk, ledgerVars, Scans
    <2> QED BY <2>1, <2>2, <2>3, <2>4 DEF MarkerSet, Lines, Scans
  <1>29. ASSUME NEW p \in Movers, GcSwept(p) PROVE KeptTempTypeOK'
    BY <1>29 DEF GcSwept, MovesOn, SweptAll, NoScan, tempDisk, ledgerVars
  <1>30. ASSUME NEW p \in Movers, GcReads(p) PROVE KeptTempTypeOK'
    BY <1>30, SMTT(30) DEF GcReads, Lined, MovesOn, TakeLedger, tempDisk, ledgerVars
  <1>31. ASSUME NEW p \in Movers, GcGivesUp(p) PROVE KeptTempTypeOK'
    BY <1>31 DEF GcGivesUp, MovesOn, tempDisk, ledgerVars
  <1>32. ASSUME NEW p \in Movers, GcPasses(p) PROVE KeptTempTypeOK'
    <2>1. /\ present' \subseteq TempDirs /\ filled' \subseteq TempDirs /\ stale' \subseteq TempDirs
          /\ ownerLock' \in [TempDirs -> Movers \cup {"free", "absent"}]
          /\ ownerMarker' \in [TempDirs -> MarkerSet] /\ keeps' \subseteq Keepers
      BY <1>32 DEF GcPasses, MovesOn, tempDisk, ledgerVars, MarkerSet
    <2>2. /\ ledger' \in Lines /\ recorded' \in Lines /\ loaded' \in [Movers -> Lines]
          /\ ledgerLock' \in Movers \cup {"free"}
      BY <1>32 DEF GcPasses, MovesOn, tempDisk, ledgerVars, Lines
    <2>3. making' \in [Movers -> TempDirs \cup {NoDir}] /\ native' \in [Movers -> TempDirs \cup {NoDir}]
      BY <1>32 DEF GcPasses, MovesOn, tempDisk, ledgerVars
    <2>4. scan' \in [Movers -> Scans]
      <3>1. PICK d \in scan[p].left : scan' = [scan EXCEPT ![p].left = @ \ {d}]
        BY <1>32 DEF GcPasses, MovesOn, tempDisk, ledgerVars
      <3>2. scan \in [Movers -> Scans]  BY DEF Scans
      <3>3. d \in TempDirs  BY <3>2 DEF Scans
      <3>4. \A s \in Scans : [s EXCEPT !.left = @ \ {d}] \in Scans /\ [s EXCEPT !.left = @ \ {d}, !.at = d] \in Scans
        BY <3>3 DEF Scans
      <3> HIDE DEF Scans
      <3> QED BY <3>1, <3>2, <3>4
    <2> QED BY <2>1, <2>2, <2>3, <2>4 DEF MarkerSet, Lines, Scans
  <1>33. ASSUME NEW p \in Movers, GcTakes(p) PROVE KeptTempTypeOK'
    <2>1. /\ present' \subseteq TempDirs /\ filled' \subseteq TempDirs /\ stale' \subseteq TempDirs
          /\ ownerLock' \in [TempDirs -> Movers \cup {"free", "absent"}]
          /\ ownerMarker' \in [TempDirs -> MarkerSet] /\ keeps' \subseteq Keepers
      BY <1>33 DEF GcTakes, MovesOn, Vouched, MarkerOf, tempDisk, ledgerVars, MarkerSet
    <2>2. /\ ledger' \in Lines /\ recorded' \in Lines /\ loaded' \in [Movers -> Lines]
          /\ ledgerLock' \in Movers \cup {"free"}
      BY <1>33 DEF GcTakes, MovesOn, Vouched, MarkerOf, tempDisk, ledgerVars, Lines
    <2>3. making' \in [Movers -> TempDirs \cup {NoDir}] /\ native' \in [Movers -> TempDirs \cup {NoDir}]
      BY <1>33 DEF GcTakes, MovesOn, Vouched, MarkerOf, tempDisk, ledgerVars
    <2>4. scan' \in [Movers -> Scans]
      <3>1. PICK d \in scan[p].left : scan' = [scan EXCEPT ![p].left = @ \ {d}, ![p].at = d]
        BY <1>33 DEF GcTakes, MovesOn, Vouched, MarkerOf, tempDisk, ledgerVars
      <3>2. scan \in [Movers -> Scans]  BY DEF Scans
      <3>3. d \in TempDirs  BY <3>2 DEF Scans
      <3>4. \A s \in Scans : [s EXCEPT !.left = @ \ {d}] \in Scans /\ [s EXCEPT !.left = @ \ {d}, !.at = d] \in Scans
        BY <3>3 DEF Scans
      <3> HIDE DEF Scans
      <3> QED BY <3>1, <3>2, <3>4
    <2> QED BY <2>1, <2>2, <2>3, <2>4 DEF MarkerSet, Lines, Scans
  <1>34. ASSUME NEW p \in Movers, GcEmpties(p) PROVE KeptTempTypeOK'
    BY <1>34 DEF GcEmpties, MovesOn, EmptyDir, tempDisk, ledgerVars
  <1>35. ASSUME NEW p \in Movers, GcUnlinks(p) PROVE KeptTempTypeOK'
    <2>1. /\ present' \subseteq TempDirs /\ filled' \subseteq TempDirs /\ stale' \subseteq TempDirs
          /\ ownerLock' \in [TempDirs -> Movers \cup {"free", "absent"}]
          /\ ownerMarker' \in [TempDirs -> MarkerSet] /\ keeps' \subseteq Keepers
      BY <1>35 DEF GcUnlinks, MovesOn, Unlinkable, UnlinkDir, tempDisk, ledgerVars, MarkerSet
    <2>2. /\ ledger' \in Lines /\ recorded' \in Lines /\ loaded' \in [Movers -> Lines]
          /\ ledgerLock' \in Movers \cup {"free"}
      <3>1. \E d \in TempDirs : loaded' = [loaded EXCEPT ![p][d] = "nobody"] \/ loaded' = loaded
        BY <1>35 DEF GcUnlinks, MovesOn, Unlinkable, UnlinkDir, tempDisk, ledgerVars
      <3>2. loaded \in [Movers -> Lines]  BY DEF Lines
      <3>3. \A f \in Lines : \A d : [f EXCEPT ![d] = "nobody"] \in Lines  BY DEF Lines
      <3>4. loaded' \in [Movers -> Lines]
        <4> HIDE DEF Lines
        <4> QED BY <3>1, <3>2, <3>3, SMTT(30)
      <3>5. UNCHANGED <<ledger, recorded, ledgerLock>>  BY <1>35 DEF GcUnlinks, MovesOn, Unlinkable, UnlinkDir, tempDisk, ledgerVars
      <3> QED BY <3>4, <3>5 DEF Lines
    <2>3. making' \in [Movers -> TempDirs \cup {NoDir}] /\ native' \in [Movers -> TempDirs \cup {NoDir}]
      BY <1>35 DEF GcUnlinks, MovesOn, Unlinkable, UnlinkDir, tempDisk, ledgerVars
    <2>4. scan' \in [Movers -> Scans]
      <3>1. scan' = scan  BY <1>35 DEF GcUnlinks, MovesOn, Unlinkable, UnlinkDir, tempDisk, ledgerVars
      <3> QED BY <3>1 DEF Scans
    <2> QED BY <2>1, <2>2, <2>3, <2>4 DEF MarkerSet, Lines, Scans
  <1>36. ASSUME NEW p \in Movers, GcWrites(p) PROVE KeptTempTypeOK'
    BY <1>36 DEF GcWrites, MovesOn, SaveLedger, NoScan, UnreadLedger, tempDisk, ledgerVars
  <1>37. ASSUME NEW p \in Movers, Dies(p) PROVE KeptTempTypeOK'
    BY <1>37 DEF Dies, UnreadLedger, NoScan, tempDisk, ledgerVars
  <1>38. ASSUME NEW e \in TempDirs, Ages(e) PROVE KeptTempTypeOK'
    BY <1>38 DEF Ages, tempDisk, ledgerVars
  <1>39. CASE UNCHANGED keptTempVars  BY <1>39 DEF keptTempVars, tempDisk, ledgerVars
  <1> QED
    BY <1>1, <1>2, <1>3, <1>4, <1>5, <1>6, <1>7, <1>8, <1>9, <1>10, <1>11, <1>12,
       <1>13, <1>14, <1>15, <1>16, <1>17, <1>18, <1>19, <1>20, <1>21, <1>22, <1>23, <1>24,
       <1>25, <1>26, <1>27, <1>28, <1>29, <1>30, <1>31, <1>32, <1>33, <1>34, <1>35, <1>36,
       <1>37, <1>38, <1>39
    DEF KeptTempNext, SweepNext, RunNext, LedgerNext

LEMMA ScanStep == KeptTempTypeOK /\ PlaceInv /\ ScanInv /\ [KeptTempNext]_keptTempVars => ScanInv'
  <1> SUFFICES ASSUME KeptTempTypeOK /\ PlaceInv /\ ScanInv, [KeptTempNext]_keptTempVars PROVE ScanInv'  OBVIOUS
  <1> USE DirFacts, KeptTempAssumption DEF KeptTempTypeOK, PlaceInv, ScanInv, CollectorAt, KeeperAt, Movers, SweepPlaces, GcPlaces, EndPlaces, UnreadLedger, NoScan, Ours
  <1>1. ASSUME NEW p \in Movers, Classify(p) PROVE ScanInv'
    BY <1>1 DEF Classify, MovesOn, tempDisk, ledgerVars
  <1>2. ASSUME NEW p \in Movers, SweepSpares(p) PROVE ScanInv'
    BY <1>2 DEF SweepSpares, MovesOn, tempDisk, ledgerVars
  <1>3. ASSUME NEW p \in Movers, SweepLocks(p) PROVE ScanInv'
    BY <1>3 DEF SweepLocks, MovesOn, LockDir, IsHeld, tempDisk, ledgerVars
  <1>4. ASSUME NEW p \in Movers, SweepUnlocks(p) PROVE ScanInv'
    BY <1>4 DEF SweepUnlocks, MovesOn, UnlockDir, tempDisk, ledgerVars
  <1>5. ASSUME NEW p \in Movers, SweepEmpties(p) PROVE ScanInv'
    BY <1>5 DEF SweepEmpties, MovesOn, EmptyDir, tempDisk, ledgerVars
  <1>6. ASSUME NEW p \in Movers, SweepUnlinks(p) PROVE ScanInv'
    BY <1>6 DEF SweepUnlinks, MovesOn, Unlinkable, UnlinkDir, tempDisk, ledgerVars
  <1>7. ASSUME NEW p \in Movers, RunSweeps(p) PROVE ScanInv'
    <2>1. \A q \in Movers : q /= p => place'[q] = place[q] /\ scan'[q] = scan[q]
      BY <1>7 DEF RunSweeps, MovesOn, SweepLists, tempDisk, ledgerVars
    <2>2. \/ place'[p] = "sweep" /\ scan'[p].of \in {"scratch", "native"}
             /\ \A d \in scan'[p].left : d[1] = scan'[p].of
          \/ place'[p] = "scratch" /\ scan'[p] = scan[p]
      BY <1>7 DEF RunSweeps, MovesOn, SweepLists, tempDisk, ledgerVars
    <2> SUFFICES ASSUME NEW q \in Movers
                 PROVE /\ place'[q] \in SweepPlaces => scan'[q].of \in {"scratch", "native"}
                       /\ scan'[q].of \in {"scratch", "native"} => \A d \in scan'[q].left : d[1] = scan'[q].of
                       /\ place'[q] \in SweepPlaces \ {"sweep"} => scan'[q].at \in TempDirs /\ Ours(scan'[q].at)
                       /\ place'[q] \in GcPlaces => scan'[q].of = "ledger"
                       /\ place'[q] \in {"gc_empty", "gc_unlink"} => scan'[q].at \in TempDirs
      OBVIOUS
    <2>3. CASE q = p  BY <2>2, <2>3
    <2>4. CASE q /= p  BY <2>1, <2>4
    <2> QED BY <2>3, <2>4
  <1>8. ASSUME NEW p \in Movers, ScratchSwept(p) PROVE ScanInv'
    BY <1>8 DEF ScratchSwept, MovesOn, SweptAll, NoScan, tempDisk, ledgerVars
  <1>9. ASSUME NEW p \in Movers, MakesScratch(p) PROVE ScanInv'
    BY <1>9 DEF MakesScratch, MovesOn, Makes, NoScan, tempDisk, ledgerVars
  <1>10. ASSUME NEW p \in Movers, NativeSweeps(p) PROVE ScanInv'
    BY <1>10 DEF NativeSweeps, MovesOn, SweepLists, tempDisk, ledgerVars
  <1>11. ASSUME NEW p \in Movers, Uncached(p) PROVE ScanInv'
    BY <1>11 DEF Uncached, MovesOn, tempDisk, ledgerVars
  <1>12. ASSUME NEW p \in Movers, MakesShared(p) PROVE ScanInv'
    BY <1>12 DEF MakesShared, MovesOn, SweptAll, Makes, NoScan, tempDisk, ledgerVars
  <1>13. ASSUME NEW p \in Movers, SharedTaken(p) PROVE ScanInv'
    BY <1>13 DEF SharedTaken, MovesOn, IsHeld, Makes, NoScan, tempDisk, ledgerVars
  <1>14. ASSUME NEW p \in Movers, Claims(p) PROVE ScanInv'
    BY <1>14 DEF Claims, MovesOn, LockDir, IsHeld, tempDisk, ledgerVars
  <1>15. ASSUME NEW p \in Movers, Marks(p) PROVE ScanInv'
    BY <1>15 DEF Marks, MovesOn, MarkDir, MarkerOf, tempDisk, ledgerVars
  <1>16. ASSUME NEW p \in Movers, ClaimFails(p) PROVE ScanInv'
    BY <1>16 DEF ClaimFails, MovesOn, UnlockDir, tempDisk, ledgerVars
  <1>17. ASSUME NEW p \in Movers, Works(p) PROVE ScanInv'
    BY <1>17 DEF Works, MovesOn, OwnDirs, tempDisk, ledgerVars
  <1>18. ASSUME NEW p \in Movers, NoNative(p) PROVE ScanInv'
    BY <1>18 DEF NoNative, MovesOn, LetGo, tempDisk, ledgerVars
  <1>19. ASSUME NEW p \in Movers, KeepMarks(p) PROVE ScanInv'
    BY <1>19 DEF KeepMarks, MovesOn, MarkDir, MarkerOf, Leaving, tempDisk, ledgerVars
  <1>20. ASSUME NEW p \in Movers, KeepUnlocks(p) PROVE ScanInv'
    BY <1>20 DEF KeepUnlocks, MovesOn, UnlockDir, Leaving, tempDisk, ledgerVars
  <1>21. ASSUME NEW p \in Movers, KeepFails(p) PROVE ScanInv'
    BY <1>21 DEF KeepFails, MovesOn, UnlockDir, Leaving, LetGo, tempDisk, ledgerVars
  <1>22. ASSUME NEW p \in Movers, Releases(p) PROVE ScanInv'
    BY <1>22 DEF Releases, MovesOn, UnlockDir, Leaving, LetGo, tempDisk, ledgerVars
  <1>23. ASSUME NEW p \in Movers, DropEmpties(p) PROVE ScanInv'
    BY <1>23 DEF DropEmpties, MovesOn, EmptyDir, tempDisk, ledgerVars
  <1>24. ASSUME NEW p \in Movers, DropUnlinks(p) PROVE ScanInv'
    BY <1>24 DEF DropUnlinks, MovesOn, Unlinkable, UnlinkDir, LetGo, tempDisk, ledgerVars
  <1>25. ASSUME NEW p \in Movers, NoteReads(p) PROVE ScanInv'
    BY <1>25 DEF NoteReads, MovesOn, TakeLedger, tempDisk, ledgerVars
  <1>26. ASSUME NEW p \in Movers, NoteWrites(p) PROVE ScanInv'
    BY <1>26 DEF NoteWrites, MovesOn, LetGo, SaveLedger, Leaving, UnreadLedger, tempDisk, ledgerVars
  <1>27. ASSUME NEW p \in Movers, NoteGivesUp(p) PROVE ScanInv'
    BY <1>27 DEF NoteGivesUp, MovesOn, LetGo, tempDisk, ledgerVars
  <1>28. ASSUME NEW p \in Movers, GcSweeps(p) PROVE ScanInv'
    <2>1. \A q \in Movers : q /= p => place'[q] = place[q] /\ scan'[q] = scan[q]
      BY <1>28 DEF GcSweeps, MovesOn, SweptAll, SweepLists, tempDisk, ledgerVars
    <2>2. \/ place'[p] = "sweep" /\ scan'[p].of \in {"scratch", "native"}
             /\ \A d \in scan'[p].left : d[1] = scan'[p].of
          \/ place'[p] = "scratch" /\ scan'[p] = scan[p]
      BY <1>28 DEF GcSweeps, MovesOn, SweptAll, SweepLists, tempDisk, ledgerVars
    <2> SUFFICES ASSUME NEW q \in Movers
                 PROVE /\ place'[q] \in SweepPlaces => scan'[q].of \in {"scratch", "native"}
                       /\ scan'[q].of \in {"scratch", "native"} => \A d \in scan'[q].left : d[1] = scan'[q].of
                       /\ place'[q] \in SweepPlaces \ {"sweep"} => scan'[q].at \in TempDirs /\ Ours(scan'[q].at)
                       /\ place'[q] \in GcPlaces => scan'[q].of = "ledger"
                       /\ place'[q] \in {"gc_empty", "gc_unlink"} => scan'[q].at \in TempDirs
      OBVIOUS
    <2>3. CASE q = p  BY <2>2, <2>3
    <2>4. CASE q /= p  BY <2>1, <2>4
    <2> QED BY <2>3, <2>4
  <1>29. ASSUME NEW p \in Movers, GcSwept(p) PROVE ScanInv'
    BY <1>29 DEF GcSwept, MovesOn, SweptAll, NoScan, tempDisk, ledgerVars
  <1>30. ASSUME NEW p \in Movers, GcReads(p) PROVE ScanInv'
    BY <1>30 DEF GcReads, MovesOn, TakeLedger, tempDisk, ledgerVars
  <1>31. ASSUME NEW p \in Movers, GcGivesUp(p) PROVE ScanInv'
    BY <1>31 DEF GcGivesUp, MovesOn, tempDisk, ledgerVars
  <1>32. ASSUME NEW p \in Movers, GcPasses(p) PROVE ScanInv'
    BY <1>32 DEF GcPasses, MovesOn, tempDisk, ledgerVars
  <1>33. ASSUME NEW p \in Movers, GcTakes(p) PROVE ScanInv'
    BY <1>33 DEF GcTakes, MovesOn, Vouched, MarkerOf, tempDisk, ledgerVars
  <1>34. ASSUME NEW p \in Movers, GcEmpties(p) PROVE ScanInv'
    BY <1>34 DEF GcEmpties, MovesOn, EmptyDir, tempDisk, ledgerVars
  <1>35. ASSUME NEW p \in Movers, GcUnlinks(p) PROVE ScanInv'
    BY <1>35 DEF GcUnlinks, MovesOn, Unlinkable, UnlinkDir, tempDisk, ledgerVars
  <1>36. ASSUME NEW p \in Movers, GcWrites(p) PROVE ScanInv'
    BY <1>36 DEF GcWrites, MovesOn, SaveLedger, NoScan, UnreadLedger, tempDisk, ledgerVars
  <1>37. ASSUME NEW p \in Movers, Dies(p) PROVE ScanInv'
    BY <1>37 DEF Dies, UnreadLedger, NoScan, tempDisk, ledgerVars
  <1>38. ASSUME NEW e \in TempDirs, Ages(e) PROVE ScanInv'
    BY <1>38 DEF Ages, tempDisk, ledgerVars
  <1>39. CASE UNCHANGED keptTempVars  BY <1>39 DEF keptTempVars, tempDisk, ledgerVars
  <1> QED
    BY <1>1, <1>2, <1>3, <1>4, <1>5, <1>6, <1>7, <1>8, <1>9, <1>10, <1>11, <1>12,
       <1>13, <1>14, <1>15, <1>16, <1>17, <1>18, <1>19, <1>20, <1>21, <1>22, <1>23, <1>24,
       <1>25, <1>26, <1>27, <1>28, <1>29, <1>30, <1>31, <1>32, <1>33, <1>34, <1>35, <1>36,
       <1>37, <1>38, <1>39
    DEF KeptTempNext, SweepNext, RunNext, LedgerNext

\* A step never goes back: who has claimed does not come to claim again, who is
\* done with a directory, or with its marker, stays done with it, and what is
\* used has been claimed.
PhasesKept(r, d) ==
  /\ Ahead(r, d)' => Ahead(r, d)
  /\ Over(r, d) => Over(r, d)'
  /\ Sealed(r, d) => Sealed(r, d)'
  /\ Uses(r, d)' => Uses(r, d) \/ (making[r] = d /\ place[r] = "claim" /\ place'[r] = "mark")
  /\ Marking(r, d)' => Marking(r, d) \/ Ahead(r, d)

LEMMA Steady ==
  ASSUME NEW r, NEW d, place'[r] = place[r], making'[r] = making[r], native'[r] = native[r]
  PROVE  PhasesKept(r, d)
  BY DEF PhasesKept, Ahead, Over, Sealed, Marking, Uses

LEMMA PhaseStep == KeptTempTypeOK /\ PlaceInv /\ [KeptTempNext]_keptTempVars => \A r \in Keepers : \A d \in OwnOf(r) : PhasesKept(r, d)
  <1> SUFFICES ASSUME KeptTempTypeOK /\ PlaceInv, [KeptTempNext]_keptTempVars PROVE \A r \in Keepers : \A d \in OwnOf(r) : PhasesKept(r, d)  OBVIOUS
  <1> USE DirFacts DEF KeptTempTypeOK
  <1>1. ASSUME NEW p \in Movers, Classify(p) PROVE \A r \in Keepers : \A d \in OwnOf(r) : PhasesKept(r, d)
    <2> TAKE r \in Keepers
    <2> TAKE d \in OwnOf(r)
    <2>1. CASE r /= p
      <3>1. place'[r] = place[r] /\ making'[r] = making[r] /\ native'[r] = native[r]
        BY <1>1, <2>1 DEF Classify, MovesOn, tempDisk, ledgerVars, Movers, PlaceInv
      <3> QED BY <3>1, Steady
    <2>2. CASE r = p
      BY <1>1, <2>2, KeptTempAssumption DEF Classify, MovesOn, tempDisk, ledgerVars, Movers, PlaceInv, KeeperAt, OwnOf, PhasesKept, Ahead, Over, Sealed, Marking, Uses, LetGoOf,
         SweepPlaces, EndPlaces
    <2> QED BY <2>1, <2>2
  <1>2. ASSUME NEW p \in Movers, SweepSpares(p) PROVE \A r \in Keepers : \A d \in OwnOf(r) : PhasesKept(r, d)
    <2> TAKE r \in Keepers
    <2> TAKE d \in OwnOf(r)
    <2>1. CASE r /= p
      <3>1. place'[r] = place[r] /\ making'[r] = making[r] /\ native'[r] = native[r]
        BY <1>2, <2>1 DEF SweepSpares, MovesOn, tempDisk, ledgerVars, Movers, PlaceInv
      <3> QED BY <3>1, Steady
    <2>2. CASE r = p
      BY <1>2, <2>2, KeptTempAssumption DEF SweepSpares, MovesOn, tempDisk, ledgerVars, Movers, PlaceInv, KeeperAt, OwnOf, PhasesKept, Ahead, Over, Sealed, Marking, Uses, LetGoOf,
         SweepPlaces, EndPlaces
    <2> QED BY <2>1, <2>2
  <1>3. ASSUME NEW p \in Movers, SweepLocks(p) PROVE \A r \in Keepers : \A d \in OwnOf(r) : PhasesKept(r, d)
    <2> TAKE r \in Keepers
    <2> TAKE d \in OwnOf(r)
    <2>1. CASE r /= p
      <3>1. place'[r] = place[r] /\ making'[r] = making[r] /\ native'[r] = native[r]
        BY <1>3, <2>1 DEF SweepLocks, MovesOn, LockDir, IsHeld, tempDisk, ledgerVars, Movers, PlaceInv
      <3> QED BY <3>1, Steady
    <2>2. CASE r = p
      BY <1>3, <2>2, KeptTempAssumption DEF SweepLocks, MovesOn, LockDir, IsHeld, tempDisk, ledgerVars, Movers, PlaceInv, KeeperAt, OwnOf, PhasesKept, Ahead, Over, Sealed, Marking, Uses, LetGoOf,
         SweepPlaces, EndPlaces
    <2> QED BY <2>1, <2>2
  <1>4. ASSUME NEW p \in Movers, SweepUnlocks(p) PROVE \A r \in Keepers : \A d \in OwnOf(r) : PhasesKept(r, d)
    <2> TAKE r \in Keepers
    <2> TAKE d \in OwnOf(r)
    <2>1. CASE r /= p
      <3>1. place'[r] = place[r] /\ making'[r] = making[r] /\ native'[r] = native[r]
        BY <1>4, <2>1 DEF SweepUnlocks, MovesOn, UnlockDir, tempDisk, ledgerVars, Movers, PlaceInv
      <3> QED BY <3>1, Steady
    <2>2. CASE r = p
      BY <1>4, <2>2, KeptTempAssumption DEF SweepUnlocks, MovesOn, UnlockDir, tempDisk, ledgerVars, Movers, PlaceInv, KeeperAt, OwnOf, PhasesKept, Ahead, Over, Sealed, Marking, Uses, LetGoOf,
         SweepPlaces, EndPlaces
    <2> QED BY <2>1, <2>2
  <1>5. ASSUME NEW p \in Movers, SweepEmpties(p) PROVE \A r \in Keepers : \A d \in OwnOf(r) : PhasesKept(r, d)
    <2> TAKE r \in Keepers
    <2> TAKE d \in OwnOf(r)
    <2>1. CASE r /= p
      <3>1. place'[r] = place[r] /\ making'[r] = making[r] /\ native'[r] = native[r]
        BY <1>5, <2>1 DEF SweepEmpties, MovesOn, EmptyDir, tempDisk, ledgerVars, Movers, PlaceInv
      <3> QED BY <3>1, Steady
    <2>2. CASE r = p
      BY <1>5, <2>2, KeptTempAssumption DEF SweepEmpties, MovesOn, EmptyDir, tempDisk, ledgerVars, Movers, PlaceInv, KeeperAt, OwnOf, PhasesKept, Ahead, Over, Sealed, Marking, Uses, LetGoOf,
         SweepPlaces, EndPlaces
    <2> QED BY <2>1, <2>2
  <1>6. ASSUME NEW p \in Movers, SweepUnlinks(p) PROVE \A r \in Keepers : \A d \in OwnOf(r) : PhasesKept(r, d)
    <2> TAKE r \in Keepers
    <2> TAKE d \in OwnOf(r)
    <2>1. CASE r /= p
      <3>1. place'[r] = place[r] /\ making'[r] = making[r] /\ native'[r] = native[r]
        BY <1>6, <2>1 DEF SweepUnlinks, MovesOn, Unlinkable, UnlinkDir, tempDisk, ledgerVars, Movers, PlaceInv
      <3> QED BY <3>1, Steady
    <2>2. CASE r = p
      BY <1>6, <2>2, KeptTempAssumption DEF SweepUnlinks, MovesOn, Unlinkable, UnlinkDir, tempDisk, ledgerVars, Movers, PlaceInv, KeeperAt, OwnOf, PhasesKept, Ahead, Over, Sealed, Marking, Uses, LetGoOf,
         SweepPlaces, EndPlaces
    <2> QED BY <2>1, <2>2
  <1>7. ASSUME NEW p \in Movers, RunSweeps(p) PROVE \A r \in Keepers : \A d \in OwnOf(r) : PhasesKept(r, d)
    <2> TAKE r \in Keepers
    <2> TAKE d \in OwnOf(r)
    <2>1. CASE r /= p
      <3>1. place'[r] = place[r] /\ making'[r] = making[r] /\ native'[r] = native[r]
        BY <1>7, <2>1 DEF RunSweeps, MovesOn, SweepLists, tempDisk, ledgerVars, Movers, PlaceInv
      <3> QED BY <3>1, Steady
    <2>2. CASE r = p
      BY <1>7, <2>2, KeptTempAssumption DEF RunSweeps, MovesOn, SweepLists, tempDisk, ledgerVars, Movers, PlaceInv, KeeperAt, OwnOf, PhasesKept, Ahead, Over, Sealed, Marking, Uses, LetGoOf,
         SweepPlaces, EndPlaces
    <2> QED BY <2>1, <2>2
  <1>8. ASSUME NEW p \in Movers, ScratchSwept(p) PROVE \A r \in Keepers : \A d \in OwnOf(r) : PhasesKept(r, d)
    <2> TAKE r \in Keepers
    <2> TAKE d \in OwnOf(r)
    <2>1. CASE r /= p
      <3>1. place'[r] = place[r] /\ making'[r] = making[r] /\ native'[r] = native[r]
        BY <1>8, <2>1 DEF ScratchSwept, MovesOn, SweptAll, NoScan, tempDisk, ledgerVars, Movers, PlaceInv
      <3> QED BY <3>1, Steady
    <2>2. CASE r = p
      BY <1>8, <2>2, KeptTempAssumption DEF ScratchSwept, MovesOn, SweptAll, NoScan, tempDisk, ledgerVars, Movers, PlaceInv, KeeperAt, OwnOf, PhasesKept, Ahead, Over, Sealed, Marking, Uses, LetGoOf,
         SweepPlaces, EndPlaces
    <2> QED BY <2>1, <2>2
  <1>9. ASSUME NEW p \in Movers, MakesScratch(p) PROVE \A r \in Keepers : \A d \in OwnOf(r) : PhasesKept(r, d)
    <2> TAKE r \in Keepers
    <2> TAKE d \in OwnOf(r)
    <2>1. CASE r /= p
      <3>1. place'[r] = place[r] /\ making'[r] = making[r] /\ native'[r] = native[r]
        BY <1>9, <2>1 DEF MakesScratch, MovesOn, Makes, NoScan, tempDisk, ledgerVars, Movers, PlaceInv
      <3> QED BY <3>1, Steady
    <2>2. CASE r = p
      BY <1>9, <2>2, KeptTempAssumption DEF MakesScratch, MovesOn, Makes, NoScan, tempDisk, ledgerVars, Movers, PlaceInv, KeeperAt, OwnOf, PhasesKept, Ahead, Over, Sealed, Marking, Uses, LetGoOf,
         SweepPlaces, EndPlaces
    <2> QED BY <2>1, <2>2
  <1>10. ASSUME NEW p \in Movers, NativeSweeps(p) PROVE \A r \in Keepers : \A d \in OwnOf(r) : PhasesKept(r, d)
    <2> TAKE r \in Keepers
    <2> TAKE d \in OwnOf(r)
    <2>1. CASE r /= p
      <3>1. place'[r] = place[r] /\ making'[r] = making[r] /\ native'[r] = native[r]
        BY <1>10, <2>1 DEF NativeSweeps, MovesOn, SweepLists, tempDisk, ledgerVars, Movers, PlaceInv
      <3> QED BY <3>1, Steady
    <2>2. CASE r = p
      BY <1>10, <2>2, KeptTempAssumption DEF NativeSweeps, MovesOn, SweepLists, tempDisk, ledgerVars, Movers, PlaceInv, KeeperAt, OwnOf, PhasesKept, Ahead, Over, Sealed, Marking, Uses, LetGoOf,
         SweepPlaces, EndPlaces
    <2> QED BY <2>1, <2>2
  <1>11. ASSUME NEW p \in Movers, Uncached(p) PROVE \A r \in Keepers : \A d \in OwnOf(r) : PhasesKept(r, d)
    <2> TAKE r \in Keepers
    <2> TAKE d \in OwnOf(r)
    <2>1. CASE r /= p
      <3>1. place'[r] = place[r] /\ making'[r] = making[r] /\ native'[r] = native[r]
        BY <1>11, <2>1 DEF Uncached, MovesOn, tempDisk, ledgerVars, Movers, PlaceInv
      <3> QED BY <3>1, Steady
    <2>2. CASE r = p
      BY <1>11, <2>2, KeptTempAssumption DEF Uncached, MovesOn, tempDisk, ledgerVars, Movers, PlaceInv, KeeperAt, OwnOf, PhasesKept, Ahead, Over, Sealed, Marking, Uses, LetGoOf,
         SweepPlaces, EndPlaces
    <2> QED BY <2>1, <2>2
  <1>12. ASSUME NEW p \in Movers, MakesShared(p) PROVE \A r \in Keepers : \A d \in OwnOf(r) : PhasesKept(r, d)
    <2> TAKE r \in Keepers
    <2> TAKE d \in OwnOf(r)
    <2>1. CASE r /= p
      <3>1. place'[r] = place[r] /\ making'[r] = making[r] /\ native'[r] = native[r]
        BY <1>12, <2>1 DEF MakesShared, MovesOn, SweptAll, Makes, NoScan, tempDisk, ledgerVars, Movers, PlaceInv
      <3> QED BY <3>1, Steady
    <2>2. CASE r = p
      BY <1>12, <2>2, KeptTempAssumption DEF MakesShared, MovesOn, SweptAll, Makes, NoScan, tempDisk, ledgerVars, Movers, PlaceInv, KeeperAt, OwnOf, PhasesKept, Ahead, Over, Sealed, Marking, Uses, LetGoOf,
         SweepPlaces, EndPlaces
    <2> QED BY <2>1, <2>2
  <1>13. ASSUME NEW p \in Movers, SharedTaken(p) PROVE \A r \in Keepers : \A d \in OwnOf(r) : PhasesKept(r, d)
    <2> TAKE r \in Keepers
    <2> TAKE d \in OwnOf(r)
    <2>1. CASE r /= p
      <3>1. place'[r] = place[r] /\ making'[r] = making[r] /\ native'[r] = native[r]
        BY <1>13, <2>1 DEF SharedTaken, MovesOn, IsHeld, Makes, NoScan, tempDisk, ledgerVars, Movers, PlaceInv
      <3> QED BY <3>1, Steady
    <2>2. CASE r = p
      <3>1. KeeperAt(p)  BY <2>2 DEF PlaceInv
      <3>2. making[p] = SharedNative /\ native[p] = NoDir /\ place[p] = "claim"
            /\ making'[p] = NativeOf(p) /\ native'[p] = NoDir /\ place'[p] = "claim"
        BY <1>13, <3>1, <2>2 DEF SharedTaken, MovesOn, IsHeld, Makes, NoScan, tempDisk, ledgerVars, PlaceInv, KeeperAt, SweepPlaces, EndPlaces
      <3> QED BY <2>2, <3>2 DEF OwnOf, PhasesKept, Ahead, Over, Sealed, Marking, Uses, LetGoOf, SweepPlaces
    <2> QED BY <2>1, <2>2
  <1>14. ASSUME NEW p \in Movers, Claims(p) PROVE \A r \in Keepers : \A d \in OwnOf(r) : PhasesKept(r, d)
    <2> TAKE r \in Keepers
    <2> TAKE d \in OwnOf(r)
    <2>1. CASE r /= p
      <3>1. place'[r] = place[r] /\ making'[r] = making[r] /\ native'[r] = native[r]
        BY <1>14, <2>1 DEF Claims, MovesOn, LockDir, IsHeld, tempDisk, ledgerVars, Movers, PlaceInv
      <3> QED BY <3>1, Steady
    <2>2. CASE r = p
      BY <1>14, <2>2, KeptTempAssumption DEF Claims, MovesOn, LockDir, IsHeld, tempDisk, ledgerVars, Movers, PlaceInv, KeeperAt, OwnOf, PhasesKept, Ahead, Over, Sealed, Marking, Uses, LetGoOf,
         SweepPlaces, EndPlaces
    <2> QED BY <2>1, <2>2
  <1>15. ASSUME NEW p \in Movers, Marks(p) PROVE \A r \in Keepers : \A d \in OwnOf(r) : PhasesKept(r, d)
    <2> TAKE r \in Keepers
    <2> TAKE d \in OwnOf(r)
    <2>1. CASE r /= p
      <3>1. place'[r] = place[r] /\ making'[r] = making[r] /\ native'[r] = native[r]
        BY <1>15, <2>1 DEF Marks, MovesOn, MarkDir, MarkerOf, tempDisk, ledgerVars, Movers, PlaceInv
      <3> QED BY <3>1, Steady
    <2>2. CASE r = p
      BY <1>15, <2>2, KeptTempAssumption DEF Marks, MovesOn, MarkDir, MarkerOf, tempDisk, ledgerVars, Movers, PlaceInv, KeeperAt, OwnOf, PhasesKept, Ahead, Over, Sealed, Marking, Uses, LetGoOf,
         SweepPlaces, EndPlaces
    <2> QED BY <2>1, <2>2
  <1>16. ASSUME NEW p \in Movers, ClaimFails(p) PROVE \A r \in Keepers : \A d \in OwnOf(r) : PhasesKept(r, d)
    <2> TAKE r \in Keepers
    <2> TAKE d \in OwnOf(r)
    <2>1. CASE r /= p
      <3>1. place'[r] = place[r] /\ making'[r] = making[r] /\ native'[r] = native[r]
        BY <1>16, <2>1 DEF ClaimFails, MovesOn, UnlockDir, tempDisk, ledgerVars, Movers, PlaceInv
      <3> QED BY <3>1, Steady
    <2>2. CASE r = p
      BY <1>16, <2>2, KeptTempAssumption DEF ClaimFails, MovesOn, UnlockDir, tempDisk, ledgerVars, Movers, PlaceInv, KeeperAt, OwnOf, PhasesKept, Ahead, Over, Sealed, Marking, Uses, LetGoOf,
         SweepPlaces, EndPlaces
    <2> QED BY <2>1, <2>2
  <1>17. ASSUME NEW p \in Movers, Works(p) PROVE \A r \in Keepers : \A d \in OwnOf(r) : PhasesKept(r, d)
    <2> TAKE r \in Keepers
    <2> TAKE d \in OwnOf(r)
    <2>1. CASE r /= p
      <3>1. place'[r] = place[r] /\ making'[r] = making[r] /\ native'[r] = native[r]
        BY <1>17, <2>1 DEF Works, MovesOn, OwnDirs, tempDisk, ledgerVars, Movers, PlaceInv
      <3> QED BY <3>1, Steady
    <2>2. CASE r = p
      BY <1>17, <2>2, KeptTempAssumption DEF Works, MovesOn, OwnDirs, tempDisk, ledgerVars, Movers, PlaceInv, KeeperAt, OwnOf, PhasesKept, Ahead, Over, Sealed, Marking, Uses, LetGoOf,
         SweepPlaces, EndPlaces
    <2> QED BY <2>1, <2>2
  <1>18. ASSUME NEW p \in Movers, NoNative(p) PROVE \A r \in Keepers : \A d \in OwnOf(r) : PhasesKept(r, d)
    <2> TAKE r \in Keepers
    <2> TAKE d \in OwnOf(r)
    <2>1. CASE r /= p
      <3>1. place'[r] = place[r] /\ making'[r] = making[r] /\ native'[r] = native[r]
        BY <1>18, <2>1 DEF NoNative, MovesOn, LetGo, tempDisk, ledgerVars, Movers, PlaceInv
      <3> QED BY <3>1, Steady
    <2>2. CASE r = p
      <3>1. KeeperAt(p)  BY <2>2 DEF PlaceInv
      <3>2. native[p] = NoDir /\ place[p] = "close" /\ making[p] \in {SharedNative, NativeOf(p)}
            /\ making'[p] = ScratchOf(p) /\ native'[p] = NoDir /\ place'[p] = "close"
        BY <1>18, <3>1, <2>2 DEF NoNative, MovesOn, LetGo, tempDisk, ledgerVars, PlaceInv, KeeperAt, SweepPlaces, EndPlaces
      <3> QED BY <2>2, <3>2 DEF OwnOf, PhasesKept, Ahead, Over, Sealed, Marking, Uses, LetGoOf, SweepPlaces
    <2> QED BY <2>1, <2>2
  <1>19. ASSUME NEW p \in Movers, KeepMarks(p) PROVE \A r \in Keepers : \A d \in OwnOf(r) : PhasesKept(r, d)
    <2> TAKE r \in Keepers
    <2> TAKE d \in OwnOf(r)
    <2>1. CASE r /= p
      <3>1. place'[r] = place[r] /\ making'[r] = making[r] /\ native'[r] = native[r]
        BY <1>19, <2>1 DEF KeepMarks, MovesOn, MarkDir, MarkerOf, Leaving, tempDisk, ledgerVars, Movers, PlaceInv
      <3> QED BY <3>1, Steady
    <2>2. CASE r = p
      BY <1>19, <2>2, KeptTempAssumption DEF KeepMarks, MovesOn, MarkDir, MarkerOf, Leaving, tempDisk, ledgerVars, Movers, PlaceInv, KeeperAt, OwnOf, PhasesKept, Ahead, Over, Sealed, Marking, Uses, LetGoOf,
         SweepPlaces, EndPlaces
    <2> QED BY <2>1, <2>2
  <1>20. ASSUME NEW p \in Movers, KeepUnlocks(p) PROVE \A r \in Keepers : \A d \in OwnOf(r) : PhasesKept(r, d)
    <2> TAKE r \in Keepers
    <2> TAKE d \in OwnOf(r)
    <2>1. CASE r /= p
      <3>1. place'[r] = place[r] /\ making'[r] = making[r] /\ native'[r] = native[r]
        BY <1>20, <2>1 DEF KeepUnlocks, MovesOn, UnlockDir, Leaving, tempDisk, ledgerVars, Movers, PlaceInv
      <3> QED BY <3>1, Steady
    <2>2. CASE r = p
      BY <1>20, <2>2, KeptTempAssumption DEF KeepUnlocks, MovesOn, UnlockDir, Leaving, tempDisk, ledgerVars, Movers, PlaceInv, KeeperAt, OwnOf, PhasesKept, Ahead, Over, Sealed, Marking, Uses, LetGoOf,
         SweepPlaces, EndPlaces
    <2> QED BY <2>1, <2>2
  <1>21. ASSUME NEW p \in Movers, KeepFails(p) PROVE \A r \in Keepers : \A d \in OwnOf(r) : PhasesKept(r, d)
    <2> TAKE r \in Keepers
    <2> TAKE d \in OwnOf(r)
    <2>1. CASE r /= p
      <3>1. place'[r] = place[r] /\ making'[r] = making[r] /\ native'[r] = native[r]
        BY <1>21, <2>1 DEF KeepFails, MovesOn, UnlockDir, Leaving, LetGo, tempDisk, ledgerVars, Movers, PlaceInv
      <3> QED BY <3>1, Steady
    <2>2. CASE r = p
      BY <1>21, <2>2, KeptTempAssumption DEF KeepFails, MovesOn, UnlockDir, Leaving, LetGo, tempDisk, ledgerVars, Movers, PlaceInv, KeeperAt, OwnOf, PhasesKept, Ahead, Over, Sealed, Marking, Uses, LetGoOf,
         SweepPlaces, EndPlaces
    <2> QED BY <2>1, <2>2
  <1>22. ASSUME NEW p \in Movers, Releases(p) PROVE \A r \in Keepers : \A d \in OwnOf(r) : PhasesKept(r, d)
    <2> TAKE r \in Keepers
    <2> TAKE d \in OwnOf(r)
    <2>1. CASE r /= p
      <3>1. place'[r] = place[r] /\ making'[r] = making[r] /\ native'[r] = native[r]
        BY <1>22, <2>1 DEF Releases, MovesOn, UnlockDir, Leaving, LetGo, tempDisk, ledgerVars, Movers, PlaceInv
      <3> QED BY <3>1, Steady
    <2>2. CASE r = p
      BY <1>22, <2>2, KeptTempAssumption DEF Releases, MovesOn, UnlockDir, Leaving, LetGo, tempDisk, ledgerVars, Movers, PlaceInv, KeeperAt, OwnOf, PhasesKept, Ahead, Over, Sealed, Marking, Uses, LetGoOf,
         SweepPlaces, EndPlaces
    <2> QED BY <2>1, <2>2
  <1>23. ASSUME NEW p \in Movers, DropEmpties(p) PROVE \A r \in Keepers : \A d \in OwnOf(r) : PhasesKept(r, d)
    <2> TAKE r \in Keepers
    <2> TAKE d \in OwnOf(r)
    <2>1. CASE r /= p
      <3>1. place'[r] = place[r] /\ making'[r] = making[r] /\ native'[r] = native[r]
        BY <1>23, <2>1 DEF DropEmpties, MovesOn, EmptyDir, tempDisk, ledgerVars, Movers, PlaceInv
      <3> QED BY <3>1, Steady
    <2>2. CASE r = p
      BY <1>23, <2>2, KeptTempAssumption DEF DropEmpties, MovesOn, EmptyDir, tempDisk, ledgerVars, Movers, PlaceInv, KeeperAt, OwnOf, PhasesKept, Ahead, Over, Sealed, Marking, Uses, LetGoOf,
         SweepPlaces, EndPlaces
    <2> QED BY <2>1, <2>2
  <1>24. ASSUME NEW p \in Movers, DropUnlinks(p) PROVE \A r \in Keepers : \A d \in OwnOf(r) : PhasesKept(r, d)
    <2> TAKE r \in Keepers
    <2> TAKE d \in OwnOf(r)
    <2>1. CASE r /= p
      <3>1. place'[r] = place[r] /\ making'[r] = making[r] /\ native'[r] = native[r]
        BY <1>24, <2>1 DEF DropUnlinks, MovesOn, Unlinkable, UnlinkDir, LetGo, tempDisk, ledgerVars, Movers, PlaceInv
      <3> QED BY <3>1, Steady
    <2>2. CASE r = p
      BY <1>24, <2>2, KeptTempAssumption DEF DropUnlinks, MovesOn, Unlinkable, UnlinkDir, LetGo, tempDisk, ledgerVars, Movers, PlaceInv, KeeperAt, OwnOf, PhasesKept, Ahead, Over, Sealed, Marking, Uses, LetGoOf,
         SweepPlaces, EndPlaces
    <2> QED BY <2>1, <2>2
  <1>25. ASSUME NEW p \in Movers, NoteReads(p) PROVE \A r \in Keepers : \A d \in OwnOf(r) : PhasesKept(r, d)
    <2> TAKE r \in Keepers
    <2> TAKE d \in OwnOf(r)
    <2>1. CASE r /= p
      <3>1. place'[r] = place[r] /\ making'[r] = making[r] /\ native'[r] = native[r]
        BY <1>25, <2>1 DEF NoteReads, MovesOn, TakeLedger, tempDisk, ledgerVars, Movers, PlaceInv
      <3> QED BY <3>1, Steady
    <2>2. CASE r = p
      BY <1>25, <2>2, KeptTempAssumption DEF NoteReads, MovesOn, TakeLedger, tempDisk, ledgerVars, Movers, PlaceInv, KeeperAt, OwnOf, PhasesKept, Ahead, Over, Sealed, Marking, Uses, LetGoOf,
         SweepPlaces, EndPlaces
    <2> QED BY <2>1, <2>2
  <1>26. ASSUME NEW p \in Movers, NoteWrites(p) PROVE \A r \in Keepers : \A d \in OwnOf(r) : PhasesKept(r, d)
    <2> TAKE r \in Keepers
    <2> TAKE d \in OwnOf(r)
    <2>1. CASE r /= p
      <3>1. place'[r] = place[r] /\ making'[r] = making[r] /\ native'[r] = native[r]
        BY <1>26, <2>1 DEF NoteWrites, MovesOn, LetGo, SaveLedger, Leaving, UnreadLedger, tempDisk, ledgerVars, Movers, PlaceInv
      <3> QED BY <3>1, Steady
    <2>2. CASE r = p
      BY <1>26, <2>2, KeptTempAssumption DEF NoteWrites, MovesOn, LetGo, SaveLedger, Leaving, UnreadLedger, tempDisk, ledgerVars, Movers, PlaceInv, KeeperAt, OwnOf, PhasesKept, Ahead, Over, Sealed, Marking, Uses, LetGoOf,
         SweepPlaces, EndPlaces
    <2> QED BY <2>1, <2>2
  <1>27. ASSUME NEW p \in Movers, NoteGivesUp(p) PROVE \A r \in Keepers : \A d \in OwnOf(r) : PhasesKept(r, d)
    <2> TAKE r \in Keepers
    <2> TAKE d \in OwnOf(r)
    <2>1. CASE r /= p
      <3>1. place'[r] = place[r] /\ making'[r] = making[r] /\ native'[r] = native[r]
        BY <1>27, <2>1 DEF NoteGivesUp, MovesOn, LetGo, tempDisk, ledgerVars, Movers, PlaceInv
      <3> QED BY <3>1, Steady
    <2>2. CASE r = p
      BY <1>27, <2>2, KeptTempAssumption DEF NoteGivesUp, MovesOn, LetGo, tempDisk, ledgerVars, Movers, PlaceInv, KeeperAt, OwnOf, PhasesKept, Ahead, Over, Sealed, Marking, Uses, LetGoOf,
         SweepPlaces, EndPlaces
    <2> QED BY <2>1, <2>2
  <1>28. ASSUME NEW p \in Movers, GcSweeps(p) PROVE \A r \in Keepers : \A d \in OwnOf(r) : PhasesKept(r, d)
    <2> TAKE r \in Keepers
    <2> TAKE d \in OwnOf(r)
    <2>1. CASE r /= p
      <3>1. place'[r] = place[r] /\ making'[r] = making[r] /\ native'[r] = native[r]
        BY <1>28, <2>1 DEF GcSweeps, MovesOn, SweptAll, SweepLists, tempDisk, ledgerVars, Movers, PlaceInv
      <3> QED BY <3>1, Steady
    <2>2. CASE r = p
      BY <1>28, <2>2, KeptTempAssumption DEF GcSweeps, MovesOn, SweptAll, SweepLists, tempDisk, ledgerVars, Movers, PlaceInv, KeeperAt, OwnOf, PhasesKept, Ahead, Over, Sealed, Marking, Uses, LetGoOf,
         SweepPlaces, EndPlaces
    <2> QED BY <2>1, <2>2
  <1>29. ASSUME NEW p \in Movers, GcSwept(p) PROVE \A r \in Keepers : \A d \in OwnOf(r) : PhasesKept(r, d)
    <2> TAKE r \in Keepers
    <2> TAKE d \in OwnOf(r)
    <2>1. CASE r /= p
      <3>1. place'[r] = place[r] /\ making'[r] = making[r] /\ native'[r] = native[r]
        BY <1>29, <2>1 DEF GcSwept, MovesOn, SweptAll, NoScan, tempDisk, ledgerVars, Movers, PlaceInv
      <3> QED BY <3>1, Steady
    <2>2. CASE r = p
      BY <1>29, <2>2, KeptTempAssumption DEF GcSwept, MovesOn, SweptAll, NoScan, tempDisk, ledgerVars, Movers, PlaceInv, KeeperAt, OwnOf, PhasesKept, Ahead, Over, Sealed, Marking, Uses, LetGoOf,
         SweepPlaces, EndPlaces
    <2> QED BY <2>1, <2>2
  <1>30. ASSUME NEW p \in Movers, GcReads(p) PROVE \A r \in Keepers : \A d \in OwnOf(r) : PhasesKept(r, d)
    <2> TAKE r \in Keepers
    <2> TAKE d \in OwnOf(r)
    <2>1. CASE r /= p
      <3>1. place'[r] = place[r] /\ making'[r] = making[r] /\ native'[r] = native[r]
        BY <1>30, <2>1 DEF GcReads, MovesOn, TakeLedger, tempDisk, ledgerVars, Movers, PlaceInv
      <3> QED BY <3>1, Steady
    <2>2. CASE r = p
      BY <1>30, <2>2, KeptTempAssumption DEF GcReads, MovesOn, TakeLedger, tempDisk, ledgerVars, Movers, PlaceInv, KeeperAt, OwnOf, PhasesKept, Ahead, Over, Sealed, Marking, Uses, LetGoOf,
         SweepPlaces, EndPlaces
    <2> QED BY <2>1, <2>2
  <1>31. ASSUME NEW p \in Movers, GcGivesUp(p) PROVE \A r \in Keepers : \A d \in OwnOf(r) : PhasesKept(r, d)
    <2> TAKE r \in Keepers
    <2> TAKE d \in OwnOf(r)
    <2>1. CASE r /= p
      <3>1. place'[r] = place[r] /\ making'[r] = making[r] /\ native'[r] = native[r]
        BY <1>31, <2>1 DEF GcGivesUp, MovesOn, tempDisk, ledgerVars, Movers, PlaceInv
      <3> QED BY <3>1, Steady
    <2>2. CASE r = p
      BY <1>31, <2>2, KeptTempAssumption DEF GcGivesUp, MovesOn, tempDisk, ledgerVars, Movers, PlaceInv, KeeperAt, OwnOf, PhasesKept, Ahead, Over, Sealed, Marking, Uses, LetGoOf,
         SweepPlaces, EndPlaces
    <2> QED BY <2>1, <2>2
  <1>32. ASSUME NEW p \in Movers, GcPasses(p) PROVE \A r \in Keepers : \A d \in OwnOf(r) : PhasesKept(r, d)
    <2> TAKE r \in Keepers
    <2> TAKE d \in OwnOf(r)
    <2>1. CASE r /= p
      <3>1. place'[r] = place[r] /\ making'[r] = making[r] /\ native'[r] = native[r]
        BY <1>32, <2>1 DEF GcPasses, MovesOn, tempDisk, ledgerVars, Movers, PlaceInv
      <3> QED BY <3>1, Steady
    <2>2. CASE r = p
      BY <1>32, <2>2, KeptTempAssumption DEF GcPasses, MovesOn, tempDisk, ledgerVars, Movers, PlaceInv, KeeperAt, OwnOf, PhasesKept, Ahead, Over, Sealed, Marking, Uses, LetGoOf,
         SweepPlaces, EndPlaces
    <2> QED BY <2>1, <2>2
  <1>33. ASSUME NEW p \in Movers, GcTakes(p) PROVE \A r \in Keepers : \A d \in OwnOf(r) : PhasesKept(r, d)
    <2> TAKE r \in Keepers
    <2> TAKE d \in OwnOf(r)
    <2>1. CASE r /= p
      <3>1. place'[r] = place[r] /\ making'[r] = making[r] /\ native'[r] = native[r]
        BY <1>33, <2>1 DEF GcTakes, MovesOn, Vouched, MarkerOf, tempDisk, ledgerVars, Movers, PlaceInv
      <3> QED BY <3>1, Steady
    <2>2. CASE r = p
      BY <1>33, <2>2, KeptTempAssumption DEF GcTakes, MovesOn, Vouched, MarkerOf, tempDisk, ledgerVars, Movers, PlaceInv, KeeperAt, OwnOf, PhasesKept, Ahead, Over, Sealed, Marking, Uses, LetGoOf,
         SweepPlaces, EndPlaces
    <2> QED BY <2>1, <2>2
  <1>34. ASSUME NEW p \in Movers, GcEmpties(p) PROVE \A r \in Keepers : \A d \in OwnOf(r) : PhasesKept(r, d)
    <2> TAKE r \in Keepers
    <2> TAKE d \in OwnOf(r)
    <2>1. CASE r /= p
      <3>1. place'[r] = place[r] /\ making'[r] = making[r] /\ native'[r] = native[r]
        BY <1>34, <2>1 DEF GcEmpties, MovesOn, EmptyDir, tempDisk, ledgerVars, Movers, PlaceInv
      <3> QED BY <3>1, Steady
    <2>2. CASE r = p
      BY <1>34, <2>2, KeptTempAssumption DEF GcEmpties, MovesOn, EmptyDir, tempDisk, ledgerVars, Movers, PlaceInv, KeeperAt, OwnOf, PhasesKept, Ahead, Over, Sealed, Marking, Uses, LetGoOf,
         SweepPlaces, EndPlaces
    <2> QED BY <2>1, <2>2
  <1>35. ASSUME NEW p \in Movers, GcUnlinks(p) PROVE \A r \in Keepers : \A d \in OwnOf(r) : PhasesKept(r, d)
    <2> TAKE r \in Keepers
    <2> TAKE d \in OwnOf(r)
    <2>1. CASE r /= p
      <3>1. place'[r] = place[r] /\ making'[r] = making[r] /\ native'[r] = native[r]
        BY <1>35, <2>1 DEF GcUnlinks, MovesOn, Unlinkable, UnlinkDir, tempDisk, ledgerVars, Movers, PlaceInv
      <3> QED BY <3>1, Steady
    <2>2. CASE r = p
      BY <1>35, <2>2, KeptTempAssumption DEF GcUnlinks, MovesOn, Unlinkable, UnlinkDir, tempDisk, ledgerVars, Movers, PlaceInv, KeeperAt, OwnOf, PhasesKept, Ahead, Over, Sealed, Marking, Uses, LetGoOf,
         SweepPlaces, EndPlaces
    <2> QED BY <2>1, <2>2
  <1>36. ASSUME NEW p \in Movers, GcWrites(p) PROVE \A r \in Keepers : \A d \in OwnOf(r) : PhasesKept(r, d)
    <2> TAKE r \in Keepers
    <2> TAKE d \in OwnOf(r)
    <2>1. CASE r /= p
      <3>1. place'[r] = place[r] /\ making'[r] = making[r] /\ native'[r] = native[r]
        BY <1>36, <2>1 DEF GcWrites, MovesOn, SaveLedger, NoScan, UnreadLedger, tempDisk, ledgerVars, Movers, PlaceInv
      <3> QED BY <3>1, Steady
    <2>2. CASE r = p
      BY <1>36, <2>2, KeptTempAssumption DEF GcWrites, MovesOn, SaveLedger, NoScan, UnreadLedger, tempDisk, ledgerVars, Movers, PlaceInv, KeeperAt, OwnOf, PhasesKept, Ahead, Over, Sealed, Marking, Uses, LetGoOf,
         SweepPlaces, EndPlaces
    <2> QED BY <2>1, <2>2
  <1>37. ASSUME NEW p \in Movers, Dies(p) PROVE \A r \in Keepers : \A d \in OwnOf(r) : PhasesKept(r, d)
    <2> TAKE r \in Keepers
    <2> TAKE d \in OwnOf(r)
    <2>1. CASE r /= p
      <3>1. place'[r] = place[r] /\ making'[r] = making[r] /\ native'[r] = native[r]
        BY <1>37, <2>1 DEF Dies, UnreadLedger, NoScan, tempDisk, ledgerVars, Movers, PlaceInv
      <3> QED BY <3>1, Steady
    <2>2. CASE r = p
      BY <1>37, <2>2, KeptTempAssumption DEF Dies, UnreadLedger, NoScan, tempDisk, ledgerVars, Movers, PlaceInv, KeeperAt, OwnOf, PhasesKept, Ahead, Over, Sealed, Marking, Uses, LetGoOf,
         SweepPlaces, EndPlaces
    <2> QED BY <2>1, <2>2
  <1>38. ASSUME NEW e \in TempDirs, Ages(e) PROVE \A r \in Keepers : \A d \in OwnOf(r) : PhasesKept(r, d)
    BY <1>38, Steady DEF Ages
  <1>39. CASE UNCHANGED keptTempVars
    BY <1>39, Steady DEF keptTempVars, tempDisk, ledgerVars
  <1> QED
    BY <1>1, <1>2, <1>3, <1>4, <1>5, <1>6, <1>7, <1>8, <1>9, <1>10, <1>11, <1>12,
       <1>13, <1>14, <1>15, <1>16, <1>17, <1>18, <1>19, <1>20, <1>21, <1>22, <1>23, <1>24,
       <1>25, <1>26, <1>27, <1>28, <1>29, <1>30, <1>31, <1>32, <1>33, <1>34, <1>35, <1>36,
       <1>37, <1>38, <1>39
    DEF KeptTempNext, SweepNext, RunNext, LedgerNext

\* A run makes, claims and lets go what is its own, or the shared projection.
LEMMA MadeByItself ==
  ASSUME KeptTempTypeOK, PlaceInv, NEW p \in Movers, NEW r \in Keepers, NEW d \in OwnOf(r)
  PROVE  /\ r /= p => making[p] /= d /\ native[p] /= d
         /\ d \in TempDirs
         /\ p \in Keepers /\ r /= p => ScratchOf(p) /= d /\ NativeOf(p) /= d
         /\ d /= SharedNative /\ d /= NoDir /\ d /= Foreign
  <1> USE DirFacts, KeptTempAssumption
  <1>1. d \in TempDirs  BY DEF OwnOf
  <1>2. ASSUME p \in Keepers, r /= p PROVE making[p] /= d /\ native[p] /= d
    <2>1. KeeperAt(p) /\ OwnOf(p) \cap OwnOf(r) = {}  BY <1>2 DEF PlaceInv
    <2> QED BY <2>1, <1>1 DEF KeeperAt, OwnOf
  <1>3. ASSUME p \in Collectors PROVE making[p] /= d /\ native[p] /= d
    BY <1>1, <1>3 DEF PlaceInv, CollectorAt
  <1>4. p \in Keepers /\ r /= p => ScratchOf(p) /= d /\ NativeOf(p) /= d
    <2> SUFFICES ASSUME p \in Keepers, r /= p PROVE ScratchOf(p) /= d /\ NativeOf(p) /= d  OBVIOUS
    <2>1. OwnOf(p) \cap OwnOf(r) = {}  OBVIOUS
    <2> QED BY <2>1 DEF OwnOf
  <1>5. d /= SharedNative /\ d /= NoDir /\ d /= Foreign  BY DEF OwnOf
  <1> QED BY <1>1, <1>2, <1>3, <1>4, <1>5 DEF Movers

Untouched(r, d) ==
  /\ d \notin stale /\ ownerMarker[d] = Unmarked /\ ownerLock[d] = "absent"
  /\ d \in present => making[r] = d

LEMMA AheadStep == KeptTempTypeOK /\ PlaceInv /\ ScanInv /\ AheadInv /\ AskedInv /\ [KeptTempNext]_keptTempVars => AheadInv'
  <1> SUFFICES ASSUME KeptTempTypeOK /\ PlaceInv /\ ScanInv /\ AheadInv /\ AskedInv, [KeptTempNext]_keptTempVars,
                      NEW r \in Keepers, NEW d \in OwnOf(r), Ahead(r, d)'
               PROVE  Untouched(r, d)'
    BY DEF AheadInv, Untouched
  <1> USE KeptTempAssumption, DirFacts DEF KeptTempTypeOK
  <1>ahead. Ahead(r, d)  BY PhaseStep DEF PhasesKept
  <1>was. /\ d \notin stale /\ ownerMarker[d] = Unmarked /\ ownerLock[d] = "absent"
          /\ d \in present => making[r] = d /\ place[r] = "claim"
          /\ d \in TempDirs /\ r \in Movers
    <2>1. Untouched(r, d)  BY <1>ahead DEF AheadInv, Untouched
    <2>2. d \in TempDirs /\ r \in Movers  BY MadeByItself DEF Movers
    <2>3. making[r] = d => place[r] = "claim"  BY <1>ahead DEF Ahead, OwnOf
    <2> QED BY <2>1, <2>2, <2>3 DEF Untouched
  <1>asked. \A p \in Movers : place[p] = "sweep_lock" => scan[p].at /= d  BY <1>ahead DEF AskedInv
  <1>1. ASSUME NEW p \in Movers, Classify(p) PROVE Untouched(r, d)'
    BY <1>1, <1>was, <1>asked, MadeByItself DEF Untouched, Classify, MovesOn, tempDisk, ledgerVars, Ahead, Movers
  <1>2. ASSUME NEW p \in Movers, SweepSpares(p) PROVE Untouched(r, d)'
    BY <1>2, <1>was, <1>asked, MadeByItself DEF Untouched, SweepSpares, MovesOn, tempDisk, ledgerVars, Ahead, Movers
  <1>3. ASSUME NEW p \in Movers, SweepLocks(p) PROVE Untouched(r, d)'
    BY <1>3, <1>was, <1>asked, MadeByItself DEF Untouched, SweepLocks, MovesOn, LockDir, IsHeld, tempDisk, ledgerVars, Ahead, Movers
  <1>4. ASSUME NEW p \in Movers, SweepUnlocks(p) PROVE Untouched(r, d)'
    BY <1>4, <1>was, <1>asked, MadeByItself DEF Untouched, SweepUnlocks, MovesOn, UnlockDir, tempDisk, ledgerVars, Ahead, Movers
  <1>5. ASSUME NEW p \in Movers, SweepEmpties(p) PROVE Untouched(r, d)'
    BY <1>5, <1>was, <1>asked, MadeByItself DEF Untouched, SweepEmpties, MovesOn, EmptyDir, tempDisk, ledgerVars, Ahead, Movers
  <1>6. ASSUME NEW p \in Movers, SweepUnlinks(p) PROVE Untouched(r, d)'
    BY <1>6, <1>was, <1>asked, MadeByItself DEF Untouched, SweepUnlinks, MovesOn, Unlinkable, UnlinkDir, tempDisk, ledgerVars, Ahead, Movers
  <1>7. ASSUME NEW p \in Movers, RunSweeps(p) PROVE Untouched(r, d)'
    BY <1>7, <1>was, <1>asked, MadeByItself DEF Untouched, RunSweeps, MovesOn, SweepLists, tempDisk, ledgerVars, Ahead, Movers
  <1>8. ASSUME NEW p \in Movers, ScratchSwept(p) PROVE Untouched(r, d)'
    BY <1>8, <1>was, <1>asked, MadeByItself DEF Untouched, ScratchSwept, MovesOn, SweptAll, NoScan, tempDisk, ledgerVars, Ahead, Movers
  <1>9. ASSUME NEW p \in Movers, MakesScratch(p) PROVE Untouched(r, d)'
    <2> USE DEF Untouched
    <2> DEFINE e == ScratchOf(p)
    <2>1. p \in Keepers /\ making' = [making EXCEPT ![p] = e] /\ present' = present \cup {e}
          /\ UNCHANGED <<ownerLock, ownerMarker, stale>>
      BY <1>9 DEF MakesScratch, MovesOn, Makes, NoScan, tempDisk, ledgerVars, PlaceInv, CollectorAt, Movers, SweepPlaces, GcPlaces
    <2>2. CASE p = r
      <3>1. d \notin present
        BY <1>9, <1>was, <2>2 DEF MakesScratch, MovesOn, Makes, NoScan, tempDisk, ledgerVars, OwnOf
      <3> QED BY <2>1, <2>2, <3>1, <1>was
    <2>3. CASE p /= r
      <3>1. e /= d
        <4>1. OwnOf(p) \cap OwnOf(r) = {} /\ d /= SharedNative  BY <2>1, <2>3 DEF OwnOf
        <4> QED BY <4>1 DEF OwnOf
      <3> HIDE DEF e
      <3> QED BY <2>1, <2>3, <3>1, <1>was
    <2> QED BY <2>2, <2>3
  <1>10. ASSUME NEW p \in Movers, NativeSweeps(p) PROVE Untouched(r, d)'
    BY <1>10, <1>was, <1>asked, MadeByItself DEF Untouched, NativeSweeps, MovesOn, SweepLists, tempDisk, ledgerVars, Ahead, Movers
  <1>11. ASSUME NEW p \in Movers, Uncached(p) PROVE Untouched(r, d)'
    BY <1>11, <1>was, <1>asked, MadeByItself DEF Untouched, Uncached, MovesOn, tempDisk, ledgerVars, Ahead, Movers
  <1>12. ASSUME NEW p \in Movers, MakesShared(p) PROVE Untouched(r, d)'
    <2> USE DEF Untouched
    <2> DEFINE e == SharedNative
    <2>1. p \in Keepers /\ making' = [making EXCEPT ![p] = e] /\ present' = present \cup {e}
          /\ UNCHANGED <<ownerLock, ownerMarker, stale>>
      BY <1>12 DEF MakesShared, MovesOn, SweptAll, Makes, NoScan, tempDisk, ledgerVars, PlaceInv, CollectorAt, Movers, SweepPlaces, GcPlaces
    <2>2. CASE p = r
      <3>1. d \notin present
        BY <1>12, <1>was, <2>2 DEF MakesShared, MovesOn, SweptAll, Makes, NoScan, tempDisk, ledgerVars, OwnOf
      <3> QED BY <2>1, <2>2, <3>1, <1>was
    <2>3. CASE p /= r
      <3>1. e /= d
        <4>1. OwnOf(p) \cap OwnOf(r) = {} /\ d /= SharedNative  BY <2>1, <2>3 DEF OwnOf
        <4> QED BY <4>1 DEF OwnOf
      <3> HIDE DEF e
      <3> QED BY <2>1, <2>3, <3>1, <1>was
    <2> QED BY <2>2, <2>3
  <1>13. ASSUME NEW p \in Movers, SharedTaken(p) PROVE Untouched(r, d)'
    <2> USE DEF Untouched
    <2> DEFINE e == NativeOf(p)
    <2>1. p \in Keepers /\ making' = [making EXCEPT ![p] = e] /\ present' = present \cup {e}
          /\ UNCHANGED <<ownerLock, ownerMarker, stale>>
      BY <1>13 DEF SharedTaken, MovesOn, IsHeld, Makes, NoScan, tempDisk, ledgerVars, PlaceInv, CollectorAt, Movers, SweepPlaces, GcPlaces
    <2>2. CASE p = r
      <3>1. d \notin present
        BY <1>13, <1>was, <2>2 DEF SharedTaken, MovesOn, IsHeld, Makes, NoScan, tempDisk, ledgerVars, OwnOf
      <3> QED BY <2>1, <2>2, <3>1, <1>was
    <2>3. CASE p /= r
      <3>1. e /= d
        <4>1. OwnOf(p) \cap OwnOf(r) = {} /\ d /= SharedNative  BY <2>1, <2>3 DEF OwnOf
        <4> QED BY <4>1 DEF OwnOf
      <3> HIDE DEF e
      <3> QED BY <2>1, <2>3, <3>1, <1>was
    <2> QED BY <2>2, <2>3
  <1>14. ASSUME NEW p \in Movers, Claims(p) PROVE Untouched(r, d)'
    <2> USE DEF Untouched
    <2>1. making[p] /= d
      BY <1>14, <1>was, MadeByItself DEF Claims, MovesOn, Ahead, OwnOf, PlaceInv
    <2> QED BY <1>14, <2>1, <1>was, MadeByItself DEF Claims, MovesOn, LockDir, IsHeld, tempDisk, ledgerVars
  <1>15. ASSUME NEW p \in Movers, Marks(p) PROVE Untouched(r, d)'
    BY <1>15, <1>was, <1>asked, MadeByItself DEF Untouched, Marks, MovesOn, MarkDir, MarkerOf, tempDisk, ledgerVars, Ahead, Movers
  <1>16. ASSUME NEW p \in Movers, ClaimFails(p) PROVE Untouched(r, d)'
    BY <1>16, <1>was, <1>asked, MadeByItself DEF Untouched, ClaimFails, MovesOn, UnlockDir, tempDisk, ledgerVars, Ahead, Movers
  <1>17. ASSUME NEW p \in Movers, Works(p) PROVE Untouched(r, d)'
    BY <1>17, <1>was, <1>asked, MadeByItself DEF Untouched, Works, MovesOn, OwnDirs, tempDisk, ledgerVars, Ahead, Movers
  <1>18. ASSUME NEW p \in Movers, NoNative(p) PROVE Untouched(r, d)'
    <2> USE DEF Untouched
    <2>1. p /= r
      BY <1>18, <1>ahead DEF NoNative, MovesOn, LetGo, tempDisk, ledgerVars, Ahead, PlaceInv, KeeperAt, Movers, SweepPlaces, EndPlaces
    <2>2. making'[r] = making[r]
      <3>1. making' = making \/ \E e : making' = [making EXCEPT ![p] = e]  BY <1>18 DEF NoNative, MovesOn, LetGo, tempDisk, ledgerVars
      <3> QED BY <2>1, <3>1, <1>was
    <2> QED BY <1>18, <2>1, <2>2, <1>was, MadeByItself DEF NoNative, MovesOn, LetGo, tempDisk, ledgerVars, Movers
  <1>19. ASSUME NEW p \in Movers, KeepMarks(p) PROVE Untouched(r, d)'
    BY <1>19, <1>was, <1>asked, MadeByItself DEF Untouched, KeepMarks, MovesOn, MarkDir, MarkerOf, Leaving, tempDisk, ledgerVars, Ahead, Movers
  <1>20. ASSUME NEW p \in Movers, KeepUnlocks(p) PROVE Untouched(r, d)'
    BY <1>20, <1>was, <1>asked, MadeByItself DEF Untouched, KeepUnlocks, MovesOn, UnlockDir, Leaving, tempDisk, ledgerVars, Ahead, Movers
  <1>21. ASSUME NEW p \in Movers, KeepFails(p) PROVE Untouched(r, d)'
    <2> USE DEF Untouched
    <2>1. p /= r
      BY <1>21, <1>ahead DEF KeepFails, MovesOn, UnlockDir, Leaving, LetGo, tempDisk, ledgerVars, Ahead, PlaceInv, KeeperAt, Movers, SweepPlaces, EndPlaces
    <2>2. making'[r] = making[r]
      <3>1. making' = making \/ \E e : making' = [making EXCEPT ![p] = e]  BY <1>21 DEF KeepFails, MovesOn, UnlockDir, Leaving, LetGo, tempDisk, ledgerVars
      <3> QED BY <2>1, <3>1, <1>was
    <2> QED BY <1>21, <2>1, <2>2, <1>was, MadeByItself DEF KeepFails, MovesOn, UnlockDir, Leaving, LetGo, tempDisk, ledgerVars, Movers
  <1>22. ASSUME NEW p \in Movers, Releases(p) PROVE Untouched(r, d)'
    <2> USE DEF Untouched
    <2>1. p /= r
      BY <1>22, <1>ahead DEF Releases, MovesOn, UnlockDir, Leaving, LetGo, tempDisk, ledgerVars, Ahead, PlaceInv, KeeperAt, Movers, SweepPlaces, EndPlaces
    <2>2. making'[r] = making[r]
      <3>1. making' = making \/ \E e : making' = [making EXCEPT ![p] = e]  BY <1>22 DEF Releases, MovesOn, UnlockDir, Leaving, LetGo, tempDisk, ledgerVars
      <3> QED BY <2>1, <3>1, <1>was
    <2> QED BY <1>22, <2>1, <2>2, <1>was, MadeByItself DEF Releases, MovesOn, UnlockDir, Leaving, LetGo, tempDisk, ledgerVars, Movers
  <1>23. ASSUME NEW p \in Movers, DropEmpties(p) PROVE Untouched(r, d)'
    BY <1>23, <1>was, <1>asked, MadeByItself DEF Untouched, DropEmpties, MovesOn, EmptyDir, tempDisk, ledgerVars, Ahead, Movers
  <1>24. ASSUME NEW p \in Movers, DropUnlinks(p) PROVE Untouched(r, d)'
    <2> USE DEF Untouched
    <2>1. p /= r
      BY <1>24, <1>ahead DEF DropUnlinks, MovesOn, Unlinkable, UnlinkDir, LetGo, tempDisk, ledgerVars, Ahead, PlaceInv, KeeperAt, Movers, SweepPlaces, EndPlaces
    <2>2. making'[r] = making[r]
      <3>1. making' = making \/ \E e : making' = [making EXCEPT ![p] = e]  BY <1>24 DEF DropUnlinks, MovesOn, Unlinkable, UnlinkDir, LetGo, tempDisk, ledgerVars
      <3> QED BY <2>1, <3>1, <1>was
    <2> QED BY <1>24, <2>1, <2>2, <1>was, MadeByItself DEF DropUnlinks, MovesOn, Unlinkable, UnlinkDir, LetGo, tempDisk, ledgerVars, Movers
  <1>25. ASSUME NEW p \in Movers, NoteReads(p) PROVE Untouched(r, d)'
    BY <1>25, <1>was, <1>asked, MadeByItself DEF Untouched, NoteReads, MovesOn, TakeLedger, tempDisk, ledgerVars, Ahead, Movers
  <1>26. ASSUME NEW p \in Movers, NoteWrites(p) PROVE Untouched(r, d)'
    <2> USE DEF Untouched
    <2>1. p /= r
      BY <1>26, <1>ahead DEF NoteWrites, MovesOn, LetGo, SaveLedger, Leaving, UnreadLedger, tempDisk, ledgerVars, Ahead, PlaceInv, KeeperAt, Movers, SweepPlaces, EndPlaces
    <2>2. making'[r] = making[r]
      <3>1. making' = making \/ \E e : making' = [making EXCEPT ![p] = e]  BY <1>26 DEF NoteWrites, MovesOn, LetGo, SaveLedger, Leaving, UnreadLedger, tempDisk, ledgerVars
      <3> QED BY <2>1, <3>1, <1>was
    <2> QED BY <1>26, <2>1, <2>2, <1>was, MadeByItself DEF NoteWrites, MovesOn, LetGo, SaveLedger, Leaving, UnreadLedger, tempDisk, ledgerVars, Movers
  <1>27. ASSUME NEW p \in Movers, NoteGivesUp(p) PROVE Untouched(r, d)'
    <2> USE DEF Untouched
    <2>1. p /= r
      BY <1>27, <1>ahead DEF NoteGivesUp, MovesOn, LetGo, tempDisk, ledgerVars, Ahead, PlaceInv, KeeperAt, Movers, SweepPlaces, EndPlaces
    <2>2. making'[r] = making[r]
      <3>1. making' = making \/ \E e : making' = [making EXCEPT ![p] = e]  BY <1>27 DEF NoteGivesUp, MovesOn, LetGo, tempDisk, ledgerVars
      <3> QED BY <2>1, <3>1, <1>was
    <2> QED BY <1>27, <2>1, <2>2, <1>was, MadeByItself DEF NoteGivesUp, MovesOn, LetGo, tempDisk, ledgerVars, Movers
  <1>28. ASSUME NEW p \in Movers, GcSweeps(p) PROVE Untouched(r, d)'
    BY <1>28, <1>was, <1>asked, MadeByItself DEF Untouched, GcSweeps, MovesOn, SweptAll, SweepLists, tempDisk, ledgerVars, Ahead, Movers
  <1>29. ASSUME NEW p \in Movers, GcSwept(p) PROVE Untouched(r, d)'
    BY <1>29, <1>was, <1>asked, MadeByItself DEF Untouched, GcSwept, MovesOn, SweptAll, NoScan, tempDisk, ledgerVars, Ahead, Movers
  <1>30. ASSUME NEW p \in Movers, GcReads(p) PROVE Untouched(r, d)'
    BY <1>30, <1>was, <1>asked, MadeByItself DEF Untouched, GcReads, MovesOn, TakeLedger, tempDisk, ledgerVars, Ahead, Movers
  <1>31. ASSUME NEW p \in Movers, GcGivesUp(p) PROVE Untouched(r, d)'
    BY <1>31, <1>was, <1>asked, MadeByItself DEF Untouched, GcGivesUp, MovesOn, tempDisk, ledgerVars, Ahead, Movers
  <1>32. ASSUME NEW p \in Movers, GcPasses(p) PROVE Untouched(r, d)'
    BY <1>32, <1>was, <1>asked, MadeByItself DEF Untouched, GcPasses, MovesOn, tempDisk, ledgerVars, Ahead, Movers
  <1>33. ASSUME NEW p \in Movers, GcTakes(p) PROVE Untouched(r, d)'
    BY <1>33, <1>was, <1>asked, MadeByItself DEF Untouched, GcTakes, MovesOn, Vouched, MarkerOf, tempDisk, ledgerVars, Ahead, Movers
  <1>34. ASSUME NEW p \in Movers, GcEmpties(p) PROVE Untouched(r, d)'
    BY <1>34, <1>was, <1>asked, MadeByItself DEF Untouched, GcEmpties, MovesOn, EmptyDir, tempDisk, ledgerVars, Ahead, Movers
  <1>35. ASSUME NEW p \in Movers, GcUnlinks(p) PROVE Untouched(r, d)'
    BY <1>35, <1>was, <1>asked, MadeByItself DEF Untouched, GcUnlinks, MovesOn, Unlinkable, UnlinkDir, tempDisk, ledgerVars, Ahead, Movers
  <1>36. ASSUME NEW p \in Movers, GcWrites(p) PROVE Untouched(r, d)'
    BY <1>36, <1>was, <1>asked, MadeByItself DEF Untouched, GcWrites, MovesOn, SaveLedger, NoScan, UnreadLedger, tempDisk, ledgerVars, Ahead, Movers
  <1>37. ASSUME NEW p \in Movers, Dies(p) PROVE Untouched(r, d)'
    <2> USE DEF Untouched
    <2>1. p /= r
      BY <1>37, <1>ahead DEF Dies, UnreadLedger, NoScan, tempDisk, ledgerVars, Ahead, PlaceInv, KeeperAt, Movers, SweepPlaces, EndPlaces
    <2>2. making'[r] = making[r]
      <3>1. making' = making \/ \E e : making' = [making EXCEPT ![p] = e]  BY <1>37 DEF Dies, UnreadLedger, NoScan, tempDisk, ledgerVars
      <3> QED BY <2>1, <3>1, <1>was
    <2> QED BY <1>37, <2>1, <2>2, <1>was, MadeByItself DEF Dies, UnreadLedger, NoScan, tempDisk, ledgerVars, Movers
  <1>38. ASSUME NEW e \in TempDirs, Ages(e) PROVE Untouched(r, d)'
    BY <1>38, <1>was, <1>asked, MadeByItself DEF Untouched, Ages, tempDisk, ledgerVars, Ahead, Movers
  <1>39. CASE UNCHANGED keptTempVars  BY <1>39, <1>was DEF Untouched, keptTempVars, tempDisk, ledgerVars
  <1> QED
    BY <1>1, <1>2, <1>3, <1>4, <1>5, <1>6, <1>7, <1>8, <1>9, <1>10, <1>11, <1>12,
       <1>13, <1>14, <1>15, <1>16, <1>17, <1>18, <1>19, <1>20, <1>21, <1>22, <1>23, <1>24,
       <1>25, <1>26, <1>27, <1>28, <1>29, <1>30, <1>31, <1>32, <1>33, <1>34, <1>35, <1>36,
       <1>37, <1>38, <1>39
    DEF KeptTempNext, SweepNext, RunNext, LedgerNext

Usable(r, d) ==
  /\ d \in present /\ d \notin stale /\ ownerLock[d] = r
  /\ Marking(r, d) => ownerMarker[d] = Unmarked
  /\ ~Marking(r, d) => ownerMarker[d].run = r
  /\ ownerMarker[d].kept => place[r] = "kept" /\ making[r] = d

LEMMA InUseStep == KeptTempTypeOK /\ PlaceInv /\ ScanInv /\ AheadInv /\ InUseInv /\ AskedInv /\ [KeptTempNext]_keptTempVars => InUseInv'
  <1> SUFFICES ASSUME KeptTempTypeOK /\ PlaceInv /\ ScanInv /\ AheadInv /\ InUseInv /\ AskedInv, [KeptTempNext]_keptTempVars,
                      NEW r \in Keepers, NEW d \in OwnOf(r), Uses(r, d)'
               PROVE  Usable(r, d)'
    BY DEF InUseInv, Usable
  <1> USE KeptTempAssumption, DirFacts DEF KeptTempTypeOK
  <1>begun. Uses(r, d) \/ (making[r] = d /\ place[r] = "claim" /\ place'[r] = "mark")
    BY PhaseStep DEF PhasesKept
  <1>was. /\ Uses(r, d) => Usable(r, d)
          /\ making[r] = d /\ place[r] = "claim" => ownerMarker[d] = Unmarked /\ d \notin stale
          /\ d \in TempDirs /\ r \in Movers
    BY MadeByItself DEF InUseInv, Usable, AheadInv, Ahead, Unmarked, Movers
  <1>asked. \A p \in Movers : place[p] \in {"sweep_unlock", "sweep_empty", "sweep_unlink", "gc_empty", "gc_unlink"} =>
              (Uses(r, d) => scan[p].at /= d)
    BY DEF AskedInv, Over
  <1>1. ASSUME NEW p \in Movers, Classify(p) PROVE Usable(r, d)'
    BY <1>1, <1>was, <1>begun, <1>asked, MadeByItself DEF Usable, Classify, MovesOn, tempDisk, ledgerVars, Uses, Marking, LetGoOf, PlaceInv, KeeperAt, CollectorAt, Movers, SweepPlaces, EndPlaces, GcPlaces, OwnOf
  <1>2. ASSUME NEW p \in Movers, SweepSpares(p) PROVE Usable(r, d)'
    BY <1>2, <1>was, <1>begun, <1>asked, MadeByItself DEF Usable, SweepSpares, MovesOn, tempDisk, ledgerVars, Uses, Marking, LetGoOf, PlaceInv, KeeperAt, CollectorAt, Movers, SweepPlaces, EndPlaces, GcPlaces, OwnOf
  <1>3. ASSUME NEW p \in Movers, SweepLocks(p) PROVE Usable(r, d)'
    BY <1>3, <1>was, <1>begun, <1>asked, MadeByItself DEF Usable, SweepLocks, MovesOn, LockDir, IsHeld, tempDisk, ledgerVars, Uses, Marking, LetGoOf, PlaceInv, KeeperAt, CollectorAt, Movers, SweepPlaces, EndPlaces, GcPlaces, OwnOf
  <1>4. ASSUME NEW p \in Movers, SweepUnlocks(p) PROVE Usable(r, d)'
    BY <1>4, <1>was, <1>begun, <1>asked, MadeByItself DEF Usable, SweepUnlocks, MovesOn, UnlockDir, tempDisk, ledgerVars, Uses, Marking, LetGoOf, PlaceInv, KeeperAt, CollectorAt, Movers, SweepPlaces, EndPlaces, GcPlaces, OwnOf
  <1>5. ASSUME NEW p \in Movers, SweepEmpties(p) PROVE Usable(r, d)'
    BY <1>5, <1>was, <1>begun, <1>asked, MadeByItself DEF Usable, SweepEmpties, MovesOn, EmptyDir, tempDisk, ledgerVars, Uses, Marking, LetGoOf, PlaceInv, KeeperAt, CollectorAt, Movers, SweepPlaces, EndPlaces, GcPlaces, OwnOf
  <1>6. ASSUME NEW p \in Movers, SweepUnlinks(p) PROVE Usable(r, d)'
    BY <1>6, <1>was, <1>begun, <1>asked, MadeByItself DEF Usable, SweepUnlinks, MovesOn, Unlinkable, UnlinkDir, tempDisk, ledgerVars, Uses, Marking, LetGoOf, PlaceInv, KeeperAt, CollectorAt, Movers, SweepPlaces, EndPlaces, GcPlaces, OwnOf
  <1>7. ASSUME NEW p \in Movers, RunSweeps(p) PROVE Usable(r, d)'
    BY <1>7, <1>was, <1>begun, <1>asked, MadeByItself DEF Usable, RunSweeps, MovesOn, SweepLists, tempDisk, ledgerVars, Uses, Marking, LetGoOf, PlaceInv, KeeperAt, CollectorAt, Movers, SweepPlaces, EndPlaces, GcPlaces, OwnOf
  <1>8. ASSUME NEW p \in Movers, ScratchSwept(p) PROVE Usable(r, d)'
    BY <1>8, <1>was, <1>begun, <1>asked, MadeByItself DEF Usable, ScratchSwept, MovesOn, SweptAll, NoScan, tempDisk, ledgerVars, Uses, Marking, LetGoOf, PlaceInv, KeeperAt, CollectorAt, Movers, SweepPlaces, EndPlaces, GcPlaces, OwnOf
  <1>9. ASSUME NEW p \in Movers, MakesScratch(p) PROVE Usable(r, d)'
    BY <1>9, <1>was, <1>begun, <1>asked, MadeByItself DEF Usable, MakesScratch, MovesOn, Makes, NoScan, tempDisk, ledgerVars, Uses, Marking, LetGoOf, PlaceInv, KeeperAt, CollectorAt, Movers, SweepPlaces, EndPlaces, GcPlaces, OwnOf
  <1>10. ASSUME NEW p \in Movers, NativeSweeps(p) PROVE Usable(r, d)'
    BY <1>10, <1>was, <1>begun, <1>asked, MadeByItself DEF Usable, NativeSweeps, MovesOn, SweepLists, tempDisk, ledgerVars, Uses, Marking, LetGoOf, PlaceInv, KeeperAt, CollectorAt, Movers, SweepPlaces, EndPlaces, GcPlaces, OwnOf
  <1>11. ASSUME NEW p \in Movers, Uncached(p) PROVE Usable(r, d)'
    BY <1>11, <1>was, <1>begun, <1>asked, MadeByItself DEF Usable, Uncached, MovesOn, tempDisk, ledgerVars, Uses, Marking, LetGoOf, PlaceInv, KeeperAt, CollectorAt, Movers, SweepPlaces, EndPlaces, GcPlaces, OwnOf
  <1>12. ASSUME NEW p \in Movers, MakesShared(p) PROVE Usable(r, d)'
    BY <1>12, <1>was, <1>begun, <1>asked, MadeByItself DEF Usable, MakesShared, MovesOn, SweptAll, Makes, NoScan, tempDisk, ledgerVars, Uses, Marking, LetGoOf, PlaceInv, KeeperAt, CollectorAt, Movers, SweepPlaces, EndPlaces, GcPlaces, OwnOf
  <1>13. ASSUME NEW p \in Movers, SharedTaken(p) PROVE Usable(r, d)'
    BY <1>13, <1>was, <1>begun, <1>asked, MadeByItself DEF Usable, SharedTaken, MovesOn, IsHeld, Makes, NoScan, tempDisk, ledgerVars, Uses, Marking, LetGoOf, PlaceInv, KeeperAt, CollectorAt, Movers, SweepPlaces, EndPlaces, GcPlaces, OwnOf
  <1>14. ASSUME NEW p \in Movers, Claims(p) PROVE Usable(r, d)'
    <2>1. place' = [place EXCEPT ![p] = "mark"] /\ place[p] = "claim" /\ making[p] \in present
          /\ ownerLock' = [ownerLock EXCEPT ![making[p]] = p] /\ ownerLock[making[p]] \notin Movers
          /\ UNCHANGED <<present, ownerMarker, stale, making, native>>
      BY <1>14 DEF Claims, MovesOn, LockDir, IsHeld
    <2>2. CASE making[p] = d
      <3>1. p = r  BY <2>2, MadeByItself
      <3>2. ~Uses(r, d)  BY <1>was, <1>begun, <2>1, <2>2 DEF Usable
      <3>3. ownerMarker[d] = Unmarked /\ d \notin stale  BY <1>was, <1>begun, <1>begun, <3>2
      <3>4. Marking(r, d)'  BY <2>1, <2>2, <3>1 DEF Marking, PlaceInv
      <3> QED BY <2>1, <2>2, <3>1, <3>3, <3>4, <1>was, <1>begun DEF Usable, Unmarked
    <2>3. CASE making[p] /= d
      <3>1. Uses(r, d)  BY <1>begun, <2>1, <2>3 DEF PlaceInv
      <3>2. Usable(r, d)  BY <1>was, <1>begun, <3>1
      <3>3. ~Marking(r, d) => ~Marking(r, d)'  BY <2>1, <2>3 DEF Marking, PlaceInv
      <3>4. Marking(r, d) => Marking(r, d)'  BY <2>1, <2>3 DEF Marking, PlaceInv
      <3>5. place[r] = "kept" => place'[r] = "kept"  BY <2>1 DEF PlaceInv
      <3> QED BY <2>1, <2>3, <3>2, <3>3, <3>4, <3>5, <1>was, <1>begun DEF Usable
    <2> QED BY <2>2, <2>3
  <1>15. ASSUME NEW p \in Movers, Marks(p) PROVE Usable(r, d)'
    BY <1>15, <1>was, <1>begun, <1>asked, MadeByItself DEF Usable, Marks, MovesOn, MarkDir, MarkerOf, tempDisk, ledgerVars, Uses, Marking, LetGoOf, PlaceInv, KeeperAt, CollectorAt, Movers, SweepPlaces, EndPlaces, GcPlaces, OwnOf
  <1>16. ASSUME NEW p \in Movers, ClaimFails(p) PROVE Usable(r, d)'
    BY <1>16, <1>was, <1>begun, <1>asked, MadeByItself DEF Usable, ClaimFails, MovesOn, UnlockDir, tempDisk, ledgerVars, Uses, Marking, LetGoOf, PlaceInv, KeeperAt, CollectorAt, Movers, SweepPlaces, EndPlaces, GcPlaces, OwnOf
  <1>17. ASSUME NEW p \in Movers, Works(p) PROVE Usable(r, d)'
    BY <1>17, <1>was, <1>begun, <1>asked, MadeByItself DEF Usable, Works, MovesOn, OwnDirs, tempDisk, ledgerVars, Uses, Marking, LetGoOf, PlaceInv, KeeperAt, CollectorAt, Movers, SweepPlaces, EndPlaces, GcPlaces, OwnOf
  <1>18. ASSUME NEW p \in Movers, NoNative(p) PROVE Usable(r, d)'
    BY <1>18, <1>was, <1>begun, <1>asked, MadeByItself DEF Usable, NoNative, MovesOn, LetGo, tempDisk, ledgerVars, Uses, Marking, LetGoOf, PlaceInv, KeeperAt, CollectorAt, Movers, SweepPlaces, EndPlaces, GcPlaces, OwnOf
  <1>19. ASSUME NEW p \in Movers, KeepMarks(p) PROVE Usable(r, d)'
    BY <1>19, <1>was, <1>begun, <1>asked, MadeByItself DEF Usable, KeepMarks, MovesOn, MarkDir, MarkerOf, Leaving, tempDisk, ledgerVars, Uses, Marking, LetGoOf, PlaceInv, KeeperAt, CollectorAt, Movers, SweepPlaces, EndPlaces, GcPlaces, OwnOf
  <1>20. ASSUME NEW p \in Movers, KeepUnlocks(p) PROVE Usable(r, d)'
    BY <1>20, <1>was, <1>begun, <1>asked, MadeByItself DEF Usable, KeepUnlocks, MovesOn, UnlockDir, Leaving, tempDisk, ledgerVars, Uses, Marking, LetGoOf, PlaceInv, KeeperAt, CollectorAt, Movers, SweepPlaces, EndPlaces, GcPlaces, OwnOf
  <1>21. ASSUME NEW p \in Movers, KeepFails(p) PROVE Usable(r, d)'
    BY <1>21, <1>was, <1>begun, <1>asked, MadeByItself DEF Usable, KeepFails, MovesOn, UnlockDir, Leaving, LetGo, tempDisk, ledgerVars, Uses, Marking, LetGoOf, PlaceInv, KeeperAt, CollectorAt, Movers, SweepPlaces, EndPlaces, GcPlaces, OwnOf
  <1>22. ASSUME NEW p \in Movers, Releases(p) PROVE Usable(r, d)'
    BY <1>22, <1>was, <1>begun, <1>asked, MadeByItself DEF Usable, Releases, MovesOn, UnlockDir, Leaving, LetGo, tempDisk, ledgerVars, Uses, Marking, LetGoOf, PlaceInv, KeeperAt, CollectorAt, Movers, SweepPlaces, EndPlaces, GcPlaces, OwnOf
  <1>23. ASSUME NEW p \in Movers, DropEmpties(p) PROVE Usable(r, d)'
    BY <1>23, <1>was, <1>begun, <1>asked, MadeByItself DEF Usable, DropEmpties, MovesOn, EmptyDir, tempDisk, ledgerVars, Uses, Marking, LetGoOf, PlaceInv, KeeperAt, CollectorAt, Movers, SweepPlaces, EndPlaces, GcPlaces, OwnOf
  <1>24. ASSUME NEW p \in Movers, DropUnlinks(p) PROVE Usable(r, d)'
    BY <1>24, <1>was, <1>begun, <1>asked, MadeByItself DEF Usable, DropUnlinks, MovesOn, Unlinkable, UnlinkDir, LetGo, tempDisk, ledgerVars, Uses, Marking, LetGoOf, PlaceInv, KeeperAt, CollectorAt, Movers, SweepPlaces, EndPlaces, GcPlaces, OwnOf
  <1>25. ASSUME NEW p \in Movers, NoteReads(p) PROVE Usable(r, d)'
    BY <1>25, <1>was, <1>begun, <1>asked, MadeByItself DEF Usable, NoteReads, MovesOn, TakeLedger, tempDisk, ledgerVars, Uses, Marking, LetGoOf, PlaceInv, KeeperAt, CollectorAt, Movers, SweepPlaces, EndPlaces, GcPlaces, OwnOf
  <1>26. ASSUME NEW p \in Movers, NoteWrites(p) PROVE Usable(r, d)'
    BY <1>26, <1>was, <1>begun, <1>asked, MadeByItself DEF Usable, NoteWrites, MovesOn, LetGo, SaveLedger, Leaving, UnreadLedger, tempDisk, ledgerVars, Uses, Marking, LetGoOf, PlaceInv, KeeperAt, CollectorAt, Movers, SweepPlaces, EndPlaces, GcPlaces, OwnOf
  <1>27. ASSUME NEW p \in Movers, NoteGivesUp(p) PROVE Usable(r, d)'
    BY <1>27, <1>was, <1>begun, <1>asked, MadeByItself DEF Usable, NoteGivesUp, MovesOn, LetGo, tempDisk, ledgerVars, Uses, Marking, LetGoOf, PlaceInv, KeeperAt, CollectorAt, Movers, SweepPlaces, EndPlaces, GcPlaces, OwnOf
  <1>28. ASSUME NEW p \in Movers, GcSweeps(p) PROVE Usable(r, d)'
    BY <1>28, <1>was, <1>begun, <1>asked, MadeByItself DEF Usable, GcSweeps, MovesOn, SweptAll, SweepLists, tempDisk, ledgerVars, Uses, Marking, LetGoOf, PlaceInv, KeeperAt, CollectorAt, Movers, SweepPlaces, EndPlaces, GcPlaces, OwnOf
  <1>29. ASSUME NEW p \in Movers, GcSwept(p) PROVE Usable(r, d)'
    BY <1>29, <1>was, <1>begun, <1>asked, MadeByItself DEF Usable, GcSwept, MovesOn, SweptAll, NoScan, tempDisk, ledgerVars, Uses, Marking, LetGoOf, PlaceInv, KeeperAt, CollectorAt, Movers, SweepPlaces, EndPlaces, GcPlaces, OwnOf
  <1>30. ASSUME NEW p \in Movers, GcReads(p) PROVE Usable(r, d)'
    BY <1>30, <1>was, <1>begun, <1>asked, MadeByItself DEF Usable, GcReads, MovesOn, TakeLedger, tempDisk, ledgerVars, Uses, Marking, LetGoOf, PlaceInv, KeeperAt, CollectorAt, Movers, SweepPlaces, EndPlaces, GcPlaces, OwnOf
  <1>31. ASSUME NEW p \in Movers, GcGivesUp(p) PROVE Usable(r, d)'
    BY <1>31, <1>was, <1>begun, <1>asked, MadeByItself DEF Usable, GcGivesUp, MovesOn, tempDisk, ledgerVars, Uses, Marking, LetGoOf, PlaceInv, KeeperAt, CollectorAt, Movers, SweepPlaces, EndPlaces, GcPlaces, OwnOf
  <1>32. ASSUME NEW p \in Movers, GcPasses(p) PROVE Usable(r, d)'
    BY <1>32, <1>was, <1>begun, <1>asked, MadeByItself DEF Usable, GcPasses, MovesOn, tempDisk, ledgerVars, Uses, Marking, LetGoOf, PlaceInv, KeeperAt, CollectorAt, Movers, SweepPlaces, EndPlaces, GcPlaces, OwnOf
  <1>33. ASSUME NEW p \in Movers, GcTakes(p) PROVE Usable(r, d)'
    BY <1>33, <1>was, <1>begun, <1>asked, MadeByItself DEF Usable, GcTakes, MovesOn, Vouched, MarkerOf, tempDisk, ledgerVars, Uses, Marking, LetGoOf, PlaceInv, KeeperAt, CollectorAt, Movers, SweepPlaces, EndPlaces, GcPlaces, OwnOf
  <1>34. ASSUME NEW p \in Movers, GcEmpties(p) PROVE Usable(r, d)'
    BY <1>34, <1>was, <1>begun, <1>asked, MadeByItself DEF Usable, GcEmpties, MovesOn, EmptyDir, tempDisk, ledgerVars, Uses, Marking, LetGoOf, PlaceInv, KeeperAt, CollectorAt, Movers, SweepPlaces, EndPlaces, GcPlaces, OwnOf
  <1>35. ASSUME NEW p \in Movers, GcUnlinks(p) PROVE Usable(r, d)'
    BY <1>35, <1>was, <1>begun, <1>asked, MadeByItself DEF Usable, GcUnlinks, MovesOn, Unlinkable, UnlinkDir, tempDisk, ledgerVars, Uses, Marking, LetGoOf, PlaceInv, KeeperAt, CollectorAt, Movers, SweepPlaces, EndPlaces, GcPlaces, OwnOf
  <1>36. ASSUME NEW p \in Movers, GcWrites(p) PROVE Usable(r, d)'
    BY <1>36, <1>was, <1>begun, <1>asked, MadeByItself DEF Usable, GcWrites, MovesOn, SaveLedger, NoScan, UnreadLedger, tempDisk, ledgerVars, Uses, Marking, LetGoOf, PlaceInv, KeeperAt, CollectorAt, Movers, SweepPlaces, EndPlaces, GcPlaces, OwnOf
  <1>37. ASSUME NEW p \in Movers, Dies(p) PROVE Usable(r, d)'
    BY <1>37, <1>was, <1>begun, <1>asked, MadeByItself DEF Usable, Dies, UnreadLedger, NoScan, tempDisk, ledgerVars, Uses, Marking, LetGoOf, PlaceInv, KeeperAt, CollectorAt, Movers, SweepPlaces, EndPlaces, GcPlaces, OwnOf
  <1>38. ASSUME NEW e \in TempDirs, Ages(e) PROVE Usable(r, d)'
    <2>1. UNCHANGED <<present, ownerLock, ownerMarker, place, making>> /\ stale' = stale \cup {e}
      BY <1>38 DEF Ages, ledgerVars
    <2>2. Uses(r, d) /\ Usable(r, d)  BY <1>was, <1>begun, <1>begun, <2>1
    <2>3. e /= d
      <3>1. SUFFICES ASSUME e = d PROVE FALSE  OBVIOUS
      <3>2. ownerMarker[d] = Unmarked /\ ~Marking(r, d)  BY <1>38, <3>1, <1>was, <1>begun DEF Ages, Marking
      <3>3. ownerMarker[d].run = "nobody"  BY <3>2 DEF Unmarked
      <3> QED BY <2>2, <3>2, <3>3 DEF Usable
    <2> QED BY <2>1, <2>2, <2>3 DEF Usable, Marking
  <1>39. CASE UNCHANGED keptTempVars
    BY <1>39, <1>was, <1>begun DEF Usable, Uses, Marking, keptTempVars, tempDisk, ledgerVars
  <1> QED
    BY <1>1, <1>2, <1>3, <1>4, <1>5, <1>6, <1>7, <1>8, <1>9, <1>10, <1>11, <1>12,
       <1>13, <1>14, <1>15, <1>16, <1>17, <1>18, <1>19, <1>20, <1>21, <1>22, <1>23, <1>24,
       <1>25, <1>26, <1>27, <1>28, <1>29, <1>30, <1>31, <1>32, <1>33, <1>34, <1>35, <1>36,
       <1>37, <1>38, <1>39
    DEF KeptTempNext, SweepNext, RunNext, LedgerNext

\* A marker that is there names a run, and one that says kept is the last.
MarkedRight(d) ==
  /\ ownerMarker[d].kept => ownerMarker[d].run /= "nobody"
  /\ d = Foreign => ownerMarker[d] = Unmarked
  /\ \A r \in Keepers : d \in OwnOf(r) /\ ownerMarker[d].kept => ownerMarker[d].run = r /\ Sealed(r, d)

LEMMA MarkerStep == KeptTempTypeOK /\ PlaceInv /\ MarkerInv /\ [KeptTempNext]_keptTempVars => MarkerInv'
  <1> SUFFICES ASSUME KeptTempTypeOK /\ PlaceInv /\ MarkerInv, [KeptTempNext]_keptTempVars,
                      NEW d \in TempDirs
               PROVE  MarkedRight(d)'
    BY DirFacts DEF MarkerInv, MarkedRight, OwnOf
  <1> USE KeptTempAssumption, DirFacts DEF KeptTempTypeOK
  <1>was. MarkedRight(d)  BY DEF MarkerInv, MarkedRight
  <1>seal. \A r \in Keepers : d \in OwnOf(r) /\ Sealed(r, d) => Sealed(r, d)'  BY PhaseStep DEF PhasesKept
  <1>1. ASSUME NEW p \in Movers, Classify(p) PROVE MarkedRight(d)'
    BY <1>1, <1>was, <1>seal DEF MarkedRight, Unmarked, Classify, MovesOn, tempDisk, ledgerVars
  <1>2. ASSUME NEW p \in Movers, SweepSpares(p) PROVE MarkedRight(d)'
    BY <1>2, <1>was, <1>seal DEF MarkedRight, Unmarked, SweepSpares, MovesOn, tempDisk, ledgerVars
  <1>3. ASSUME NEW p \in Movers, SweepLocks(p) PROVE MarkedRight(d)'
    BY <1>3, <1>was, <1>seal DEF MarkedRight, Unmarked, SweepLocks, MovesOn, LockDir, IsHeld, tempDisk, ledgerVars
  <1>4. ASSUME NEW p \in Movers, SweepUnlocks(p) PROVE MarkedRight(d)'
    BY <1>4, <1>was, <1>seal DEF MarkedRight, Unmarked, SweepUnlocks, MovesOn, UnlockDir, tempDisk, ledgerVars
  <1>5. ASSUME NEW p \in Movers, SweepEmpties(p) PROVE MarkedRight(d)'
    BY <1>5, <1>was, <1>seal DEF MarkedRight, Unmarked, SweepEmpties, MovesOn, EmptyDir, tempDisk, ledgerVars
  <1>6. ASSUME NEW p \in Movers, SweepUnlinks(p) PROVE MarkedRight(d)'
    BY <1>6, <1>was, <1>seal DEF MarkedRight, Unmarked, SweepUnlinks, MovesOn, Unlinkable, UnlinkDir, tempDisk, ledgerVars
  <1>7. ASSUME NEW p \in Movers, RunSweeps(p) PROVE MarkedRight(d)'
    BY <1>7, <1>was, <1>seal DEF MarkedRight, Unmarked, RunSweeps, MovesOn, SweepLists, tempDisk, ledgerVars
  <1>8. ASSUME NEW p \in Movers, ScratchSwept(p) PROVE MarkedRight(d)'
    BY <1>8, <1>was, <1>seal DEF MarkedRight, Unmarked, ScratchSwept, MovesOn, SweptAll, NoScan, tempDisk, ledgerVars
  <1>9. ASSUME NEW p \in Movers, MakesScratch(p) PROVE MarkedRight(d)'
    BY <1>9, <1>was, <1>seal DEF MarkedRight, Unmarked, MakesScratch, MovesOn, Makes, NoScan, tempDisk, ledgerVars
  <1>10. ASSUME NEW p \in Movers, NativeSweeps(p) PROVE MarkedRight(d)'
    BY <1>10, <1>was, <1>seal DEF MarkedRight, Unmarked, NativeSweeps, MovesOn, SweepLists, tempDisk, ledgerVars
  <1>11. ASSUME NEW p \in Movers, Uncached(p) PROVE MarkedRight(d)'
    BY <1>11, <1>was, <1>seal DEF MarkedRight, Unmarked, Uncached, MovesOn, tempDisk, ledgerVars
  <1>12. ASSUME NEW p \in Movers, MakesShared(p) PROVE MarkedRight(d)'
    BY <1>12, <1>was, <1>seal DEF MarkedRight, Unmarked, MakesShared, MovesOn, SweptAll, Makes, NoScan, tempDisk, ledgerVars
  <1>13. ASSUME NEW p \in Movers, SharedTaken(p) PROVE MarkedRight(d)'
    BY <1>13, <1>was, <1>seal DEF MarkedRight, Unmarked, SharedTaken, MovesOn, IsHeld, Makes, NoScan, tempDisk, ledgerVars
  <1>14. ASSUME NEW p \in Movers, Claims(p) PROVE MarkedRight(d)'
    BY <1>14, <1>was, <1>seal DEF MarkedRight, Unmarked, Claims, MovesOn, LockDir, IsHeld, tempDisk, ledgerVars
  <1>15. ASSUME NEW p \in Movers, Marks(p) PROVE MarkedRight(d)'
    <2>1. p \in Keepers /\ making[p] \in {ScratchOf(p), NativeOf(p), SharedNative}
      BY <1>15 DEF Marks, MovesOn, PlaceInv, CollectorAt, KeeperAt, Movers, SweepPlaces, GcPlaces, EndPlaces
    <2>2. ownerMarker' = [ownerMarker EXCEPT ![making[p]] = [run |-> p, kept |-> FALSE]]
      BY <1>15 DEF Marks, MarkDir, MarkerOf
    <2>3. CASE making[p] = d
      <3>1. ownerMarker'[d] = [run |-> p, kept |-> FALSE] /\ d /= Foreign  BY <2>1, <2>2, <2>3
      <3> QED BY <3>1 DEF MarkedRight
    <2>4. CASE making[p] /= d
      <3>1. ownerMarker'[d] = ownerMarker[d]  BY <2>2, <2>4
      <3> QED BY <3>1, <1>was, <1>seal DEF MarkedRight
    <2> QED BY <2>3, <2>4
  <1>16. ASSUME NEW p \in Movers, ClaimFails(p) PROVE MarkedRight(d)'
    BY <1>16, <1>was, <1>seal DEF MarkedRight, Unmarked, ClaimFails, MovesOn, UnlockDir, tempDisk, ledgerVars
  <1>17. ASSUME NEW p \in Movers, Works(p) PROVE MarkedRight(d)'
    BY <1>17, <1>was, <1>seal DEF MarkedRight, Unmarked, Works, MovesOn, OwnDirs, tempDisk, ledgerVars
  <1>18. ASSUME NEW p \in Movers, NoNative(p) PROVE MarkedRight(d)'
    BY <1>18, <1>was, <1>seal DEF MarkedRight, Unmarked, NoNative, MovesOn, LetGo, tempDisk, ledgerVars
  <1>19. ASSUME NEW p \in Movers, KeepMarks(p) PROVE MarkedRight(d)'
    <2> DEFINE e == Leaving(p)
    <2>1. p \in Keepers /\ place[p] = "close" /\ e /= NoDir /\ place' = [place EXCEPT ![p] = "kept"] /\ making' = making
      BY <1>19 DEF KeepMarks, MovesOn
    <2>2. ownerMarker' = [ownerMarker EXCEPT ![e] = [run |-> p, kept |-> TRUE]]
      BY <1>19 DEF KeepMarks, MarkDir, MarkerOf
    <2>3. e = making[p] /\ e \in {ScratchOf(p), NativeOf(p), SharedNative}
      <3>1. KeeperAt(p)  BY <2>1 DEF PlaceInv
      <3> QED BY <2>1, <3>1 DEF KeeperAt, Leaving, SweepPlaces
    <2> HIDE DEF e
    <2>4. CASE e = d
      <3>1. ownerMarker'[d] = [run |-> p, kept |-> TRUE] /\ d /= Foreign  BY <2>1, <2>2, <2>3, <2>4
      <3>2. ASSUME NEW r \in Keepers, d \in OwnOf(r) PROVE r = p /\ Sealed(r, d)'
        <4>1. r = p  BY <3>2, <2>3, <2>4, MadeByItself DEF Movers
        <4> QED BY <4>1, <2>1, <2>3, <2>4 DEF Sealed, PlaceInv, Movers
      <3>3. p /= "nobody"  BY <2>1
      <3> QED BY <3>1, <3>2, <3>3 DEF MarkedRight
    <2>5. CASE e /= d
      <3>1. ownerMarker'[d] = ownerMarker[d]  BY <2>2, <2>5
      <3> QED BY <3>1, <1>was, <1>seal DEF MarkedRight
    <2> QED BY <2>4, <2>5
  <1>20. ASSUME NEW p \in Movers, KeepUnlocks(p) PROVE MarkedRight(d)'
    BY <1>20, <1>was, <1>seal DEF MarkedRight, Unmarked, KeepUnlocks, MovesOn, UnlockDir, Leaving, tempDisk, ledgerVars
  <1>21. ASSUME NEW p \in Movers, KeepFails(p) PROVE MarkedRight(d)'
    BY <1>21, <1>was, <1>seal DEF MarkedRight, Unmarked, KeepFails, MovesOn, UnlockDir, Leaving, LetGo, tempDisk, ledgerVars
  <1>22. ASSUME NEW p \in Movers, Releases(p) PROVE MarkedRight(d)'
    BY <1>22, <1>was, <1>seal DEF MarkedRight, Unmarked, Releases, MovesOn, UnlockDir, Leaving, LetGo, tempDisk, ledgerVars
  <1>23. ASSUME NEW p \in Movers, DropEmpties(p) PROVE MarkedRight(d)'
    BY <1>23, <1>was, <1>seal DEF MarkedRight, Unmarked, DropEmpties, MovesOn, EmptyDir, tempDisk, ledgerVars
  <1>24. ASSUME NEW p \in Movers, DropUnlinks(p) PROVE MarkedRight(d)'
    BY <1>24, <1>was, <1>seal DEF MarkedRight, Unmarked, DropUnlinks, MovesOn, Unlinkable, UnlinkDir, LetGo, tempDisk, ledgerVars
  <1>25. ASSUME NEW p \in Movers, NoteReads(p) PROVE MarkedRight(d)'
    BY <1>25, <1>was, <1>seal DEF MarkedRight, Unmarked, NoteReads, MovesOn, TakeLedger, tempDisk, ledgerVars
  <1>26. ASSUME NEW p \in Movers, NoteWrites(p) PROVE MarkedRight(d)'
    BY <1>26, <1>was, <1>seal DEF MarkedRight, Unmarked, NoteWrites, MovesOn, LetGo, SaveLedger, Leaving, UnreadLedger, tempDisk, ledgerVars
  <1>27. ASSUME NEW p \in Movers, NoteGivesUp(p) PROVE MarkedRight(d)'
    BY <1>27, <1>was, <1>seal DEF MarkedRight, Unmarked, NoteGivesUp, MovesOn, LetGo, tempDisk, ledgerVars
  <1>28. ASSUME NEW p \in Movers, GcSweeps(p) PROVE MarkedRight(d)'
    BY <1>28, <1>was, <1>seal DEF MarkedRight, Unmarked, GcSweeps, MovesOn, SweptAll, SweepLists, tempDisk, ledgerVars
  <1>29. ASSUME NEW p \in Movers, GcSwept(p) PROVE MarkedRight(d)'
    BY <1>29, <1>was, <1>seal DEF MarkedRight, Unmarked, GcSwept, MovesOn, SweptAll, NoScan, tempDisk, ledgerVars
  <1>30. ASSUME NEW p \in Movers, GcReads(p) PROVE MarkedRight(d)'
    BY <1>30, <1>was, <1>seal DEF MarkedRight, Unmarked, GcReads, MovesOn, TakeLedger, tempDisk, ledgerVars
  <1>31. ASSUME NEW p \in Movers, GcGivesUp(p) PROVE MarkedRight(d)'
    BY <1>31, <1>was, <1>seal DEF MarkedRight, Unmarked, GcGivesUp, MovesOn, tempDisk, ledgerVars
  <1>32. ASSUME NEW p \in Movers, GcPasses(p) PROVE MarkedRight(d)'
    BY <1>32, <1>was, <1>seal DEF MarkedRight, Unmarked, GcPasses, MovesOn, tempDisk, ledgerVars
  <1>33. ASSUME NEW p \in Movers, GcTakes(p) PROVE MarkedRight(d)'
    BY <1>33, <1>was, <1>seal DEF MarkedRight, Unmarked, GcTakes, MovesOn, Vouched, MarkerOf, tempDisk, ledgerVars
  <1>34. ASSUME NEW p \in Movers, GcEmpties(p) PROVE MarkedRight(d)'
    BY <1>34, <1>was, <1>seal DEF MarkedRight, Unmarked, GcEmpties, MovesOn, EmptyDir, tempDisk, ledgerVars
  <1>35. ASSUME NEW p \in Movers, GcUnlinks(p) PROVE MarkedRight(d)'
    BY <1>35, <1>was, <1>seal DEF MarkedRight, Unmarked, GcUnlinks, MovesOn, Unlinkable, UnlinkDir, tempDisk, ledgerVars
  <1>36. ASSUME NEW p \in Movers, GcWrites(p) PROVE MarkedRight(d)'
    BY <1>36, <1>was, <1>seal DEF MarkedRight, Unmarked, GcWrites, MovesOn, SaveLedger, NoScan, UnreadLedger, tempDisk, ledgerVars
  <1>37. ASSUME NEW p \in Movers, Dies(p) PROVE MarkedRight(d)'
    BY <1>37, <1>was, <1>seal DEF MarkedRight, Unmarked, Dies, UnreadLedger, NoScan, tempDisk, ledgerVars
  <1>38. ASSUME NEW e \in TempDirs, Ages(e) PROVE MarkedRight(d)'
    BY <1>38, <1>was, <1>seal DEF MarkedRight, Unmarked, Ages, tempDisk, ledgerVars
  <1>39. CASE UNCHANGED keptTempVars
    BY <1>39, <1>was, <1>seal DEF MarkedRight, keptTempVars, tempDisk, ledgerVars
  <1> QED
    BY <1>1, <1>2, <1>3, <1>4, <1>5, <1>6, <1>7, <1>8, <1>9, <1>10, <1>11, <1>12,
       <1>13, <1>14, <1>15, <1>16, <1>17, <1>18, <1>19, <1>20, <1>21, <1>22, <1>23, <1>24,
       <1>25, <1>26, <1>27, <1>28, <1>29, <1>30, <1>31, <1>32, <1>33, <1>34, <1>35, <1>36,
       <1>37, <1>38, <1>39
    DEF KeptTempNext, SweepNext, RunNext, LedgerNext

\* What a process that looks at d knows of its run.
AskedOf(p, r, d) ==
  /\ place[p] = "sweep_lock" => ~Ahead(r, d) /\ ~Marking(r, d)
  /\ place[p] \in {"sweep_unlock", "sweep_empty", "sweep_unlink", "gc_empty", "gc_unlink"} => Over(r, d)

LEMMA AskedStep == KeptTempTypeOK /\ PlaceInv /\ ScanInv /\ AheadInv /\ InUseInv /\ AskedInv /\ MarkerInv /\ NotedInv /\ [KeptTempNext]_keptTempVars => AskedInv'
  <1> SUFFICES ASSUME KeptTempTypeOK /\ PlaceInv /\ ScanInv /\ AheadInv /\ InUseInv /\ AskedInv /\ MarkerInv /\ NotedInv,
                      [KeptTempNext]_keptTempVars, NEW q \in Movers, NEW r \in Keepers, NEW d \in OwnOf(r),
                      scan'[q].at = d
               PROVE  AskedOf(q, r, d)'
    BY DEF AskedInv, AskedOf
  <1> USE KeptTempAssumption, DirFacts DEF KeptTempTypeOK
  <1>was. scan[q].at = d => AskedOf(q, r, d)  BY DEF AskedInv, AskedOf
  <1>on. /\ Over(r, d) => Over(r, d)'
         /\ ~Ahead(r, d) => ~Ahead(r, d)'
         /\ ~Ahead(r, d) /\ ~Marking(r, d) => ~Marking(r, d)'
    BY PhaseStep DEF PhasesKept
  <1>facts. /\ d \in stale => Over(r, d)
            /\ ownerMarker[d] /= Unmarked => ~Ahead(r, d) /\ ~Marking(r, d)
            /\ ownerLock[d] \notin Movers => ~Uses(r, d)
    <2>1. Ahead(r, d) => d \notin stale /\ ownerMarker[d] = Unmarked  BY DEF AheadInv
    <2>2. Uses(r, d) => d \notin stale /\ ownerLock[d] = r /\ (Marking(r, d) => ownerMarker[d] = Unmarked)
      BY DEF InUseInv
    <2>3. Marking(r, d) => Uses(r, d)  BY DEF Marking, Uses
    <2> QED BY <2>1, <2>2, <2>3 DEF Over, Movers
  <1>at. scan \in [Movers -> [of : {"none", "scratch", "native", "ledger"}, left : SUBSET TempDirs,
                              at : TempDirs \cup {NoDir}, kept : SUBSET TempDirs]]
    OBVIOUS
  <1>1. ASSUME NEW p \in Movers, Classify(p) PROVE AskedOf(q, r, d)'
    <2>1. CASE q /= p
      <3>1. place'[q] = place[q] /\ scan'[q] = scan[q]  BY <1>1, <2>1 DEF Classify, MovesOn, tempDisk, ledgerVars, PlaceInv
      <3> QED BY <3>1, <1>was, <1>on DEF AskedOf
    <2>2. CASE q = p
      <3>1. /\ UNCHANGED <<ownerMarker, stale>>
            /\ \/ place'[p] = "sweep"
               \/ place'[p] = "sweep_empty" /\ d \in stale
               \/ place'[p] = "sweep_lock" /\ ownerMarker[d] /= Unmarked
        BY <1>1, <2>2, <1>at DEF Classify, MovesOn, PlaceInv, tempDisk
      <3> QED BY <3>1, <2>2, <1>facts, <1>on DEF AskedOf
    <2> QED BY <2>1, <2>2
  <1>2. ASSUME NEW p \in Movers, SweepSpares(p) PROVE AskedOf(q, r, d)'
    <2>1. CASE q /= p
      <3>1. place'[q] = place[q] /\ scan'[q] = scan[q]  BY <1>2, <2>1 DEF SweepSpares, MovesOn, tempDisk, ledgerVars, PlaceInv
      <3> QED BY <3>1, <1>was, <1>on DEF AskedOf
    <2>2. CASE q = p
      BY <1>2, <2>2, <1>was, <1>on DEF SweepSpares, MovesOn, tempDisk, ledgerVars, PlaceInv, AskedOf
    <2> QED BY <2>1, <2>2
  <1>3. ASSUME NEW p \in Movers, SweepLocks(p) PROVE AskedOf(q, r, d)'
    <2>1. CASE q /= p
      <3>1. place'[q] = place[q] /\ scan'[q] = scan[q]  BY <1>3, <2>1 DEF SweepLocks, MovesOn, LockDir, IsHeld, tempDisk, ledgerVars, PlaceInv
      <3> QED BY <3>1, <1>was, <1>on DEF AskedOf
    <2>2. CASE q = p
      <3>1. place[p] = "sweep_lock" /\ scan[p].at = d /\ ownerLock[d] \notin Movers /\ place'[p] = "sweep_unlock"
        BY <1>3, <2>2, <1>at DEF SweepLocks, MovesOn, LockDir, IsHeld, PlaceInv
      <3>2. ~Ahead(r, d)  BY <3>1, <1>was, <2>2 DEF AskedOf
      <3>3. ~Uses(r, d)  BY <3>1, <1>facts
      <3> QED BY <3>1, <3>2, <3>3, <2>2, <1>on DEF AskedOf, Over
    <2> QED BY <2>1, <2>2
  <1>4. ASSUME NEW p \in Movers, SweepUnlocks(p) PROVE AskedOf(q, r, d)'
    <2>1. CASE q /= p
      <3>1. place'[q] = place[q] /\ scan'[q] = scan[q]  BY <1>4, <2>1 DEF SweepUnlocks, MovesOn, UnlockDir, tempDisk, ledgerVars, PlaceInv
      <3> QED BY <3>1, <1>was, <1>on DEF AskedOf
    <2>2. CASE q = p
      BY <1>4, <2>2, <1>was, <1>on DEF SweepUnlocks, MovesOn, UnlockDir, tempDisk, ledgerVars, PlaceInv, AskedOf
    <2> QED BY <2>1, <2>2
  <1>5. ASSUME NEW p \in Movers, SweepEmpties(p) PROVE AskedOf(q, r, d)'
    <2>1. CASE q /= p
      <3>1. place'[q] = place[q] /\ scan'[q] = scan[q]  BY <1>5, <2>1 DEF SweepEmpties, MovesOn, EmptyDir, tempDisk, ledgerVars, PlaceInv
      <3> QED BY <3>1, <1>was, <1>on DEF AskedOf
    <2>2. CASE q = p
      BY <1>5, <2>2, <1>was, <1>on DEF SweepEmpties, MovesOn, EmptyDir, tempDisk, ledgerVars, PlaceInv, AskedOf
    <2> QED BY <2>1, <2>2
  <1>6. ASSUME NEW p \in Movers, SweepUnlinks(p) PROVE AskedOf(q, r, d)'
    <2>1. CASE q /= p
      <3>1. place'[q] = place[q] /\ scan'[q] = scan[q]  BY <1>6, <2>1 DEF SweepUnlinks, MovesOn, Unlinkable, UnlinkDir, tempDisk, ledgerVars, PlaceInv
      <3> QED BY <3>1, <1>was, <1>on DEF AskedOf
    <2>2. CASE q = p
      BY <1>6, <2>2, <1>was, <1>on DEF SweepUnlinks, MovesOn, Unlinkable, UnlinkDir, tempDisk, ledgerVars, PlaceInv, AskedOf
    <2> QED BY <2>1, <2>2
  <1>7. ASSUME NEW p \in Movers, RunSweeps(p) PROVE AskedOf(q, r, d)'
    <2>1. CASE q /= p
      <3>1. place'[q] = place[q] /\ scan'[q] = scan[q]  BY <1>7, <2>1 DEF RunSweeps, MovesOn, SweepLists, tempDisk, ledgerVars, PlaceInv
      <3> QED BY <3>1, <1>was, <1>on DEF AskedOf
    <2>2. CASE q = p
      BY <1>7, <2>2, <1>was, <1>on DEF RunSweeps, MovesOn, SweepLists, tempDisk, ledgerVars, PlaceInv, AskedOf
    <2> QED BY <2>1, <2>2
  <1>8. ASSUME NEW p \in Movers, ScratchSwept(p) PROVE AskedOf(q, r, d)'
    <2>1. CASE q /= p
      <3>1. place'[q] = place[q] /\ scan'[q] = scan[q]  BY <1>8, <2>1 DEF ScratchSwept, MovesOn, SweptAll, NoScan, tempDisk, ledgerVars, PlaceInv
      <3> QED BY <3>1, <1>was, <1>on DEF AskedOf
    <2>2. CASE q = p
      BY <1>8, <2>2, <1>was, <1>on DEF ScratchSwept, MovesOn, SweptAll, NoScan, tempDisk, ledgerVars, PlaceInv, AskedOf
    <2> QED BY <2>1, <2>2
  <1>9. ASSUME NEW p \in Movers, MakesScratch(p) PROVE AskedOf(q, r, d)'
    <2>1. CASE q /= p
      <3>1. place'[q] = place[q] /\ scan'[q] = scan[q]  BY <1>9, <2>1 DEF MakesScratch, MovesOn, Makes, NoScan, tempDisk, ledgerVars, PlaceInv
      <3> QED BY <3>1, <1>was, <1>on DEF AskedOf
    <2>2. CASE q = p
      BY <1>9, <2>2, <1>was, <1>on DEF MakesScratch, MovesOn, Makes, NoScan, tempDisk, ledgerVars, PlaceInv, AskedOf
    <2> QED BY <2>1, <2>2
  <1>10. ASSUME NEW p \in Movers, NativeSweeps(p) PROVE AskedOf(q, r, d)'
    <2>1. CASE q /= p
      <3>1. place'[q] = place[q] /\ scan'[q] = scan[q]  BY <1>10, <2>1 DEF NativeSweeps, MovesOn, SweepLists, tempDisk, ledgerVars, PlaceInv
      <3> QED BY <3>1, <1>was, <1>on DEF AskedOf
    <2>2. CASE q = p
      BY <1>10, <2>2, <1>was, <1>on DEF NativeSweeps, MovesOn, SweepLists, tempDisk, ledgerVars, PlaceInv, AskedOf
    <2> QED BY <2>1, <2>2
  <1>11. ASSUME NEW p \in Movers, Uncached(p) PROVE AskedOf(q, r, d)'
    <2>1. CASE q /= p
      <3>1. place'[q] = place[q] /\ scan'[q] = scan[q]  BY <1>11, <2>1 DEF Uncached, MovesOn, tempDisk, ledgerVars, PlaceInv
      <3> QED BY <3>1, <1>was, <1>on DEF AskedOf
    <2>2. CASE q = p
      BY <1>11, <2>2, <1>was, <1>on DEF Uncached, MovesOn, tempDisk, ledgerVars, PlaceInv, AskedOf
    <2> QED BY <2>1, <2>2
  <1>12. ASSUME NEW p \in Movers, MakesShared(p) PROVE AskedOf(q, r, d)'
    <2>1. CASE q /= p
      <3>1. place'[q] = place[q] /\ scan'[q] = scan[q]  BY <1>12, <2>1 DEF MakesShared, MovesOn, SweptAll, Makes, NoScan, tempDisk, ledgerVars, PlaceInv
      <3> QED BY <3>1, <1>was, <1>on DEF AskedOf
    <2>2. CASE q = p
      BY <1>12, <2>2, <1>was, <1>on DEF MakesShared, MovesOn, SweptAll, Makes, NoScan, tempDisk, ledgerVars, PlaceInv, AskedOf
    <2> QED BY <2>1, <2>2
  <1>13. ASSUME NEW p \in Movers, SharedTaken(p) PROVE AskedOf(q, r, d)'
    <2>1. CASE q /= p
      <3>1. place'[q] = place[q] /\ scan'[q] = scan[q]  BY <1>13, <2>1 DEF SharedTaken, MovesOn, IsHeld, Makes, NoScan, tempDisk, ledgerVars, PlaceInv
      <3> QED BY <3>1, <1>was, <1>on DEF AskedOf
    <2>2. CASE q = p
      BY <1>13, <2>2, <1>was, <1>on DEF SharedTaken, MovesOn, IsHeld, Makes, NoScan, tempDisk, ledgerVars, PlaceInv, AskedOf
    <2> QED BY <2>1, <2>2
  <1>14. ASSUME NEW p \in Movers, Claims(p) PROVE AskedOf(q, r, d)'
    <2>1. CASE q /= p
      <3>1. place'[q] = place[q] /\ scan'[q] = scan[q]  BY <1>14, <2>1 DEF Claims, MovesOn, LockDir, IsHeld, tempDisk, ledgerVars, PlaceInv
      <3> QED BY <3>1, <1>was, <1>on DEF AskedOf
    <2>2. CASE q = p
      BY <1>14, <2>2, <1>was, <1>on DEF Claims, MovesOn, LockDir, IsHeld, tempDisk, ledgerVars, PlaceInv, AskedOf
    <2> QED BY <2>1, <2>2
  <1>15. ASSUME NEW p \in Movers, Marks(p) PROVE AskedOf(q, r, d)'
    <2>1. CASE q /= p
      <3>1. place'[q] = place[q] /\ scan'[q] = scan[q]  BY <1>15, <2>1 DEF Marks, MovesOn, MarkDir, MarkerOf, tempDisk, ledgerVars, PlaceInv
      <3> QED BY <3>1, <1>was, <1>on DEF AskedOf
    <2>2. CASE q = p
      BY <1>15, <2>2, <1>was, <1>on DEF Marks, MovesOn, MarkDir, MarkerOf, tempDisk, ledgerVars, PlaceInv, AskedOf
    <2> QED BY <2>1, <2>2
  <1>16. ASSUME NEW p \in Movers, ClaimFails(p) PROVE AskedOf(q, r, d)'
    <2>1. CASE q /= p
      <3>1. place'[q] = place[q] /\ scan'[q] = scan[q]  BY <1>16, <2>1 DEF ClaimFails, MovesOn, UnlockDir, tempDisk, ledgerVars, PlaceInv
      <3> QED BY <3>1, <1>was, <1>on DEF AskedOf
    <2>2. CASE q = p
      BY <1>16, <2>2, <1>was, <1>on DEF ClaimFails, MovesOn, UnlockDir, tempDisk, ledgerVars, PlaceInv, AskedOf
    <2> QED BY <2>1, <2>2
  <1>17. ASSUME NEW p \in Movers, Works(p) PROVE AskedOf(q, r, d)'
    <2>1. CASE q /= p
      <3>1. place'[q] = place[q] /\ scan'[q] = scan[q]  BY <1>17, <2>1 DEF Works, MovesOn, OwnDirs, tempDisk, ledgerVars, PlaceInv
      <3> QED BY <3>1, <1>was, <1>on DEF AskedOf
    <2>2. CASE q = p
      BY <1>17, <2>2, <1>was, <1>on DEF Works, MovesOn, OwnDirs, tempDisk, ledgerVars, PlaceInv, AskedOf
    <2> QED BY <2>1, <2>2
  <1>18. ASSUME NEW p \in Movers, NoNative(p) PROVE AskedOf(q, r, d)'
    <2>1. CASE q /= p
      <3>1. place'[q] = place[q] /\ scan'[q] = scan[q]  BY <1>18, <2>1 DEF NoNative, MovesOn, LetGo, tempDisk, ledgerVars, PlaceInv
      <3> QED BY <3>1, <1>was, <1>on DEF AskedOf
    <2>2. CASE q = p
      BY <1>18, <2>2, <1>was, <1>on DEF NoNative, MovesOn, LetGo, tempDisk, ledgerVars, PlaceInv, AskedOf
    <2> QED BY <2>1, <2>2
  <1>19. ASSUME NEW p \in Movers, KeepMarks(p) PROVE AskedOf(q, r, d)'
    <2>1. CASE q /= p
      <3>1. place'[q] = place[q] /\ scan'[q] = scan[q]  BY <1>19, <2>1 DEF KeepMarks, MovesOn, MarkDir, MarkerOf, Leaving, tempDisk, ledgerVars, PlaceInv
      <3> QED BY <3>1, <1>was, <1>on DEF AskedOf
    <2>2. CASE q = p
      BY <1>19, <2>2, <1>was, <1>on DEF KeepMarks, MovesOn, MarkDir, MarkerOf, Leaving, tempDisk, ledgerVars, PlaceInv, AskedOf
    <2> QED BY <2>1, <2>2
  <1>20. ASSUME NEW p \in Movers, KeepUnlocks(p) PROVE AskedOf(q, r, d)'
    <2>1. CASE q /= p
      <3>1. place'[q] = place[q] /\ scan'[q] = scan[q]  BY <1>20, <2>1 DEF KeepUnlocks, MovesOn, UnlockDir, Leaving, tempDisk, ledgerVars, PlaceInv
      <3> QED BY <3>1, <1>was, <1>on DEF AskedOf
    <2>2. CASE q = p
      BY <1>20, <2>2, <1>was, <1>on DEF KeepUnlocks, MovesOn, UnlockDir, Leaving, tempDisk, ledgerVars, PlaceInv, AskedOf
    <2> QED BY <2>1, <2>2
  <1>21. ASSUME NEW p \in Movers, KeepFails(p) PROVE AskedOf(q, r, d)'
    <2>1. CASE q /= p
      <3>1. place'[q] = place[q] /\ scan'[q] = scan[q]  BY <1>21, <2>1 DEF KeepFails, MovesOn, UnlockDir, Leaving, LetGo, tempDisk, ledgerVars, PlaceInv
      <3> QED BY <3>1, <1>was, <1>on DEF AskedOf
    <2>2. CASE q = p
      BY <1>21, <2>2, <1>was, <1>on DEF KeepFails, MovesOn, UnlockDir, Leaving, LetGo, tempDisk, ledgerVars, PlaceInv, AskedOf
    <2> QED BY <2>1, <2>2
  <1>22. ASSUME NEW p \in Movers, Releases(p) PROVE AskedOf(q, r, d)'
    <2>1. CASE q /= p
      <3>1. place'[q] = place[q] /\ scan'[q] = scan[q]  BY <1>22, <2>1 DEF Releases, MovesOn, UnlockDir, Leaving, LetGo, tempDisk, ledgerVars, PlaceInv
      <3> QED BY <3>1, <1>was, <1>on DEF AskedOf
    <2>2. CASE q = p
      BY <1>22, <2>2, <1>was, <1>on DEF Releases, MovesOn, UnlockDir, Leaving, LetGo, tempDisk, ledgerVars, PlaceInv, AskedOf
    <2> QED BY <2>1, <2>2
  <1>23. ASSUME NEW p \in Movers, DropEmpties(p) PROVE AskedOf(q, r, d)'
    <2>1. CASE q /= p
      <3>1. place'[q] = place[q] /\ scan'[q] = scan[q]  BY <1>23, <2>1 DEF DropEmpties, MovesOn, EmptyDir, tempDisk, ledgerVars, PlaceInv
      <3> QED BY <3>1, <1>was, <1>on DEF AskedOf
    <2>2. CASE q = p
      BY <1>23, <2>2, <1>was, <1>on DEF DropEmpties, MovesOn, EmptyDir, tempDisk, ledgerVars, PlaceInv, AskedOf
    <2> QED BY <2>1, <2>2
  <1>24. ASSUME NEW p \in Movers, DropUnlinks(p) PROVE AskedOf(q, r, d)'
    <2>1. CASE q /= p
      <3>1. place'[q] = place[q] /\ scan'[q] = scan[q]  BY <1>24, <2>1 DEF DropUnlinks, MovesOn, Unlinkable, UnlinkDir, LetGo, tempDisk, ledgerVars, PlaceInv
      <3> QED BY <3>1, <1>was, <1>on DEF AskedOf
    <2>2. CASE q = p
      BY <1>24, <2>2, <1>was, <1>on DEF DropUnlinks, MovesOn, Unlinkable, UnlinkDir, LetGo, tempDisk, ledgerVars, PlaceInv, AskedOf
    <2> QED BY <2>1, <2>2
  <1>25. ASSUME NEW p \in Movers, NoteReads(p) PROVE AskedOf(q, r, d)'
    <2>1. CASE q /= p
      <3>1. place'[q] = place[q] /\ scan'[q] = scan[q]  BY <1>25, <2>1 DEF NoteReads, MovesOn, TakeLedger, tempDisk, ledgerVars, PlaceInv
      <3> QED BY <3>1, <1>was, <1>on DEF AskedOf
    <2>2. CASE q = p
      BY <1>25, <2>2, <1>was, <1>on DEF NoteReads, MovesOn, TakeLedger, tempDisk, ledgerVars, PlaceInv, AskedOf
    <2> QED BY <2>1, <2>2
  <1>26. ASSUME NEW p \in Movers, NoteWrites(p) PROVE AskedOf(q, r, d)'
    <2>1. CASE q /= p
      <3>1. place'[q] = place[q] /\ scan'[q] = scan[q]  BY <1>26, <2>1 DEF NoteWrites, MovesOn, LetGo, SaveLedger, Leaving, UnreadLedger, tempDisk, ledgerVars, PlaceInv
      <3> QED BY <3>1, <1>was, <1>on DEF AskedOf
    <2>2. CASE q = p
      BY <1>26, <2>2, <1>was, <1>on DEF NoteWrites, MovesOn, LetGo, SaveLedger, Leaving, UnreadLedger, tempDisk, ledgerVars, PlaceInv, AskedOf
    <2> QED BY <2>1, <2>2
  <1>27. ASSUME NEW p \in Movers, NoteGivesUp(p) PROVE AskedOf(q, r, d)'
    <2>1. CASE q /= p
      <3>1. place'[q] = place[q] /\ scan'[q] = scan[q]  BY <1>27, <2>1 DEF NoteGivesUp, MovesOn, LetGo, tempDisk, ledgerVars, PlaceInv
      <3> QED BY <3>1, <1>was, <1>on DEF AskedOf
    <2>2. CASE q = p
      BY <1>27, <2>2, <1>was, <1>on DEF NoteGivesUp, MovesOn, LetGo, tempDisk, ledgerVars, PlaceInv, AskedOf
    <2> QED BY <2>1, <2>2
  <1>28. ASSUME NEW p \in Movers, GcSweeps(p) PROVE AskedOf(q, r, d)'
    <2>1. CASE q /= p
      <3>1. place'[q] = place[q] /\ scan'[q] = scan[q]  BY <1>28, <2>1 DEF GcSweeps, MovesOn, SweptAll, SweepLists, tempDisk, ledgerVars, PlaceInv
      <3> QED BY <3>1, <1>was, <1>on DEF AskedOf
    <2>2. CASE q = p
      BY <1>28, <2>2, <1>was, <1>on DEF GcSweeps, MovesOn, SweptAll, SweepLists, tempDisk, ledgerVars, PlaceInv, AskedOf
    <2> QED BY <2>1, <2>2
  <1>29. ASSUME NEW p \in Movers, GcSwept(p) PROVE AskedOf(q, r, d)'
    <2>1. CASE q /= p
      <3>1. place'[q] = place[q] /\ scan'[q] = scan[q]  BY <1>29, <2>1 DEF GcSwept, MovesOn, SweptAll, NoScan, tempDisk, ledgerVars, PlaceInv
      <3> QED BY <3>1, <1>was, <1>on DEF AskedOf
    <2>2. CASE q = p
      BY <1>29, <2>2, <1>was, <1>on DEF GcSwept, MovesOn, SweptAll, NoScan, tempDisk, ledgerVars, PlaceInv, AskedOf
    <2> QED BY <2>1, <2>2
  <1>30. ASSUME NEW p \in Movers, GcReads(p) PROVE AskedOf(q, r, d)'
    <2>1. CASE q /= p
      <3>1. place'[q] = place[q] /\ scan'[q] = scan[q]  BY <1>30, <2>1 DEF GcReads, MovesOn, TakeLedger, tempDisk, ledgerVars, PlaceInv
      <3> QED BY <3>1, <1>was, <1>on DEF AskedOf
    <2>2. CASE q = p
      BY <1>30, <2>2, <1>was, <1>on DEF GcReads, MovesOn, TakeLedger, tempDisk, ledgerVars, PlaceInv, AskedOf
    <2> QED BY <2>1, <2>2
  <1>31. ASSUME NEW p \in Movers, GcGivesUp(p) PROVE AskedOf(q, r, d)'
    <2>1. CASE q /= p
      <3>1. place'[q] = place[q] /\ scan'[q] = scan[q]  BY <1>31, <2>1 DEF GcGivesUp, MovesOn, tempDisk, ledgerVars, PlaceInv
      <3> QED BY <3>1, <1>was, <1>on DEF AskedOf
    <2>2. CASE q = p
      BY <1>31, <2>2, <1>was, <1>on DEF GcGivesUp, MovesOn, tempDisk, ledgerVars, PlaceInv, AskedOf
    <2> QED BY <2>1, <2>2
  <1>32. ASSUME NEW p \in Movers, GcPasses(p) PROVE AskedOf(q, r, d)'
    <2>1. CASE q /= p
      <3>1. place'[q] = place[q] /\ scan'[q] = scan[q]  BY <1>32, <2>1 DEF GcPasses, MovesOn, tempDisk, ledgerVars, PlaceInv
      <3> QED BY <3>1, <1>was, <1>on DEF AskedOf
    <2>2. CASE q = p
      BY <1>32, <2>2, <1>was, <1>on DEF GcPasses, MovesOn, tempDisk, ledgerVars, PlaceInv, AskedOf
    <2> QED BY <2>1, <2>2
  <1>33. ASSUME NEW p \in Movers, GcTakes(p) PROVE AskedOf(q, r, d)'
    <2>1. CASE q /= p
      <3>1. place'[q] = place[q] /\ scan'[q] = scan[q]  BY <1>33, <2>1 DEF GcTakes, MovesOn, Vouched, MarkerOf, tempDisk, ledgerVars, PlaceInv
      <3> QED BY <3>1, <1>was, <1>on DEF AskedOf
    <2>2. CASE q = p
      <3>1. place'[p] = "gc_empty" /\ ownerMarker[d] = [run |-> loaded[p][d], kept |-> TRUE]
        BY <1>33, <2>2, <1>at DEF GcTakes, MovesOn, Vouched, MarkerOf, PlaceInv
      <3>2. ownerMarker[d].kept /\ ownerMarker[d].run = loaded[p][d]  BY <3>1
      <3>3. loaded[p][d] = r  BY <3>2 DEF MarkerInv
      <3>4. loaded[p][d] /= "nobody"  BY <3>3
      <3>5. Over(r, d)  BY <3>4 DEF NotedInv
      <3> QED BY <3>1, <3>5, <2>2, <1>on DEF AskedOf
    <2> QED BY <2>1, <2>2
  <1>34. ASSUME NEW p \in Movers, GcEmpties(p) PROVE AskedOf(q, r, d)'
    <2>1. CASE q /= p
      <3>1. place'[q] = place[q] /\ scan'[q] = scan[q]  BY <1>34, <2>1 DEF GcEmpties, MovesOn, EmptyDir, tempDisk, ledgerVars, PlaceInv
      <3> QED BY <3>1, <1>was, <1>on DEF AskedOf
    <2>2. CASE q = p
      BY <1>34, <2>2, <1>was, <1>on DEF GcEmpties, MovesOn, EmptyDir, tempDisk, ledgerVars, PlaceInv, AskedOf
    <2> QED BY <2>1, <2>2
  <1>35. ASSUME NEW p \in Movers, GcUnlinks(p) PROVE AskedOf(q, r, d)'
    <2>1. CASE q /= p
      <3>1. place'[q] = place[q] /\ scan'[q] = scan[q]  BY <1>35, <2>1 DEF GcUnlinks, MovesOn, Unlinkable, UnlinkDir, tempDisk, ledgerVars, PlaceInv
      <3> QED BY <3>1, <1>was, <1>on DEF AskedOf
    <2>2. CASE q = p
      BY <1>35, <2>2, <1>was, <1>on DEF GcUnlinks, MovesOn, Unlinkable, UnlinkDir, tempDisk, ledgerVars, PlaceInv, AskedOf
    <2> QED BY <2>1, <2>2
  <1>36. ASSUME NEW p \in Movers, GcWrites(p) PROVE AskedOf(q, r, d)'
    <2>1. CASE q /= p
      <3>1. place'[q] = place[q] /\ scan'[q] = scan[q]  BY <1>36, <2>1 DEF GcWrites, MovesOn, SaveLedger, NoScan, UnreadLedger, tempDisk, ledgerVars, PlaceInv
      <3> QED BY <3>1, <1>was, <1>on DEF AskedOf
    <2>2. CASE q = p
      BY <1>36, <2>2, <1>was, <1>on DEF GcWrites, MovesOn, SaveLedger, NoScan, UnreadLedger, tempDisk, ledgerVars, PlaceInv, AskedOf
    <2> QED BY <2>1, <2>2
  <1>37. ASSUME NEW p \in Movers, Dies(p) PROVE AskedOf(q, r, d)'
    <2>1. CASE q /= p
      <3>1. place'[q] = place[q] /\ scan'[q] = scan[q]  BY <1>37, <2>1 DEF Dies, UnreadLedger, NoScan, tempDisk, ledgerVars, PlaceInv
      <3> QED BY <3>1, <1>was, <1>on DEF AskedOf
    <2>2. CASE q = p
      BY <1>37, <2>2, <1>was, <1>on DEF Dies, UnreadLedger, NoScan, tempDisk, ledgerVars, PlaceInv, AskedOf
    <2> QED BY <2>1, <2>2
  <1>38. ASSUME NEW e \in TempDirs, Ages(e) PROVE AskedOf(q, r, d)'
    BY <1>38, <1>was, <1>on DEF Ages, AskedOf
  <1>39. CASE UNCHANGED keptTempVars
    BY <1>39, <1>was, <1>on DEF AskedOf, keptTempVars
  <1> QED
    BY <1>1, <1>2, <1>3, <1>4, <1>5, <1>6, <1>7, <1>8, <1>9, <1>10, <1>11, <1>12,
       <1>13, <1>14, <1>15, <1>16, <1>17, <1>18, <1>19, <1>20, <1>21, <1>22, <1>23, <1>24,
       <1>25, <1>26, <1>27, <1>28, <1>29, <1>30, <1>31, <1>32, <1>33, <1>34, <1>35, <1>36,
       <1>37, <1>38, <1>39
    DEF KeptTempNext, SweepNext, RunNext, LedgerNext

\* What was kept is kept still, or was emptied since; its run is done with it.
StillKept(d) ==
  /\ ownerMarker[d].kept \/ (ownerMarker[d] = Unmarked /\ d \notin stale)
  /\ \A r \in Keepers : d \in OwnOf(r) => Sealed(r, d)

LEMMA KeptStays ==
  ASSUME KeptTempTypeOK, PlaceInv, [KeptTempNext]_keptTempVars, NEW d \in TempDirs, Ours(d), StillKept(d),
         NEW q \in Movers, scan[q].of \in {"scratch", "native"}
  PROVE  StillKept(d)'
  <1> USE KeptTempAssumption, DirFacts DEF KeptTempTypeOK
  <1>was. StillKept(d)  OBVIOUS
  <1>seal. \A r \in Keepers : d \in OwnOf(r) /\ Sealed(r, d) => Sealed(r, d)'  BY PhaseStep DEF PhasesKept
  <1>1. ASSUME NEW p \in Movers, Classify(p) PROVE StillKept(d)'
    BY <1>1, <1>was, <1>seal DEF StillKept, Unmarked, Classify, MovesOn, tempDisk, ledgerVars
  <1>2. ASSUME NEW p \in Movers, SweepSpares(p) PROVE StillKept(d)'
    BY <1>2, <1>was, <1>seal DEF StillKept, Unmarked, SweepSpares, MovesOn, tempDisk, ledgerVars
  <1>3. ASSUME NEW p \in Movers, SweepLocks(p) PROVE StillKept(d)'
    BY <1>3, <1>was, <1>seal DEF StillKept, Unmarked, SweepLocks, MovesOn, LockDir, IsHeld, tempDisk, ledgerVars
  <1>4. ASSUME NEW p \in Movers, SweepUnlocks(p) PROVE StillKept(d)'
    BY <1>4, <1>was, <1>seal DEF StillKept, Unmarked, SweepUnlocks, MovesOn, UnlockDir, tempDisk, ledgerVars
  <1>5. ASSUME NEW p \in Movers, SweepEmpties(p) PROVE StillKept(d)'
    BY <1>5, <1>was, <1>seal DEF StillKept, Unmarked, SweepEmpties, MovesOn, EmptyDir, tempDisk, ledgerVars
  <1>6. ASSUME NEW p \in Movers, SweepUnlinks(p) PROVE StillKept(d)'
    BY <1>6, <1>was, <1>seal DEF StillKept, Unmarked, SweepUnlinks, MovesOn, Unlinkable, UnlinkDir, tempDisk, ledgerVars
  <1>7. ASSUME NEW p \in Movers, RunSweeps(p) PROVE StillKept(d)'
    BY <1>7, <1>was, <1>seal DEF StillKept, Unmarked, RunSweeps, MovesOn, SweepLists, tempDisk, ledgerVars
  <1>8. ASSUME NEW p \in Movers, ScratchSwept(p) PROVE StillKept(d)'
    BY <1>8, <1>was, <1>seal DEF StillKept, Unmarked, ScratchSwept, MovesOn, SweptAll, NoScan, tempDisk, ledgerVars
  <1>9. ASSUME NEW p \in Movers, MakesScratch(p) PROVE StillKept(d)'
    BY <1>9, <1>was, <1>seal DEF StillKept, Unmarked, MakesScratch, MovesOn, Makes, NoScan, tempDisk, ledgerVars
  <1>10. ASSUME NEW p \in Movers, NativeSweeps(p) PROVE StillKept(d)'
    BY <1>10, <1>was, <1>seal DEF StillKept, Unmarked, NativeSweeps, MovesOn, SweepLists, tempDisk, ledgerVars
  <1>11. ASSUME NEW p \in Movers, Uncached(p) PROVE StillKept(d)'
    BY <1>11, <1>was, <1>seal DEF StillKept, Unmarked, Uncached, MovesOn, tempDisk, ledgerVars
  <1>12. ASSUME NEW p \in Movers, MakesShared(p) PROVE StillKept(d)'
    BY <1>12, <1>was, <1>seal DEF StillKept, Unmarked, MakesShared, MovesOn, SweptAll, Makes, NoScan, tempDisk, ledgerVars
  <1>13. ASSUME NEW p \in Movers, SharedTaken(p) PROVE StillKept(d)'
    BY <1>13, <1>was, <1>seal DEF StillKept, Unmarked, SharedTaken, MovesOn, IsHeld, Makes, NoScan, tempDisk, ledgerVars
  <1>14. ASSUME NEW p \in Movers, Claims(p) PROVE StillKept(d)'
    BY <1>14, <1>was, <1>seal DEF StillKept, Unmarked, Claims, MovesOn, LockDir, IsHeld, tempDisk, ledgerVars
  <1>15. ASSUME NEW p \in Movers, Marks(p) PROVE StillKept(d)'
    <2>1. p \in Keepers /\ making[p] \in {ScratchOf(p), NativeOf(p), SharedNative} /\ place[p] = "mark"
      BY <1>15 DEF Marks, MovesOn, PlaceInv, CollectorAt, KeeperAt, Movers, SweepPlaces, GcPlaces, EndPlaces
    <2>2. making[p] /= d
      <3> SUFFICES ASSUME making[p] = d PROVE FALSE  OBVIOUS
      <3>1. d \in OwnOf(p)  BY <2>1 DEF OwnOf
      <3>2. ~Sealed(p, d)  BY <2>1 DEF Sealed, Over, Uses
      <3> QED BY <2>1, <3>1, <3>2, <1>was DEF StillKept
    <2>3. ownerMarker'[d] = ownerMarker[d] /\ (d \notin stale => d \notin stale')
      BY <1>15, <2>2 DEF Marks, MarkDir
    <2> QED BY <2>3, <1>was, <1>seal DEF StillKept
  <1>16. ASSUME NEW p \in Movers, ClaimFails(p) PROVE StillKept(d)'
    BY <1>16, <1>was, <1>seal DEF StillKept, Unmarked, ClaimFails, MovesOn, UnlockDir, tempDisk, ledgerVars
  <1>17. ASSUME NEW p \in Movers, Works(p) PROVE StillKept(d)'
    BY <1>17, <1>was, <1>seal DEF StillKept, Unmarked, Works, MovesOn, OwnDirs, tempDisk, ledgerVars
  <1>18. ASSUME NEW p \in Movers, NoNative(p) PROVE StillKept(d)'
    BY <1>18, <1>was, <1>seal DEF StillKept, Unmarked, NoNative, MovesOn, LetGo, tempDisk, ledgerVars
  <1>19. ASSUME NEW p \in Movers, KeepMarks(p) PROVE StillKept(d)'
    <2>1. p \in Keepers /\ place[p] = "close" /\ Leaving(p) /= NoDir
      BY <1>19 DEF KeepMarks, MovesOn
    <2>2. Leaving(p) = making[p] /\ making[p] \in {ScratchOf(p), NativeOf(p), SharedNative}
          /\ (making[p] /= ScratchOf(p) => native[p] = making[p])
      <3>1. KeeperAt(p)  BY <2>1 DEF PlaceInv
      <3> QED BY <2>1, <3>1 DEF KeeperAt, Leaving, SweepPlaces
    <2>3. making[p] /= d
      <3> SUFFICES ASSUME making[p] = d PROVE FALSE  OBVIOUS
      <3>1. d \in OwnOf(p)  BY <2>2 DEF OwnOf
      <3>2. Uses(p, d)  BY <2>1, <2>2 DEF Uses, LetGoOf
      <3>3. ~Sealed(p, d)  BY <2>1, <3>2 DEF Sealed, Over
      <3> QED BY <2>1, <3>1, <3>3, <1>was DEF StillKept
    <2>4. ownerMarker'[d] = ownerMarker[d] /\ (d \notin stale => d \notin stale')
      BY <1>19, <2>2, <2>3 DEF KeepMarks, MarkDir
    <2> QED BY <2>4, <1>was, <1>seal DEF StillKept
  <1>20. ASSUME NEW p \in Movers, KeepUnlocks(p) PROVE StillKept(d)'
    BY <1>20, <1>was, <1>seal DEF StillKept, Unmarked, KeepUnlocks, MovesOn, UnlockDir, Leaving, tempDisk, ledgerVars
  <1>21. ASSUME NEW p \in Movers, KeepFails(p) PROVE StillKept(d)'
    BY <1>21, <1>was, <1>seal DEF StillKept, Unmarked, KeepFails, MovesOn, UnlockDir, Leaving, LetGo, tempDisk, ledgerVars
  <1>22. ASSUME NEW p \in Movers, Releases(p) PROVE StillKept(d)'
    BY <1>22, <1>was, <1>seal DEF StillKept, Unmarked, Releases, MovesOn, UnlockDir, Leaving, LetGo, tempDisk, ledgerVars
  <1>23. ASSUME NEW p \in Movers, DropEmpties(p) PROVE StillKept(d)'
    BY <1>23, <1>was, <1>seal DEF StillKept, Unmarked, DropEmpties, MovesOn, EmptyDir, tempDisk, ledgerVars
  <1>24. ASSUME NEW p \in Movers, DropUnlinks(p) PROVE StillKept(d)'
    BY <1>24, <1>was, <1>seal DEF StillKept, Unmarked, DropUnlinks, MovesOn, Unlinkable, UnlinkDir, LetGo, tempDisk, ledgerVars
  <1>25. ASSUME NEW p \in Movers, NoteReads(p) PROVE StillKept(d)'
    BY <1>25, <1>was, <1>seal DEF StillKept, Unmarked, NoteReads, MovesOn, TakeLedger, tempDisk, ledgerVars
  <1>26. ASSUME NEW p \in Movers, NoteWrites(p) PROVE StillKept(d)'
    BY <1>26, <1>was, <1>seal DEF StillKept, Unmarked, NoteWrites, MovesOn, LetGo, SaveLedger, Leaving, UnreadLedger, tempDisk, ledgerVars
  <1>27. ASSUME NEW p \in Movers, NoteGivesUp(p) PROVE StillKept(d)'
    BY <1>27, <1>was, <1>seal DEF StillKept, Unmarked, NoteGivesUp, MovesOn, LetGo, tempDisk, ledgerVars
  <1>28. ASSUME NEW p \in Movers, GcSweeps(p) PROVE StillKept(d)'
    BY <1>28, <1>was, <1>seal DEF StillKept, Unmarked, GcSweeps, MovesOn, SweptAll, SweepLists, tempDisk, ledgerVars
  <1>29. ASSUME NEW p \in Movers, GcSwept(p) PROVE StillKept(d)'
    BY <1>29, <1>was, <1>seal DEF StillKept, Unmarked, GcSwept, MovesOn, SweptAll, NoScan, tempDisk, ledgerVars
  <1>30. ASSUME NEW p \in Movers, GcReads(p) PROVE StillKept(d)'
    BY <1>30, <1>was, <1>seal DEF StillKept, Unmarked, GcReads, MovesOn, TakeLedger, tempDisk, ledgerVars
  <1>31. ASSUME NEW p \in Movers, GcGivesUp(p) PROVE StillKept(d)'
    BY <1>31, <1>was, <1>seal DEF StillKept, Unmarked, GcGivesUp, MovesOn, tempDisk, ledgerVars
  <1>32. ASSUME NEW p \in Movers, GcPasses(p) PROVE StillKept(d)'
    BY <1>32, <1>was, <1>seal DEF StillKept, Unmarked, GcPasses, MovesOn, tempDisk, ledgerVars
  <1>33. ASSUME NEW p \in Movers, GcTakes(p) PROVE StillKept(d)'
    BY <1>33, <1>was, <1>seal DEF StillKept, Unmarked, GcTakes, MovesOn, Vouched, MarkerOf, tempDisk, ledgerVars
  <1>34. ASSUME NEW p \in Movers, GcEmpties(p) PROVE StillKept(d)'
    BY <1>34, <1>was, <1>seal DEF StillKept, Unmarked, GcEmpties, MovesOn, EmptyDir, tempDisk, ledgerVars
  <1>35. ASSUME NEW p \in Movers, GcUnlinks(p) PROVE StillKept(d)'
    BY <1>35, <1>was, <1>seal DEF StillKept, Unmarked, GcUnlinks, MovesOn, Unlinkable, UnlinkDir, tempDisk, ledgerVars
  <1>36. ASSUME NEW p \in Movers, GcWrites(p) PROVE StillKept(d)'
    BY <1>36, <1>was, <1>seal DEF StillKept, Unmarked, GcWrites, MovesOn, SaveLedger, NoScan, UnreadLedger, tempDisk, ledgerVars
  <1>37. ASSUME NEW p \in Movers, Dies(p) PROVE StillKept(d)'
    BY <1>37, <1>was, <1>seal DEF StillKept, Unmarked, Dies, UnreadLedger, NoScan, tempDisk, ledgerVars
  <1>38. ASSUME NEW e \in TempDirs, Ages(e) PROVE StillKept(d)'
    <2>1. FALSE  BY <1>38, <1>was DEF Ages, NoScan
    <2> QED BY <2>1
  <1>39. CASE UNCHANGED keptTempVars
    BY <1>39, <1>was, <1>seal DEF StillKept, keptTempVars, tempDisk, ledgerVars
  <1> QED
    BY <1>1, <1>2, <1>3, <1>4, <1>5, <1>6, <1>7, <1>8, <1>9, <1>10, <1>11, <1>12,
       <1>13, <1>14, <1>15, <1>16, <1>17, <1>18, <1>19, <1>20, <1>21, <1>22, <1>23, <1>24,
       <1>25, <1>26, <1>27, <1>28, <1>29, <1>30, <1>31, <1>32, <1>33, <1>34, <1>35, <1>36,
       <1>37, <1>38, <1>39
    DEF KeptTempNext, SweepNext, RunNext, LedgerNext

ListedBy(p) ==
  /\ \A d \in scan[p].kept : Ours(d) => StillKept(d)
  /\ place[p] \in SweepPlaces \ {"sweep"} => scan[p].at \notin scan[p].kept

LEMMA ListingStep == KeptTempTypeOK /\ PlaceInv /\ ScanInv /\ MarkerInv /\ ListingInv /\ [KeptTempNext]_keptTempVars => ListingInv'
  <1> SUFFICES ASSUME KeptTempTypeOK /\ PlaceInv /\ ScanInv /\ MarkerInv /\ ListingInv, [KeptTempNext]_keptTempVars,
                      NEW q \in Movers, scan'[q].of \in {"scratch", "native"}
               PROVE  ListedBy(q)'
    BY DEF ListingInv, ListedBy, StillKept
  <1> USE KeptTempAssumption, DirFacts DEF KeptTempTypeOK
  <1>was. scan[q].of \in {"scratch", "native"} =>
            /\ ListedBy(q)
            /\ \A d \in scan[q].kept : Ours(d) => StillKept(d) /\ StillKept(d)'
    <2> SUFFICES ASSUME scan[q].of \in {"scratch", "native"}
                 PROVE  ListedBy(q) /\ \A d \in scan[q].kept : Ours(d) => StillKept(d)'
      BY DEF ListedBy
    <2>1. ListedBy(q)  BY DEF ListingInv, ListedBy, StillKept
    <2>2. \A d \in scan[q].kept : Ours(d) => StillKept(d)'  BY <2>1, KeptStays DEF ListedBy
    <2> QED BY <2>1, <2>2
  <1>1. ASSUME NEW p \in Movers, Classify(p) PROVE ListedBy(q)'
    <2>1. CASE q /= p
      <3>1. place'[q] = place[q] /\ scan'[q] = scan[q]  BY <1>1, <2>1 DEF Classify, MovesOn, tempDisk, ledgerVars, PlaceInv
      <3> QED BY <3>1, <1>was DEF ListedBy
    <2>2. CASE q = p
      <3>1. PICK d \in scan[p].left :
              /\ scan' = [scan EXCEPT ![p].left = @ \ {d}, ![p].at = d]
              /\ \/ place' = [place EXCEPT ![p] = "sweep"]
                 \/ ownerMarker[d] = Unmarked /\ d \in stale
                 \/ ownerMarker[d] /= Unmarked /\ ~ownerMarker[d].kept
        BY <1>1 DEF Classify, MovesOn
      <3>2. place[p] = "sweep"  BY <1>1 DEF Classify, MovesOn
      <3>3. scan'[p].at = d /\ scan'[p].kept = scan[p].kept /\ scan'[p].of = scan[p].of  BY <3>1
      <3>4. Ours(d)  BY <3>1, <3>2 DEF ScanInv, SweepPlaces, Ours
      <3>5. place'[p] /= "sweep" => d \notin scan[p].kept
        <4> SUFFICES ASSUME place'[p] /= "sweep", d \in scan[p].kept PROVE FALSE  OBVIOUS
        <4>1. StillKept(d)  BY <2>2, <3>3, <3>4, <1>was
        <4>2. (ownerMarker[d] = Unmarked /\ d \in stale) \/ (ownerMarker[d] /= Unmarked /\ ~ownerMarker[d].kept)
          BY <3>1 DEF PlaceInv
        <4> QED BY <4>1, <4>2 DEF StillKept, Unmarked
      <3> QED BY <2>2, <3>3, <3>5, <1>was DEF ListedBy
    <2> QED BY <2>1, <2>2
  <1>2. ASSUME NEW p \in Movers, SweepSpares(p) PROVE ListedBy(q)'
    <2>1. CASE q /= p
      <3>1. place'[q] = place[q] /\ scan'[q] = scan[q]  BY <1>2, <2>1 DEF SweepSpares, MovesOn, tempDisk, ledgerVars, PlaceInv
      <3> QED BY <3>1, <1>was DEF ListedBy
    <2>2. CASE q = p
      BY <1>2, <2>2, <1>was DEF SweepSpares, MovesOn, tempDisk, ledgerVars, PlaceInv, ListedBy, SweepPlaces
    <2> QED BY <2>1, <2>2
  <1>3. ASSUME NEW p \in Movers, SweepLocks(p) PROVE ListedBy(q)'
    <2>1. CASE q /= p
      <3>1. place'[q] = place[q] /\ scan'[q] = scan[q]  BY <1>3, <2>1 DEF SweepLocks, MovesOn, LockDir, IsHeld, tempDisk, ledgerVars, PlaceInv
      <3> QED BY <3>1, <1>was DEF ListedBy
    <2>2. CASE q = p
      BY <1>3, <2>2, <1>was DEF SweepLocks, MovesOn, LockDir, IsHeld, tempDisk, ledgerVars, PlaceInv, ListedBy, SweepPlaces
    <2> QED BY <2>1, <2>2
  <1>4. ASSUME NEW p \in Movers, SweepUnlocks(p) PROVE ListedBy(q)'
    <2>1. CASE q /= p
      <3>1. place'[q] = place[q] /\ scan'[q] = scan[q]  BY <1>4, <2>1 DEF SweepUnlocks, MovesOn, UnlockDir, tempDisk, ledgerVars, PlaceInv
      <3> QED BY <3>1, <1>was DEF ListedBy
    <2>2. CASE q = p
      BY <1>4, <2>2, <1>was DEF SweepUnlocks, MovesOn, UnlockDir, tempDisk, ledgerVars, PlaceInv, ListedBy, SweepPlaces
    <2> QED BY <2>1, <2>2
  <1>5. ASSUME NEW p \in Movers, SweepEmpties(p) PROVE ListedBy(q)'
    <2>1. CASE q /= p
      <3>1. place'[q] = place[q] /\ scan'[q] = scan[q]  BY <1>5, <2>1 DEF SweepEmpties, MovesOn, EmptyDir, tempDisk, ledgerVars, PlaceInv
      <3> QED BY <3>1, <1>was DEF ListedBy
    <2>2. CASE q = p
      BY <1>5, <2>2, <1>was DEF SweepEmpties, MovesOn, EmptyDir, tempDisk, ledgerVars, PlaceInv, ListedBy, SweepPlaces
    <2> QED BY <2>1, <2>2
  <1>6. ASSUME NEW p \in Movers, SweepUnlinks(p) PROVE ListedBy(q)'
    <2>1. CASE q /= p
      <3>1. place'[q] = place[q] /\ scan'[q] = scan[q]  BY <1>6, <2>1 DEF SweepUnlinks, MovesOn, Unlinkable, UnlinkDir, tempDisk, ledgerVars, PlaceInv
      <3> QED BY <3>1, <1>was DEF ListedBy
    <2>2. CASE q = p
      BY <1>6, <2>2, <1>was DEF SweepUnlinks, MovesOn, Unlinkable, UnlinkDir, tempDisk, ledgerVars, PlaceInv, ListedBy, SweepPlaces
    <2> QED BY <2>1, <2>2
  <1>7. ASSUME NEW p \in Movers, RunSweeps(p) PROVE ListedBy(q)'
    <2>1. CASE q /= p
      <3>1. place'[q] = place[q] /\ scan'[q] = scan[q]  BY <1>7, <2>1 DEF RunSweeps, MovesOn, SweepLists, tempDisk, ledgerVars, PlaceInv
      <3> QED BY <3>1, <1>was DEF ListedBy
    <2>2. CASE q = p
      <3>1. scan'[p].of \in {"scratch", "native"} =>
              \/ scan'[p].kept = {d \in present : ownerMarker[d].kept}
              \/ scan'[p] = scan[p]
        BY <1>7 DEF RunSweeps, MovesOn, SweepLists, tempDisk, ledgerVars
      <3>2. place'[p] \notin SweepPlaces \ {"sweep"} /\ UNCHANGED <<ownerMarker, stale>>
        BY <1>7 DEF RunSweeps, MovesOn, SweepLists, tempDisk, ledgerVars, PlaceInv, SweepPlaces
      <3>3. ASSUME NEW d \in present, ownerMarker[d].kept PROVE StillKept(d)'
        <4>1. \A r \in Keepers : d \in OwnOf(r) => Sealed(r, d)'
          BY <3>3, PhaseStep DEF MarkerInv, PhasesKept
        <4> QED BY <3>2, <3>3, <4>1 DEF StillKept
      <3> QED BY <2>2, <3>1, <3>2, <3>3, <1>was DEF ListedBy
    <2> QED BY <2>1, <2>2
  <1>8. ASSUME NEW p \in Movers, ScratchSwept(p) PROVE ListedBy(q)'
    <2>1. CASE q /= p
      <3>1. place'[q] = place[q] /\ scan'[q] = scan[q]  BY <1>8, <2>1 DEF ScratchSwept, MovesOn, SweptAll, NoScan, tempDisk, ledgerVars, PlaceInv
      <3> QED BY <3>1, <1>was DEF ListedBy
    <2>2. CASE q = p
      BY <1>8, <2>2, <1>was DEF ScratchSwept, MovesOn, SweptAll, NoScan, tempDisk, ledgerVars, PlaceInv, ListedBy, SweepPlaces
    <2> QED BY <2>1, <2>2
  <1>9. ASSUME NEW p \in Movers, MakesScratch(p) PROVE ListedBy(q)'
    <2>1. CASE q /= p
      <3>1. place'[q] = place[q] /\ scan'[q] = scan[q]  BY <1>9, <2>1 DEF MakesScratch, MovesOn, Makes, NoScan, tempDisk, ledgerVars, PlaceInv
      <3> QED BY <3>1, <1>was DEF ListedBy
    <2>2. CASE q = p
      BY <1>9, <2>2, <1>was DEF MakesScratch, MovesOn, Makes, NoScan, tempDisk, ledgerVars, PlaceInv, ListedBy, SweepPlaces
    <2> QED BY <2>1, <2>2
  <1>10. ASSUME NEW p \in Movers, NativeSweeps(p) PROVE ListedBy(q)'
    <2>1. CASE q /= p
      <3>1. place'[q] = place[q] /\ scan'[q] = scan[q]  BY <1>10, <2>1 DEF NativeSweeps, MovesOn, SweepLists, tempDisk, ledgerVars, PlaceInv
      <3> QED BY <3>1, <1>was DEF ListedBy
    <2>2. CASE q = p
      <3>1. scan'[p].of \in {"scratch", "native"} =>
              \/ scan'[p].kept = {d \in present : ownerMarker[d].kept}
              \/ scan'[p] = scan[p]
        BY <1>10 DEF NativeSweeps, MovesOn, SweepLists, tempDisk, ledgerVars
      <3>2. place'[p] \notin SweepPlaces \ {"sweep"} /\ UNCHANGED <<ownerMarker, stale>>
        BY <1>10 DEF NativeSweeps, MovesOn, SweepLists, tempDisk, ledgerVars, PlaceInv, SweepPlaces
      <3>3. ASSUME NEW d \in present, ownerMarker[d].kept PROVE StillKept(d)'
        <4>1. \A r \in Keepers : d \in OwnOf(r) => Sealed(r, d)'
          BY <3>3, PhaseStep DEF MarkerInv, PhasesKept
        <4> QED BY <3>2, <3>3, <4>1 DEF StillKept
      <3> QED BY <2>2, <3>1, <3>2, <3>3, <1>was DEF ListedBy
    <2> QED BY <2>1, <2>2
  <1>11. ASSUME NEW p \in Movers, Uncached(p) PROVE ListedBy(q)'
    <2>1. CASE q /= p
      <3>1. place'[q] = place[q] /\ scan'[q] = scan[q]  BY <1>11, <2>1 DEF Uncached, MovesOn, tempDisk, ledgerVars, PlaceInv
      <3> QED BY <3>1, <1>was DEF ListedBy
    <2>2. CASE q = p
      BY <1>11, <2>2, <1>was DEF Uncached, MovesOn, tempDisk, ledgerVars, PlaceInv, ListedBy, SweepPlaces
    <2> QED BY <2>1, <2>2
  <1>12. ASSUME NEW p \in Movers, MakesShared(p) PROVE ListedBy(q)'
    <2>1. CASE q /= p
      <3>1. place'[q] = place[q] /\ scan'[q] = scan[q]  BY <1>12, <2>1 DEF MakesShared, MovesOn, SweptAll, Makes, NoScan, tempDisk, ledgerVars, PlaceInv
      <3> QED BY <3>1, <1>was DEF ListedBy
    <2>2. CASE q = p
      BY <1>12, <2>2, <1>was DEF MakesShared, MovesOn, SweptAll, Makes, NoScan, tempDisk, ledgerVars, PlaceInv, ListedBy, SweepPlaces
    <2> QED BY <2>1, <2>2
  <1>13. ASSUME NEW p \in Movers, SharedTaken(p) PROVE ListedBy(q)'
    <2>1. CASE q /= p
      <3>1. place'[q] = place[q] /\ scan'[q] = scan[q]  BY <1>13, <2>1 DEF SharedTaken, MovesOn, IsHeld, Makes, NoScan, tempDisk, ledgerVars, PlaceInv
      <3> QED BY <3>1, <1>was DEF ListedBy
    <2>2. CASE q = p
      BY <1>13, <2>2, <1>was DEF SharedTaken, MovesOn, IsHeld, Makes, NoScan, tempDisk, ledgerVars, PlaceInv, ListedBy, SweepPlaces
    <2> QED BY <2>1, <2>2
  <1>14. ASSUME NEW p \in Movers, Claims(p) PROVE ListedBy(q)'
    <2>1. CASE q /= p
      <3>1. place'[q] = place[q] /\ scan'[q] = scan[q]  BY <1>14, <2>1 DEF Claims, MovesOn, LockDir, IsHeld, tempDisk, ledgerVars, PlaceInv
      <3> QED BY <3>1, <1>was DEF ListedBy
    <2>2. CASE q = p
      BY <1>14, <2>2, <1>was DEF Claims, MovesOn, LockDir, IsHeld, tempDisk, ledgerVars, PlaceInv, ListedBy, SweepPlaces
    <2> QED BY <2>1, <2>2
  <1>15. ASSUME NEW p \in Movers, Marks(p) PROVE ListedBy(q)'
    <2>1. CASE q /= p
      <3>1. place'[q] = place[q] /\ scan'[q] = scan[q]  BY <1>15, <2>1 DEF Marks, MovesOn, MarkDir, MarkerOf, tempDisk, ledgerVars, PlaceInv
      <3> QED BY <3>1, <1>was DEF ListedBy
    <2>2. CASE q = p
      BY <1>15, <2>2, <1>was DEF Marks, MovesOn, MarkDir, MarkerOf, tempDisk, ledgerVars, PlaceInv, ListedBy, SweepPlaces
    <2> QED BY <2>1, <2>2
  <1>16. ASSUME NEW p \in Movers, ClaimFails(p) PROVE ListedBy(q)'
    <2>1. CASE q /= p
      <3>1. place'[q] = place[q] /\ scan'[q] = scan[q]  BY <1>16, <2>1 DEF ClaimFails, MovesOn, UnlockDir, tempDisk, ledgerVars, PlaceInv
      <3> QED BY <3>1, <1>was DEF ListedBy
    <2>2. CASE q = p
      BY <1>16, <2>2, <1>was DEF ClaimFails, MovesOn, UnlockDir, tempDisk, ledgerVars, PlaceInv, ListedBy, SweepPlaces
    <2> QED BY <2>1, <2>2
  <1>17. ASSUME NEW p \in Movers, Works(p) PROVE ListedBy(q)'
    <2>1. CASE q /= p
      <3>1. place'[q] = place[q] /\ scan'[q] = scan[q]  BY <1>17, <2>1 DEF Works, MovesOn, OwnDirs, tempDisk, ledgerVars, PlaceInv
      <3> QED BY <3>1, <1>was DEF ListedBy
    <2>2. CASE q = p
      BY <1>17, <2>2, <1>was DEF Works, MovesOn, OwnDirs, tempDisk, ledgerVars, PlaceInv, ListedBy, SweepPlaces
    <2> QED BY <2>1, <2>2
  <1>18. ASSUME NEW p \in Movers, NoNative(p) PROVE ListedBy(q)'
    <2>1. CASE q /= p
      <3>1. place'[q] = place[q] /\ scan'[q] = scan[q]  BY <1>18, <2>1 DEF NoNative, MovesOn, LetGo, tempDisk, ledgerVars, PlaceInv
      <3> QED BY <3>1, <1>was DEF ListedBy
    <2>2. CASE q = p
      BY <1>18, <2>2, <1>was DEF NoNative, MovesOn, LetGo, tempDisk, ledgerVars, PlaceInv, ListedBy, SweepPlaces
    <2> QED BY <2>1, <2>2
  <1>19. ASSUME NEW p \in Movers, KeepMarks(p) PROVE ListedBy(q)'
    <2>1. CASE q /= p
      <3>1. place'[q] = place[q] /\ scan'[q] = scan[q]  BY <1>19, <2>1 DEF KeepMarks, MovesOn, MarkDir, MarkerOf, Leaving, tempDisk, ledgerVars, PlaceInv
      <3> QED BY <3>1, <1>was DEF ListedBy
    <2>2. CASE q = p
      BY <1>19, <2>2, <1>was DEF KeepMarks, MovesOn, MarkDir, MarkerOf, Leaving, tempDisk, ledgerVars, PlaceInv, ListedBy, SweepPlaces
    <2> QED BY <2>1, <2>2
  <1>20. ASSUME NEW p \in Movers, KeepUnlocks(p) PROVE ListedBy(q)'
    <2>1. CASE q /= p
      <3>1. place'[q] = place[q] /\ scan'[q] = scan[q]  BY <1>20, <2>1 DEF KeepUnlocks, MovesOn, UnlockDir, Leaving, tempDisk, ledgerVars, PlaceInv
      <3> QED BY <3>1, <1>was DEF ListedBy
    <2>2. CASE q = p
      BY <1>20, <2>2, <1>was DEF KeepUnlocks, MovesOn, UnlockDir, Leaving, tempDisk, ledgerVars, PlaceInv, ListedBy, SweepPlaces
    <2> QED BY <2>1, <2>2
  <1>21. ASSUME NEW p \in Movers, KeepFails(p) PROVE ListedBy(q)'
    <2>1. CASE q /= p
      <3>1. place'[q] = place[q] /\ scan'[q] = scan[q]  BY <1>21, <2>1 DEF KeepFails, MovesOn, UnlockDir, Leaving, LetGo, tempDisk, ledgerVars, PlaceInv
      <3> QED BY <3>1, <1>was DEF ListedBy
    <2>2. CASE q = p
      BY <1>21, <2>2, <1>was DEF KeepFails, MovesOn, UnlockDir, Leaving, LetGo, tempDisk, ledgerVars, PlaceInv, ListedBy, SweepPlaces
    <2> QED BY <2>1, <2>2
  <1>22. ASSUME NEW p \in Movers, Releases(p) PROVE ListedBy(q)'
    <2>1. CASE q /= p
      <3>1. place'[q] = place[q] /\ scan'[q] = scan[q]  BY <1>22, <2>1 DEF Releases, MovesOn, UnlockDir, Leaving, LetGo, tempDisk, ledgerVars, PlaceInv
      <3> QED BY <3>1, <1>was DEF ListedBy
    <2>2. CASE q = p
      BY <1>22, <2>2, <1>was DEF Releases, MovesOn, UnlockDir, Leaving, LetGo, tempDisk, ledgerVars, PlaceInv, ListedBy, SweepPlaces
    <2> QED BY <2>1, <2>2
  <1>23. ASSUME NEW p \in Movers, DropEmpties(p) PROVE ListedBy(q)'
    <2>1. CASE q /= p
      <3>1. place'[q] = place[q] /\ scan'[q] = scan[q]  BY <1>23, <2>1 DEF DropEmpties, MovesOn, EmptyDir, tempDisk, ledgerVars, PlaceInv
      <3> QED BY <3>1, <1>was DEF ListedBy
    <2>2. CASE q = p
      BY <1>23, <2>2, <1>was DEF DropEmpties, MovesOn, EmptyDir, tempDisk, ledgerVars, PlaceInv, ListedBy, SweepPlaces
    <2> QED BY <2>1, <2>2
  <1>24. ASSUME NEW p \in Movers, DropUnlinks(p) PROVE ListedBy(q)'
    <2>1. CASE q /= p
      <3>1. place'[q] = place[q] /\ scan'[q] = scan[q]  BY <1>24, <2>1 DEF DropUnlinks, MovesOn, Unlinkable, UnlinkDir, LetGo, tempDisk, ledgerVars, PlaceInv
      <3> QED BY <3>1, <1>was DEF ListedBy
    <2>2. CASE q = p
      BY <1>24, <2>2, <1>was DEF DropUnlinks, MovesOn, Unlinkable, UnlinkDir, LetGo, tempDisk, ledgerVars, PlaceInv, ListedBy, SweepPlaces
    <2> QED BY <2>1, <2>2
  <1>25. ASSUME NEW p \in Movers, NoteReads(p) PROVE ListedBy(q)'
    <2>1. CASE q /= p
      <3>1. place'[q] = place[q] /\ scan'[q] = scan[q]  BY <1>25, <2>1 DEF NoteReads, MovesOn, TakeLedger, tempDisk, ledgerVars, PlaceInv
      <3> QED BY <3>1, <1>was DEF ListedBy
    <2>2. CASE q = p
      BY <1>25, <2>2, <1>was DEF NoteReads, MovesOn, TakeLedger, tempDisk, ledgerVars, PlaceInv, ListedBy, SweepPlaces
    <2> QED BY <2>1, <2>2
  <1>26. ASSUME NEW p \in Movers, NoteWrites(p) PROVE ListedBy(q)'
    <2>1. CASE q /= p
      <3>1. place'[q] = place[q] /\ scan'[q] = scan[q]  BY <1>26, <2>1 DEF NoteWrites, MovesOn, LetGo, SaveLedger, Leaving, UnreadLedger, tempDisk, ledgerVars, PlaceInv
      <3> QED BY <3>1, <1>was DEF ListedBy
    <2>2. CASE q = p
      BY <1>26, <2>2, <1>was DEF NoteWrites, MovesOn, LetGo, SaveLedger, Leaving, UnreadLedger, tempDisk, ledgerVars, PlaceInv, ListedBy, SweepPlaces
    <2> QED BY <2>1, <2>2
  <1>27. ASSUME NEW p \in Movers, NoteGivesUp(p) PROVE ListedBy(q)'
    <2>1. CASE q /= p
      <3>1. place'[q] = place[q] /\ scan'[q] = scan[q]  BY <1>27, <2>1 DEF NoteGivesUp, MovesOn, LetGo, tempDisk, ledgerVars, PlaceInv
      <3> QED BY <3>1, <1>was DEF ListedBy
    <2>2. CASE q = p
      BY <1>27, <2>2, <1>was DEF NoteGivesUp, MovesOn, LetGo, tempDisk, ledgerVars, PlaceInv, ListedBy, SweepPlaces
    <2> QED BY <2>1, <2>2
  <1>28. ASSUME NEW p \in Movers, GcSweeps(p) PROVE ListedBy(q)'
    <2>1. CASE q /= p
      <3>1. place'[q] = place[q] /\ scan'[q] = scan[q]  BY <1>28, <2>1 DEF GcSweeps, MovesOn, SweptAll, SweepLists, tempDisk, ledgerVars, PlaceInv
      <3> QED BY <3>1, <1>was DEF ListedBy
    <2>2. CASE q = p
      <3>1. scan'[p].of \in {"scratch", "native"} =>
              \/ scan'[p].kept = {d \in present : ownerMarker[d].kept}
              \/ scan'[p] = scan[p]
        BY <1>28 DEF GcSweeps, MovesOn, SweptAll, SweepLists, tempDisk, ledgerVars
      <3>2. place'[p] \notin SweepPlaces \ {"sweep"} /\ UNCHANGED <<ownerMarker, stale>>
        BY <1>28 DEF GcSweeps, MovesOn, SweptAll, SweepLists, tempDisk, ledgerVars, PlaceInv, SweepPlaces
      <3>3. ASSUME NEW d \in present, ownerMarker[d].kept PROVE StillKept(d)'
        <4>1. \A r \in Keepers : d \in OwnOf(r) => Sealed(r, d)'
          BY <3>3, PhaseStep DEF MarkerInv, PhasesKept
        <4> QED BY <3>2, <3>3, <4>1 DEF StillKept
      <3> QED BY <2>2, <3>1, <3>2, <3>3, <1>was DEF ListedBy
    <2> QED BY <2>1, <2>2
  <1>29. ASSUME NEW p \in Movers, GcSwept(p) PROVE ListedBy(q)'
    <2>1. CASE q /= p
      <3>1. place'[q] = place[q] /\ scan'[q] = scan[q]  BY <1>29, <2>1 DEF GcSwept, MovesOn, SweptAll, NoScan, tempDisk, ledgerVars, PlaceInv
      <3> QED BY <3>1, <1>was DEF ListedBy
    <2>2. CASE q = p
      BY <1>29, <2>2, <1>was DEF GcSwept, MovesOn, SweptAll, NoScan, tempDisk, ledgerVars, PlaceInv, ListedBy, SweepPlaces
    <2> QED BY <2>1, <2>2
  <1>30. ASSUME NEW p \in Movers, GcReads(p) PROVE ListedBy(q)'
    <2>1. CASE q /= p
      <3>1. place'[q] = place[q] /\ scan'[q] = scan[q]  BY <1>30, <2>1 DEF GcReads, MovesOn, TakeLedger, tempDisk, ledgerVars, PlaceInv
      <3> QED BY <3>1, <1>was DEF ListedBy
    <2>2. CASE q = p
      BY <1>30, <2>2, <1>was DEF GcReads, MovesOn, TakeLedger, tempDisk, ledgerVars, PlaceInv, ListedBy, SweepPlaces
    <2> QED BY <2>1, <2>2
  <1>31. ASSUME NEW p \in Movers, GcGivesUp(p) PROVE ListedBy(q)'
    <2>1. CASE q /= p
      <3>1. place'[q] = place[q] /\ scan'[q] = scan[q]  BY <1>31, <2>1 DEF GcGivesUp, MovesOn, tempDisk, ledgerVars, PlaceInv
      <3> QED BY <3>1, <1>was DEF ListedBy
    <2>2. CASE q = p
      BY <1>31, <2>2, <1>was DEF GcGivesUp, MovesOn, tempDisk, ledgerVars, PlaceInv, ListedBy, SweepPlaces
    <2> QED BY <2>1, <2>2
  <1>32. ASSUME NEW p \in Movers, GcPasses(p) PROVE ListedBy(q)'
    <2>1. CASE q /= p
      <3>1. place'[q] = place[q] /\ scan'[q] = scan[q]  BY <1>32, <2>1 DEF GcPasses, MovesOn, tempDisk, ledgerVars, PlaceInv
      <3> QED BY <3>1, <1>was DEF ListedBy
    <2>2. CASE q = p
      BY <1>32, <2>2, <1>was DEF GcPasses, MovesOn, tempDisk, ledgerVars, PlaceInv, ListedBy, SweepPlaces
    <2> QED BY <2>1, <2>2
  <1>33. ASSUME NEW p \in Movers, GcTakes(p) PROVE ListedBy(q)'
    <2>1. CASE q /= p
      <3>1. place'[q] = place[q] /\ scan'[q] = scan[q]  BY <1>33, <2>1 DEF GcTakes, MovesOn, Vouched, MarkerOf, tempDisk, ledgerVars, PlaceInv
      <3> QED BY <3>1, <1>was DEF ListedBy
    <2>2. CASE q = p
      BY <1>33, <2>2, <1>was DEF GcTakes, MovesOn, Vouched, MarkerOf, tempDisk, ledgerVars, PlaceInv, ListedBy, SweepPlaces
    <2> QED BY <2>1, <2>2
  <1>34. ASSUME NEW p \in Movers, GcEmpties(p) PROVE ListedBy(q)'
    <2>1. CASE q /= p
      <3>1. place'[q] = place[q] /\ scan'[q] = scan[q]  BY <1>34, <2>1 DEF GcEmpties, MovesOn, EmptyDir, tempDisk, ledgerVars, PlaceInv
      <3> QED BY <3>1, <1>was DEF ListedBy
    <2>2. CASE q = p
      BY <1>34, <2>2, <1>was DEF GcEmpties, MovesOn, EmptyDir, tempDisk, ledgerVars, PlaceInv, ListedBy, SweepPlaces
    <2> QED BY <2>1, <2>2
  <1>35. ASSUME NEW p \in Movers, GcUnlinks(p) PROVE ListedBy(q)'
    <2>1. CASE q /= p
      <3>1. place'[q] = place[q] /\ scan'[q] = scan[q]  BY <1>35, <2>1 DEF GcUnlinks, MovesOn, Unlinkable, UnlinkDir, tempDisk, ledgerVars, PlaceInv
      <3> QED BY <3>1, <1>was DEF ListedBy
    <2>2. CASE q = p
      BY <1>35, <2>2, <1>was DEF GcUnlinks, MovesOn, Unlinkable, UnlinkDir, tempDisk, ledgerVars, PlaceInv, ListedBy, SweepPlaces
    <2> QED BY <2>1, <2>2
  <1>36. ASSUME NEW p \in Movers, GcWrites(p) PROVE ListedBy(q)'
    <2>1. CASE q /= p
      <3>1. place'[q] = place[q] /\ scan'[q] = scan[q]  BY <1>36, <2>1 DEF GcWrites, MovesOn, SaveLedger, NoScan, UnreadLedger, tempDisk, ledgerVars, PlaceInv
      <3> QED BY <3>1, <1>was DEF ListedBy
    <2>2. CASE q = p
      BY <1>36, <2>2, <1>was DEF GcWrites, MovesOn, SaveLedger, NoScan, UnreadLedger, tempDisk, ledgerVars, PlaceInv, ListedBy, SweepPlaces
    <2> QED BY <2>1, <2>2
  <1>37. ASSUME NEW p \in Movers, Dies(p) PROVE ListedBy(q)'
    <2>1. CASE q /= p
      <3>1. place'[q] = place[q] /\ scan'[q] = scan[q]  BY <1>37, <2>1 DEF Dies, UnreadLedger, NoScan, tempDisk, ledgerVars, PlaceInv
      <3> QED BY <3>1, <1>was DEF ListedBy
    <2>2. CASE q = p
      BY <1>37, <2>2, <1>was DEF Dies, UnreadLedger, NoScan, tempDisk, ledgerVars, PlaceInv, ListedBy, SweepPlaces
    <2> QED BY <2>1, <2>2
  <1>38. ASSUME NEW e \in TempDirs, Ages(e) PROVE ListedBy(q)'
    BY <1>38, <1>was DEF Ages, ListedBy
  <1>39. CASE UNCHANGED keptTempVars
    BY <1>39, <1>was DEF ListedBy, keptTempVars
  <1> QED
    BY <1>1, <1>2, <1>3, <1>4, <1>5, <1>6, <1>7, <1>8, <1>9, <1>10, <1>11, <1>12,
       <1>13, <1>14, <1>15, <1>16, <1>17, <1>18, <1>19, <1>20, <1>21, <1>22, <1>23, <1>24,
       <1>25, <1>26, <1>27, <1>28, <1>29, <1>30, <1>31, <1>32, <1>33, <1>34, <1>35, <1>36,
       <1>37, <1>38, <1>39
    DEF KeptTempNext, SweepNext, RunNext, LedgerNext

\* No copy of the ledger has a line for d.
Unnoted(d) == ledger[d] = "nobody" /\ \A p \in Movers : loaded[p][d] = "nobody"

LEMMA NotedStep == KeptTempTypeOK /\ PlaceInv /\ NotedInv /\ [KeptTempNext]_keptTempVars => NotedInv'
  <1> SUFFICES ASSUME KeptTempTypeOK /\ PlaceInv /\ NotedInv, [KeptTempNext]_keptTempVars,
                      NEW r \in Keepers, NEW d \in OwnOf(r), ~Over(r, d)'
               PROVE  Unnoted(d)'
    BY DEF NotedInv, Unnoted
  <1> USE KeptTempAssumption, DirFacts DEF KeptTempTypeOK
  <1>was. Unnoted(d) /\ d \in TempDirs /\ r \in Movers /\ ~Over(r, d)
    <2>1. ~Over(r, d)  BY PhaseStep DEF PhasesKept
    <2> QED BY <2>1, MadeByItself DEF NotedInv, Unnoted, Movers
  <1>1. ASSUME NEW p \in Movers, Classify(p) PROVE Unnoted(d)'
    BY <1>1, <1>was DEF Unnoted, UnreadLedger, Classify, MovesOn, tempDisk, ledgerVars
  <1>2. ASSUME NEW p \in Movers, SweepSpares(p) PROVE Unnoted(d)'
    BY <1>2, <1>was DEF Unnoted, UnreadLedger, SweepSpares, MovesOn, tempDisk, ledgerVars
  <1>3. ASSUME NEW p \in Movers, SweepLocks(p) PROVE Unnoted(d)'
    BY <1>3, <1>was DEF Unnoted, UnreadLedger, SweepLocks, MovesOn, LockDir, IsHeld, tempDisk, ledgerVars
  <1>4. ASSUME NEW p \in Movers, SweepUnlocks(p) PROVE Unnoted(d)'
    BY <1>4, <1>was DEF Unnoted, UnreadLedger, SweepUnlocks, MovesOn, UnlockDir, tempDisk, ledgerVars
  <1>5. ASSUME NEW p \in Movers, SweepEmpties(p) PROVE Unnoted(d)'
    BY <1>5, <1>was DEF Unnoted, UnreadLedger, SweepEmpties, MovesOn, EmptyDir, tempDisk, ledgerVars
  <1>6. ASSUME NEW p \in Movers, SweepUnlinks(p) PROVE Unnoted(d)'
    BY <1>6, <1>was DEF Unnoted, UnreadLedger, SweepUnlinks, MovesOn, Unlinkable, UnlinkDir, tempDisk, ledgerVars
  <1>7. ASSUME NEW p \in Movers, RunSweeps(p) PROVE Unnoted(d)'
    BY <1>7, <1>was DEF Unnoted, UnreadLedger, RunSweeps, MovesOn, SweepLists, tempDisk, ledgerVars
  <1>8. ASSUME NEW p \in Movers, ScratchSwept(p) PROVE Unnoted(d)'
    BY <1>8, <1>was DEF Unnoted, UnreadLedger, ScratchSwept, MovesOn, SweptAll, NoScan, tempDisk, ledgerVars
  <1>9. ASSUME NEW p \in Movers, MakesScratch(p) PROVE Unnoted(d)'
    BY <1>9, <1>was DEF Unnoted, UnreadLedger, MakesScratch, MovesOn, Makes, NoScan, tempDisk, ledgerVars
  <1>10. ASSUME NEW p \in Movers, NativeSweeps(p) PROVE Unnoted(d)'
    BY <1>10, <1>was DEF Unnoted, UnreadLedger, NativeSweeps, MovesOn, SweepLists, tempDisk, ledgerVars
  <1>11. ASSUME NEW p \in Movers, Uncached(p) PROVE Unnoted(d)'
    BY <1>11, <1>was DEF Unnoted, UnreadLedger, Uncached, MovesOn, tempDisk, ledgerVars
  <1>12. ASSUME NEW p \in Movers, MakesShared(p) PROVE Unnoted(d)'
    BY <1>12, <1>was DEF Unnoted, UnreadLedger, MakesShared, MovesOn, SweptAll, Makes, NoScan, tempDisk, ledgerVars
  <1>13. ASSUME NEW p \in Movers, SharedTaken(p) PROVE Unnoted(d)'
    BY <1>13, <1>was DEF Unnoted, UnreadLedger, SharedTaken, MovesOn, IsHeld, Makes, NoScan, tempDisk, ledgerVars
  <1>14. ASSUME NEW p \in Movers, Claims(p) PROVE Unnoted(d)'
    BY <1>14, <1>was DEF Unnoted, UnreadLedger, Claims, MovesOn, LockDir, IsHeld, tempDisk, ledgerVars
  <1>15. ASSUME NEW p \in Movers, Marks(p) PROVE Unnoted(d)'
    BY <1>15, <1>was DEF Unnoted, UnreadLedger, Marks, MovesOn, MarkDir, MarkerOf, tempDisk, ledgerVars
  <1>16. ASSUME NEW p \in Movers, ClaimFails(p) PROVE Unnoted(d)'
    BY <1>16, <1>was DEF Unnoted, UnreadLedger, ClaimFails, MovesOn, UnlockDir, tempDisk, ledgerVars
  <1>17. ASSUME NEW p \in Movers, Works(p) PROVE Unnoted(d)'
    BY <1>17, <1>was DEF Unnoted, UnreadLedger, Works, MovesOn, OwnDirs, tempDisk, ledgerVars
  <1>18. ASSUME NEW p \in Movers, NoNative(p) PROVE Unnoted(d)'
    BY <1>18, <1>was DEF Unnoted, UnreadLedger, NoNative, MovesOn, LetGo, tempDisk, ledgerVars
  <1>19. ASSUME NEW p \in Movers, KeepMarks(p) PROVE Unnoted(d)'
    BY <1>19, <1>was DEF Unnoted, UnreadLedger, KeepMarks, MovesOn, MarkDir, MarkerOf, Leaving, tempDisk, ledgerVars
  <1>20. ASSUME NEW p \in Movers, KeepUnlocks(p) PROVE Unnoted(d)'
    BY <1>20, <1>was DEF Unnoted, UnreadLedger, KeepUnlocks, MovesOn, UnlockDir, Leaving, tempDisk, ledgerVars
  <1>21. ASSUME NEW p \in Movers, KeepFails(p) PROVE Unnoted(d)'
    BY <1>21, <1>was DEF Unnoted, UnreadLedger, KeepFails, MovesOn, UnlockDir, Leaving, LetGo, tempDisk, ledgerVars
  <1>22. ASSUME NEW p \in Movers, Releases(p) PROVE Unnoted(d)'
    BY <1>22, <1>was DEF Unnoted, UnreadLedger, Releases, MovesOn, UnlockDir, Leaving, LetGo, tempDisk, ledgerVars
  <1>23. ASSUME NEW p \in Movers, DropEmpties(p) PROVE Unnoted(d)'
    BY <1>23, <1>was DEF Unnoted, UnreadLedger, DropEmpties, MovesOn, EmptyDir, tempDisk, ledgerVars
  <1>24. ASSUME NEW p \in Movers, DropUnlinks(p) PROVE Unnoted(d)'
    BY <1>24, <1>was DEF Unnoted, UnreadLedger, DropUnlinks, MovesOn, Unlinkable, UnlinkDir, LetGo, tempDisk, ledgerVars
  <1>25. ASSUME NEW p \in Movers, NoteReads(p) PROVE Unnoted(d)'
    BY <1>25, <1>was DEF Unnoted, UnreadLedger, NoteReads, MovesOn, TakeLedger, tempDisk, ledgerVars
  <1>26. ASSUME NEW p \in Movers, NoteWrites(p) PROVE Unnoted(d)'
    <2>1. p \in Keepers /\ place[p] = "noting"  BY <1>26 DEF NoteWrites, LetGo, MovesOn, PlaceInv, CollectorAt, Movers, SweepPlaces, GcPlaces
    <2>2. Leaving(p) = making[p] /\ making[p] \in {ScratchOf(p), NativeOf(p), SharedNative}
      <3>1. KeeperAt(p)  BY <2>1 DEF PlaceInv
      <3> QED BY <2>1, <3>1 DEF KeeperAt, Leaving, SweepPlaces
    <2>3. making[p] /= d
      <3> SUFFICES ASSUME making[p] = d PROVE FALSE  OBVIOUS
      <3>1. r = p  BY MadeByItself
      <3>2. Over(p, d)  BY <2>1, <3>1, MadeByItself DEF Over, Ahead, Uses, LetGoOf, SweepPlaces
      <3> QED BY <3>1, <3>2, <1>was
    <2>4. /\ ledger' = ledger \/ ledger' = [loaded[p] EXCEPT ![making[p]] = p]
          /\ loaded' = [loaded EXCEPT ![p] = UnreadLedger]
      BY <1>26, <2>2 DEF NoteWrites, SaveLedger
    <2>5. ledger'[d] = "nobody"  BY <2>3, <2>4, <1>was DEF Unnoted
    <2>6. UnreadLedger[d] = "nobody"  BY <1>was DEF UnreadLedger
    <2>7. \A q \in Movers : loaded'[q][d] = "nobody"
      <3> HIDE DEF UnreadLedger
      <3> QED BY <2>4, <2>6, <1>was DEF Unnoted
    <2> QED BY <2>5, <2>7 DEF Unnoted
  <1>27. ASSUME NEW p \in Movers, NoteGivesUp(p) PROVE Unnoted(d)'
    BY <1>27, <1>was DEF Unnoted, UnreadLedger, NoteGivesUp, MovesOn, LetGo, tempDisk, ledgerVars
  <1>28. ASSUME NEW p \in Movers, GcSweeps(p) PROVE Unnoted(d)'
    BY <1>28, <1>was DEF Unnoted, UnreadLedger, GcSweeps, MovesOn, SweptAll, SweepLists, tempDisk, ledgerVars
  <1>29. ASSUME NEW p \in Movers, GcSwept(p) PROVE Unnoted(d)'
    BY <1>29, <1>was DEF Unnoted, UnreadLedger, GcSwept, MovesOn, SweptAll, NoScan, tempDisk, ledgerVars
  <1>30. ASSUME NEW p \in Movers, GcReads(p) PROVE Unnoted(d)'
    BY <1>30, <1>was DEF Unnoted, UnreadLedger, GcReads, MovesOn, TakeLedger, tempDisk, ledgerVars
  <1>31. ASSUME NEW p \in Movers, GcGivesUp(p) PROVE Unnoted(d)'
    BY <1>31, <1>was DEF Unnoted, UnreadLedger, GcGivesUp, MovesOn, tempDisk, ledgerVars
  <1>32. ASSUME NEW p \in Movers, GcPasses(p) PROVE Unnoted(d)'
    BY <1>32, <1>was DEF Unnoted, UnreadLedger, GcPasses, MovesOn, tempDisk, ledgerVars
  <1>33. ASSUME NEW p \in Movers, GcTakes(p) PROVE Unnoted(d)'
    BY <1>33, <1>was DEF Unnoted, UnreadLedger, GcTakes, MovesOn, Vouched, MarkerOf, tempDisk, ledgerVars
  <1>34. ASSUME NEW p \in Movers, GcEmpties(p) PROVE Unnoted(d)'
    BY <1>34, <1>was DEF Unnoted, UnreadLedger, GcEmpties, MovesOn, EmptyDir, tempDisk, ledgerVars
  <1>35. ASSUME NEW p \in Movers, GcUnlinks(p) PROVE Unnoted(d)'
    BY <1>35, <1>was DEF Unnoted, UnreadLedger, GcUnlinks, MovesOn, Unlinkable, UnlinkDir, tempDisk, ledgerVars
  <1>36. ASSUME NEW p \in Movers, GcWrites(p) PROVE Unnoted(d)'
    BY <1>36, <1>was DEF Unnoted, UnreadLedger, GcWrites, MovesOn, SaveLedger, NoScan, UnreadLedger, tempDisk, ledgerVars
  <1>37. ASSUME NEW p \in Movers, Dies(p) PROVE Unnoted(d)'
    BY <1>37, <1>was DEF Unnoted, UnreadLedger, Dies, UnreadLedger, NoScan, tempDisk, ledgerVars
  <1>38. ASSUME NEW e \in TempDirs, Ages(e) PROVE Unnoted(d)'
    BY <1>38, <1>was DEF Unnoted, UnreadLedger, Ages, tempDisk, ledgerVars
  <1>39. CASE UNCHANGED keptTempVars
    BY <1>39, <1>was DEF Unnoted, keptTempVars, ledgerVars
  <1> QED
    BY <1>1, <1>2, <1>3, <1>4, <1>5, <1>6, <1>7, <1>8, <1>9, <1>10, <1>11, <1>12,
       <1>13, <1>14, <1>15, <1>16, <1>17, <1>18, <1>19, <1>20, <1>21, <1>22, <1>23, <1>24,
       <1>25, <1>26, <1>27, <1>28, <1>29, <1>30, <1>31, <1>32, <1>33, <1>34, <1>35, <1>36,
       <1>37, <1>38, <1>39
    DEF KeptTempNext, SweepNext, RunNext, LedgerNext

\* What p has of the ledger, and who holds its lock.
HeldRight(p) ==
  /\ ledgerLock = p <=> place[p] \in {"noting"} \cup GcPlaces
  /\ place[p] = "noting" => loaded[p] = ledger
  /\ place[p] \in GcPlaces => \A d \in TempDirs : loaded[p][d] \in {ledger[d], "nobody"}

LEMMA HeldStep == KeptTempTypeOK /\ PlaceInv /\ ScanInv /\ LedgerInv /\ [KeptTempNext]_keptTempVars => \A q \in Movers : HeldRight(q)'
  <1> SUFFICES ASSUME KeptTempTypeOK /\ PlaceInv /\ ScanInv /\ LedgerInv, [KeptTempNext]_keptTempVars, NEW q \in Movers
               PROVE  HeldRight(q)'
    OBVIOUS
  <1> USE KeptTempAssumption, DirFacts DEF KeptTempTypeOK, GcPlaces
  <1>was. HeldRight(q) /\ LedgerIsKept  BY DEF LedgerInv, HeldRight
  <1>p. \A p \in Movers : HeldRight(p)  BY DEF LedgerInv, HeldRight
  <1>names. q \notin {"free", "nobody"}  BY DEF Movers
  <1>1. ASSUME NEW p \in Movers, Classify(p) PROVE HeldRight(q)'
    <2>1. UNCHANGED <<ledger, ledgerLock, recorded, loaded>>  BY <1>1 DEF Classify, MovesOn, tempDisk, ledgerVars
    <2>2. place'[q] \in {"noting"} \cup GcPlaces <=> place[q] \in {"noting"} \cup GcPlaces
      BY <1>1 DEF Classify, MovesOn, tempDisk, ledgerVars, PlaceInv
    <2>3. place'[q] = "noting" => place[q] = "noting"  BY <1>1 DEF Classify, MovesOn, tempDisk, ledgerVars, PlaceInv
    <2> QED BY <2>1, <2>2, <2>3, <1>was DEF HeldRight
  <1>2. ASSUME NEW p \in Movers, SweepSpares(p) PROVE HeldRight(q)'
    <2>1. UNCHANGED <<ledger, ledgerLock, recorded, loaded>>  BY <1>2 DEF SweepSpares, MovesOn, tempDisk, ledgerVars
    <2>2. place'[q] \in {"noting"} \cup GcPlaces <=> place[q] \in {"noting"} \cup GcPlaces
      BY <1>2 DEF SweepSpares, MovesOn, tempDisk, ledgerVars, PlaceInv
    <2>3. place'[q] = "noting" => place[q] = "noting"  BY <1>2 DEF SweepSpares, MovesOn, tempDisk, ledgerVars, PlaceInv
    <2> QED BY <2>1, <2>2, <2>3, <1>was DEF HeldRight
  <1>3. ASSUME NEW p \in Movers, SweepLocks(p) PROVE HeldRight(q)'
    <2>1. UNCHANGED <<ledger, ledgerLock, recorded, loaded>>  BY <1>3 DEF SweepLocks, MovesOn, LockDir, IsHeld, tempDisk, ledgerVars
    <2>2. place'[q] \in {"noting"} \cup GcPlaces <=> place[q] \in {"noting"} \cup GcPlaces
      BY <1>3 DEF SweepLocks, MovesOn, LockDir, IsHeld, tempDisk, ledgerVars, PlaceInv
    <2>3. place'[q] = "noting" => place[q] = "noting"  BY <1>3 DEF SweepLocks, MovesOn, LockDir, IsHeld, tempDisk, ledgerVars, PlaceInv
    <2> QED BY <2>1, <2>2, <2>3, <1>was DEF HeldRight
  <1>4. ASSUME NEW p \in Movers, SweepUnlocks(p) PROVE HeldRight(q)'
    <2>1. UNCHANGED <<ledger, ledgerLock, recorded, loaded>>  BY <1>4 DEF SweepUnlocks, MovesOn, UnlockDir, tempDisk, ledgerVars
    <2>2. place'[q] \in {"noting"} \cup GcPlaces <=> place[q] \in {"noting"} \cup GcPlaces
      BY <1>4 DEF SweepUnlocks, MovesOn, UnlockDir, tempDisk, ledgerVars, PlaceInv
    <2>3. place'[q] = "noting" => place[q] = "noting"  BY <1>4 DEF SweepUnlocks, MovesOn, UnlockDir, tempDisk, ledgerVars, PlaceInv
    <2> QED BY <2>1, <2>2, <2>3, <1>was DEF HeldRight
  <1>5. ASSUME NEW p \in Movers, SweepEmpties(p) PROVE HeldRight(q)'
    <2>1. UNCHANGED <<ledger, ledgerLock, recorded, loaded>>  BY <1>5 DEF SweepEmpties, MovesOn, EmptyDir, tempDisk, ledgerVars
    <2>2. place'[q] \in {"noting"} \cup GcPlaces <=> place[q] \in {"noting"} \cup GcPlaces
      BY <1>5 DEF SweepEmpties, MovesOn, EmptyDir, tempDisk, ledgerVars, PlaceInv
    <2>3. place'[q] = "noting" => place[q] = "noting"  BY <1>5 DEF SweepEmpties, MovesOn, EmptyDir, tempDisk, ledgerVars, PlaceInv
    <2> QED BY <2>1, <2>2, <2>3, <1>was DEF HeldRight
  <1>6. ASSUME NEW p \in Movers, SweepUnlinks(p) PROVE HeldRight(q)'
    <2>1. UNCHANGED <<ledger, ledgerLock, recorded, loaded>>  BY <1>6 DEF SweepUnlinks, MovesOn, Unlinkable, UnlinkDir, tempDisk, ledgerVars
    <2>2. place'[q] \in {"noting"} \cup GcPlaces <=> place[q] \in {"noting"} \cup GcPlaces
      BY <1>6 DEF SweepUnlinks, MovesOn, Unlinkable, UnlinkDir, tempDisk, ledgerVars, PlaceInv
    <2>3. place'[q] = "noting" => place[q] = "noting"  BY <1>6 DEF SweepUnlinks, MovesOn, Unlinkable, UnlinkDir, tempDisk, ledgerVars, PlaceInv
    <2> QED BY <2>1, <2>2, <2>3, <1>was DEF HeldRight
  <1>7. ASSUME NEW p \in Movers, RunSweeps(p) PROVE HeldRight(q)'
    <2>1. UNCHANGED <<ledger, ledgerLock, recorded, loaded>>  BY <1>7 DEF RunSweeps, MovesOn, SweepLists, tempDisk, ledgerVars
    <2>2. place'[q] \in {"noting"} \cup GcPlaces <=> place[q] \in {"noting"} \cup GcPlaces
      BY <1>7 DEF RunSweeps, MovesOn, SweepLists, tempDisk, ledgerVars, PlaceInv
    <2>3. place'[q] = "noting" => place[q] = "noting"  BY <1>7 DEF RunSweeps, MovesOn, SweepLists, tempDisk, ledgerVars, PlaceInv
    <2> QED BY <2>1, <2>2, <2>3, <1>was DEF HeldRight
  <1>8. ASSUME NEW p \in Movers, ScratchSwept(p) PROVE HeldRight(q)'
    <2>1. UNCHANGED <<ledger, ledgerLock, recorded, loaded>>  BY <1>8 DEF ScratchSwept, MovesOn, SweptAll, NoScan, tempDisk, ledgerVars
    <2>2. place'[q] \in {"noting"} \cup GcPlaces <=> place[q] \in {"noting"} \cup GcPlaces
      BY <1>8 DEF ScratchSwept, MovesOn, SweptAll, NoScan, tempDisk, ledgerVars, PlaceInv
    <2>3. place'[q] = "noting" => place[q] = "noting"  BY <1>8 DEF ScratchSwept, MovesOn, SweptAll, NoScan, tempDisk, ledgerVars, PlaceInv
    <2> QED BY <2>1, <2>2, <2>3, <1>was DEF HeldRight
  <1>9. ASSUME NEW p \in Movers, MakesScratch(p) PROVE HeldRight(q)'
    <2>1. UNCHANGED <<ledger, ledgerLock, recorded, loaded>>  BY <1>9 DEF MakesScratch, MovesOn, Makes, NoScan, tempDisk, ledgerVars
    <2>2. place'[q] \in {"noting"} \cup GcPlaces <=> place[q] \in {"noting"} \cup GcPlaces
      BY <1>9 DEF MakesScratch, MovesOn, Makes, NoScan, tempDisk, ledgerVars, PlaceInv
    <2>3. place'[q] = "noting" => place[q] = "noting"  BY <1>9 DEF MakesScratch, MovesOn, Makes, NoScan, tempDisk, ledgerVars, PlaceInv
    <2> QED BY <2>1, <2>2, <2>3, <1>was DEF HeldRight
  <1>10. ASSUME NEW p \in Movers, NativeSweeps(p) PROVE HeldRight(q)'
    <2>1. UNCHANGED <<ledger, ledgerLock, recorded, loaded>>  BY <1>10 DEF NativeSweeps, MovesOn, SweepLists, tempDisk, ledgerVars
    <2>2. place'[q] \in {"noting"} \cup GcPlaces <=> place[q] \in {"noting"} \cup GcPlaces
      BY <1>10 DEF NativeSweeps, MovesOn, SweepLists, tempDisk, ledgerVars, PlaceInv
    <2>3. place'[q] = "noting" => place[q] = "noting"  BY <1>10 DEF NativeSweeps, MovesOn, SweepLists, tempDisk, ledgerVars, PlaceInv
    <2> QED BY <2>1, <2>2, <2>3, <1>was DEF HeldRight
  <1>11. ASSUME NEW p \in Movers, Uncached(p) PROVE HeldRight(q)'
    <2>1. UNCHANGED <<ledger, ledgerLock, recorded, loaded>>  BY <1>11 DEF Uncached, MovesOn, tempDisk, ledgerVars
    <2>2. place'[q] \in {"noting"} \cup GcPlaces <=> place[q] \in {"noting"} \cup GcPlaces
      BY <1>11 DEF Uncached, MovesOn, tempDisk, ledgerVars, PlaceInv
    <2>3. place'[q] = "noting" => place[q] = "noting"  BY <1>11 DEF Uncached, MovesOn, tempDisk, ledgerVars, PlaceInv
    <2> QED BY <2>1, <2>2, <2>3, <1>was DEF HeldRight
  <1>12. ASSUME NEW p \in Movers, MakesShared(p) PROVE HeldRight(q)'
    <2>1. UNCHANGED <<ledger, ledgerLock, recorded, loaded>>  BY <1>12 DEF MakesShared, MovesOn, SweptAll, Makes, NoScan, tempDisk, ledgerVars
    <2>2. place'[q] \in {"noting"} \cup GcPlaces <=> place[q] \in {"noting"} \cup GcPlaces
      BY <1>12 DEF MakesShared, MovesOn, SweptAll, Makes, NoScan, tempDisk, ledgerVars, PlaceInv
    <2>3. place'[q] = "noting" => place[q] = "noting"  BY <1>12 DEF MakesShared, MovesOn, SweptAll, Makes, NoScan, tempDisk, ledgerVars, PlaceInv
    <2> QED BY <2>1, <2>2, <2>3, <1>was DEF HeldRight
  <1>13. ASSUME NEW p \in Movers, SharedTaken(p) PROVE HeldRight(q)'
    <2>1. UNCHANGED <<ledger, ledgerLock, recorded, loaded>>  BY <1>13 DEF SharedTaken, MovesOn, IsHeld, Makes, NoScan, tempDisk, ledgerVars
    <2>2. place'[q] \in {"noting"} \cup GcPlaces <=> place[q] \in {"noting"} \cup GcPlaces
      BY <1>13 DEF SharedTaken, MovesOn, IsHeld, Makes, NoScan, tempDisk, ledgerVars, PlaceInv
    <2>3. place'[q] = "noting" => place[q] = "noting"  BY <1>13 DEF SharedTaken, MovesOn, IsHeld, Makes, NoScan, tempDisk, ledgerVars, PlaceInv
    <2> QED BY <2>1, <2>2, <2>3, <1>was DEF HeldRight
  <1>14. ASSUME NEW p \in Movers, Claims(p) PROVE HeldRight(q)'
    <2>1. UNCHANGED <<ledger, ledgerLock, recorded, loaded>>  BY <1>14 DEF Claims, MovesOn, LockDir, IsHeld, tempDisk, ledgerVars
    <2>2. place'[q] \in {"noting"} \cup GcPlaces <=> place[q] \in {"noting"} \cup GcPlaces
      BY <1>14 DEF Claims, MovesOn, LockDir, IsHeld, tempDisk, ledgerVars, PlaceInv
    <2>3. place'[q] = "noting" => place[q] = "noting"  BY <1>14 DEF Claims, MovesOn, LockDir, IsHeld, tempDisk, ledgerVars, PlaceInv
    <2> QED BY <2>1, <2>2, <2>3, <1>was DEF HeldRight
  <1>15. ASSUME NEW p \in Movers, Marks(p) PROVE HeldRight(q)'
    <2>1. UNCHANGED <<ledger, ledgerLock, recorded, loaded>>  BY <1>15 DEF Marks, MovesOn, MarkDir, MarkerOf, tempDisk, ledgerVars
    <2>2. place'[q] \in {"noting"} \cup GcPlaces <=> place[q] \in {"noting"} \cup GcPlaces
      BY <1>15 DEF Marks, MovesOn, MarkDir, MarkerOf, tempDisk, ledgerVars, PlaceInv
    <2>3. place'[q] = "noting" => place[q] = "noting"  BY <1>15 DEF Marks, MovesOn, MarkDir, MarkerOf, tempDisk, ledgerVars, PlaceInv
    <2> QED BY <2>1, <2>2, <2>3, <1>was DEF HeldRight
  <1>16. ASSUME NEW p \in Movers, ClaimFails(p) PROVE HeldRight(q)'
    <2>1. UNCHANGED <<ledger, ledgerLock, recorded, loaded>>  BY <1>16 DEF ClaimFails, MovesOn, UnlockDir, tempDisk, ledgerVars
    <2>2. place'[q] \in {"noting"} \cup GcPlaces <=> place[q] \in {"noting"} \cup GcPlaces
      BY <1>16 DEF ClaimFails, MovesOn, UnlockDir, tempDisk, ledgerVars, PlaceInv
    <2>3. place'[q] = "noting" => place[q] = "noting"  BY <1>16 DEF ClaimFails, MovesOn, UnlockDir, tempDisk, ledgerVars, PlaceInv
    <2> QED BY <2>1, <2>2, <2>3, <1>was DEF HeldRight
  <1>17. ASSUME NEW p \in Movers, Works(p) PROVE HeldRight(q)'
    <2>1. UNCHANGED <<ledger, ledgerLock, recorded, loaded>>  BY <1>17 DEF Works, MovesOn, OwnDirs, tempDisk, ledgerVars
    <2>2. place'[q] \in {"noting"} \cup GcPlaces <=> place[q] \in {"noting"} \cup GcPlaces
      BY <1>17 DEF Works, MovesOn, OwnDirs, tempDisk, ledgerVars, PlaceInv
    <2>3. place'[q] = "noting" => place[q] = "noting"  BY <1>17 DEF Works, MovesOn, OwnDirs, tempDisk, ledgerVars, PlaceInv
    <2> QED BY <2>1, <2>2, <2>3, <1>was DEF HeldRight
  <1>18. ASSUME NEW p \in Movers, NoNative(p) PROVE HeldRight(q)'
    <2>1. UNCHANGED <<ledger, ledgerLock, recorded, loaded>>  BY <1>18 DEF NoNative, MovesOn, LetGo, tempDisk, ledgerVars
    <2>2. place'[q] \in {"noting"} \cup GcPlaces <=> place[q] \in {"noting"} \cup GcPlaces
      BY <1>18 DEF NoNative, MovesOn, LetGo, tempDisk, ledgerVars, PlaceInv
    <2>3. place'[q] = "noting" => place[q] = "noting"  BY <1>18 DEF NoNative, MovesOn, LetGo, tempDisk, ledgerVars, PlaceInv
    <2> QED BY <2>1, <2>2, <2>3, <1>was DEF HeldRight
  <1>19. ASSUME NEW p \in Movers, KeepMarks(p) PROVE HeldRight(q)'
    <2>1. UNCHANGED <<ledger, ledgerLock, recorded, loaded>>  BY <1>19 DEF KeepMarks, MovesOn, MarkDir, MarkerOf, Leaving, tempDisk, ledgerVars
    <2>2. place'[q] \in {"noting"} \cup GcPlaces <=> place[q] \in {"noting"} \cup GcPlaces
      BY <1>19 DEF KeepMarks, MovesOn, MarkDir, MarkerOf, Leaving, tempDisk, ledgerVars, PlaceInv
    <2>3. place'[q] = "noting" => place[q] = "noting"  BY <1>19 DEF KeepMarks, MovesOn, MarkDir, MarkerOf, Leaving, tempDisk, ledgerVars, PlaceInv
    <2> QED BY <2>1, <2>2, <2>3, <1>was DEF HeldRight
  <1>20. ASSUME NEW p \in Movers, KeepUnlocks(p) PROVE HeldRight(q)'
    <2>1. UNCHANGED <<ledger, ledgerLock, recorded, loaded>>  BY <1>20 DEF KeepUnlocks, MovesOn, UnlockDir, Leaving, tempDisk, ledgerVars
    <2>2. place'[q] \in {"noting"} \cup GcPlaces <=> place[q] \in {"noting"} \cup GcPlaces
      BY <1>20 DEF KeepUnlocks, MovesOn, UnlockDir, Leaving, tempDisk, ledgerVars, PlaceInv
    <2>3. place'[q] = "noting" => place[q] = "noting"  BY <1>20 DEF KeepUnlocks, MovesOn, UnlockDir, Leaving, tempDisk, ledgerVars, PlaceInv
    <2> QED BY <2>1, <2>2, <2>3, <1>was DEF HeldRight
  <1>21. ASSUME NEW p \in Movers, KeepFails(p) PROVE HeldRight(q)'
    <2>1. UNCHANGED <<ledger, ledgerLock, recorded, loaded>>  BY <1>21 DEF KeepFails, MovesOn, UnlockDir, Leaving, LetGo, tempDisk, ledgerVars
    <2>2. place'[q] \in {"noting"} \cup GcPlaces <=> place[q] \in {"noting"} \cup GcPlaces
      BY <1>21 DEF KeepFails, MovesOn, UnlockDir, Leaving, LetGo, tempDisk, ledgerVars, PlaceInv
    <2>3. place'[q] = "noting" => place[q] = "noting"  BY <1>21 DEF KeepFails, MovesOn, UnlockDir, Leaving, LetGo, tempDisk, ledgerVars, PlaceInv
    <2> QED BY <2>1, <2>2, <2>3, <1>was DEF HeldRight
  <1>22. ASSUME NEW p \in Movers, Releases(p) PROVE HeldRight(q)'
    <2>1. UNCHANGED <<ledger, ledgerLock, recorded, loaded>>  BY <1>22 DEF Releases, MovesOn, UnlockDir, Leaving, LetGo, tempDisk, ledgerVars
    <2>2. place'[q] \in {"noting"} \cup GcPlaces <=> place[q] \in {"noting"} \cup GcPlaces
      BY <1>22 DEF Releases, MovesOn, UnlockDir, Leaving, LetGo, tempDisk, ledgerVars, PlaceInv
    <2>3. place'[q] = "noting" => place[q] = "noting"  BY <1>22 DEF Releases, MovesOn, UnlockDir, Leaving, LetGo, tempDisk, ledgerVars, PlaceInv
    <2> QED BY <2>1, <2>2, <2>3, <1>was DEF HeldRight
  <1>23. ASSUME NEW p \in Movers, DropEmpties(p) PROVE HeldRight(q)'
    <2>1. UNCHANGED <<ledger, ledgerLock, recorded, loaded>>  BY <1>23 DEF DropEmpties, MovesOn, EmptyDir, tempDisk, ledgerVars
    <2>2. place'[q] \in {"noting"} \cup GcPlaces <=> place[q] \in {"noting"} \cup GcPlaces
      BY <1>23 DEF DropEmpties, MovesOn, EmptyDir, tempDisk, ledgerVars, PlaceInv
    <2>3. place'[q] = "noting" => place[q] = "noting"  BY <1>23 DEF DropEmpties, MovesOn, EmptyDir, tempDisk, ledgerVars, PlaceInv
    <2> QED BY <2>1, <2>2, <2>3, <1>was DEF HeldRight
  <1>24. ASSUME NEW p \in Movers, DropUnlinks(p) PROVE HeldRight(q)'
    <2>1. UNCHANGED <<ledger, ledgerLock, recorded, loaded>>  BY <1>24 DEF DropUnlinks, MovesOn, Unlinkable, UnlinkDir, LetGo, tempDisk, ledgerVars
    <2>2. place'[q] \in {"noting"} \cup GcPlaces <=> place[q] \in {"noting"} \cup GcPlaces
      BY <1>24 DEF DropUnlinks, MovesOn, Unlinkable, UnlinkDir, LetGo, tempDisk, ledgerVars, PlaceInv
    <2>3. place'[q] = "noting" => place[q] = "noting"  BY <1>24 DEF DropUnlinks, MovesOn, Unlinkable, UnlinkDir, LetGo, tempDisk, ledgerVars, PlaceInv
    <2> QED BY <2>1, <2>2, <2>3, <1>was DEF HeldRight
  <1>25. ASSUME NEW p \in Movers, NoteReads(p) PROVE HeldRight(q)'
    <2>1. CASE q /= p
      <3>1. place'[q] = place[q] /\ loaded'[q] = loaded[q]  BY <1>25, <2>1 DEF NoteReads, MovesOn, TakeLedger, tempDisk, ledgerVars, PlaceInv
      <3>2. (ledgerLock' = q <=> ledgerLock = q) /\ (ledgerLock = q => ledger' = ledger)
        BY <1>25, <2>1, <1>was, <1>p DEF NoteReads, MovesOn, TakeLedger, tempDisk, ledgerVars, PlaceInv, HeldRight, Movers
      <3> QED BY <3>1, <3>2, <1>was DEF HeldRight
    <2>2. CASE q = p
      BY <1>25, <2>2, <1>was DEF NoteReads, MovesOn, TakeLedger, tempDisk, ledgerVars, PlaceInv, HeldRight, Movers
    <2> QED BY <2>1, <2>2
  <1>26. ASSUME NEW p \in Movers, NoteWrites(p) PROVE HeldRight(q)'
    <2>1. CASE q /= p
      <3>1. place'[q] = place[q] /\ loaded'[q] = loaded[q]  BY <1>26, <2>1 DEF NoteWrites, MovesOn, LetGo, SaveLedger, Leaving, UnreadLedger, tempDisk, ledgerVars, PlaceInv
      <3>2. (ledgerLock' = q <=> ledgerLock = q) /\ (ledgerLock = q => ledger' = ledger)
        BY <1>26, <2>1, <1>was, <1>p DEF NoteWrites, MovesOn, LetGo, SaveLedger, Leaving, UnreadLedger, tempDisk, ledgerVars, PlaceInv, HeldRight, Movers
      <3> QED BY <3>1, <3>2, <1>was DEF HeldRight
    <2>2. CASE q = p
      BY <1>26, <2>2, <1>was DEF NoteWrites, MovesOn, LetGo, SaveLedger, Leaving, UnreadLedger, tempDisk, ledgerVars, PlaceInv, HeldRight, Movers
    <2> QED BY <2>1, <2>2
  <1>27. ASSUME NEW p \in Movers, NoteGivesUp(p) PROVE HeldRight(q)'
    <2>1. UNCHANGED <<ledger, ledgerLock, recorded, loaded>>  BY <1>27 DEF NoteGivesUp, MovesOn, LetGo, tempDisk, ledgerVars
    <2>2. place'[q] \in {"noting"} \cup GcPlaces <=> place[q] \in {"noting"} \cup GcPlaces
      BY <1>27 DEF NoteGivesUp, MovesOn, LetGo, tempDisk, ledgerVars, PlaceInv
    <2>3. place'[q] = "noting" => place[q] = "noting"  BY <1>27 DEF NoteGivesUp, MovesOn, LetGo, tempDisk, ledgerVars, PlaceInv
    <2> QED BY <2>1, <2>2, <2>3, <1>was DEF HeldRight
  <1>28. ASSUME NEW p \in Movers, GcSweeps(p) PROVE HeldRight(q)'
    <2>1. UNCHANGED <<ledger, ledgerLock, recorded, loaded>>  BY <1>28 DEF GcSweeps, MovesOn, SweptAll, SweepLists, tempDisk, ledgerVars
    <2>2. place'[q] \in {"noting"} \cup GcPlaces <=> place[q] \in {"noting"} \cup GcPlaces
      BY <1>28 DEF GcSweeps, MovesOn, SweptAll, SweepLists, tempDisk, ledgerVars, PlaceInv
    <2>3. place'[q] = "noting" => place[q] = "noting"  BY <1>28 DEF GcSweeps, MovesOn, SweptAll, SweepLists, tempDisk, ledgerVars, PlaceInv
    <2> QED BY <2>1, <2>2, <2>3, <1>was DEF HeldRight
  <1>29. ASSUME NEW p \in Movers, GcSwept(p) PROVE HeldRight(q)'
    <2>1. UNCHANGED <<ledger, ledgerLock, recorded, loaded>>  BY <1>29 DEF GcSwept, MovesOn, SweptAll, NoScan, tempDisk, ledgerVars
    <2>2. place'[q] \in {"noting"} \cup GcPlaces <=> place[q] \in {"noting"} \cup GcPlaces
      BY <1>29 DEF GcSwept, MovesOn, SweptAll, NoScan, tempDisk, ledgerVars, PlaceInv
    <2>3. place'[q] = "noting" => place[q] = "noting"  BY <1>29 DEF GcSwept, MovesOn, SweptAll, NoScan, tempDisk, ledgerVars, PlaceInv
    <2> QED BY <2>1, <2>2, <2>3, <1>was DEF HeldRight
  <1>30. ASSUME NEW p \in Movers, GcReads(p) PROVE HeldRight(q)'
    <2>1. CASE q /= p
      <3>1. place'[q] = place[q] /\ loaded'[q] = loaded[q]  BY <1>30, <2>1 DEF GcReads, MovesOn, TakeLedger, tempDisk, ledgerVars, PlaceInv
      <3>2. (ledgerLock' = q <=> ledgerLock = q) /\ (ledgerLock = q => ledger' = ledger)
        BY <1>30, <2>1, <1>was, <1>p DEF GcReads, MovesOn, TakeLedger, tempDisk, ledgerVars, PlaceInv, HeldRight, Movers
      <3> QED BY <3>1, <3>2, <1>was DEF HeldRight
    <2>2. CASE q = p
      BY <1>30, <2>2, <1>was DEF GcReads, MovesOn, TakeLedger, tempDisk, ledgerVars, PlaceInv, HeldRight, Movers
    <2> QED BY <2>1, <2>2
  <1>31. ASSUME NEW p \in Movers, GcGivesUp(p) PROVE HeldRight(q)'
    <2>1. UNCHANGED <<ledger, ledgerLock, recorded, loaded>>  BY <1>31 DEF GcGivesUp, MovesOn, tempDisk, ledgerVars
    <2>2. place'[q] \in {"noting"} \cup GcPlaces <=> place[q] \in {"noting"} \cup GcPlaces
      BY <1>31 DEF GcGivesUp, MovesOn, tempDisk, ledgerVars, PlaceInv
    <2>3. place'[q] = "noting" => place[q] = "noting"  BY <1>31 DEF GcGivesUp, MovesOn, tempDisk, ledgerVars, PlaceInv
    <2> QED BY <2>1, <2>2, <2>3, <1>was DEF HeldRight
  <1>32. ASSUME NEW p \in Movers, GcPasses(p) PROVE HeldRight(q)'
    <2>1. CASE q /= p
      <3>1. place'[q] = place[q] /\ loaded'[q] = loaded[q]  BY <1>32, <2>1 DEF GcPasses, MovesOn, tempDisk, ledgerVars, PlaceInv
      <3>2. (ledgerLock' = q <=> ledgerLock = q) /\ (ledgerLock = q => ledger' = ledger)
        BY <1>32, <2>1, <1>was, <1>p DEF GcPasses, MovesOn, tempDisk, ledgerVars, PlaceInv, HeldRight, Movers
      <3> QED BY <3>1, <3>2, <1>was DEF HeldRight
    <2>2. CASE q = p
      BY <1>32, <2>2, <1>was DEF GcPasses, MovesOn, tempDisk, ledgerVars, PlaceInv, HeldRight, Movers
    <2> QED BY <2>1, <2>2
  <1>33. ASSUME NEW p \in Movers, GcTakes(p) PROVE HeldRight(q)'
    <2>1. UNCHANGED <<ledger, ledgerLock, recorded, loaded>>  BY <1>33 DEF GcTakes, MovesOn, Vouched, MarkerOf, tempDisk, ledgerVars
    <2>2. place'[q] \in {"noting"} \cup GcPlaces <=> place[q] \in {"noting"} \cup GcPlaces
      BY <1>33 DEF GcTakes, MovesOn, Vouched, MarkerOf, tempDisk, ledgerVars, PlaceInv
    <2>3. place'[q] = "noting" => place[q] = "noting"  BY <1>33 DEF GcTakes, MovesOn, Vouched, MarkerOf, tempDisk, ledgerVars, PlaceInv
    <2> QED BY <2>1, <2>2, <2>3, <1>was DEF HeldRight
  <1>34. ASSUME NEW p \in Movers, GcEmpties(p) PROVE HeldRight(q)'
    <2>1. UNCHANGED <<ledger, ledgerLock, recorded, loaded>>  BY <1>34 DEF GcEmpties, MovesOn, EmptyDir, tempDisk, ledgerVars
    <2>2. place'[q] \in {"noting"} \cup GcPlaces <=> place[q] \in {"noting"} \cup GcPlaces
      BY <1>34 DEF GcEmpties, MovesOn, EmptyDir, tempDisk, ledgerVars, PlaceInv
    <2>3. place'[q] = "noting" => place[q] = "noting"  BY <1>34 DEF GcEmpties, MovesOn, EmptyDir, tempDisk, ledgerVars, PlaceInv
    <2> QED BY <2>1, <2>2, <2>3, <1>was DEF HeldRight
  <1>35. ASSUME NEW p \in Movers, GcUnlinks(p) PROVE HeldRight(q)'
    <2>1. CASE q /= p
      <3>1. place'[q] = place[q] /\ loaded'[q] = loaded[q]  BY <1>35, <2>1 DEF GcUnlinks, MovesOn, Unlinkable, UnlinkDir, tempDisk, ledgerVars, PlaceInv
      <3>2. (ledgerLock' = q <=> ledgerLock = q) /\ (ledgerLock = q => ledger' = ledger)
        BY <1>35, <2>1, <1>was, <1>p DEF GcUnlinks, MovesOn, Unlinkable, UnlinkDir, tempDisk, ledgerVars, PlaceInv, HeldRight, Movers
      <3> QED BY <3>1, <3>2, <1>was DEF HeldRight
    <2>2. CASE q = p
      BY <1>35, <2>2, <1>was DEF GcUnlinks, MovesOn, Unlinkable, UnlinkDir, tempDisk, ledgerVars, PlaceInv, HeldRight, Movers
    <2> QED BY <2>1, <2>2
  <1>36. ASSUME NEW p \in Movers, GcWrites(p) PROVE HeldRight(q)'
    <2>1. CASE q /= p
      <3>1. place'[q] = place[q] /\ loaded'[q] = loaded[q]  BY <1>36, <2>1 DEF GcWrites, MovesOn, SaveLedger, NoScan, UnreadLedger, tempDisk, ledgerVars, PlaceInv
      <3>2. (ledgerLock' = q <=> ledgerLock = q) /\ (ledgerLock = q => ledger' = ledger)
        BY <1>36, <2>1, <1>was, <1>p DEF GcWrites, MovesOn, SaveLedger, NoScan, UnreadLedger, tempDisk, ledgerVars, PlaceInv, HeldRight, Movers
      <3> QED BY <3>1, <3>2, <1>was DEF HeldRight
    <2>2. CASE q = p
      BY <1>36, <2>2, <1>was DEF GcWrites, MovesOn, SaveLedger, NoScan, UnreadLedger, tempDisk, ledgerVars, PlaceInv, HeldRight, Movers
    <2> QED BY <2>1, <2>2
  <1>37. ASSUME NEW p \in Movers, Dies(p) PROVE HeldRight(q)'
    <2>1. CASE q /= p
      <3>1. place'[q] = place[q] /\ loaded'[q] = loaded[q]  BY <1>37, <2>1 DEF Dies, UnreadLedger, NoScan, tempDisk, ledgerVars, PlaceInv
      <3>2. (ledgerLock' = q <=> ledgerLock = q) /\ (ledgerLock = q => ledger' = ledger)
        BY <1>37, <2>1, <1>was, <1>p DEF Dies, UnreadLedger, NoScan, tempDisk, ledgerVars, PlaceInv, HeldRight, Movers
      <3> QED BY <3>1, <3>2, <1>was DEF HeldRight
    <2>2. CASE q = p
      BY <1>37, <2>2, <1>was DEF Dies, UnreadLedger, NoScan, tempDisk, ledgerVars, PlaceInv, HeldRight, Movers
    <2> QED BY <2>1, <2>2
  <1>38. ASSUME NEW e \in TempDirs, Ages(e) PROVE HeldRight(q)'
    BY <1>38, <1>was DEF Ages, ledgerVars, HeldRight
  <1>39. CASE UNCHANGED keptTempVars
    BY <1>39, <1>was DEF HeldRight, keptTempVars, ledgerVars
  <1> QED
    BY <1>1, <1>2, <1>3, <1>4, <1>5, <1>6, <1>7, <1>8, <1>9, <1>10, <1>11, <1>12,
       <1>13, <1>14, <1>15, <1>16, <1>17, <1>18, <1>19, <1>20, <1>21, <1>22, <1>23, <1>24,
       <1>25, <1>26, <1>27, <1>28, <1>29, <1>30, <1>31, <1>32, <1>33, <1>34, <1>35, <1>36,
       <1>37, <1>38, <1>39
    DEF KeptTempNext, SweepNext, RunNext, LedgerNext

LEMMA ReadStep == KeptTempTypeOK /\ PlaceInv /\ LedgerInv /\ ReadInv /\ [KeptTempNext]_keptTempVars => ReadInv'
  <1> SUFFICES ASSUME KeptTempTypeOK /\ PlaceInv /\ LedgerInv /\ ReadInv, [KeptTempNext]_keptTempVars,
                      NEW q \in Movers, place'[q] \in GcPlaces
               PROVE  \A d \in TempDirs : ledger'[d] /= "nobody" => d \in scan'[q].kept
    BY DEF ReadInv
  <1> USE KeptTempAssumption, DirFacts DEF KeptTempTypeOK, GcPlaces
  <1>was. place[q] \in GcPlaces => \A d \in TempDirs : ledger[d] /= "nobody" => d \in scan[q].kept
    BY DEF ReadInv
  <1>to. place'[q] \in GcPlaces  OBVIOUS
  <1>1. ASSUME NEW p \in Movers, Classify(p) PROVE \A d \in TempDirs : ledger'[d] /= "nobody" => d \in scan'[q].kept
    <2>1. place[q] \in GcPlaces /\ scan'[q].kept = scan[q].kept /\ ledger' = ledger
      BY <1>1, <1>to DEF Classify, MovesOn, tempDisk, ledgerVars, PlaceInv
    <2> QED BY <2>1, <1>was
  <1>2. ASSUME NEW p \in Movers, SweepSpares(p) PROVE \A d \in TempDirs : ledger'[d] /= "nobody" => d \in scan'[q].kept
    <2>1. place[q] \in GcPlaces /\ scan'[q].kept = scan[q].kept /\ ledger' = ledger
      BY <1>2, <1>to DEF SweepSpares, MovesOn, tempDisk, ledgerVars, PlaceInv
    <2> QED BY <2>1, <1>was
  <1>3. ASSUME NEW p \in Movers, SweepLocks(p) PROVE \A d \in TempDirs : ledger'[d] /= "nobody" => d \in scan'[q].kept
    <2>1. place[q] \in GcPlaces /\ scan'[q].kept = scan[q].kept /\ ledger' = ledger
      BY <1>3, <1>to DEF SweepLocks, MovesOn, LockDir, IsHeld, tempDisk, ledgerVars, PlaceInv
    <2> QED BY <2>1, <1>was
  <1>4. ASSUME NEW p \in Movers, SweepUnlocks(p) PROVE \A d \in TempDirs : ledger'[d] /= "nobody" => d \in scan'[q].kept
    <2>1. place[q] \in GcPlaces /\ scan'[q].kept = scan[q].kept /\ ledger' = ledger
      BY <1>4, <1>to DEF SweepUnlocks, MovesOn, UnlockDir, tempDisk, ledgerVars, PlaceInv
    <2> QED BY <2>1, <1>was
  <1>5. ASSUME NEW p \in Movers, SweepEmpties(p) PROVE \A d \in TempDirs : ledger'[d] /= "nobody" => d \in scan'[q].kept
    <2>1. place[q] \in GcPlaces /\ scan'[q].kept = scan[q].kept /\ ledger' = ledger
      BY <1>5, <1>to DEF SweepEmpties, MovesOn, EmptyDir, tempDisk, ledgerVars, PlaceInv
    <2> QED BY <2>1, <1>was
  <1>6. ASSUME NEW p \in Movers, SweepUnlinks(p) PROVE \A d \in TempDirs : ledger'[d] /= "nobody" => d \in scan'[q].kept
    <2>1. place[q] \in GcPlaces /\ scan'[q].kept = scan[q].kept /\ ledger' = ledger
      BY <1>6, <1>to DEF SweepUnlinks, MovesOn, Unlinkable, UnlinkDir, tempDisk, ledgerVars, PlaceInv
    <2> QED BY <2>1, <1>was
  <1>7. ASSUME NEW p \in Movers, RunSweeps(p) PROVE \A d \in TempDirs : ledger'[d] /= "nobody" => d \in scan'[q].kept
    <2>1. place[q] \in GcPlaces /\ scan'[q].kept = scan[q].kept /\ ledger' = ledger
      BY <1>7, <1>to DEF RunSweeps, MovesOn, SweepLists, tempDisk, ledgerVars, PlaceInv
    <2> QED BY <2>1, <1>was
  <1>8. ASSUME NEW p \in Movers, ScratchSwept(p) PROVE \A d \in TempDirs : ledger'[d] /= "nobody" => d \in scan'[q].kept
    <2>1. place[q] \in GcPlaces /\ scan'[q].kept = scan[q].kept /\ ledger' = ledger
      BY <1>8, <1>to DEF ScratchSwept, MovesOn, SweptAll, NoScan, tempDisk, ledgerVars, PlaceInv
    <2> QED BY <2>1, <1>was
  <1>9. ASSUME NEW p \in Movers, MakesScratch(p) PROVE \A d \in TempDirs : ledger'[d] /= "nobody" => d \in scan'[q].kept
    <2>1. place[q] \in GcPlaces /\ scan'[q].kept = scan[q].kept /\ ledger' = ledger
      BY <1>9, <1>to DEF MakesScratch, MovesOn, Makes, NoScan, tempDisk, ledgerVars, PlaceInv
    <2> QED BY <2>1, <1>was
  <1>10. ASSUME NEW p \in Movers, NativeSweeps(p) PROVE \A d \in TempDirs : ledger'[d] /= "nobody" => d \in scan'[q].kept
    <2>1. place[q] \in GcPlaces /\ scan'[q].kept = scan[q].kept /\ ledger' = ledger
      BY <1>10, <1>to DEF NativeSweeps, MovesOn, SweepLists, tempDisk, ledgerVars, PlaceInv
    <2> QED BY <2>1, <1>was
  <1>11. ASSUME NEW p \in Movers, Uncached(p) PROVE \A d \in TempDirs : ledger'[d] /= "nobody" => d \in scan'[q].kept
    <2>1. place[q] \in GcPlaces /\ scan'[q].kept = scan[q].kept /\ ledger' = ledger
      BY <1>11, <1>to DEF Uncached, MovesOn, tempDisk, ledgerVars, PlaceInv
    <2> QED BY <2>1, <1>was
  <1>12. ASSUME NEW p \in Movers, MakesShared(p) PROVE \A d \in TempDirs : ledger'[d] /= "nobody" => d \in scan'[q].kept
    <2>1. place[q] \in GcPlaces /\ scan'[q].kept = scan[q].kept /\ ledger' = ledger
      BY <1>12, <1>to DEF MakesShared, MovesOn, SweptAll, Makes, NoScan, tempDisk, ledgerVars, PlaceInv
    <2> QED BY <2>1, <1>was
  <1>13. ASSUME NEW p \in Movers, SharedTaken(p) PROVE \A d \in TempDirs : ledger'[d] /= "nobody" => d \in scan'[q].kept
    <2>1. place[q] \in GcPlaces /\ scan'[q].kept = scan[q].kept /\ ledger' = ledger
      BY <1>13, <1>to DEF SharedTaken, MovesOn, IsHeld, Makes, NoScan, tempDisk, ledgerVars, PlaceInv
    <2> QED BY <2>1, <1>was
  <1>14. ASSUME NEW p \in Movers, Claims(p) PROVE \A d \in TempDirs : ledger'[d] /= "nobody" => d \in scan'[q].kept
    <2>1. place[q] \in GcPlaces /\ scan'[q].kept = scan[q].kept /\ ledger' = ledger
      BY <1>14, <1>to DEF Claims, MovesOn, LockDir, IsHeld, tempDisk, ledgerVars, PlaceInv
    <2> QED BY <2>1, <1>was
  <1>15. ASSUME NEW p \in Movers, Marks(p) PROVE \A d \in TempDirs : ledger'[d] /= "nobody" => d \in scan'[q].kept
    <2>1. place[q] \in GcPlaces /\ scan'[q].kept = scan[q].kept /\ ledger' = ledger
      BY <1>15, <1>to DEF Marks, MovesOn, MarkDir, MarkerOf, tempDisk, ledgerVars, PlaceInv
    <2> QED BY <2>1, <1>was
  <1>16. ASSUME NEW p \in Movers, ClaimFails(p) PROVE \A d \in TempDirs : ledger'[d] /= "nobody" => d \in scan'[q].kept
    <2>1. place[q] \in GcPlaces /\ scan'[q].kept = scan[q].kept /\ ledger' = ledger
      BY <1>16, <1>to DEF ClaimFails, MovesOn, UnlockDir, tempDisk, ledgerVars, PlaceInv
    <2> QED BY <2>1, <1>was
  <1>17. ASSUME NEW p \in Movers, Works(p) PROVE \A d \in TempDirs : ledger'[d] /= "nobody" => d \in scan'[q].kept
    <2>1. place[q] \in GcPlaces /\ scan'[q].kept = scan[q].kept /\ ledger' = ledger
      BY <1>17, <1>to DEF Works, MovesOn, OwnDirs, tempDisk, ledgerVars, PlaceInv
    <2> QED BY <2>1, <1>was
  <1>18. ASSUME NEW p \in Movers, NoNative(p) PROVE \A d \in TempDirs : ledger'[d] /= "nobody" => d \in scan'[q].kept
    <2>1. place[q] \in GcPlaces /\ scan'[q].kept = scan[q].kept /\ ledger' = ledger
      BY <1>18, <1>to DEF NoNative, MovesOn, LetGo, tempDisk, ledgerVars, PlaceInv
    <2> QED BY <2>1, <1>was
  <1>19. ASSUME NEW p \in Movers, KeepMarks(p) PROVE \A d \in TempDirs : ledger'[d] /= "nobody" => d \in scan'[q].kept
    <2>1. place[q] \in GcPlaces /\ scan'[q].kept = scan[q].kept /\ ledger' = ledger
      BY <1>19, <1>to DEF KeepMarks, MovesOn, MarkDir, MarkerOf, Leaving, tempDisk, ledgerVars, PlaceInv
    <2> QED BY <2>1, <1>was
  <1>20. ASSUME NEW p \in Movers, KeepUnlocks(p) PROVE \A d \in TempDirs : ledger'[d] /= "nobody" => d \in scan'[q].kept
    <2>1. place[q] \in GcPlaces /\ scan'[q].kept = scan[q].kept /\ ledger' = ledger
      BY <1>20, <1>to DEF KeepUnlocks, MovesOn, UnlockDir, Leaving, tempDisk, ledgerVars, PlaceInv
    <2> QED BY <2>1, <1>was
  <1>21. ASSUME NEW p \in Movers, KeepFails(p) PROVE \A d \in TempDirs : ledger'[d] /= "nobody" => d \in scan'[q].kept
    <2>1. place[q] \in GcPlaces /\ scan'[q].kept = scan[q].kept /\ ledger' = ledger
      BY <1>21, <1>to DEF KeepFails, MovesOn, UnlockDir, Leaving, LetGo, tempDisk, ledgerVars, PlaceInv
    <2> QED BY <2>1, <1>was
  <1>22. ASSUME NEW p \in Movers, Releases(p) PROVE \A d \in TempDirs : ledger'[d] /= "nobody" => d \in scan'[q].kept
    <2>1. place[q] \in GcPlaces /\ scan'[q].kept = scan[q].kept /\ ledger' = ledger
      BY <1>22, <1>to DEF Releases, MovesOn, UnlockDir, Leaving, LetGo, tempDisk, ledgerVars, PlaceInv
    <2> QED BY <2>1, <1>was
  <1>23. ASSUME NEW p \in Movers, DropEmpties(p) PROVE \A d \in TempDirs : ledger'[d] /= "nobody" => d \in scan'[q].kept
    <2>1. place[q] \in GcPlaces /\ scan'[q].kept = scan[q].kept /\ ledger' = ledger
      BY <1>23, <1>to DEF DropEmpties, MovesOn, EmptyDir, tempDisk, ledgerVars, PlaceInv
    <2> QED BY <2>1, <1>was
  <1>24. ASSUME NEW p \in Movers, DropUnlinks(p) PROVE \A d \in TempDirs : ledger'[d] /= "nobody" => d \in scan'[q].kept
    <2>1. place[q] \in GcPlaces /\ scan'[q].kept = scan[q].kept /\ ledger' = ledger
      BY <1>24, <1>to DEF DropUnlinks, MovesOn, Unlinkable, UnlinkDir, LetGo, tempDisk, ledgerVars, PlaceInv
    <2> QED BY <2>1, <1>was
  <1>25. ASSUME NEW p \in Movers, NoteReads(p) PROVE \A d \in TempDirs : ledger'[d] /= "nobody" => d \in scan'[q].kept
    <2>1. place[q] \in GcPlaces /\ scan'[q].kept = scan[q].kept /\ ledger' = ledger
      BY <1>25, <1>to DEF NoteReads, MovesOn, TakeLedger, tempDisk, ledgerVars, PlaceInv
    <2> QED BY <2>1, <1>was
  <1>26. ASSUME NEW p \in Movers, NoteWrites(p) PROVE \A d \in TempDirs : ledger'[d] /= "nobody" => d \in scan'[q].kept
    <2>1. CASE q = p
      BY <1>26, <2>1, <1>to DEF NoteWrites, MovesOn, LetGo, SaveLedger, Leaving, UnreadLedger, tempDisk, ledgerVars, PlaceInv
    <2>2. CASE q /= p
      <3>1. place[q] \in GcPlaces /\ place[p] \in {"noting", "collect"}
        BY <1>26, <2>2, <1>to DEF NoteWrites, MovesOn, LetGo, SaveLedger, Leaving, UnreadLedger, tempDisk, ledgerVars, PlaceInv
      <3> QED BY <2>2, <3>1 DEF LedgerInv
    <2> QED BY <2>1, <2>2
  <1>27. ASSUME NEW p \in Movers, NoteGivesUp(p) PROVE \A d \in TempDirs : ledger'[d] /= "nobody" => d \in scan'[q].kept
    <2>1. place[q] \in GcPlaces /\ scan'[q].kept = scan[q].kept /\ ledger' = ledger
      BY <1>27, <1>to DEF NoteGivesUp, MovesOn, LetGo, tempDisk, ledgerVars, PlaceInv
    <2> QED BY <2>1, <1>was
  <1>28. ASSUME NEW p \in Movers, GcSweeps(p) PROVE \A d \in TempDirs : ledger'[d] /= "nobody" => d \in scan'[q].kept
    <2>1. place[q] \in GcPlaces /\ scan'[q].kept = scan[q].kept /\ ledger' = ledger
      <3>1. q /= p  BY <1>28, <1>to DEF GcSweeps, MovesOn, PlaceInv
      <3> QED BY <1>28, <1>to, <3>1 DEF GcSweeps, MovesOn, SweptAll, SweepLists, tempDisk, ledgerVars, PlaceInv
    <2> QED BY <2>1, <1>was
  <1>29. ASSUME NEW p \in Movers, GcSwept(p) PROVE \A d \in TempDirs : ledger'[d] /= "nobody" => d \in scan'[q].kept
    <2>1. place[q] \in GcPlaces /\ scan'[q].kept = scan[q].kept /\ ledger' = ledger
      BY <1>29, <1>to DEF GcSwept, MovesOn, SweptAll, NoScan, tempDisk, ledgerVars, PlaceInv
    <2> QED BY <2>1, <1>was
  <1>30. ASSUME NEW p \in Movers, GcReads(p) PROVE \A d \in TempDirs : ledger'[d] /= "nobody" => d \in scan'[q].kept
    <2>1. CASE q /= p
      <3>1. place'[q] = place[q] /\ scan'[q] = scan[q] /\ ledger' = ledger
        BY <1>30, <2>1 DEF GcReads, MovesOn, TakeLedger, tempDisk, ledgerVars, PlaceInv
      <3> QED BY <3>1, <1>was, <1>to
    <2>2. CASE q = p
      BY <1>30, <2>2 DEF GcReads, Lined, MovesOn, TakeLedger, tempDisk, ledgerVars
    <2> QED BY <2>1, <2>2
  <1>31. ASSUME NEW p \in Movers, GcGivesUp(p) PROVE \A d \in TempDirs : ledger'[d] /= "nobody" => d \in scan'[q].kept
    <2>1. place[q] \in GcPlaces /\ scan'[q].kept = scan[q].kept /\ ledger' = ledger
      BY <1>31, <1>to DEF GcGivesUp, MovesOn, tempDisk, ledgerVars, PlaceInv
    <2> QED BY <2>1, <1>was
  <1>32. ASSUME NEW p \in Movers, GcPasses(p) PROVE \A d \in TempDirs : ledger'[d] /= "nobody" => d \in scan'[q].kept
    <2>1. place[q] \in GcPlaces /\ scan'[q].kept = scan[q].kept /\ ledger' = ledger
      BY <1>32, <1>to DEF GcPasses, MovesOn, tempDisk, ledgerVars, PlaceInv
    <2> QED BY <2>1, <1>was
  <1>33. ASSUME NEW p \in Movers, GcTakes(p) PROVE \A d \in TempDirs : ledger'[d] /= "nobody" => d \in scan'[q].kept
    <2>1. place[q] \in GcPlaces /\ scan'[q].kept = scan[q].kept /\ ledger' = ledger
      BY <1>33, <1>to DEF GcTakes, MovesOn, Vouched, MarkerOf, tempDisk, ledgerVars, PlaceInv
    <2> QED BY <2>1, <1>was
  <1>34. ASSUME NEW p \in Movers, GcEmpties(p) PROVE \A d \in TempDirs : ledger'[d] /= "nobody" => d \in scan'[q].kept
    <2>1. place[q] \in GcPlaces /\ scan'[q].kept = scan[q].kept /\ ledger' = ledger
      BY <1>34, <1>to DEF GcEmpties, MovesOn, EmptyDir, tempDisk, ledgerVars, PlaceInv
    <2> QED BY <2>1, <1>was
  <1>35. ASSUME NEW p \in Movers, GcUnlinks(p) PROVE \A d \in TempDirs : ledger'[d] /= "nobody" => d \in scan'[q].kept
    <2>1. place[q] \in GcPlaces /\ scan'[q].kept = scan[q].kept /\ ledger' = ledger
      BY <1>35, <1>to DEF GcUnlinks, MovesOn, Unlinkable, UnlinkDir, tempDisk, ledgerVars, PlaceInv
    <2> QED BY <2>1, <1>was
  <1>36. ASSUME NEW p \in Movers, GcWrites(p) PROVE \A d \in TempDirs : ledger'[d] /= "nobody" => d \in scan'[q].kept
    <2>1. CASE q = p
      BY <1>36, <2>1, <1>to DEF GcWrites, MovesOn, SaveLedger, NoScan, UnreadLedger, tempDisk, ledgerVars, PlaceInv
    <2>2. CASE q /= p
      <3>1. place[q] \in GcPlaces /\ place[p] \in {"noting", "collect"}
        BY <1>36, <2>2, <1>to DEF GcWrites, MovesOn, SaveLedger, NoScan, UnreadLedger, tempDisk, ledgerVars, PlaceInv
      <3> QED BY <2>2, <3>1 DEF LedgerInv
    <2> QED BY <2>1, <2>2
  <1>37. ASSUME NEW p \in Movers, Dies(p) PROVE \A d \in TempDirs : ledger'[d] /= "nobody" => d \in scan'[q].kept
    <2>1. place[q] \in GcPlaces /\ scan'[q].kept = scan[q].kept /\ ledger' = ledger
      BY <1>37, <1>to DEF Dies, UnreadLedger, NoScan, tempDisk, ledgerVars, PlaceInv
    <2> QED BY <2>1, <1>was
  <1>38. ASSUME NEW e \in TempDirs, Ages(e) PROVE \A d \in TempDirs : ledger'[d] /= "nobody" => d \in scan'[q].kept
    BY <1>38, <1>was DEF Ages, ledgerVars
  <1>39. CASE UNCHANGED keptTempVars
    BY <1>39, <1>was DEF keptTempVars, ledgerVars
  <1> QED
    BY <1>1, <1>2, <1>3, <1>4, <1>5, <1>6, <1>7, <1>8, <1>9, <1>10, <1>11, <1>12,
       <1>13, <1>14, <1>15, <1>16, <1>17, <1>18, <1>19, <1>20, <1>21, <1>22, <1>23, <1>24,
       <1>25, <1>26, <1>27, <1>28, <1>29, <1>30, <1>31, <1>32, <1>33, <1>34, <1>35, <1>36,
       <1>37, <1>38, <1>39
    DEF KeptTempNext, SweepNext, RunNext, LedgerNext

LEMMA LinesStep == KeptTempTypeOK /\ PlaceInv /\ ScanInv /\ LedgerInv /\ ReadInv /\ [KeptTempNext]_keptTempVars => LedgerIsKept'
  <1> SUFFICES ASSUME KeptTempTypeOK /\ PlaceInv /\ ScanInv /\ LedgerInv /\ ReadInv, [KeptTempNext]_keptTempVars
               PROVE  LedgerIsKept'
    OBVIOUS
  <1> USE KeptTempAssumption, DirFacts DEF KeptTempTypeOK, GcPlaces
  <1>was. LedgerIsKept  BY DEF LedgerInv
  <1>p. \A p \in Movers : HeldRight(p)  BY DEF LedgerInv, HeldRight
  <1>1. ASSUME NEW p \in Movers, Classify(p) PROVE LedgerIsKept'
    <2>1. UNCHANGED <<ledger, recorded>>  BY <1>1 DEF Classify, MovesOn, tempDisk, ledgerVars
    <2> QED BY <2>1, <1>was DEF LedgerIsKept
  <1>2. ASSUME NEW p \in Movers, SweepSpares(p) PROVE LedgerIsKept'
    <2>1. UNCHANGED <<ledger, recorded>>  BY <1>2 DEF SweepSpares, MovesOn, tempDisk, ledgerVars
    <2> QED BY <2>1, <1>was DEF LedgerIsKept
  <1>3. ASSUME NEW p \in Movers, SweepLocks(p) PROVE LedgerIsKept'
    <2>1. UNCHANGED <<ledger, recorded>>  BY <1>3 DEF SweepLocks, MovesOn, LockDir, IsHeld, tempDisk, ledgerVars
    <2> QED BY <2>1, <1>was DEF LedgerIsKept
  <1>4. ASSUME NEW p \in Movers, SweepUnlocks(p) PROVE LedgerIsKept'
    <2>1. UNCHANGED <<ledger, recorded>>  BY <1>4 DEF SweepUnlocks, MovesOn, UnlockDir, tempDisk, ledgerVars
    <2> QED BY <2>1, <1>was DEF LedgerIsKept
  <1>5. ASSUME NEW p \in Movers, SweepEmpties(p) PROVE LedgerIsKept'
    <2>1. UNCHANGED <<ledger, recorded>>  BY <1>5 DEF SweepEmpties, MovesOn, EmptyDir, tempDisk, ledgerVars
    <2> QED BY <2>1, <1>was DEF LedgerIsKept
  <1>6. ASSUME NEW p \in Movers, SweepUnlinks(p) PROVE LedgerIsKept'
    <2>1. UNCHANGED <<ledger, recorded>>  BY <1>6 DEF SweepUnlinks, MovesOn, Unlinkable, UnlinkDir, tempDisk, ledgerVars
    <2> QED BY <2>1, <1>was DEF LedgerIsKept
  <1>7. ASSUME NEW p \in Movers, RunSweeps(p) PROVE LedgerIsKept'
    <2>1. UNCHANGED <<ledger, recorded>>  BY <1>7 DEF RunSweeps, MovesOn, SweepLists, tempDisk, ledgerVars
    <2> QED BY <2>1, <1>was DEF LedgerIsKept
  <1>8. ASSUME NEW p \in Movers, ScratchSwept(p) PROVE LedgerIsKept'
    <2>1. UNCHANGED <<ledger, recorded>>  BY <1>8 DEF ScratchSwept, MovesOn, SweptAll, NoScan, tempDisk, ledgerVars
    <2> QED BY <2>1, <1>was DEF LedgerIsKept
  <1>9. ASSUME NEW p \in Movers, MakesScratch(p) PROVE LedgerIsKept'
    <2>1. UNCHANGED <<ledger, recorded>>  BY <1>9 DEF MakesScratch, MovesOn, Makes, NoScan, tempDisk, ledgerVars
    <2> QED BY <2>1, <1>was DEF LedgerIsKept
  <1>10. ASSUME NEW p \in Movers, NativeSweeps(p) PROVE LedgerIsKept'
    <2>1. UNCHANGED <<ledger, recorded>>  BY <1>10 DEF NativeSweeps, MovesOn, SweepLists, tempDisk, ledgerVars
    <2> QED BY <2>1, <1>was DEF LedgerIsKept
  <1>11. ASSUME NEW p \in Movers, Uncached(p) PROVE LedgerIsKept'
    <2>1. UNCHANGED <<ledger, recorded>>  BY <1>11 DEF Uncached, MovesOn, tempDisk, ledgerVars
    <2> QED BY <2>1, <1>was DEF LedgerIsKept
  <1>12. ASSUME NEW p \in Movers, MakesShared(p) PROVE LedgerIsKept'
    <2>1. UNCHANGED <<ledger, recorded>>  BY <1>12 DEF MakesShared, MovesOn, SweptAll, Makes, NoScan, tempDisk, ledgerVars
    <2> QED BY <2>1, <1>was DEF LedgerIsKept
  <1>13. ASSUME NEW p \in Movers, SharedTaken(p) PROVE LedgerIsKept'
    <2>1. UNCHANGED <<ledger, recorded>>  BY <1>13 DEF SharedTaken, MovesOn, IsHeld, Makes, NoScan, tempDisk, ledgerVars
    <2> QED BY <2>1, <1>was DEF LedgerIsKept
  <1>14. ASSUME NEW p \in Movers, Claims(p) PROVE LedgerIsKept'
    <2>1. UNCHANGED <<ledger, recorded>>  BY <1>14 DEF Claims, MovesOn, LockDir, IsHeld, tempDisk, ledgerVars
    <2> QED BY <2>1, <1>was DEF LedgerIsKept
  <1>15. ASSUME NEW p \in Movers, Marks(p) PROVE LedgerIsKept'
    <2>1. UNCHANGED <<ledger, recorded>>  BY <1>15 DEF Marks, MovesOn, MarkDir, MarkerOf, tempDisk, ledgerVars
    <2> QED BY <2>1, <1>was DEF LedgerIsKept
  <1>16. ASSUME NEW p \in Movers, ClaimFails(p) PROVE LedgerIsKept'
    <2>1. UNCHANGED <<ledger, recorded>>  BY <1>16 DEF ClaimFails, MovesOn, UnlockDir, tempDisk, ledgerVars
    <2> QED BY <2>1, <1>was DEF LedgerIsKept
  <1>17. ASSUME NEW p \in Movers, Works(p) PROVE LedgerIsKept'
    <2>1. UNCHANGED <<ledger, recorded>>  BY <1>17 DEF Works, MovesOn, OwnDirs, tempDisk, ledgerVars
    <2> QED BY <2>1, <1>was DEF LedgerIsKept
  <1>18. ASSUME NEW p \in Movers, NoNative(p) PROVE LedgerIsKept'
    <2>1. UNCHANGED <<ledger, recorded>>  BY <1>18 DEF NoNative, MovesOn, LetGo, tempDisk, ledgerVars
    <2> QED BY <2>1, <1>was DEF LedgerIsKept
  <1>19. ASSUME NEW p \in Movers, KeepMarks(p) PROVE LedgerIsKept'
    <2>1. UNCHANGED <<ledger, recorded>>  BY <1>19 DEF KeepMarks, MovesOn, MarkDir, MarkerOf, Leaving, tempDisk, ledgerVars
    <2> QED BY <2>1, <1>was DEF LedgerIsKept
  <1>20. ASSUME NEW p \in Movers, KeepUnlocks(p) PROVE LedgerIsKept'
    <2>1. UNCHANGED <<ledger, recorded>>  BY <1>20 DEF KeepUnlocks, MovesOn, UnlockDir, Leaving, tempDisk, ledgerVars
    <2> QED BY <2>1, <1>was DEF LedgerIsKept
  <1>21. ASSUME NEW p \in Movers, KeepFails(p) PROVE LedgerIsKept'
    <2>1. UNCHANGED <<ledger, recorded>>  BY <1>21 DEF KeepFails, MovesOn, UnlockDir, Leaving, LetGo, tempDisk, ledgerVars
    <2> QED BY <2>1, <1>was DEF LedgerIsKept
  <1>22. ASSUME NEW p \in Movers, Releases(p) PROVE LedgerIsKept'
    <2>1. UNCHANGED <<ledger, recorded>>  BY <1>22 DEF Releases, MovesOn, UnlockDir, Leaving, LetGo, tempDisk, ledgerVars
    <2> QED BY <2>1, <1>was DEF LedgerIsKept
  <1>23. ASSUME NEW p \in Movers, DropEmpties(p) PROVE LedgerIsKept'
    <2>1. UNCHANGED <<ledger, recorded>>  BY <1>23 DEF DropEmpties, MovesOn, EmptyDir, tempDisk, ledgerVars
    <2> QED BY <2>1, <1>was DEF LedgerIsKept
  <1>24. ASSUME NEW p \in Movers, DropUnlinks(p) PROVE LedgerIsKept'
    <2>1. UNCHANGED <<ledger, recorded>>  BY <1>24 DEF DropUnlinks, MovesOn, Unlinkable, UnlinkDir, LetGo, tempDisk, ledgerVars
    <2> QED BY <2>1, <1>was DEF LedgerIsKept
  <1>25. ASSUME NEW p \in Movers, NoteReads(p) PROVE LedgerIsKept'
    <2>1. UNCHANGED <<ledger, recorded>>  BY <1>25 DEF NoteReads, MovesOn, TakeLedger, tempDisk, ledgerVars
    <2> QED BY <2>1, <1>was DEF LedgerIsKept
  <1>26. ASSUME NEW p \in Movers, NoteWrites(p) PROVE LedgerIsKept'
    <2>1. place[p] = "noting"  BY <1>26 DEF NoteWrites, LetGo, MovesOn
    <2>2. loaded[p] = ledger  BY <2>1, <1>p DEF HeldRight
    <2>3. \/ ledger' = [ledger EXCEPT ![Leaving(p)] = p] /\ recorded' = [recorded EXCEPT ![Leaving(p)] = p]
          \/ UNCHANGED <<ledger, recorded>>
      BY <1>26, <2>2 DEF NoteWrites, SaveLedger
    <2> DEFINE e == Leaving(p)
    <2> HIDE DEF e
    <2>4. \/ ledger' = [ledger EXCEPT ![e] = p] /\ recorded' = [recorded EXCEPT ![e] = p]
          \/ UNCHANGED <<ledger, recorded>>
      BY <2>3 DEF e
    <2> QED BY <2>4, <1>was DEF LedgerIsKept
  <1>27. ASSUME NEW p \in Movers, NoteGivesUp(p) PROVE LedgerIsKept'
    <2>1. UNCHANGED <<ledger, recorded>>  BY <1>27 DEF NoteGivesUp, MovesOn, LetGo, tempDisk, ledgerVars
    <2> QED BY <2>1, <1>was DEF LedgerIsKept
  <1>28. ASSUME NEW p \in Movers, GcSweeps(p) PROVE LedgerIsKept'
    <2>1. UNCHANGED <<ledger, recorded>>  BY <1>28 DEF GcSweeps, MovesOn, SweptAll, SweepLists, tempDisk, ledgerVars
    <2> QED BY <2>1, <1>was DEF LedgerIsKept
  <1>29. ASSUME NEW p \in Movers, GcSwept(p) PROVE LedgerIsKept'
    <2>1. UNCHANGED <<ledger, recorded>>  BY <1>29 DEF GcSwept, MovesOn, SweptAll, NoScan, tempDisk, ledgerVars
    <2> QED BY <2>1, <1>was DEF LedgerIsKept
  <1>30. ASSUME NEW p \in Movers, GcReads(p) PROVE LedgerIsKept'
    <2>1. UNCHANGED <<ledger, recorded>>  BY <1>30 DEF GcReads, MovesOn, TakeLedger, tempDisk, ledgerVars
    <2> QED BY <2>1, <1>was DEF LedgerIsKept
  <1>31. ASSUME NEW p \in Movers, GcGivesUp(p) PROVE LedgerIsKept'
    <2>1. UNCHANGED <<ledger, recorded>>  BY <1>31 DEF GcGivesUp, MovesOn, tempDisk, ledgerVars
    <2> QED BY <2>1, <1>was DEF LedgerIsKept
  <1>32. ASSUME NEW p \in Movers, GcPasses(p) PROVE LedgerIsKept'
    <2>1. UNCHANGED <<ledger, recorded>>  BY <1>32 DEF GcPasses, MovesOn, tempDisk, ledgerVars
    <2> QED BY <2>1, <1>was DEF LedgerIsKept
  <1>33. ASSUME NEW p \in Movers, GcTakes(p) PROVE LedgerIsKept'
    <2>1. UNCHANGED <<ledger, recorded>>  BY <1>33 DEF GcTakes, MovesOn, Vouched, MarkerOf, tempDisk, ledgerVars
    <2> QED BY <2>1, <1>was DEF LedgerIsKept
  <1>34. ASSUME NEW p \in Movers, GcEmpties(p) PROVE LedgerIsKept'
    <2>1. UNCHANGED <<ledger, recorded>>  BY <1>34 DEF GcEmpties, MovesOn, EmptyDir, tempDisk, ledgerVars
    <2> QED BY <2>1, <1>was DEF LedgerIsKept
  <1>35. ASSUME NEW p \in Movers, GcUnlinks(p) PROVE LedgerIsKept'
    <2>1. UNCHANGED <<ledger, recorded>>  BY <1>35 DEF GcUnlinks, MovesOn, Unlinkable, UnlinkDir, tempDisk, ledgerVars
    <2> QED BY <2>1, <1>was DEF LedgerIsKept
  <1>36. ASSUME NEW p \in Movers, GcWrites(p) PROVE LedgerIsKept'
    <2>1. \A d \in TempDirs : loaded[p][d] \in {ledger[d], "nobody"}
      BY <1>36, <1>p DEF GcWrites, MovesOn, HeldRight
    <2>2. \/ ledger' = loaded[p]
             /\ recorded' = [d \in TempDirs |->
                              IF d \in scan[p].kept /\ loaded[p][d] = "nobody" THEN "nobody" ELSE recorded[d]]
          \/ UNCHANGED <<ledger, recorded>>
      BY <1>36 DEF GcWrites, SaveLedger
    <2>3. \A d \in TempDirs : ledger[d] /= "nobody" => d \in scan[p].kept
      BY <1>36 DEF ReadInv, GcWrites, MovesOn
    <2> QED BY <2>1, <2>2, <2>3, <1>was DEF LedgerIsKept
  <1>37. ASSUME NEW p \in Movers, Dies(p) PROVE LedgerIsKept'
    <2>1. UNCHANGED <<ledger, recorded>>  BY <1>37 DEF Dies, UnreadLedger, NoScan, tempDisk, ledgerVars
    <2> QED BY <2>1, <1>was DEF LedgerIsKept
  <1>38. ASSUME NEW e \in TempDirs, Ages(e) PROVE LedgerIsKept'
    <2>1. UNCHANGED <<ledger, recorded>>  BY <1>38 DEF Ages, tempDisk, ledgerVars
    <2> QED BY <2>1, <1>was DEF LedgerIsKept
  <1>39. CASE UNCHANGED keptTempVars
    BY <1>39, <1>was DEF LedgerIsKept, keptTempVars, ledgerVars
  <1> QED
    BY <1>1, <1>2, <1>3, <1>4, <1>5, <1>6, <1>7, <1>8, <1>9, <1>10, <1>11, <1>12,
       <1>13, <1>14, <1>15, <1>16, <1>17, <1>18, <1>19, <1>20, <1>21, <1>22, <1>23, <1>24,
       <1>25, <1>26, <1>27, <1>28, <1>29, <1>30, <1>31, <1>32, <1>33, <1>34, <1>35, <1>36,
       <1>37, <1>38, <1>39
    DEF KeptTempNext, SweepNext, RunNext, LedgerNext

LEMMA LedgerStep == KeptTempTypeOK /\ PlaceInv /\ ScanInv /\ LedgerInv /\ ReadInv /\ [KeptTempNext]_keptTempVars => LedgerInv'
  <1> SUFFICES ASSUME KeptTempTypeOK /\ PlaceInv /\ ScanInv /\ LedgerInv /\ ReadInv, [KeptTempNext]_keptTempVars
               PROVE  LedgerInv'
    OBVIOUS
  <1>1. \A q \in Movers : HeldRight(q)'  BY HeldStep
  <1>2. LedgerIsKept'  BY LinesStep
  <1> QED BY <1>1, <1>2 DEF LedgerInv, HeldRight

LEMMA ForeignStep == KeptTempTypeOK /\ PlaceInv /\ MarkerInv /\ ForeignInv /\ [KeptTempNext]_keptTempVars => ForeignInv'
  <1> SUFFICES ASSUME KeptTempTypeOK /\ PlaceInv /\ MarkerInv /\ ForeignInv, [KeptTempNext]_keptTempVars,
                      NEW q \in Collectors, place'[q] \in {"gc_empty", "gc_unlink"}
               PROVE  scan'[q].at /= Foreign
    BY DEF ForeignInv
  <1> USE KeptTempAssumption, DirFacts DEF KeptTempTypeOK
  <1>was. /\ place[q] \in {"gc_empty", "gc_unlink"} => scan[q].at /= Foreign
          /\ q \in Movers
    BY DEF ForeignInv, Movers
  <1>1. ASSUME NEW p \in Movers, Classify(p) PROVE scan'[q].at /= Foreign
    <2>1. CASE q /= p
      <3>1. place'[q] = place[q] /\ scan'[q] = scan[q]  BY <1>1, <2>1, <1>was DEF Classify, MovesOn, tempDisk, ledgerVars, PlaceInv
      <3> QED BY <3>1, <1>was
    <2>2. CASE q = p
      BY <1>1, <2>2, <1>was DEF Classify, MovesOn, tempDisk, ledgerVars, PlaceInv
    <2> QED BY <2>1, <2>2
  <1>2. ASSUME NEW p \in Movers, SweepSpares(p) PROVE scan'[q].at /= Foreign
    <2>1. CASE q /= p
      <3>1. place'[q] = place[q] /\ scan'[q] = scan[q]  BY <1>2, <2>1, <1>was DEF SweepSpares, MovesOn, tempDisk, ledgerVars, PlaceInv
      <3> QED BY <3>1, <1>was
    <2>2. CASE q = p
      BY <1>2, <2>2, <1>was DEF SweepSpares, MovesOn, tempDisk, ledgerVars, PlaceInv
    <2> QED BY <2>1, <2>2
  <1>3. ASSUME NEW p \in Movers, SweepLocks(p) PROVE scan'[q].at /= Foreign
    <2>1. CASE q /= p
      <3>1. place'[q] = place[q] /\ scan'[q] = scan[q]  BY <1>3, <2>1, <1>was DEF SweepLocks, MovesOn, LockDir, IsHeld, tempDisk, ledgerVars, PlaceInv
      <3> QED BY <3>1, <1>was
    <2>2. CASE q = p
      BY <1>3, <2>2, <1>was DEF SweepLocks, MovesOn, LockDir, IsHeld, tempDisk, ledgerVars, PlaceInv
    <2> QED BY <2>1, <2>2
  <1>4. ASSUME NEW p \in Movers, SweepUnlocks(p) PROVE scan'[q].at /= Foreign
    <2>1. CASE q /= p
      <3>1. place'[q] = place[q] /\ scan'[q] = scan[q]  BY <1>4, <2>1, <1>was DEF SweepUnlocks, MovesOn, UnlockDir, tempDisk, ledgerVars, PlaceInv
      <3> QED BY <3>1, <1>was
    <2>2. CASE q = p
      BY <1>4, <2>2, <1>was DEF SweepUnlocks, MovesOn, UnlockDir, tempDisk, ledgerVars, PlaceInv
    <2> QED BY <2>1, <2>2
  <1>5. ASSUME NEW p \in Movers, SweepEmpties(p) PROVE scan'[q].at /= Foreign
    <2>1. CASE q /= p
      <3>1. place'[q] = place[q] /\ scan'[q] = scan[q]  BY <1>5, <2>1, <1>was DEF SweepEmpties, MovesOn, EmptyDir, tempDisk, ledgerVars, PlaceInv
      <3> QED BY <3>1, <1>was
    <2>2. CASE q = p
      BY <1>5, <2>2, <1>was DEF SweepEmpties, MovesOn, EmptyDir, tempDisk, ledgerVars, PlaceInv
    <2> QED BY <2>1, <2>2
  <1>6. ASSUME NEW p \in Movers, SweepUnlinks(p) PROVE scan'[q].at /= Foreign
    <2>1. CASE q /= p
      <3>1. place'[q] = place[q] /\ scan'[q] = scan[q]  BY <1>6, <2>1, <1>was DEF SweepUnlinks, MovesOn, Unlinkable, UnlinkDir, tempDisk, ledgerVars, PlaceInv
      <3> QED BY <3>1, <1>was
    <2>2. CASE q = p
      BY <1>6, <2>2, <1>was DEF SweepUnlinks, MovesOn, Unlinkable, UnlinkDir, tempDisk, ledgerVars, PlaceInv
    <2> QED BY <2>1, <2>2
  <1>7. ASSUME NEW p \in Movers, RunSweeps(p) PROVE scan'[q].at /= Foreign
    <2>1. CASE q /= p
      <3>1. place'[q] = place[q] /\ scan'[q] = scan[q]  BY <1>7, <2>1, <1>was DEF RunSweeps, MovesOn, SweepLists, tempDisk, ledgerVars, PlaceInv
      <3> QED BY <3>1, <1>was
    <2>2. CASE q = p
      BY <1>7, <2>2, <1>was DEF RunSweeps, MovesOn, SweepLists, tempDisk, ledgerVars, PlaceInv
    <2> QED BY <2>1, <2>2
  <1>8. ASSUME NEW p \in Movers, ScratchSwept(p) PROVE scan'[q].at /= Foreign
    <2>1. CASE q /= p
      <3>1. place'[q] = place[q] /\ scan'[q] = scan[q]  BY <1>8, <2>1, <1>was DEF ScratchSwept, MovesOn, SweptAll, NoScan, tempDisk, ledgerVars, PlaceInv
      <3> QED BY <3>1, <1>was
    <2>2. CASE q = p
      BY <1>8, <2>2, <1>was DEF ScratchSwept, MovesOn, SweptAll, NoScan, tempDisk, ledgerVars, PlaceInv
    <2> QED BY <2>1, <2>2
  <1>9. ASSUME NEW p \in Movers, MakesScratch(p) PROVE scan'[q].at /= Foreign
    <2>1. CASE q /= p
      <3>1. place'[q] = place[q] /\ scan'[q] = scan[q]  BY <1>9, <2>1, <1>was DEF MakesScratch, MovesOn, Makes, NoScan, tempDisk, ledgerVars, PlaceInv
      <3> QED BY <3>1, <1>was
    <2>2. CASE q = p
      BY <1>9, <2>2, <1>was DEF MakesScratch, MovesOn, Makes, NoScan, tempDisk, ledgerVars, PlaceInv
    <2> QED BY <2>1, <2>2
  <1>10. ASSUME NEW p \in Movers, NativeSweeps(p) PROVE scan'[q].at /= Foreign
    <2>1. CASE q /= p
      <3>1. place'[q] = place[q] /\ scan'[q] = scan[q]  BY <1>10, <2>1, <1>was DEF NativeSweeps, MovesOn, SweepLists, tempDisk, ledgerVars, PlaceInv
      <3> QED BY <3>1, <1>was
    <2>2. CASE q = p
      BY <1>10, <2>2, <1>was DEF NativeSweeps, MovesOn, SweepLists, tempDisk, ledgerVars, PlaceInv
    <2> QED BY <2>1, <2>2
  <1>11. ASSUME NEW p \in Movers, Uncached(p) PROVE scan'[q].at /= Foreign
    <2>1. CASE q /= p
      <3>1. place'[q] = place[q] /\ scan'[q] = scan[q]  BY <1>11, <2>1, <1>was DEF Uncached, MovesOn, tempDisk, ledgerVars, PlaceInv
      <3> QED BY <3>1, <1>was
    <2>2. CASE q = p
      BY <1>11, <2>2, <1>was DEF Uncached, MovesOn, tempDisk, ledgerVars, PlaceInv
    <2> QED BY <2>1, <2>2
  <1>12. ASSUME NEW p \in Movers, MakesShared(p) PROVE scan'[q].at /= Foreign
    <2>1. CASE q /= p
      <3>1. place'[q] = place[q] /\ scan'[q] = scan[q]  BY <1>12, <2>1, <1>was DEF MakesShared, MovesOn, SweptAll, Makes, NoScan, tempDisk, ledgerVars, PlaceInv
      <3> QED BY <3>1, <1>was
    <2>2. CASE q = p
      BY <1>12, <2>2, <1>was DEF MakesShared, MovesOn, SweptAll, Makes, NoScan, tempDisk, ledgerVars, PlaceInv
    <2> QED BY <2>1, <2>2
  <1>13. ASSUME NEW p \in Movers, SharedTaken(p) PROVE scan'[q].at /= Foreign
    <2>1. CASE q /= p
      <3>1. place'[q] = place[q] /\ scan'[q] = scan[q]  BY <1>13, <2>1, <1>was DEF SharedTaken, MovesOn, IsHeld, Makes, NoScan, tempDisk, ledgerVars, PlaceInv
      <3> QED BY <3>1, <1>was
    <2>2. CASE q = p
      BY <1>13, <2>2, <1>was DEF SharedTaken, MovesOn, IsHeld, Makes, NoScan, tempDisk, ledgerVars, PlaceInv
    <2> QED BY <2>1, <2>2
  <1>14. ASSUME NEW p \in Movers, Claims(p) PROVE scan'[q].at /= Foreign
    <2>1. CASE q /= p
      <3>1. place'[q] = place[q] /\ scan'[q] = scan[q]  BY <1>14, <2>1, <1>was DEF Claims, MovesOn, LockDir, IsHeld, tempDisk, ledgerVars, PlaceInv
      <3> QED BY <3>1, <1>was
    <2>2. CASE q = p
      BY <1>14, <2>2, <1>was DEF Claims, MovesOn, LockDir, IsHeld, tempDisk, ledgerVars, PlaceInv
    <2> QED BY <2>1, <2>2
  <1>15. ASSUME NEW p \in Movers, Marks(p) PROVE scan'[q].at /= Foreign
    <2>1. CASE q /= p
      <3>1. place'[q] = place[q] /\ scan'[q] = scan[q]  BY <1>15, <2>1, <1>was DEF Marks, MovesOn, MarkDir, MarkerOf, tempDisk, ledgerVars, PlaceInv
      <3> QED BY <3>1, <1>was
    <2>2. CASE q = p
      BY <1>15, <2>2, <1>was DEF Marks, MovesOn, MarkDir, MarkerOf, tempDisk, ledgerVars, PlaceInv
    <2> QED BY <2>1, <2>2
  <1>16. ASSUME NEW p \in Movers, ClaimFails(p) PROVE scan'[q].at /= Foreign
    <2>1. CASE q /= p
      <3>1. place'[q] = place[q] /\ scan'[q] = scan[q]  BY <1>16, <2>1, <1>was DEF ClaimFails, MovesOn, UnlockDir, tempDisk, ledgerVars, PlaceInv
      <3> QED BY <3>1, <1>was
    <2>2. CASE q = p
      BY <1>16, <2>2, <1>was DEF ClaimFails, MovesOn, UnlockDir, tempDisk, ledgerVars, PlaceInv
    <2> QED BY <2>1, <2>2
  <1>17. ASSUME NEW p \in Movers, Works(p) PROVE scan'[q].at /= Foreign
    <2>1. CASE q /= p
      <3>1. place'[q] = place[q] /\ scan'[q] = scan[q]  BY <1>17, <2>1, <1>was DEF Works, MovesOn, OwnDirs, tempDisk, ledgerVars, PlaceInv
      <3> QED BY <3>1, <1>was
    <2>2. CASE q = p
      BY <1>17, <2>2, <1>was DEF Works, MovesOn, OwnDirs, tempDisk, ledgerVars, PlaceInv
    <2> QED BY <2>1, <2>2
  <1>18. ASSUME NEW p \in Movers, NoNative(p) PROVE scan'[q].at /= Foreign
    <2>1. CASE q /= p
      <3>1. place'[q] = place[q] /\ scan'[q] = scan[q]  BY <1>18, <2>1, <1>was DEF NoNative, MovesOn, LetGo, tempDisk, ledgerVars, PlaceInv
      <3> QED BY <3>1, <1>was
    <2>2. CASE q = p
      BY <1>18, <2>2, <1>was DEF NoNative, MovesOn, LetGo, tempDisk, ledgerVars, PlaceInv
    <2> QED BY <2>1, <2>2
  <1>19. ASSUME NEW p \in Movers, KeepMarks(p) PROVE scan'[q].at /= Foreign
    <2>1. CASE q /= p
      <3>1. place'[q] = place[q] /\ scan'[q] = scan[q]  BY <1>19, <2>1, <1>was DEF KeepMarks, MovesOn, MarkDir, MarkerOf, Leaving, tempDisk, ledgerVars, PlaceInv
      <3> QED BY <3>1, <1>was
    <2>2. CASE q = p
      BY <1>19, <2>2, <1>was DEF KeepMarks, MovesOn, MarkDir, MarkerOf, Leaving, tempDisk, ledgerVars, PlaceInv
    <2> QED BY <2>1, <2>2
  <1>20. ASSUME NEW p \in Movers, KeepUnlocks(p) PROVE scan'[q].at /= Foreign
    <2>1. CASE q /= p
      <3>1. place'[q] = place[q] /\ scan'[q] = scan[q]  BY <1>20, <2>1, <1>was DEF KeepUnlocks, MovesOn, UnlockDir, Leaving, tempDisk, ledgerVars, PlaceInv
      <3> QED BY <3>1, <1>was
    <2>2. CASE q = p
      BY <1>20, <2>2, <1>was DEF KeepUnlocks, MovesOn, UnlockDir, Leaving, tempDisk, ledgerVars, PlaceInv
    <2> QED BY <2>1, <2>2
  <1>21. ASSUME NEW p \in Movers, KeepFails(p) PROVE scan'[q].at /= Foreign
    <2>1. CASE q /= p
      <3>1. place'[q] = place[q] /\ scan'[q] = scan[q]  BY <1>21, <2>1, <1>was DEF KeepFails, MovesOn, UnlockDir, Leaving, LetGo, tempDisk, ledgerVars, PlaceInv
      <3> QED BY <3>1, <1>was
    <2>2. CASE q = p
      BY <1>21, <2>2, <1>was DEF KeepFails, MovesOn, UnlockDir, Leaving, LetGo, tempDisk, ledgerVars, PlaceInv
    <2> QED BY <2>1, <2>2
  <1>22. ASSUME NEW p \in Movers, Releases(p) PROVE scan'[q].at /= Foreign
    <2>1. CASE q /= p
      <3>1. place'[q] = place[q] /\ scan'[q] = scan[q]  BY <1>22, <2>1, <1>was DEF Releases, MovesOn, UnlockDir, Leaving, LetGo, tempDisk, ledgerVars, PlaceInv
      <3> QED BY <3>1, <1>was
    <2>2. CASE q = p
      BY <1>22, <2>2, <1>was DEF Releases, MovesOn, UnlockDir, Leaving, LetGo, tempDisk, ledgerVars, PlaceInv
    <2> QED BY <2>1, <2>2
  <1>23. ASSUME NEW p \in Movers, DropEmpties(p) PROVE scan'[q].at /= Foreign
    <2>1. CASE q /= p
      <3>1. place'[q] = place[q] /\ scan'[q] = scan[q]  BY <1>23, <2>1, <1>was DEF DropEmpties, MovesOn, EmptyDir, tempDisk, ledgerVars, PlaceInv
      <3> QED BY <3>1, <1>was
    <2>2. CASE q = p
      BY <1>23, <2>2, <1>was DEF DropEmpties, MovesOn, EmptyDir, tempDisk, ledgerVars, PlaceInv
    <2> QED BY <2>1, <2>2
  <1>24. ASSUME NEW p \in Movers, DropUnlinks(p) PROVE scan'[q].at /= Foreign
    <2>1. CASE q /= p
      <3>1. place'[q] = place[q] /\ scan'[q] = scan[q]  BY <1>24, <2>1, <1>was DEF DropUnlinks, MovesOn, Unlinkable, UnlinkDir, LetGo, tempDisk, ledgerVars, PlaceInv
      <3> QED BY <3>1, <1>was
    <2>2. CASE q = p
      BY <1>24, <2>2, <1>was DEF DropUnlinks, MovesOn, Unlinkable, UnlinkDir, LetGo, tempDisk, ledgerVars, PlaceInv
    <2> QED BY <2>1, <2>2
  <1>25. ASSUME NEW p \in Movers, NoteReads(p) PROVE scan'[q].at /= Foreign
    <2>1. CASE q /= p
      <3>1. place'[q] = place[q] /\ scan'[q] = scan[q]  BY <1>25, <2>1, <1>was DEF NoteReads, MovesOn, TakeLedger, tempDisk, ledgerVars, PlaceInv
      <3> QED BY <3>1, <1>was
    <2>2. CASE q = p
      BY <1>25, <2>2, <1>was DEF NoteReads, MovesOn, TakeLedger, tempDisk, ledgerVars, PlaceInv
    <2> QED BY <2>1, <2>2
  <1>26. ASSUME NEW p \in Movers, NoteWrites(p) PROVE scan'[q].at /= Foreign
    <2>1. CASE q /= p
      <3>1. place'[q] = place[q] /\ scan'[q] = scan[q]  BY <1>26, <2>1, <1>was DEF NoteWrites, MovesOn, LetGo, SaveLedger, Leaving, UnreadLedger, tempDisk, ledgerVars, PlaceInv
      <3> QED BY <3>1, <1>was
    <2>2. CASE q = p
      BY <1>26, <2>2, <1>was DEF NoteWrites, MovesOn, LetGo, SaveLedger, Leaving, UnreadLedger, tempDisk, ledgerVars, PlaceInv
    <2> QED BY <2>1, <2>2
  <1>27. ASSUME NEW p \in Movers, NoteGivesUp(p) PROVE scan'[q].at /= Foreign
    <2>1. CASE q /= p
      <3>1. place'[q] = place[q] /\ scan'[q] = scan[q]  BY <1>27, <2>1, <1>was DEF NoteGivesUp, MovesOn, LetGo, tempDisk, ledgerVars, PlaceInv
      <3> QED BY <3>1, <1>was
    <2>2. CASE q = p
      BY <1>27, <2>2, <1>was DEF NoteGivesUp, MovesOn, LetGo, tempDisk, ledgerVars, PlaceInv
    <2> QED BY <2>1, <2>2
  <1>28. ASSUME NEW p \in Movers, GcSweeps(p) PROVE scan'[q].at /= Foreign
    <2>1. CASE q /= p
      <3>1. place'[q] = place[q] /\ scan'[q] = scan[q]  BY <1>28, <2>1, <1>was DEF GcSweeps, MovesOn, SweptAll, SweepLists, tempDisk, ledgerVars, PlaceInv
      <3> QED BY <3>1, <1>was
    <2>2. CASE q = p
      BY <1>28, <2>2, <1>was DEF GcSweeps, MovesOn, SweptAll, SweepLists, tempDisk, ledgerVars, PlaceInv
    <2> QED BY <2>1, <2>2
  <1>29. ASSUME NEW p \in Movers, GcSwept(p) PROVE scan'[q].at /= Foreign
    <2>1. CASE q /= p
      <3>1. place'[q] = place[q] /\ scan'[q] = scan[q]  BY <1>29, <2>1, <1>was DEF GcSwept, MovesOn, SweptAll, NoScan, tempDisk, ledgerVars, PlaceInv
      <3> QED BY <3>1, <1>was
    <2>2. CASE q = p
      BY <1>29, <2>2, <1>was DEF GcSwept, MovesOn, SweptAll, NoScan, tempDisk, ledgerVars, PlaceInv
    <2> QED BY <2>1, <2>2
  <1>30. ASSUME NEW p \in Movers, GcReads(p) PROVE scan'[q].at /= Foreign
    <2>1. CASE q /= p
      <3>1. place'[q] = place[q] /\ scan'[q] = scan[q]  BY <1>30, <2>1, <1>was DEF GcReads, MovesOn, TakeLedger, tempDisk, ledgerVars, PlaceInv
      <3> QED BY <3>1, <1>was
    <2>2. CASE q = p
      BY <1>30, <2>2, <1>was DEF GcReads, MovesOn, TakeLedger, tempDisk, ledgerVars, PlaceInv
    <2> QED BY <2>1, <2>2
  <1>31. ASSUME NEW p \in Movers, GcGivesUp(p) PROVE scan'[q].at /= Foreign
    <2>1. CASE q /= p
      <3>1. place'[q] = place[q] /\ scan'[q] = scan[q]  BY <1>31, <2>1, <1>was DEF GcGivesUp, MovesOn, tempDisk, ledgerVars, PlaceInv
      <3> QED BY <3>1, <1>was
    <2>2. CASE q = p
      BY <1>31, <2>2, <1>was DEF GcGivesUp, MovesOn, tempDisk, ledgerVars, PlaceInv
    <2> QED BY <2>1, <2>2
  <1>32. ASSUME NEW p \in Movers, GcPasses(p) PROVE scan'[q].at /= Foreign
    <2>1. CASE q /= p
      <3>1. place'[q] = place[q] /\ scan'[q] = scan[q]  BY <1>32, <2>1, <1>was DEF GcPasses, MovesOn, tempDisk, ledgerVars, PlaceInv
      <3> QED BY <3>1, <1>was
    <2>2. CASE q = p
      BY <1>32, <2>2, <1>was DEF GcPasses, MovesOn, tempDisk, ledgerVars, PlaceInv
    <2> QED BY <2>1, <2>2
  <1>33. ASSUME NEW p \in Movers, GcTakes(p) PROVE scan'[q].at /= Foreign
    <2>1. CASE q /= p
      <3>1. place'[q] = place[q] /\ scan'[q] = scan[q]  BY <1>33, <2>1, <1>was DEF GcTakes, MovesOn, Vouched, MarkerOf, tempDisk, ledgerVars, PlaceInv
      <3> QED BY <3>1, <1>was
    <2>2. CASE q = p
      <3>1. PICK d \in scan[p].left :
              ownerMarker[d] = MarkerOf(loaded[p][d], TRUE) /\ scan' = [scan EXCEPT ![p].left = @ \ {d}, ![p].at = d]
        BY <1>33 DEF GcTakes, Vouched
      <3>2. d /= Foreign  BY <3>1 DEF MarkerInv, MarkerOf, Unmarked
      <3>3. scan'[p].at = d  BY <3>1
      <3> QED BY <2>2, <3>2, <3>3
    <2> QED BY <2>1, <2>2
  <1>34. ASSUME NEW p \in Movers, GcEmpties(p) PROVE scan'[q].at /= Foreign
    <2>1. CASE q /= p
      <3>1. place'[q] = place[q] /\ scan'[q] = scan[q]  BY <1>34, <2>1, <1>was DEF GcEmpties, MovesOn, EmptyDir, tempDisk, ledgerVars, PlaceInv
      <3> QED BY <3>1, <1>was
    <2>2. CASE q = p
      BY <1>34, <2>2, <1>was DEF GcEmpties, MovesOn, EmptyDir, tempDisk, ledgerVars, PlaceInv
    <2> QED BY <2>1, <2>2
  <1>35. ASSUME NEW p \in Movers, GcUnlinks(p) PROVE scan'[q].at /= Foreign
    <2>1. CASE q /= p
      <3>1. place'[q] = place[q] /\ scan'[q] = scan[q]  BY <1>35, <2>1, <1>was DEF GcUnlinks, MovesOn, Unlinkable, UnlinkDir, tempDisk, ledgerVars, PlaceInv
      <3> QED BY <3>1, <1>was
    <2>2. CASE q = p
      BY <1>35, <2>2, <1>was DEF GcUnlinks, MovesOn, Unlinkable, UnlinkDir, tempDisk, ledgerVars, PlaceInv
    <2> QED BY <2>1, <2>2
  <1>36. ASSUME NEW p \in Movers, GcWrites(p) PROVE scan'[q].at /= Foreign
    <2>1. CASE q /= p
      <3>1. place'[q] = place[q] /\ scan'[q] = scan[q]  BY <1>36, <2>1, <1>was DEF GcWrites, MovesOn, SaveLedger, NoScan, UnreadLedger, tempDisk, ledgerVars, PlaceInv
      <3> QED BY <3>1, <1>was
    <2>2. CASE q = p
      BY <1>36, <2>2, <1>was DEF GcWrites, MovesOn, SaveLedger, NoScan, UnreadLedger, tempDisk, ledgerVars, PlaceInv
    <2> QED BY <2>1, <2>2
  <1>37. ASSUME NEW p \in Movers, Dies(p) PROVE scan'[q].at /= Foreign
    <2>1. CASE q /= p
      <3>1. place'[q] = place[q] /\ scan'[q] = scan[q]  BY <1>37, <2>1, <1>was DEF Dies, UnreadLedger, NoScan, tempDisk, ledgerVars, PlaceInv
      <3> QED BY <3>1, <1>was
    <2>2. CASE q = p
      BY <1>37, <2>2, <1>was DEF Dies, UnreadLedger, NoScan, tempDisk, ledgerVars, PlaceInv
    <2> QED BY <2>1, <2>2
  <1>38. ASSUME NEW e \in TempDirs, Ages(e) PROVE scan'[q].at /= Foreign
    BY <1>38, <1>was DEF Ages
  <1>39. CASE UNCHANGED keptTempVars
    BY <1>39, <1>was DEF keptTempVars
  <1> QED
    BY <1>1, <1>2, <1>3, <1>4, <1>5, <1>6, <1>7, <1>8, <1>9, <1>10, <1>11, <1>12,
       <1>13, <1>14, <1>15, <1>16, <1>17, <1>18, <1>19, <1>20, <1>21, <1>22, <1>23, <1>24,
       <1>25, <1>26, <1>27, <1>28, <1>29, <1>30, <1>31, <1>32, <1>33, <1>34, <1>35, <1>36,
       <1>37, <1>38, <1>39
    DEF KeptTempNext, SweepNext, RunNext, LedgerNext

\* The inductive invariant.
HereInv == PlaceInv /\ ScanInv /\ AheadInv /\ InUseInv /\ AskedInv /\ MarkerInv
           /\ ListingInv /\ NotedInv /\ LedgerInv /\ ReadInv /\ ForeignInv

LEMMA KeptTempInitially == KeptTempInit => KeptTempTypeOK /\ HereInv
  <1> SUFFICES ASSUME KeptTempInit PROVE KeptTempTypeOK /\ HereInv  OBVIOUS
  <1> USE KeptTempAssumption, DirFacts
  <1>1. PICK was \in [OfEarlier -> {"nothing", "bare", "stale", "orphan", "kept"}], lines \in SUBSET OfEarlier,
             keeping \in SUBSET Keepers, starters \in SUBSET Movers :
               (\A d \in OfEarlier : was[d] \in Remains(d)) /\ KeptTempStart(was, lines, keeping, starters)
    BY DEF KeptTempInit
  <1>2. /\ keeps = keeping /\ place = [p \in Movers |-> IF p \in starters THEN "start" ELSE "done"]
        /\ making = [p \in Movers |-> NoDir] /\ native = [p \in Movers |-> NoDir]
        /\ scan = [p \in Movers |-> NoScan] /\ ledgerLock = "free" /\ loaded = [p \in Movers |-> UnreadLedger]
    BY <1>1 DEF KeptTempStart
  <1>3. /\ OfEarlier \subseteq TempDirs /\ present \subseteq OfEarlier /\ stale \subseteq OfEarlier
        /\ filled \subseteq OfEarlier
    BY <1>1 DEF KeptTempStart, OfEarlier
  <1>4. /\ ownerLock \in [TempDirs -> {"free", "absent"}]
        /\ \A d \in TempDirs : d \notin OfEarlier => ownerLock[d] = "absent"
    BY <1>1 DEF KeptTempStart
  <1>5. /\ ownerMarker \in [TempDirs -> {MarkerOf(Earlier, TRUE), MarkerOf(Earlier, FALSE), Unmarked}]
        /\ \A d \in TempDirs : d \notin OfEarlier => ownerMarker[d] = Unmarked
    <2>1. \A d \in TempDirs : \/ d \in OfEarlier /\ ownerMarker[d] = MarkerOf(Earlier, was[d] = "kept")
                              \/ ownerMarker[d] = Unmarked
      BY <1>1 DEF KeptTempStart
    <2>2. \A d \in OfEarlier : (was[d] = "kept") \in {TRUE, FALSE}  OBVIOUS
    <2>3. \A d \in TempDirs : ownerMarker[d] \in {MarkerOf(Earlier, TRUE), MarkerOf(Earlier, FALSE), Unmarked}
      BY <2>1, <2>2
    <2>4. ownerMarker = [d \in TempDirs |-> ownerMarker[d]]  BY <1>1 DEF KeptTempStart
    <2>5. \A d \in TempDirs : d \notin OfEarlier => ownerMarker[d] = Unmarked  BY <2>1
    <2> QED BY <2>3, <2>4, <2>5
  <1>6. /\ ledger \in [TempDirs -> {Earlier, "nobody"}] /\ recorded = ledger
        /\ \A d \in TempDirs : d \notin OfEarlier => ledger[d] = "nobody"
    BY <1>1 DEF KeptTempStart
  <1>7. \A r \in Keepers : \A d \in OwnOf(r) : d \in TempDirs /\ d \notin OfEarlier /\ d /= NoDir
    BY DEF OwnOf, OfEarlier, ScratchOf, NativeOf, TempDirs, NoDir
  <1>8. ownerMarker[Foreign] = Unmarked
    <2>1. Foreign \in OfEarlier /\ Remains(Foreign) = {"nothing", "bare"}  BY DEF Foreign, OfEarlier, Remains
    <2>2. was[Foreign] \in {"nothing", "bare"}  BY <1>1, <2>1
    <2> QED BY <1>1, <2>2 DEF KeptTempStart
  <1>9. \A r \in Keepers : \A d \in OwnOf(r) : ~Uses(r, d) /\ (~Ahead(r, d) <=> place[r] = "done")
    BY <1>2, <1>7 DEF Uses, Ahead, Movers, SweepPlaces
  <1>10. KeptTempTypeOK
    <2>1. /\ present \subseteq TempDirs /\ filled \subseteq TempDirs /\ stale \subseteq TempDirs
          /\ ownerLock \in [TempDirs -> Movers \cup {"free", "absent"}]
      BY <1>3, <1>4
    <2>2. {MarkerOf(Earlier, TRUE), MarkerOf(Earlier, FALSE), Unmarked}
            \subseteq [run : Keepers \cup {Earlier, "nobody"}, kept : BOOLEAN]
      BY DEF MarkerOf, Unmarked
    <2>3. ownerMarker \in [TempDirs -> [run : Keepers \cup {Earlier, "nobody"}, kept : BOOLEAN]]
      <3> DEFINE three == {MarkerOf(Earlier, TRUE), MarkerOf(Earlier, FALSE), Unmarked}
                 all == [run : Keepers \cup {Earlier, "nobody"}, kept : BOOLEAN]
      <3>1. ownerMarker \in [TempDirs -> three] /\ three \subseteq all  BY <1>5, <2>2
      <3> HIDE DEF three, all
      <3>2. ownerMarker \in [TempDirs -> all]  BY <3>1
      <3> QED BY <3>2 DEF all
    <2>4. {ledger, recorded} \subseteq [TempDirs -> Keepers \cup {Earlier, "nobody"}]  BY <1>6
    <2>5. /\ loaded \in [Movers -> [TempDirs -> Keepers \cup {Earlier, "nobody"}]]
          /\ ledgerLock \in Movers \cup {"free"} /\ keeps \subseteq Keepers
          /\ making \in [Movers -> TempDirs \cup {NoDir}] /\ native \in [Movers -> TempDirs \cup {NoDir}]
      BY <1>2 DEF UnreadLedger
    <2>6. scan \in [Movers -> [of : {"none", "scratch", "native", "ledger"}, left : SUBSET TempDirs,
                               at : TempDirs \cup {NoDir}, kept : SUBSET TempDirs]]
      BY <1>2 DEF NoScan
    <2> QED BY <2>1, <2>3, <2>4, <2>5, <2>6 DEF KeptTempTypeOK
  <1>11. PlaceInv
    BY <1>2 DEF PlaceInv, CollectorAt, KeeperAt, Movers, Standing, SweepPlaces, GcPlaces, EndPlaces
  <1>12. ScanInv /\ ForeignInv
    BY <1>2 DEF ScanInv, ForeignInv, NoScan, SweepPlaces, GcPlaces, Movers
  <1>13. AheadInv  BY <1>3, <1>4, <1>5, <1>7 DEF AheadInv
  <1>14. InUseInv  BY <1>9 DEF InUseInv
  <1>15. AskedInv  BY <1>2 DEF AskedInv
  <1>16. MarkerInv
    <2>1. \A d \in TempDirs : ownerMarker[d].kept => ownerMarker[d].run = Earlier /\ d \in OfEarlier
      BY <1>5 DEF MarkerOf, Unmarked
    <2>2. \A r \in Keepers : \A d \in OwnOf(r) : ~ownerMarker[d].kept  BY <2>1, <1>7
    <2> QED BY <1>8, <2>1, <2>2 DEF MarkerInv
  <1>17. ListingInv  BY <1>2 DEF ListingInv, NoScan
  <1>18. NotedInv  BY <1>2, <1>6, <1>7 DEF NotedInv, UnreadLedger
  <1>19. LedgerInv
    <2>1. LedgerIsKept  BY <1>6 DEF LedgerIsKept
    <2> QED BY <1>2, <2>1 DEF LedgerInv, Movers, GcPlaces
  <1>20. ReadInv  BY <1>2 DEF ReadInv, GcPlaces
  <1> QED BY <1>10, <1>11, <1>12, <1>13, <1>14, <1>15, <1>16, <1>17, <1>18, <1>19, <1>20 DEF HereInv

LEMMA KeptTempMoves == KeptTempTypeOK /\ HereInv /\ [KeptTempNext]_keptTempVars => KeptTempTypeOK' /\ HereInv'
  BY KeptTypesStep, PlaceStep, ScanStep, AheadStep, InUseStep, AskedStep, MarkerStep, ListingStep, NotedStep,
     LedgerStep, ReadStep, ForeignStep DEF HereInv

LEMMA WhatFollows == KeptTempTypeOK /\ HereInv => KeptIsKept
  <1> SUFFICES ASSUME KeptTempTypeOK, HereInv PROVE KeptIsKept  OBVIOUS
  <1> USE KeptTempAssumption, DirFacts DEF HereInv
  <1>1. ASSUME NEW p \in Movers, Sweeping(p) \/ (Collecting(p) /\ scan[p].at /= SharedNative), NEW r \in Keepers,
               Uses(r, scan[p].at)
        PROVE  FALSE
    <2> DEFINE d == scan[p].at
    <2>1. d /= SharedNative
      <3>1. CASE Sweeping(p)  BY <3>1 DEF Sweeping, ScanInv, SweepPlaces
      <3>2. CASE ~Sweeping(p)  BY <1>1, <3>2
      <3> QED BY <3>1, <3>2
    <2>2. d \in TempDirs  BY <1>1 DEF ScanInv, Sweeping, Collecting, SweepPlaces
    <2>3. d \in OwnOf(r)
      <3>1. d \in {ScratchOf(r), native[r], making[r]}  BY <1>1 DEF Uses
      <3>2. KeeperAt(r)  BY DEF PlaceInv
      <3> QED BY <2>1, <2>2, <3>1, <3>2 DEF KeeperAt, OwnOf
    <2>4. Over(r, d)
      <3>1. place[p] \in {"sweep_empty", "sweep_unlink", "gc_empty", "gc_unlink"}  BY <1>1 DEF Sweeping, Collecting
      <3> QED BY <2>3, <3>1 DEF AskedInv
    <2> QED BY <1>1, <2>4 DEF Over
  <1>2. RunningAreSpared  BY <1>1 DEF RunningAreSpared, InUse
  <1>3. KeptAreSpared  BY DEF KeptAreSpared, Sweeping, ListingInv, ScanInv, SweepPlaces
  <1>4. ForeignAreSpared
    <2> SUFFICES ASSUME NEW p \in Movers, Sweeping(p) \/ Collecting(p) PROVE scan[p].at /= Foreign
      BY DEF ForeignAreSpared
    <2>1. CASE Sweeping(p)  BY <2>1 DEF Sweeping, ScanInv, SweepPlaces
    <2>2. CASE Collecting(p)
      <3>1. p \in Collectors
        <4> SUFFICES ASSUME p \in Keepers PROVE FALSE  BY DEF Movers
        <4>1. KeeperAt(p)  BY DEF PlaceInv
        <4> QED BY <2>2, <4>1 DEF KeeperAt, Collecting, SweepPlaces, EndPlaces
      <3> QED BY <2>2, <3>1 DEF Collecting, ForeignInv
    <2> QED BY <2>1, <2>2
  <1> QED BY <1>2, <1>3, <1>4 DEF KeptIsKept, LedgerInv

\* Neither a sweep nor `cache gc` takes a directory that is in use, was kept when
\* it looked, or was never goatest's, and no line of the ledger is lost
\* (tempowner.Sweep and Keep, keptledger.Update, collectKeptTemporaries).
THEOREM KeptTempKept == KeptTempSpec => []KeptIsKept
  <1>1. KeptTempSpec => [](KeptTempTypeOK /\ HereInv)
    BY KeptTempInitially, KeptTempMoves, PTL DEF KeptTempSpec
  <1> QED BY <1>1, WhatFollows, PTL

=============================================================================
