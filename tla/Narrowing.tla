------------------------------ MODULE Narrowing ------------------------------
(***************************************************************************)
(* How a run decides which tests each mutant is measured against           *)
(* (internal/engine coverage.go, testcoverage.go, setverifier.go and       *)
(* probe.go over internal/coverage, internal/probe and internal/execute):  *)
(* coverage by binary or by test, a control for every set of tests, a      *)
(* probe pass for every binary, and the measurement that follows.  Every   *)
(* one of them may fail, and then the run measures more.                   *)
(*                                                                         *)
(* What the tests would do is fixed at the start: what a test reaches when *)
(* it runs alone, what its binary reaches as a whole, which binaries would *)
(* kill the mutant and which tests would do so by themselves.              *)
(***************************************************************************)
EXTENDS Integers, FiniteSets, FiniteSetsExt

CONSTANTS
  CatalogMutants,  \* the mutants of the catalogue
  Tests            \* the tests, as pairs of a binary and a name

Bins == {t[1] : t \in Tests}
TestsIn(b) == {t \in Tests : t[1] = b}
BinsOf(ts) == {t[1] : t \in ts}

ASSUME TestsAssumption == IsFiniteSet(Tests)

VARIABLES
  narrowing, \* how the run was configured and which mutants it selected
  suite,     \* what the tests would do, mutant by mutant and by themselves
  nwAt,      \* the phase the run is in
  target,    \* each selected mutant: its binaries (empty: all), its tests, if any
  passes,    \* what each binary's probe pass said
  tree,      \* the probe tree: pristine, written to, and whether a pass used it so
  found,     \* each selected mutant's verdict
  refused    \* the infection logs were refused as inconsistent

narrowingVars == <<narrowing, suite, nwAt, target, passes, tree, found, refused>>

Waiting == [state |-> "waiting", named |-> {}]
Unmeasured == [state |-> "unmeasured", named |-> {}]
LoggedAs(log) == [state |-> "measured", named |-> log]

\* The ways a mutant can stand to the tests: a binary that kills it reaches it
\* and is infected by it, a test that kills it by itself reaches it alone, and
\* what a test reaches alone its binary reaches.
Manners ==
  {r \in [alone : SUBSET Tests, reach : SUBSET Bins, infects : SUBSET Bins,
          kill : SUBSET Bins, fails : SUBSET Tests] :
     /\ BinsOf(r.alone) \subseteq r.reach
     /\ r.infects \subseteq r.reach /\ r.kill \subseteq r.infects
     /\ r.fails \subseteq r.alone /\ BinsOf(r.fails) \subseteq r.kill}

Unreached == [alone |-> {}, reach |-> {}, infects |-> {}, kill |-> {}, fails |-> {}]

\* What a test reaches in its suite it reaches alone.
Steady == \A m \in CatalogMutants : suite.manner[m].reach = BinsOf(suite.manner[m].alone)

WholeTarget == [bins |-> {}, tests |-> {}]

NarrowingStart(o, s) ==
  /\ narrowing = o /\ suite = s
  /\ nwAt = "build"
  /\ target = [m \in o.selected |-> WholeTarget]
  /\ passes = [b \in Bins |-> Waiting]
  /\ tree = [dirty |-> FALSE, spoilt |-> FALSE]
  /\ found = [m \in o.selected |-> "none"]
  /\ refused = FALSE

-----------------------------------------------------------------------------
(* Coverage *)

Continue(to) == nwAt' = to
AfterCoverage == IF narrowing.probing /\ narrowing.selected /= {} THEN "probe" ELSE "measure"

\* buildTestBinaries: a tree that does not compile with -cover is built plain.
BuildTestBinaries ==
  /\ nwAt = "build"
  /\ \/ narrowing.coverage = "off" /\ Continue(AfterCoverage)
     \/ narrowing.coverage /= "off" /\ narrowing.selected = {} /\ Continue(AfterCoverage)
     \/ narrowing.coverage /= "off" /\ narrowing.selected /= {} /\ Continue("profile")
     \/ narrowing.coverage /= "off" /\ Continue(AfterCoverage)
  /\ UNCHANGED <<narrowing, suite, target, passes, tree, found, refused>>

\* unavailable: a profile that cannot be taken or read, or that names no file
\* of the module, and nothing is narrowed: every binary is measured.
CoverageUnavailable ==
  /\ nwAt = "profile"
  /\ Continue(AfterCoverage)
  /\ UNCHANGED <<narrowing, suite, target, passes, tree, found, refused>>

\* recordUncovered and recordUnobserved: survivors that nothing was run for.
Settles(dead) ==
  found' = [m \in narrowing.selected |-> IF m \in dead THEN "survived" ELSE found[m]]

\* CollectCoverage: the mutants on the lines that the binary reaches as a whole.
BinaryProfile(b) == {m \in CatalogMutants : b \in suite.manner[m].reach}

\* CollectTestCoverage: the same for a test that runs alone, if it passes so.
TestProfile(t) == IF t \in suite.solo THEN {m \in CatalogMutants : t \in suite.manner[m].alone} ELSE {}

\* coverage.Map over the profiles of the binaries bs.
CoveringOf(m, bs) == {b \in bs : m \in BinaryProfile(b)}

\* coveragePhase and narrow: every mutant keeps the binaries that cover it.
CoverageOfBinaries ==
  /\ nwAt = "profile" /\ narrowing.coverage = "package"
  /\ target' = [m \in narrowing.selected |-> [bins |-> CoveringOf(m, Bins), tests |-> {}]]
  /\ Settles({m \in narrowing.selected : CoveringOf(m, Bins) = {}})
  /\ Continue(AfterCoverage)
  /\ UNCHANGED <<narrowing, suite, passes, tree, refused>>

\* A binary with a test that fails alone, or with no test, is taken as a whole.
Whole == {b \in Bins : ~(TestsIn(b) \subseteq suite.solo)}

\* MapTests and narrowingPlans: the tests of the other binaries that cover m.
PlanOf(m) == {t \in Tests : t[1] \notin Whole /\ m \in TestProfile(t)}

\* coveringBinaries
CoveringBinaries(m) == BinsOf(PlanOf(m)) \cup CoveringOf(m, Whole)

\* RunControl over a set of tests with no mutant: tests that clash fail in it.
ControlPasses(ts) ==
  /\ \A b \in Bins : b \in suite.clash => Cardinality(ts \cap TestsIn(b)) < 2
  /\ ts \subseteq suite.solo

\* MUTANT: the control's answer is not asked for.
ReliableAlways(ts, answered) == TRUE

\* setVerifier: one test that passed alone is its own control; any other set
\* is run once with no mutant, which may also not come to an answer.
Reliable(ts, answered) ==
  \/ Cardinality(ts) = 1
  \/ answered /\ ControlPasses(ts)

\* narrowToTests and decideRuns: a set that is not reliable is dropped, and
\* the binaries of it stay.
CoverageOfTests ==
  /\ nwAt = "profile" /\ narrowing.coverage = "test"
  /\ \E answered \in BOOLEAN :
       target' = [m \in narrowing.selected |->
                    [bins |-> CoveringBinaries(m),
                     tests |-> IF Reliable(PlanOf(m), answered) THEN PlanOf(m) ELSE {}]]
  /\ Settles({m \in narrowing.selected : CoveringBinaries(m) = {}})
  /\ Continue(AfterCoverage)
  /\ UNCHANGED <<narrowing, suite, passes, tree, refused>>

-----------------------------------------------------------------------------
(* Probing *)

Running == {m \in narrowing.selected : found[m] = "none"}

\* probeTree fails: every mutant is measured.
ProbeTreeFails ==
  /\ nwAt = "probe"
  /\ Continue("measure")
  /\ UNCHANGED <<narrowing, suite, target, passes, tree, found, refused>>

NextPass == {b \in Bins : passes[b] = Waiting}

\* The mutants whose probe is in the tree: those that have a probe form, without
\* the ones that the validation of the probe tree bisected out of it.
InProbeTree == narrowing.probed \ suite.rejected

\* RunProbe in a pristine tree: every mutant of the whole catalogue in the tree
\* that the binary is infected by.  In a tree another pass wrote to, any of them.
InfectionLogs(b) ==
  IF tree.dirty THEN SUBSET InProbeTree
  ELSE {{m \in InProbeTree : b \in suite.manner[m].infects}}

\* probePasses, one binary measured: the tree is put back after it.
ProbeMeasured ==
  /\ nwAt = "probe" /\ Running /= {}
  /\ \E b \in NextPass : \E log \in InfectionLogs(b) :
       passes' = [passes EXCEPT ![b] = LoggedAs(log)]
  /\ tree' = [dirty |-> FALSE, spoilt |-> tree.spoilt \/ tree.dirty]
  /\ UNCHANGED <<narrowing, suite, nwAt, target, found, refused>>

\* A pass that failed, timed out or could not write its log: nothing is known
\* of the binary, and what it wrote into the tree stays.
ProbeUnmeasured ==
  /\ nwAt = "probe" /\ Running /= {}
  /\ \E b \in NextPass : passes' = [passes EXCEPT ![b] = Unmeasured]
  /\ tree' = [dirty |-> tree.dirty \/ suite.writes, spoilt |-> tree.spoilt \/ tree.dirty]
  /\ UNCHANGED <<narrowing, suite, nwAt, target, found, refused>>

\* The tree cannot be put back after a pass: what the passes said is dropped.
RestoreProbeTreeFails ==
  /\ nwAt = "probe" /\ \E b \in Bins : passes[b].state = "measured"
  /\ Continue("measure")
  /\ UNCHANGED <<narrowing, suite, target, passes, tree, found, refused>>

Named(b) == passes[b].named

\* The binaries of m that may observe it, as Settle keeps them.
Keep(m) == {b \in target[m].bins : passes[b] = Unmeasured \/ m \in Named(b)}

\* Settle refuses a log that names a mutant the run does not measure.
SettleRefuses ==
  /\ nwAt = "probe" /\ NextPass = {}
  /\ \E b \in Bins : ~(Named(b) \subseteq Running)
  /\ refused' = TRUE
  /\ Continue("measure")
  /\ UNCHANGED <<narrowing, suite, target, passes, tree, found>>

\* Settle and applyProbe: a probed mutant that no covering binary named is
\* settled; one that some did not name leaves those out, and their tests.  The
\* probed mutants are those with a form (candidatesOf): what the validation of
\* the probe tree rejected is not handed on, and is settled by its silence.
ApplyProbe ==
  LET decided == {m \in Running \cap narrowing.probed : target[m].bins /= {}}
  IN /\ nwAt = "probe" /\ (NextPass = {} \/ Running = {})
     /\ \A b \in Bins : Named(b) \subseteq Running
     /\ target' = [m \in narrowing.selected |->
                     IF m \in decided /\ Keep(m) /= {}
                     THEN [bins |-> Keep(m), tests |-> {t \in target[m].tests : t[1] \in Keep(m)}]
                     ELSE target[m]]
     /\ Settles({m \in decided : Keep(m) = {}})
     /\ Continue("measure")
     /\ UNCHANGED <<narrowing, suite, passes, tree, refused>>

-----------------------------------------------------------------------------
(* The measurement *)

\* A pass over the binaries bs that runs only the tests ts where it has some.
PassKills(m, bs, ts) ==
  \E b \in bs : IF ts \cap TestsIn(b) = {} THEN b \in suite.manner[m].kill
                ELSE \/ suite.manner[m].fails \cap ts \cap TestsIn(b) /= {}
                     \/ ~ControlPasses(ts \cap TestsIn(b))

\* RunOne for every mutant that is left: a survivor of its tests is measured
\* again with the whole of its binaries.
Measure ==
  /\ nwAt = "measure"
  /\ found' = [m \in narrowing.selected |->
       IF found[m] /= "none" THEN found[m]
       ELSE LET bs == IF target[m].bins = {} THEN Bins ELSE target[m].bins
            IN IF PassKills(m, bs, target[m].tests) \/ PassKills(m, bs, {})
               THEN "killed" ELSE "survived"]
  /\ Continue("done")
  /\ UNCHANGED <<narrowing, suite, target, passes, tree, refused>>

NarrowingNext ==
  \/ BuildTestBinaries \/ CoverageUnavailable \/ CoverageOfBinaries \/ CoverageOfTests
  \/ ProbeTreeFails \/ ProbeMeasured \/ ProbeUnmeasured \/ RestoreProbeTreeFails
  \/ SettleRefuses \/ ApplyProbe \/ Measure

\* The ways a run may be configured, and the ways its tests may behave.
NarrowingOptions ==
  [selected : SUBSET CatalogMutants, coverage : {"off", "package", "test"},
   probing : BOOLEAN, probed : SUBSET CatalogMutants]
TestSuites ==
  [manner : [CatalogMutants -> Manners], solo : SUBSET Tests, clash : SUBSET Bins,
   writes : BOOLEAN, rejected : SUBSET CatalogMutants]

NarrowingSpec ==
  /\ \E o \in NarrowingOptions, s \in TestSuites : NarrowingStart(o, s)
  /\ [][NarrowingNext]_narrowingVars

-----------------------------------------------------------------------------
(* Properties *)

Verdict(m) == IF suite.manner[m].kill /= {} THEN "killed" ELSE "survived"

\* The mutants that no log can name and that the run takes to be probed: their
\* probe was rejected from the probe tree.  They may be settled, or lose the
\* binary that kills them, where ADR 0011 says they only lose their probe.
Silent == IF narrowing.probing THEN narrowing.probed \cap suite.rejected ELSE {}

\* However the run narrowed, whatever of it failed and whichever binaries a
\* probe ruled out, a mutant has the verdict that every binary measured as a
\* whole would have given it, provided that a test reaches alone what it
\* reaches in its suite, that no pass ran in a tree another one wrote to and
\* that its probe was not rejected; and a kill is a kill whatever its probe.
VerdictIsUnnarrowed ==
  nwAt = "done" /\ Steady /\ ~tree.spoilt =>
    \A m \in narrowing.selected :
      /\ m \notin Silent => found[m] = Verdict(m)
      /\ found[m] = "killed" => Verdict(m) = "killed"

\* What the probe phase settles without a run is settled by binaries that all
\* answered: a mutant in the probe tree that some binary would kill is never
\* settled, even where the coverage of the tests cannot be trusted.
SettledIsUnobservable ==
  ~tree.spoilt /\ narrowing.coverage /= "test" =>
    \A m \in narrowing.selected \ Silent : found[m] = "survived" => suite.manner[m].kill = {}

\* Narrowing changes no verdict.
VerdictsAreUnnarrowed == VerdictIsUnnarrowed /\ SettledIsUnobservable

=============================================================================
