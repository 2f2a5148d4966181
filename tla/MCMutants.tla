------------------------------ MODULE MCMutants ------------------------------
(***************************************************************************)
(* The life of a mutant, in one run of TLC: how discovery proposes it and   *)
(* the catalogue selects it, how it is spliced in and counted, validated,   *)
(* bounded, narrowed to the tests that reach it, and explained.  The parts  *)
(* share no state: a behaviour chooses its part, and the variables of the   *)
(* others rest.                                                             *)
(***************************************************************************)
EXTENDS Narrowing, Integers, Sequences, FiniteSets, TLC

VARIABLES
  part,
  place, cond, bare, walked, proposed, loopShape,
  asked, repo, edits, at, modules, changed, snap, moved, catalog, chosen,
  treeMode, selected, file, texts, loopBase, counted, fault,
  rtPhase, gor, most, opened, seenMax, gone, census, limit, stopped,
  probeAt, probeSeen, infectionLog, probeExit,
  conflicts, sick, vAt, spliced, pending, blamed, condemned, rounds,
  project, observed, peak, limits, batch, granted,
  fate, stored, seq, events, openStages, stages, work, executions

discoverVars == <<place, cond, bare, walked, proposed, loopShape>>
catalogueVars == <<asked, repo, edits, at, modules, changed, snap, moved, catalog, chosen>>
instrumentVars == <<treeMode, selected, file, texts, loopBase, counted, fault>>
countVars == <<rtPhase, gor, most, opened, seenMax, gone, census, limit, stopped>>
probeVars == <<probeAt, probeSeen, infectionLog, probeExit>>
validateVars == <<conflicts, sick, vAt, spliced, pending, blamed, condemned, rounds>>
limitsVars == <<project, observed, peak, limits, batch, granted>>
explainVars == <<fate, stored, seq, events, openStages, stages, work, executions>>
mutantVars ==
  <<part, discoverVars, catalogueVars, instrumentVars, countVars, probeVars, validateVars,
    limitsVars, narrowingVars, explainVars>>

-----------------------------------------------------------------------------
(* Discovery: conditions up to two operators deep. *)

A == <<"name", "a">>
B == <<"name", "b">>
X == <<"name", "x">>
Y == <<"name", "y">>
K == <<"const", 1>>
Ints == {X, <<"bin", "*", X, Y>>, <<"bin", "*", X, K>>, <<"bin", "/", X, Y>>, <<"bin", "+", X, K>>}
Leaves == {A, <<"call">>, <<"isnt", "e">>, <<"bool", TRUE>>}
          \cup {<<"cmp", op, v, Y>> : op \in {"<=", ">"}, v \in Ints}
Shallow == Leaves \cup {<<"not", e>> : e \in Leaves}
           \cup {<<o, e, f>> : o \in {"and", "or"}, e \in Leaves, f \in {B, <<"call">>, <<"cmp", ">=", X, Y>>}}
Deep == {<<"not", <<"or", e, B>>>> : e \in Leaves} \cup {<<o, B, <<"or", e, B>>>> : o \in {"and", "or"}, e \in Leaves}
SomeConditions == Shallow \cup Deep

Discovery == INSTANCE Discover WITH
  Conditions <- SomeConditions, IntWidth <- 3,
  Places <- {"if", "for", "case", "tagged", "value", "const"}

(* The catalogue: two modules, three files, one with a space in its name. *)

SomeFiles == {<<".", "x">>, <<".", "s p">>, <<"m", "x">>}
NamesInOrder == <<"", ".", "m", "x", "s p", "s p\t", "mod/m", "mod/r", "0", "1">>
GitPrints == [n \in {"x", "s p"} |-> IF n = "x" THEN "x" ELSE "s p\t"]
ModulePaths == [d \in {".", "m"} |-> IF d = "." THEN "mod/r" ELSE "mod/m"]
NoWork == [there |-> FALSE, uses |-> <<>>, replaces |-> {}]
WorkOf(u, r) == [there |-> TRUE, uses |-> u, replaces |-> r]
SomeWork == {NoWork, WorkOf(<<"m", ".">>, {}), WorkOf(<<"m">>, {"m"}), WorkOf(<<"m", "m">>, {}), WorkOf(<<>>, {})}
NoPrefix == [length |-> 0, value |-> 0]
SomeAsks ==
  [command : {"run"}, changed : {"upstream", "named"}, prefix : {NoPrefix}]
  \cup [command : {"run", "list"}, changed : {"none"}, prefix : {NoPrefix} \cup [length : {2, 5}, value : {1, 2}]]
SomeRules == <<[family |-> "f1", name |-> "r1", tier |-> 0], [family |-> "f2", name |-> "r2", tier |-> 1],
               [family |-> "f2", name |-> "r3", tier |-> 1]>>
Full == [tier |-> 1, operators |-> <<>>, excluded |-> {}]
SomeConfigs == {Full, [tier |-> 0, operators |-> <<"f2", "r2">>, excluded |-> {}],
                [tier |-> 0, operators |-> <<"r9">>, excluded |-> {}],
                [tier |-> 0, operators |-> <<>>, excluded |-> {<<"m", "x">>}]}
SiteOf(l, o, f, t, r, p) == [line |-> l, over |-> o, from |-> f, to |-> t, rule |-> r, repl |-> p]
SomeSites ==
  {SiteOf(1, 0, 1, 3, "r1", "0"), SiteOf(1, 0, 1, 3, "r2", "0"), SiteOf(1, 0, 1, 3, "r3", "1"),
   SiteOf(2, 1, 4, 5, "r1", "1"), SiteOf(3, 0, 1, 2, "r2", "1"), SiteOf(5, 0, 1, 2, "r1", "0"),
   SiteOf(8, 0, 2, 4, "r1", "0"), SiteOf(4, 0, 1, 2, "r1", "0")}
Committed == (<<".", "x">> :> <<1, 2, 3>>) @@ (<<".", "s p">> :> <<>>) @@ (<<"m", "x">> :> <<1, 2>>)
Trees == {(<<".", "x">> :> a) @@ (<<".", "s p">> :> <<1, 5>>) @@ (<<"m", "x">> :> c) :
            a \in {<<1, 2, 3>>, <<1, 3>>, <<6, 1, 2, 5, 3>>, <<6, 8>>, <<>>, <<2, 4>>},
            c \in {<<1, 2>>, <<1, 2, 3>>}}
SetupOf(r, t, w, c, u) == [base |-> Committed, tracked |-> r, tree |-> t, work |-> w, cfg |-> c, upstream |-> u]
\* A workspace whose only module is not at its root, and an edit in that module.
InAWorkspace ==
  SetupOf(SomeFiles, [Committed EXCEPT ![<<"m", "x">>] = <<1, 2, 5>>], WorkOf(<<"m">>, {}), Full, TRUE)
SomeSetups ==
  {InAWorkspace} \cup
  {SetupOf(r, t, w, Full, TRUE) :
     r \in {SomeFiles, {<<".", "s p">>, <<"m", "x">>}}, t \in Trees, w \in {NoWork, WorkOf(<<"m", ".">>, {})}}
  \cup {SetupOf(SomeFiles, Committed, w, c, FALSE) : w \in SomeWork, c \in SomeConfigs}
SomeEdits == {<<<<".", "x">>, <<1, 2, 3, 4>>>>, <<<<".", "x">>, <<>>>>}
\* Six bits of an identity, so that two mutants may share a prefix.
SomeRank(n) == CHOOSE k \in DOMAIN NamesInOrder : NamesInOrder[k] = n
HashOf(i) ==
  (i.span[1] + 7 * i.span[2] + 13 * SomeRank(i.repl) + 5 * SomeRank(i.module)
   + 3 * SomeRank(i.path[2]) + 11 * Len(i.source)) % 64

Selection == INSTANCE Catalogue WITH
  Locations <- SomeFiles, Names <- NamesInOrder, PrintedAs <- GitPrints, ModAt <- ModulePaths,
  Registry <- SomeRules, Sites <- SomeSites, HeaderLike <- {6}, Decoy <- <<"m", "x">>,
  Unended <- {4}, Setups <- SomeSetups, Edits <- SomeEdits, MaxEdits <- 1,
  IDLength <- 6, DisplayLength <- 5, Asks <- SomeAsks, Hash <- HashOf

(* Instrumentation: a file with nested sites and a loop, and a bare loop twice. *)

Source1 == <<"x", ":=", "a", "+", "b", "nl",                       \* 1-6
             "y", "=", "g", "(", "func{", "nl",                    \* 7-12
             "for", "i", "<", "n", "{", "nl",                      \* 13-18
             "i", "++", "nl", "}", "nl", "}", ")", "+", "c", "nl", \* 19-28
             "return", "x", ",", "y", "nl">>                       \* 29-33
Source2 == <<"for", "{", "nl", "z", "++", "nl", "}", "nl">>
NoProbe == [form |-> "none", span |-> <<0, 0>>]
ProbeOf(form, span) == [form |-> form, span |-> span]
MutantOf(site, edit, by, form, undeclare, probe, operands) ==
  [site |-> site, edit |-> edit, by |-> by, form |-> form, undeclare |-> undeclare,
   probe |-> probe, operands |-> operands]
Declares == {<<2, <<"=">>>>}
Operands == <<<<29, 30>>, <<31, 32>>>>
Mutants1 ==
  <<MutantOf(<<0, 5>>, <<3, 4>>, <<"-">>, "D", Declares, ProbeOf("value", <<2, 5>>), <<>>),
    MutantOf(<<0, 5>>, <<2, 5>>, <<"0">>, "D", Declares, ProbeOf("value", <<2, 5>>), <<>>),
    MutantOf(<<6, 27>>, <<25, 26>>, <<"-">>, "S", {}, NoProbe, <<>>),
    MutantOf(<<6, 27>>, <<6, 27>>, <<>>, "S", {}, ProbeOf("reach", <<6, 27>>), <<>>),
    MutantOf(<<13, 16>>, <<14, 15>>, <<"<=">>, "C", {}, ProbeOf("bool", <<13, 16>>), <<>>),
    MutantOf(<<13, 16>>, <<13, 16>>, <<"false">>, "C", {}, ProbeOf("bool", <<13, 16>>), <<>>),
    MutantOf(<<18, 20>>, <<19, 20>>, <<"--">>, "S", {}, NoProbe, <<>>),
    MutantOf(<<28, 32>>, <<29, 30>>, <<"0">>, "S", {}, ProbeOf("return", <<28, 32>>), Operands),
    MutantOf(<<28, 32>>, <<31, 32>>, <<"0">>, "S", {}, ProbeOf("return", <<28, 32>>), Operands),
    MutantOf(<<15, 20>>, <<18, 20>>, <<>>, "S", {}, NoProbe, <<>>)>>
Mutants2 == <<MutantOf(<<3, 5>>, <<4, 5>>, <<"--">>, "S", {}, NoProbe, <<>>)>>
SourceFiles ==
  <<[source |-> Source1, loops |-> <<<<12, 17>>>>, mutants |-> Mutants1],
    [source |-> Source2, loops |-> <<<<0, 2>>>>, mutants |-> Mutants2],
    [source |-> Source2, loops |-> <<<<0, 2>>>>, mutants |-> Mutants2]>>
LineEnds == {"a", "b", "c", "n", "x", "y", "++", "}", ")", "--", "0", "false", "return"}

Splicing == INSTANCE Instrument WITH Files <- SourceFiles, EndsLine <- LineEnds

InstrumentInit ==
  \E mode \in {"mutant", "probe"}, c \in SUBSET {1},
     b \in {m \in SUBSET (1..10) : Cardinality(m) < 3} \cup {1..9} :
    Splicing!InstrumentStart(mode, <<b, c, {1}>>)

\* The generated runtime: three goroutines of two processes count one loop, and
\* three probes report two mutants.
GoroutinesIn == ("g1" :> "p") @@ ("g2" :> "p") @@ ("g3" :> "q")
ProbesOf == ("h1" :> 1) @@ ("h2" :> 1) @@ ("h3" :> 2)

Generated == INSTANCE Runtime WITH
  Goroutines <- {"g1", "g2", "g3"}, ProcessOf <- GoroutinesIn, Probes <- ProbesOf,
  MaxUint <- 31, DivergenceFactor <- 7, DivergenceFloor <- 5,
  MaxIterations <- ("g1" :> 6) @@ ("g2" :> 6) @@ ("g3" :> 3), MaxFaulty <- 1

\* Validation: five mutants of one file and one of another, and at most two
\* groups of them that do not compile together.
MutantsOfFiles == 1 :> <<1, 2, 3, 4, 5>> @@ 2 :> <<6>>
Groups == {s \in SUBSET (1..6) : Cardinality(s) \in {1, 2}}

Validation == INSTANCE Validate WITH Catalogued <- MutantsOfFiles, LinearThreshold <- 2

ValidateInit ==
  \E bad \in {{}} \cup {{a, b} : a \in Groups, b \in Groups}, s \in BOOLEAN :
    /\ s => Cardinality(bad) = 2
    /\ Validation!ValidateStart(bad, s)

\* Limits: small numbers of a clock and a memory, in integers of eight bits.
SomeProjects ==
  [work : {1, 2}, compile : {2}, peak : {1}, obeys : BOOLEAN, cached : [1..3 -> BOOLEAN],
   timeout : {0, 2, 4}, memory : {0, 1}, supported : BOOLEAN]
Durations == [base : {3, 70}, probe : {0, 70}]
NoBatch == [targets |-> <<>>, suite |-> 0, probe |-> 0, limit |-> 0, requested |-> 0, fuzz |-> FALSE]
SomeBatches ==
  {NoBatch} \cup
  [targets : {<<t>> : t \in Durations} \cup {<<t, u>> : t \in Durations, u \in Durations},
   suite : {0, 100}, probe : {90}, limit : {0, 50}, requested : {0, 1}, fuzz : {FALSE}]
  \cup {[NoBatch EXCEPT !.targets = <<t>>, !.suite = 100, !.probe = 90, !.requested = 1, !.fuzz = TRUE] : t \in Durations}

Bounding == INSTANCE Limits WITH
  MaxInt <- 127, MaxBaselineRuns <- 3, BaselineCap <- 5, MinDerivedTimeout <- 2,
  TimeoutFactor <- 5, MinDerivedMemory <- 3, MemoryFactor <- 4,
  Projects <- SomeProjects, Batches <- SomeBatches

\* Narrowing: three tests of two binaries, and two mutants.  The first stands to
\* the tests in every way, the second in two.
SomeTests == {<<"b1", 1>>, <<"b1", 2>>, <<"b2", 1>>}

Common == [alone |-> {<<"b1", 1>>}, reach |-> {"b1"}, infects |-> {"b1"}, kill |-> {}, fails |-> {}]
SomeManners == Manners
NarrowOptions ==
  {o \in NarrowingOptions :
     /\ o.selected \in {{1}, {1, 2}} /\ o.probed \in {{1}, {1, 2}}
     /\ o.probed = {1, 2} \/ (o.probing /\ o.selected = {1, 2})
     /\ o.selected = {1, 2} \/ (o.probing /\ o.coverage = "test")}
\* Tests that answer alone, binaries whose tests clash, whether tests write, and
\* the mutants whose probe does not compile.
Suites == {<<Tests, {}, FALSE, {}>>, <<Tests, {"b1"}, FALSE, {}>>,
           <<Tests \ {<<"b1", 1>>}, {}, FALSE, {}>>, <<Tests, {}, TRUE, {}>>,
           <<Tests, {}, TRUE, {1}>>}

NarrowingInit ==
  \E o \in NarrowOptions, m \in SomeManners, n \in {Unreached, Common}, q \in Suites :
    NarrowingStart(o, [manner |-> <<m, n>>, solo |-> q[1], clash |-> q[2],
                       writes |-> q[3], rejected |-> q[4]])

\* Explanations: two mutants of this run and one that was rejected, and three
\* runs in the history.
Account == INSTANCE Explain WITH
  ThisRun <- <<1, 1>>, History <- <<<<1, 2>>, <<1, 1>>, <<2, 1>>>>,
  Explained <- {<<1, 1>>, <<1, 2>>}, Refused <- {<<2, 1>>}, Workers <- {1, 2},
  Asks <- [run : {<<>>, <<1>>, <<1, 1>>}, subject : {<<1, 1>>, <<1, 2>>, <<1>>, <<2>>}, trace : BOOLEAN],
  MaxSeq <- 7, MaxLost <- 1

-----------------------------------------------------------------------------

Parts == {"discover", "catalogue", "instrument", "count", "probe", "validate", "limits", "narrow", "explain"}
Rest == "rest"

DiscoverRests ==
  /\ place = Rest /\ cond = Rest /\ bare = Rest /\ walked = Rest /\ proposed = Rest
  /\ loopShape = Rest
CatalogueRests ==
  /\ asked = Rest /\ repo = Rest /\ edits = Rest /\ at = Rest /\ modules = Rest
  /\ changed = Rest /\ snap = Rest /\ moved = Rest /\ catalog = Rest /\ chosen = Rest
InstrumentRests ==
  /\ treeMode = Rest /\ selected = Rest /\ file = Rest /\ texts = Rest /\ loopBase = Rest
  /\ counted = Rest /\ fault = Rest
RuntimeRests ==
  /\ rtPhase = Rest /\ gor = Rest /\ most = Rest /\ opened = Rest /\ seenMax = Rest
  /\ gone = Rest /\ census = Rest /\ limit = Rest /\ stopped = Rest /\ probeAt = Rest
  /\ probeSeen = Rest /\ infectionLog = Rest /\ probeExit = Rest
ValidateRests ==
  /\ conflicts = Rest /\ sick = Rest /\ vAt = Rest /\ spliced = Rest /\ pending = Rest
  /\ blamed = Rest /\ condemned = Rest /\ rounds = Rest
LimitsRests ==
  /\ project = Rest /\ observed = Rest /\ peak = Rest /\ limits = Rest /\ batch = Rest
  /\ granted = Rest
NarrowingRests ==
  /\ narrowing = [selected |-> {}, coverage |-> "off", probing |-> FALSE, probed |-> {}]
  /\ suite = Rest /\ nwAt = Rest /\ target = Rest /\ passes = Rest
  /\ tree = [dirty |-> FALSE, spoilt |-> FALSE] /\ found = Rest /\ refused = Rest
ExplainRests ==
  /\ fate = Rest /\ stored = Rest /\ seq = Rest /\ events = Rest /\ openStages = Rest
  /\ stages = Rest /\ work = Rest /\ executions = Rest

MutantInit ==
  /\ part \in Parts
  /\ IF part = "discover" THEN Discovery!DiscoverStart ELSE DiscoverRests
  /\ IF part = "catalogue" THEN Selection!CatalogueInit ELSE CatalogueRests
  /\ IF part = "instrument" THEN InstrumentInit ELSE InstrumentRests
  /\ IF part \in {"count", "probe"} THEN Generated!RuntimeInit ELSE RuntimeRests
  /\ IF part = "validate" THEN ValidateInit ELSE ValidateRests
  /\ IF part = "limits" THEN Bounding!LimitsInit ELSE LimitsRests
  /\ IF part = "narrow" THEN NarrowingInit ELSE NarrowingRests
  /\ IF part = "explain" THEN Account!ExplainInit ELSE ExplainRests

MutantNext ==
  /\ UNCHANGED part
  /\ IF part = "discover" THEN Discovery!DiscoverNext ELSE UNCHANGED discoverVars
  /\ IF part = "catalogue" THEN Selection!CatalogueNext ELSE UNCHANGED catalogueVars
  /\ IF part = "instrument" THEN Splicing!InstrumentNext ELSE UNCHANGED instrumentVars
  /\ CASE part = "count" -> Generated!CountNext
       [] part = "probe" -> Generated!ProbeNext
       [] OTHER -> UNCHANGED <<countVars, probeVars>>
  /\ IF part = "validate" THEN Validation!ValidateNext ELSE UNCHANGED validateVars
  /\ IF part = "limits" THEN Bounding!LimitsNext ELSE UNCHANGED limitsVars
  /\ IF part = "narrow" THEN NarrowingNext ELSE UNCHANGED narrowingVars
  /\ IF part = "explain" THEN Account!ExplainNext ELSE UNCHANGED explainVars

MutantSpec == MutantInit /\ [][MutantNext]_mutantVars

\* The workspace of the module that is not at its root, alone.
ChangedSpec ==
  /\ part = "catalogue" /\ repo = InAWorkspace /\ MutantInit
  /\ [][MutantNext]_mutantVars

-----------------------------------------------------------------------------
(* Properties.  The named parts are stated in the modules of the parts, and *)
(* Narrowing's VerdictsAreUnnarrowed as its module states it.               *)

\* What discovery says of a candidate is so: a branch it calls gated, a panic it
\* says a mutant introduces, a loop it says ends or never returns.
DiscoveryIsRight == part = "discover" => Discovery!ProofsHold /\ Discovery!VerdictsHold

\* The catalogue and its identifiers depend on the sources alone, and the
\* mutants on changed lines are the ones selected.
SelectionIsRight == part = "catalogue" => Selection!CatalogueIsCanonical /\ Selection!ChangedAreSelected

\* The spliced file is the original program when no mutant is active, and the
\* mutated program when one is.
ReadsAsTheProgram == part = "instrument" => Splicing!ReadsAsTheProgram

\* No ceiling ends the original program, and no infection is left out of a log
\* that is complete.
RuntimeIsRight ==
  /\ part = "count" => Generated!OriginalIsSpared
  /\ part = "probe" => Generated!InfectionsAreLogged

\* The mutants that validation accepts build together.
AcceptedIsWhatBuilds == part = "validate" => Validation!AcceptedIsWhatBuilds

\* The derived limits let the original program finish.
TheOriginalFits == part = "limits" => Bounding!TheOriginalFits

\* An explanation tells what the run recorded of its mutant.
AccountIsTrue == part = "explain" => Account!AccountIsTrue

\* docs/architecture.md:1118-1121: a narrowing to changed lines does not
\* silently measure nothing.
ANarrowingMeasures == part = "catalogue" => Selection!ANarrowingMeasures
=============================================================================
