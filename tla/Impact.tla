------------------------------- MODULE Impact -------------------------------
(***************************************************************************)
(* goatest run --changed over a history of edits, commits and runs: which  *)
(* targets the impact graph selects for the files that differ from the     *)
(* reference, and how a partial run is merged into the graph the next one  *)
(* reads (goatest/internal/assure/impact.go, evidence/graph.go).           *)
(*                                                                         *)
(* A tree holds a content or nothing for each file, and a content says     *)
(* what the file imports; a target executes the code of its own package    *)
(* and of everything that imports.                                         *)
(***************************************************************************)
EXTENDS Routing

CONSTANTS
    PackageFiles,    \* package -> its files
    FileContents,    \* file -> what it may hold: Absent, or a record with its imports
    TestFiles,       \* the files whose name ends in _test.go
    CodeFiles,       \* the files with statements a test can execute
    ImpactTargets,   \* target -> its package
    StartingTrees,   \* the trees a history may begin with: file -> content
    MaxChanges       \* bound: edits, commits and runs in one history

Absent == [imports |-> {}, text |-> 0]
ImpactFiles == DOMAIN FileContents
PackageOf(f) == CHOOSE p \in DOMAIN PackageFiles : f \in PackageFiles[p]

VARIABLES
    base,       \* the reference commit: file -> content
    work,       \* the work tree
    graph,      \* .goatest/graph-v1.json: [files, targets: target -> [deps, covered]]
    seen,       \* target -> [linked, present]: the packages its test binary linked and
                \* the files there were when it was last measured
    selection,  \* the last selection: [broad, targets, seen, changed]
    changes

impactVars == <<base, work, graph, seen, selection, changes>>

NoSelection == [broad |-> TRUE, targets |-> {}, seen |-> <<>>, changed |-> {}]

-----------------------------------------------------------------------------
(* What the baseline measures *)

Imports(at, p) == UNION {at[f].imports : f \in PackageFiles[p]}

\* What the test binary of a package links, the package itself apart.
TestBinaryClosure(at, p) ==
    LET direct == Imports(at, p)
    IN  (direct \cup UNION {Imports(at, q) : q \in direct}) \ {p}

Present(at) == {f \in ImpactFiles : at[f] /= Absent}

Measurement(at, t) ==
    LET p == ImpactTargets[t]
        linked == TestBinaryClosure(at, p)
    IN  [deps |-> linked,
         covered |-> {f \in Present(at) \cap CodeFiles : PackageOf(f) \in linked \cup {p}}]

-----------------------------------------------------------------------------
(* Selection *)

\* git diff --name-only against the reference, and the untracked files.
ChangedFiles == {f \in ImpactFiles : base[f] /= work[f]}

\* A file the graph does not know may affect anything.
Affected(changed) ==
    [broad   |-> ~(changed \subseteq graph.files),
     targets |-> {t \in DOMAIN graph.targets : \E f \in changed :
                     \/ f \in TestFiles /\ ImpactTargets[t] = PackageOf(f)
                     \/ PackageOf(f) \in graph.targets[t].deps
                     \/ f \in graph.targets[t].covered}]

Everything == [broad |-> TRUE, targets |-> DOMAIN ImpactTargets]

\* The tests of a package may be imported by none, yet its dependants are taken.
SelectTargets ==
    LET impact == Affected(ChangedFiles)
        tested == {PackageOf(f) : f \in ChangedFiles \cap TestFiles}
        near(t) == TestBinaryClosure(work, ImpactTargets[t]) \cup {ImpactTargets[t]}
    IN  IF impact.broad THEN Everything
        ELSE [broad   |-> FALSE,
              targets |-> impact.targets
                          \cup {t \in DOMAIN ImpactTargets : near(t) \cap tested /= {}}]

-----------------------------------------------------------------------------
(* The graph a run leaves *)

BuildGraph(targets) ==
    [files |-> Present(work), targets |-> [t \in targets |-> Measurement(work, t)]]

\* A partial run keeps what earlier ones measured of the other targets.
MergeGraph(current, s) ==
    IF s.broad THEN current
    ELSE [current EXCEPT !.targets =
            [t \in DOMAIN @ \cup DOMAIN graph.targets |->
               IF t \in DOMAIN @ THEN @[t] ELSE graph.targets[t]]]

\* What a measurement of the selected targets has seen (of the model only).
SeenBy(targets) ==
    [t \in targets \cup DOMAIN seen |->
       IF t \in targets
       THEN [linked |-> TestBinaryClosure(work, ImpactTargets[t]), present |-> Present(work)]
       ELSE seen[t]]

\* Without a graph, or when git does not answer, every target is taken.  An empty
\* changeset measures nothing, and findings end a run before its graph is saved.
RunChanged ==
    /\ changes < MaxChanges /\ changes' = changes + 1
    /\ \E s \in (IF graph.files = {} THEN {} ELSE {SelectTargets}) \cup {Everything} :
          /\ selection' = [broad |-> s.broad, targets |-> s.targets,
                            seen |-> seen, changed |-> ChangedFiles]
          /\ \/ UNCHANGED <<graph, seen>>
             \/ /\ s.broad \/ ChangedFiles /= {}
                /\ graph' = MergeGraph(BuildGraph(s.targets), s)
                /\ seen' = SeenBy(s.targets)
    /\ UNCHANGED <<base, work>>

-----------------------------------------------------------------------------
(* The developer (external) *)

EditFile ==
    /\ changes < MaxChanges /\ changes' = changes + 1
    /\ \E f \in ImpactFiles : \E c \in FileContents[f] \ {work[f]} :
          work' = [work EXCEPT ![f] = c]
    /\ selection' = NoSelection
    /\ UNCHANGED <<base, graph, seen>>

Commit ==
    /\ changes < MaxChanges /\ changes' = changes + 1
    /\ base /= work /\ base' = work
    /\ selection' = NoSelection
    /\ UNCHANGED <<work, graph, seen>>

ImpactStart(at) ==
    /\ base = at /\ work = at
    /\ graph = [files |-> {}, targets |-> <<>>] /\ seen = <<>>
    /\ selection = NoSelection /\ changes = 0

ImpactNext == RunChanged \/ EditFile \/ Commit

\* A run selects by the graph and routes the mutants of what it selected by the
\* records; the two histories share no state.
SkippingInit ==
    (\E w \in Worlds : RoutingStart(w)) /\ (\E at \in StartingTrees : ImpactStart(at))

SkippingNext == \/ RoutingNext /\ UNCHANGED impactVars
                \/ ImpactNext /\ UNCHANGED routingVars

SkippingSpec == SkippingInit /\ [][SkippingNext]_<<routingVars, impactVars>>

-----------------------------------------------------------------------------
(* Properties *)

\* What changes a test's result: its own tests, the code of its own package, and
\* any file of a package its test binary linked at the reference.
DependsOn(t, f) ==
    LET p == ImpactTargets[t]
    IN  \/ PackageOf(f) = p /\ f \in TestFiles \cup CodeFiles
        \/ PackageOf(f) \in TestBinaryClosure(base, p) /\ f \notin TestFiles

\* Coverage cannot know a file that was not there when the target was measured.
Unseen(t, f) ==
    f \in CodeFiles /\ PackageOf(f) = ImpactTargets[t] /\ f \notin selection.seen[t].present

\* A narrowed run takes each target that a changed file may affect, provided the
\* target was last measured linking what it links at the reference, in whichever
\* earlier run and on whichever tree that was (selectImpact after mergeGraph).
\* What it does not promise: a target measured while an import was gone, a changed
\* file of the target's own package that no statement covers, and one that came
\* back after the target was measured, which a merged graph lists all the same.
AffectedAreSelected ==
    ~selection.broad =>
       \A t \in DOMAIN selection.seen :
          /\ selection.seen[t].linked = TestBinaryClosure(base, ImpactTargets[t])
          /\ \E f \in selection.changed : DependsOn(t, f) /\ ~Unseen(t, f)
          => t \in selection.targets

\* What is not executed need not be: a mutant's ruling is the one that executing
\* every target would give, and a target whose files changed, at any depth of
\* imports, is selected.
SkippedIsEarned == RoutedIsTrue /\ AffectedAreSelected

=============================================================================
