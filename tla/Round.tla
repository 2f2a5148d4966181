------------------------------- MODULE Round -------------------------------
(***************************************************************************)
(* A goatest run (goatest/internal/assure/run.go): up to MaximumRounds     *)
(* rounds of snapshot, inspection, digest, exact cache, discovery, impact, *)
(* resources, baseline next to the preparation of the mutants, graph,      *)
(* race, probes, mutants and repairs, and what every exit gives back.  The *)
(* user edits the repository meanwhile: the workspace is a copy, while the *)
(* digest, the discovery, the impact and the graph read the live tree.     *)
(***************************************************************************)
EXTENDS Naturals, FiniteSets

CONSTANTS
    MaximumRounds,   \* rounds of repair
    MaxTree,         \* bound: how often the repository changes
    RunOptions       \* [changed, replay, resources, noRepair]

VARIABLES
    live,        \* the content of the repository, numbered
    atHead,      \* which of these contents equal the reference commit
    step,        \* the next step of the run
    asked,       \* the options of the run
    round,
    copy,        \* the content the workspace was copied from
    digest,      \* the content the digest of the round names
    read,        \* the contents of the repository this round's evidence rests on
    held,        \* what is open: scratch, cache, workspace, resources, baseline
    preparing,   \* the goroutine that prepares the mutants: none, running, ended
    filed,       \* the exact cache: reports [digest, read, kind, slipped]
    reply        \* what the run returned

roundVars == <<live, atHead, step, asked, round, copy, digest, read, held, preparing, filed, reply>>

Going == reply = "none"
RoundAt(s) == Going /\ step = s
GoesTo(s) == step' = s /\ UNCHANGED reply

\* Every exit runs the deferred calls: the build cache, then the scratch.
Returns(answer, releases) ==
    /\ reply' = answer
    /\ held' = held \ (releases \cup {"cache", "scratch"})
    /\ step' = "end"

CloseWorkspace == {"workspace"}
CloseRound == {"resources", "workspace"}

-----------------------------------------------------------------------------

\* Root, configuration, contract and arguments are refused before anything opens.
Arguments ==
    /\ RoundAt("arguments")
    /\ \/ GoesTo("scratch") /\ UNCHANGED held
       \/ Returns("error", {})
    /\ UNCHANGED <<live, atHead, asked, round, copy, digest, read, preparing, filed>>

\* The scratch is required; the build cache is optional.
OpenScratch ==
    /\ RoundAt("scratch")
    /\ \/ Returns("error", {})
       \/ GoesTo("snapshot") /\ held' = held \cup {"scratch"}
       \/ GoesTo("snapshot") /\ held' = held \cup {"scratch", "cache"}
    /\ UNCHANGED <<live, atHead, asked, round, copy, digest, read, preparing, filed>>

OpenWorkspace ==
    /\ RoundAt("snapshot")
    /\ \/ /\ GoesTo("inspect")
          /\ held' = held \cup {"workspace"} /\ copy' = live /\ read' = {live}
       \/ Returns("error", {}) /\ UNCHANGED <<copy, read>>
    /\ UNCHANGED <<live, atHead, asked, round, digest, preparing, filed>>

\* go list runs in the workspace: what it says is about the copy.
InspectWorkspace ==
    /\ RoundAt("inspect")
    /\ \/ GoesTo("inputs") /\ UNCHANGED held
       \/ Returns("error", CloseWorkspace)
    /\ UNCHANGED <<live, atHead, asked, round, copy, digest, read, preparing, filed>>

\* The digest is of the live repository, not of the copy.
AssuranceInputs ==
    /\ RoundAt("inputs")
    /\ \/ GoesTo("cache") /\ digest' = live /\ UNCHANGED held
       \/ Returns("error", CloseWorkspace) /\ UNCHANGED digest
    /\ UNCHANGED <<live, atHead, asked, round, copy, read, preparing, filed>>

Reusable == {r \in filed : r.digest = digest /\ r.kind /= "later phases not run"}

CacheCheck ==
    /\ RoundAt("cache")
    /\ IF round = 1 /\ ~asked.resources
       THEN \/ Returns("error", CloseWorkspace)
            \/ Reusable /= {} /\ Returns("cached", CloseWorkspace)
            \/ Reusable /= {} /\ Returns("error", CloseWorkspace)   \* closing fails
            \/ GoesTo("discover") /\ UNCHANGED held                  \* no report, or an acceptance expired
       ELSE GoesTo("discover") /\ UNCHANGED held
    /\ UNCHANGED <<live, atHead, asked, round, copy, digest, read, preparing, filed>>

DiscoverTargets ==
    /\ RoundAt("discover")
    /\ \/ GoesTo("impact") /\ read' = read \cup {live} /\ UNCHANGED held
       \/ Returns("error", CloseWorkspace) /\ UNCHANGED read
    /\ UNCHANGED <<live, atHead, asked, round, copy, digest, preparing, filed>>

FiledReport(kind) == [digest |-> digest, read |-> read', kind |-> kind, slipped |-> copy /= digest]

\* git answers about the live tree; with no graph or no answer every target is
\* taken.  An empty changeset is a verdict of its own and is filed at once.
SelectImpact ==
    /\ RoundAt("impact")
    /\ read' = IF asked.changed THEN read \cup {live} ELSE read
    /\ \/ GoesTo("resources") /\ UNCHANGED <<held, filed>>
       \/ /\ asked.changed /\ live \in atHead
          /\ \/ /\ Returns("change assured", CloseWorkspace)
                /\ filed' = filed \cup {FiledReport("empty changeset")}
             \/ Returns("error", CloseWorkspace) /\ UNCHANGED filed
    /\ UNCHANGED <<live, atHead, asked, round, copy, digest, preparing>>

\* The manager closes what it had acquired when one resource fails.
AcquireResources ==
    /\ RoundAt("resources")
    /\ \/ GoesTo("baseline scratch") /\ held' = held \cup {"resources"}
       \/ Returns("error", CloseWorkspace)
    /\ UNCHANGED <<live, atHead, asked, round, copy, digest, read, preparing, filed>>

\* The mutants are prepared in the workspace while the baseline runs in it.
StartPreparation ==
    /\ RoundAt("baseline scratch")
    /\ \/ GoesTo("baseline") /\ held' = held \cup {"baseline"} /\ preparing' = "running"
       \/ Returns("error", CloseRound) /\ UNCHANGED preparing
    /\ UNCHANGED <<live, atHead, asked, round, copy, digest, read, filed>>

PreparationEnds ==
    /\ preparing = "running"
    /\ preparing' = "ended"
    /\ UNCHANGED <<live, atHead, step, asked, round, copy, digest, read, held, filed, reply>>

\* An error or a finding cancels the preparation; each way waits for it to end.
CollectBaseline ==
    /\ RoundAt("baseline")
    /\ \/ GoesTo("settle") \/ GoesTo("settle failed") \/ GoesTo("settle findings")
    /\ UNCHANGED <<live, atHead, asked, round, copy, digest, read, held, preparing, filed>>

\* After the settled preparation: the second pass of the baseline, and the
\* removal of its scratch; findings end the run.
SettlePreparation ==
    /\ Going /\ step \in {"settle", "settle failed", "settle findings"}
    /\ preparing = "ended" /\ preparing' = "none"
    /\ \/ /\ step = "settle" /\ GoesTo("graph") /\ held' = held \ {"baseline"}
       \/ /\ step = "settle" /\ ~asked.replay
          /\ Returns("findings", CloseRound \cup {"baseline"})
       \/ Returns("error", CloseRound \cup {"baseline"})
       \/ step = "settle findings" /\ Returns("findings", CloseRound \cup {"baseline"})
    /\ UNCHANGED <<live, atHead, asked, round, copy, digest, read, filed>>

\* The graph lists the files of the live tree.
SaveGraph ==
    /\ RoundAt("graph")
    /\ read' = read \cup {live}
    /\ \/ GoesTo("race") /\ UNCHANGED held
       \/ Returns("error", CloseRound)
    /\ UNCHANGED <<live, atHead, asked, round, copy, digest, preparing, filed>>

CollectRace ==
    /\ RoundAt("race")
    /\ read' = read \cup {live}
    /\ \/ GoesTo("probe") /\ UNCHANGED held
       \/ Returns("findings", CloseRound)
       \/ Returns("error", CloseRound)
    /\ UNCHANGED <<live, atHead, asked, round, copy, digest, preparing, filed>>

ProbeTargets ==
    /\ RoundAt("probe")
    /\ \/ GoesTo("mutation") /\ UNCHANGED held
       \/ ~asked.replay /\ Returns("error", CloseRound)
    /\ UNCHANGED <<live, atHead, asked, round, copy, digest, read, preparing, filed>>

EvaluateMutants ==
    /\ RoundAt("mutation")
    /\ \/ GoesTo("repair") /\ UNCHANGED held
       \/ Returns("error", CloseRound)
    /\ UNCHANGED <<live, atHead, asked, round, copy, digest, read, preparing, filed>>

\* A repair changes the repository and starts the next round, or at the limit
\* ends the run; without one the round is finished.
AttemptRepairs ==
    /\ RoundAt("repair")
    /\ \/ Returns("error", CloseRound) /\ UNCHANGED <<live, round>>
       \/ /\ GoesTo("compare") /\ held' = held \ CloseRound /\ UNCHANGED <<live, round>>
       \/ /\ ~asked.noRepair /\ live < MaxTree /\ live' = live + 1
          /\ IF round = MaximumRounds
             THEN Returns("insufficient", CloseRound) /\ UNCHANGED round
             ELSE /\ GoesTo("snapshot") /\ round' = round + 1
                  /\ held' = held \ CloseRound
    /\ UNCHANGED <<atHead, asked, copy, digest, read, preparing, filed>>

\* Mutant: the report is filed under the digest of the end, compared or not.
CompareDigestBlind ==
    /\ RoundAt("compare")
    /\ read' = read
    /\ \/ Returns("error", {}) /\ UNCHANGED <<digest, filed>>
       \/ /\ digest' = live
          /\ \E verdict \in {"assured", "insufficient"} :
                /\ Returns(verdict, {})
                /\ filed' = filed \cup {[digest |-> digest', read |-> read, kind |-> verdict,
                                         slipped |-> copy /= digest]}
    /\ UNCHANGED <<live, atHead, asked, round, copy, preparing>>

\* The digest is taken again; a repository that changed has no report.
CompareDigest ==
    /\ RoundAt("compare")
    /\ read' = read
    /\ \/ Returns("error", {}) /\ UNCHANGED filed
       \/ /\ digest = live
          /\ \E verdict \in {"assured", "insufficient"} :
                /\ Returns(verdict, {})
                /\ filed' = filed \cup {FiledReport(verdict)}
    /\ UNCHANGED <<live, atHead, asked, round, copy, digest, preparing>>

-----------------------------------------------------------------------------

UserEdits ==
    /\ Going /\ live < MaxTree
    /\ live' = live + 1
    /\ UNCHANGED <<atHead, step, asked, round, copy, digest, read, held, preparing, filed, reply>>

RoundInit ==
    /\ live = 1 /\ atHead \in SUBSET (1 .. MaxTree)
    /\ step = "arguments" /\ asked \in RunOptions /\ round = 1
    /\ copy = 0 /\ digest = 0 /\ read = {} /\ held = {} /\ preparing = "none"
    /\ filed \in SUBSET {[digest |-> 1, read |-> {1}, kind |-> "assured", slipped |-> FALSE]}
    /\ reply = "none"

RoundStep ==
    \/ Arguments \/ OpenScratch \/ OpenWorkspace \/ InspectWorkspace \/ AssuranceInputs
    \/ CacheCheck \/ DiscoverTargets \/ SelectImpact \/ AcquireResources \/ StartPreparation
    \/ CollectBaseline \/ SettlePreparation \/ SaveGraph \/ CollectRace \/ ProbeTargets
    \/ EvaluateMutants \/ AttemptRepairs \/ CompareDigest

RoundNext == RoundStep \/ PreparationEnds \/ UserEdits

RoundSpec == RoundInit /\ [][RoundNext]_roundVars

-----------------------------------------------------------------------------
(* Properties *)

\* Whatever ends a run, an error at any step included, nothing it opened stays
\* open; the workspace is never closed under the preparation that works in it,
\* nor the scratch removed under the workspace inside it.
GivenBackInOrder ==
    /\ preparing = "running" => "workspace" \in held
    /\ "workspace" \in held => "scratch" \in held
    /\ reply /= "none" => held = {} /\ preparing = "none"

\* A full report in the exact cache rests on the content its digest names: no
\* step of the round read the repository after an edit, in any round.  An edit
\* between the copy and the digest is excepted: the code does not notice it.
FiledIsMeasured ==
    \A r \in filed : r.kind \in {"assured", "insufficient"} /\ ~r.slipped => r.read = {r.digest}

\* However a round ends, what it took is given back in order, and what it files
\* is about the tree it measured.
RoundIsOrderly == GivenBackInOrder /\ FiledIsMeasured

=============================================================================
