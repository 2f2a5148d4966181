------------------------------ MODULE MCEngine ------------------------------
(***************************************************************************)
(* A run of the engine and what it leaves behind, in one run of TLC: the   *)
(* temporary directories, the recordings, the pipeline and its report, the *)
(* outcome cache, the snapshot, the history and the console, and what a    *)
(* run of goatest leaves: temporary directories and reports.  The parts    *)
(* share no state: a behaviour chooses its part, and the variables of the  *)
(* others rest.                                                            *)
(***************************************************************************)
EXTENDS TempOwner, KeptTemp, Retention, Recordings, OutcomeCache, Snapshot, HistoryStore, TLC

VARIABLES
  part,
  setup, shardNo, plAt, plErr, rejections, chosen, rows, facts, dirs, pair, docs,
  rendering, script, openPhase, hands, undone, heldBack, ran, told, channel, publish,
  renderer, screen, signals

pipelineVars == <<setup, shardNo, plAt, plErr, rejections, chosen, rows, facts, dirs, pair, docs>>
consoleVars == <<rendering, script, openPhase, hands, undone, heldBack, ran, told, channel, publish,
                 renderer, screen, signals>>
engineVars ==
  <<part, vars, keptTempVars, retentionVars, recordingsVars, pipelineVars, cacheVars, snapshotVars,
    historyVars, consoleVars>>

\* The processes of one program are interchangeable.
RunSymmetry == Permutations(Runs)

-----------------------------------------------------------------------------
(* The recordings are of two runs that record and one `trace clean`. *)

\* Earlier runs left at most one directory, of any kind, or an orphan of a random
\* name below a directory nobody claimed, or an orphan and a kept one.
TempStarts ==
  /\ Init
  /\ {Stable, Old} \subseteq there =>
       <<marker[Stable], marker[Old]>> \in {<<"none", "plain">>, <<"plain", "kept">>, <<"kept", "plain">>}

\* Three mutants, of which the third is of another shard, and may not compile.
Hashes == [id \in {1, 2, 3} |-> id]

Pipe == INSTANCE Pipeline WITH MutantIDs <- {1, 2, 3}, Hash <- Hashes

\* What becomes of the first two mutants, and how it is found.
Ways == {<<<<"survived", "uncovered">>, <<"timed_out", "cached">>>>,
         <<<<"survived", "unobserved">>, <<"survived", "measured">>>>,
         <<<<"killed", "cached">>, <<"inconclusive", "measured">>>>,
         <<<<"errored", "measured">>, <<"survived", "cached">>>>}

\* The mutants on changed lines, and those that the prefix matches, if there is one.
Narrowings == {<<{1, 2, 3}, {}>>, <<{1, 2}, {}>>, <<{1, 2, 3}, {1}>>, <<{1, 2, 3}, {3}>>,
               <<{1, 2, 3}, {1, 2}>>}

Policies == {<<[strict |-> FALSE, minimum |-> 60, require |-> TRUE], "never", {}>>,
             <<[strict |-> TRUE, minimum |-> 0, require |-> FALSE], "on-failure", {1}>>,
             <<[strict |-> FALSE, minimum |-> 60, require |-> TRUE], "always", {2}>>,
             <<[strict |-> TRUE, minimum |-> 0, require |-> FALSE], "never", {9}>>}

PipelineInit ==
  \E w \in Ways, s \in {<<0, {}>>, <<2, {}>>, <<2, {3}>>}, a \in Narrowings, p \in Policies :
    LET narrow == p[3] = {} IN
    Pipe!PipelineStart(
      [truth |-> <<w[1][1], w[2][1], "killed">>, how |-> <<w[1][2], w[2][2], "measured">>,
       total |-> s[1], broken |-> s[2], changed |-> a[1], prefix |-> a[2],
       policy |-> p[1], keep |-> p[2], ledger |-> p[3],
       coverage |-> IF narrow THEN "test" ELSE "off",
       isolate |-> narrow, probing |-> narrow, caching |-> narrow])

\* Two runs share the cache of two contexts.
Plain == [time |-> 1, swell |-> 0, peak |-> 1, verdict |-> "survived"]
CacheNatures ==
  [time : {1, 2}, swell : {0, 1}, peak : {1, 2}, verdict : {"killed", "diverged"}]
  \cup {Plain, [Plain EXCEPT !.verdict = "errored"]}

\* Runs 1 and 2 are of one workspace; 3 and 4 are of others, and the last has
\* the directory name of the first.
DigestOfRun == <<"d1", "d1", "d2", "d3">>
ModuleOfRun == <<"m", "m", "m", "n">>
KeyOfDigest == [d1 |-> "k1", d2 |-> "k2", d3 |-> "k1"]

Renderers == {[kind |-> "plain", quiet |-> FALSE, publish |-> TRUE, output |-> FALSE],
              [kind |-> "plain", quiet |-> TRUE, publish |-> FALSE, output |-> TRUE],
              [kind |-> "dashboard", quiet |-> FALSE, publish |-> FALSE, output |-> TRUE]}

Terminal == INSTANCE Console WITH
  EventBuffer <- 1, PublishBuffer <- 1, ConsoleWorkers <- {1, 2}, ConsoleMutants <- {1, 2},
  Renderings <- Renderers

\* What a run left of one kind in all the places where it can be, the ledger
\* naming it and a directory of somebody else; two runs of which one keeps, or a
\* run beside cache gc.
KeptStarts ==
  \E start \in {<<"stale", Keepers, {"k1"}>>, <<"orphan", {"k1"} \cup Collectors, {}>>,
                <<"kept", {"k1"} \cup Collectors, {"k1"}>>} :
    LET was == [d \in OfEarlier |->
          IF d[1] = "native" THEN "nothing" ELSE IF start[1] \in Remains(d) THEN start[1]
          ELSE IF d = Foreign THEN "bare" ELSE "nothing"]
    IN KeptTempStart(was, {d \in OfEarlier : was[d] = "kept"} \cup {Foreign}, start[3], start[2])

\* Two reports of earlier runs and room for one; a run beside cache gc or flush,
\* with the checkpoint of an earlier one, and two runs that keep none.
\* latest-full names the older report, or nothing that can be read.
ReportsStarts ==
  \E start \in {<<"old", Inputs, OtherRuns \cup Cleaners>>, <<"unreadable", Inputs, OtherRuns \cup Flushers>>,
                <<"old", {}, Verifies>>} :
    RetentionStart([slot \in Slots |-> IF slot = "any" THEN "new" ELSE start[1]],
                   [r \in Past |-> IF r = "old" THEN 1 ELSE 2], start[2], start[3],
                   [v \in Verifies |-> IF start[3] = Verifies THEN "none" ELSE "i1"])

-----------------------------------------------------------------------------

Parts == {"temp", "kept", "reports", "recordings", "pipeline", "cache", "snapshot", "history", "console"}
Rest == "rest"

TempRests == Init /\ there = {}
KeptRests ==
  /\ present = Rest /\ ownerLock = Rest /\ ownerMarker = Rest /\ filled = Rest /\ stale = Rest
  /\ ledger = Rest /\ ledgerLock = Rest /\ loaded = Rest /\ keeps = Rest
  /\ making = Rest /\ native = Rest /\ scan = Rest
  /\ place = [p \in Movers |-> Rest] /\ recorded = [d \in TempDirs |-> "nobody"]
ReportsRest ==
  /\ lease = Rest /\ stand = Rest /\ outcome = Rest /\ input = Rest /\ shelf = Rest /\ turn = Rest
  /\ index = [slot \in Slots |-> Rest] /\ checkpoints = {} /\ candidates = {} /\ guarded = Rest
  /\ doomed = Rest /\ leaseless = {} /\ missed = {} /\ worked = {} /\ answered = {}
  /\ forgone = {} /\ tainted = {} /\ waiting = {}
RecordingsRest ==
  /\ job = Rest /\ dir = [r \in RunIDs |-> NoRecording]
  /\ swept = [c \in Sweepers |-> Swept] /\ cleaned = [c \in TraceCleaners |-> FALSE]
PipelineRests ==
  /\ setup = Rest /\ shardNo = Rest /\ plAt = Rest /\ plErr = Rest /\ rejections = Rest
  /\ chosen = Rest /\ rows = Rest /\ facts = Rest /\ dirs = Rest /\ pair = Rest /\ docs = Rest
CacheRests ==
  nature = Rest /\ filed = Rest /\ contextDir = Rest /\ gc = Rest /\ user = [r \in CacheRuns |-> CacheUser0]
SnapshotRests ==
  /\ step = Rest /\ isolating = Rest /\ trees = Rest /\ irregular = Rest /\ listed = Rest
  /\ uncopied = Rest /\ manifest = Rest /\ drifts = Rest /\ gated = Rest /\ edits = Rest /\ writes = Rest
HistoryRests ==
  /\ linking = FALSE /\ store = [k \in Keys |-> NoWorkspace] /\ cleaning = Rest /\ deleted = {}
  /\ writing = [r \in StoredRuns |-> Rest]
ConsoleRests ==
  /\ rendering = Rest /\ script = Rest /\ openPhase = Rest /\ hands = Rest /\ undone = Rest
  /\ heldBack = Rest /\ ran = Rest /\ told = Rest /\ channel = Rest /\ publish = Rest
  /\ renderer = Rest /\ screen = Rest /\ signals = Rest

EngineInit ==
  /\ part \in Parts
  /\ IF part = "temp" THEN TempStarts ELSE TempRests
  /\ IF part = "kept" THEN KeptStarts ELSE KeptRests
  /\ IF part = "reports" THEN ReportsStarts ELSE ReportsRest
  /\ IF part = "recordings" THEN RecordingsInit ELSE RecordingsRest
  /\ IF part = "pipeline" THEN PipelineInit ELSE PipelineRests
  /\ IF part = "cache" THEN OutcomeCacheInit /\ nature["c2"] = Plain ELSE CacheRests
  /\ IF part = "snapshot" THEN SnapshotInit ELSE SnapshotRests
  /\ IF part = "history" THEN HistoryInit ELSE HistoryRests
  /\ IF part = "console" THEN Terminal!ConsoleInit ELSE ConsoleRests

EngineNext ==
  /\ UNCHANGED part
  /\ IF part = "temp" THEN Next ELSE UNCHANGED vars
  /\ IF part = "kept" THEN KeptTempNext ELSE UNCHANGED keptTempVars
  /\ IF part = "reports" THEN RetentionNext ELSE UNCHANGED retentionVars
  /\ IF part = "recordings" THEN RecordingsNext ELSE UNCHANGED recordingsVars
  /\ IF part = "pipeline" THEN Pipe!PipelineNext ELSE UNCHANGED pipelineVars
  /\ IF part = "cache" THEN OutcomeCacheNext ELSE UNCHANGED cacheVars
  /\ IF part = "snapshot" THEN SnapshotNext ELSE UNCHANGED snapshotVars
  /\ IF part = "history" THEN HistoryNext ELSE UNCHANGED historyVars
  /\ IF part = "console" THEN Terminal!ConsoleNext ELSE UNCHANGED consoleVars

EngineSpec == EngineInit /\ [][EngineNext]_engineVars

-----------------------------------------------------------------------------
(* Properties.  Those of the parts that hold of a part at rest are used as  *)
(* their modules state them.                                               *)

\* However a run ends, its report says what was measured and what was not, and
\* the documents of the shards merge to the document of the whole run.
MergeIsTheWholeRun == part = "pipeline" => Pipe!MergeIsTheWholeRun /\ Pipe!FiledIsTrue

\* However a run ends, nothing it made is forgotten: each directory is removed,
\* kept because the options say so, or reported, and the page and the
\* projection on disk are of one run.
NothingIsForgotten == part = "pipeline" => Pipe!NothingIsForgotten

\* The renderer shows what the run announced and keeps in step with it, and
\* no worker, recorder or renderer waits for one that is gone.
ConsoleIsComplete ==
  part = "console" =>
    Terminal!FinalsAreShown /\ Terminal!NobodyIsStuck /\ Terminal!DashboardKeepsStep
=============================================================================
