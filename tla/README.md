# go-mutants and goatest in TLA+

This directory specifies the parts of go-mutants (a mutation tester for Go) and
of goatest (the assurance runner built on it) where correctness depends on the
order of steps, on what was read before it was used, or on an analysis being
right about a program: locks and lifetimes, sweeps racing owners, worker pools,
retries, crashes, caches, narrowed measurements, rewritten sources. Each
component has a module, TLC configurations check small instances, and, for
twenty of them, TLAPS checks proofs for instances of any size. `PROJECT.json` maps
every definition to the source lines it models.

Run a model with `tlc -config X.cfg M`, a proof with `tlapm M.tla`.

## 1. The system and its parts

A go-mutants run is a pipeline over a frozen copy of the module under test:

    Discovered -> Snapshotted -> BaselinePassed -> Validated -> Instrumented -> Completed

| Part | State it keeps | Operations | What makes it correct | Hard behaviour |
| --- | --- | --- | --- | --- |
| Workspace and Session (root package) | three read-write locks, lifetime flags, the frozen tree, temporary directories | Open, Exec, Prepare, session calls, Session.Close, Close | no command sees instrumented source; no directory goes under its user; one preparation; one answer per Close; a session is made of frozen bytes | any mixture of concurrent calls; commands that write while Prepare reads |
| Module memo (`module.go`) | one pending answer per query | join, leave, settle, forget | an answer is never of a tree that has changed since, nor one another caller cancelled | the last caller leaves while the listing runs |
| Process runner (`internal/runner`) | a process tree, timer, memory watchdog | start, exit, terminate | what Run reports is what happened | exit, timeout, memory and cancellation at the same moment |
| Recorder (`trace`) | a sequence number, four sinks | emit, close, read | what is lost is said | writes that fail, a ring that overflows |
| Temporary directories (`internal/tempowner`, `internal/snapshot`) | lock file, marker and tree below one shared parent | sweep, create, claim, keep, cleanup | the living and the kept are spared; orphans go | runs of one root start together; a run dies at any step |
| Snapshot (`internal/snapshot`, `internal/drift`) | copies of the tree and their digests | Create, Redigest, Restore, the drift gate | every mutant starts from the recorded files | the source is edited while it is copied and put back |
| Discovery, catalogue (`internal/discover`, `internal/mutation`, `internal/gitdiff`) | candidates, identifiers, changed lines | walk, analyse, build, select | what an analysis claims is so; identifiers depend on sources alone; the mutants on changed lines are selected | conditions with effects; diffs read before the snapshot |
| Instrumentation and its runtime (`internal/instrument`) | splices, counters, infection logs | rewrite, count, report | the file is the original or the mutant; no ceiling ends the original | nested sites; goroutines and processes that end anywhere |
| Compile validation (`internal/validate`) | which mutants each file carries | gate, isolate, bisect | the accepted set builds; only the guilty are rejected | mutants that fail only together |
| Coverage, probes, limits (`internal/engine`, `internal/coverage`, `internal/probe`) | which tests reach a mutant, time and memory bounds | passes, controls, settle, derive | narrowing changes no verdict; the original fits its limits | passes that fail; cached runs; overflow |
| Execution phase (`internal/execute`) | a shared counter, results, the held-back set, worker trees | Schedule, RunOne, restore, retry | a timeout counts only when confirmed alone; every verdict rests on its evidence | cancellation, a tree that cannot be put back, retries beside workers |
| Engine, reports (`internal/engine`, `internal/report`) | the stage, the document, artifacts, history | stages, merge, publish | a report says what ran; shards merge to the whole run; nothing made is forgotten | failure or interruption on any stage |
| Outcome cache (`internal/cache`) | one file per mutant and identity | Lookup, Put, gc | a reused outcome is what a measurement would give | other limits than the stored ones; concurrent collection |
| Console (`internal/console`, `internal/tui`, `internal/cli`) | bounded channels, a renderer, signals | emit, forward, render, exit | what ends the run is shown; nobody waits for one that is gone | a renderer that fails or ends early |
| Recordings, history, explanations (`internal/cli`, `internal/report`) | directories of finished runs | record, collect, claim, store, join | a sweep takes only what is finished; a stored run is found; an account is of its own mutant | other processes at work; lost events |
| goatest round (`goatest/internal/assure`) | rounds, evidence, verdict | inspect, digest, select, baseline, probe, route, file | what is filed was measured; resumed or reused evidence is what a fresh run would find | edits, interruptions, records of other trees |
| goatest repairs (`goatest/internal/repair`) | candidates, files | validate, apply, roll back | all or nothing, and no edit of the user lost | the user edits the same files |
| goatest resources (`goatest/internal/resource`) | provider processes, reference counts | Acquire, Release, Close | an exclusive capability has one instance; a stopped one is never leased | release racing acquire; Close with leases out |
| goatest checkpoint (`goatest/internal/cache`, `checkpoint`) | a base document and a journal | Put, Append, Get, Delete | a resumed round has every unit that was recorded and none that was not | death between rename and remove, or inside an append |
| What goatest keeps (`goatest/internal/tempowner`, `keptledger`, `assure/keep_temp.go`, `app/temp.go`) | directories with lock and marker, the ledger of kept ones | sweep, make, claim, keep, note, `cache gc` | what is in use or kept is not taken; no line of the ledger is lost | two runs share one projection; any process dies |
| goatest retention (`goatest/internal/app`, `retention`) | published reports, two indexes, checkpoints, candidates | publish, index, delete, collect, flush | what an index names is there; work is kept until it is answered | runs without the lease; collection beside publication; death |
| goatest build cache (`goatest/internal/buildcache`) | two layers, a projection | get, put, collect, admit | what was read is spared; what was admitted is served | collection beside servers |

Interaction: the engine and the Workspace call snapshot and tempowner for their
directories, discover, instrument and validate for the accepted set, execute for
the verdicts, runner for every child process, and cache on both sides of
execution; every part reports to the recorder and, through events, to the
console. goatest reaches the engine only through the public Workspace and
Session (`mutationbridge`), and hands resource leases, checkpoints and cache
directories around the calls it makes.

`PROJECT.json` lists every part under "components" with what is modelled, and
under "hazards" what is hard to test, at the line where it bites.

## 2. Modules

Every module keeps the source's names for its actions; the comment over a
definition names the function it stands for. Contents, names and outcomes are
members of small sets, paths are model values or numbers, and messages, wording
and formatting are left out.

| Module | Models | What its state and actions are |
| --- | --- | --- |
| `Workspace` | `workspace.go`, `session.go`, `frozen.go`, `changes.go`; `sync.RWMutex` (external), with the writer that has announced itself and so holds new readers back | `pc` per calling goroutine; `mu`, `tree`, `smu`; the flags guarded by `stateMu`; `files` (frozen, edited, instrumented or absent bytes), `dirs`. One action per stretch of code between two lock operations or file reads |
| `SessionCalls` | what Session.Exec, Control and Probe do inside the session's lock | a request per caller, its scratch, the private copy of a fuzz target, captured inputs |
| `ModuleMemo` | `module.go` | answers shared by askers, commands that forget them, Close |
| `Runner` | `internal/runner` on three platforms | a leader and a descendant, timers, the select, the supervisor |
| `Recorder` | `trace/trace.go`, `sink.go`, `reader.go` | one emission per step into a directory, a ring, a tee or a caller's own sink |
| `Resource` | `goatest/internal/resource` | a provider per instance; stopping one happens outside the mutex |
| `TempOwner` | `internal/tempowner`, `internal/snapshot` (create, keep, cleanup) | directories of a shared parent (lock, marker, tree, age); one `pc` per run; `Crash` at any step |
| `Snapshot` | `internal/snapshot` (copy, digest, restore), `internal/drift` | user's tree, snapshot and a worker's copy; edits and test writes between any two steps |
| `Verdicts`, `Schedule` | what the execution phase promises, and `internal/execute/schedule.go`, `run.go` | a `pc` per worker and for the goroutine that retries; the counter, the held-back set, results, dirty trees. `Schedule` implements `Verdicts` under a refinement mapping |
| `Pipeline`, over `Report` | `internal/engine`, `internal/report` | the stages, each of which may fail or be interrupted; shards one after the other, then the merge. `Report` holds the documents as operators |
| `OutcomeCache` | `internal/cache` | runs that look up, measure and store; a collection and a cleaning beside them |
| `Recordings` | `internal/cli/trace.go`, `diagnostics.go`, `trace_cmd.go` | directories as the files a decision reads; each writer or sweep step by step |
| `HistoryStore` | `internal/report/history.go`, `enumerate.go`, `internal/cli/report.go` | claim, store and clean, one action per file operation |
| `Console` | events, `internal/console`, `internal/tui`, the end of `run.go` | a script of the engine, workers, bounded channels, a renderer, signals |
| `Discover` | `internal/discover` | a condition as an expression tree; proofs about branches, probes and loops, compared with its evaluation in wrap-around integers |
| `Catalogue` | `internal/discover/workspace.go`, `internal/mutation`, `internal/gitdiff`, `internal/engine/selection.go`, `internal/cli/list.go` | trees of numbered lines, git external, one action per stage of detection, diff, copy, build and selection |
| `Instrument` | `internal/instrument`, `internal/interval` | files as sequences of words; the forest of sites and the spliced text |
| `Runtime` | the generated package | goroutines of two processes counting one loop; probes appending to one log |
| `Validate` | `internal/validate` | a compiler given as sets of mutants that do not build together; which files it names is free |
| `Limits` | derived time and memory, of the engine and of goatest | arithmetic of signed integers of a small width |
| `Narrowing` | coverage, controls, probes, measurement | what the tests would do is fixed; every pass may fail |
| `Explain` | `internal/cli/explain_cmd.go`, `explainaccount.go` | the recorder as writer of a lossy stream, and the join as operators |
| `Checkpoint` | `goatest/internal/cache/checkpoint.go`, `lock.go`, `maintenance.go`, `assure/resume.go` and their callers | `base`, `journal`, `torn` on disk; the lease, and whether a run went on without it; per run its controller's state. One action per change of a file; `Crash` at any step |
| `BaselineRun`, `ProbePass` | `assure/baseline.go`, `assure/probe.go`, `resume.go` | the work of one process and what the next one continues from |
| `Routing` | `assure/mutation.go`, `mutation_evidence.go` | one mutant in two runs with edits between them |
| `Round` | `assure/run.go` | the exits of a round and what each gives back, beside a user who edits |
| `Impact` | `assure/impact.go`, `evidence/graph.go` | a history of edits, commits and narrowed runs |
| `Repair` | `repair/repair.go`, `assure/generation.go`, `validator.go`, `app/fix.go` | one action per file comparison and rename |
| `BuildCache`, `Projection` | `buildcache`, `assure/buildcache.go` | requests, touches and collections of two layers; the gate of the native projection |
| `KeptTemp` | `goatest/internal/tempowner`, `keptledger`, `assure/run_scratch.go`, `keep_temp.go`, `app/temp.go` | scratch and projection of each run, the ledger, a `place` per run and per collection; `Dies` at any step |
| `Retention` | `goatest/internal/app` (`service.go`, `reports.go`, `retention.go`, `cache.go`), `retention` | the shelf of reports, the indexes, checkpoints and candidates; a `stand` per invocation, with and without the lease; each step may fail, each process die |
| `MC*` | instances for TLC | constants, symmetry, composition |
| `WorkspaceProofs`; `GoatestProofs` (`Checkpoint`, `Round`, `Repair`, `SessionCalls`); `EngineProofs` (`Schedule`, `OutcomeCache`, `Snapshot`, `HistoryStore`, `Recordings`, `Narrowing`); `LibraryProofs` (`TempOwner`, `ModuleMemo`, `Runner`, `Resource`, `Recorder`); `KeepingProofs` (`KeptTemp`, `Retention`, `Routing`, `Impact`) | theorems about the module each is named for, or those in brackets | an inductive invariant in named parts, one lemma per part or group of parts with one step per action, and the theorems at the end |

`MCLibrary`, `MCEngine`, `MCMutants` and `MCGoatest` put modules that share no
state into one run: a behaviour first chooses its part and the other variables
rest, so the run explores the union of the parts and each property speaks of its
own part (or of two that make one promise). Each of them EXTENDS those of
its parts that have proofs, so that the run checks the very properties the theorems state and
TLC evaluates their assumptions.

What the models leave out, where it could matter:

* **Workspace.** `Exec` runs a command whose writes are `ChildWrite`, any number
  of them, at any moment the command runs. Discovery reads a source twice (parse,
  then digest), as the code does, and the two reads are two actions. The order of
  locks is mu, tree, smu. Trace callbacks, which the documentation forbids to
  start a command, are not modelled.
* **TempOwner.** Opening the lock file and locking it are one step. A torn marker
  reads like a plain one. The scratch directory follows the path of a random
  name. `Age` assumes that no live run takes a day between its Mkdir and its
  marker. Windows handles are left out.
* **Schedule.** A pass over several test binaries is one step with the outcome of
  the binary that decides it. Tests write to their tree only when trees are
  isolated: the drift gate rejects the others before this phase.
* **Checkpoint.** A document stands for its digest, so two documents the code
  could tell apart may be one here. A crash is the death of a process, not of the
  machine: what was written stays. Which suites are needed, and whether findings
  end a round, is any choice. `Validate` is modelled as far as units go: it
  refuses a target that skipped, and suites in a completed baseline. A replay of
  one mutant is an input of its own and the only baseline without a probe session
  (`assure/run.go:524-540`), so only there can a test binary fail to compile.
* **Snapshot.** Directories, permissions and times: neither Redigest nor Restore
  looks at them (`docs/command-line.md:82` names only contents).
* **Console.** What `--json` and `--explain` print is left out, not that it may
  fail: they write the filed document after the renderer has returned, and a
  failed write is the command's answer.
* **Pipeline.** A `--mutant` prefix that names no mutant of the catalogue, or
  several, ends the run; one that names a rejected mutant is a warning, and the
  run publishes a document with nothing selected.
* **Recordings.** Whether a run has a directory of recordings of its own is
  decided when its sink is opened: one that was refused records in memory and
  makes its bundle in the diagnostics root, after collecting there.
* **Discover, Instrument.** Expressions are those listed in the module; returns,
  statement deletions, label drops and suppressions, import aliases and name
  collisions are not modelled. `Instrument` assumes gofmt's spacing.
* **Narrowing, Routing.** They promise nothing about tests that behave
  differently when run alone, or about a tree another pass wrote to.
* **Runtime.** That no ceiling ends the original program rests on the census
  having been opened and written (section 3), and then on how many
  goroutines of one process are caught between claiming a count and writing it
  when the process ends: each may let the loop run to twice the last written
  count and one more. The instance has two for a factor of 7; the code's factor
  is 1024, so ten at once would be needed.
* **Impact, Round.** Line ranges inside a file (`impact_ranges.go`), races and
  fuzz targets of goatest are left out. In `Impact` a target executes all code of
  its package and of what that imports, so coverage is out of date only where a
  file is new. `seen` is of the model: it remembers what a target's last
  measurement saw, which no file of the program holds.
* **Routing.** Tests are deterministic: what the original does, and separately
  what the mutant does, depends on the target's closure, and on the rest of the
  tree only where it was observed to read outside it. That is what a key stands
  for. A target without exact blocks counts as executing the place when it
  executes the file, as `routeMutant` has it.

## 3. What the runs check

| Run | Instance | Shows |
| --- | --- | --- |
| `workspace` | 2 callers, a source, an asset, a path outside the manifest; and 3 callers, a source, KeepTemp on and off, every removal may fail | `SessionBuiltFromManifest`: whatever commands write and undo while discovery, the probe copy, the verification and the compiler read, a published session has candidates with frozen digests and binaries of frozen bytes. `NoChildSeesInstrumentation`, `NothingRemovedUnderACall`, `PreparedAtMostOnce`. `CloseIsFinal`: one answer for every Close, and nothing inside or left unnamed after it |
| `workspace_live` | 2 callers, a source their commands may write, KeepTemp on and off, a snapshot that may resist removal | `CallsReturn`: every call returns |
| `schedule` | 2 workers, up to 2 mutants | `ImplementsVerdicts`: the refinement. `OutcomesAreEarned`: clean trees, retries alone, returned as announced. `Returns` |
| `checkpoint` | 3 runs under the lock, 2 that replay a mutant under it, and 2 that go on without it and save mutants only; 2 targets, one of which skips itself, a mutant, 2 catalogues | `JournalIsKept`: under the lock what is on disk holds every saved unit, and replays unless a unit is a target that skipped. `ReuseIsSound`: with and without the lock nothing is reused that was measured for another catalogue |
| `library` | 2 askers and a command; a leader and a descendant on 3 platforms; 4 sinks of up to 3 events' room; 3 targets and 3 provider instances | `AnswersAreRight`, `VerdictIsTheTrees`, `RecordingIsHonest`, `LeasesAreKept`; `CallsComeBack`: listings and process runs end |
| `engine` | 2 runs over a directory left by an earlier run, of any kind, or two of different kinds, dying at any step; 2 goatest runs and a collection over any leftovers and ledger; a full and another verification, a `gc` and a `flush` over 2 old reports, keeping one; 2 recording runs and a clean; 3 mutants in 2 shards, every stage failing or interrupted; 2 caching runs, 2 contexts; 4 files, 2 edits, 2 test writes; 4 runs, 3 workspaces and a clean; 2 workers and 3 renderers | `DirectoriesAreSafe`: what a run lives in is its own, and a sweep takes orphans only. `KeptIsKept`: no sweep or collection of goatest takes what is in use or was kept, and no line of its ledger is lost. `DurableIsKept`: what an index names is whole, and work that a checkpoint holds stays until a report answers it. `RecordingsAreKept`, `MergeIsTheWholeRun`, `NothingIsForgotten`, `CachedIsRemeasured`, `MutantsStartFromTheSame`, `HistoryIsKept`, `ConsoleIsComplete` |
| `mutants` | conditions up to two operators deep in integers of 3 bits; 3 files in 2 modules with 8 sites; a file of 33 words with 11 mutants, and two with a loop each; 3 goroutines in 2 processes, one of which may fail to open or write its census; 6 mutants and any 2 conflicts; limits in 8 bits; 3 tests of 2 binaries and probes rejected from their tree; streams of up to 7 events | `DiscoveryIsRight`, `SelectionIsRight`, `ReadsAsTheProgram`, `RuntimeIsRight`, `AcceptedIsWhatBuilds`, `TheOriginalFits`, `VerdictsAreUnnarrowed`, `AccountIsTrue` |
| `goatest` | 2 targets and a suite in 2 runs; 3 rounds and 3 trees; 3 candidates and an edit; 3 packages and 7 changes; 2 actions with one output, 2 requests and a collection; 2 native and 2 compiling commands; 3 targets interrupted twice; 2 probed targets over 4 catalogues; 2 callers | `SkippedIsEarned`: what routing or a narrowed run leaves out would have passed. `RoundIsOrderly`, `RepairsAreAllOrNothing`, `CacheServes`, `EvidenceIsTrue`, `CallsAreClean` |
| `checkpoint_suites` | violated | the suite of a package without a selected target makes the next run discard the whole baseline |
| `temp_shared` | violated | it starts from what a dead run left under the stable name, and no day passes: two sweeps of it end with two runs in one tree (docs say never) |
| `baseline_anchor` | violated | a continuation saves an unfinished baseline with an instrumentation on several targets of a package (docs say one), which `checkpoint.Validate` refuses |
| `changed_workspace` | violated | with a module below the root, `--changed` selects nothing and the run measures nothing (docs say a narrowing to nothing must stop the run) |

Every passing property has a mutant of the code's definition, listed under
"mutants", that makes it fail.

Bounds. In `workspace` three callers are the fewest in which a reader, a writer that waits for
it and a reader that waits behind the writer exist together, which is what the
lock order is about; the data questions need only a writer beside a preparation.
Two runs are enough for every race of a sweep with an owner or another sweep,
and the proofs cover any number. Two mutants and two workers give a timeout that
waits while another worker still runs, a retry after a broken tree, and an
index that is taken after cancellation. Three runs of one input are a run that
leaves a file behind, one that fails to clear it, and one that reads it. Two
askers and a command give a listing that is left, joined and forgotten in any
order. A leader and one descendant are enough for a tree that outlives its
leader, since descendants are not told apart. Two shards of three mutants leave
one mutant alone in its shard. Two loops of one body in two files show whether
numbers are shared. One process that cannot open or write its census leaves the other to be counted.
Two conflicts of up to two mutants give failures inside a
half, across halves and across files. Four catalogues give a mutant that is
gone, that no longer compiles, that is no longer probed and that moved. Counts of
edits, events and requests are bounded by constants whose comments say
so.

Deadlock is checked in `workspace`, `workspace_live` and `schedule`; elsewhere
every process of the system ends or dies and the system rests.

Fairness. `Workspace` assumes strong fairness of the steps of a call (a
`sync.RWMutex` starves neither side, and children are killed at their time
limit), never that a caller makes a call. `Schedule` assumes weak fairness of
each goroutine; a test binary ends or is killed at its limit. `ModuleMemo` and
`Runner` assume weak fairness of the goroutines and of the kernel (a process
that was killed ends, a timer that was set fires), and nothing of the processes
themselves.

Disagreements with the documents that have no run of their own. The first six are
named exceptions of a property that otherwise holds, and TLC finds each property
violated as soon as its exception is taken away:

* A narrowed run's graph lists every file of the tree (`impact.go:146-174`) beside
  what earlier runs measured of the other targets (`mergeGraph`,
  `impact.go:194-209`). A file that came back, or came with a new reference, after
  its package was last measured is then known though no target's coverage has it:
  with files `a.go`, `a2.go` in one package and `c.go` in another, measure all
  without `a2.go`, restore it, edit `c.go` and run narrowed, then edit `a2.go`. The
  next narrowed run selects no test of the package `a2.go` is in
  (`evidence/graph.go:43-53`; the closure of a test binary leaves out its own
  package, `golang/packages.go:94-103`), where `docs/assurance-contract.md:16-18`
  has the scope broaden "if changeset impact cannot be determined safely". Before
  the merge the file was unknown and the run would have been broad.
  `AffectedAreSelected` therefore excepts files that were not there when the
  target was measured (`Unseen`). An earlier form without the exception passed
  with five changes; the history above needs seven, which is now the bound.

* A target whose test skips itself is journaled, as `checkpoint-v1.md:121` says,
  with Executed and Skipped both true (`baseline.go:927`), which `Validate` takes
  for "not completely classified" (`checkpoint.go:191`). Nothing checks a line
  when it is appended; the next run's GetCheckpoint refuses the replayed document
  and drops the whole checkpoint, and a document published with such a unit is
  given up at once. `AlwaysReadable` excepts them (`Skips`).
* A mutant whose probe does not compile is bisected out of the probe tree, and
  the rejection goes nowhere (`internal/engine/probe.go:103-116`), while the
  mutant counts as probed because it has a probe form (`:189-203`). No log can
  name it, so it is settled as a survivor without a run, or loses the binary that
  would kill it, where ADR 0011:71-84 has it lose its probe and nothing else.
  This is a wrong verdict. `VerdictsAreUnnarrowed` excepts these mutants
  (`Silent`), and still says that none of them is reported as killed wrongly.
* A step in the body of a loop that an edit reverses or deletes leaves the loop
  "bounded" (`termination.go:88-102`, the default of `applyToLoop`), where
  `docs/operators.md:393-400` puts such a loop in the family and `:414` says
  "unbounded". The remark there that no such mutant exists holds for a post
  statement, not for a body. `VerdictsHold` excepts them (`StepInBodyEdited`).
* `gatedBody` takes the labels of a switch with a tag like those of one without
  (`branch.go:90-94`; `docs/json-schema.md:407-411`), and guards reach them,
  where `docs/operators.md:527` lists tagged labels as excluded. Where the tag is
  false (`switch flag { case a <= b: }`) a label that holds less often is entered
  more often, and the branch proof is wrong. `ProofsHold` excepts a false tag.
* A process whose census cannot be opened says so on its standard error and runs
  its loops uncounted (`runtime.go:249-256`), and a count that cannot be written
  is claimed all the same and nobody is told (`:235`). The ceiling is then derived
  from what others counted, and may end the original program; ADR 0013:150-154
  has such a census leave "every ceiling at the floor", with a warning, and one
  that cannot be read leaves no ceilings at all
  (`internal/engine/divergence.go:50-54`). `OriginalIsSpared` excepts what ran in
  such a process (`Uncounted`).

The others are losses a property states the extent of, or the code looks
deliberate, or the document concedes the case elsewhere:

* A probe process that ends while a goroutine is still writing the mutant it
  claimed loses that report, and any other goroutine that saw the mutant has
  returned at once: the process passed and its log does not name the mutant,
  which `runtime.go:313` calls "the one lie a probe must never tell".
  `InfectionsAreLogged` says that nothing else is lost.
* A failed write of `--json` or `--explain` returns before the command asks how
  the run ended (`internal/cli/run.go:379-391`), so an interrupted run exits with
  2, where `docs/command-line.md:173-174` has 130 or 143. A replay of the
  dashboard's closing lines that cannot be written (`run.go:678-680`) cuts them
  short; the command then does not exit with success. `FinalsAreShown` says both.
* A mutant marked NeverReturns is confirmed after one attempt
  (`internal/execute/schedule.go:113`; `docs/json-schema.md:372` says two).
* A measured target is published with its package (`baseline.go:361`, ADR 0029;
  `checkpoint-v1.md:130` says immediately). A run whose lock operation fails
  verifies without the lease (`service.go:284`; `checkpoint-v1.md:30`).
* Discovery's second read of a source (`internal/discover/walk.go:84`) lets a
  change made and undone between parse and digest through
  (`docs/architecture.md:737` says it is caught). A path outside the manifest is
  read by the build (`session.go:787`; `docs/architecture.md:741` says no byte of
  the tree is; `docs/library.md:292` concedes it).
* A sweep reads the marker before it has the lock (`tempowner.go:182`): a
  directory kept between the two goes (`docs/architecture.md:107-111`).
* The group supervisor returns without SIGKILL when the leader exits in the grace
  period (`supervisor_posix.go:46`; `docs/library.md:712` says the whole tree is
  killed at Timeout).
* A collector looks once for a half-written bundle (`docs/trace-v1.md:374-378`).
* A probe pass that fails goes on without restoring its tree
  (`internal/engine/probe.go:152-165`; ADR 0011:112). A mutant reached only in a
  suite is reported uncovered (ADR 0010).
* Interrupted mutants are reported as interrupted, not as not selected
  (`docs/json-schema.md:386`, `docs/architecture.md:1122-1124`); a shard that was
  interrupted early makes `report merge` refuse with GOM7814.
* `docs/operators.md:414` calls edits of a post statement unreachable;
  `closureSite` in `guard.go` reaches them.
* `latest.json`'s marker may be half written where the file system has no links
  (GOM5133), and a run stored between a clean's listing and its removal goes
  uncounted.
* A header git prints with a space in the name ends in a tab, which `parse.go:56-69`
  does not strip; quoted headers are refused; a hunk that only deletes selects
  nothing; the diff is read before the snapshot (`engine.go:337`).
* Probe facts restored from the baseline's journal are indices that no
  fingerprint guards (`baseline.go:988-1015`; `checkpoint-v1.md:90-98`).
* The projection's preparation marks it dirty before its commands run
  (`assure/run.go:311`; ADR 0030). `getWithHooks` touches only the action's layer
  (ADR 0018:108-109); a collection acts on a listing it made before.
* The digest of a round is taken of the live tree after the workspace was copied
  (`assure/run.go:323-338`; ADR 0015:36-37), and an empty change set is filed
  without the final comparison. `fix` validates every candidate alone and applies
  them together.

## 4. What is proved

Twenty modules have proofs, of 29 theorems listed in `PROJECT.json` with the
property each one states. Every proof has the same form: an invariant that is
inductive (checked by TLC on the run's instance before it was proved), the lemma
that it holds initially, one lemma per part with one step per action, the lemma
that it implies the property, and a last step of temporal logic. None of the
properties is inductive alone; what each invariant adds is the argument.

**`WorkspaceProofs`**: `TypeCorrect`, `WindowIsPrivate`, `PreparedOnce`,
`DirectoriesOutliveCalls`, `CloseFinal`, `KeepIsKept` and `BuiltFromManifest`,
for any callers, any manifest, any directories whose removal may fail.
`SafetyInv` adds: who holds or awaits each lock is determined by the program
counters (`MuInv`, `TreeInv`, `SmuInv`); at most one caller is past the
preparation's claim and the locals describe it (`PrepInv`); instrumented bytes
exist only while the window's writer is inside (`InstrInv`); a closing caller
excludes the others (`CloseInv`); which directories exist at which place
(`DirsInv`); answers and leftovers (`AnswerInv`, `LeftoverInv`). `BuiltInv` adds
what each stage of the preparation has to show: a mutant's file was digested;
past the window's gate its digest is the manifest's; past the freeze the pinned
copies are the frozen bytes; and what the compiler has read so far is a pinned
copy or the instrumented one.

**`LibraryProofs`, `TempOwner`**: `DirectoriesSafe`, for any number of runs and
cleanup attempts. `OwnerInv`: a name is made by one run only
(`NamingInv`), what a sweep has condemned is not a name whose owner is still at
work (`JudgedInv`), an owner's lock and marker are there from the claim on
(`RandomInv`). `SweepInv` adds who may hold a lock (`LockInv`), that a run which
claims or marks a directory made it no day ago (`MarkedInv`), that a run whose
lock a sweep saw held does not claim again (`LivingInv`), that nobody writes again
under a name that was kept (`KeptInv`), and that an orphan a sweep has listed is
still ahead of it, reported, gone, or being removed (`OrphanInv`). The attempt found the first form of
`KeptIsObeyed` false with three runs: two sweeps may both have judged a
directory before it was kept, and the second then takes what the first has
emptied. The property now says what the code does promise.

**`EngineProofs`, `Schedule`**: `TypeCorrect`, `OutcomesEarned`, and `Implements`: every
step of `Schedule` is a step of `Verdicts` under the refinement mapping, or a
stutter; for any number of workers and mutants. The invariant says which indices
the workers hold, each one once and nothing known of it yet (`Hands`), in whose
hands a dirty tree is (`Trees`), that what is held back has timed out once
(`Held`), that a mutant without a verdict is in a worker's hands, owed a retry or
lost with its tree (`Accounted`), and that the first worker stops only at the end
of the queue (`Drained`).

**`GoatestProofs`, `Checkpoint`**: `TypeCorrect`, `JournalKept` and `ReuseSound`, for any
runs, targets, packages, mutants and catalogues. `SharedInv`, which holds with
and without the lock, says that a run's document differs from the one it
published in units alone while it journals (`KnownInv`), that a mutant is saved
after its catalogue (`CatalogInv`), targets are measured once (`TargetsInv`),
and that every finished line's mutant was measured under the catalogue of the
base it names (`SoundInv`): that is why a line of an older base may lie in the
journal, but must not be replayed. `LockedInv`, which holds until a run goes on
without the lock, adds that the holder alone touches the files (`LeaseInv`), that
between two of its operations the base on disk is its own and the lines of the
journal all extend it (`SavedInv`), that a document being published is not yet in
the journal and holds all that was recorded (`PublishInv`), and what is given up
(`ForgottenInv`).

**`GoatestProofs`, `Round`**: `RoundOrderly`, for any limit of rounds, any options
and any edits of the user. What is open is determined by the step, but for the
optional build cache (`HeldInv`); the preparation of the mutants runs in the
steps that wait for it alone (`PreparingInv`), so no exit closes the workspace
under it. Every content the evidence rests on lies between the copy and the live
tree (`ReadInv`): contents are numbered in the order the tree had them, so when
copy, digest and live tree are one at the end, nothing else was read. A report of
a round whose tree changed between the copy and the digest is excepted, because
the code does not notice it (section 3).

**`GoatestProofs`, `Repair`**: `RepairsWhole`, for any batch, any files and any
number of saves. Between a comparison and its write a file that nobody saved
since is what was compared (`ComparedInv`); what the user saved last stands where
no write fell into that window (`SavesInv`); a transaction's files hold the
candidate or what was there, by where the transaction is (`BatchInv`), so that
one that was taken back leaves what it found (`SettledInv`). The attempt found
the earlier form of the property false: a user may save the very content of a
candidate, or of its preimage, which the code, comparing contents, cannot tell
from the repair; and a file may have held the candidate's content before. The
property now excepts both.

**`GoatestProofs`, `SessionCalls`**: `CallsClean`, for any callers, requests,
mutants and builds. A call's scratch is there while the call works and after it
only if it was kept (`ScratchOf`); a fuzz target of Exec or Control that runs has
a copy of its own, which is not empty (`CopyOf`); what a probe pass logs its own
binary can report (`ProbeOf`), so that what is left after the mutants the main
tree rejected are dropped was probed, and "inconsistent" is no answer a call gives
(`CallAnswers`).

**`LibraryProofs`, `ModuleMemo`**: `AnswersRight`, for any finite set of askers: the count of
an answer is the number of callers interested in it, and a listing is torn down
only when there are none (`Counting`); one caller makes it (`OneLeader`); what was
read for a filed answer is no older than the last command's end (`Fresh`).
**`LibraryProofs`, `Runner`**: `VerdictRight`, on every platform and for any limits: a signal
has one reason, the first (`SignalInv`), the bound is exceeded only by what was
sampled (`MemoryInv`), and what is left of a tree is known (`TreeInv`).
**`LibraryProofs`, `Resource`**: `LeasesKept`, for any finite set of targets and any number
of instances: only who holds the mutex starts a provider (`Starting`), a count is
the number of leases and whoever brings it to zero stops the provider (`Leasing`),
a provider that lives is active or in Close's hands (`Hands`), and a waiter sleeps
on the channel that the next release closes (`Waiters`).
**`LibraryProofs`, `Recorder`**: `RecordingHonest`, for any sinks, capacities and
number of events: every attempt is a line of the stream or a loss that was
counted, the lines are in order and nothing follows the run-end (`StreamInv`); the
same of the ring, which has no spoilt line and, when it is bounded, room for the
run-end until it comes (`RingInv`); what the run-end says was lost is what was lost
before it (`AccountInv`). The reader
is a recursive function over the lines; what it makes of lines in order is given
outright (`SummaryOf`), satisfies the recursion, and two functions that do cannot
differ at a least line (`WellRead`).

**`EngineProofs`, `OutcomeCache`**: `CachedRemeasured`, for any runs, contexts and
limits. `CacheInv`: an entry holds what its own run measured under its own limits,
and a run that reports says what it measured or what such an entry says. The
argument is the lemma `Reuse`: an entry that passes `UsableUnder` and
`UsableWithin` has the outcome a measurement under the other limits would have,
unless it was made with no memory bound, which is why those are excepted.

**`EngineProofs`, `Snapshot`**: `StartFromTheSame`, for any files and any number of
edits and writes. `SnapshotInv`: a copy is equal to its manifest at every step
where only the copying has written into it, and while a tree is being put back
the files still to be restored cover all those whose digest differs, so the tree
is equal again when none is left.

**`EngineProofs`, `HistoryStore`**: `HistoryKept`, for any runs, workspaces and
cleans. A directory belongs to the key of its marker and holds documents of its
owner only (`PlaceInv`); who writes a marker in place is alone with half of it,
who has claimed a directory still owns it, and what was filed is there until a
clean takes it (`WriterInv`); a clean has deleted runs of its own module only, and
removes `latest` from a directory whose marker is the one it read (`CleanInv`).
The reader's newest run exists because a finite set of moments has a greatest.

**`EngineProofs`, `Recordings`**: `RecordingsKept`, an action property, for any
runs and collectors. The files of a bundle are there in the order they are written
in, and a run that has not begun has no directory (`JobInv`). What a collector is
still to remove was finished when it looked, and is finished, or gone, when it gets
there (`StaleInv`). Where nobody ran `trace clean`, each of them has RetainRuns
newer finished ones (`KeepInv`), whatever other collectors remove: a recording that
goes has RetainRuns newer ones of its own, which then stand for it.

**`EngineProofs`, `Narrowing`**: `NarrowingIsSound`, for any mutants, any finite
set of tests, any configuration and any ways in which the tests may reach, infect
and kill. `NarrowingInv`: in a clean tree a measured pass names every mutant
in the probe tree that infects its binary (`LogsAreComplete`); the tests singled out for a
binary pass a control together (`TestsAreControlled`), since a set that is
smaller than one that passed passes too, so that what fails in a measurement is
the mutant; and no binary that kills a mutant was left out of those it is
measured against, unless its probe was rejected (`NothingIsLost`). Coverage by test keeps that last part only
where tests reach alone what they reach in their suite, which is why the property
says so, and coverage by binary needs nothing.

**`KeepingProofs`, `KeptTemp`**: `KeptTempKept`, for any runs and collections.
That a directory in use is spared needs the life of its name: before a run claims
it nothing in it is marked, locked or old (`AheadInv`); while it is used it is
locked by its run and, once claimed, marked (`InUseInv`); so who is about to
remove it saw a marker, a lock or an age that it can only have when its run is
done with it (`AskedInv`). Only the last mark says kept (`MarkerInv`), hence what
was kept when a sweep began is kept still when the sweep reaches it
(`ListingInv`). The ledger names a run's directory when the run is done with it
(`NotedInv`); who writes the ledger has held its lock since it read it
(`LedgerInv`), and a collection has seen every line that is there (`ReadInv`),
which keeps it from a path only the ledger names (`ForeignInv`). `PlaceInv` and
`ScanInv` say what each process holds at each place. The property excepts one
directory from collections, as the code does: the projection shared by the runs
of a cache can be claimed again between a collection's question and its removal.

**`KeepingProofs`, `Retention`**: `DurableKept`, for any runs, collections,
reports and inputs. Who is at work holds the lease, or went on without it and
then neither deletes nor collects (`LeaseInv`). What an index names is whole, a
collection past an index guards what it names and condemns nothing it guards, and
what is staged or being indexed is whole (`ShelfInv`). Who deletes a checkpoint
has answered it (`WorkInv`); who sweeps the candidates has seen that no
checkpoint is left (`CandidateInv`). What a run without the lease publishes or
saves is outside the promise: the code calls that run failed.

**`KeepingProofs`, `Routing` and `Impact`**: `SkippingIsSound`, for any targets,
packages, files, options, numbers of runs and edits, and any ways in which the
tests may behave; the two histories are one specification, `SkippingSpec`, of
which the run `goatest` takes the parts one at a time. Of routing: contents only
grow, so a key that holds after an edit held before it and the edit left alone
what is behind it (`StampAfterEdit`); hence a target whose key holds and which
survived survives, and of a group that killed, while all its keys hold, one still
kills (`TargetKeysInv`); a suite whose key holds passes, or its coverage missed
the mutant (`SuiteKeyInv`). A route takes nothing that does not reach the mutant
and leaves out, unless coverage missed it, only what cannot fail (`RouteSound`),
so executing what is left decides as executing everything would
(`RoutedVerdict`). Of selection: the graph holds of every target what its own last
measurement saw, through any sequence of merges (`GraphInv`). The attempt found
two flaws: the selection's property was false beyond the bound of the run
(section 3), and the routing's took a target without exact blocks for one that
does not execute the place, in a world the instance did not have. Both the
properties and the instance were corrected.

Assumptions, each named in the module that declares the constant, and each a fact of
the code: the lock's "nobody" is no caller and the three kinds of path are
disjoint (`Workspace`); the stable, the old and the strange name are no run's
(`TempOwner`); there are workers (`Schedule`); "no value" is no run, catalogue
or document, every target has a package and a selection is of targets
(`Checkpoint`); askers are finitely many and an error is no listing
(`ModuleMemo`); the mark of a free mutex is no target and targets are finitely
many (`Resource`); runs, collections and the run before them are distinct, and a free
or absent lock is none of them (`KeptTemp`); the kinds of invocation and the old
reports are disjoint, reports are finitely many and at least one is kept
(`Retention`); sinks are those of the package and capacities natural numbers
(`Recorder`); memory is exceeded no later than the mutant ends and "none" is no
context (`OutcomeCache`); files that are instrumented are files that are not
generated (`Snapshot`); runs are finitely many positive moments, a digest has one
key and one module, and no marker of something else is a digest (`HistoryStore`);
run ids are numbers in the order of the starts, finitely many, and `trace clean`
is none of them (`Recordings`); a batch has a candidate, and what is saved is a
file (`Repair`); no call is named as the committed input is (`SessionCalls`);
tests are finitely many (`Narrowing`); every target has an execution environment,
the targets of the mutant's package are targets and the suite is none, and
closures and edits are of files of the tree (`Routing`).

Model-checked only, and why:

* `CallsReturn`, `Returns`, `CallsComeBack`: liveness needs fairness and ENABLED,
  which the prover does not do.
* The properties of `Catalogue`, `Instrument`, `Report`, `Pipeline`, `Limits` and
  `Explain`: they speak of what a fold over a sequence or a RECURSIVE operator
  computes. A recursive function can be reasoned about by a least counterexample,
  as in `Recorder`, once its result is known outright; the induction theorems that a fold needs take an operator as
  a parameter, which the prover cannot instantiate.
* `ConsoleIsComplete`, and the other properties of `mutants` and of `goatest`: not yet
  attempted (section 5), or analyses over bounded inputs
  (`DiscoveryIsRight`, `ReadsAsTheProgram`) where the instance is the question.

## 5. Plan, and what is not modelled

Next, in this order: proofs of `Console` (what is told is shown) and of
`BuildCache` (the cache serves what was stored);
`mutationSelection` and `impact_ranges.go`; returns and statement deletions in
`Discover`.

Not modelled: the glob matcher (characters only, fuzzed by the repository
against its own reference), rendering of HTML, Markdown and terminal layout,
decoding and merging of configuration and flags (sequential, covered by table
tests), the JSON and protocol encodings, calls to the go command and the parsing
of what it prints, test support, developer tools, published schemas and vendored
data. In these a state is either absent or written once, and no order of steps
is at issue.
