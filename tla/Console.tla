------------------------------- MODULE Console -------------------------------
(***************************************************************************)
(* What a run tells its user while it runs (internal/engine engine.go and  *)
(* events.go, internal/console, internal/tui, internal/cli run.go and      *)
(* signal.go).  The engine and its workers publish events on one bounded   *)
(* channel.  With -v every trace event goes there too, through a queue and *)
(* a goroutine of its own.  On the other side is a renderer: the plain     *)
(* lines, or the dashboard, whose program may end before the run does and  *)
(* whose closing lines are replayed once it has.  The command waits for    *)
(* both, and turns the end of the run into an exit code.                   *)
(*                                                                         *)
(* The text of a line is left out; which events get one is not.            *)
(***************************************************************************)
EXTENDS Naturals, Sequences, FiniteSets, SequencesExt

CONSTANTS
  EventBuffer,     \* the capacity of the event channel
  PublishBuffer,   \* the capacity of the queue of trace events
  ConsoleWorkers,  \* the workers of the execution phase, 1..n
  ConsoleMutants,  \* the mutants it measures, 1..n
  Renderings       \* the renderings of the instance

VARIABLES
  rendering, \* the renderer and its flags
  script,    \* what the engine still has to do
  openPhase, \* the phase that was announced and not yet completed
  hands,     \* what each worker does
  undone,    \* the mutants no worker has taken
  heldBack,  \* the mutants that timed out and wait for the retry
  ran,       \* how the run ends
  told,      \* what was sent: the final events, the mutants, the last of the phases
  channel,   \* the events that are in the channel, and whether it is closed
  publish,   \* the queue of trace events and its forwarder
  renderer,  \* the state of the renderer
  screen,    \* the events that have a line on the user's terminal
  signals    \* the cancellation, the signal behind it, the document, the exit code

consoleVars == <<rendering, script, openPhase, hands, undone, heldBack, ran, told, channel,
                 publish, renderer, screen, signals>>

Dashboard == rendering.kind = "dashboard"
Ev(kind, about) == [kind |-> kind, about |-> about]

\* The end of Run, whatever happened before it: release, closePhase, RunEnd,
\* drainPublished, RunCompleted and the deferred close.
Closing == <<"kept", "phase-end", "phase-completed", "run-end", "drain", "completed", "close">>

\* Two of the four phases; each is entered through enterPhase.
Enter(p) == <<"phase-end", "phase-completed", p, "phase-start">>
Pipeline0 == <<"planned">> \o Enter("mutate") \o <<"work", "note", "warning">>
             \o Enter("report") \o <<"published">>

\* What the properties need of the stream that was sent.
Nothing == [final |-> <<>>, settled |-> <<>>, phase |-> "phase-completed", orderly |-> TRUE]
NoHand == [at |-> "idle", mutant |-> 0]

ConsoleInit ==
  /\ rendering \in Renderings
  /\ script = Pipeline0 \o Closing /\ openPhase = "none"
  /\ hands = [w \in ConsoleWorkers |-> NoHand]
  /\ undone = ConsoleMutants /\ heldBack = {} /\ ran = "ok"
  /\ told = Nothing /\ channel = [queued |-> <<>>, closed |-> FALSE]
  /\ publish = [queue |-> 0, held |-> FALSE, closed |-> FALSE, done |-> FALSE, panicked |-> FALSE]
  /\ renderer = [at |-> "running", failed |-> FALSE, got |-> Ev("none", 0), final |-> <<>>,
                 program |-> TRUE, stopping |-> FALSE, decided |-> 0,
                 slots |-> [w \in ConsoleWorkers |-> 0]]
  /\ screen = <<>>
  /\ signals = [cancelled |-> FALSE, recorded |-> "none", sent |-> 0, keys |-> 0,
                filed |-> FALSE, unwritten |-> FALSE, exit |-> "none"]

-----------------------------------------------------------------------------
(* The engine *)

\* Renderer.keep: what a dashboard run replays.
Final == {"warning", "published", "kept", "completed"}
AboutPhases == {"phase", "phase-completed", "completed"}

\* The stream with one more event: orderly as long as a phase is completed
\* before the next one and before the run, and nothing follows the run's end.
Telling(e) ==
  [final   |-> IF e.kind \in Final THEN Append(told.final, e.kind) ELSE told.final,
   settled |-> IF e.kind = "finished" THEN Append(told.settled, e.about) ELSE told.settled,
   phase   |-> IF e.kind \in AboutPhases THEN e.kind ELSE told.phase,
   orderly |-> /\ told.orderly /\ told.phase /= "completed"
               /\ e.kind \in AboutPhases => (e.kind = "phase-completed") = (told.phase = "phase")]

\* emit: a send that waits for room.
Emit(e) ==
  /\ Len(channel.queued) < EventBuffer /\ ~channel.closed
  /\ channel' = [channel EXCEPT !.queued = Append(@, e)]
  /\ told' = Telling(e)

\* eventSink.Emit, under the recorder's lock: it too waits for room.  A run
\* that does not publish its trace, and a recorder that has ended, take none.
Record0 ==
  IF ~rendering.publish THEN UNCHANGED publish
  ELSE /\ publish.queue < PublishBuffer
       /\ publish' = [publish EXCEPT !.queue = @ + 1, !.panicked = @ \/ publish.closed]

Item == Head(script)
EngineSteps(S) == script /= <<>> /\ Item \in S
NextItem == script' = Tail(script)

\* The events that are sent unconditionally.
Announce ==
  /\ EngineSteps({"planned", "warning", "published", "completed"})
  /\ Emit(Ev(Item, 0)) /\ NextItem
  /\ signals' = [signals EXCEPT !.filed = @ \/ Item = "published"]
  /\ UNCHANGED <<rendering, openPhase, hands, undone, heldBack, ran, publish, renderer, screen>>

\* release: the directories that were kept, if any.
Kept ==
  /\ EngineSteps({"kept"})
  /\ NextItem
  /\ Emit(Ev("kept", 0)) \/ UNCHANGED <<channel, told>>
  /\ UNCHANGED <<rendering, openPhase, hands, undone, heldBack, ran, publish, renderer, screen, signals>>

\* enterPhase announces the phase; PhaseStart records it.
PhaseChanged ==
  /\ EngineSteps({"mutate", "report"})
  /\ Emit(Ev("phase", Item)) /\ openPhase' = Item /\ NextItem
  /\ UNCHANGED <<rendering, hands, undone, heldBack, ran, publish, renderer, screen, signals>>

\* The recordings of the engine itself: phaseEnd, PhaseStart, Note, RunEnd.
RecordOwn ==
  /\ EngineSteps({"phase-end", "phase-start", "note", "run-end"})
  /\ NextItem
  /\ IF Item = "phase-end" /\ openPhase = "none" THEN UNCHANGED publish ELSE Record0
  /\ UNCHANGED <<rendering, openPhase, hands, undone, heldBack, ran, told, channel, renderer, screen, signals>>

\* closePhase
PhaseCompleted ==
  /\ EngineSteps({"phase-completed"})
  /\ IF openPhase = "none" THEN UNCHANGED <<channel, told>> ELSE Emit(Ev("phase-completed", openPhase))
  /\ openPhase' = "none" /\ NextItem
  /\ UNCHANGED <<rendering, hands, undone, heldBack, ran, publish, renderer, screen, signals>>

InPipeline == Len(script) > Len(Closing)

\* A stage of the pipeline that returns an error, other than Schedule: of an
\* interrupted run only the publication, which may have filed the document and
\* leaves the run as interrupted as it was.
StageFails ==
  /\ InPipeline /\ script /= <<>> /\ Item /= "work"
  /\ ran = "ok" \/ (ran = "interrupted" /\ Item = "published")
  /\ script' = Closing
  /\ \/ ran' = IF ran = "ok" THEN "failed" ELSE ran
     \/ signals.cancelled /\ Item /= "published" /\ ran' = "interrupted"
  /\ \E filed \in {FALSE, Item = "published"} : signals' = [signals EXCEPT !.filed = filed]
  /\ UNCHANGED <<rendering, openPhase, hands, undone, heldBack, told, channel, publish, renderer, screen>>

-----------------------------------------------------------------------------
(* Schedule *)

Busy(w) == hands[w].at /= "idle"
Working == EngineSteps({"work"}) /\ ran /= "failed"
Hand(w, at, i) == hands' = [hands EXCEPT ![w] = [at |-> at, mutant |-> i]]

\* A worker takes the next mutant and announces it.
TakeMutant(w) ==
  /\ Working /\ ~Busy(w) /\ ~signals.cancelled
  /\ \E i \in undone :
       /\ \A j \in undone : i <= j
       /\ undone' = undone \ {i} /\ Hand(w, "starting", i)
  /\ UNCHANGED <<rendering, script, openPhase, heldBack, ran, told, channel, publish, renderer, screen, signals>>

MutantStarted(w) ==
  /\ hands[w].at \in {"starting", "restarting"}
  /\ Emit(Ev("started", <<hands[w].mutant, w>>))
  /\ Hand(w, IF hands[w].at = "starting" THEN "running" ELSE "rerunning", hands[w].mutant)
  /\ UNCHANGED <<rendering, script, openPhase, undone, heldBack, ran, publish, renderer, screen, signals>>

\* RunOne, and the attempt in the recording; a timeout waits for the retry, a
\* tree that cannot be put back ends the phase without an announcement.
AttemptEnds(w) ==
  /\ hands[w].at \in {"running", "rerunning"}
  /\ Record0
  /\ \/ Hand(w, "finishing", hands[w].mutant) /\ UNCHANGED <<heldBack, ran>>
     \/ /\ hands[w].at = "running" /\ heldBack' = heldBack \cup {hands[w].mutant}
        /\ Hand(w, "idle", 0) /\ UNCHANGED ran
     \/ ran' = "failed" /\ Hand(w, "idle", 0) /\ UNCHANGED heldBack
  /\ UNCHANGED <<rendering, script, openPhase, undone, told, channel, renderer, screen, signals>>

MutantFinished(w) ==
  /\ hands[w].at = "finishing"
  /\ Emit(Ev("finished", hands[w].mutant)) /\ Hand(w, "idle", 0)
  /\ UNCHANGED <<rendering, script, openPhase, undone, heldBack, ran, publish, renderer, screen, signals>>

PoolIsDone == Working /\ (\A w \in ConsoleWorkers : ~Busy(w)) /\ (undone = {} \/ signals.cancelled)

\* The retries, one at a time, on the first worker; a cancelled run announces
\* what it does not retry.
Retry ==
  /\ PoolIsDone /\ heldBack /= {}
  /\ \E i \in heldBack :
       /\ \A j \in heldBack : i <= j
       /\ heldBack' = heldBack \ {i}
       /\ IF signals.cancelled
          THEN Emit(Ev("finished", i)) /\ UNCHANGED hands
          ELSE Hand(1, "restarting", i) /\ UNCHANGED <<channel, told>>
  /\ UNCHANGED <<rendering, script, openPhase, undone, ran, publish, renderer, screen, signals>>

\* Schedule returns; an interrupted run goes on to publish what it has, a
\* failed one does not.
ScheduleReturns ==
  /\ \/ /\ PoolIsDone /\ heldBack = {}
        /\ ran' = IF signals.cancelled THEN "interrupted" ELSE "ok"
        /\ NextItem
     \/ /\ EngineSteps({"work"}) /\ ran = "failed" /\ \A w \in ConsoleWorkers : ~Busy(w)
        /\ script' = Closing /\ UNCHANGED ran
  /\ UNCHANGED <<rendering, openPhase, hands, undone, heldBack, told, channel, publish, renderer, screen, signals>>

-----------------------------------------------------------------------------
(* The trace, published *)

\* forward takes an event of the queue and emits it.
Forward ==
  /\ \/ publish.queue > 0 /\ ~publish.held /\ ~publish.done
        /\ publish' = [publish EXCEPT !.queue = @ - 1, !.held = TRUE] /\ UNCHANGED <<channel, told>>
     \/ publish.held /\ Emit(Ev("traced", 0)) /\ publish' = [publish EXCEPT !.held = FALSE]
     \/ /\ publish.closed /\ publish.queue = 0 /\ ~publish.held /\ ~publish.done
        /\ publish' = [publish EXCEPT !.done = TRUE] /\ UNCHANGED <<channel, told>>
  /\ UNCHANGED <<rendering, script, openPhase, hands, undone, heldBack, ran, renderer, screen, signals>>

\* drainPublished closes the queue and waits for the forwarder.
DrainPublished ==
  /\ EngineSteps({"drain"})
  /\ \/ ~rendering.publish /\ NextItem /\ UNCHANGED publish
     \/ /\ rendering.publish /\ ~publish.closed
        /\ publish' = [publish EXCEPT !.closed = TRUE] /\ UNCHANGED script
     \/ rendering.publish /\ publish.done /\ NextItem /\ UNCHANGED publish
  /\ UNCHANGED <<rendering, openPhase, hands, undone, heldBack, ran, told, channel, renderer, screen, signals>>

CloseEvents ==
  /\ EngineSteps({"close"}) /\ NextItem
  /\ channel' = [channel EXCEPT !.closed = TRUE]
  /\ UNCHANGED <<rendering, openPhase, hands, undone, heldBack, ran, told, publish, renderer, screen, signals>>

-----------------------------------------------------------------------------
(* The renderers *)

\* PlainRenderer.line: the events that get a line.
Shown(e) ==
  \/ e.kind \in Final
  \/ e.kind \in {"planned", "phase", "finished"} /\ ~rendering.quiet
  \/ e.kind \in {"phase-completed", "traced"} /\ rendering.publish

\* Of the lines on the screen the properties need the final ones.
Lines(e) == IF e.kind \in Final THEN Append(screen, e.kind) ELSE screen

Takes == channel.queued /= <<>> /\ channel' = [channel EXCEPT !.queued = Tail(@)]
Got == Head(channel.queued)

\* MUTANT: a line that cannot be written ends the renderer.
PlainRunGivesUp ==
  /\ ~Dashboard /\ renderer.at = "running"
  /\ \/ /\ Takes
        /\ \/ Shown(Got) /\ screen' = Lines(Got) /\ UNCHANGED renderer
           \/ Shown(Got) /\ renderer' = [renderer EXCEPT !.failed = TRUE, !.at = "returned"]
              /\ UNCHANGED screen
           \/ ~Shown(Got) /\ UNCHANGED <<renderer, screen>>
     \/ /\ channel.queued = <<>> /\ channel.closed
        /\ renderer' = [renderer EXCEPT !.at = "returned"] /\ UNCHANGED <<channel, screen>>
  /\ UNCHANGED <<rendering, script, openPhase, hands, undone, heldBack, ran, told, publish, signals>>

\* PlainRenderer.Run reads the stream to its end; a line that cannot be
\* written is the last one it tries to write.
PlainRun ==
  /\ ~Dashboard /\ renderer.at = "running"
  /\ \/ /\ Takes
        /\ \/ Shown(Got) /\ ~renderer.failed /\ screen' = Lines(Got) /\ UNCHANGED renderer
           \/ Shown(Got) /\ ~renderer.failed /\ renderer' = [renderer EXCEPT !.failed = TRUE]
              /\ UNCHANGED screen
           \/ (~Shown(Got) \/ renderer.failed) /\ UNCHANGED <<renderer, screen>>
     \/ /\ channel.queued = <<>> /\ channel.closed
        /\ renderer' = [renderer EXCEPT !.at = "returned"] /\ UNCHANGED <<channel, screen>>
  /\ UNCHANGED <<rendering, script, openPhase, hands, undone, heldBack, ran, told, publish, signals>>

\* The goroutine of the dashboard that reads the stream: keep, then Send.
Pump ==
  /\ Dashboard /\ renderer.at = "running"
  /\ \/ /\ Takes
        /\ renderer' = [renderer EXCEPT !.at = "sending", !.got = Got,
                          !.final = IF Got.kind \in Final THEN Append(@, Got.kind) ELSE @]
     \/ /\ channel.queued = <<>> /\ channel.closed
        /\ renderer' = [renderer EXCEPT !.at = "sending", !.got = Ev("stream-closed", 0)]
        /\ UNCHANGED channel
  /\ UNCHANGED <<rendering, script, openPhase, hands, undone, heldBack, ran, told, publish, screen, signals>>

\* fold, claim, settle and releaseAll: the slots of the workers, the count of
\* the mutants that are decided, and the end of the program.
Fold(e) ==
  CASE e.kind = "started" -> [renderer EXCEPT !.slots[e.about[2]] = e.about[1]]
    [] e.kind = "finished" ->
         [renderer EXCEPT !.decided = @ + 1,
            !.slots = [w \in ConsoleWorkers |-> IF @[w] = e.about THEN 0 ELSE @[w]]]
    [] e.kind \in {"completed", "stream-closed"} ->
         [renderer EXCEPT !.program = FALSE, !.slots = [w \in ConsoleWorkers |-> 0]]
    [] OTHER -> renderer

\* Send hands the event to the program, or to nobody once that has ended.
Send ==
  /\ Dashboard /\ renderer.at = "sending"
  /\ LET after == IF renderer.program THEN Fold(renderer.got) ELSE renderer IN
       renderer' = [after EXCEPT !.got = Ev("none", 0),
                      !.at = IF renderer.got.kind = "stream-closed" THEN "drained" ELSE "running"]
  /\ UNCHANGED <<rendering, script, openPhase, hands, undone, heldBack, ran, told, channel, publish,
                 screen, signals>>

\* Ctrl-C in the dashboard: the first cancels the run, the second leaves.
KeyPressed ==
  /\ Dashboard /\ renderer.program /\ signals.keys < 2
  /\ IF renderer.stopping
     THEN renderer' = [renderer EXCEPT !.program = FALSE] /\ signals' = [signals EXCEPT !.keys = 2]
     ELSE /\ renderer' = [renderer EXCEPT !.stopping = TRUE]
          /\ signals' = [signals EXCEPT !.keys = 1, !.cancelled = TRUE]
  /\ UNCHANGED <<rendering, script, openPhase, hands, undone, heldBack, ran, told, channel, publish, screen>>

\* A terminal that the dashboard cannot drive.
ProgramFails ==
  /\ Dashboard /\ renderer.program
  /\ renderer' = [renderer EXCEPT !.program = FALSE]
  /\ UNCHANGED <<rendering, script, openPhase, hands, undone, heldBack, ran, told, channel, publish,
                 screen, signals>>

\* Run of the dashboard waits for the program and then for the stream.
DashboardReturns ==
  /\ Dashboard /\ renderer.at = "drained" /\ ~renderer.program
  /\ renderer' = [renderer EXCEPT !.at = "returned"]
  /\ UNCHANGED <<rendering, script, openPhase, hands, undone, heldBack, ran, told, channel, publish,
                 screen, signals>>

-----------------------------------------------------------------------------
(* The command *)

\* A signal: recorded, and then the run is cancelled.
SignalArrives ==
  /\ signals.sent = 0 /\ signals.exit = "none"
  /\ \E s \in {"interrupt", "terminate"} :
       signals' = [signals EXCEPT !.sent = 1, !.recorded = s, !.cancelled = TRUE]
  /\ UNCHANGED <<rendering, script, openPhase, hands, undone, heldBack, ran, told, channel, publish,
                 renderer, screen>>

\* interpret, policyFailure and ExitCode; unshown: a closing line could not be
\* written.
ExitOf(unshown) ==
  CASE ran = "interrupted" -> IF signals.recorded = "terminate" THEN "terminated" ELSE "interrupted"
    [] ran = "failed" \/ unshown -> "infrastructure"
    [] OTHER -> "success"

\* The rest of execute, once the run and the renderer have both returned.
\* finishRendering replays what the dashboard kept, and a line that cannot be
\* written is the last one.  Then --json and --explain write the document that
\* was filed; where that fails the command returns before it asks how the run
\* ended.
CommandExits ==
  /\ script = <<>> /\ renderer.at = "returned" /\ signals.exit = "none"
  /\ screen' \in IF Dashboard THEN {SubSeq(renderer.final, 1, n) : n \in 0 .. Len(renderer.final)}
                ELSE {screen}
  /\ renderer' = [renderer EXCEPT !.failed = @ \/ (Dashboard /\ screen' /= renderer.final)]
  /\ \E unwritten \in {FALSE, rendering.output /\ signals.filed} :
       signals' = [signals EXCEPT !.unwritten = unwritten,
                     !.exit = IF unwritten THEN "infrastructure" ELSE ExitOf(renderer'.failed)]
  /\ UNCHANGED <<rendering, script, openPhase, hands, undone, heldBack, ran, told, channel, publish>>

EngineStep ==
  \/ Announce \/ Kept \/ PhaseChanged \/ RecordOwn \/ PhaseCompleted \/ StageFails
  \/ \E w \in ConsoleWorkers :
       TakeMutant(w) \/ MutantStarted(w) \/ AttemptEnds(w) \/ MutantFinished(w)
  \/ Retry \/ ScheduleReturns \/ DrainPublished \/ CloseEvents

RendererStep == PlainRun \/ Pump \/ Send \/ DashboardReturns

ConsoleStep == EngineStep \/ Forward \/ RendererStep \/ CommandExits

ConsoleNext == ConsoleStep \/ KeyPressed \/ ProgramFails \/ SignalArrives

-----------------------------------------------------------------------------
(* Properties *)

\* Whoever ended first, the run, the dashboard by a key, or the terminal: the
\* user is left with every warning, kept directory, published path and the
\* closing block, in the order they were published; only a line that could not
\* be written, plain or replayed, cuts that short, and then the command does not
\* exit with success.  An interrupted run exits as one, unless its document was
\* to be written and was not, and no other run does.  On the way every announced
\* phase is completed, once, before the next one and before the run,
\* RunCompleted is the last event of the stream, and nothing is recorded into the
\* closed queue (Renderer.Run, finishRendering, closePhase, drainPublished).
FinalsAreShown ==
  /\ told.orderly /\ ~publish.panicked
  /\ signals.exit /= "none" =>
       /\ told.phase = "completed"
       /\ IsPrefix(screen, told.final)
       /\ screen = told.final \/ (renderer.failed /\ signals.exit /= "success")
       /\ signals.exit \in {"interrupted", "terminated"} => ran = "interrupted"
       /\ ran = "interrupted" => signals.exit \in {"interrupted", "terminated"} \/ signals.unwritten

\* No one of the engine, the workers, the forwarder and the renderer waits for
\* another that waits for it: until the command has exited one of them can go
\* on, however small the buffers and whatever has failed.
NobodyIsStuck == signals.exit = "none" => ENABLED ConsoleStep

\* A slot of the dashboard that is busy shows a mutant that is not settled, and
\* every settled mutant is counted once, retried ones and ones that a
\* cancelled run did not retry included (fold, claim, settle).
DashboardKeepsStep ==
  /\ IsInjective(told.settled) /\ renderer.decided <= Len(told.settled)
  /\ renderer.program /\ channel.queued = <<>> /\ renderer.at = "running" =>
       /\ (Dashboard => renderer.decided = Len(told.settled))
       /\ \A w \in ConsoleWorkers : renderer.slots[w] \notin Range(told.settled)
=============================================================================
