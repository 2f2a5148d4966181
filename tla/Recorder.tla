------------------------------ MODULE Recorder ------------------------------
(***************************************************************************)
(* The recorder of a run and the sinks it writes to (trace/trace.go,       *)
(* trace/sink.go), with the reader of what they leave (trace/reader.go).   *)
(*                                                                         *)
(* Every event is emitted under the recorder's mutex, so an emission is    *)
(* one step whoever makes it.  An event is its sequence number and its     *)
(* type; every type between run-start and run-end is one type here, since  *)
(* no sink and no accounting rule tells them apart.                        *)
(***************************************************************************)
EXTENDS Integers, Sequences, FiniteSets, SequencesExt

CONSTANTS
  SinkKinds,   \* the sinks of the instance: "dir", "ring", "tee" and "own"
  Capacities,  \* capacities of the ring
  MaxSeq       \* bound: events emitted

ASSUME RecorderAssumption ==
  /\ SinkKinds \subseteq {"dir", "ring", "tee", "own"}
  /\ Capacities \subseteq Nat /\ MaxSeq \in Nat

VARIABLES
  recorder,   \* Recorder: seq, attempts, failures and ended
  sink,       \* which sink records, and the ring's capacity
  stream,     \* DirSink: the lines of trace.jsonl, whether the last one is torn
  ring,       \* MemorySink
  account     \* the run-end record's numbers, once RunEnd was called

recorderVars == <<recorder, sink, stream, ring, account>>

NoAccount == [emitted |-> -1, dropped |-> -1]

Event(n, type) == [seq |-> n, type |-> type]

ToStream == sink.kind \in {"dir", "tee"}
ToRing == sink.kind \in {"ring", "tee"}

-----------------------------------------------------------------------------
(* The sinks *)

\* DirSink.Emit with one outcome of the write: the line, nothing of it, or a
\* part of it.  A line that follows a part is joined to it.
DirEmit(e, how) ==
  IF stream.closed \/ how = "lost"
  THEN [stream EXCEPT !.dropped = @ + 1]
  ELSE IF how = "part"
  THEN [stream EXCEPT !.dropped = @ + 1, !.torn = TRUE]
  ELSE [stream EXCEPT !.lines = Append(@, IF stream.torn THEN [e EXCEPT !.type = "spoilt"] ELSE e),
                      !.torn = FALSE]

\* MUTANT: the ring has no slot of its own for the run-end.
RingEmitFull(e) ==
  IF ring.closed THEN [ring EXCEPT !.dropped = @ + 1]
  ELSE LET all  == Append(ring.events, e)
           over == Len(all) - sink.capacity
       IN IF sink.capacity > 0 /\ over > 0
          THEN [ring EXCEPT !.events = SubSeq(all, over + 1, Len(all)), !.dropped = @ + over]
          ELSE [ring EXCEPT !.events = all]

\* MemorySink.Emit: the last slot is the run-end's.
RingEmit(e) ==
  IF ring.closed THEN [ring EXCEPT !.dropped = @ + 1]
  ELSE LET all  == Append(ring.events, e)
           room == IF e.type = "run-end" THEN sink.capacity ELSE sink.capacity - 1
           over == Len(all) - room
       IN IF sink.capacity > 0 /\ over > 0
          THEN [ring EXCEPT !.events = SubSeq(all, over + 1, Len(all)), !.dropped = @ + over]
          ELSE [ring EXCEPT !.events = all]

\* TeeSink.Emit hands the event to every sink, whatever the others said; a
\* sink that cannot count its losses leaves that to the recorder.
Deliver(e, how) ==
  /\ stream' = IF ToStream THEN DirEmit(e, how) ELSE stream
  /\ ring' = IF ToRing THEN RingEmit(e) ELSE ring

Kept(how) ==
  /\ ToStream => ~stream.closed /\ how = "line"
  /\ ToRing => ~ring.closed
  /\ sink.kind = "own" => how = "line"

\* The outcomes a write to this sink can have.
WriteOutcomes == IF sink.kind = "ring" THEN {"line"}
            ELSE IF sink.kind = "own" THEN {"line", "lost"} ELSE {"line", "lost", "part"}

\* droppedLocked
Dropped ==
  IF sink.kind = "own" THEN recorder.failures
  ELSE (IF ToStream THEN stream.dropped ELSE 0) + (IF ToRing THEN ring.dropped ELSE 0)

-----------------------------------------------------------------------------
(* The recorder *)

\* emitLocked: nothing after the run-end, and a number for every attempt.
EmitLocked(type, how) ==
  IF recorder.ended THEN UNCHANGED <<recorder, stream, ring>>
  ELSE /\ recorder' = [recorder EXCEPT !.seq = @ + 1, !.attempts = @ + 1,
                         !.failures = IF Kept(how) THEN @ ELSE @ + 1,
                         !.ended = type = "run-end"]
       /\ Deliver(Event(recorder.seq + 1, type), how)

\* New, with the run-start it emits; NewDirSink made an empty stream.
RecorderInit ==
  /\ sink \in [kind : SinkKinds, capacity : Capacities]
  /\ recorder = [seq |-> 0, attempts |-> 0, failures |-> 0, ended |-> FALSE]
  /\ stream = [lines |-> <<>>, torn |-> FALSE, dropped |-> 0, closed |-> FALSE]
  /\ ring = [events |-> <<>>, dropped |-> 0, closed |-> FALSE]
  /\ account = NoAccount

RecorderStart ==
  /\ recorder.seq = 0
  /\ \E how \in WriteOutcomes : EmitLocked("run-start", how)
  /\ UNCHANGED <<sink, account>>

\* Any of the recorder's other methods, from any goroutine.
Emit ==
  /\ recorder.seq \in 1..(MaxSeq - 2)
  /\ \E how \in WriteOutcomes : EmitLocked("event", how)
  /\ UNCHANGED <<sink, account>>

\* RunEnd: the accounting is taken before the event is written.
RunEnd ==
  /\ recorder.seq > 0 /\ ~recorder.ended
  /\ LET emitted == recorder.attempts - Dropped
     IN account' = [emitted |-> IF emitted > 0 THEN emitted ELSE 0, dropped |-> Dropped]
  /\ \E how \in WriteOutcomes : EmitLocked("run-end", how)
  /\ UNCHANGED sink

\* The owner of the sink closes it; a recorder may still be used.
CloseSink ==
  /\ recorder.seq > 0
  /\ ~stream.closed \/ ~ring.closed
  /\ stream' = [stream EXCEPT !.closed = TRUE]
  /\ ring' = [ring EXCEPT !.closed = TRUE]
  /\ UNCHANGED <<recorder, sink, account>>

RecorderNext == RecorderStart \/ Emit \/ RunEnd \/ CloseSink

RecorderSpec == RecorderInit /\ [][RecorderNext]_recorderVars

-----------------------------------------------------------------------------
(* The reader *)

NothingRead == [ok |-> TRUE, last |-> 0, missing |-> 0, events |-> 0, ended |-> FALSE]
Refusal == [NothingRead EXCEPT !.ok = FALSE]

\* decodeEvent and Summary.accept for one line.
Accept(e, summary) ==
  IF \/ ~summary.ok
     \/ e.type = "spoilt"
     \/ summary.ended
     \/ e.type = "run-start" /\ summary.events > 0
     \/ e.seq <= summary.last
  THEN Refusal
  ELSE [ok |-> TRUE, last |-> e.seq, missing |-> summary.missing + (e.seq - summary.last - 1),
        events |-> summary.events + 1, ended |-> e.type = "run-end"]

\* readStream
ReadStream(lines) ==
  LET read[n \in 0..Len(lines)] == IF n = 0 THEN NothingRead ELSE Accept(lines[n], read[n - 1])
  IN read[Len(lines)]

-----------------------------------------------------------------------------
(* Properties *)

Spoilt == stream.torn \/ \E i \in DOMAIN stream.lines : stream.lines[i].type = "spoilt"

\* Whatever was lost and whenever the sink was closed, what is on disk is read
\* back: the sequence rises, the run-start is first and nothing follows the
\* run-end.  Only a write that failed half way leaves a stream it refuses.
RestIsReadable ==
  /\ ~Spoilt => ReadStream(stream.lines).ok
  /\ ReadStream(ring.events).ok

\* What the run-end says was lost is what a reader finds missing: the gaps in
\* the numbers of a stream or of a ring add up to events_dropped, and what it
\* says was kept is in the sink (RunEnd, droppedLocked, MemorySink.Emit).
LossIsReported ==
  /\ sink.kind = "dir" /\ ~Spoilt /\ ReadStream(stream.lines).ended =>
       /\ ReadStream(stream.lines).missing = account.dropped
       /\ ReadStream(stream.lines).events = account.emitted + 1
  /\ sink.kind = "ring" /\ ReadStream(ring.events).ended =>
       /\ ReadStream(ring.events).missing = account.dropped
       /\ ReadStream(ring.events).events = account.emitted + 1

\* A ring that was open when the run ended holds the run-end, however small
\* it is and however much fell out of it.
RingKeepsTheEnd ==
  ToRing /\ recorder.ended /\ ~ring.closed =>
     ring.events /= <<>> /\ Last(ring.events).type = "run-end"

\* What a recording lost, it says, and the rest of it is read back.
RecordingIsHonest == RestIsReadable /\ LossIsReported /\ RingKeepsTheEnd
==============================================================================
