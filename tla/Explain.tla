------------------------------ MODULE Explain ------------------------------
(***************************************************************************)
(* What `go-mutants explain` says of a mutant (internal/cli/explain_cmd.go *)
(* and internal/cli/explainaccount.go): it finds a report in the history,  *)
(* a mutant in the report and a recording of a run, and joins them by      *)
(* attempt and by sequence number.                                         *)
(*                                                                         *)
(* The run being recorded is here as the writer of what is joined: stages  *)
(* open and close, workers interleave their commands, any event may be     *)
(* missing from the stream (a failed write, or a diagnostics bundle, which *)
(* is the end of a bounded ring), and the stream may simply stop.  Run and *)
(* mutant identifiers are short sequences, since both are asked for by a   *)
(* prefix.  Wording, colours and layout are left out.                      *)
(***************************************************************************)
EXTENDS Integers, Sequences, FiniteSets, SequencesExt

CONSTANTS
  ThisRun,       \* the run whose events are recorded here
  History,       \* readHistory: the stored runs of the module, newest first
  Explained,     \* the identifiers of the report's mutants
  Refused,       \* the identifiers of the mutants validation rejected
  Workers,       \* the workers of the execution phase
  Asks,          \* the command lines: [run, subject, trace]
  MaxSeq,        \* bound: events emitted
  MaxLost        \* bound: events missing from the stream

VARIABLES
  fate,        \* mutant -> why it has executions or has none
  stored,      \* the roots that hold a recording of this run
  seq,         \* the recorder's last sequence number
  events,      \* trace.Read: the events of the stream
  openStages,  \* the stages in progress, outermost first
  stages,      \* every stage as it was: its name, start and end
  work,        \* worker -> the attempt it is making
  executions   \* report.Mutant.Executions, in the order they were recorded

explainVars == <<fate, stored, seq, events, openStages, stages, work, executions>>

Fates == {"selected", "cached", "uncovered", "unselected"}
Forever == MaxSeq + 1      \* math.MaxInt64, the end of an open span
Idle == [mutant |-> <<>>, attempt |-> 0, seqs |-> <<>>]
NoEvent == [seq |-> 0, type |-> "none"]

-----------------------------------------------------------------------------
(* The run *)

ExplainInit ==
  /\ fate \in [Explained -> Fates]
  /\ stored \in SUBSET {"trace", "diagnostics"}
  /\ seq = 0 /\ events = <<>> /\ openStages = <<>> /\ stages = {}
  /\ work = [w \in Workers |-> Idle]
  /\ executions = <<>>

\* The number is taken whether or not the event reaches the stream.
Emits(e) ==
  /\ seq < MaxSeq
  /\ seq' = seq + 1
  /\ \/ events' = Append(events, e)
     \/ seq - Len(events) < MaxLost /\ UNCHANGED events

AllIdle == \A w \in Workers : work[w] = Idle
Inside(name) == openStages # <<>> /\ Last(openStages).name = name

\* engine's session.stage, and the retry stage of execute.Run inside it.  The
\* binaries are built twice, in two stages of one name.
StageStarts(name) ==
  /\ AllIdle
  /\ CASE name = "build-binaries" -> openStages = <<>> /\ Cardinality(stages) < 2
       [] name = "execute" -> openStages = <<>> /\ \A s \in stages : s.name # "execute"
       [] name = "retry" -> Inside("execute") /\ \A s \in stages : s.name # "retry"
  /\ Emits([seq |-> seq + 1, type |-> "started", name |-> name])
  /\ openStages' = Append(openStages, [name |-> name, start |-> seq + 1])
  /\ stages' = stages \cup {[name |-> name, start |-> seq + 1, end |-> Forever]}
  /\ UNCHANGED <<fate, stored, work, executions>>

StageEnds ==
  /\ AllIdle /\ openStages # <<>>
  /\ LET s == Last(openStages)
     IN /\ Emits([seq |-> seq + 1, type |-> "ended", name |-> s.name])
        /\ stages' = {IF t.start = s.start THEN [t EXCEPT !.end = seq + 1] ELSE t : t \in stages}
  /\ openStages' = Front(openStages)
  /\ UNCHANGED <<fate, stored, work, executions>>

AttemptsOf(m) == {executions[i].attempt : i \in {j \in DOMAIN executions : executions[j].mutant = m}}

\* execute.Run: a first pass by any worker, a second one alone in the retry.
AttemptStarts(w, m, attempt) ==
  /\ fate[m] = "selected" /\ work[w] = Idle
  /\ attempt \notin AttemptsOf(m) /\ \A v \in Workers : work[v].mutant # m
  /\ IF attempt = 1 THEN Inside("execute") /\ \A s \in stages : s.name # "retry"
     ELSE Inside("retry") /\ AllIdle /\ 1 \in AttemptsOf(m)
  /\ work' = [work EXCEPT ![w] = [mutant |-> m, attempt |-> attempt, seqs |-> <<>>]]
  /\ UNCHANGED <<fate, stored, seq, events, openStages, stages, executions>>

\* execute.RunOne: one exec event for each process.
CommandEnds(w) ==
  /\ work[w] # Idle
  /\ Emits([seq |-> seq + 1, type |-> "exec"])
  /\ work' = [work EXCEPT ![w].seqs = Append(@, seq + 1)]
  /\ UNCHANGED <<fate, stored, openStages, stages, executions>>

\* execute.AttemptRecord
AttemptEnds(w) ==
  /\ work[w] # Idle
  /\ Emits([seq |-> seq + 1, type |-> "mutant", id |-> work[w].mutant,
            attempt |-> work[w].attempt, seqs |-> work[w].seqs])
  /\ executions' = Append(executions, [mutant |-> work[w].mutant, attempt |-> work[w].attempt,
                                       seqs |-> work[w].seqs, at |-> seq + 1])
  /\ work' = [work EXCEPT ![w] = Idle]
  /\ UNCHANGED <<fate, stored, openStages, stages>>

ExplainNext ==
  \/ \E name \in {"build-binaries", "execute", "retry"} : StageStarts(name)
  \/ StageEnds
  \/ \E w \in Workers, m \in Explained, attempt \in {1, 2} : AttemptStarts(w, m, attempt)
  \/ \E w \in Workers : CommandEnds(w)
  \/ \E w \in Workers : AttemptEnds(w)

-----------------------------------------------------------------------------
(* Choosing the report, the mutant and the recording *)

\* storedRun and resolveSubject: exactly one identifier starts with the prefix.
Resolve(ids, prefix) ==
  LET matches == SelectSeq(ids, LAMBDA id : IsPrefix(prefix, id))
  IN CASE matches = <<>> -> <<"none">>
       [] Len(matches) = 1 -> <<"one", matches[1]>>
       [] OTHER -> <<"many">>

\* readReport: with no --run the newest stored run.
ReadReport(ask) ==
  IF ask.run = <<>> THEN <<"one", History[1]>> ELSE Resolve(History, ask.run)

\* subjectsOf: the mutants of the report and those validation refused.
SubjectsOf == SetToSeq(Explained) \o SetToSeq(Refused)

\* openRecording, with --trace naming the recording of this run or not; a
\* recording of another run is in neither root here.
OpenRecording(ask, runID) ==
  IF ask.trace \/ (runID = ThisRun /\ stored # {}) THEN events ELSE <<>>

\* describes: nothing read describes every run.
Describes(rec, runID) == rec = <<>> \/ runID = ThisRun

-----------------------------------------------------------------------------
(* What the recording says of a mutant *)

Attempts(rec, id) == SelectSeq(rec, LAMBDA e : e.type = "mutant" /\ e.id = id)

ExecEvent(rec, n) ==
  LET found == SelectSeq(rec, LAMBDA e : e.seq = n /\ e.type = "exec")
  IN IF found = <<>> THEN NoEvent ELSE found[1]

SeqsOf(rec, id) ==
  UNION {{rec[i].seq} \cup Range(rec[i].seqs) :
           i \in {j \in DOMAIN rec : rec[j].type = "mutant" /\ rec[j].id = id}}

\* One stage event of stagesOver: an end closes the span of its name that was
\* opened last, and an end without one is passed over.
SpanStep(acc, e) ==
  IF e.type = "started"
  THEN [acc EXCEPT !.open = Append(@, [name |-> e.name, start |-> e.seq, end |-> Forever])]
  ELSE LET same == {i \in DOMAIN acc.open : acc.open[i].name = e.name}
       IN IF same = {} THEN acc
          ELSE LET i == CHOOSE j \in same : \A k \in same : k <= j
               IN [open |-> RemoveAt(acc.open, i),
                   spans |-> acc.spans \cup {[acc.open[i] EXCEPT !.end = e.seq]}]

\* stagesOver: the spans with one of the mutant's numbers inside them.
StagesOver(rec, seqs) ==
  LET marks == SelectSeq(rec, LAMBDA e : e.type \in {"started", "ended"})
      acc == FoldLeft(SpanStep, [open |-> <<>>, spans |-> {}], marks)
  IN {s \in acc.spans \cup Range(acc.open) : \E n \in seqs : n > s.start /\ n < s.end}

\* MUTANT: the first record of the mutant stands for every attempt.
PassFirst(recorded, attempt) == IF recorded = <<>> THEN NoEvent ELSE recorded[1]

\* pass: the record of one attempt.
Pass(recorded, attempt) ==
  LET same == SelectSeq(recorded, LAMBDA e : e.attempt = attempt)
  IN IF same = <<>> THEN NoEvent ELSE same[1]

\* lastExecSeq: the last command of the last recorded attempt that has one.
LastExecSeq(recorded) ==
  LET ran == SelectSeq(recorded, LAMBDA e : e.seqs # <<>>)
  IN IF ran = <<>> THEN 0 ELSE Last(Last(ran).seqs)

-----------------------------------------------------------------------------
(* The account *)

\* The executions the report of a run holds for a mutant.  The report of
\* another run holds one that nothing here knows the commands of.
ReportExecutions(runID, m) ==
  IF runID = ThisRun THEN SelectSeq(executions, LAMBDA x : x.mutant = m)
  ELSE <<[mutant |-> m, attempt |-> 1, seqs |-> <<>>, at |-> 0]>>

\* gatherCommands: a number without its event is said to be missing.
GatherCommands(rec, record) ==
  IF record = NoEvent THEN <<>>
  ELSE [i \in DOMAIN record.seqs |->
          [seq |-> record.seqs[i], recorded |-> ExecEvent(rec, record.seqs[i]) # NoEvent]]

GatherExecutions(runID, m, rec) ==
  LET rows == ReportExecutions(runID, m)
  IN [i \in DOMAIN rows |->
        [attempt |-> rows[i].attempt,
         commands |-> GatherCommands(rec, Pass(Attempts(rec, m), rows[i].attempt))]]

\* notExecuted
NotExecuted(m) ==
  CASE fate[m] = "cached" -> "reused from the outcome cache"
    [] fate[m] = "uncovered" -> "no test binary reaches its lines"
    [] fate[m] = "unselected" -> "never selected"
    [] OTHER -> "no executions recorded"

\* gatherReproduction and unavailableReproduction
GatherReproduction(runID, m, rec) ==
  LET n == LastExecSeq(Attempts(rec, m))
  IN CASE ExecEvent(rec, n) # NoEvent -> <<"command", n>>
       [] ~Describes(rec, runID) -> <<"of another run">>
       [] rec # <<>> -> <<"no process started">>
       [] OTHER -> <<"no recording">>

\* gatherAccount: of a rejected mutant only the stages, and no command.
GatherAccount(runID, m, rec) ==
  [subject |-> m,
   trace |-> rec # <<>>,
   warned |-> ~Describes(rec, runID),
   executions |-> IF m \in Refused THEN <<>> ELSE GatherExecutions(runID, m, rec),
   timeline |-> StagesOver(rec, SeqsOf(rec, m)),
   why |-> IF m \in Refused THEN "refused" ELSE NotExecuted(m),
   reproduce |-> IF m \in Refused THEN <<"refused">> ELSE GatherReproduction(runID, m, rec)]

\* execute and explainMutant: an account, or the reason there is none.
ExplainMutant(ask) ==
  LET found == ReadReport(ask)
  IN IF found[1] # "one" THEN <<"no run">>
     ELSE LET s == Resolve(SubjectsOf, ask.subject)
          IN IF s[1] # "one" THEN <<"no mutant">>
             ELSE <<"account", found[2], GatherAccount(found[2], s[2], OpenRecording(ask, found[2]))>>

-----------------------------------------------------------------------------
(* Properties *)

\* The account read a recording, and no event is missing from it.
Whole(a) == a.trace /\ Len(events) = seq

\* What truly happened to a mutant: its commands, and the stages around them.
CommandsOf(m) == UNION {Range(executions[i].seqs) : i \in {j \in DOMAIN executions : executions[j].mutant = m}}
MomentsOf(m) == CommandsOf(m) \cup {executions[i].at : i \in {j \in DOMAIN executions : executions[j].mutant = m}}

\* The commands under an attempt are that attempt's, and all of them when no
\* event is missing, however the workers' events were interleaved.
ExecutionsAreTrue(a) ==
  LET rows == ReportExecutions(ThisRun, a.subject)
  IN \A i \in DOMAIN a.executions :
       /\ {c.seq : c \in Range(a.executions[i].commands)} \subseteq Range(rows[i].seqs)
       /\ Whole(a) => a.executions[i].commands
                     = [j \in DOMAIN rows[i].seqs |-> [seq |-> rows[i].seqs[j], recorded |-> TRUE]]

\* A stage is in the timeline when the mutant was measured inside it; with a
\* whole recording the timeline holds every such stage with its own end.
TimelineIsTrue(a) ==
  LET around == {s \in stages : \E n \in MomentsOf(a.subject) : n > s.start /\ n < s.end}
  IN /\ \A s \in a.timeline : s.end # Forever => s \in around
     /\ Whole(a) => a.timeline = around

\* The command to paste was run with the mutant in: the last one it ran when
\* no event is missing.
ReproductionIsTrue(a) ==
  a.reproduce[1] = "command" =>
    /\ a.reproduce[2] \in CommandsOf(a.subject)
    /\ Whole(a) => \A n \in CommandsOf(a.subject) :
                  \/ n <= a.reproduce[2]
                  \/ \E v \in Workers : work[v].mutant = a.subject

\* An account is of the one run and the one mutant the user asked for, and
\* what it joins to them is theirs or carries the warning that it is not:
\* whatever order the workers' events came in, whatever the stream lost and
\* wherever it stops, no command, stage or command to paste is taken from
\* another mutant or another attempt (explainaccount.go gatherAccount).
AccountIsTrue ==
  \A ask \in Asks :
    LET said == ExplainMutant(ask)
    IN said[1] = "account" =>
         LET run == said[2]
             a == said[3]
         IN /\ \/ ask.run = <<>> /\ run = History[1]
               \/ {r \in Range(History) : IsPrefix(ask.run, r)} = {run}
            /\ {m \in Explained \cup Refused : IsPrefix(ask.subject, m)} = {a.subject}
            /\ run # ThisRun => a.warned \/ (a.timeline = {} /\ a.reproduce[1] # "command"
                                             /\ \A x \in Range(a.executions) : x.commands = <<>>)
            /\ run = ThisRun /\ a.subject \in Explained =>
                 ExecutionsAreTrue(a) /\ TimelineIsTrue(a) /\ ReproductionIsTrue(a)
=============================================================================
