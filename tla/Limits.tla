------------------------------- MODULE Limits -------------------------------
(***************************************************************************)
(* The time and the memory a mutant is given: the engine derives them from *)
(* the baseline runs (internal/engine/engine.go), a session from the peak  *)
(* of its baseline (session.go), and goatest from what each target and     *)
(* each package suite took (goatest/internal/assure/mutation.go).          *)
(*                                                                         *)
(* Durations and sizes are Go's signed 64-bit integers, here -MaxInt - 1 .. *)
(* MaxInt.  The suite needs `work' every time it runs its tests, the first *)
(* run compiles as well, and a run that go test answers from its cache     *)
(* takes no time.                                                          *)
(***************************************************************************)
EXTENDS Integers, Sequences, FiniteSets, FiniteSetsExt, SequencesExt

CONSTANTS
  MaxInt,            \* the largest integer
  MaxBaselineRuns,   \* bound: test.baseline_runs
  BaselineCap,       \* no run of a baseline may take longer
  MinDerivedTimeout, TimeoutFactor, MinDerivedMemory, MemoryFactor,
  Projects,          \* bound: [work, compile, peak, obeys, cached, timeout, memory, supported]
  Batches            \* bound: [targets, suite, probe, limit, requested, fuzz]: a batch and its controls

VARIABLES
  project,    \* the suite, the configuration and the platform
  observed,   \* the baseline runs so far: [duration, cached]
  peak,       \* the largest of their peaks
  limits,     \* [state, timeout, memory, source]: what the engine derived
  batch,      \* the targets goatest executes together
  granted     \* what they are given: [mutant, control, memory]

limitsVars == <<project, observed, peak, limits, batch, granted>>

Nothing == [mutant |-> -1, control |-> -1, memory |-> -1]
Underived == [state |-> "baseline", timeout |-> 0, memory |-> 0, source |-> "none"]

\* int64 arithmetic
Wrap(n) == ((n + MaxInt + 1) % (2 * (MaxInt + 1))) - (MaxInt + 1)

-----------------------------------------------------------------------------
(* The engine *)

\* check: a baseline run that does not end in time, is interrupted or fails ends
\* the run with the error of the first of these that holds.
Check(r) ==
  CASE r.err         -> "not-run"
    [] r.timedOut    -> "timed-out"
    [] r.expired     -> "deadline"
    [] r.cancelled   -> "interrupted"
    [] r.exit # 0    -> "failed"
    [] OTHER         -> "ok"

Passes == [err |-> FALSE, timedOut |-> FALSE, expired |-> FALSE, cancelled |-> FALSE, exit |-> 0]

\* Runs after the first are given -count=1, which a command may not obey.
RunOf(i) ==
  LET cached == project.cached[i] /\ (i = 1 \/ ~project.obeys)
  IN  [cached |-> cached,
       duration |-> IF cached THEN 0 ELSE project.work + (IF i = 1 THEN project.compile ELSE 0)]

BaselineRun ==
  /\ limits.state = "baseline" /\ Len(observed) < MaxBaselineRuns
  /\ LET run == RunOf(Len(observed) + 1)
         verdict == Check([Passes EXCEPT !.timedOut = run.duration >= BaselineCap])
     IN  IF verdict = "ok"
         THEN /\ observed' = Append(observed, run)
              /\ peak' = Max({peak, IF run.cached THEN 0 ELSE project.peak})
              /\ UNCHANGED limits
         ELSE limits' = [limits EXCEPT !.state = verdict] /\ UNCHANGED <<observed, peak>>
  /\ UNCHANGED <<project, batch, granted>>

\* The run is interrupted, or the suite fails or cannot be run.
BaselineFails(r) ==
  /\ limits.state = "baseline" /\ Check(r) # "ok"
  /\ limits' = [limits EXCEPT !.state = Check(r)]
  /\ UNCHANGED <<project, observed, peak, batch, granted>>

Slowest(runs) == FoldLeft(LAMBDA most, run : Max({most, run.duration}), 0, runs)

\* MUTANT: lookups count as runs.
BudgetBaselineAll(runs) == Slowest(IF Len(runs) > 1 THEN Tail(runs) ELSE runs)
\* budgetBaseline: the slowest of the runs that ran the tests, after the first of
\* them unless it is the only one; of the lookups when there is none.
BudgetBaseline(runs) ==
  LET ran == SelectSeq(runs, LAMBDA run : ~run.cached)
  IN  CASE ran = <<>>    -> Slowest(runs)
        [] Len(ran) = 1 -> Slowest(ran)
        [] OTHER        -> Slowest(Tail(ran))

\* deriveTimeout: -1 stands for the refusal GOM4020.
DeriveTimeout(explicit, slowest) ==
  CASE explicit > 0 /\ explicit <= slowest -> -1
    [] explicit > 0 /\ explicit > slowest -> explicit
    [] OTHER -> Max({MinDerivedTimeout, Wrap(TimeoutFactor * slowest)})

\* deriveMemory and enforceableMemory: an explicit bound stands even where the
\* platform cannot hold anybody to it.
DeriveMemory(explicit, most) ==
  CASE explicit > 0 -> [limit |-> explicit, source |-> "explicit"]
    [] explicit <= 0 /\ (most <= 0 \/ ~project.supported) -> [limit |-> 0, source |-> "unavailable"]
    [] OTHER -> [limit |-> Max({MinDerivedMemory, Wrap(MemoryFactor * most)}), source |-> "derived"]

EveryRunCached(runs) == runs # <<>> /\ \A i \in DOMAIN runs : runs[i].cached

Derive ==
  /\ limits.state = "baseline" /\ Len(observed) = MaxBaselineRuns
  /\ LET timeout == DeriveTimeout(project.timeout, BudgetBaseline(observed))
         memory == DeriveMemory(project.memory, peak)
     IN  limits' = IF timeout = -1 THEN [limits EXCEPT !.state = "refused"]
                   ELSE [state |-> IF EveryRunCached(observed) THEN "warned" ELSE "derived",
                         timeout |-> timeout, memory |-> memory.limit, source |-> memory.source]
  /\ UNCHANGED <<project, observed, peak, batch, granted>>

\* sessionMemoryBound
SessionMemoryBound(most) ==
  IF ~project.supported THEN 0 ELSE Max({MinDerivedMemory, Wrap(MemoryFactor * most)})

\* effectiveMemoryLimit: a request's own bound, and none for a fuzz target.
EffectiveMemoryLimit(requested, session, fuzz) ==
  IF requested # 0 \/ fuzz THEN requested ELSE session

-----------------------------------------------------------------------------
(* goatest *)

\* saturatingDurationSum
SaturatingDurationSum(total, duration) ==
  Wrap(total + Min({Max({duration, 0}), MaxInt - total}))

\* mutationExecutionTimeout
MutationExecutionTimeout(limit, samples) ==
  LET timeout == FoldLeft(SaturatingDurationSum, 0, samples)
  IN  IF limit > 0 THEN Min({timeout, limit}) ELSE timeout

\* controlExecutionTimeout: without a sample it is the limit.
ControlExecutionTimeout(limit, samples) ==
  LET timeout == MutationExecutionTimeout(limit, samples)
  IN  IF timeout = 0 THEN limit ELSE timeout

\* batchMutationControlDurations
BatchControls(b) ==
  <<FoldLeft(LAMBDA sum, t : SaturatingDurationSum(sum, t.base), 0, b.targets),
    FoldLeft(LAMBDA sum, t : SaturatingDurationSum(sum, t.probe), 0, b.targets)>>

\* aggregateMutationTimeout: twice what the targets took, and the suite besides.
AggregateMutationTimeout(b) ==
  LET target == MutationExecutionTimeout(b.limit, BatchControls(b))
      suite == MutationExecutionTimeout(b.limit, <<Max({b.suite, 0}), Max({b.probe, 0})>>)
  IN  MutationExecutionTimeout(b.limit, <<target, suite>>)

\* batchSeedRequest: what the request for a mutant, and the one for the control
\* of the original it is compared with, may take.
Granted(b) ==
  [mutant |-> AggregateMutationTimeout(b),
   control |-> ControlExecutionTimeout(b.limit, <<BatchControls(b)[1], b.suite>>),
   memory |-> EffectiveMemoryLimit(b.requested, SessionMemoryBound(peak), b.fuzz)]

\* A mutant and its control are executed.
Execute(b) ==
  /\ limits.state \in {"derived", "warned"} /\ granted = Nothing
  /\ batch' = b /\ granted' = Granted(b)
  /\ UNCHANGED <<project, observed, peak, limits>>

LimitsInit ==
  /\ project \in Projects
  /\ observed = <<>> /\ peak = 0 /\ limits = Underived
  /\ batch \in Batches /\ batch.targets = <<>> /\ granted = Nothing

LimitsNext ==
  \/ BaselineRun \/ Derive
  \/ \E cause \in {"err", "expired", "cancelled"} : BaselineFails([Passes EXCEPT ![cause] = TRUE])
  \/ BaselineFails([Passes EXCEPT !.exit = 1])
  \/ \E b \in Batches : Execute(b)

-----------------------------------------------------------------------------
(* Properties *)

\* A mutant that does what the original does is not cut short: it gets more time
\* than the suite needs, however many of the baseline runs were lookups, unless
\* every one was and the run said so; a bound on memory that nobody asked for is
\* above the peak of the suite; and a batch goatest executes, like its control,
\* gets at least what its targets took on the original, or the limit the user
\* set, whatever the sums come to.
TheOriginalFits ==
  LET took == FoldLeft(LAMBDA sum, t : sum + Max({t.base, 0}), 0, batch.targets)
      ask == Min({took, IF batch.limit > 0 THEN batch.limit ELSE MaxInt})
  IN  /\ limits.state = "derived" =>
           /\ limits.timeout > project.work
           /\ limits.source = "derived" => limits.memory > project.peak
      /\ granted # Nothing =>
           /\ granted.mutant >= ask /\ granted.control >= ask
           /\ limits.state = "derived" /\ batch.requested = 0 =>
                granted.memory = 0 \/ granted.memory > project.peak
=============================================================================
