------------------------------- MODULE Runner -------------------------------
(***************************************************************************)
(* One child process and what it starts, supervised (internal/runner):     *)
(* Run waits for whichever comes first of the exit, the time limit, the    *)
(* memory bound and the end of the context, ends the tree, and says which  *)
(* it was.                                                                 *)
(*                                                                         *)
(* The tree is a leader and one descendant, which may hold the leader's    *)
(* output open and may ignore SIGTERM.  Memory is a small number compared  *)
(* with the limit.  A platform decides the supervisor: a process group on  *)
(* linux and darwin, a job object on windows.                              *)
(***************************************************************************)
EXTENDS Integers, FiniteSets

CONSTANTS
  Platforms,   \* the platforms of the instance
  Limits,      \* Spec.MemoryLimit; 0 is none
  MaxUse       \* bound: the memory the tree may use

ASSUME RunnerAssumption ==
  /\ Platforms \subseteq {"linux", "darwin", "windows"}
  /\ Limits \subseteq Nat /\ MaxUse \in Nat

Processes == {"leader", "child"}

VARIABLES
  box,        \* what does not change: the platform, the spec, the tree's manners
  proc,       \* the processes: not started, running or gone
  status,     \* how the leader ended: by itself, or by a signal of the runner
  exited,     \* the exited channel is closed
  due,        \* the time limit has passed
  ended,      \* the context is done
  used,       \* what the tree uses now
  high,       \* the most it has used
  sampler,    \* the memoryWatchdog's goroutine
  exceeded,   \* the watchdog's exceeded channel is closed
  peak,       \* the watchdog's highest sample
  stage,      \* where Run is
  killed,     \* the local of that name, with the reason
  ran         \* what Run returns

runnerVars == <<box, proc, status, exited, due, ended, used, high, sampler,
                exceeded, peak, stage, killed, ran>>
treeVars == <<proc, status, used, high>>
clockVars == <<due, ended>>
watchVars == <<sampler, exceeded, peak>>
runVars == <<stage, killed, ran>>

NoResult == [exit |-> "unavailable", timedOut |-> FALSE, memory |-> FALSE,
             peak |-> 0, error |-> FALSE]

RunnerInit ==
  /\ box \in [platform : Platforms, limit : Limits, timeout : BOOLEAN,
              deaf : SUBSET Processes, pipe : BOOLEAN]
  /\ proc = [p \in Processes |-> "none"]
  /\ status = "none" /\ exited = FALSE
  /\ due = FALSE /\ ended \in BOOLEAN
  /\ used = 0 /\ high = 0
  /\ sampler = "none" /\ exceeded = FALSE /\ peak = 0
  /\ stage = "start" /\ killed = "no" /\ ran = NoResult

Job == box.platform = "windows"
KernelBoundsMemory == Job                               \* kernelBoundsMemory
SamplingSupported == box.platform /= "darwin"           \* memorySamplingSupported
AccountedPeak == box.platform /= "linux"                \* accountedPeakBelongsToTheChild
Alive == {p \in Processes : proc[p] = "running"}

\* kernelJobMemoryLimit: a quarter above the sampler's line, one at least.
KernelLine(limit) == limit + (IF limit \div 4 > 1 THEN limit \div 4 ELSE 1)

Reachable == IF KernelBoundsMemory /\ box.limit > 0
             THEN 0..KernelLine(box.limit) ELSE 0..MaxUse

-----------------------------------------------------------------------------
(* The tree, left to itself *)

Spawn ==
  /\ proc["leader"] = "running" /\ proc["child"] = "none"
  /\ proc' = [proc EXCEPT !["child"] = "running"]
  /\ UNCHANGED <<box, status, exited, used, high, clockVars, watchVars, runVars>>

ExitByItself(p) ==
  /\ proc[p] = "running"
  /\ proc' = [proc EXCEPT ![p] = "gone"]
  /\ status' \in IF p = "leader" THEN {"success", "failure"} ELSE {status}
  /\ used' = IF proc'["leader"] /= "running" /\ proc'["child"] /= "running"
             THEN 0 ELSE used
  /\ UNCHANGED <<box, exited, high, clockVars, watchVars, runVars>>

Allocate ==
  /\ Alive /= {} /\ stage /= "done"
  /\ \E u \in (Reachable \cap 0..MaxUse) \ {used} :
       /\ used' = u
       /\ high' = IF u > high THEN u ELSE high
  /\ UNCHANGED <<box, proc, status, exited, clockVars, watchVars, runVars>>

TimePasses ==
  /\ box.timeout /\ ~due /\ stage \in {"select", "grace", "await"}
  /\ due' = TRUE
  /\ UNCHANGED <<box, exited, ended, treeVars, watchVars, runVars>>

ContextEnds ==
  /\ ~ended /\ stage /= "done"
  /\ ended' = TRUE
  /\ UNCHANGED <<box, exited, due, treeVars, watchVars, runVars>>

\* A signal that ends the processes ps.
End(ps) ==
  /\ proc' = [p \in Processes |-> IF p \in ps \cap Alive THEN "gone" ELSE proc[p]]
  /\ status' = IF "leader" \in ps \cap Alive THEN "signal" ELSE status
  /\ used' = IF Alive \subseteq ps THEN 0 ELSE used
  /\ UNCHANGED high

-----------------------------------------------------------------------------
(* The goroutine in cmd.Wait *)

\* The leader is gone and nobody holds its output open.
WaitCollects ==
  /\ ~exited /\ proc["leader"] = "gone" /\ stage \in {"select", "grace", "await"}
  /\ ~(box.pipe /\ proc["child"] = "running")
  /\ exited' = TRUE
  /\ UNCHANGED <<box, treeVars, clockVars, watchVars, runVars>>

\* MUTANT: no WaitDelay, so the output is awaited for ever.
WaitGivesUpNever ==
  /\ FALSE /\ UNCHANGED runnerVars

\* IODrainGrace has passed since the leader ended.
WaitGivesUp ==
  /\ ~exited /\ proc["leader"] = "gone" /\ stage \in {"select", "grace", "await"}
  /\ box.pipe /\ proc["child"] = "running"
  /\ exited' = TRUE
  /\ UNCHANGED <<box, treeVars, clockVars, watchVars, runVars>>

-----------------------------------------------------------------------------
(* The memory watchdog *)

\* usedMemory: the job's own peak, or what the group has resident now.
UsedMemory == IF Job THEN high ELSE used

\* take: the first sample strictly above the limit ends the sampler.
TakeSample(from, next) ==
  \/ /\ SamplingSupported
     /\ peak' = IF UsedMemory > peak THEN UsedMemory ELSE peak
     /\ IF box.limit > 0 /\ UsedMemory > box.limit
        THEN exceeded' = TRUE /\ sampler' = "stopped"
        ELSE UNCHANGED exceeded /\ sampler' = next
  \/ /\ ~SamplingSupported
     /\ sampler' = IF from = "ticking" THEN "stopped" ELSE from
     /\ UNCHANGED <<peak, exceeded>>

\* The warm-up samples, and then one on every tick.
Sample ==
  /\ sampler \in {"warming", "answered", "ticking"} /\ stage /= "stopping"
  /\ TakeSample(sampler, IF sampler = "warming" THEN "answered" ELSE sampler)
  /\ UNCHANGED <<box, exited, treeVars, clockVars, runVars>>

\* The warm-up is over: a platform that never answered is not asked again.
WarmUpEnds ==
  /\ sampler \in {"warming", "answered"} /\ stage /= "stopping"
  /\ sampler' = IF sampler = "answered" THEN "ticking" ELSE "stopped"
  /\ UNCHANGED <<box, exited, exceeded, peak, treeVars, clockVars, runVars>>

\* The done channel is closed.
SamplerStops ==
  /\ stage = "stopping" /\ sampler \in {"warming", "answered", "ticking"}
  /\ sampler' = "stopped"
  /\ UNCHANGED <<box, exited, exceeded, peak, treeVars, clockVars, runVars>>

-----------------------------------------------------------------------------
(* Run *)

\* validate, a context that is done already, newSupervisor or cmd.Start
\* fails: nothing runs.
RunRefuses ==
  /\ stage = "start"
  /\ stage' = "done"
  /\ \E error \in BOOLEAN : (error \/ ended) /\ ran' = [NoResult EXCEPT !.error = error]
  /\ UNCHANGED <<box, exited, killed, treeVars, clockVars, watchVars>>

\* adopt fails: the child was made suspended, and it is ended before it ran.
AdoptFails ==
  /\ stage = "start" /\ ~ended /\ Job
  /\ stage' = "done"
  /\ proc' = [proc EXCEPT !["leader"] = "gone"]
  /\ status' = "signal"
  /\ ran' = [NoResult EXCEPT !.error = TRUE]
  /\ UNCHANGED <<box, exited, killed, used, high, clockVars, watchVars>>

\* The child is adopted and runs; watchMemory takes its first sample here.
RunStarts ==
  /\ stage = "start" /\ ~ended
  /\ stage' = "select"
  /\ proc' = [proc EXCEPT !["leader"] = "running"]
  /\ sampler' = "warming"
  /\ UNCHANGED <<box, status, used, high, exited, exceeded, peak, killed, ran, clockVars>>

SelectExited ==
  /\ stage = "select" /\ exited
  /\ stage' = "stopping"
  /\ UNCHANGED <<box, exited, killed, ran, treeVars, clockVars, watchVars>>

\* terminate: a job is ended at once; a group is asked to end when it is
\* given a grace, and ended at once when it is not.
Terminate(reason, grace) ==
  /\ stage = "select"
  /\ killed' = reason
  /\ IF grace /\ ~Job
     THEN stage' = "grace" /\ End(Processes \ box.deaf)
     ELSE stage' = "await" /\ End(Processes)
  /\ UNCHANGED <<box, exited, ran, clockVars, watchVars>>

\* MUTANT: a time limit is reported with the status its own signal caused.
SelectTimeoutUnmarked ==
  /\ due
  /\ stage = "select"
  /\ UNCHANGED killed
  /\ IF ~Job THEN stage' = "grace" /\ End(Processes \ box.deaf)
             ELSE stage' = "await" /\ End(Processes)
  /\ UNCHANGED <<box, exited, ran, clockVars, watchVars>>

SelectTimeout == due /\ Terminate("timeout", TRUE)

SelectMemory == exceeded /\ Terminate("memory", FALSE)
SelectCancel == ended /\ Terminate("cancel", TRUE)

\* The grace ends with the exit, and then nothing more is sent ...
GraceExited ==
  /\ stage = "grace" /\ exited
  /\ stage' = "await"
  /\ UNCHANGED <<box, exited, killed, ran, treeVars, clockVars, watchVars>>

\* ... or with the timer, and then the whole group is ended.
GraceOver ==
  /\ stage = "grace"
  /\ stage' = "await"
  /\ End(Processes)
  /\ UNCHANGED <<box, exited, killed, ran, clockVars, watchVars>>

Awaited ==
  /\ stage = "await" /\ exited
  /\ stage' = "stopping"
  /\ UNCHANGED <<box, exited, killed, ran, treeVars, clockVars, watchVars>>

\* exceededAtExit
ExceededAtExit(p, exit) ==
  KernelBoundsMemory /\ killed = "no" /\ box.limit > 0 /\ p > box.limit /\ exit /= "success"

\* peakOf
PeakOf == IF AccountedPeak /\ high > peak THEN high ELSE peak

\* watchdog.stop waits for the sampler; then the result, the record of the
\* exec, and the deferred release, which closes a job and so ends what it holds.
RunEnds ==
  /\ stage = "stopping" /\ sampler = "stopped"
  /\ stage' = "done"
  /\ LET exit == IF killed = "no" THEN status ELSE "unavailable"
     IN ran' = [exit |-> exit, timedOut |-> killed = "timeout",
                   memory |-> killed = "memory" \/ ExceededAtExit(PeakOf, exit),
                   peak |-> PeakOf, error |-> FALSE]
  /\ IF Job THEN End(Processes) ELSE UNCHANGED treeVars
  /\ UNCHANGED <<box, exited, killed, clockVars, watchVars>>

RunnerNext ==
  \/ Spawn \/ \E p \in Processes : ExitByItself(p)
  \/ Allocate \/ TimePasses \/ ContextEnds
  \/ WaitCollects \/ WaitGivesUp
  \/ Sample \/ WarmUpEnds \/ SamplerStops
  \/ RunRefuses \/ AdoptFails \/ RunStarts
  \/ SelectExited \/ SelectTimeout \/ SelectMemory \/ SelectCancel
  \/ GraceExited \/ GraceOver \/ Awaited \/ RunEnds

\* The kernel delivers and reaps, timers fire and goroutines run; a process
\* does not have to end by itself.
RunnerFairness ==
  /\ WF_runnerVars(WaitCollects) /\ WF_runnerVars(WaitGivesUp)
  /\ WF_runnerVars(SelectExited \/ SelectTimeout \/ SelectMemory \/ SelectCancel)
  /\ WF_runnerVars(GraceExited \/ GraceOver) /\ WF_runnerVars(Awaited)
  /\ WF_runnerVars(SamplerStops) /\ WF_runnerVars(RunEnds)

RunnerSpec == RunnerInit /\ [][RunnerNext]_runnerVars /\ RunnerFairness

-----------------------------------------------------------------------------
(* Properties *)

\* An exit status is reported only when it is the child's own answer: however
\* the exit, the limits and the cancellation raced in the select, a status the
\* runner's own signal caused is not read as the verdict of a test.
ExitIsTheChilds ==
  stage = "done" => /\ ran.exit \in {"unavailable", "success", "failure"}
                    /\ ran.exit /= "unavailable" => ~ran.timedOut

\* A tree is reported as over its bound only when it has been strictly above it.
MemoryVerdictIsEarned ==
  stage = "done" /\ ran.memory => box.limit > 0 /\ high > box.limit

\* What can outlive a Run that returned: nothing of a job; of a group nothing
\* that the memory bound ended, never the leader, and after a time limit or a
\* cancellation only a descendant that SIGTERM did not end, because it or the
\* leader that started it later ignores SIGTERM.
OutliversAreKnown ==
  stage = "done" =>
    \A p \in Alive : /\ p = "child" /\ ~Job
                     /\ killed /= "memory"
                     /\ killed \in {"timeout", "cancel"} => box.deaf /= {}

\* Run comes back once the leader is gone, the time is up, the bound is passed
\* or the context has ended, whatever a descendant does with the output.
RunReturns ==
  (stage /= "start" /\ (proc["leader"] = "gone" \/ due \/ ended \/ exceeded)) ~> stage = "done"

\* What Run reports is what happened to the tree of processes.
VerdictIsTheTrees == ExitIsTheChilds /\ MemoryVerdictIsEarned /\ OutliversAreKnown
==============================================================================
