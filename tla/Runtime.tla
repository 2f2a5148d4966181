------------------------------- MODULE Runtime -------------------------------
(***************************************************************************)
(* The package generated into an instrumented tree                         *)
(* (internal/instrument/runtime.go), and what the engine reads back from   *)
(* it (divergence.go, infection.go, internal/engine/divergence.go): the    *)
(* baseline's processes take a census of their loops, the engine derives   *)
(* ceilings from it, and the mutants' processes are ended above them.      *)
(* Probe processes append the mutants that their goroutines saw differ.    *)
(*                                                                         *)
(* One loop is counted.  Goroutines of one process run concurrently, and a *)
(* process may end, or be killed, while one is anywhere in here.           *)
(***************************************************************************)
EXTENDS Integers, FiniteSets

CONSTANTS
  Goroutines,        \* of all processes
  ProcessOf,         \* the process a goroutine belongs to
  Probes,            \* probe goroutines, and the mutant each of them sees differ
  MaxUint,           \* the largest count
  DivergenceFactor, DivergenceFloor,
  MaxIterations,     \* a bound on the iterations of each goroutine's entries
  MaxFaulty          \* a bound on the processes that cannot open or write the census

VARIABLES
  rtPhase,  \* "census", "limits", "enforced"
  gor,      \* each goroutine's [at, n, k]: where it is, its counter, its ceiling
  most,     \* the most iterations an entry of the loop took
  opened,   \* each process's census: "no", "yes", or "refused", not to be opened
  seenMax,  \* the largest count that a process means to have written
  gone,     \* processes that ended
  census,   \* the file: [header, top, spoilt], the largest count of its lines, and
            \* lost, the processes that failed to write a count
  limit,    \* the loop's ceiling in the mutants' processes, or MaxUint
  stopped,  \* goroutines of the original program that a ceiling ended
  probeAt,  \* where each probe goroutine is
  probeSeen, \* the mutants of the probe process that were claimed
  infectionLog, \* what it wrote: [header, indices]
  probeExit  \* "" while it runs, "passed", "failed", "unavailable"

countVars == <<rtPhase, gor, most, opened, seenMax, gone, census, limit, stopped>>
probeVars == <<probeAt, probeSeen, infectionLog, probeExit>>
Processes == {ProcessOf[g] : g \in Goroutines}

RuntimeInit ==
  /\ rtPhase = "census"
  /\ gor = [g \in Goroutines |-> [at |-> "loop", n |-> 0, k |-> 1]]
  /\ most = [g \in Goroutines |-> 0]
  /\ opened = [p \in Processes |-> "no"] /\ seenMax = [p \in Processes |-> 0] /\ gone = {}
  /\ census = [header |-> FALSE, top |-> 0, spoilt |-> FALSE, lost |-> {}] /\ limit = MaxUint /\ stopped = {}
  /\ probeAt = [g \in DOMAIN Probes |-> "site"] /\ probeSeen = {}
  /\ infectionLog = [header |-> FALSE, indices |-> {}] /\ probeExit = ""

-----------------------------------------------------------------------------
(* The census of the baseline *)

Up(g) == rtPhase = "census" /\ ProcessOf[g] \notin gone /\ opened[ProcessOf[g]] /= "no"

\* The processes that did not get all of their counts into the census.
Uncounted == {p \in Processes : opened[p] = "refused"} \cup census.lost
MayFail(p) == Cardinality(Uncounted \cup {p}) <= MaxFaulty

\* init: the census is opened for appending, with a header of this process,
\* which may not get written.
OpenCensus(p) ==
  /\ rtPhase = "census" /\ p \notin gone /\ opened[p] = "no"
  /\ opened' = [opened EXCEPT ![p] = "yes"]
  /\ census' \in {[census EXCEPT !.header = TRUE], census}
  /\ UNCHANGED <<rtPhase, gor, most, seenMax, gone, limit, stopped, probeVars>>

\* init of a process whose census cannot be opened: it says so and goes on, and
\* no loop of it is counted.
OpenCensusFails(p) ==
  /\ rtPhase = "census" /\ p \notin gone /\ opened[p] = "no" /\ MayFail(p)
  /\ opened' = [opened EXCEPT ![p] = "refused"]
  /\ UNCHANGED <<rtPhase, gor, most, seenMax, gone, census, limit, stopped, probeVars>>

\* Limit in the census's processes: 1, or none at all.
LimitOf(g) == IF opened[ProcessOf[g]] = "refused" THEN MaxUint ELSE gor[g].k

\* One iteration; a count past the goroutine's ceiling calls Over.
Iterate(g) ==
  /\ Up(g) /\ gor[g].at = "loop" /\ gor[g].n < MaxIterations[g]
  /\ LET n == gor[g].n + 1
     IN /\ gor' = [gor EXCEPT ![g] = [at |-> IF n > LimitOf(g) THEN "record" ELSE "loop", n |-> n, k |-> gor[g].k]]
        /\ most' = [most EXCEPT ![g] = IF n > @ THEN n ELSE @]
  /\ UNCHANGED <<rtPhase, opened, seenMax, gone, census, limit, stopped, probeVars>>

\* The loop is left, and entered again with a new counter.
EnterLoop(g) ==
  /\ Up(g) /\ gor[g].at = "loop" /\ gor[g].n > 0
  /\ gor' = [gor EXCEPT ![g] = [at |-> "loop", n |-> 0, k |-> 1]]
  /\ UNCHANGED <<rtPhase, most, opened, seenMax, gone, census, limit, stopped, probeVars>>

OverReturns(g) == [gor EXCEPT ![g] = [at |-> "loop", n |-> @.n, k |-> (2 * @.n) % (MaxUint + 1)]]

\* record: the count is claimed with one compare and swap, or was beaten.
Record(g) ==
  /\ Up(g) /\ gor[g].at = "record"
  /\ IF gor[g].n <= seenMax[ProcessOf[g]] THEN gor' = OverReturns(g) /\ UNCHANGED seenMax
     ELSE /\ seenMax' = [seenMax EXCEPT ![ProcessOf[g]] = gor[g].n]
          /\ gor' = [gor EXCEPT ![g].at = "write"]
  /\ UNCHANGED <<rtPhase, most, opened, gone, census, limit, stopped, probeVars>>

\* The claimed count is appended, or is not, and nobody is told; part of a line
\* is continued by whatever is appended next.
WriteCount(g) ==
  /\ Up(g) /\ gor[g].at = "write"
  /\ \/ census' = [census EXCEPT !.top = IF gor[g].n > @ THEN gor[g].n ELSE @]
     \/ /\ MayFail(ProcessOf[g])
        /\ \E spoils \in BOOLEAN :
             census' = [census EXCEPT !.lost = @ \cup {ProcessOf[g]}, !.spoilt = @ \/ spoils]
  /\ gor' = OverReturns(g)
  /\ UNCHANGED <<rtPhase, most, opened, seenMax, gone, limit, stopped, probeVars>>

\* A process ends with its goroutines wherever they are; a write it was in the
\* middle of may leave part of a line, which whatever is appended continues.
ProcessEnds(p) ==
  /\ rtPhase = "census" /\ p \notin gone
  /\ gone' = gone \cup {p}
  /\ \/ UNCHANGED census
     \/ (\E g \in Goroutines : ProcessOf[g] = p /\ gor[g].at = "write") /\ census' = [census EXCEPT !.spoilt = TRUE]
  /\ UNCHANGED <<rtPhase, gor, most, opened, seenMax, limit, stopped, probeVars>>

-----------------------------------------------------------------------------
(* Ceilings *)

\* ReadLoopCensus: an empty census, a torn end or a line it does not know refuses
\* it; one without its header is read.
Usable == (census.header \/ census.top > 0) /\ ~census.spoilt

LoopCeiling(observed) ==
  IF observed > MaxUint \div DivergenceFactor THEN MaxUint
  ELSE IF observed * DivergenceFactor > DivergenceFloor THEN observed * DivergenceFactor
  ELSE DivergenceFloor

\* deriveLoopLimits, after the baseline; a census that cannot be read, and a
\* table that cannot be written, bound nothing.
DeriveLimits ==
  /\ rtPhase = "census" /\ gone = Processes
  /\ rtPhase' = "limits"
  /\ limit' \in {IF Usable THEN LoopCeiling(census.top) ELSE MaxUint, MaxUint}
  /\ UNCHANGED <<gor, most, opened, seenMax, gone, census, stopped, probeVars>>

\* The same entry of the loop in a mutant's process, which holds the table: a
\* table that cannot be read leaves the loop unlimited.
Enforce(g) ==
  /\ rtPhase = "limits"
  /\ rtPhase' = "enforced" /\ stopped' = IF most[g] > limit THEN {g} ELSE {}
  /\ UNCHANGED <<gor, most, opened, seenMax, gone, census, limit, probeVars>>

-----------------------------------------------------------------------------
(* The infection log *)

ProbeStarts ==
  /\ probeExit = "" /\ ~infectionLog.header
  /\ \/ infectionLog' = [infectionLog EXCEPT !.header = TRUE] /\ UNCHANGED probeExit
     \/ probeExit' = "unavailable" /\ UNCHANGED infectionLog
  /\ UNCHANGED <<countVars, probeAt, probeSeen>>

\* MUTANT: the flag is set before it is looked at.
InfectClaimUnlooked(g) ==
  /\ probeExit = "" /\ infectionLog.header /\ probeAt[g] = "site"
  /\ probeSeen' = probeSeen \cup {Probes[g]}
  /\ probeAt' = [probeAt EXCEPT ![g] = IF Cardinality(probeSeen) > 0 THEN "past" ELSE "write"]
  /\ UNCHANGED <<countVars, infectionLog, probeExit>>

\* Infect: the first goroutine claims the mutant, the others return at once.
InfectClaim(g) ==
  /\ probeExit = "" /\ infectionLog.header /\ probeAt[g] = "site"
  /\ probeSeen' = probeSeen \cup {Probes[g]}
  /\ probeAt' = [probeAt EXCEPT ![g] = IF Probes[g] \in probeSeen THEN "past" ELSE "write"]
  /\ UNCHANGED <<countVars, infectionLog, probeExit>>

InfectWrite(g) ==
  /\ probeExit = "" /\ probeAt[g] = "write"
  /\ \/ /\ infectionLog' = [infectionLog EXCEPT !.indices = @ \cup {Probes[g]}]
        /\ probeAt' = [probeAt EXCEPT ![g] = "past"] /\ UNCHANGED probeExit
     \/ probeExit' = "unavailable" /\ UNCHANGED <<infectionLog, probeAt>>
  /\ UNCHANGED <<countVars, probeSeen>>

ProbeEnds ==
  /\ probeExit = "" /\ infectionLog.header
  /\ probeExit' \in {"passed", "failed"}
  /\ UNCHANGED <<countVars, probeAt, probeSeen, infectionLog>>

\* ReadInfectionLog, of a process that passed.
Infections == infectionLog.indices

CountNext ==
  \/ \E p \in Processes : OpenCensus(p) \/ OpenCensusFails(p) \/ ProcessEnds(p)
  \/ \E g \in Goroutines : Iterate(g) \/ EnterLoop(g) \/ Record(g) \/ WriteCount(g) \/ Enforce(g)
  \/ DeriveLimits

ProbeNext ==
  \/ ProbeStarts \/ ProbeEnds
  \/ \E g \in DOMAIN Probes : InfectClaim(g) \/ InfectWrite(g)

-----------------------------------------------------------------------------

\* No ceiling ends what the baseline itself did: an entry of a loop that ran in
\* the census's processes, however they interleaved and wherever they ended, is
\* below the ceiling derived from what they wrote, unless its own process could
\* not open the census or failed to write a count to it.  Then nobody learns of it
\* (runtime.go:235, :249-256), and the loop has the floor or what others counted.
OriginalIsSpared == \A g \in stopped : ProcessOf[g] \in Uncounted

\* A probe process that passed has logged mutants that its goroutines saw differ,
\* and every one of those that a goroutine has returned from reporting, except
\* where the goroutine that claimed the mutant was still writing it: the others
\* that saw it returned at once, and the report is lost when the process ends.
InfectionsAreLogged ==
  LET Mutants(where) == {Probes[g] : g \in {x \in DOMAIN Probes : probeAt[x] \in where}}
  IN probeExit = "passed" =>
       /\ Infections \subseteq Mutants({"past"})
       /\ Mutants({"past"}) \ Infections \subseteq Mutants({"write"})

=============================================================================
