---------------------------- MODULE OutcomeCache -----------------------------
(***************************************************************************)
(* The outcomes that one run stores for the next (internal/cache store.go, *)
(* maintain.go): the entry of one mutant, in a directory that two contexts *)
(* share because the directory's name is only a part of their key, with    *)
(* runs that look it up, measure and store, and a collection and a         *)
(* cleaning that remove it under them.                                     *)
(*                                                                         *)
(* What a mutant does is fixed for each context: it ends after `time', it  *)
(* holds `peak' from `swell' on, and its tests say `verdict'.  Time and    *)
(* memory are small numbers; a bound of zero on memory is no bound.        *)
(***************************************************************************)
EXTENDS Integers, FiniteSets

CONSTANTS
  CacheRuns,    \* runs that use the cache
  CacheKeys,    \* full keys of the contexts that share the directory
  Natures,      \* what the mutant may do: [time, swell, peak, verdict]
  TimeLimits, MemoryLimits

ASSUME OutcomeCacheAssumption ==
  /\ Natures \subseteq [time : Nat, swell : Nat, peak : Nat,
                        verdict : {"killed", "survived", "diverged", "errored"}]
  /\ \A n \in Natures : n.swell <= n.time
  /\ TimeLimits \subseteq Nat /\ MemoryLimits \subseteq Nat
  /\ "none" \notin CacheKeys

VARIABLES
  nature,     \* of the mutant, in each context
  filed,      \* the entry's file, or NoFile
  contextDir, \* whether the context's directory exists
  user,       \* each run: where it is, its options, and what it reports
  gc          \* the collection's next step

NoFile == [key |-> "none"]
CacheUser0 == [at |-> "idle"]

cacheVars == <<nature, filed, contextDir, user, gc>>

OutcomeCacheInit ==
  /\ nature \in [CacheKeys -> Natures]
  /\ filed = NoFile /\ contextDir = FALSE
  /\ user = [r \in CacheRuns |-> CacheUser0] /\ gc = "idle"

\* What a run measures: the memory bound, the tests' own end, or the limit,
\* whichever comes first.
Measured(n, timeout, memory) ==
  LET exceeds == memory > 0 /\ n.peak > memory /\ n.swell <= timeout
      ends    == n.time <= timeout
  IN CASE exceeds -> [outcome |-> "killed", exceeded |-> TRUE, diverged |-> FALSE, duration |-> n.swell]
       [] ~exceeds /\ ends /\ n.verdict = "diverged" ->
            [outcome |-> "timed_out", exceeded |-> FALSE, diverged |-> TRUE, duration |-> n.time]
       [] ~exceeds /\ ends /\ n.verdict /= "diverged" ->
            [outcome |-> n.verdict, exceeded |-> FALSE, diverged |-> FALSE, duration |-> n.time]
       [] OTHER -> [outcome |-> "timed_out", exceeded |-> FALSE, diverged |-> FALSE, duration |-> timeout]

-----------------------------------------------------------------------------
(* When an entry may stand for a measurement *)

\* MUTANT: a time limit that was hit once is hit for ever.
UsableUnderBlind(e, timeout) ==
  e.diverged \/ e.outcome = "timed_out" \/ e.duration <= timeout

\* UsableUnder
UsableUnder(e, timeout) ==
  \/ e.diverged
  \/ ~e.diverged /\ e.outcome = "timed_out" /\ timeout <= e.timeout
  \/ ~e.diverged /\ e.outcome /= "timed_out" /\ e.duration <= timeout

\* UsableWithin
UsableWithin(e, limit) ==
  CASE e.exceeded -> limit > 0 /\ limit <= e.memory
    [] ~e.exceeded /\ (e.memory = 0 \/ e.outcome = "killed") -> TRUE
    [] OTHER -> limit = 0 \/ limit >= e.memory

Cacheable(outcome) == outcome \in {"killed", "survived", "timed_out"}

\* Entry.check, of what can differ between entries that this build wrote
CheckEntry(e, key) ==
  /\ e.key = key /\ Cacheable(e.outcome)
  /\ e.exceeded => e.memory > 0 /\ e.outcome = "killed"
  /\ e.diverged => e.outcome = "timed_out"

-----------------------------------------------------------------------------
(* A run *)

Becomes(r, to) == user' = [user EXCEPT ![r].at = to]

\* Open claims the workspace's directory and makes the context's own; a run
\* whose cache cannot be opened measures.
OpenCache(r) ==
  /\ user[r].at = "idle"
  /\ \E key \in CacheKeys, t \in TimeLimits, m \in MemoryLimits, opened \in BOOLEAN :
       /\ user' = [user EXCEPT ![r] = [at |-> IF opened THEN "lookup" ELSE "measure", key |-> key,
                     timeout |-> t, memory |-> m, caching |-> opened, hit |-> FALSE]]
       /\ contextDir' = (contextDir \/ opened)
  /\ UNCHANGED <<nature, filed, gc>>

\* Lookup: an entry that is missing, another's, or of no use is a miss.
Lookup(r) ==
  /\ user[r].at = "lookup"
  /\ IF /\ filed /= NoFile /\ CheckEntry(filed, user[r].key)
        /\ UsableUnder(filed, user[r].timeout) /\ UsableWithin(filed, user[r].memory)
     THEN user' = [user EXCEPT ![r] = [at |-> "done", key |-> @.key, timeout |-> @.timeout,
                     memory |-> @.memory, caching |-> TRUE, hit |-> TRUE,
                     says |-> filed.outcome, unbounded |-> filed.memory = 0]]
     ELSE Becomes(r, "measure")
  /\ UNCHANGED <<nature, filed, contextDir, gc>>

Measurement(r) == Measured(nature[user[r].key], user[r].timeout, user[r].memory)

\* Put: an outcome that is not reusable is not written, and neither is one
\* whose directory is gone; otherwise the file is replaced by one rename.
Put(r) ==
  /\ user[r].at = "measure"
  /\ LET m == Measurement(r)
         entry == [key |-> user[r].key, outcome |-> m.outcome, exceeded |-> m.exceeded,
                   diverged |-> m.diverged, duration |-> m.duration,
                   timeout |-> user[r].timeout, memory |-> user[r].memory, old |-> FALSE]
     IN /\ filed' \in IF user[r].caching /\ contextDir /\ CheckEntry(entry, user[r].key)
                      THEN {filed, entry} ELSE {filed}
        /\ user' = [user EXCEPT ![r] = [at |-> "done", key |-> @.key, timeout |-> @.timeout,
                      memory |-> @.memory, caching |-> @.caching, hit |-> FALSE,
                      says |-> m.outcome, unbounded |-> FALSE]]
  /\ UNCHANGED <<nature, contextDir, gc>>

EntryAges ==
  /\ filed /= NoFile /\ ~filed.old
  /\ filed' = [filed EXCEPT !.old = TRUE]
  /\ UNCHANGED <<nature, contextDir, user, gc>>

-----------------------------------------------------------------------------
(* cache gc and cache clean *)

\* collect: the file's age is looked at, and it is removed by its name; the
\* directory is looked at, and it is removed with what it holds by then.
Collect ==
  /\ \/ gc = "idle" /\ contextDir /\ gc' = "file" /\ UNCHANGED <<filed, contextDir>>
     \/ gc = "file" /\ filed /= NoFile /\ filed.old /\ gc' = "remove" /\ UNCHANGED <<filed, contextDir>>
     \/ gc = "file" /\ filed /= NoFile /\ ~filed.old /\ gc' = "over" /\ UNCHANGED <<filed, contextDir>>
     \/ gc = "remove" /\ gc' = "dir" /\ filed' = NoFile /\ UNCHANGED contextDir
     \/ gc \in {"file", "dir"} /\ filed = NoFile /\ gc' = "rmdir" /\ UNCHANGED <<filed, contextDir>>
     \/ gc = "dir" /\ filed /= NoFile /\ gc' = "over" /\ UNCHANGED <<filed, contextDir>>
     \/ gc = "rmdir" /\ gc' = "over" /\ filed' = NoFile /\ contextDir' = FALSE
  /\ UNCHANGED <<nature, user>>

\* Clean removes every context of a workspace it can prove to be its own.
CleanOutcomes ==
  /\ gc = "idle" /\ contextDir
  /\ filed' = NoFile /\ contextDir' = FALSE /\ gc' = "over"
  /\ UNCHANGED <<nature, user>>

OutcomeCacheNext ==
  \/ \E r \in CacheRuns : OpenCache(r) \/ Lookup(r) \/ Put(r)
  \/ EntryAges \/ Collect \/ CleanOutcomes

OutcomeCacheSpec == OutcomeCacheInit /\ [][OutcomeCacheNext]_cacheVars

-----------------------------------------------------------------------------

\* A run reports of a mutant what it would have measured under its own time
\* limit and memory bound, whichever run of whichever context stored the entry
\* it read and whatever was collected meanwhile.  The one liberty the code takes
\* is an entry measured without a memory bound, which is used under any.
CachedIsRemeasured ==
  \A r \in CacheRuns : user[r].at = "done" =>
    user[r].says = Measurement(r).outcome \/ (user[r].hit /\ user[r].unbounded /\ user[r].memory > 0)
=============================================================================
