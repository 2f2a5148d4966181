------------------------------- MODULE Resource -------------------------------
(***************************************************************************)
(* The manager of provider processes (goatest/internal/resource): a target *)
(* of the round acquires a capability and releases it; a shared provider   *)
(* is counted, an exclusive one is awaited, and the last release stops it  *)
(* outside the mutex.                                                      *)
(*                                                                         *)
(* One capability; its kind is fixed at the start.  A provider starts      *)
(* under the mutex.  Stopping one is asking, waiting, and killing it when  *)
(* its answer is bad or late; either way it is gone in the end.            *)
(***************************************************************************)
EXTENDS Integers, FiniteSets

CONSTANTS
  Targets,        \* targets that use the capability
  MaxInstances    \* bound: providers started

ASSUME ResourceAssumption == MaxInstances \in Nat /\ IsFiniteSet(Targets) /\ "free" \notin Targets

VARIABLES
  kind,      \* of the capability: shared, exclusive, or one for each target
  mu,        \* who holds the manager's mutex across a step, or "free"
  target,    \* each target: where it is, its instance, the channel it waits on
  provider,  \* each instance: unused, starting, ready, stopping, gone
  refs,      \* of each instance
  active, sharedNow, closed, changed, nextID,
  closing    \* Close: where it is, and the instances it has to stop

resourceVars == <<kind, mu, target, provider, refs, active, sharedNow, closed, changed, nextID, closing>>

Instances == 1..MaxInstances
Target0 == [at |-> "idle", instance |-> 0, channel |-> 0]

ResourceInit ==
  /\ kind \in {"shared", "exclusive", "own"} /\ mu = "free"
  /\ target = [t \in Targets |-> Target0]
  /\ provider = [i \in Instances |-> "unused"] /\ refs = [i \in Instances |-> 0]
  /\ active = {} /\ sharedNow = 0 /\ closed = FALSE /\ changed = 0 /\ nextID = 0
  /\ closing = [at |-> "idle", left |-> {}]

TargetGoes(t, to) == target' = [target EXCEPT ![t].at = to]

-----------------------------------------------------------------------------
(* Acquire *)

\* The loop under the mutex: closed, or an exclusive provider that is still
\* active, or a shared one to join, or one to start with the mutex held.
AcquireLocks(t) ==
  /\ target[t].at \in {"idle", "woken"} /\ mu = "free"
  /\ CASE closed ->
            TargetGoes(t, "done") /\ UNCHANGED <<mu, provider, refs, nextID>>
       [] ~closed /\ kind = "exclusive" /\ active /= {} ->
            /\ target' = [target EXCEPT ![t].at = "waiting", ![t].channel = changed]
            /\ UNCHANGED <<mu, provider, refs, nextID>>
       [] ~closed /\ kind = "shared" /\ sharedNow /= 0 ->
            /\ refs' = [refs EXCEPT ![sharedNow] = @ + 1]
            /\ target' = [target EXCEPT ![t].at = "leased", ![t].instance = sharedNow]
            /\ UNCHANGED <<mu, provider, nextID>>
       [] OTHER ->
            /\ nextID < MaxInstances /\ nextID' = nextID + 1
            /\ provider' = [provider EXCEPT ![nextID + 1] = "starting"]
            /\ target' = [target EXCEPT ![t].at = "starting", ![t].instance = nextID + 1]
            /\ mu' = t /\ UNCHANGED refs
  /\ UNCHANGED <<kind, active, sharedNow, closed, changed, closing>>

\* The select of a waiting target: its channel was closed, or its context.
AcquireWakes(t) ==
  /\ target[t].at = "waiting"
  /\ \/ changed > target[t].channel /\ TargetGoes(t, "woken")
     \/ TargetGoes(t, "done")
  /\ UNCHANGED <<kind, mu, provider, refs, active, sharedNow, closed, changed, nextID, closing>>

\* start: the provider is ready, and the lease is its first.
StartReady(t) ==
  /\ target[t].at = "starting"
  /\ LET i == target[t].instance
     IN /\ provider' = [provider EXCEPT ![i] = "ready"] /\ refs' = [refs EXCEPT ![i] = 1]
        /\ active' = active \cup {i}
        /\ sharedNow' = IF kind = "shared" THEN i ELSE sharedNow
  /\ TargetGoes(t, "leased") /\ mu' = "free"
  /\ UNCHANGED <<kind, closed, changed, nextID, closing>>

\* abort: a provider that is not ready in time, or not ready as it should
\* be, is killed and awaited.
StartAborts(t) ==
  /\ target[t].at = "starting"
  /\ provider' = [provider EXCEPT ![target[t].instance] = "gone"]
  /\ TargetGoes(t, "done") /\ mu' = "free"
  /\ UNCHANGED <<kind, refs, active, sharedNow, closed, changed, nextID, closing>>

-----------------------------------------------------------------------------
(* release *)

\* The last lease takes the provider off the shelf and leaves it active.
ReleaseLocks(t) ==
  /\ target[t].at = "leased" /\ mu = "free"
  /\ LET i == target[t].instance
         last == i \in active /\ refs[i] = 1
     IN /\ refs' = IF i \in active THEN [refs EXCEPT ![i] = @ - 1] ELSE refs
        /\ sharedNow' = IF last /\ sharedNow = i THEN 0 ELSE sharedNow
        /\ TargetGoes(t, IF last THEN "stopping" ELSE "done")
  /\ UNCHANGED <<kind, mu, provider, active, closed, changed, nextID, closing>>

\* stop runs once, whoever calls it; the others wait until it has run.
StopBegins(i) ==
  /\ provider[i] = "ready"
  /\ \/ \E t \in Targets : target[t].at = "stopping" /\ target[t].instance = i
     \/ closing.at = "stopping" /\ closing.left /= {} /\ i = CHOOSE j \in closing.left : \A k \in closing.left : j <= k
  /\ provider' = [provider EXCEPT ![i] = "stopping"]
  /\ UNCHANGED <<kind, mu, target, refs, active, sharedNow, closed, changed, nextID, closing>>

StopEnds(i) ==
  /\ provider[i] = "stopping"
  /\ provider' = [provider EXCEPT ![i] = "gone"]
  /\ UNCHANGED <<kind, mu, target, refs, active, sharedNow, closed, changed, nextID, closing>>

\* MUTANT: those who wait for the capability are not told.
ReleasedSilently(t) ==
  /\ target[t].at = "stopping" /\ provider[target[t].instance] = "gone" /\ mu = "free"
  /\ active' = active \ {target[t].instance}
  /\ TargetGoes(t, "done")
  /\ UNCHANGED <<kind, mu, provider, refs, sharedNow, closed, changed, nextID, closing>>

\* The provider is gone: it is not active any more, and the waiters are told.
Released(t) ==
  /\ target[t].at = "stopping" /\ provider[target[t].instance] = "gone" /\ mu = "free"
  /\ active' = active \ {target[t].instance}
  /\ changed' = IF target[t].instance \in active THEN changed + 1 ELSE changed
  /\ TargetGoes(t, "done")
  /\ UNCHANGED <<kind, mu, provider, refs, sharedNow, closed, nextID, closing>>

-----------------------------------------------------------------------------
(* Close *)

CloseLocks ==
  /\ closing.at = "idle" /\ mu = "free"
  /\ closed' = TRUE /\ closing' = [at |-> "stopping", left |-> active]
  /\ active' = {} /\ sharedNow' = 0 /\ changed' = changed + 1
  /\ UNCHANGED <<kind, mu, target, provider, refs, nextID>>

\* One provider after the other.
CloseStopped ==
  /\ closing.at = "stopping"
  /\ \/ \E i \in closing.left : provider[i] = "gone" /\ closing' = [closing EXCEPT !.left = @ \ {i}]
     \/ closing.left = {} /\ closing' = [closing EXCEPT !.at = "closed"]
  /\ UNCHANGED <<kind, mu, target, provider, refs, active, sharedNow, closed, changed, nextID>>

TargetNext(t) ==
  \/ AcquireLocks(t) \/ AcquireWakes(t) \/ StartReady(t) \/ StartAborts(t)
  \/ ReleaseLocks(t) \/ Released(t)

ResourceNext ==
  \/ \E t \in Targets : TargetNext(t)
  \/ \E i \in Instances : StopBegins(i) \/ StopEnds(i)
  \/ CloseLocks \/ CloseStopped

ResourceSpec == ResourceInit /\ [][ResourceNext]_resourceVars

-----------------------------------------------------------------------------

LivingProviders == {i \in Instances : provider[i] \in {"starting", "ready", "stopping"}}

\* An exclusive provider is alone until it is gone, and not only until its
\* lease ended (release stops it outside the mutex); while the manager is open
\* a leased provider is not being stopped under any of its targets; and when
\* Close has returned no provider is left, whatever was being released.
ProvidersAreKept ==
  /\ kind = "exclusive" => Cardinality(LivingProviders) <= 1
  /\ ~closed => \A t \in Targets : target[t].at = "leased" => provider[target[t].instance] = "ready"
  /\ closing.at = "closed" => LivingProviders = {}

\* No wake-up is lost.  A target waits on a channel that nobody has closed only
\* while a provider is active, and an active provider is in the hands of a
\* target that will release it, or is being stopped for one: the release, or
\* Close, is what closes the channel.
WaitersAreWoken ==
  /\ \A t \in Targets : target[t].at = "waiting" /\ target[t].channel = changed => active /= {}
  /\ \A i \in active : \E t \in Targets :
       target[t].instance = i /\ target[t].at \in {"leased", "stopping"}

\* The manager's promise to its targets.
LeasesAreKept == ProvidersAreKept /\ WaitersAreWoken
==============================================================================
