----------------------------- MODULE Projection ------------------------------
(***************************************************************************)
(* The native projection of a run's build cache                            *)
(* (goatest/internal/assure/buildcache.go, goatest/internal/buildcache/    *)
(* native.go): a directory in the go command's own format that mirrors the *)
(* base layer.  Commands that execute tests use it directly, so it may be  *)
(* refreshed or collected only while none of them runs: a gate admits      *)
(* them.  Commands that compile write to the base layer and mark the       *)
(* projection dirty when they end.  The preparation of the mutants runs    *)
(* beside them, in a goroutine of its own, with the environment it was     *)
(* given before.                                                           *)
(***************************************************************************)
EXTENDS Naturals, FiniteSets

CONSTANTS
  Natives,      \* commands that use the projection
  Compiles,     \* commands that write to the base layer
  Preparation   \* the preparation of the mutants

Callers == Natives \cup {Preparation}
Nobody == "nobody"

VARIABLES
  seed,         \* the once: "none", "listing", "listed", "ok", "failed"
  seedGeneration, generation, seededGeneration,
  disabled, admission,
  projMutex,    \* the projection's mutex, while a drain's work holds it
  active,       \* executions
  stage,        \* [command -> where it is]
  held,         \* does the base layer hold entries at the start
  written, returned,  \* compile commands that wrote, and that returned
  projected,    \* whose products the projection holds
  version,      \* how often the projection's files were removed or replaced
  needs, view   \* [caller -> what had returned when it called; version it was given]

projectionVars == <<seed, seedGeneration, generation, seededGeneration, disabled, admission, projMutex, active,
                    stage, held, written, returned, projected, version, needs, view>>
seedVars == <<seed, seedGeneration>>
baseVars == <<held, written, returned>>

ProjectionInit ==
  /\ seed = "none" /\ seedGeneration = 0 /\ generation = 0 /\ seededGeneration = 0
  /\ disabled = FALSE /\ admission = Nobody /\ projMutex = Nobody /\ active = {}
  /\ stage = [c \in Callers \cup Compiles |-> "idle"]
  /\ held \in BOOLEAN /\ written = {} /\ returned = {} /\ projected = {} /\ version = 0
  /\ needs = [c \in Callers |-> {}] /\ view = [c \in Callers |-> 0]

Moves(c, to) == stage' = [stage EXCEPT ![c] = to]

-----------------------------------------------------------------------------
(* seedNative *)

\* A run chooses the preparation's environment before its first command; a plan
\* has none.
Turn(c) ==
  IF c = Preparation THEN \A d \in Natives \cup Compiles : stage[d] = "idle"
  ELSE stage[Preparation] \notin {"seed", "seeding"}

\* A command, or the preparation, asks for the projection.
Call(c) ==
  /\ stage[c] = "idle" /\ Turn(c) /\ Moves(c, "seed") /\ needs' = [needs EXCEPT ![c] = returned]
  /\ UNCHANGED <<seedVars, generation, seededGeneration, disabled, admission, projMutex, active, baseVars,
                 projected, version, view>>

\* The first caller seeds; the generation is read before the base is listed.
SeedOnce(c) ==
  /\ stage[c] = "seed" /\ seed = "none" /\ projMutex = Nobody
  /\ seed' = "listing" /\ seedGeneration' = generation /\ Moves(c, "seeding")
  /\ UNCHANGED <<generation, seededGeneration, disabled, admission, projMutex, active, baseVars,
                 projected, version, needs, view>>

\* projectNative: links whatever the base holds as it is walked, or fails.
SeedNative(c) ==
  /\ stage[c] = "seeding" /\ seed = "listing"
  /\ \/ seed' = "listed" /\ projected' = written
     \/ seed' = "failed" /\ UNCHANGED projected
  /\ Moves(c, IF seed' = "failed" THEN "seed" ELSE "seeding")
  /\ UNCHANGED <<seedGeneration, generation, seededGeneration, disabled, admission, projMutex, active, baseVars,
                 version, needs, view>>

Seeded(c) ==
  /\ stage[c] = "seeding" /\ seed = "listed" /\ projMutex = Nobody
  /\ seed' = "ok" /\ seededGeneration' = seedGeneration /\ Moves(c, "seed")
  /\ UNCHANGED <<seedGeneration, generation, disabled, admission, projMutex, active, baseVars,
                 projected, version, needs, view>>

\* Every caller goes on once the seeding is over.
BeginNative(c) ==
  /\ c \in Natives /\ stage[c] = "seed" /\ seed \in {"ok", "failed"} /\ projMutex = Nobody
  /\ Moves(c, IF seed = "ok" /\ ~disabled THEN "admit" ELSE "external")
  /\ UNCHANGED <<seedVars, generation, seededGeneration, disabled, admission, projMutex, active, baseVars,
                 projected, version, needs, view>>

-----------------------------------------------------------------------------
(* beginSeededNative *)

\* MUTANT: the gate is not locked while the executions drain.
LockAdmissionNot(c) ==
  /\ stage[c] = "admit" /\ Moves(c, "check")
  /\ UNCHANGED <<seedVars, generation, seededGeneration, disabled, admission, projMutex, active, baseVars,
                 projected, version, needs, view>>

LockAdmission(c) ==
  /\ stage[c] = "admit" /\ admission = Nobody /\ admission' = c /\ Moves(c, "check")
  /\ UNCHANGED <<seedVars, generation, seededGeneration, disabled, projMutex, active, baseVars,
                 projected, version, needs, view>>

\* It is admitted, and the gate opens for the next.
Admit(c, v) ==
  /\ Moves(c, "running") /\ active' = active \cup {c} /\ admission' = Nobody
  /\ view' = [view EXCEPT ![c] = v]

Refuse(c) == Moves(c, "external") /\ admission' = Nobody /\ UNCHANGED <<active, view>>

\* A refresh is needed, or a collection is due after its interval.
Check(c) ==
  /\ stage[c] = "check" /\ projMutex = Nobody
  /\ \/ disabled /\ Refuse(c)
     \/ ~disabled /\ Moves(c, "drain") /\ UNCHANGED <<active, view, admission>>
     \/ ~disabled /\ seededGeneration = generation /\ Admit(c, version)
  /\ UNCHANGED <<seedVars, generation, seededGeneration, disabled, projMutex, baseVars, projected, version, needs>>

\* executions.Wait, and then the mutex again.
Drain(c) ==
  /\ stage[c] = "drain" /\ active = {} /\ Moves(c, "drained")
  /\ UNCHANGED <<seedVars, generation, seededGeneration, disabled, admission, projMutex, active, baseVars,
                 projected, version, needs, view>>

Relock(c) ==
  /\ stage[c] = "drained" /\ projMutex = Nobody /\ projMutex' = c /\ Moves(c, "refresh")
  /\ UNCHANGED <<seedVars, generation, seededGeneration, disabled, admission, active, baseVars,
                 projected, version, needs, view>>

\* RefreshNative replaces what differs; a failure closes the gate for good.
Refresh(c) ==
  /\ stage[c] = "refresh"
  /\ \/ seededGeneration = generation /\ Moves(c, "collect")
        /\ UNCHANGED <<seededGeneration, projected, version, disabled>>
     \/ /\ seededGeneration /= generation /\ Moves(c, "fresh")
        /\ projected' = written /\ seededGeneration' = generation /\ version' = version + 1
        /\ UNCHANGED disabled
     \/ /\ seededGeneration /= generation /\ Moves(c, "fresh") /\ disabled' = TRUE /\ version' = version + 1
        /\ UNCHANGED <<seededGeneration, projected>>
  /\ UNCHANGED <<seedVars, generation, admission, projMutex, active, baseVars, needs, view>>

\* collectNativeLocked, which a refresh that just happened makes not due.
CollectNative(c) ==
  /\ stage[c] \in {"collect", "fresh"}
  /\ \/ UNCHANGED <<version, disabled>>
     \/ stage[c] = "collect" /\ version' = version + 1 /\ UNCHANGED disabled
     \/ stage[c] = "collect" /\ version' = version + 1 /\ disabled' = TRUE
  /\ projMutex' = Nobody
  /\ IF disabled' THEN Refuse(c) ELSE Admit(c, version')
  /\ UNCHANGED <<seedVars, generation, seededGeneration, baseVars, projected, needs>>

\* The command ends: its release, deferred.
Done(c) ==
  /\ stage[c] \in {"running", "external"} /\ c \in Natives
  /\ Moves(c, "over") /\ active' = active \ {c}
  /\ UNCHANGED <<seedVars, generation, seededGeneration, disabled, admission, projMutex, baseVars,
                 projected, version, needs, view>>

-----------------------------------------------------------------------------

\* A compile command of the workspace writes to the base layer.
Compile(c) ==
  /\ stage[c] = "idle" /\ Turn(c) /\ Moves(c, "written") /\ written' = written \cup {c}
  /\ UNCHANGED <<seedVars, generation, seededGeneration, disabled, admission, projMutex, active, held, returned,
                 projected, version, needs, view>>

\* markNativeDirty, once it has returned.
MarkNativeDirty(c) ==
  /\ stage[c] = "written" /\ projMutex = Nobody
  /\ generation' = generation + 1 /\ returned' = returned \cup {c} /\ Moves(c, "over")
  /\ UNCHANGED <<seedVars, seededGeneration, disabled, admission, projMutex, active, held, written,
                 projected, version, needs, view>>

\* preparationEnvironment: the projection where the seeding found entries, else
\* the base layer, and the projection is dirty from here on.
PreparationEnvironment ==
  /\ stage[Preparation] = "seed" /\ seed \in {"ok", "failed"} /\ projMutex = Nobody
  /\ \/ /\ seed = "ok" /\ ~disabled /\ (held \/ projected /= {})
        /\ Moves(Preparation, "prepares") /\ view' = [view EXCEPT ![Preparation] = version]
        /\ UNCHANGED generation
     \/ /\ seed = "ok" /\ ~disabled /\ ~held /\ projected = {}
        /\ Moves(Preparation, "compiles") /\ generation' = generation + 1 /\ UNCHANGED view
     \/ (seed = "failed" \/ disabled) /\ Moves(Preparation, "compiles") /\ UNCHANGED <<generation, view>>
  /\ UNCHANGED <<seedVars, seededGeneration, disabled, admission, projMutex, active, baseVars, projected, version, needs>>

\* The preparation ends; persistPreparation links its products into the base.
PersistPreparation ==
  /\ stage[Preparation] \in {"prepares", "compiles"} /\ Moves(Preparation, "over")
  /\ written' = written \cup {Preparation}
  /\ UNCHANGED <<seedVars, generation, seededGeneration, disabled, admission, projMutex, active, held, returned,
                 projected, version, needs, view>>

ProjectionNext ==
  \/ \E c \in Callers : Call(c) \/ SeedOnce(c) \/ SeedNative(c) \/ Seeded(c)
  \/ \E c \in Natives : \/ BeginNative(c) \/ LockAdmission(c) \/ Check(c) \/ Drain(c) \/ Relock(c)
                        \/ Refresh(c) \/ CollectNative(c) \/ Done(c)
  \/ \E c \in Compiles : Compile(c) \/ MarkNativeDirty(c)
  \/ PreparationEnvironment \/ PersistPreparation

-----------------------------------------------------------------------------

\* A command that the gate admitted finds the products of every compile command
\* that had returned when it was called, and no file of the projection is removed
\* or replaced while it runs.
AdmittedIsServed ==
  \A c \in active : needs[c] \subseteq projected /\ view[c] = version

=============================================================================
