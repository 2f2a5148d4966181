----------------------------- MODULE ProbePass -----------------------------
(***************************************************************************)
(* goatest's probe phase (goatest/internal/assure/probe.go, called from    *)
(* run.go): every target and every package suite that routing needs is run *)
(* once against the probed original, workers taking the items from one     *)
(* queue, and the facts of the whole pass are stored in the checkpoint     *)
(* (resume.go) with the mutants that are routed by them.                   *)
(*                                                                         *)
(* A process may be cancelled or die at any step, and the next one         *)
(* prepares the catalogue anew: what a mutant's index stands for, whether  *)
(* it compiles and whether it is probed are then that catalogue's.  What a *)
(* target infects is the same every time.  How long a probe takes, whole-  *)
(* tree reads and the storing of the checkpoint itself (module Checkpoint) *)
(* are left out.                                                           *)
(***************************************************************************)
EXTENDS Integers, Sequences, FiniteSets, SequencesExt

CONSTANTS
  Targets,       \* the targets of the baseline
  SuitePackages, \* neededProbeSuitePackages
  Infects,       \* target or package -> the mutants its run infects
  Catalogs,      \* the prepared catalogues: index -> [id, accepted, probed]
  Jobs,          \* the workers of a pass
  MaxAttempts    \* bound: processes

Items == Targets \cup SuitePackages

VARIABLES
  attempt,    \* the process, counted from 1
  catalog,    \* the catalogue this process prepared
  phase,      \* where Run is
  journal,    \* the checkpoint's baseline: target -> its fact, or none yet
  carried,    \* the targets whose baseline fact an earlier process measured
  saved,      \* the checkpoint's mutation part: [catalog, probe, results]
  resume,     \* the mutants whose result is taken from the checkpoint
  facts,      \* what is known of each item: TargetEvidence, PackageProbeEvidence
  queue,      \* the items no worker has taken
  working,    \* the items being probed
  slots,      \* item -> its measurement, or none yet
  cancelled   \* whether the context is cancelled

probePassVars == <<attempt, catalog, phase, journal, carried, saved, resume,
                   facts, queue, working, slots, cancelled>>

Unmeasured == [measured |-> FALSE, infected |-> {}, fatal |-> FALSE]
Measured(s) == [measured |-> TRUE, infected |-> s, fatal |-> FALSE]
Fatal == [measured |-> FALSE, infected |-> {}, fatal |-> TRUE]
None == [measured |-> FALSE, infected |-> {-1}, fatal |-> FALSE]
NoProbe == [there |-> FALSE, index |-> <<>>, facts |-> [i \in Items |-> Unmeasured]]
NoMutation == [catalog |-> {}, probe |-> NoProbe, results |-> {}]

-----------------------------------------------------------------------------
(* Fingerprints *)

\* MutationCatalogFingerprint: the mutants, whatever their order.
MutationCatalogFingerprint(cat) == {cat[i].id : i \in DOMAIN cat}

\* mutationProbeIndexFingerprint
IndexFingerprint(cat) == [i \in DOMAIN cat |-> <<cat[i].id, cat[i].accepted, cat[i].probed>>]

\* What the probed original logs: the indices of the probed mutants it infects.
Logged(item, cat) ==
  {i \in DOMAIN cat : cat[i].accepted /\ cat[i].probed /\ cat[i].id \in Infects[item]}

-----------------------------------------------------------------------------
(* A process *)

Fresh(cat, n) ==
  /\ attempt' = n /\ catalog' = cat /\ phase' = "baseline"
  /\ resume' = {} /\ facts' = [i \in Items |-> Unmeasured]
  /\ queue' = <<>> /\ working' = {} /\ slots' = [i \in Items |-> None] /\ cancelled' = FALSE

ProbePassInit ==
  /\ attempt = 1 /\ catalog \in Catalogs /\ phase = "baseline"
  /\ journal = [t \in Targets |-> None] /\ carried = {} /\ saved = NoMutation
  /\ resume = {} /\ facts = [i \in Items |-> Unmeasured]
  /\ queue = <<>> /\ working = {} /\ slots = [i \in Items |-> None] /\ cancelled = FALSE

\* The process ends, as it likes, and another takes the checkpoint up.
Restart(cat) ==
  /\ attempt < MaxAttempts
  /\ Fresh(cat, attempt + 1)
  /\ carried' = {t \in Targets : journal[t] # None}
  /\ UNCHANGED <<journal, saved>>

\* CollectBaseline: a target of the journal is as it was stored, the others are
\* run with the probe, which may not measure; suites are measured afresh.
Baseline(measured) ==
  /\ phase = "baseline"
  /\ journal' = [t \in Targets |-> IF journal[t] # None THEN journal[t]
                   ELSE IF t \in measured THEN Measured(Logged(t, catalog)) ELSE Unmeasured]
  /\ facts' = [i \in Items |-> CASE i \in Targets -> journal'[i]
                                 [] i \in measured -> Measured(Logged(i, catalog))
                                 [] OTHER -> Unmeasured]
  /\ phase' = "mutation"
  /\ UNCHANGED <<attempt, catalog, carried, saved, resume, queue, working, slots, cancelled>>

\* runCheckpointController.mutation
RestoreMutation ==
  /\ phase = "mutation"
  /\ IF saved.catalog # MutationCatalogFingerprint(catalog)
     THEN /\ saved' = [NoMutation EXCEPT !.catalog = MutationCatalogFingerprint(catalog)]
          /\ resume' = {}
     ELSE UNCHANGED saved /\ resume' = {r.id : r \in saved.results}
  /\ phase' = "probe"
  /\ UNCHANGED <<attempt, catalog, journal, carried, facts, queue, working, slots, cancelled>>

\* restoreMutationProbe: the mapping of indices is the same, and every index is
\* one of the catalogue's.
Restorable ==
  /\ saved.probe.index = IndexFingerprint(catalog)
  /\ \A i \in Items : saved.probe.facts[i].infected \subseteq DOMAIN catalog

\* A probe that cannot be used goes, and the results routed by it.
DiscardProbe ==
  /\ saved' = [NoMutation EXCEPT !.catalog = MutationCatalogFingerprint(catalog)]
  /\ resume' = {}

\* ProbeTargets begins: the targets without a fact and the suites nobody has
\* measured are queued.
StartPass ==
  /\ queue' = SetToSeq({t \in Targets : ~facts[t].measured})
               \o SetToSeq({p \in SuitePackages : ~facts[p].measured})
  /\ phase' = "pass"

\* runCheckpointController.probe
RestoreProbe ==
  /\ phase = "probe"
  /\ CASE ~saved.probe.there -> StartPass /\ UNCHANGED <<saved, resume, facts>>
       [] saved.probe.there /\ Restorable ->
            /\ facts' = saved.probe.facts /\ phase' = "evaluate"
            /\ UNCHANGED <<saved, resume, queue>>
       [] OTHER -> DiscardProbe /\ StartPass /\ UNCHANGED facts
  /\ UNCHANGED <<attempt, catalog, journal, carried, working, slots, cancelled>>

\* A worker takes an item; nothing is started once the context is cancelled.
Take ==
  /\ phase = "pass" /\ queue # <<>> /\ Cardinality(working) < Jobs
  /\ queue' = Tail(queue)
  /\ IF cancelled THEN slots' = [slots EXCEPT ![Head(queue)] = Fatal] /\ UNCHANGED working
     ELSE working' = working \cup {Head(queue)} /\ UNCHANGED slots
  /\ UNCHANGED <<attempt, catalog, phase, journal, carried, saved, resume, facts, cancelled>>

\* probeResultRecord: an answer that names an index nobody knows is no answer.
Answer(item, infected) ==
  IF infected \subseteq DOMAIN catalog THEN Measured(infected) ELSE Unmeasured

\* probeTarget and probeSuite: a probe answers, fails to measure, or is fatal: it
\* was cancelled, or the session is without one.
ProbeEnds(item) ==
  /\ item \in working
  /\ \E m \in {Unmeasured, Answer(item, Logged(item, catalog)), Answer(item, {0}), Fatal} :
       slots' = [slots EXCEPT ![item] = m]
  /\ working' = working \ {item}
  /\ UNCHANGED <<attempt, catalog, phase, journal, carried, saved, resume, facts, queue, cancelled>>

\* checkpointMutationProbe
Record == [there |-> TRUE, index |-> IndexFingerprint(catalog),
           facts |-> [i \in Items |-> IF slots[i] = None THEN facts[i] ELSE slots[i]]]

\* ProbeTargets collects once every worker is done: one measurement that is
\* fatal is the pass's error, and nothing is stored; saveProbe.
Collect ==
  /\ phase = "pass" /\ queue = <<>> /\ working = {}
  /\ IF \E i \in Items : slots[i].fatal THEN phase' = "failed" /\ UNCHANGED <<facts, saved>>
     ELSE /\ phase' = "evaluate"
          /\ facts' = Record.facts
          /\ saved' = IF saved.catalog = MutationCatalogFingerprint(catalog)
                      THEN [saved EXCEPT !.probe = Record] ELSE saved
  /\ UNCHANGED <<attempt, catalog, journal, carried, resume, queue, working, slots, cancelled>>

\* What a mutant comes to: a compile rejection without being run, else what the
\* items the facts route it to find.
Status(i) ==
  CASE ~catalog[i].accepted -> "compile-rejected"
    [] catalog[i].accepted /\ (\E t \in Items : i \in facts[t].infected) -> "killed"
    [] OTHER -> "survived"

\* EvaluateMutations: a mutant is routed by the facts and its result stored.
EvaluateMutant(i) ==
  /\ phase = "evaluate" /\ ~cancelled
  /\ \A r \in saved.results : r.id # catalog[i].id
  /\ saved' = [saved EXCEPT !.results = @ \cup {[id |-> catalog[i].id, by |-> facts, status |-> Status(i)]}]
  /\ UNCHANGED <<attempt, catalog, phase, journal, carried, resume, facts, queue, working, slots, cancelled>>

\* validateMutationCatalog: no two mutants share an identity.
ValidCatalog(cat) == IsInjective([i \in DOMAIN cat |-> cat[i].id])

\* mutationAccounting: the dispositions, those of mutants without any included.
Dispositions ==
  [i \in DOMAIN catalog |->
     LET mine == {r \in saved.results : r.id = catalog[i].id}
     IN  IF mine = {} THEN "unknown" ELSE (CHOOSE r \in mine : TRUE).status]
MutationAccounting ==
  [discovered |-> Len(catalog),
   counts |-> [s \in {"killed", "survived", "compile-rejected", "unknown"} |->
                 Cardinality({i \in DOMAIN catalog : Dispositions[i] = s})]]

\* completeMutation: every mutant has its result, and the report its accounting.
Account ==
  /\ phase = "evaluate" /\ ~cancelled /\ ValidCatalog(catalog)
  /\ \A i \in DOMAIN catalog : \E r \in saved.results : r.id = catalog[i].id
  /\ phase' = "accounted"
  /\ UNCHANGED <<attempt, catalog, journal, carried, saved, resume, facts, queue, working, slots, cancelled>>

\* The context is cancelled.
Cancel ==
  /\ ~cancelled /\ phase \in {"pass", "evaluate"} /\ cancelled' = TRUE
  /\ UNCHANGED <<attempt, catalog, phase, journal, carried, saved, resume, facts, queue, working, slots>>

ProbePassNext ==
  \/ \E s \in SUBSET Items : Baseline(s)
  \/ RestoreMutation \/ RestoreProbe \/ Take \/ Collect \/ Account \/ Cancel
  \/ \E i \in working : ProbeEnds(i)
  \/ \E i \in DOMAIN catalog : EvaluateMutant(i)
  \/ \E c \in Catalogs : Restart(c)

-----------------------------------------------------------------------------
(* Properties *)

\* A fact says of an item which probed mutants it infects, and a mutant that is
\* not among them is one it does not infect.
True(item) == facts[item].measured => facts[item].infected = Logged(item, catalog)

\* What the mutants are routed by is true of the catalogue in force, whichever
\* process measured it and however often the run was interrupted; every stored
\* result that is reused was routed by those very facts; and the accounting of the
\* run that ends counts each mutant of its own catalogue once, under what those
\* facts make of it.  A fact the baseline's journal carries from an earlier process
\* is bound to no mapping of indices and is not probed again, so nothing is said
\* of it.
FactsAreTrue ==
  /\ phase = "evaluate" =>
       /\ \A i \in Items \ carried : True(i)
       /\ \A r \in saved.results : r.id \in resume => r.by = facts
  /\ phase = "accounted" =>
       /\ \A i \in DOMAIN catalog : Dispositions[i] = Status(i)
       /\ MutationAccounting.discovered = MapThenSumSet(LAMBDA s : MutationAccounting.counts[s],
                                                        {"killed", "survived", "compile-rejected"})
=============================================================================
