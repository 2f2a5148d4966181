------------------------------- MODULE Report --------------------------------
(***************************************************************************)
(* The run report (internal/report, internal/mutation): what Build refuses *)
(* to write down, how a document is counted, judged against the ledger of  *)
(* expected survivors and decided by the policy, and how the documents of  *)
(* the shards of one run are merged into the document of the whole run.    *)
(*                                                                         *)
(* A document is a record of the run's status, its place among the shards, *)
(* one row for every mutant of the catalogue that compiles, the rejected   *)
(* mutants, the ledger, and the facts about coverage and the cache.        *)
(***************************************************************************)
EXTENDS Integers, FiniteSets, FiniteSetsExt, Functions

CONSTANTS
  MutantIDs,   \* the identifiers of the catalogue
  Hash         \* the hash that assigns an identifier to a shard

Outcomes == {"killed", "survived", "timed_out", "inconclusive", "errored", "not_run"}
NotRunReasons == {"out-of-selection", "other-shard", "interrupted"}
NoReason == "none"

\* One row: its outcome, why it was not run, what settled it, its attempts.
Row(outcome, reason, how, attempts) ==
  [outcome |-> outcome, reason |-> reason, how |-> how, attempts |-> attempts]

ShardIndex(id, total) == (Hash[id] % total) + 1

-----------------------------------------------------------------------------
(* What Build refuses *)

\* notRunReasonOf: a reason belongs to a row that was not run, and to no other.
BadReason(row) == (row.outcome = "not_run") /= (row.reason \in NotRunReasons)

\* coverageBlock, checkUnobserved: a mutant settled without a run is a survivor
\* with no attempt, and only a narrowed run knows of uncovered ones.
BadCoverage(row, coverage) ==
  \/ row.how = "uncovered" /\ coverage = "off"
  \/ row.how \in {"uncovered", "unobserved"} /\ (row.outcome /= "survived" \/ row.attempts /= 0)

\* reusable
Reusable == {"killed", "survived", "timed_out"}

\* cacheBlock, for one row and for the counts of the document.
BadCache(row, cache) == row.how = "cached" /\ (cache.mode = "off" \/ row.outcome \notin Reusable)
BadCacheCounts(cache) ==
  cache.writes > cache.misses \/ (cache.mode = "off" /\ cache.misses > 0)

\* selectionOf
BadSelection(doc) ==
  doc.selected > Cardinality(DOMAIN doc.rows) + Cardinality(doc.rejected)

\* Build: every mutant of the catalogue is in one row or rejected, not both.
BuildRefuses(doc) ==
  \/ DOMAIN doc.rows \cup doc.rejected /= MutantIDs
  \/ DOMAIN doc.rows \cap doc.rejected /= {}
  \/ BadSelection(doc) \/ BadCacheCounts(doc.cache)
  \/ \E id \in DOMAIN doc.rows :
       \/ BadReason(doc.rows[id])
       \/ BadCoverage(doc.rows[id], doc.coverage)
       \/ BadCache(doc.rows[id], doc.cache)

-----------------------------------------------------------------------------
(* The ledger, the count and the verdict *)

\* StateOf and Evaluate
StateOf(rows, rejected, id) ==
  CASE id \notin DOMAIN rows \cup rejected -> "stale"
    [] id \in rejected -> "unfulfilled"
    [] OTHER -> IF rows[id].outcome = "survived" THEN "fulfilled" ELSE "unfulfilled"

\* ExpectationFailure: an entry is stale, or a test now detects its mutant.
ExpectationFailure(doc) ==
  \E id \in doc.ledger :
    \/ StateOf(doc.rows, doc.rejected, id) = "stale"
    \/ /\ StateOf(doc.rows, doc.rejected, id) = "unfulfilled"
       /\ id \in DOMAIN doc.rows /\ doc.rows[id].outcome \in {"killed", "timed_out"}

\* tallyOf and Tally.Record
With(doc, outcomes) == {id \in DOMAIN doc.rows : doc.rows[id].outcome \in outcomes}
ExpectedSurvivors(doc) == {id \in doc.ledger : StateOf(doc.rows, doc.rejected, id) = "fulfilled"}

TallyOf(doc) ==
  [detected   |-> Cardinality(With(doc, {"killed", "timed_out"})),
   unexpected |-> Cardinality(With(doc, {"survived"}) \ ExpectedSurvivors(doc)),
   expected   |-> Cardinality(With(doc, {"survived"}) \cap ExpectedSurvivors(doc)),
   errored    |-> Cardinality(With(doc, {"errored"})),
   other      |-> Cardinality(With(doc, {"inconclusive", "not_run"}))]

\* ScoreOf: the share of the detected, of those a test could have detected.
BelowScore(tally, minimum) ==
  LET of == tally.detected + tally.unexpected
  IN of > 0 /\ minimum > 0 /\ 100 * tally.detected < minimum * of

\* Decide: an error of the run outranks a verdict of the policy.
Decide(doc) ==
  LET tally == TallyOf(doc)
      total == Cardinality(DOMAIN doc.rows)
  IN CASE tally.errored > 0 \/ ExpectationFailure(doc) -> "infrastructure"
       [] \/ doc.policy.strict /\ tally.unexpected > 0
          \/ BelowScore(tally, doc.policy.minimum)
          \/ doc.policy.require /\ total = 0 -> "policy"
       [] OTHER -> "ok"

-----------------------------------------------------------------------------
(* The merge of the shards of one run *)

\* congruent and sameCatalog
Congruent(docs) ==
  \A d, e \in docs : /\ d.total = e.total /\ d.changed = e.changed
                     /\ DOMAIN d.rows = DOMAIN e.rows /\ d.rejected = e.rejected

\* completeSet: every shard once.
CompleteSet(docs) ==
  \E d \in docs : /\ {e.shard : e \in docs} = 1..d.total
                  /\ Cardinality(docs) = d.total

\* ownership: a shard disclaims the rows of the others and no row of its own.
Ownership(docs) ==
  \A d \in docs : \A id \in DOMAIN d.rows :
    (ShardIndex(id, d.total) = d.shard) = (d.rows[id].reason /= "other-shard")

MergeAccepts(docs) ==
  /\ docs /= {} /\ \A d \in docs : d.total > 0
  /\ Congruent(docs) /\ CompleteSet(docs) /\ Ownership(docs)

\* mergedStatus
WorstStatus(docs) ==
  IF \E d \in docs : d.status = "interrupted" THEN "interrupted" ELSE "completed"

\* mergedCoverage: the finest mode that a shard reached.
FinestCoverage(docs) ==
  LET modes == {d.coverage : d \in docs}
  IN CASE "test" \in modes -> "test" [] "package" \in modes -> "package" [] OTHER -> "off"

\* MergeShards: every row from the shard that owns its mutant.
MergeShards(docs) ==
  LET first == CHOOSE d \in docs : d.shard = 1
      owner(id) == CHOOSE d \in docs : d.shard = ShardIndex(id, first.total)
  IN [first EXCEPT
        !.total = 0, !.shard = 0,
        !.status = WorstStatus(docs),
        !.coverage = FinestCoverage(docs),
        !.selected = MapThenSumSet(LAMBDA d : d.selected, docs),
        !.cache = [mode |-> IF \E d \in docs : d.cache.mode = "on" THEN "on" ELSE "off",
                   misses |-> MapThenSumSet(LAMBDA d : d.cache.misses, docs),
                   writes |-> MapThenSumSet(LAMBDA d : d.cache.writes, docs)],
        !.rows = [id \in DOMAIN first.rows |-> owner(id).rows[id]]]
=============================================================================
