---------------------------- MODULE LibraryProofs ----------------------------
(***************************************************************************)
(* Proofs about the concurrent parts that MCLibrary checks side by side,    *)
(* for any number of processes, commands, resources and runs: the listings  *)
(* memo, the process runner, the resource manager, the sweep of the         *)
(* temporary directories and the recorder.                                  *)
(***************************************************************************)
EXTENDS Recorder, ModuleMemo, Runner, Resource, TempOwner, FiniteSetTheorems, SequenceTheorems, WellFoundedInduction, TLAPS

(* ModuleMemo: a call of Module gets an answer of its own, of the tree it   *)
(* asked about, whoever leads, follows, leaves and is cancelled.            *)

Listeners == {"leading", "read", "listed"}
InCall == Listeners \cup {"following", "settled"}

Entries == [interested : Int, settled : BOOLEAN, cancelled : BOOLEAN, listed : Listings \cup {Nothing}]

Callers == [at : InCall \cup {"idle", "answered"}, query : Queries \cup {Nothing}, mine : Nat,
            left : BOOLEAN, gone : BOOLEAN, saw : Listings \cup {Nothing}, since : Nat,
            got : Listings \cup {Nothing}]

\* The state is of the declared shape.
MemoTypes ==
  /\ memo \in [Queries -> Nat] /\ answer \in Seq(Entries) /\ asker \in [Askers -> Callers]
  /\ version \in Versions /\ floor \in Nat /\ floor <= version

Calling(c) == asker[c].at \in InCall

\* Those whose interest keeps a listing alive.
Interested(a) == {c \in Askers : asker[c].mine = a /\ Calling(c) /\ ~asker[c].left}

\* A call holds an answer that was made for it or shared with it, and a leader
\* that has left was told to go.
Holding ==
  /\ \A q \in Queries : memo[q] \in 0 .. Len(answer)
  /\ \A c \in Askers :
       /\ Calling(c) => asker[c].mine \in Answers /\ asker[c].query \in Queries /\ asker[c].since <= floor
       /\ asker[c].left => asker[c].gone
       /\ asker[c].at = "following" => ~asker[c].left

\* One caller makes the listing of an answer, until it is settled.
OneLeader ==
  /\ \A c \in Askers :
       /\ asker[c].at \in Listeners => ~answer[asker[c].mine].settled
       /\ asker[c].at = "settled" =>
            answer[asker[c].mine].settled /\ asker[c].saw = answer[asker[c].mine].listed
       /\ asker[c].at \in {"read", "listed", "settled"} => asker[c].saw \in Listings
       /\ asker[c].at = "read" => asker[c].saw /= Canceled
  /\ \A c, d \in Askers :
       asker[c].at \in Listeners /\ asker[d].at \in Listeners /\ asker[c].mine = asker[d].mine => c = d

\* An answer is filed under the query it was made for, and only there.
Filing ==
  /\ \A q, r \in Queries : memo[q] /= None /\ memo[q] = memo[r] => q = r
  /\ \A c \in Askers, q \in Queries : Calling(c) /\ memo[q] = asker[c].mine => asker[c].query = q

\* The count of an answer is the count of those who are interested in it, and
\* a listing is torn down only when there are none.
Counting ==
  \A a \in Answers :
    /\ answer[a].interested = Cardinality(Interested(a))
    /\ answer[a].cancelled /\ ~answer[a].settled => Interested(a) = {}

\* A listing that came to nothing has no follower, and its leader had left.
Abandoned ==
  \A c \in Askers :
    /\ asker[c].at = "listed" /\ asker[c].saw = Canceled => answer[asker[c].mine].cancelled
    /\ asker[c].at = "settled" /\ asker[c].saw = Canceled => asker[c].left
    /\ asker[c].at = "following" /\ answer[asker[c].mine].settled =>
         answer[asker[c].mine].listed \in Listings \ {Canceled}

\* What was read of the tree for an answer.
Reading(a, v) ==
  \/ answer[a].settled /\ answer[a].listed = v
  \/ \E c \in Askers : asker[c].at \in {"read", "listed"} /\ asker[c].mine = a /\ asker[c].saw = v

\* What was read for a filed answer is no older than the last forgetting, and
\* what was read for a call no older than the one before it began.
Fresh ==
  /\ \A q \in Queries : memo[q] /= None => \A v \in Versions : Reading(memo[q], v) => v >= floor
  /\ \A c \in Askers : Calling(c) =>
       \A v \in Versions : Reading(asker[c].mine, v) => v >= asker[c].since

MemoInv ==
  /\ MemoTypes /\ Holding /\ OneLeader /\ Filing /\ Counting /\ Abandoned /\ Fresh
  /\ AnswersAreRight

-----------------------------------------------------------------------------

\* The three errors of a listing are different, and no version of the tree.
LEMMA Errors ==
  /\ Failed /= Canceled /\ Failed /= Refused /\ Canceled /= Refused
  /\ Canceled \notin Versions /\ Failed \notin Versions /\ Refused \notin Versions
  /\ Nothing \notin Listings /\ Versions \subseteq Listings /\ Versions \subseteq Nat
  /\ {Failed, Canceled, Refused} \subseteq Listings
  <1>1. \A x, y : IsFiniteSet({x, y}) /\ Cardinality({x, y}) <= 2
    <2> TAKE x, y
    <2>1. IsFiniteSet({x}) /\ Cardinality({x}) = 1
      BY FS_Singleton
    <2>2. {x, y} = {x} \cup {y}
      OBVIOUS
    <2> QED BY <2>1, <2>2, FS_AddElement
  <1>2. Failed = Canceled => {Failed, Canceled, Refused} = {Failed, Refused}
    OBVIOUS
  <1>3. Failed = Refused => {Failed, Canceled, Refused} = {Failed, Canceled}
    OBVIOUS
  <1>4. Canceled = Refused => {Failed, Canceled, Refused} = {Failed, Canceled}
    OBVIOUS
  <1>5. Cardinality({Failed, Canceled, Refused}) = 3
    BY MemoAssumption
  <1>6. Failed /= Canceled /\ Failed /= Refused /\ Canceled /= Refused
    <2>1. \A x, y : Cardinality({x, y}) /= 3
      <3> TAKE x, y
      <3>1. IsFiniteSet({x, y}) /\ Cardinality({x, y}) <= 2
        BY <1>1
      <3> QED BY <3>1, FS_CardinalityType
    <2> QED BY <1>2, <1>3, <1>4, <1>5, <2>1
  <1> QED BY <1>6, MemoAssumption DEF Listings, Versions

\* A version that is no older than one that is no older than a third.
LEMMA Later == \A x, y, z \in Nat : x <= y /\ y <= z => z >= x
  OBVIOUS

\* Those interested in an answer are finitely many.
LEMMA InterestedFinite ==
  \A a : IsFiniteSet(Interested(a)) /\ Cardinality(Interested(a)) \in Nat
  <1> TAKE a
  <1>1. Interested(a) \in SUBSET Askers
    BY DEF Interested
  <1> QED BY <1>1, MemoAssumption, FS_Subset, FS_CardinalityType

\* Replacing one entry of a sequence.
LEMMA SeqReplace ==
  ASSUME NEW S, NEW s \in Seq(S), NEW i \in 1 .. Len(s), NEW x \in S
  PROVE  /\ [s EXCEPT ![i] = x] \in Seq(S) /\ Len([s EXCEPT ![i] = x]) = Len(s)
         /\ [s EXCEPT ![i] = x][i] = x
         /\ \A j \in 1 .. Len(s) : j /= i => [s EXCEPT ![i] = x][j] = s[j]
  OBVIOUS

\* Recounting an answer, tearing it down or settling it keeps its shape.
LEMMA EntryUpdates ==
  ASSUME NEW e \in Entries
  PROVE  /\ \A k \in Int, b \in BOOLEAN : [e EXCEPT !.interested = k, !.cancelled = b] \in Entries
         /\ \A k \in Int : [e EXCEPT !.interested = k] \in Entries
         /\ \A v \in Listings : [e EXCEPT !.listed = v, !.settled = TRUE, !.cancelled = TRUE] \in Entries
  BY DEF Entries

\* leaveModule counts one interest less, and settles nothing.
LEMMA LeaveModuleFacts ==
  ASSUME MemoTypes, NEW q \in Queries, NEW a \in Answers, LeaveModule(q, a)
  PROVE  LET over == answer[a].interested - 1 = 0 /\ ~answer[a].settled
         IN /\ memo' \in [Queries -> Nat] /\ answer' \in Seq(Entries) /\ Len(answer') = Len(answer)
            /\ \A b \in Answers : b /= a => answer'[b] = answer[b]
            /\ answer'[a].interested = answer[a].interested - 1
            /\ answer'[a].settled = answer[a].settled /\ answer'[a].listed = answer[a].listed
            /\ answer'[a].cancelled <=> answer[a].cancelled \/ over
            /\ \A r \in Queries : memo'[r] = memo[r] \/ memo'[r] = None
            /\ over => memo'[q] /= a \/ memo'[q] = None
            /\ answer[a] \in Entries
  <1> DEFINE over == answer[a].interested - 1 = 0 /\ ~answer[a].settled
  <1>1. answer \in Seq(Entries) /\ answer[a] \in Entries /\ memo \in [Queries -> Nat]
    BY DEF MemoTypes, Answers
  <1>2. /\ answer' = [answer EXCEPT ![a] = [answer[a] EXCEPT !.interested = answer[a].interested - 1,
                                                             !.cancelled = answer[a].cancelled \/ over]]
        /\ memo' = IF over /\ memo[q] = a THEN [memo EXCEPT ![q] = None] ELSE memo
    BY DEF LeaveModule
  <1>3. [answer[a] EXCEPT !.interested = answer[a].interested - 1,
                          !.cancelled = answer[a].cancelled \/ over] \in Entries
    <2>1. answer[a].interested - 1 \in Int
      BY <1>1 DEF Entries
    <2>2. (answer[a].cancelled \/ over) \in BOOLEAN
      OBVIOUS
    <2> HIDE DEF over
    <2> QED BY <1>1, <2>1, <2>2, EntryUpdates
  <1>4. /\ answer' \in Seq(Entries) /\ Len(answer') = Len(answer)
        /\ \A b \in Answers : b /= a => answer'[b] = answer[b]
        /\ answer'[a] = [answer[a] EXCEPT !.interested = answer[a].interested - 1,
                                          !.cancelled = answer[a].cancelled \/ over]
    <2> DEFINE e == [answer[a] EXCEPT !.interested = answer[a].interested - 1,
                                      !.cancelled = answer[a].cancelled \/ over]
    <2>1. answer' = [answer EXCEPT ![a] = e] /\ e \in Entries
      BY <1>2, <1>3
    <2> HIDE DEF e
    <2>2. /\ [answer EXCEPT ![a] = e] \in Seq(Entries) /\ Len([answer EXCEPT ![a] = e]) = Len(answer)
          /\ [answer EXCEPT ![a] = e][a] = e
          /\ \A b \in Answers : b /= a => [answer EXCEPT ![a] = e][b] = answer[b]
      BY <1>1, <2>1, SeqReplace DEF Answers
    <2> QED BY <2>1, <2>2 DEF e
  <1>5. memo' \in [Queries -> Nat] /\ (over => memo'[q] /= a \/ memo'[q] = None)
    BY <1>1, <1>2 DEF None
  <1>6. \A r \in Queries : memo'[r] = memo[r] \/ memo'[r] = None
    BY <1>1, <1>2
  <1> QED BY <1>1, <1>4, <1>5, <1>6 DEF Entries

\* A caller that leaves an answer, because it has it, gives up, or leads no
\* longer, keeps the promise to the others.
LEMMA Leaving ==
  ASSUME MemoInv, NEW c \in Askers, Calling(c), ~asker[c].left, NEW r \in Callers,
         LeaveModule(asker[c].query, asker[c].mine), asker' = [asker EXCEPT ![c] = r],
         \/ r = [asker[c] EXCEPT !.left = TRUE] /\ asker[c].gone /\ asker[c].at /= "following"
         \/ /\ r.at = "answered" /\ ~r.left
            /\ r.got = Canceled => r.gone
            /\ r.got \in Versions => r.got >= r.since,
         UNCHANGED <<version, floor>>
  PROVE  MemoInv'
  <1>p. PICK a, q : a = asker[c].mine /\ q = asker[c].query
    OBVIOUS
  <1> USE <1>p
  <1> DEFINE over == answer[a].interested - 1 = 0 /\ ~answer[a].settled
  <1>a. a \in Answers /\ q \in Queries
    BY DEF MemoInv, Holding
  <1>b. /\ memo' \in [Queries -> Nat] /\ answer' \in Seq(Entries) /\ Len(answer') = Len(answer)
        /\ \A b \in Answers : b /= a => answer'[b] = answer[b]
        /\ answer'[a].interested = answer[a].interested - 1
        /\ answer'[a].settled = answer[a].settled /\ answer'[a].listed = answer[a].listed
        /\ answer'[a].cancelled <=> answer[a].cancelled \/ over
        /\ \A s \in Queries : memo'[s] = memo[s] \/ memo'[s] = None
        /\ over => memo'[q] /= a \/ memo'[q] = None
        /\ answer[a] \in Entries
    BY <1>a, LeaveModuleFacts DEF MemoInv
  <1>c. /\ asker' \in [Askers -> Callers] /\ asker'[c] = r
        /\ \A d \in Askers : d /= c => asker'[d] = asker[d]
        /\ asker[c] \in Callers
    BY DEF MemoInv, MemoTypes
  <1>d. /\ r = [asker[c] EXCEPT !.left = TRUE] =>
             /\ r.at = asker[c].at /\ r.mine = a /\ r.query = q /\ r.left = TRUE
             /\ r.since = asker[c].since /\ r.got = asker[c].got /\ r.gone = asker[c].gone
             /\ r.saw = asker[c].saw
    BY <1>c DEF Callers
  <1>e. \A d \in Askers : d /= c => Calling(d)' = Calling(d)
    BY <1>c DEF Calling
  <1>f. Answers' = Answers
    BY <1>b DEF Answers
  <1>g. \A b \in Answers : answer'[b].settled = answer[b].settled /\ answer'[b].listed = answer[b].listed
    BY <1>b
  <1>h. r.at = "answered" => r.at \notin InCall /\ r.at \notin {"following", "read", "listed", "settled"}
    BY DEF InCall, Listeners
  <1>i. Calling(c)' => r = [asker[c] EXCEPT !.left = TRUE] /\ asker[c].gone
    BY <1>c, <1>h DEF Calling
  <1>1. MemoTypes'
    BY <1>b, <1>c DEF MemoInv, MemoTypes
  <1>2. Holding'
    <2>1. \A s \in Queries : memo'[s] \in 0 .. Len(answer')
      BY <1>b DEF MemoInv, Holding, None
    <2>2. ASSUME NEW d \in Askers
          PROVE  /\ Calling(d)' => asker'[d].mine \in Answers' /\ asker'[d].query \in Queries /\ asker'[d].since <= floor'
                 /\ asker'[d].left => asker'[d].gone
                 /\ asker'[d].at = "following" => ~asker'[d].left
      <3>1. CASE d /= c BY <1>c, <1>e, <1>f, <3>1 DEF MemoInv, Holding
      <3>2. CASE d = c /\ r = [asker[c] EXCEPT !.left = TRUE] /\ asker[c].gone
        BY <1>a, <1>c, <1>d, <1>f, <1>h, <3>2 DEF MemoInv, Holding
      <3>3. CASE d = c /\ r.at = "answered" /\ ~r.left
        BY <1>c, <1>h, <3>3 DEF Calling
      <3> QED BY <3>1, <3>2, <3>3
    <2> QED BY <2>1, <2>2 DEF Holding
  <1>3. OneLeader'
    <2>1. \A d \in Askers : asker'[d].at \in Listeners \cup {"settled"} =>
            /\ asker'[d].at = asker[d].at /\ asker'[d].mine = asker[d].mine /\ asker'[d].saw = asker[d].saw
            /\ asker[d].mine \in Answers
      BY <1>a, <1>c, <1>d, <1>h DEF MemoInv, Holding, Calling, InCall, Listeners
    <2> QED BY <1>g, <2>1 DEF MemoInv, OneLeader, Listeners
  <1>4. Filing'
    <2>1. \A d \in Askers : Calling(d)' => Calling(d) /\ asker'[d].mine = asker[d].mine /\ asker'[d].query = asker[d].query
      BY <1>c, <1>d, <1>e, <1>i
    <2>2. \A d \in Askers : Calling(d) => asker[d].mine /= None
      BY DEF MemoInv, Holding, Answers, None
    <2>3. \A s, u \in Queries : memo'[s] /= None /\ memo'[s] = memo'[u] => s = u
      BY <1>b DEF MemoInv, Filing
    <2>4. \A d \in Askers, s \in Queries : Calling(d)' /\ memo'[s] = asker'[d].mine => asker'[d].query = s
      BY <1>b, <2>1, <2>2 DEF MemoInv, Filing
    <2> QED BY <2>3, <2>4 DEF Filing
  <1>5. Counting'
    <2>1. c \in Interested(a) /\ Interested(a)' = Interested(a) \ {c}
      <3>1. ~(Calling(c)' /\ ~asker'[c].left)
        BY <1>c, <1>d, <1>i
      <3>2. \A d \in Askers : d /= c =>
              Calling(d)' = Calling(d) /\ asker'[d].mine = asker[d].mine /\ asker'[d].left = asker[d].left
        BY <1>c, <1>e
      <3> QED BY <3>1, <3>2 DEF Interested
    <2>2. ASSUME NEW b \in Answers, b /= a PROVE Interested(b)' = Interested(b)
      BY <1>c, <1>d, <1>e, <1>i, <2>2 DEF Interested
    <2>3. /\ Cardinality(Interested(a)') = Cardinality(Interested(a)) - 1
          /\ IsFiniteSet(Interested(a)') /\ Cardinality(Interested(a)) \in Nat
      BY <2>1, InterestedFinite, FS_RemoveElement
    <2>4. answer'[a].interested = Cardinality(Interested(a)')
      BY <1>a, <1>b, <2>3 DEF MemoInv, Counting
    <2>5. answer'[a].cancelled /\ ~answer'[a].settled => Interested(a)' = {}
      <3> SUFFICES ASSUME answer'[a].cancelled, ~answer'[a].settled PROVE Interested(a)' = {}
        OBVIOUS
      <3>1. ~answer[a].cancelled
        BY <1>a, <1>b, <2>1 DEF MemoInv, Counting
      <3>2. answer[a].interested - 1 = 0
        BY <1>b, <3>1
      <3> QED BY <1>b, <2>3, <2>4, <3>2, FS_EmptySet
    <2>6. ASSUME NEW b \in Answers, b /= a
          PROVE  /\ answer'[b].interested = Cardinality(Interested(b)')
                 /\ answer'[b].cancelled /\ ~answer'[b].settled => Interested(b)' = {}
      BY <1>b, <2>2, <2>6 DEF MemoInv, Counting
    <2> QED BY <1>f, <2>4, <2>5, <2>6 DEF Counting
  <1>6. Abandoned'
    <2>1. \A d \in Askers : asker'[d].at \in {"listed", "settled", "following"} =>
            /\ asker'[d].at = asker[d].at /\ asker'[d].mine = asker[d].mine /\ asker'[d].saw = asker[d].saw
            /\ asker[d].mine \in Answers /\ (asker[d].left => asker'[d].left)
      BY <1>a, <1>c, <1>d, <1>h DEF MemoInv, Holding, Calling, InCall, Listeners
    <2>2. \A b \in Answers : answer[b].cancelled => answer'[b].cancelled
      BY <1>b
    <2> QED BY <1>g, <2>1, <2>2 DEF MemoInv, Abandoned
  <1>7. Fresh'
    <2>1. \A b \in Answers, v \in Versions : Reading(b, v)' => Reading(b, v)
      BY <1>c, <1>d, <1>g, <1>h DEF Reading
    <2>2. \A s \in Queries : memo'[s] /= None => memo'[s] = memo[s] /\ memo[s] \in Answers
      BY <1>b DEF MemoInv, Holding, Answers, None
    <2>3. \A d \in Askers : Calling(d)' =>
            Calling(d) /\ asker'[d].mine = asker[d].mine /\ asker'[d].since = asker[d].since /\ asker[d].mine \in Answers
      BY <1>a, <1>c, <1>d, <1>e, <1>i DEF MemoInv, Holding
    <2> QED BY <2>1, <2>2, <2>3 DEF MemoInv, Fresh
  <1>8. AnswersAreRight'
    <2>1. OwnCancellationOnly' /\ NothingOlderThanACommand'
      BY <1>c, <1>d DEF MemoInv, AnswersAreRight, OwnCancellationOnly, NothingOlderThanACommand
    <2>2. FiledIsAlive'
      <3> SUFFICES ASSUME NEW s \in Queries, memo'[s] /= None
                   PROVE  \/ answer'[memo'[s]].settled /\ answer'[memo'[s]].listed \in Versions
                          \/ ~answer'[memo'[s]].settled /\ ~answer'[memo'[s]].cancelled
        BY DEF FiledIsAlive
      <3>1. memo'[s] = memo[s] /\ memo[s] \in Answers
        BY <1>b DEF MemoInv, Holding, Answers, None
      <3>2. memo[s] = a => s = q
        BY DEF MemoInv, Filing
      <3>3. memo[s] = a => ~over
        BY <1>b, <3>1, <3>2
      <3> QED BY <1>b, <1>g, <3>1, <3>3 DEF MemoInv, AnswersAreRight, FiledIsAlive
    <2> QED BY <2>1, <2>2 DEF AnswersAreRight
  <1> QED BY <1>1, <1>2, <1>3, <1>4, <1>5, <1>6, <1>7, <1>8 DEF MemoInv

\* A step of one caller that leaves the memo and the answers alone: its context
\* ends, its listing reads the tree, the listing ends, or a call that has
\* nothing to leave is over.
LEMMA Onward ==
  ASSUME MemoInv, NEW c \in Askers, NEW r \in Callers, asker' = [asker EXCEPT ![c] = r],
         \/ r = [asker[c] EXCEPT !.gone = TRUE]
         \/ \E s \in Listings :
              /\ asker[c].at = "leading" /\ r = [asker[c] EXCEPT !.at = "read", !.saw = s]
              /\ s /= Canceled /\ (s \in Versions => s = version)
         \/ \E s \in Listings :
              /\ asker[c].at = "read" /\ r = [asker[c] EXCEPT !.at = "listed", !.saw = s]
              /\ s = Canceled => answer[asker[c].mine].cancelled
              /\ s \in Versions => s = asker[c].saw
         \/ /\ ~(Calling(c) /\ ~asker[c].left) /\ r.at \in {"idle", "answered"} /\ ~r.left
            /\ r.got = Canceled => r.gone
            /\ r.got \in Versions => r.got >= r.since,
         UNCHANGED <<memo, answer, version, floor>>
  PROVE  MemoInv'
  <1>c. /\ asker' \in [Askers -> Callers] /\ asker'[c] = r
        /\ \A d \in Askers : d /= c => asker'[d] = asker[d]
        /\ asker[c] \in Callers
    BY DEF MemoInv, MemoTypes
  <1>d. \/ /\ r.at \in {"idle", "answered"} /\ ~r.left /\ ~(Calling(c) /\ ~asker[c].left)
           /\ r.got = Canceled => r.gone
           /\ r.got \in Versions => r.got >= r.since
        \/ /\ r.mine = asker[c].mine /\ r.query = asker[c].query /\ r.left = asker[c].left
           /\ r.since = asker[c].since /\ r.got = asker[c].got /\ (asker[c].gone => r.gone)
           /\ \/ r.at = asker[c].at /\ r.saw = asker[c].saw
              \/ /\ asker[c].at = "leading" /\ r.at = "read" /\ r.saw \in Listings \ {Canceled}
                 /\ r.saw \in Versions => r.saw = version
              \/ /\ asker[c].at = "read" /\ r.at = "listed" /\ r.saw \in Listings
                 /\ r.saw = Canceled => answer[asker[c].mine].cancelled
                 /\ r.saw \in Versions => r.saw = asker[c].saw
    <2>1. CASE r = [asker[c] EXCEPT !.gone = TRUE]
      BY <1>c, <2>1 DEF Callers
    <2>2. ASSUME NEW s \in Listings, asker[c].at = "leading", r = [asker[c] EXCEPT !.at = "read", !.saw = s],
                 s /= Canceled, s \in Versions => s = version
          PROVE  /\ r.mine = asker[c].mine /\ r.query = asker[c].query /\ r.left = asker[c].left
                 /\ r.since = asker[c].since /\ r.got = asker[c].got /\ r.gone = asker[c].gone
                 /\ r.at = "read" /\ r.saw = s
      BY <1>c, <2>2 DEF Callers
    <2>3. ASSUME NEW s \in Listings, asker[c].at = "read", r = [asker[c] EXCEPT !.at = "listed", !.saw = s]
          PROVE  /\ r.mine = asker[c].mine /\ r.query = asker[c].query /\ r.left = asker[c].left
                 /\ r.since = asker[c].since /\ r.got = asker[c].got /\ r.gone = asker[c].gone
                 /\ r.at = "listed" /\ r.saw = s
      BY <1>c, <2>3 DEF Callers
    <2> QED BY <2>1, <2>2, <2>3
  <1>e. \A d \in Askers : d /= c => Calling(d)' = Calling(d)
    BY <1>c DEF Calling
  <1>f. {"idle", "answered"} \cap InCall = {} /\ {"leading", "read", "listed"} \subseteq InCall
    BY DEF InCall, Listeners
  <1>g. \A d \in Askers : Calling(d)' =>
          /\ Calling(d) /\ asker'[d].mine = asker[d].mine /\ asker'[d].query = asker[d].query
          /\ asker'[d].since = asker[d].since /\ asker'[d].left = asker[d].left
    BY <1>c, <1>d, <1>e, <1>f, ZenonT(40) DEF Calling
  <1>h. \A d \in Askers : asker'[d].at = "listed" => asker[d].at \in {"read", "listed"}
    BY <1>c, <1>d
  <1>i. \A b : Interested(b)' = Interested(b)
    <2>1. \A d \in Askers : (Calling(d)' /\ ~asker'[d].left) <=> (Calling(d) /\ ~asker[d].left)
      BY <1>c, <1>d, <1>e, <1>f, ZenonT(40) DEF Calling
    <2>2. \A d \in Askers : Calling(d)' => asker'[d].mine = asker[d].mine
      BY <1>g
    <2> TAKE b
    <2>3. \A d \in Askers : d \in Interested(b)' <=> d \in Interested(b)
      BY <1>g, <2>1, <2>2 DEF Interested
    <2> QED BY <2>3 DEF Interested
  <1>1. MemoTypes'
    BY <1>c DEF MemoInv, MemoTypes
  <1>2. Holding'
    BY <1>c, <1>d, <1>g, ZenonT(40) DEF MemoInv, Holding, Answers
  <1>3. OneLeader'
    <2>1. \A d \in Askers : asker'[d].at \in Listeners => asker[d].at \in Listeners /\ asker'[d].mine = asker[d].mine
      BY <1>c, <1>d DEF Listeners
    <2>2. \A d \in Askers : asker'[d].at = "settled" =>
            asker[d].at = "settled" /\ asker'[d].mine = asker[d].mine /\ asker'[d].saw = asker[d].saw
      BY <1>c, <1>d
    <2>3. \A d \in Askers : asker'[d].at \in {"read", "listed", "settled"} => asker'[d].saw \in Listings
      BY <1>c, <1>d DEF MemoInv, OneLeader
    <2>4. \A d \in Askers : asker'[d].at = "read" => asker'[d].saw /= Canceled
      BY <1>c, <1>d DEF MemoInv, OneLeader
    <2>5. \A d, e \in Askers :
            asker'[d].at \in Listeners /\ asker'[e].at \in Listeners /\ asker'[d].mine = asker'[e].mine => d = e
      BY <2>1 DEF MemoInv, OneLeader
    <2>6. \A d \in Askers : asker'[d].at \in Listeners => ~answer[asker'[d].mine].settled
      BY <2>1 DEF MemoInv, OneLeader
    <2>7. \A d \in Askers : asker'[d].at = "settled" =>
            answer[asker'[d].mine].settled /\ asker'[d].saw = answer[asker'[d].mine].listed
      BY <2>2 DEF MemoInv, OneLeader
    <2> QED BY <2>3, <2>4, <2>5, <2>6, <2>7 DEF OneLeader
  <1>4. Filing'
    <2>1. ASSUME NEW d \in Askers, NEW s \in Queries, Calling(d)', memo[s] = asker'[d].mine
          PROVE  asker'[d].query = s
      <3>1. Calling(d) /\ asker'[d].mine = asker[d].mine /\ asker'[d].query = asker[d].query
        BY <1>g, <2>1
      <3> QED BY <2>1, <3>1 DEF MemoInv, Filing
    <2> QED BY <2>1 DEF MemoInv, Filing
  <1>5. Counting'
    BY <1>i DEF MemoInv, Counting, Answers
  <1>6. Abandoned'
    <2>1. ASSUME NEW d \in Askers, asker'[d].at = "listed", asker'[d].saw = Canceled
          PROVE  answer[asker'[d].mine].cancelled
      BY <1>c, <1>d, <2>1 DEF MemoInv, Abandoned
    <2>2. \A d \in Askers : asker'[d].at \in {"settled", "following"} =>
            /\ asker'[d].at = asker[d].at /\ asker'[d].mine = asker[d].mine
            /\ asker'[d].saw = asker[d].saw /\ asker'[d].left = asker[d].left
      BY <1>c, <1>d
    <2> QED BY <2>1, <2>2, ZenonT(40) DEF MemoInv, Abandoned
  <1>7. Fresh'
    <2>1. \A b, v : v \in Versions /\ Reading(b, v)' => Reading(b, v) \/ v = version
      <3> SUFFICES ASSUME NEW b, NEW v \in Versions, Reading(b, v)', ~Reading(b, v) PROVE v = version
        OBVIOUS
      <3>1. PICK d \in Askers : asker'[d].at \in {"read", "listed"} /\ asker'[d].mine = b /\ asker'[d].saw = v
        BY DEF Reading
      <3>2. ~(asker[d].at \in {"read", "listed"} /\ asker[d].mine = b /\ asker[d].saw = v)
        BY DEF Reading
      <3> QED BY <1>c, <1>d, <3>1, <3>2
    <2>2. version \in Nat /\ floor \in Nat /\ floor <= version
      BY Errors DEF MemoInv, MemoTypes
    <2>3. \A d \in Askers : Calling(d) => asker[d].since <= floor /\ asker[d].since \in Nat
      BY DEF MemoInv, MemoTypes, Holding, Callers
    <2>4. \A d \in Askers : Calling(d) => version >= asker[d].since
      <3> TAKE d \in Askers
      <3>1. Calling(d) => asker[d].since <= floor /\ asker[d].since \in Nat
        BY <2>3
      <3> QED BY <2>2, <3>1, Later
    <2> QED BY <1>g, <2>1, <2>2, <2>4 DEF MemoInv, Fresh
  <1>8. AnswersAreRight'
    BY <1>c, <1>d DEF MemoInv, AnswersAreRight, OwnCancellationOnly, NothingOlderThanACommand, FiledIsAlive
  <1> QED BY <1>1, <1>2, <1>3, <1>4, <1>5, <1>6, <1>7, <1>8 DEF MemoInv

\* A step of the calls around the memo: it writes, it forgets, or neither.
LEMMA Around ==
  ASSUME MemoInv, UNCHANGED <<answer, asker>>,
         version' \in Versions, floor' \in Nat, floor' <= version', floor <= floor',
         \/ memo' = memo /\ floor' = floor
         \/ ForgetModules
  PROVE  MemoInv'
  <1>a. \A q \in Queries : memo'[q] /= None => memo'[q] = memo[q] /\ floor' = floor
    BY DEF ForgetModules
  <1>b. \A b : Interested(b)' = Interested(b) /\ \A v : Reading(b, v)' = Reading(b, v)
    BY DEF Interested, Calling, Reading
  <1>c. \A c \in Askers : Calling(c)' = Calling(c)
    BY DEF Calling
  <1>1. MemoTypes'
    BY DEF MemoInv, MemoTypes, ForgetModules, None
  <1>2. Holding'
    <2>1. \A q \in Queries : memo'[q] \in 0 .. Len(answer)
      BY <1>a DEF MemoInv, MemoTypes, Holding, None
    <2>2. \A c \in Askers : Calling(c) => asker[c].since <= floor'
      BY DEF MemoInv, MemoTypes, Holding, Callers
    <2> QED BY <1>c, <2>1, <2>2 DEF MemoInv, Holding, Answers
  <1>3. OneLeader' BY DEF MemoInv, OneLeader
  <1>4. Filing'
    <2>1. \A c \in Askers : Calling(c) => asker[c].mine /= None
      BY DEF MemoInv, Holding, Answers, None
    <2> QED BY <1>a, <1>c, <2>1 DEF MemoInv, Filing
  <1>5. Counting' BY <1>b DEF MemoInv, Counting, Answers
  <1>6. Abandoned' BY DEF MemoInv, Abandoned
  <1>7. Fresh' BY <1>a, <1>b, <1>c DEF MemoInv, Fresh
  <1>8. AnswersAreRight'
    BY <1>a DEF MemoInv, AnswersAreRight, OwnCancellationOnly, NothingOlderThanACommand, FiledIsAlive
  <1> QED BY <1>1, <1>2, <1>3, <1>4, <1>5, <1>6, <1>7, <1>8 DEF MemoInv

\* A caller that joins a filed answer shares what was, or will be, read for it.
LEMMA JoiningShared ==
  ASSUME MemoInv, NEW c \in Askers, NEW q \in Queries, Ask(c, q), memo[q] /= None
  PROVE  MemoInv'
  <1>p. PICK a : a = memo[q]
    OBVIOUS
  <1> DEFINE r == [AskerIdle EXCEPT !.at = "following", !.query = q, !.mine = a, !.since = floor]
  <1>0. /\ answer' = [answer EXCEPT ![a].interested = @ + 1] /\ asker' = [asker EXCEPT ![c] = r]
        /\ memo' = memo /\ version' = version /\ floor' = floor /\ asker[c].at = "idle"
    BY <1>p DEF Ask, JoinModule, Asking
  <1>a. a \in Answers /\ a \in Nat /\ answer \in Seq(Entries) /\ answer[a] \in Entries
    BY <1>p DEF MemoInv, MemoTypes, Holding, Answers, None
  <1>b. /\ answer' \in Seq(Entries) /\ Len(answer') = Len(answer)
        /\ \A b \in Answers : b /= a => answer'[b] = answer[b]
        /\ answer'[a] = [answer[a] EXCEPT !.interested = answer[a].interested + 1]
    <2> DEFINE e == [answer[a] EXCEPT !.interested = answer[a].interested + 1]
    <2>1. answer' = [answer EXCEPT ![a] = e]
      BY <1>0
    <2>2. answer[a].interested + 1 \in Int
      BY <1>a DEF Entries
    <2>3. e \in Entries
      BY <1>a, <2>2, EntryUpdates
    <2> HIDE DEF e
    <2>4. /\ [answer EXCEPT ![a] = e] \in Seq(Entries) /\ Len([answer EXCEPT ![a] = e]) = Len(answer)
          /\ [answer EXCEPT ![a] = e][a] = e
          /\ \A b \in Answers : b /= a => [answer EXCEPT ![a] = e][b] = answer[b]
      BY <1>a, <2>3, SeqReplace DEF Answers
    <2> QED BY <2>1, <2>4 DEF e
  <1>c. /\ answer'[a].interested = answer[a].interested + 1
        /\ \A b \in Answers : /\ answer'[b].settled = answer[b].settled /\ answer'[b].listed = answer[b].listed
                              /\ answer'[b].cancelled = answer[b].cancelled
        /\ Answers' = Answers
    BY <1>a, <1>b DEF Entries, Answers
  <1>d. r \in Callers
    BY <1>a DEF Callers, AskerIdle, MemoInv, MemoTypes, InCall, Listeners, Listings
  <1>e. /\ r.at = "following" /\ r.query = q /\ r.mine = a /\ r.since = floor /\ r.left = FALSE
        /\ r.got = Nothing
    BY DEF AskerIdle
  <1> HIDE DEF r
  <1>f. /\ asker' \in [Askers -> Callers] /\ asker'[c] = r
        /\ \A d \in Askers : d /= c => asker'[d] = asker[d] /\ Calling(d)' = Calling(d)
    BY <1>0, <1>d DEF MemoInv, MemoTypes, Calling
  <1>g. ~Calling(c) /\ Calling(c)'
    BY <1>0, <1>e, <1>f DEF Calling, InCall, Listeners
  <1>1. MemoTypes'
    BY <1>0, <1>b, <1>f DEF MemoInv, MemoTypes
  <1>2. Holding'
    <2>1. \A s \in Queries : memo'[s] \in 0 .. Len(answer')
      BY <1>0, <1>b DEF MemoInv, Holding
    <2>2. floor \in Nat
      BY DEF MemoInv, MemoTypes
    <2>3. ASSUME NEW d \in Askers
          PROVE  /\ Calling(d)' => asker'[d].mine \in Answers' /\ asker'[d].query \in Queries /\ asker'[d].since <= floor'
                 /\ asker'[d].left => asker'[d].gone
                 /\ asker'[d].at = "following" => ~asker'[d].left
      <3>1. CASE d = c BY <1>0, <1>a, <1>c, <1>e, <1>f, <2>2, <3>1
      <3>2. CASE d /= c BY <1>0, <1>c, <1>f, <3>2 DEF MemoInv, Holding
      <3> QED BY <3>1, <3>2
    <2> QED BY <2>1, <2>3 DEF Holding
  <1>3. OneLeader'
    <2>1. \A d \in Askers : asker'[d].at \in Listeners \cup {"settled"} =>
            /\ asker'[d] = asker[d] /\ asker[d].mine \in Answers
      BY <1>e, <1>f DEF MemoInv, Holding, Calling, InCall, Listeners
    <2>2. \A d \in Askers : asker'[d].at \in {"read", "listed", "settled"} => asker'[d] = asker[d]
      BY <1>e, <1>f
    <2> QED BY <1>c, <2>1, <2>2 DEF MemoInv, OneLeader
  <1>4. Filing'
    <2>1. ASSUME NEW d \in Askers, NEW s \in Queries, Calling(d)', memo[s] = asker'[d].mine
          PROVE  asker'[d].query = s
      <3>1. CASE d = c BY <1>e, <1>f, <1>p, <2>1, <3>1 DEF MemoInv, Filing
      <3>2. CASE d /= c BY <1>f, <2>1, <3>2 DEF MemoInv, Filing
      <3> QED BY <3>1, <3>2
    <2> QED BY <1>0, <2>1 DEF MemoInv, Filing
  <1>5. Counting'
    <2>1. c \notin Interested(a) /\ Interested(a)' = Interested(a) \cup {c}
      BY <1>e, <1>f, <1>g DEF Interested
    <2>2. ASSUME NEW b \in Answers, b /= a PROVE Interested(b)' = Interested(b)
      BY <1>e, <1>f, <1>g, <2>2 DEF Interested
    <2>3. Cardinality(Interested(a)') = Cardinality(Interested(a)) + 1
      BY <2>1, InterestedFinite, FS_AddElement
    <2>4. answer'[a].interested = Cardinality(Interested(a)')
      BY <1>a, <1>c, <2>3 DEF MemoInv, Counting
    <2>5. ~(answer'[a].cancelled /\ ~answer'[a].settled)
      BY <1>a, <1>c, <1>p DEF MemoInv, AnswersAreRight, FiledIsAlive
    <2>6. ASSUME NEW b \in Answers, b /= a
          PROVE  /\ answer'[b].interested = Cardinality(Interested(b)')
                 /\ answer'[b].cancelled /\ ~answer'[b].settled => Interested(b)' = {}
      BY <1>b, <2>2, <2>6 DEF MemoInv, Counting
    <2> QED BY <1>c, <2>4, <2>5, <2>6 DEF Counting
  <1>6. Abandoned'
    <2>1. answer[a].settled => answer[a].listed \in Listings \ {Canceled}
      BY <1>p, Errors DEF MemoInv, AnswersAreRight, FiledIsAlive
    <2>2. ASSUME NEW d \in Askers
          PROVE  /\ asker'[d].at = "listed" /\ asker'[d].saw = Canceled => answer'[asker'[d].mine].cancelled
                 /\ asker'[d].at = "settled" /\ asker'[d].saw = Canceled => asker'[d].left
                 /\ asker'[d].at = "following" /\ answer'[asker'[d].mine].settled =>
                      answer'[asker'[d].mine].listed \in Listings \ {Canceled}
      <3>1. CASE d = c BY <1>a, <1>c, <1>e, <1>f, <2>1, <3>1
      <3>2. CASE d /= c
        <4>1. asker[d].at \in {"listed", "following"} => asker[d].mine \in Answers
          BY DEF MemoInv, Holding, Calling, InCall, Listeners
        <4> QED BY <1>c, <1>f, <3>2, <4>1 DEF MemoInv, Abandoned
      <3> QED BY <3>1, <3>2
    <2> QED BY <2>2 DEF Abandoned
  <1>7. Fresh'
    <2>1. \A b \in Answers : \A v : Reading(b, v)' => Reading(b, v)
      BY <1>c, <1>e, <1>f DEF Reading
    <2>2. \A s \in Queries : memo[s] /= None => memo[s] \in Answers
      BY DEF MemoInv, Holding, Answers, None
    <2>3. \A s \in Queries : memo'[s] /= None => \A v \in Versions : Reading(memo[s], v)' => v >= floor'
      BY <1>0, <2>1, <2>2 DEF MemoInv, Fresh
    <2>4. ASSUME NEW d \in Askers, Calling(d)', NEW v \in Versions, Reading(asker[d].mine, v)'
          PROVE  v >= asker'[d].since
      <3>1. CASE d = c
        BY <1>0, <1>a, <1>e, <1>f, <1>p, <2>1, <2>4, <3>1 DEF MemoInv, Fresh
      <3>2. CASE d /= c
        <4>1. Calling(d) /\ asker'[d] = asker[d] /\ asker[d].mine \in Answers
          BY <1>f, <2>4, <3>2 DEF MemoInv, Holding
        <4> QED BY <2>1, <2>4, <4>1 DEF MemoInv, Fresh
      <3> QED BY <3>1, <3>2
    <2> QED BY <2>3, <2>4 DEF Fresh
  <1>8. AnswersAreRight'
    <2>1. OwnCancellationOnly' /\ NothingOlderThanACommand'
      BY <1>e, <1>f, Errors DEF MemoInv, AnswersAreRight, OwnCancellationOnly, NothingOlderThanACommand, Listings
    <2>2. \A s \in Queries : memo[s] /= None => memo[s] \in Answers
      BY DEF MemoInv, Holding, Answers, None
    <2>3. FiledIsAlive'
      BY <1>0, <1>c, <2>2 DEF MemoInv, AnswersAreRight, FiledIsAlive
    <2> QED BY <2>1, <2>3 DEF AnswersAreRight
  <1> QED BY <1>1, <1>2, <1>3, <1>4, <1>5, <1>6, <1>7, <1>8 DEF MemoInv

\* A caller that finds nothing filed makes a listing of its own.
LEMMA JoiningNew ==
  ASSUME MemoInv, NEW c \in Askers, NEW q \in Queries, Ask(c, q), memo[q] = None
  PROVE  MemoInv'
  <1>p. PICK a : a = Len(answer) + 1
    OBVIOUS
  <1> DEFINE r == [AskerIdle EXCEPT !.at = "leading", !.query = q, !.mine = a, !.since = floor]
             e == [interested |-> 1, settled |-> FALSE, cancelled |-> FALSE, listed |-> Nothing]
  <1>0. /\ answer' = Append(answer, e) /\ asker' = [asker EXCEPT ![c] = r]
        /\ memo' = [memo EXCEPT ![q] = a] /\ version' = version /\ floor' = floor /\ asker[c].at = "idle"
    BY <1>p DEF Ask, JoinModule, Asking
  <1>a. answer \in Seq(Entries) /\ memo \in [Queries -> Nat] /\ e \in Entries /\ Len(answer) \in Nat
    BY DEF MemoInv, MemoTypes, Entries
  <1>b. /\ answer' \in Seq(Entries) /\ Len(answer') = a /\ a \in Nat /\ a \notin Answers /\ a /= None
        /\ \A b \in Answers : answer'[b] = answer[b]
        /\ answer'[a] = e
    <2> HIDE DEF e
    <2> QED BY <1>0, <1>a, <1>p DEF Answers, None
  <1>c. Answers' = Answers \cup {a} /\ e.interested = 1 /\ e.settled = FALSE /\ e.cancelled = FALSE
    BY <1>a, <1>b, <1>p DEF Answers
  <1>d. r \in Callers
    BY <1>b DEF Callers, AskerIdle, MemoInv, MemoTypes, InCall, Listeners, Listings
  <1>e. /\ r.at = "leading" /\ r.query = q /\ r.mine = a /\ r.since = floor /\ r.left = FALSE
        /\ r.got = Nothing
    BY DEF AskerIdle
  <1> HIDE DEF r, e
  <1>f. /\ asker' \in [Askers -> Callers] /\ asker'[c] = r
        /\ \A d \in Askers : d /= c => asker'[d] = asker[d] /\ Calling(d)' = Calling(d)
    BY <1>0, <1>d DEF MemoInv, MemoTypes, Calling
  <1>g. ~Calling(c) /\ Calling(c)'
    BY <1>0, <1>e, <1>f DEF Calling, InCall, Listeners
  <1>h. \A d \in Askers : Calling(d) => asker[d].mine \in Answers /\ asker[d].mine /= a
    BY <1>b DEF MemoInv, Holding
  <1>i. /\ memo' \in [Queries -> Nat] /\ memo'[q] = a
        /\ \A s \in Queries : s /= q => memo'[s] = memo[s] /\ memo[s] /= a
    BY <1>0, <1>a, <1>b DEF MemoInv, Holding, Answers, None
  <1>j. \A s \in Queries : memo[s] /= None => memo[s] \in Answers
    BY DEF MemoInv, Holding, Answers, None
  <1>1. MemoTypes'
    BY <1>0, <1>b, <1>f, <1>i DEF MemoInv, MemoTypes
  <1>2. Holding'
    <2>1. ASSUME NEW s \in Queries PROVE memo'[s] \in 0 .. Len(answer')
      <3>1. CASE s = q BY <1>b, <1>i, <3>1
      <3>2. CASE s /= q
        <4>1. memo'[s] \in 0 .. Len(answer)
          BY <1>i, <3>2 DEF MemoInv, Holding
        <4> QED BY <1>a, <1>b, <1>p, <4>1
      <3> QED BY <3>1, <3>2
    <2>2. floor \in Nat
      BY DEF MemoInv, MemoTypes
    <2>3. ASSUME NEW d \in Askers
          PROVE  /\ Calling(d)' => asker'[d].mine \in Answers' /\ asker'[d].query \in Queries /\ asker'[d].since <= floor'
                 /\ asker'[d].left => asker'[d].gone
                 /\ asker'[d].at = "following" => ~asker'[d].left
      <3>1. CASE d = c BY <1>0, <1>c, <1>e, <1>f, <2>2, <3>1
      <3>2. CASE d /= c BY <1>0, <1>c, <1>f, <3>2 DEF MemoInv, Holding
      <3> QED BY <3>1, <3>2
    <2> QED BY <2>1, <2>3 DEF Holding
  <1>3. OneLeader'
    <2>1. \A d \in Askers : asker[d].at \in Listeners \cup {"settled"} => asker[d].mine \in Answers
      BY DEF MemoInv, Holding, Calling, InCall, Listeners
    <2>2. \A d \in Askers : asker'[d].at \in Listeners => ~answer'[asker'[d].mine].settled
      <3> SUFFICES ASSUME NEW d \in Askers, asker'[d].at \in Listeners PROVE ~answer'[asker'[d].mine].settled
        OBVIOUS
      <3>1. CASE d = c BY <1>b, <1>c, <1>e, <1>f, <3>1
      <3>2. CASE d /= c BY <1>b, <1>f, <2>1, <3>2 DEF MemoInv, OneLeader
      <3> QED BY <3>1, <3>2
    <2>3. \A d \in Askers : asker'[d].at \in {"read", "listed", "settled"} => asker'[d] = asker[d]
      BY <1>e, <1>f
    <2>4. \A d \in Askers : asker'[d].at = "settled" =>
            answer'[asker'[d].mine].settled /\ asker'[d].saw = answer'[asker'[d].mine].listed
      BY <1>b, <2>1, <2>3 DEF MemoInv, OneLeader
    <2>5. \A d, u \in Askers :
            asker'[d].at \in Listeners /\ asker'[u].at \in Listeners /\ asker'[d].mine = asker'[u].mine => d = u
      <3> SUFFICES ASSUME NEW d \in Askers, NEW u \in Askers, asker'[d].at \in Listeners,
                          asker'[u].at \in Listeners, asker'[d].mine = asker'[u].mine
                   PROVE  d = u
        OBVIOUS
      <3>1. \A w \in Askers : w /= c /\ asker'[w].at \in Listeners => asker'[w].mine /= a
        BY <1>b, <1>f, <2>1
      <3> QED BY <1>e, <1>f, <3>1 DEF MemoInv, OneLeader
    <2> QED BY <2>2, <2>3, <2>4, <2>5 DEF MemoInv, OneLeader
  <1>4. Filing'
    <2>1. \A s, u \in Queries : memo'[s] /= None /\ memo'[s] = memo'[u] => s = u
      BY <1>i DEF MemoInv, Filing
    <2>2. ASSUME NEW d \in Askers, NEW s \in Queries, Calling(d)', memo'[s] = asker'[d].mine
          PROVE  asker'[d].query = s
      <3>1. CASE d = c BY <1>e, <1>f, <1>i, <2>2, <3>1
      <3>2. CASE d /= c
        <4>1. Calling(d) /\ asker'[d] = asker[d] /\ asker[d].mine /= a
          BY <1>f, <1>h, <2>2, <3>2
        <4>2. memo[s] = asker[d].mine
          BY <1>i, <2>2, <4>1
        <4> QED BY <4>1, <4>2 DEF MemoInv, Filing
      <3> QED BY <3>1, <3>2
    <2> QED BY <2>1, <2>2 DEF Filing
  <1>5. Counting'
    <2>1. Interested(a)' = {c}
      BY <1>e, <1>f, <1>g, <1>h DEF Interested
    <2>2. ASSUME NEW b \in Answers PROVE Interested(b)' = Interested(b)
      <3>1. b /= a
        BY <1>b
      <3>2. \A d \in Askers : d \in Interested(b)' <=> d \in Interested(b)
        BY <1>e, <1>f, <1>g, <3>1 DEF Interested
      <3> QED BY <3>2 DEF Interested
    <2>3. Cardinality(Interested(a)') = 1
      BY <2>1, FS_Singleton
    <2>4. answer'[a].interested = Cardinality(Interested(a)') /\ ~answer'[a].cancelled
      BY <1>b, <1>c, <2>3
    <2>5. ASSUME NEW b \in Answers
          PROVE  /\ answer'[b].interested = Cardinality(Interested(b)')
                 /\ answer'[b].cancelled /\ ~answer'[b].settled => Interested(b)' = {}
      BY <1>b, <2>2 DEF MemoInv, Counting
    <2> QED BY <1>c, <2>4, <2>5 DEF Counting
  <1>6. Abandoned'
    <2>1. ASSUME NEW d \in Askers
          PROVE  /\ asker'[d].at = "listed" /\ asker'[d].saw = Canceled => answer'[asker'[d].mine].cancelled
                 /\ asker'[d].at = "settled" /\ asker'[d].saw = Canceled => asker'[d].left
                 /\ asker'[d].at = "following" /\ answer'[asker'[d].mine].settled =>
                      answer'[asker'[d].mine].listed \in Listings \ {Canceled}
      <3>1. CASE d = c BY <1>e, <1>f, <3>1
      <3>2. CASE d /= c
        <4>1. asker[d].at \in {"listed", "following"} => asker[d].mine \in Answers
          BY DEF MemoInv, Holding, Calling, InCall, Listeners
        <4> QED BY <1>b, <1>f, <3>2, <4>1 DEF MemoInv, Abandoned
      <3> QED BY <3>1, <3>2
    <2> QED BY <2>1 DEF Abandoned
  <1>7. Fresh'
    <2>1. \A b \in Answers : \A v : Reading(b, v)' => Reading(b, v)
      BY <1>b, <1>e, <1>f DEF Reading
    <2>2. \A v : ~Reading(a, v)'
      <3>1. \A d \in Askers : asker'[d].at \in {"read", "listed"} => asker'[d].mine /= a
        BY <1>e, <1>f, <1>h DEF Calling, InCall, Listeners
      <3> QED BY <1>b, <1>c, <3>1 DEF Reading
    <2>3. ASSUME NEW s \in Queries, memo'[s] /= None, NEW v \in Versions, Reading(memo[s], v)'
          PROVE  v >= floor'
      <3>1. CASE s = q BY <1>i, <2>2, <2>3, <3>1
      <3>2. CASE s /= q BY <1>0, <1>i, <1>j, <2>1, <2>3, <3>2 DEF MemoInv, Fresh
      <3> QED BY <3>1, <3>2
    <2>4. ASSUME NEW d \in Askers, Calling(d)', NEW v \in Versions, Reading(asker[d].mine, v)'
          PROVE  v >= asker'[d].since
      <3>1. CASE d = c BY <1>e, <1>f, <2>2, <2>4, <3>1
      <3>2. CASE d /= c
        <4>1. Calling(d) /\ asker'[d] = asker[d] /\ asker[d].mine \in Answers
          BY <1>f, <2>4, <3>2 DEF MemoInv, Holding
        <4> QED BY <2>1, <2>4, <4>1 DEF MemoInv, Fresh
      <3> QED BY <3>1, <3>2
    <2> QED BY <2>3, <2>4 DEF Fresh
  <1>8. AnswersAreRight'
    <2>1. OwnCancellationOnly' /\ NothingOlderThanACommand'
      BY <1>e, <1>f, Errors DEF MemoInv, AnswersAreRight, OwnCancellationOnly, NothingOlderThanACommand, Listings
    <2>2. FiledIsAlive'
      <3> SUFFICES ASSUME NEW s \in Queries, memo'[s] /= None
                   PROVE  \/ answer'[memo'[s]].settled /\ answer'[memo'[s]].listed \in Versions
                          \/ ~answer'[memo'[s]].settled /\ ~answer'[memo'[s]].cancelled
        BY DEF FiledIsAlive
      <3>1. CASE s = q BY <1>b, <1>c, <1>i, <3>1
      <3>2. CASE s /= q BY <1>b, <1>i, <1>j, <3>2 DEF MemoInv, AnswersAreRight, FiledIsAlive
      <3> QED BY <3>1, <3>2
    <2> QED BY <2>1, <2>2 DEF AnswersAreRight
  <1> QED BY <1>1, <1>2, <1>3, <1>4, <1>5, <1>6, <1>7, <1>8 DEF MemoInv

\* A leader settles its answer; what failed is not handed to the next caller.
LEMMA Settling ==
  ASSUME MemoInv, NEW c \in Askers, LeaderSettles(c)
  PROVE  MemoInv'
  <1>p. PICK a, q, v : a = asker[c].mine /\ q = asker[c].query /\ v = asker[c].saw
    OBVIOUS
  <1> USE <1>p
  <1>0. /\ asker[c].at = "listed" /\ asker' = [asker EXCEPT ![c].at = "settled"]
        /\ answer' = [answer EXCEPT ![a] = [answer[a] EXCEPT !.listed = v, !.settled = TRUE, !.cancelled = TRUE]]
        /\ memo' = IF memo[q] = a /\ v \notin Versions THEN [memo EXCEPT ![q] = None] ELSE memo
        /\ version' = version /\ floor' = floor
    BY DEF LeaderSettles, SettleModule
  <1>a. /\ Calling(c) /\ a \in Answers /\ q \in Queries /\ answer \in Seq(Entries) /\ answer[a] \in Entries
        /\ v \in Listings /\ ~answer[a].settled /\ memo \in [Queries -> Nat]
    BY <1>0 DEF MemoInv, MemoTypes, Holding, OneLeader, Answers, Calling, InCall, Listeners
  <1>b. /\ answer' \in Seq(Entries) /\ Len(answer') = Len(answer)
        /\ \A b \in Answers : b /= a => answer'[b] = answer[b]
        /\ answer'[a] = [answer[a] EXCEPT !.listed = v, !.settled = TRUE, !.cancelled = TRUE]
    <2> DEFINE e == [answer[a] EXCEPT !.listed = v, !.settled = TRUE, !.cancelled = TRUE]
    <2>1. answer' = [answer EXCEPT ![a] = e]
      BY <1>0
    <2>2. e \in Entries
      BY <1>a, EntryUpdates
    <2> HIDE DEF e
    <2>3. /\ [answer EXCEPT ![a] = e] \in Seq(Entries) /\ Len([answer EXCEPT ![a] = e]) = Len(answer)
          /\ [answer EXCEPT ![a] = e][a] = e
          /\ \A b \in Answers : b /= a => [answer EXCEPT ![a] = e][b] = answer[b]
      BY <1>a, <2>2, SeqReplace DEF Answers
    <2> QED BY <2>1, <2>3 DEF e
  <1>c. /\ answer'[a].settled = TRUE /\ answer'[a].listed = v /\ answer'[a].cancelled = TRUE
        /\ answer'[a].interested = answer[a].interested /\ Answers' = Answers
    BY <1>a, <1>b DEF Entries, Answers
  <1>d. /\ asker' \in [Askers -> Callers]
        /\ asker'[c].at = "settled" /\ asker'[c].mine = a /\ asker'[c].query = q /\ asker'[c].saw = v
        /\ asker'[c].left = asker[c].left /\ asker'[c].gone = asker[c].gone
        /\ asker'[c].since = asker[c].since /\ asker'[c].got = asker[c].got
        /\ \A d \in Askers : d /= c => asker'[d] = asker[d]
    <2>1. asker[c] \in Callers /\ asker \in [Askers -> Callers]
      BY DEF MemoInv, MemoTypes
    <2>2. [asker[c] EXCEPT !.at = "settled"] \in Callers
      BY <2>1 DEF Callers, InCall
    <2>3. asker'[c] = [asker[c] EXCEPT !.at = "settled"]
      BY <1>0, <2>1
    <2>4. asker' \in [Askers -> Callers]
      BY <1>0, <2>1, <2>2
    <2>5. /\ asker'[c].at = "settled" /\ asker'[c].mine = a /\ asker'[c].query = q /\ asker'[c].saw = v
          /\ asker'[c].left = asker[c].left /\ asker'[c].gone = asker[c].gone
          /\ asker'[c].since = asker[c].since /\ asker'[c].got = asker[c].got
      BY <2>1, <2>3 DEF Callers
    <2> QED BY <1>0, <2>1, <2>4, <2>5
  <1>e. /\ memo' \in [Queries -> Nat]
        /\ \A s \in Queries : memo'[s] /= None => memo'[s] = memo[s] /\ memo[s] \in Answers
        /\ memo'[q] = a => v \in Versions \/ a = None
    BY <1>0, <1>a DEF MemoInv, Holding, Answers, None
  <1>f. \A d \in Askers : Calling(d)' = Calling(d) /\ asker'[d].mine = asker[d].mine
          /\ asker'[d].left = asker[d].left
    BY <1>0, <1>d DEF Calling, InCall, Listeners
  <1>g. \A d \in Askers : d /= c /\ asker[d].at \in Listeners => asker[d].mine /= a
    BY <1>0 DEF MemoInv, OneLeader, Listeners
  <1>h. \A b : Interested(b)' = Interested(b)
    BY <1>f DEF Interested
  <1>i. v = Canceled => Interested(a) = {}
    BY <1>0, <1>a DEF MemoInv, Abandoned, Counting
  <1>j. \A d \in Askers : asker[d].at = "settled" => asker[d].mine /= a
    BY <1>a DEF MemoInv, OneLeader
  <1>k. \A d \in Askers : Calling(d) => asker[d].mine \in Answers
    BY DEF MemoInv, Holding
  <1>l. \A d \in Askers : asker[d].at \in Listeners \cup {"settled", "following"} => Calling(d)
    BY DEF Calling, InCall
  <1>1. MemoTypes'
    BY <1>0, <1>b, <1>d, <1>e DEF MemoInv, MemoTypes
  <1>2. Holding'
    <2>1. \A s \in Queries : memo'[s] \in 0 .. Len(answer')
      <3> SUFFICES ASSUME NEW s \in Queries PROVE memo'[s] \in 0 .. Len(answer')
        OBVIOUS
      <3>1. CASE memo'[s] = None BY <1>b, <3>1 DEF None, MemoTypes, MemoInv
      <3>2. CASE memo'[s] /= None BY <1>b, <1>e, <3>2 DEF Answers
      <3> QED BY <3>1, <3>2
    <2>2. ASSUME NEW d \in Askers
          PROVE  /\ Calling(d)' => asker'[d].mine \in Answers' /\ asker'[d].query \in Queries /\ asker'[d].since <= floor'
                 /\ asker'[d].left => asker'[d].gone
                 /\ asker'[d].at = "following" => ~asker'[d].left
      <3>1. CASE d = c BY <1>0, <1>a, <1>c, <1>d, <3>1 DEF MemoInv, Holding
      <3>2. CASE d /= c BY <1>0, <1>c, <1>d, <1>f, <3>2 DEF MemoInv, Holding
      <3> QED BY <3>1, <3>2
    <2> QED BY <2>1, <2>2 DEF Holding
  <1>3. OneLeader'
    <2>1. \A d \in Askers : asker'[d].at \in Listeners => d /= c /\ asker'[d] = asker[d] /\ asker[d].mine \in Answers /\ asker[d].mine /= a
      BY <1>d, <1>g, <1>k, <1>l DEF Listeners
    <2>2. \A d \in Askers : asker'[d].at \in Listeners => ~answer'[asker'[d].mine].settled
      BY <1>b, <2>1 DEF MemoInv, OneLeader
    <2>3. ASSUME NEW d \in Askers, asker'[d].at = "settled"
          PROVE  answer'[asker'[d].mine].settled /\ asker'[d].saw = answer'[asker'[d].mine].listed
      <3>1. CASE d = c BY <1>c, <1>d, <3>1
      <3>2. CASE d /= c BY <1>b, <1>d, <1>j, <1>k, <1>l, <2>3, <3>2 DEF MemoInv, OneLeader
      <3> QED BY <3>1, <3>2
    <2>4. \A d \in Askers : asker'[d].at \in {"read", "listed", "settled"} => asker'[d].saw \in Listings
      BY <1>a, <1>d DEF MemoInv, OneLeader
    <2>5. \A d \in Askers : asker'[d].at = "read" => asker'[d].saw /= Canceled
      BY <1>d DEF MemoInv, OneLeader
    <2>6. \A d, u \in Askers :
            asker'[d].at \in Listeners /\ asker'[u].at \in Listeners /\ asker'[d].mine = asker'[u].mine => d = u
      BY <2>1 DEF MemoInv, OneLeader
    <2> QED BY <2>2, <2>3, <2>4, <2>5, <2>6 DEF OneLeader
  <1>4. Filing'
    <2>1. \A s, u \in Queries : memo'[s] /= None /\ memo'[s] = memo'[u] => s = u
      BY <1>e DEF MemoInv, Filing
    <2>2. ASSUME NEW d \in Askers, NEW s \in Queries, Calling(d)', memo'[s] = asker'[d].mine
          PROVE  asker'[d].query = s
      <3>1. Calling(d) /\ asker'[d].mine = asker[d].mine /\ asker'[d].query = asker[d].query
        BY <1>d, <1>f, <2>2
      <3>2. asker[d].mine /= None
        BY <1>k, <3>1 DEF Answers, None
      <3> QED BY <1>e, <2>2, <3>1, <3>2 DEF MemoInv, Filing
    <2> QED BY <2>1, <2>2 DEF Filing
  <1>5. Counting'
    <2>1. ASSUME NEW b \in Answers
          PROVE  /\ answer'[b].interested = Cardinality(Interested(b)')
                 /\ answer'[b].cancelled /\ ~answer'[b].settled => Interested(b)' = {}
      <3>1. CASE b = a BY <1>c, <1>h, <3>1 DEF MemoInv, Counting
      <3>2. CASE b /= a BY <1>b, <1>h, <3>2 DEF MemoInv, Counting
      <3> QED BY <3>1, <3>2
    <2> QED BY <1>c, <2>1 DEF Counting
  <1>6. Abandoned'
    <2>1. ASSUME NEW d \in Askers, asker'[d].at = "listed", asker'[d].saw = Canceled
          PROVE  answer'[asker'[d].mine].cancelled
      <3>1. d /= c /\ asker'[d] = asker[d]
        BY <1>d, <2>1
      <3>2. asker[d].mine \in Answers
        BY <1>k, <1>l, <2>1, <3>1 DEF Listeners
      <3>3. answer[asker[d].mine].cancelled
        BY <2>1, <3>1 DEF MemoInv, Abandoned
      <3> QED BY <1>b, <1>c, <3>1, <3>2, <3>3
    <2>2. ASSUME NEW d \in Askers, asker'[d].at = "settled", asker'[d].saw = Canceled
          PROVE  asker'[d].left
      <3>1. CASE d = c
        BY <1>a, <1>d, <1>i, <2>2, <3>1 DEF Interested
      <3>2. CASE d /= c BY <1>d, <2>2, <3>2 DEF MemoInv, Abandoned
      <3> QED BY <3>1, <3>2
    <2>3. ASSUME NEW d \in Askers, asker'[d].at = "following", answer'[asker'[d].mine].settled
          PROVE  answer'[asker'[d].mine].listed \in Listings \ {Canceled}
      <3>0. d /= c /\ asker'[d] = asker[d] /\ Calling(d) /\ asker[d].mine \in Answers /\ ~asker[d].left
        BY <1>d, <1>k, <1>l, <2>3 DEF MemoInv, Holding
      <3>1. CASE asker[d].mine = a
        <4>1. v /= Canceled
          BY <1>i, <3>0, <3>1 DEF Interested
        <4> QED BY <1>a, <1>c, <3>0, <3>1, <4>1
      <3>2. CASE asker[d].mine /= a
        BY <1>b, <2>3, <3>0, <3>2 DEF MemoInv, Abandoned
      <3> QED BY <3>1, <3>2
    <2> QED BY <2>1, <2>2, <2>3 DEF Abandoned
  <1>7. Fresh'
    <2>1. ASSUME NEW b \in Answers, NEW u, Reading(b, u)' PROVE Reading(b, u)
      <3>1. CASE b = a /\ u = v BY <1>0, <3>1 DEF Reading
      <3>2. CASE b = a /\ u /= v
        <4>1. PICK d \in Askers : asker'[d].at \in {"read", "listed"} /\ asker'[d].mine = a /\ asker'[d].saw = u
          BY <1>c, <2>1, <3>2 DEF Reading
        <4> QED BY <1>d, <1>g, <4>1 DEF Listeners
      <3>3. CASE b /= a BY <1>b, <1>d, <2>1, <3>3 DEF Reading
      <3> QED BY <3>1, <3>2, <3>3
    <2>2. ASSUME NEW s \in Queries, memo'[s] /= None, NEW u \in Versions, Reading(memo[s], u)'
          PROVE  u >= floor'
      BY <1>0, <1>e, <2>1, <2>2 DEF MemoInv, Fresh
    <2>3. ASSUME NEW d \in Askers, Calling(d)', NEW u \in Versions, Reading(asker[d].mine, u)'
          PROVE  u >= asker'[d].since
      <3>1. Calling(d) /\ asker'[d].mine = asker[d].mine /\ asker'[d].since = asker[d].since /\ asker[d].mine \in Answers
        BY <1>d, <1>f, <1>k, <2>3
      <3> QED BY <2>1, <2>3, <3>1 DEF MemoInv, Fresh
    <2> QED BY <2>2, <2>3 DEF Fresh
  <1>8. AnswersAreRight'
    <2>1. OwnCancellationOnly' /\ NothingOlderThanACommand'
      BY <1>d DEF MemoInv, AnswersAreRight, OwnCancellationOnly, NothingOlderThanACommand
    <2>2. FiledIsAlive'
      <3> SUFFICES ASSUME NEW s \in Queries, memo'[s] /= None
                   PROVE  \/ answer'[memo'[s]].settled /\ answer'[memo'[s]].listed \in Versions
                          \/ ~answer'[memo'[s]].settled /\ ~answer'[memo'[s]].cancelled
        BY DEF FiledIsAlive
      <3>1. memo'[s] = memo[s] /\ memo[s] \in Answers
        BY <1>e
      <3>2. CASE memo[s] = a
        <4>1. s = q
          BY <1>a, <3>2 DEF MemoInv, Filing
        <4> QED BY <1>c, <1>e, <3>1, <3>2, <4>1
      <3>3. CASE memo[s] /= a
        BY <1>b, <3>1, <3>3 DEF MemoInv, AnswersAreRight, FiledIsAlive
      <3> QED BY <3>2, <3>3
    <2> QED BY <2>1, <2>2 DEF AnswersAreRight
  <1> QED BY <1>1, <1>2, <1>3, <1>4, <1>5, <1>6, <1>7, <1>8 DEF MemoInv

\* The memo starts empty.
LEMMA MemoInvInit == MemoInit => MemoInv
  <1> SUFFICES ASSUME MemoInit PROVE MemoInv
    OBVIOUS
  <1>0. AskerIdle \in Callers /\ AskerIdle.at = "idle" /\ AskerIdle.left = FALSE /\ AskerIdle.got = Nothing
    BY DEF AskerIdle, Callers, None
  <1>1. \A c \in Askers : asker[c] = AskerIdle /\ ~Calling(c) /\ asker[c].at \notin Listeners
    BY <1>0 DEF MemoInit, Calling, InCall, Listeners
  <1>2. \A q \in Queries : memo[q] = None
    BY DEF MemoInit
  <1>3. answer = <<>> /\ <<>> \in Seq(Entries) /\ Len(<<>>) = 0 /\ Answers = {}
    BY DEF MemoInit, Answers
  <1>4. MemoTypes
    <2>1. memo \in [Queries -> Nat]
      BY DEF MemoInit, None
    <2>2. version \in Versions /\ floor \in Nat /\ floor <= version
      BY MemoAssumption DEF MemoInit, Versions
    <2> QED BY <1>0, <1>3, <2>1, <2>2 DEF MemoInit, MemoTypes
  <1>5. Holding /\ OneLeader /\ Filing /\ Counting /\ Abandoned /\ Fresh
    BY <1>0, <1>1, <1>2, <1>3 DEF Holding, OneLeader, Filing, Counting, Abandoned, Fresh, None
  <1>6. AnswersAreRight
    BY <1>0, <1>1, <1>2, Errors
    DEF AnswersAreRight, OwnCancellationOnly, NothingOlderThanACommand, FiledIsAlive, Listings
  <1> QED BY <1>4, <1>5, <1>6 DEF MemoInv

\* A caller that leaves the call has a record of the declared shape.
LEMMA Returned ==
  ASSUME MemoTypes, NEW c \in Askers, NEW got \in Listings \cup {Nothing}
  PROVE  LET r == [AskerIdle EXCEPT !.at = "answered", !.got = got, !.gone = asker[c].gone, !.since = asker[c].since]
         IN r \in Callers /\ r.at = "answered" /\ r.left = FALSE /\ r.got = got /\ r.gone = asker[c].gone /\ r.since = asker[c].since
  BY DEF AskerIdle, Callers, MemoTypes, None

\* Every step of a caller keeps the promise.
LEMMA AskerStep ==
  ASSUME MemoInv, NEW c \in Askers, AskerNext(c)
  PROVE  MemoInv'
  <1>0. /\ asker[c] \in Callers /\ MemoTypes
        /\ Calling(c) => asker[c].mine \in Answers
    BY DEF MemoInv, MemoTypes, Holding
  <1>i. {"following", "leading", "read", "listed", "settled"} \subseteq InCall /\ "answered" \notin InCall /\ "idle" \notin InCall
    BY DEF InCall, Listeners
  <1>1. ASSUME NEW q \in Queries, Ask(c, q) PROVE MemoInv'
    BY <1>1, JoiningShared, JoiningNew
  <1>2. CASE AskerGoes(c)
    <2>1. [asker[c] EXCEPT !.gone = TRUE] \in Callers
      BY <1>0 DEF Callers
    <2> QED BY <1>2, <2>1, Onward DEF AskerGoes
  <1>3. CASE FollowerAnswered(c)
    <2> PICK a : a = asker[c].mine
      OBVIOUS
    <2>1. Calling(c) /\ a \in Answers /\ answer[a].settled /\ ~asker[c].left
      BY <1>0, <1>3, <1>i DEF FollowerAnswered, Calling, MemoInv, Holding
    <2>2. answer[a].listed \in Listings \ {Canceled}
      BY <1>3, <2>1 DEF FollowerAnswered, MemoInv, Abandoned
    <2>3. answer[a].listed \in Versions => answer[a].listed >= asker[c].since
      BY <2>1 DEF MemoInv, Fresh, Reading
    <2> PICK r : r = [AskerIdle EXCEPT !.at = "answered", !.got = answer[a].listed,
                                       !.gone = asker[c].gone, !.since = asker[c].since]
      OBVIOUS
    <2>4. /\ r \in Callers /\ r.at = "answered" /\ r.left = FALSE /\ r.got = answer[a].listed
          /\ r.gone = asker[c].gone /\ r.since = asker[c].since
      BY <1>0, <2>2, Returned, ZenonT(40)
    <2>5. asker' = [asker EXCEPT ![c] = r] /\ UNCHANGED <<version, floor>>
          /\ LeaveModule(asker[c].query, asker[c].mine)
      BY <1>3 DEF FollowerAnswered, AskerReturns
    <2> QED BY <2>1, <2>2, <2>3, <2>4, <2>5, Leaving
  <1>4. CASE FollowerGives(c)
    <2>1. Calling(c) /\ ~asker[c].left
      BY <1>4, <1>i DEF FollowerGives, Calling, MemoInv, Holding
    <2> PICK r : r = [AskerIdle EXCEPT !.at = "answered", !.got = Canceled,
                                       !.gone = asker[c].gone, !.since = asker[c].since]
      OBVIOUS
    <2>2. /\ r \in Callers /\ r.at = "answered" /\ r.left = FALSE /\ r.got = Canceled
          /\ r.gone = asker[c].gone /\ r.since = asker[c].since
      BY <1>0, Errors, Returned
    <2>3. /\ asker' = [asker EXCEPT ![c] = r] /\ UNCHANGED <<version, floor>> /\ asker[c].gone
          /\ LeaveModule(asker[c].query, asker[c].mine)
      BY <1>4 DEF FollowerGives, AskerReturns
    <2> QED BY <2>1, <2>2, <2>3, Leaving, Errors
  <1>5. CASE LeaderWatched(c)
    <2>1. Calling(c) /\ ~asker[c].left /\ asker[c].gone /\ asker[c].at /= "following"
      BY <1>5, <1>i DEF LeaderWatched, Calling
    <2>2. [asker[c] EXCEPT !.left = TRUE] \in Callers
      BY <1>0 DEF Callers
    <2> QED BY <1>5, <2>1, <2>2, Leaving DEF LeaderWatched
  <1>6. CASE ListingReads(c)
    <2> PICK s : s = IF AskAllowed THEN version ELSE Refused
      OBVIOUS
    <2>1. s \in Listings /\ s /= Canceled /\ (s \in Versions => s = version)
      BY <1>0, Errors DEF MemoTypes
    <2>2. [asker[c] EXCEPT !.at = "read", !.saw = s] \in Callers
      BY <1>0, <1>i, <2>1 DEF Callers
    <2>3. /\ asker' = [asker EXCEPT ![c] = [asker[c] EXCEPT !.at = "read", !.saw = s]]
          /\ asker[c].at = "leading" /\ UNCHANGED <<memo, answer, version, floor>>
      BY <1>6 DEF ListingReads
    <2> QED BY <2>1, <2>2, <2>3, Onward
  <1>7. CASE ListingEnds(c)
    <2>1. PICK s \in IF asker[c].saw = Refused THEN {Refused}
                     ELSE IF answer[asker[c].mine].cancelled THEN {Canceled}
                     ELSE {asker[c].saw, Failed} :
            asker' = [asker EXCEPT ![c].at = "listed", ![c].saw = s]
      BY <1>7 DEF ListingEnds
    <2>2. asker[c].at = "read" /\ asker[c].saw \in Listings /\ asker[c].saw /= Canceled
      BY <1>7 DEF ListingEnds, MemoInv, OneLeader
    <2>3. /\ s \in Listings /\ (s = Canceled => answer[asker[c].mine].cancelled)
          /\ s \in Versions => s = asker[c].saw
      BY <2>1, <2>2, Errors
    <2>4. [asker[c] EXCEPT !.at = "listed", !.saw = s] \in Callers
      BY <1>0, <1>i, <2>3 DEF Callers
    <2>5. /\ asker' = [asker EXCEPT ![c] = [asker[c] EXCEPT !.at = "listed", !.saw = s]]
          /\ UNCHANGED <<memo, answer, version, floor>>
      BY <1>7, <2>1 DEF ListingEnds
    <2> QED BY <2>2, <2>3, <2>4, <2>5, Onward
  <1>8. CASE LeaderSettles(c) BY <1>8, Settling
  <1>9. CASE LeaderReturns(c)
    <2>1. Calling(c) /\ asker[c].at = "settled" /\ asker[c].saw \in Listings
      BY <1>9, <1>i DEF LeaderReturns, Calling, MemoInv, OneLeader
    <2>2. asker[c].saw = Canceled => asker[c].gone
      BY <2>1 DEF MemoInv, Abandoned, Holding
    <2>3. asker[c].saw \in Versions => asker[c].saw >= asker[c].since
      BY <2>1 DEF MemoInv, Fresh, Reading, OneLeader
    <2> PICK r : r = [AskerIdle EXCEPT !.at = "answered", !.got = asker[c].saw,
                                       !.gone = asker[c].gone, !.since = asker[c].since]
      OBVIOUS
    <2>4. /\ r \in Callers /\ r.at = "answered" /\ r.left = FALSE /\ r.got = asker[c].saw
          /\ r.gone = asker[c].gone /\ r.since = asker[c].since
      BY <1>0, <2>1, Returned
    <2>5. asker' = [asker EXCEPT ![c] = r] /\ UNCHANGED <<version, floor>>
      BY <1>9 DEF LeaderReturns, AskerReturns
    <2>6. CASE asker[c].left
      <3>1. UNCHANGED <<memo, answer>>
        BY <1>9, <2>6 DEF LeaderReturns
      <3> QED BY <2>2, <2>3, <2>4, <2>5, <2>6, <3>1, Onward
    <2>7. CASE ~asker[c].left
      <3>1. LeaveModule(asker[c].query, asker[c].mine)
        BY <1>9, <2>7 DEF LeaderReturns
      <3> QED BY <2>1, <2>2, <2>3, <2>4, <2>5, <2>7, <3>1, Leaving
    <2> QED BY <2>6, <2>7
  <1>10. CASE AskerDone(c)
    <2>1. AskerIdle \in Callers /\ AskerIdle.at = "idle" /\ AskerIdle.left = FALSE /\ AskerIdle.got = Nothing
      BY DEF AskerIdle, Callers, None
    <2>2. ~Calling(c)
      BY <1>10, <1>i DEF AskerDone, Calling
    <2> QED BY <1>10, <2>1, <2>2, Onward, Errors DEF AskerDone, Listings
  <1> QED BY <1>1, <1>2, <1>3, <1>4, <1>5, <1>6, <1>7, <1>8, <1>9, <1>10 DEF AskerNext

\* Every step keeps the promise.
LEMMA MemoStep == MemoInv /\ [MemoNext]_memoVars => MemoInv'
  <1> SUFFICES ASSUME MemoInv, [MemoNext]_memoVars PROVE MemoInv'
    OBVIOUS
  <1>0. version \in Versions /\ version \in Nat /\ floor \in Nat /\ floor <= version
    BY Errors DEF MemoInv, MemoTypes
  <1>1. ASSUME NEW x \in Commands, CommandStarts(x) \/ CommandWrites(x) \/ CommandReturns(x) PROVE MemoInv'
    <2>1. CASE CommandStarts(x) BY <1>0, <2>1, Around DEF CommandStarts
    <2>2. CASE CommandWrites(x)
      <3>1. version' \in Versions /\ floor <= version'
        BY <1>0, <2>2, MemoAssumption DEF CommandWrites, Versions
      <3> QED BY <1>0, <2>2, <3>1, Around DEF CommandWrites
    <2>3. CASE CommandReturns(x) BY <1>0, <2>3, Around DEF CommandReturns
    <2> QED BY <1>1, <2>1, <2>2, <2>3
  <1>2. CASE PreparationFails BY <1>0, <1>2, Around DEF PreparationFails
  <1>3. CASE CloseForgets BY <1>0, <1>3, Around DEF CloseForgets
  <1>4. CASE UNCHANGED memoVars BY <1>0, <1>4, Around DEF memoVars
  <1> QED BY <1>1, <1>2, <1>3, <1>4, AskerStep DEF MemoNext

\* What ties a call to its answer holds throughout, for any callers, queries
\* and commands: Module, joinModule, leaveModule and settleModule (module.go).
THEOREM MemoInvariant == MemoSpec => []MemoInv
  BY MemoInvInit, MemoStep, PTL DEF MemoSpec

\* A call of Module is never answered with somebody else's cancellation, nor
\* with a listing made before a command that had returned when it began, and
\* what is filed is alive.
THEOREM AnswersRight == MemoSpec => []AnswersAreRight
  <1>1. MemoInv => AnswersAreRight
    BY DEF MemoInv
  <1> QED BY <1>1, MemoInvariant, PTL

-----------------------------------------------------------------------------
(* Runner: however the exit, the limits and the cancellation race, what Run  *)
(* reports is what happened to the tree.                                    *)

Stages == {"start", "select", "grace", "await", "stopping", "done"}
Results == [exit : {"unavailable", "none", "success", "failure", "signal"}, timedOut : BOOLEAN,
            memory : BOOLEAN, peak : Nat, error : BOOLEAN]

\* The state is of the declared shape.
RunnerTypes ==
  /\ box \in [platform : Platforms, limit : Limits, timeout : BOOLEAN,
              deaf : SUBSET Processes, pipe : BOOLEAN]
  /\ proc \in [Processes -> {"none", "running", "gone"}]
  /\ status \in {"none", "success", "failure", "signal"}
  /\ exited \in BOOLEAN /\ exceeded \in BOOLEAN
  /\ used \in Nat /\ high \in Nat /\ peak \in Nat
  /\ stage \in Stages
  /\ killed \in {"no", "timeout", "memory", "cancel"}
  /\ ran \in Results

\* Nothing runs before the start; the leader has a status from its end on; Wait
\* has returned only once it is gone, and Run goes on only then.
LeaderInv ==
  /\ stage = "start" => \A p \in Processes : proc[p] = "none"
  /\ stage \in {"select", "grace", "await", "stopping"} => proc["leader"] # "none"
  /\ proc["leader"] = "gone" => status # "none"
  /\ exited => proc["leader"] = "gone"
  /\ stage = "stopping" => exited
  /\ stage = "done" => proc["leader"] # "running"

\* A signal of the runner has its reason, and the reason is the first one.
SignalInv ==
  /\ stage \in {"start", "select"} => killed = "no"
  /\ stage \in {"grace", "await"} => killed # "no"
  /\ killed = "no" /\ stage # "done" => status # "signal"

\* What was sampled was in use, and the bound is exceeded only by what was.
MemoryInv ==
  /\ used <= high /\ peak <= high
  /\ exceeded => box.limit > 0 /\ high > box.limit
  /\ killed = "memory" => exceeded

\* Nothing is left of a tree that was ended at once, or that no member of is
\* deaf to a signal.
TreeInv ==
  /\ killed # "no" /\ (killed = "memory" \/ box.deaf = {} \/ Job) => Alive = {}
  /\ stage = "done" /\ Job => Alive = {}

\* What Run has returned.
ReportInv == ExitIsTheChilds /\ MemoryVerdictIsEarned

RunnerInv ==
  RunnerTypes /\ LeaderInv /\ SignalInv /\ MemoryInv /\ TreeInv /\ ReportInv

\* What Run reports as the peak is a number.
LEMMA PeakType == ASSUME RunnerTypes PROVE PeakOf \in Nat
  BY DEF RunnerTypes, PeakOf

\* Every step keeps the declared shape.
LEMMA TypesStep ==
  ASSUME RunnerTypes, [RunnerNext]_runnerVars
  PROVE  RunnerTypes'
  <1> USE RunnerAssumption DEF Processes, Alive, treeVars, clockVars, watchVars, runVars, RunnerTypes, Stages, Results
  <1>1. CASE Spawn  BY <1>1 DEF Spawn
  <1>2. CASE \E p \in Processes : ExitByItself(p)  BY <1>2 DEF ExitByItself
  <1>3. CASE Allocate  BY <1>3 DEF Allocate, Reachable
  <1>4. CASE TimePasses  BY <1>4 DEF TimePasses
  <1>5. CASE ContextEnds  BY <1>5 DEF ContextEnds
  <1>6. CASE WaitCollects  BY <1>6 DEF WaitCollects
  <1>7. CASE WaitGivesUp  BY <1>7 DEF WaitGivesUp
  <1>8. CASE Sample
    <2>1. UsedMemory \in Nat  BY DEF UsedMemory
    <2>2. peak' \in Nat /\ exceeded' \in BOOLEAN  BY <1>8, <2>1 DEF Sample, TakeSample
    <2> QED BY <1>8, <2>2 DEF Sample
  <1>9. CASE WarmUpEnds  BY <1>9 DEF WarmUpEnds
  <1>10. CASE SamplerStops  BY <1>10 DEF SamplerStops
  <1>11. CASE RunRefuses
    <2> PICK error \in BOOLEAN : ran' = [NoResult EXCEPT !.error = error]
      BY <1>11 DEF RunRefuses
    <2> ran' \in Results  BY DEF NoResult
    <2> QED BY <1>11 DEF RunRefuses
  <1>12. CASE AdoptFails  BY <1>12 DEF AdoptFails, NoResult
  <1>13. CASE RunStarts  BY <1>13 DEF RunStarts
  <1>14. CASE SelectExited  BY <1>14 DEF SelectExited
  <1>15. CASE SelectTimeout  BY <1>15 DEF SelectTimeout, Terminate, End
  <1>16. CASE SelectMemory  BY <1>16 DEF SelectMemory, Terminate, End
  <1>17. CASE SelectCancel  BY <1>17 DEF SelectCancel, Terminate, End
  <1>18. CASE GraceExited  BY <1>18 DEF GraceExited
  <1>19. CASE GraceOver  BY <1>19 DEF GraceOver, End
  <1>20. CASE Awaited  BY <1>20 DEF Awaited
  <1>21. CASE RunEnds
    <2> DEFINE exit == IF killed = "no" THEN status ELSE "unavailable"
    <2>1. ran' = [exit |-> exit, timedOut |-> killed = "timeout",
                  memory |-> killed = "memory" \/ ExceededAtExit(PeakOf, exit),
                  peak |-> PeakOf, error |-> FALSE]
      BY <1>21 DEF RunEnds
    <2>2. (killed = "timeout") \in BOOLEAN /\ (killed = "memory" \/ ExceededAtExit(PeakOf, exit)) \in BOOLEAN
      BY DEF ExceededAtExit
    <2>3. ran' \in Results  BY <2>1, <2>2, PeakType
    <2>4. proc' \in [Processes -> {"none", "running", "gone"}] /\ status' \in {"none", "success", "failure", "signal"}
      BY <1>21 DEF RunEnds, End
    <2> QED BY <1>21, <2>3, <2>4 DEF RunEnds, End
  <1>22. CASE UNCHANGED runnerVars  BY <1>22 DEF runnerVars
  <1> QED
    BY <1>1, <1>2, <1>3, <1>4, <1>5, <1>6, <1>7, <1>8, <1>9, <1>10, <1>11, <1>12,
         <1>13, <1>14, <1>15, <1>16, <1>17, <1>18, <1>19, <1>20, <1>21, <1>22
    DEF RunnerNext

\* Every step preserves what is known of the leader.
LEMMA LeaderStep ==
  ASSUME RunnerTypes, LeaderInv, [RunnerNext]_runnerVars
  PROVE  LeaderInv'
  <1> USE RunnerAssumption DEF Processes, Alive, treeVars, clockVars, watchVars, runVars, LeaderInv
  <1> proc \in [Processes -> {"none", "running", "gone"}]  BY DEF RunnerTypes
  <1>1. CASE Spawn  BY <1>1 DEF Spawn
  <1>2. CASE \E p \in Processes : ExitByItself(p)  BY <1>2 DEF ExitByItself
  <1>3. CASE Allocate  BY <1>3 DEF Allocate, Reachable
  <1>4. CASE TimePasses  BY <1>4 DEF TimePasses
  <1>5. CASE ContextEnds  BY <1>5 DEF ContextEnds
  <1>6. CASE WaitCollects  BY <1>6 DEF WaitCollects
  <1>7. CASE WaitGivesUp  BY <1>7 DEF WaitGivesUp
  <1>8. CASE Sample  BY <1>8 DEF Sample, TakeSample, UsedMemory, SamplingSupported
  <1>9. CASE WarmUpEnds  BY <1>9 DEF WarmUpEnds
  <1>10. CASE SamplerStops  BY <1>10 DEF SamplerStops
  <1>11. CASE RunRefuses  BY <1>11 DEF RunRefuses, NoResult
  <1>12. CASE AdoptFails  BY <1>12 DEF AdoptFails, NoResult
  <1>13. CASE RunStarts  BY <1>13 DEF RunStarts
  <1>14. CASE SelectExited  BY <1>14 DEF SelectExited
  <1>15. CASE SelectTimeout  BY <1>15 DEF SelectTimeout, Terminate, End
  <1>16. CASE SelectMemory  BY <1>16 DEF SelectMemory, Terminate, End
  <1>17. CASE SelectCancel  BY <1>17 DEF SelectCancel, Terminate, End
  <1>18. CASE GraceExited  BY <1>18 DEF GraceExited
  <1>19. CASE GraceOver  BY <1>19 DEF GraceOver, End
  <1>20. CASE Awaited  BY <1>20 DEF Awaited
  <1>21. CASE RunEnds  BY <1>21 DEF RunEnds, End
  <1>22. CASE UNCHANGED runnerVars  BY <1>22 DEF runnerVars
  <1> QED
    BY <1>1, <1>2, <1>3, <1>4, <1>5, <1>6, <1>7, <1>8, <1>9, <1>10, <1>11, <1>12,
         <1>13, <1>14, <1>15, <1>16, <1>17, <1>18, <1>19, <1>20, <1>21, <1>22
    DEF RunnerNext

\* Every step preserves what is known of the signals.
LEMMA SignalStep ==
  ASSUME RunnerTypes, LeaderInv, SignalInv, [RunnerNext]_runnerVars
  PROVE  SignalInv'
  <1> USE RunnerAssumption DEF Processes, Alive, treeVars, clockVars, watchVars, runVars, SignalInv
  <1> stage \in Stages  BY DEF RunnerTypes
  <1>1. CASE Spawn  BY <1>1 DEF Spawn
  <1>2. CASE \E p \in Processes : ExitByItself(p)  BY <1>2 DEF ExitByItself
  <1>3. CASE Allocate  BY <1>3 DEF Allocate, Reachable
  <1>4. CASE TimePasses  BY <1>4 DEF TimePasses
  <1>5. CASE ContextEnds  BY <1>5 DEF ContextEnds
  <1>6. CASE WaitCollects  BY <1>6 DEF WaitCollects
  <1>7. CASE WaitGivesUp  BY <1>7 DEF WaitGivesUp
  <1>8. CASE Sample  BY <1>8 DEF Sample, TakeSample, UsedMemory, SamplingSupported
  <1>9. CASE WarmUpEnds  BY <1>9 DEF WarmUpEnds
  <1>10. CASE SamplerStops  BY <1>10 DEF SamplerStops
  <1>11. CASE RunRefuses  BY <1>11 DEF RunRefuses, NoResult
  <1>12. CASE AdoptFails  BY <1>12 DEF AdoptFails, NoResult
  <1>13. CASE RunStarts  BY <1>13 DEF RunStarts
  <1>14. CASE SelectExited  BY <1>14 DEF SelectExited
  <1>15. CASE SelectTimeout  BY <1>15 DEF SelectTimeout, Terminate, End
  <1>16. CASE SelectMemory  BY <1>16 DEF SelectMemory, Terminate, End
  <1>17. CASE SelectCancel  BY <1>17 DEF SelectCancel, Terminate, End
  <1>18. CASE GraceExited  BY <1>18 DEF GraceExited
  <1>19. CASE GraceOver  BY <1>19 DEF GraceOver, End
  <1>20. CASE Awaited  BY <1>20 DEF Awaited
  <1>21. CASE RunEnds  BY <1>21 DEF RunEnds, End
  <1>22. CASE UNCHANGED runnerVars  BY <1>22 DEF runnerVars
  <1> QED
    BY <1>1, <1>2, <1>3, <1>4, <1>5, <1>6, <1>7, <1>8, <1>9, <1>10, <1>11, <1>12,
         <1>13, <1>14, <1>15, <1>16, <1>17, <1>18, <1>19, <1>20, <1>21, <1>22
    DEF RunnerNext

\* Every step preserves what is known of the memory.
LEMMA MemoryStep ==
  ASSUME RunnerTypes, SignalInv, MemoryInv, [RunnerNext]_runnerVars
  PROVE  MemoryInv'
  <1> USE RunnerAssumption DEF Processes, Alive, treeVars, clockVars, watchVars, runVars, MemoryInv
  <1> used \in Nat /\ high \in Nat /\ peak \in Nat /\ box.limit \in Nat /\ MaxUse \in Nat
    BY DEF RunnerTypes
  <1>1. CASE Spawn  BY <1>1 DEF Spawn
  <1>2. CASE \E p \in Processes : ExitByItself(p)  BY <1>2 DEF ExitByItself
  <1>3. CASE Allocate  BY <1>3 DEF Allocate, Reachable
  <1>4. CASE TimePasses  BY <1>4 DEF TimePasses
  <1>5. CASE ContextEnds  BY <1>5 DEF ContextEnds
  <1>6. CASE WaitCollects  BY <1>6 DEF WaitCollects
  <1>7. CASE WaitGivesUp  BY <1>7 DEF WaitGivesUp
  <1>8. CASE Sample  BY <1>8 DEF Sample, TakeSample, UsedMemory, SamplingSupported
  <1>9. CASE WarmUpEnds  BY <1>9 DEF WarmUpEnds
  <1>10. CASE SamplerStops  BY <1>10 DEF SamplerStops
  <1>11. CASE RunRefuses  BY <1>11 DEF RunRefuses, NoResult
  <1>12. CASE AdoptFails  BY <1>12 DEF AdoptFails, NoResult
  <1>13. CASE RunStarts  BY <1>13 DEF RunStarts
  <1>14. CASE SelectExited  BY <1>14 DEF SelectExited
  <1>15. CASE SelectTimeout  BY <1>15 DEF SelectTimeout, Terminate, End
  <1>16. CASE SelectMemory  BY <1>16 DEF SelectMemory, Terminate, End
  <1>17. CASE SelectCancel  BY <1>17 DEF SelectCancel, Terminate, End
  <1>18. CASE GraceExited  BY <1>18 DEF GraceExited
  <1>19. CASE GraceOver  BY <1>19 DEF GraceOver, End
  <1>20. CASE Awaited  BY <1>20 DEF Awaited
  <1>21. CASE RunEnds  BY <1>21 DEF RunEnds, End
  <1>22. CASE UNCHANGED runnerVars  BY <1>22 DEF runnerVars
  <1> QED
    BY <1>1, <1>2, <1>3, <1>4, <1>5, <1>6, <1>7, <1>8, <1>9, <1>10, <1>11, <1>12,
         <1>13, <1>14, <1>15, <1>16, <1>17, <1>18, <1>19, <1>20, <1>21, <1>22
    DEF RunnerNext

\* Every step leaves a tree that was ended with nothing in it.
LEMMA TreeStep ==
  ASSUME RunnerTypes, LeaderInv, SignalInv, TreeInv, [RunnerNext]_runnerVars
  PROVE  TreeInv'
  <1> USE RunnerAssumption DEF Processes, Alive, treeVars, clockVars, watchVars, runVars, TreeInv
  <1> /\ proc \in [Processes -> {"none", "running", "gone"}]
      /\ box.deaf \subseteq Processes
    BY DEF RunnerTypes
  <1> USE DEF Job, LeaderInv, SignalInv
  <1>1. CASE Spawn  BY <1>1 DEF Spawn
  <1>2. CASE \E p \in Processes : ExitByItself(p)  BY <1>2 DEF ExitByItself
  <1>3. CASE Allocate  BY <1>3 DEF Allocate, Reachable
  <1>4. CASE TimePasses  BY <1>4 DEF TimePasses
  <1>5. CASE ContextEnds  BY <1>5 DEF ContextEnds
  <1>6. CASE WaitCollects  BY <1>6 DEF WaitCollects
  <1>7. CASE WaitGivesUp  BY <1>7 DEF WaitGivesUp
  <1>8. CASE Sample  BY <1>8 DEF Sample, TakeSample, UsedMemory, SamplingSupported
  <1>9. CASE WarmUpEnds  BY <1>9 DEF WarmUpEnds
  <1>10. CASE SamplerStops  BY <1>10 DEF SamplerStops
  <1>11. CASE RunRefuses  BY <1>11 DEF RunRefuses, NoResult
  <1>12. CASE AdoptFails  BY <1>12 DEF AdoptFails, NoResult
  <1>13. CASE RunStarts  BY <1>13 DEF RunStarts
  <1>14. CASE SelectExited  BY <1>14 DEF SelectExited
  <1>15. CASE SelectTimeout  BY <1>15 DEF SelectTimeout, Terminate, End
  <1>16. CASE SelectMemory  BY <1>16 DEF SelectMemory, Terminate, End
  <1>17. CASE SelectCancel  BY <1>17 DEF SelectCancel, Terminate, End
  <1>18. CASE GraceExited  BY <1>18 DEF GraceExited
  <1>19. CASE GraceOver  BY <1>19 DEF GraceOver, End
  <1>20. CASE Awaited  BY <1>20 DEF Awaited
  <1>21. CASE RunEnds  BY <1>21 DEF RunEnds, End
  <1>22. CASE UNCHANGED runnerVars  BY <1>22 DEF runnerVars
  <1> QED
    BY <1>1, <1>2, <1>3, <1>4, <1>5, <1>6, <1>7, <1>8, <1>9, <1>10, <1>11, <1>12,
         <1>13, <1>14, <1>15, <1>16, <1>17, <1>18, <1>19, <1>20, <1>21, <1>22
    DEF RunnerNext

\* Every step leaves what Run has returned true.
LEMMA ReportStep ==
  ASSUME RunnerInv, [RunnerNext]_runnerVars
  PROVE  ReportInv'
  <1> USE RunnerAssumption DEF Processes, Alive, treeVars, clockVars, watchVars, runVars, ReportInv, ExitIsTheChilds, MemoryVerdictIsEarned
  <1> /\ stage = "done" =>
           /\ ran.exit \in {"unavailable", "success", "failure"}
           /\ ran.exit # "unavailable" => ~ran.timedOut
           /\ ran.memory => box.limit > 0 /\ high > box.limit
      /\ high \in Nat /\ box.limit \in Nat /\ stage \in Stages
    BY DEF RunnerInv, RunnerTypes
  <1>1. CASE Spawn  BY <1>1 DEF Spawn
  <1>2. CASE \E p \in Processes : ExitByItself(p)  BY <1>2 DEF ExitByItself
  <1>3. CASE Allocate
    <2>1. stage # "done" /\ UNCHANGED <<stage, box, ran>>  BY <1>3 DEF Allocate
    <2> QED BY <2>1
  <1>4. CASE TimePasses  BY <1>4 DEF TimePasses
  <1>5. CASE ContextEnds  BY <1>5 DEF ContextEnds
  <1>6. CASE WaitCollects  BY <1>6 DEF WaitCollects
  <1>7. CASE WaitGivesUp  BY <1>7 DEF WaitGivesUp
  <1>8. CASE Sample  BY <1>8 DEF Sample, TakeSample, UsedMemory, SamplingSupported
  <1>9. CASE WarmUpEnds  BY <1>9 DEF WarmUpEnds
  <1>10. CASE SamplerStops  BY <1>10 DEF SamplerStops
  <1>11. CASE RunRefuses  BY <1>11 DEF RunRefuses, NoResult
  <1>12. CASE AdoptFails  BY <1>12 DEF AdoptFails, NoResult
  <1>13. CASE RunStarts  BY <1>13 DEF RunStarts
  <1>14. CASE SelectExited  BY <1>14 DEF SelectExited
  <1>15. CASE SelectTimeout  BY <1>15 DEF SelectTimeout, Terminate, End
  <1>16. CASE SelectMemory  BY <1>16 DEF SelectMemory, Terminate, End
  <1>17. CASE SelectCancel  BY <1>17 DEF SelectCancel, Terminate, End
  <1>18. CASE GraceExited  BY <1>18 DEF GraceExited
  <1>19. CASE GraceOver  BY <1>19 DEF GraceOver, End
  <1>20. CASE Awaited  BY <1>20 DEF Awaited
  <1>21. CASE RunEnds
    <2> DEFINE exit == IF killed = "no" THEN status ELSE "unavailable"
    <2>1. /\ ran'.exit = exit /\ ran'.timedOut = (killed = "timeout")
          /\ ran'.memory = (killed = "memory" \/ ExceededAtExit(PeakOf, exit))
      BY <1>21 DEF RunEnds
    <2>2. stage = "stopping" /\ UNCHANGED <<box, high>>
      BY <1>21 DEF RunEnds, End
    <2>3. killed = "no" => exit \in {"success", "failure"}
      BY <2>2 DEF RunnerInv, RunnerTypes, LeaderInv, SignalInv
    <2>4. killed = "memory" => box.limit > 0 /\ high > box.limit
      BY DEF RunnerInv, MemoryInv
    <2>5. ExceededAtExit(PeakOf, exit) => box.limit > 0 /\ high > box.limit
      <3>1. PeakOf <= high  BY DEF PeakOf, RunnerInv, MemoryInv, RunnerTypes
      <3>2. PeakOf \in Nat  BY PeakType DEF RunnerInv
      <3> QED BY <3>1, <3>2 DEF ExceededAtExit
    <2> QED BY <2>1, <2>2, <2>3, <2>4, <2>5
  <1>22. CASE UNCHANGED runnerVars  BY <1>22 DEF runnerVars
  <1> QED
    BY <1>1, <1>2, <1>3, <1>4, <1>5, <1>6, <1>7, <1>8, <1>9, <1>10, <1>11, <1>12,
         <1>13, <1>14, <1>15, <1>16, <1>17, <1>18, <1>19, <1>20, <1>21, <1>22
    DEF RunnerNext

LEMMA RunnerInitially == RunnerInit => RunnerInv
  <1> SUFFICES ASSUME RunnerInit PROVE RunnerInv  OBVIOUS
  <1> USE RunnerAssumption DEF RunnerInit, Processes
  <1>1. RunnerTypes
    <2> ran \in Results  BY DEF NoResult, Results
    <2> QED BY DEF RunnerTypes, Stages
  <1>2. LeaderInv /\ SignalInv  BY DEF LeaderInv, SignalInv
  <1>3. MemoryInv /\ TreeInv  BY DEF MemoryInv, TreeInv, Alive
  <1>4. ReportInv  BY DEF ReportInv, ExitIsTheChilds, MemoryVerdictIsEarned
  <1> QED BY <1>1, <1>2, <1>3, <1>4 DEF RunnerInv

\* The invariant holds in every reachable state, on any of the platforms.
THEOREM RunnerCorrect == RunnerSpec => []RunnerInv
  <1>1. RunnerInv /\ [RunnerNext]_runnerVars => RunnerInv'
    BY TypesStep, LeaderStep, SignalStep, MemoryStep, TreeStep, ReportStep DEF RunnerInv
  <1> QED BY RunnerInitially, <1>1, PTL DEF RunnerSpec

\* Whatever comes first, and whatever comes before Run has looked: an exit
\* status is the child's own, a memory verdict is of a tree that was over its
\* bound, and what outlives Run is what its signals could not reach (Run,
\* terminate, exceededAtExit).
THEOREM VerdictRight == RunnerSpec => []VerdictIsTheTrees
  <1>1. RunnerInv => VerdictIsTheTrees
    <2> SUFFICES ASSUME RunnerInv PROVE VerdictIsTheTrees  OBVIOUS
    <2>1. ExitIsTheChilds /\ MemoryVerdictIsEarned  BY DEF RunnerInv, ReportInv
    <2>2. OutliversAreKnown
      BY DEF RunnerInv, LeaderInv, TreeInv, OutliversAreKnown, Alive, Processes
    <2> QED BY <2>1, <2>2 DEF VerdictIsTheTrees
  <1> QED BY <1>1, RunnerCorrect, PTL

-----------------------------------------------------------------------------
(* Resource: a lease is of a provider that is ready, and of nobody else's.   *)

Targeted == [at : {"idle", "waiting", "woken", "starting", "leased", "stopping", "done"},
             instance : Nat, channel : Nat]

\* The state is of the declared shape.
ResourceTypes ==
  /\ kind \in {"shared", "exclusive", "own"} /\ mu \in Targets \cup {"free"}
  /\ target \in [Targets -> Targeted]
  /\ provider \in [Instances -> {"unused", "starting", "ready", "stopping", "gone"}]
  /\ refs \in [Instances -> Int] /\ active \subseteq Instances /\ sharedNow \in Nat
  /\ closed \in BOOLEAN /\ changed \in Nat /\ nextID \in 0 .. MaxInstances
  /\ closing \in [at : {"idle", "stopping", "closed"}, left : SUBSET Instances]

Leased(t, i) == target[t].at = "leased" /\ target[t].instance = i
Stopping(t, i) == target[t].at = "stopping" /\ target[t].instance = i
Lessees(i) == {t \in Targets : Leased(t, i)}
Living(i) == provider[i] \in {"starting", "ready", "stopping"}

\* Who starts a provider holds the mutex, and only it knows the provider.
Starting ==
  /\ \A t \in Targets : target[t].at = "starting" <=> mu = t
  /\ \A t \in Targets : target[t].at = "starting" =>
       target[t].instance \in Instances /\ provider[target[t].instance] = "starting"
  /\ \A i \in Instances : provider[i] = "starting" =>
       \E t \in Targets : target[t].at = "starting" /\ target[t].instance = i
  /\ \A i \in Instances : i > nextID <=> provider[i] = "unused"
  /\ \A i \in active : provider[i] \in {"ready", "stopping", "gone"}
  /\ closed => mu = "free"

\* While the manager is open its count of a provider is the count of the
\* leases, and the last one to go is the one that stops it.
Leasing ==
  /\ \A t \in Targets, i \in Instances : Leased(t, i) \/ Stopping(t, i) => provider[i] /= "unused"
  /\ \A t \in Targets : target[t].at \in {"leased", "stopping"} =>
       target[t].instance \in Instances /\ (~closed => target[t].instance \in active)
  /\ \A i \in active : refs[i] = Cardinality(Lessees(i))
  /\ \A i \in active : refs[i] = 0 => \E t \in Targets : Stopping(t, i)
  /\ \A t \in Targets, i \in active : Stopping(t, i) => refs[i] = 0
  /\ \A t, u \in Targets, i \in active : Stopping(t, i) /\ Stopping(u, i) => t = u

\* A provider to share is leased.
Shelf == sharedNow /= 0 => kind = "shared" /\ sharedNow \in active /\ refs[sharedNow] /= 0

\* A provider that lives is active, until Close takes them all in hand.
Hands ==
  /\ \A i \in Instances : Living(i) => provider[i] = "starting" \/ i \in active \/ i \in closing.left
  /\ closed <=> closing.at /= "idle"
  /\ closed => active = {} /\ sharedNow = 0
  /\ closing.at = "closed" => closing.left = {}
  /\ closing.at = "idle" => closing.left = {}

Alone == kind = "exclusive" => \A i, j \in Instances : Living(i) /\ Living(j) => i = j

Waiters == \A t \in Targets : target[t].at = "waiting" =>
             target[t].channel <= changed /\ (target[t].channel = changed => active /= {})

LeasedAreReady ==
  ~closed => \A t \in Targets : target[t].at = "leased" => provider[target[t].instance] = "ready"

ResourceInv ==
  /\ ResourceTypes /\ Starting /\ Leasing /\ Shelf /\ Hands /\ Alone /\ Waiters /\ LeasedAreReady

-----------------------------------------------------------------------------

Where == {"idle", "waiting", "woken", "starting", "leased", "stopping", "done"}

\* A step that moves one target moves no other.
LEMMA Moves ==
  ASSUME ResourceTypes, NEW t \in Targets, NEW to \in Where, NEW i \in Nat, NEW c \in Nat,
         target' = [target EXCEPT ![t] = [at |-> to, instance |-> i, channel |-> c]]
  PROVE  /\ target' \in [Targets -> Targeted]
         /\ target'[t].at = to /\ target'[t].instance = i /\ target'[t].channel = c
         /\ \A u \in Targets : u /= t => target'[u] = target[u]
  BY DEF ResourceTypes, Targeted, Where

\* A target that goes elsewhere keeps its instance and its channel.
LEMMA Goes ==
  ASSUME ResourceTypes, NEW t \in Targets, NEW to \in Where, TargetGoes(t, to)
  PROVE  /\ target' \in [Targets -> Targeted]
         /\ target'[t].at = to /\ target'[t].instance = target[t].instance
         /\ target'[t].channel = target[t].channel
         /\ \A u \in Targets : u /= t => target'[u] = target[u]
  <1>1. target[t] \in Targeted
    BY DEF ResourceTypes
  <1>2. [target[t] EXCEPT !.at = to] = [at |-> to, instance |-> target[t].instance, channel |-> target[t].channel]
    BY <1>1 DEF Targeted
  <1>3. target' = [target EXCEPT ![t] = [at |-> to, instance |-> target[t].instance, channel |-> target[t].channel]]
    BY <1>2 DEF TargetGoes
  <1> QED BY <1>1, <1>3, Moves, ZenonT(40) DEF Targeted

\* A target that takes a provider in hand keeps its channel.
LEMMA Takes ==
  ASSUME ResourceTypes, NEW t \in Targets, NEW to \in Where, NEW i \in Nat,
         target' = [target EXCEPT ![t].at = to, ![t].instance = i]
  PROVE  /\ target' \in [Targets -> Targeted] /\ target'[t].at = to /\ target'[t].instance = i
         /\ \A u \in Targets : u /= t => target'[u] = target[u]
  <1>1. target \in [Targets -> Targeted] /\ target[t] \in Targeted
    BY DEF ResourceTypes
  <1>2. \A e \in Targeted : LET f == [[e EXCEPT !.at = to] EXCEPT !.instance = i]
                           IN f \in Targeted /\ f.at = to /\ f.instance = i
    BY DEF Targeted, Where
  <1>3. /\ target' \in [Targets -> Targeted] /\ target'[t] = [[target[t] EXCEPT !.at = to] EXCEPT !.instance = i]
        /\ \A u \in Targets : u /= t => target'[u] = target[u]
    BY <1>1, <1>2
  <1> QED BY <1>1, <1>2, <1>3

\* The lessees of a provider are finitely many, and counted one by one.
LEMMA Counted ==
  ASSUME NEW S, S \subseteq Targets
  PROVE  /\ IsFiniteSet(S) /\ Cardinality(S) \in Nat
         /\ Cardinality(S) = 0 <=> S = {}
         /\ \A t \in Targets : t \notin S => Cardinality(S \cup {t}) = Cardinality(S) + 1
         /\ \A t \in S : Cardinality(S \ {t}) = Cardinality(S) - 1
  <1>1. IsFiniteSet(S)
    BY ResourceAssumption, FS_Subset
  <1>2. Cardinality(S) \in Nat /\ (Cardinality(S) = 0 <=> S = {})
    BY <1>1, FS_CardinalityType, FS_EmptySet
  <1>3. \A t \in Targets : t \notin S => Cardinality(S \cup {t}) = Cardinality(S) + 1
    BY <1>1, FS_AddElement
  <1>4. \A t \in S : Cardinality(S \ {t}) = Cardinality(S) - 1
    BY <1>1, FS_RemoveElement
  <1> QED BY <1>1, <1>2, <1>3, <1>4

\* With the mutex free no provider is starting.
LEMMA NoneStarting ==
  ASSUME ResourceInv, mu = "free"
  PROVE  /\ \A t \in Targets : target[t].at /= "starting"
         /\ \A i \in Instances : provider[i] /= "starting"
  BY ResourceAssumption DEF ResourceInv, Starting

\* The target that releases a provider for the last time is alone with it.
LEMMA LastOne ==
  ASSUME ResourceInv, NEW t \in Targets, NEW i \in active, Stopping(t, i)
  PROVE  /\ refs[i] = 0 /\ Lessees(i) = {}
         /\ \A u \in Targets : ~Leased(u, i) /\ (Stopping(u, i) => u = t)
  <1>1. i \in Instances /\ refs[i] = 0 /\ refs[i] = Cardinality(Lessees(i))
    BY DEF ResourceInv, ResourceTypes, Leasing
  <1>2. Lessees(i) = {}
    BY <1>1, Counted DEF Lessees
  <1>3. \A u \in Targets : Stopping(u, i) => u = t
    BY DEF ResourceInv, Leasing
  <1> QED BY <1>1, <1>2, <1>3 DEF Lessees

THEOREM ResourceInitially == ResourceInit => ResourceInv
  <1> SUFFICES ASSUME ResourceInit PROVE ResourceInv
    OBVIOUS
  <1> USE DEF ResourceInit, Target0, Instances
  <1>1. ResourceTypes
    <2>1. target \in [Targets -> Targeted]
      BY DEF Targeted
    <2>2. closing \in [at : {"idle", "stopping", "closed"}, left : SUBSET Instances]
      OBVIOUS
    <2>3. /\ kind \in {"shared", "exclusive", "own"} /\ mu \in Targets \cup {"free"}
          /\ active \subseteq Instances /\ closed \in BOOLEAN
      OBVIOUS
    <2>5. provider \in [Instances -> {"unused", "starting", "ready", "stopping", "gone"}]
      OBVIOUS
    <2>6. refs \in [Instances -> Int]
      OBVIOUS
    <2>4. sharedNow \in Nat /\ changed \in Nat /\ nextID \in 0 .. MaxInstances
      BY ResourceAssumption
    <2> QED BY <2>1, <2>2, <2>3, <2>4, <2>5, <2>6 DEF ResourceTypes
  <1>2. Starting
    BY ResourceAssumption DEF Starting
  <1>3. Leasing
    BY DEF Leasing, Leased, Stopping
  <1>4. Shelf /\ Hands /\ Alone /\ Waiters /\ LeasedAreReady
    BY DEF Shelf, Hands, Alone, Waiters, LeasedAreReady, Living
  <1> QED BY <1>1, <1>2, <1>3, <1>4 DEF ResourceInv

-----------------------------------------------------------------------------

\* Acquire ends, or waits, or its channel was closed, without a provider.
LEMMA InvAside ==
  ASSUME ResourceInv, NEW t \in Targets, target' \in [Targets -> Targeted],
         target[t].at \in {"idle", "woken", "waiting"}, target'[t].at \in {"woken", "done", "waiting"},
         target'[t].at = "waiting" => target'[t].channel = changed /\ active /= {},
         \A u \in Targets : u /= t => target'[u] = target[u],
         UNCHANGED <<kind, mu, provider, refs, active, sharedNow, closed, changed, nextID, closing>>
  PROVE  ResourceInv'
  <1>a. \A u \in Targets, i \in Instances : /\ Leased(u, i)' <=> Leased(u, i)
                                            /\ Stopping(u, i)' <=> Stopping(u, i)
    BY DEF Leased, Stopping
  <1>b. \A i \in Instances : Lessees(i)' = Lessees(i)
    BY <1>a DEF Lessees
  <1>1. ResourceTypes'
    BY DEF ResourceInv, ResourceTypes
  <1>2. Starting'
    BY DEF ResourceInv, Starting
  <1>3. Leasing'
    <2>1. \A u \in Targets : target'[u].at \in {"leased", "stopping"} => target'[u] = target[u]
      OBVIOUS
    <2>2. active \subseteq Instances
      BY DEF ResourceInv, ResourceTypes
    <2>3. \A u \in Targets, i \in Instances : Leased(u, i)' \/ Stopping(u, i)' => provider[i] /= "unused"
      BY <1>a DEF ResourceInv, Leasing
    <2>4. \A u \in Targets : target'[u].at \in {"leased", "stopping"} =>
            target'[u].instance \in Instances /\ (~closed => target'[u].instance \in active)
      BY <2>1 DEF ResourceInv, Leasing
    <2> QED BY <1>a, <1>b, <2>2, <2>3, <2>4 DEF ResourceInv, Leasing
  <1>4. Shelf' /\ Hands' /\ Alone'
    BY DEF ResourceInv, Shelf, Hands, Alone, Living
  <1>5. Waiters'
    BY DEF ResourceInv, ResourceTypes, Waiters
  <1>6. LeasedAreReady'
    BY DEF ResourceInv, LeasedAreReady
  <1> QED BY <1>1, <1>2, <1>3, <1>4, <1>5, <1>6 DEF ResourceInv

\* Acquire joins a shared provider: one lease more.
LEMMA InvJoins ==
  ASSUME ResourceInv, NEW t \in Targets, target[t].at \in {"idle", "woken"}, ~closed, sharedNow /= 0,
         refs' = [refs EXCEPT ![sharedNow] = @ + 1],
         target' = [target EXCEPT ![t].at = "leased", ![t].instance = sharedNow],
         UNCHANGED <<kind, mu, provider, active, sharedNow, closed, changed, nextID, closing>>
  PROVE  ResourceInv'
  <1>a. /\ kind = "shared" /\ sharedNow \in active /\ refs[sharedNow] /= 0
        /\ active \subseteq Instances /\ refs \in [Instances -> Int]
    BY DEF ResourceInv, Shelf, ResourceTypes
  <1>b. /\ target' \in [Targets -> Targeted] /\ target'[t].at = "leased" /\ target'[t].instance = sharedNow
        /\ \A u \in Targets : u /= t => target'[u] = target[u]
    BY Takes DEF ResourceInv, ResourceTypes, Where
  <1>c. \A u \in Targets, i \in Instances : /\ Leased(u, i)' <=> Leased(u, i) \/ (u = t /\ i = sharedNow)
                                            /\ Stopping(u, i)' <=> Stopping(u, i)
    BY <1>b DEF Leased, Stopping
  <1>d. \A i \in Instances : Lessees(i)' = IF i = sharedNow THEN Lessees(i) \cup {t} ELSE Lessees(i)
    BY <1>c DEF Lessees
  <1>e. \A i \in Instances : refs'[i] = IF i = sharedNow THEN refs[i] + 1 ELSE refs[i]
    BY <1>a
  <1>f. \A i \in active : refs'[i] = Cardinality(Lessees(i)') /\ (refs'[i] = 0 <=> refs[i] = 0)
    <2> TAKE i \in active
    <2>1. refs[i] = Cardinality(Lessees(i)) /\ i \in Instances
      BY <1>a DEF ResourceInv, Leasing
    <2>2. Lessees(i) \subseteq Targets /\ t \notin Lessees(i)
      BY DEF Lessees, Leased
    <2>3. Cardinality(Lessees(i)) \in Nat /\ Cardinality(Lessees(i) \cup {t}) = Cardinality(Lessees(i)) + 1
      BY <2>2, Counted
    <2>4. CASE i = sharedNow
      <3>1. refs'[i] = refs[i] + 1 /\ Lessees(i)' = Lessees(i) \cup {t}
        BY <1>d, <1>e, <2>1, <2>4
      <3> QED BY <1>a, <2>1, <2>3, <2>4, <3>1
    <2>5. CASE i /= sharedNow
      BY <1>d, <1>e, <2>1, <2>5
    <2> QED BY <2>4, <2>5
  <1>1. ResourceTypes'
    <2>1. refs' \in [Instances -> Int]
      BY <1>a
    <2> QED BY <1>b, <2>1 DEF ResourceInv, ResourceTypes
  <1>2. Starting'
    BY <1>b DEF ResourceInv, Starting
  <1>3. Leasing'
    <2>1. \A u \in Targets, i \in Instances : Leased(u, i)' \/ Stopping(u, i)' => provider'[i] /= "unused"
      BY <1>a, <1>c DEF ResourceInv, Starting, Leasing
    <2>2. \A u \in Targets : target'[u].at \in {"leased", "stopping"} =>
            target'[u].instance \in Instances /\ (~closed' => target'[u].instance \in active')
      BY <1>a, <1>b DEF ResourceInv, Leasing
    <2>3. \A i \in active' : refs'[i] = 0 => \E u \in Targets : Stopping(u, i)'
      BY <1>a, <1>c, <1>f DEF ResourceInv, Leasing
    <2>4. \A u \in Targets, i \in active' : Stopping(u, i)' => refs'[i] = 0
      BY <1>a, <1>c, <1>f DEF ResourceInv, Leasing
    <2>5. \A u, v \in Targets, i \in active' : Stopping(u, i)' /\ Stopping(v, i)' => u = v
      BY <1>a, <1>c DEF ResourceInv, Leasing
    <2>6. \A i \in active' : refs'[i] = Cardinality(Lessees(i)')
      BY <1>f
    <2> QED BY <2>1, <2>2, <2>3, <2>4, <2>5, <2>6 DEF Leasing
  <1>4. Shelf'
    BY <1>a, <1>f DEF Shelf
  <1>5. Hands' /\ Alone'
    BY DEF ResourceInv, Hands, Alone, Living
  <1>6. Waiters'
    BY <1>b DEF ResourceInv, Waiters
  <1>7. LeasedAreReady'
    <2>1. ~\E u \in Targets : Stopping(u, sharedNow)
      BY <1>a DEF ResourceInv, Leasing
    <2>2. \E u \in Targets : Leased(u, sharedNow)
      <3>1. refs[sharedNow] = Cardinality(Lessees(sharedNow))
        BY <1>a DEF ResourceInv, Leasing
      <3>2. Lessees(sharedNow) /= {}
        BY <1>a, <3>1, Counted DEF Lessees
      <3> QED BY <3>2 DEF Lessees
    <2>3. provider[sharedNow] = "ready"
      BY <2>2 DEF ResourceInv, LeasedAreReady, Leased
    <2> QED BY <1>b, <2>3 DEF ResourceInv, LeasedAreReady
  <1> QED BY <1>1, <1>2, <1>3, <1>4, <1>5, <1>6, <1>7 DEF ResourceInv

\* Acquire starts a provider and keeps the mutex while it does.
LEMMA InvStarts ==
  ASSUME ResourceInv, NEW t \in Targets, target[t].at \in {"idle", "woken"}, mu = "free", ~closed,
         ~(kind = "exclusive" /\ active /= {}), nextID < MaxInstances, nextID' = nextID + 1,
         provider' = [provider EXCEPT ![nextID + 1] = "starting"],
         target' = [target EXCEPT ![t].at = "starting", ![t].instance = nextID + 1], mu' = t,
         UNCHANGED <<kind, refs, active, sharedNow, closed, changed, closing>>
  PROVE  ResourceInv'
  <1>0. PICK new : new = nextID + 1
    OBVIOUS
  <1>a. /\ new \in Instances /\ provider[new] = "unused" /\ new \in Nat
        /\ \A i \in Instances : i > new => i > nextID
        /\ \A i \in Instances : i > nextID => i > new \/ i = new
    BY <1>0, ResourceAssumption DEF ResourceInv, ResourceTypes, Starting, Instances
  <1>b. /\ target' \in [Targets -> Targeted] /\ target'[t].at = "starting" /\ target'[t].instance = new
        /\ \A u \in Targets : u /= t => target'[u] = target[u]
    BY <1>0, <1>a, Takes DEF ResourceInv, Where
  <1>c. /\ provider' \in [Instances -> {"unused", "starting", "ready", "stopping", "gone"}]
        /\ provider'[new] = "starting" /\ \A i \in Instances : i /= new => provider'[i] = provider[i]
    BY <1>0, <1>a DEF ResourceInv, ResourceTypes
  <1>d. \A u \in Targets, i \in Instances : /\ Leased(u, i)' <=> Leased(u, i)
                                            /\ Stopping(u, i)' <=> Stopping(u, i)
    BY <1>b DEF Leased, Stopping
  <1>e. \A i \in Instances : Lessees(i)' = Lessees(i)
    BY <1>d DEF Lessees
  <1>f. /\ new \notin active /\ active \subseteq Instances
        /\ \A i \in Instances : provider[i] /= "starting"
        /\ \A u \in Targets : target[u].at /= "starting" /\ mu /= u
    BY <1>a, NoneStarting, ResourceAssumption DEF ResourceInv, ResourceTypes, Starting
  <1>1. ResourceTypes'
    <2>1. nextID' \in 0 .. MaxInstances
      BY <1>0, <1>a, ResourceAssumption DEF Instances
    <2> QED BY <1>b, <1>c, <2>1 DEF ResourceInv, ResourceTypes
  <1>2. Starting'
    <2>1. \A u \in Targets : target'[u].at = "starting" <=> u = t
      BY <1>b, <1>f
    <2>2. \A i \in Instances : provider'[i] = "starting" <=> i = new
      BY <1>c, <1>f
    <2>3. \A i \in Instances : i > nextID' <=> provider'[i] = "unused"
      <3>1. \A i \in Instances : i > nextID <=> provider[i] = "unused"
        BY DEF ResourceInv, Starting
      <3>2. ~(new > new)
        BY <1>a
      <3> QED BY <1>0, <1>a, <1>c, <3>1, <3>2
    <2>4. \A i \in active' : provider'[i] \in {"ready", "stopping", "gone"}
      BY <1>c, <1>f DEF ResourceInv, Starting
    <2> QED BY <1>a, <1>b, <2>1, <2>2, <2>3, <2>4 DEF ResourceInv, Starting
  <1>3. Leasing'
    <2>1. \A u \in Targets, i \in Instances : Leased(u, i)' \/ Stopping(u, i)' => provider'[i] /= "unused"
      BY <1>c, <1>d DEF ResourceInv, Leasing
    <2>2. \A u \in Targets : target'[u].at \in {"leased", "stopping"} =>
            target'[u].instance \in Instances /\ (~closed' => target'[u].instance \in active')
      BY <1>b DEF ResourceInv, Leasing
    <2>3. \A i \in active' : refs'[i] = 0 => \E u \in Targets : Stopping(u, i)'
      BY <1>d, <1>f DEF ResourceInv, Leasing
    <2>4. \A u \in Targets, i \in active' : Stopping(u, i)' => refs'[i] = 0
      BY <1>d, <1>f DEF ResourceInv, Leasing
    <2>5. \A u, v \in Targets, i \in active' : Stopping(u, i)' /\ Stopping(v, i)' => u = v
      BY <1>d, <1>f DEF ResourceInv, Leasing
    <2>6. \A i \in active' : refs'[i] = Cardinality(Lessees(i)')
      BY <1>e, <1>f DEF ResourceInv, Leasing
    <2> QED BY <2>1, <2>2, <2>3, <2>4, <2>5, <2>6 DEF Leasing
  <1>4. Shelf'
    BY DEF ResourceInv, Shelf
  <1>5. Hands'
    BY <1>c DEF ResourceInv, Hands, Living
  <1>6. Alone'
    <2>1. kind = "exclusive" => \A i \in Instances : ~Living(i)
      BY <1>f DEF ResourceInv, Hands
    <2> QED BY <1>c, <2>1 DEF Alone, Living
  <1>7. Waiters'
    BY <1>b DEF ResourceInv, Waiters
  <1>8. LeasedAreReady'
    <2>1. \A u \in Targets : target'[u].at = "leased" => u /= t /\ target[u].instance /= new /\ target[u].instance \in Instances
      BY <1>b, <1>f DEF ResourceInv, Leasing
    <2> QED BY <1>b, <1>c, <2>1 DEF ResourceInv, LeasedAreReady
  <1> QED BY <1>1, <1>2, <1>3, <1>4, <1>5, <1>6, <1>7, <1>8 DEF ResourceInv

\* start: the provider is ready, and its first lease counted.
LEMMA InvStartReady ==
  ASSUME ResourceInv, NEW t \in Targets, StartReady(t)
  PROVE  ResourceInv'
  <1>0. PICK new : new = target[t].instance
    OBVIOUS
  <1>a. /\ target[t].at = "starting" /\ new \in Instances /\ provider[new] = "starting" /\ mu = t /\ mu' = "free"
        /\ provider' = [provider EXCEPT ![new] = "ready"] /\ refs' = [refs EXCEPT ![new] = 1]
        /\ active' = active \cup {new} /\ sharedNow' = IF kind = "shared" THEN new ELSE sharedNow
        /\ UNCHANGED <<kind, closed, changed, nextID, closing>>
    BY <1>0 DEF StartReady, ResourceInv, Starting
  <1>b. /\ target' \in [Targets -> Targeted] /\ target'[t].at = "leased" /\ target'[t].instance = new
        /\ \A u \in Targets : u /= t => target'[u] = target[u]
    BY <1>0, Goes DEF StartReady, ResourceInv, Where
  <1>c. /\ provider' \in [Instances -> {"unused", "starting", "ready", "stopping", "gone"}]
        /\ refs' \in [Instances -> Int] /\ provider'[new] = "ready" /\ refs'[new] = 1
        /\ \A i \in Instances : i /= new => provider'[i] = provider[i] /\ refs'[i] = refs[i]
    BY <1>a DEF ResourceInv, ResourceTypes
  <1>d. /\ \A u \in Targets : u /= t => target[u].at /= "starting"
        /\ ~closed /\ new \notin active /\ active \subseteq Instances
        /\ \A i \in Instances : provider[i] = "starting" => i = new
    <2>1. \A u \in Targets : target[u].at = "starting" => u = t
      BY <1>a DEF ResourceInv, Starting
    <2>2. ~closed
      BY <1>a, ResourceAssumption DEF ResourceInv, Starting
    <2>3. new \notin active
      BY <1>a DEF ResourceInv, Starting
    <2>4. \A i \in Instances : provider[i] = "starting" => i = new
      BY <1>0, <2>1 DEF ResourceInv, Starting
    <2> QED BY <2>1, <2>2, <2>3, <2>4 DEF ResourceInv, ResourceTypes
  <1>e. \A u \in Targets : target[u].at \in {"leased", "stopping"} =>
          u /= t /\ target[u].instance /= new /\ target[u].instance \in active
    BY <1>a, <1>d DEF ResourceInv, Leasing
  <1>f. \A u \in Targets, i \in Instances : /\ Leased(u, i)' <=> Leased(u, i) \/ (u = t /\ i = new)
                                            /\ Stopping(u, i)' <=> Stopping(u, i)
    BY <1>a, <1>b DEF Leased, Stopping
  <1>g. Lessees(new)' = {t} /\ \A i \in Instances : i /= new => Lessees(i)' = Lessees(i)
    <2>1. \A u \in Targets : ~Leased(u, new)
      BY <1>e DEF Leased
    <2> QED BY <1>a, <1>f, <2>1 DEF Lessees
  <1>1. ResourceTypes'
    <2>1. mu' \in Targets \cup {"free"} /\ active' \subseteq Instances /\ sharedNow' \in Nat
      BY <1>a, <1>d, ResourceAssumption DEF ResourceInv, ResourceTypes, Instances
    <2> QED BY <1>a, <1>b, <1>c, <2>1 DEF ResourceInv, ResourceTypes
  <1>2. Starting'
    <2>1. \A u \in Targets : target'[u].at /= "starting" /\ mu' /= u
      BY <1>a, <1>b, <1>d, ResourceAssumption
    <2>2. \A i \in Instances : provider'[i] /= "starting"
      BY <1>c, <1>d
    <2>3. \A i \in Instances : i > nextID' <=> provider'[i] = "unused"
      BY <1>a, <1>c DEF ResourceInv, Starting
    <2>4. \A i \in active' : provider'[i] \in {"ready", "stopping", "gone"}
      BY <1>a, <1>c, <1>d DEF ResourceInv, Starting
    <2> QED BY <1>a, <2>1, <2>2, <2>3, <2>4 DEF Starting
  <1>3. Leasing'
    <2>1. \A u \in Targets, i \in Instances : Leased(u, i)' \/ Stopping(u, i)' => provider'[i] /= "unused"
      BY <1>c, <1>f DEF ResourceInv, Leasing
    <2>2. \A u \in Targets : target'[u].at \in {"leased", "stopping"} =>
            target'[u].instance \in Instances /\ (~closed' => target'[u].instance \in active')
      BY <1>a, <1>b, <1>d, <1>e
    <2>3. \A i \in active' : refs'[i] = Cardinality(Lessees(i)')
      <3>1. Cardinality({t}) = 1
        BY FS_Singleton
      <3>2. \A i \in active : i /= new /\ refs'[i] = Cardinality(Lessees(i)')
        BY <1>c, <1>d, <1>g DEF ResourceInv, Leasing
      <3> QED BY <1>a, <1>c, <1>g, <3>1, <3>2
    <2>4. \A i \in active' : refs'[i] = 0 => \E u \in Targets : Stopping(u, i)'
      BY <1>a, <1>c, <1>d, <1>f DEF ResourceInv, Leasing
    <2>5. \A u \in Targets, i \in active' : Stopping(u, i)' => i \in active
      BY <1>a, <1>e, <1>f DEF Stopping
    <2>6. \A u \in Targets, i \in active' : Stopping(u, i)' => refs'[i] = 0
      BY <1>c, <1>d, <1>f, <2>5 DEF ResourceInv, Leasing
    <2>7. \A u, v \in Targets, i \in active' : Stopping(u, i)' /\ Stopping(v, i)' => u = v
      BY <1>d, <1>f, <2>5 DEF ResourceInv, Leasing
    <2> QED BY <2>1, <2>2, <2>3, <2>4, <2>6, <2>7 DEF Leasing
  <1>4. Shelf'
    BY <1>a, <1>c, <1>d DEF ResourceInv, Shelf
  <1>5. Hands'
    BY <1>a, <1>c, <1>d DEF ResourceInv, Hands, Living
  <1>6. Alone'
    BY <1>a, <1>c DEF ResourceInv, Alone, Living
  <1>7. Waiters'
    BY <1>a, <1>b DEF ResourceInv, Waiters
  <1>8. LeasedAreReady'
    BY <1>a, <1>b, <1>c, <1>d, <1>e DEF ResourceInv, LeasedAreReady
  <1> QED BY <1>1, <1>2, <1>3, <1>4, <1>5, <1>6, <1>7, <1>8 DEF ResourceInv

\* abort: the provider that did not start is gone, and nobody else knew it.
LEMMA InvStartAborts ==
  ASSUME ResourceInv, NEW t \in Targets, StartAborts(t)
  PROVE  ResourceInv'
  <1>0. PICK new : new = target[t].instance
    OBVIOUS
  <1>a. /\ target[t].at = "starting" /\ new \in Instances /\ provider[new] = "starting" /\ mu = t /\ mu' = "free"
        /\ provider' = [provider EXCEPT ![new] = "gone"]
        /\ UNCHANGED <<kind, refs, active, sharedNow, closed, changed, nextID, closing>>
    BY <1>0 DEF StartAborts, ResourceInv, Starting
  <1>b. /\ target' \in [Targets -> Targeted] /\ target'[t].at = "done"
        /\ \A u \in Targets : u /= t => target'[u] = target[u]
    BY Goes DEF StartAborts, ResourceInv, Where
  <1>c. /\ provider' \in [Instances -> {"unused", "starting", "ready", "stopping", "gone"}]
        /\ provider'[new] = "gone" /\ \A i \in Instances : i /= new => provider'[i] = provider[i]
    BY <1>a DEF ResourceInv, ResourceTypes
  <1>d. /\ \A u \in Targets : u /= t => target[u].at /= "starting"
        /\ ~closed /\ active \subseteq Instances
        /\ \A i \in Instances : provider[i] = "starting" => i = new
    <2>1. \A u \in Targets : target[u].at = "starting" => u = t
      BY <1>a DEF ResourceInv, Starting
    <2>2. ~closed
      BY <1>a, ResourceAssumption DEF ResourceInv, Starting
    <2>3. \A i \in Instances : provider[i] = "starting" => i = new
      BY <1>0, <2>1 DEF ResourceInv, Starting
    <2> QED BY <2>1, <2>2, <2>3 DEF ResourceInv, ResourceTypes
  <1>e. \A u \in Targets, i \in Instances : /\ Leased(u, i)' <=> Leased(u, i)
                                            /\ Stopping(u, i)' <=> Stopping(u, i)
    BY <1>a, <1>b DEF Leased, Stopping
  <1>f. \A i \in Instances : Lessees(i)' = Lessees(i)
    BY <1>e DEF Lessees
  <1>1. ResourceTypes'
    BY <1>a, <1>b, <1>c DEF ResourceInv, ResourceTypes
  <1>2. Starting'
    <2>1. \A u \in Targets : target'[u].at /= "starting" /\ mu' /= u
      BY <1>a, <1>b, <1>d, ResourceAssumption
    <2>2. \A i \in Instances : provider'[i] /= "starting"
      BY <1>c, <1>d
    <2>3. \A i \in Instances : i > nextID' <=> provider'[i] = "unused"
      BY <1>a, <1>c DEF ResourceInv, Starting
    <2>4. \A i \in active' : provider'[i] \in {"ready", "stopping", "gone"}
      BY <1>a, <1>c, <1>d DEF ResourceInv, Starting
    <2> QED BY <1>a, <2>1, <2>2, <2>3, <2>4 DEF Starting
  <1>3. Leasing'
    <2>1. \A u \in Targets, i \in Instances : Leased(u, i)' \/ Stopping(u, i)' => provider'[i] /= "unused"
      BY <1>c, <1>e DEF ResourceInv, Leasing
    <2>2. \A u \in Targets : target'[u].at \in {"leased", "stopping"} =>
            target'[u].instance \in Instances /\ (~closed' => target'[u].instance \in active')
      BY <1>a, <1>b DEF ResourceInv, Leasing
    <2>3. \A i \in active' : refs'[i] = Cardinality(Lessees(i)')
      BY <1>a, <1>d, <1>f DEF ResourceInv, Leasing
    <2>4. \A i \in active' : refs'[i] = 0 => \E u \in Targets : Stopping(u, i)'
      BY <1>a, <1>d, <1>e DEF ResourceInv, Leasing
    <2>5. \A u \in Targets, i \in active' : Stopping(u, i)' => refs'[i] = 0
      BY <1>a, <1>d, <1>e DEF ResourceInv, Leasing
    <2>6. \A u, v \in Targets, i \in active' : Stopping(u, i)' /\ Stopping(v, i)' => u = v
      BY <1>a, <1>d, <1>e DEF ResourceInv, Leasing
    <2> QED BY <2>1, <2>2, <2>3, <2>4, <2>5, <2>6 DEF Leasing
  <1>4. Shelf'
    BY <1>a DEF ResourceInv, Shelf
  <1>5. Hands' /\ Alone'
    BY <1>a, <1>c DEF ResourceInv, Hands, Alone, Living
  <1>6. Waiters'
    BY <1>a, <1>b DEF ResourceInv, Waiters
  <1>7. LeasedAreReady'
    BY <1>a, <1>b, <1>c, <1>d DEF ResourceInv, LeasedAreReady, Leasing
  <1> QED BY <1>1, <1>2, <1>3, <1>4, <1>5, <1>6, <1>7 DEF ResourceInv

\* A release counts one lease less, and the last one is to stop the provider.
LEMMA InvReleaseLocks ==
  ASSUME ResourceInv, NEW t \in Targets, ReleaseLocks(t)
  PROVE  ResourceInv'
  <1>0. PICK i : i = target[t].instance
    OBVIOUS
  <1>a. /\ target[t].at = "leased" /\ Leased(t, i) /\ mu = "free" /\ i \in Instances /\ (~closed => i \in active)
        /\ active \subseteq Instances /\ refs \in [Instances -> Int]
        /\ UNCHANGED <<kind, mu, provider, active, closed, changed, nextID, closing>>
    BY <1>0 DEF ReleaseLocks, ResourceInv, ResourceTypes, Leasing, Leased
  <1>b. PICK last \in BOOLEAN :
          /\ last <=> i \in active /\ refs[i] = 1
          /\ refs' = IF i \in active THEN [refs EXCEPT ![i] = @ - 1] ELSE refs
          /\ sharedNow' = IF last /\ sharedNow = i THEN 0 ELSE sharedNow
          /\ TargetGoes(t, IF last THEN "stopping" ELSE "done")
    <2>1. (i \in active /\ refs[i] = 1) \in BOOLEAN
      OBVIOUS
    <2> QED BY <1>0, <2>1 DEF ReleaseLocks
  <1>c. /\ target' \in [Targets -> Targeted] /\ target'[t].at = (IF last THEN "stopping" ELSE "done")
        /\ target'[t].instance = i /\ \A u \in Targets : u /= t => target'[u] = target[u]
    <2>1. (IF last THEN "stopping" ELSE "done") \in Where
      BY DEF Where
    <2> QED BY <1>0, <1>b, <2>1, Goes DEF ResourceInv
  <1>d. \A u \in Targets, j \in Instances :
          /\ Leased(u, j)' <=> Leased(u, j) /\ u /= t
          /\ Stopping(u, j)' <=> Stopping(u, j) \/ (u = t /\ j = i /\ last)
    BY <1>0, <1>a, <1>c DEF Leased, Stopping
  <1>e. \A j \in Instances : Lessees(j)' = IF j = i THEN Lessees(j) \ {t} ELSE Lessees(j)
    <2>1. \A j \in Instances : Leased(t, j) => j = i
      BY <1>0 DEF Leased
    <2> QED BY <1>d, <2>1 DEF Lessees
  <1>f. /\ refs' \in [Instances -> Int]
        /\ \A j \in Instances : refs'[j] = IF j = i /\ i \in active THEN refs[j] - 1 ELSE refs[j]
    BY <1>a, <1>b
  <1>g. i \in active => /\ refs[i] = Cardinality(Lessees(i)) /\ refs[i] \in Nat /\ refs[i] /= 0
                        /\ refs'[i] = Cardinality(Lessees(i)') /\ (refs'[i] = 0 <=> last)
                        /\ \A u \in Targets : ~Stopping(u, i)
    <2> SUFFICES ASSUME i \in active
                 PROVE  /\ refs[i] = Cardinality(Lessees(i)) /\ refs[i] \in Nat /\ refs[i] /= 0
                        /\ refs'[i] = Cardinality(Lessees(i)') /\ (refs'[i] = 0 <=> last)
                        /\ \A u \in Targets : ~Stopping(u, i)
      OBVIOUS
    <2>1. refs[i] = Cardinality(Lessees(i))
      BY DEF ResourceInv, Leasing
    <2>2. t \in Lessees(i) /\ Lessees(i) \subseteq Targets
      BY <1>a DEF Lessees
    <2>3. /\ Cardinality(Lessees(i)) \in Nat /\ Cardinality(Lessees(i)) /= 0
          /\ Cardinality(Lessees(i) \ {t}) = Cardinality(Lessees(i)) - 1
      BY <2>2, Counted
    <2>4. refs'[i] = refs[i] - 1 /\ Lessees(i)' = Lessees(i) \ {t}
      BY <1>a, <1>e, <1>f
    <2>5. refs'[i] = 0 <=> last
      BY <1>b, <2>1, <2>3, <2>4
    <2>6. \A u \in Targets : ~Stopping(u, i)
      BY <2>1, <2>3 DEF ResourceInv, Leasing
    <2> QED BY <2>1, <2>3, <2>4, <2>5, <2>6
  <1>1. ResourceTypes'
    <2>1. sharedNow' \in Nat
      BY <1>b DEF ResourceInv, ResourceTypes
    <2> QED BY <1>a, <1>c, <1>f, <2>1 DEF ResourceInv, ResourceTypes
  <1>2. Starting'
    BY <1>a, <1>c DEF ResourceInv, Starting
  <1>3. Leasing'
    <2>1. \A u \in Targets, j \in Instances : Leased(u, j)' \/ Stopping(u, j)' => provider'[j] /= "unused"
      BY <1>a, <1>d DEF ResourceInv, Leasing
    <2>2. \A u \in Targets : target'[u].at \in {"leased", "stopping"} =>
            target'[u].instance \in Instances /\ (~closed' => target'[u].instance \in active')
      BY <1>a, <1>c DEF ResourceInv, Leasing
    <2>3. \A j \in active' : refs'[j] = Cardinality(Lessees(j)')
      BY <1>a, <1>e, <1>f, <1>g DEF ResourceInv, Leasing
    <2>4. \A j \in active' : refs'[j] = 0 => \E u \in Targets : Stopping(u, j)'
      BY <1>a, <1>d, <1>f, <1>g DEF ResourceInv, Leasing
    <2>5. \A u \in Targets, j \in active' : Stopping(u, j)' => refs'[j] = 0
      BY <1>a, <1>d, <1>f, <1>g DEF ResourceInv, Leasing
    <2>6. \A u, v \in Targets, j \in active' : Stopping(u, j)' /\ Stopping(v, j)' => u = v
      BY <1>a, <1>d, <1>g DEF ResourceInv, Leasing
    <2> QED BY <2>1, <2>2, <2>3, <2>4, <2>5, <2>6 DEF Leasing
  <1>4. Shelf'
    <2>1. \A j \in active : j /= i => refs'[j] = refs[j]
      BY <1>a, <1>f
    <2> QED BY <1>a, <1>b, <1>g, <2>1 DEF ResourceInv, Shelf
  <1>5. Hands' /\ Alone'
    <2>1. closed' => sharedNow' = 0
      BY <1>a, <1>b DEF ResourceInv, Hands
    <2> QED BY <1>a, <2>1 DEF ResourceInv, Hands, Alone, Living
  <1>6. Waiters'
    BY <1>a, <1>c DEF ResourceInv, Waiters
  <1>7. LeasedAreReady'
    BY <1>a, <1>c DEF ResourceInv, LeasedAreReady
  <1> QED BY <1>1, <1>2, <1>3, <1>4, <1>5, <1>6, <1>7 DEF ResourceInv

\* stop begins only for a provider that nobody holds, or when Close took it.
LEMMA InvStopBegins ==
  ASSUME ResourceInv, NEW i \in Instances, StopBegins(i)
  PROVE  ResourceInv'
  <1>a. /\ provider[i] = "ready" /\ provider' = [provider EXCEPT ![i] = "stopping"]
        /\ UNCHANGED <<kind, mu, target, refs, active, sharedNow, closed, changed, nextID, closing>>
    BY DEF StopBegins
  <1>b. /\ provider' \in [Instances -> {"unused", "starting", "ready", "stopping", "gone"}]
        /\ provider'[i] = "stopping" /\ \A j \in Instances : j /= i => provider'[j] = provider[j]
    BY <1>a DEF ResourceInv, ResourceTypes
  <1>c. ~closed => \A t \in Targets : ~Leased(t, i)
    <2> SUFFICES ASSUME ~closed PROVE \A t \in Targets : ~Leased(t, i)
      OBVIOUS
    <2>1. closing.at = "idle"
      BY DEF ResourceInv, Hands
    <2>2. PICK t \in Targets : Stopping(t, i)
      BY <2>1 DEF StopBegins, Stopping
    <2>3. i \in active
      BY <2>2 DEF ResourceInv, Leasing, Stopping
    <2> QED BY <2>2, <2>3, LastOne
  <1>d. active \subseteq Instances
    BY DEF ResourceInv, ResourceTypes
  <1>e. \A t \in Targets, j \in Instances : /\ Leased(t, j)' <=> Leased(t, j)
                                            /\ Stopping(t, j)' <=> Stopping(t, j)
    BY <1>a DEF Leased, Stopping
  <1>1. ResourceTypes'
    BY <1>a, <1>b DEF ResourceInv, ResourceTypes
  <1>2. Starting'
    <2>1. \A j \in Instances : provider'[j] = "starting" <=> provider[j] = "starting"
      BY <1>a, <1>b
    <2>2. \A j \in Instances : j > nextID <=> provider'[j] = "unused"
      BY <1>a, <1>b DEF ResourceInv, Starting
    <2>3. \A j \in active : provider'[j] \in {"ready", "stopping", "gone"}
      BY <1>b, <1>d DEF ResourceInv, Starting
    <2> QED BY <1>a, <2>1, <2>2, <2>3 DEF ResourceInv, Starting
  <1>3. Leasing'
    <2>1. \A t \in Targets, j \in Instances : Leased(t, j)' \/ Stopping(t, j)' => provider'[j] /= "unused"
      BY <1>b, <1>e DEF ResourceInv, Leasing
    <2>2. \A j \in Instances : Lessees(j)' = Lessees(j)
      BY <1>e DEF Lessees
    <2>3. \A j \in active' : refs'[j] = Cardinality(Lessees(j)')
      BY <1>a, <1>d, <2>2 DEF ResourceInv, Leasing
    <2>4. \A j \in active' : refs'[j] = 0 => \E u \in Targets : Stopping(u, j)'
      BY <1>a, <1>d, <1>e DEF ResourceInv, Leasing
    <2>5. \A u \in Targets, j \in active' : Stopping(u, j)' => refs'[j] = 0
      BY <1>a, <1>d, <1>e DEF ResourceInv, Leasing
    <2>6. \A u, v \in Targets, j \in active' : Stopping(u, j)' /\ Stopping(v, j)' => u = v
      BY <1>a, <1>d, <1>e DEF ResourceInv, Leasing
    <2>7. \A u \in Targets : target'[u].at \in {"leased", "stopping"} =>
            target'[u].instance \in Instances /\ (~closed' => target'[u].instance \in active')
      BY <1>a DEF ResourceInv, Leasing
    <2> QED BY <2>1, <2>3, <2>4, <2>5, <2>6, <2>7 DEF Leasing
  <1>4. Shelf'
    BY <1>a DEF ResourceInv, Shelf
  <1>5. Hands' /\ Alone'
    BY <1>a, <1>b DEF ResourceInv, Hands, Alone, Living
  <1>6. Waiters'
    BY <1>a DEF ResourceInv, Waiters
  <1>7. LeasedAreReady'
    BY <1>a, <1>b, <1>c DEF ResourceInv, LeasedAreReady, Leasing, Leased
  <1> QED BY <1>1, <1>2, <1>3, <1>4, <1>5, <1>6, <1>7 DEF ResourceInv

\* A provider that was asked to stop is gone.
LEMMA InvStopEnds ==
  ASSUME ResourceInv, NEW i \in Instances, StopEnds(i)
  PROVE  ResourceInv'
  <1>a. /\ provider[i] = "stopping" /\ provider' = [provider EXCEPT ![i] = "gone"]
        /\ UNCHANGED <<kind, mu, target, refs, active, sharedNow, closed, changed, nextID, closing>>
    BY DEF StopEnds
  <1>b. /\ provider' \in [Instances -> {"unused", "starting", "ready", "stopping", "gone"}]
        /\ provider'[i] = "gone" /\ \A j \in Instances : j /= i => provider'[j] = provider[j]
    BY <1>a DEF ResourceInv, ResourceTypes
  <1>d. active \subseteq Instances
    BY DEF ResourceInv, ResourceTypes
  <1>e. \A t \in Targets, j \in Instances : /\ Leased(t, j)' <=> Leased(t, j)
                                            /\ Stopping(t, j)' <=> Stopping(t, j)
    BY <1>a DEF Leased, Stopping
  <1>1. ResourceTypes'
    BY <1>a, <1>b DEF ResourceInv, ResourceTypes
  <1>2. Starting'
    <2>1. \A j \in Instances : provider'[j] = "starting" <=> provider[j] = "starting"
      BY <1>a, <1>b
    <2>2. \A j \in Instances : j > nextID <=> provider'[j] = "unused"
      BY <1>a, <1>b DEF ResourceInv, Starting
    <2>3. \A j \in active : provider'[j] \in {"ready", "stopping", "gone"}
      BY <1>b, <1>d DEF ResourceInv, Starting
    <2> QED BY <1>a, <2>1, <2>2, <2>3 DEF ResourceInv, Starting
  <1>3. Leasing'
    <2>1. \A t \in Targets, j \in Instances : Leased(t, j)' \/ Stopping(t, j)' => provider'[j] /= "unused"
      BY <1>b, <1>e DEF ResourceInv, Leasing
    <2>2. \A j \in Instances : Lessees(j)' = Lessees(j)
      BY <1>e DEF Lessees
    <2>3. \A j \in active' : refs'[j] = Cardinality(Lessees(j)')
      BY <1>a, <1>d, <2>2 DEF ResourceInv, Leasing
    <2>4. \A j \in active' : refs'[j] = 0 => \E u \in Targets : Stopping(u, j)'
      BY <1>a, <1>d, <1>e DEF ResourceInv, Leasing
    <2>5. \A u \in Targets, j \in active' : Stopping(u, j)' => refs'[j] = 0
      BY <1>a, <1>d, <1>e DEF ResourceInv, Leasing
    <2>6. \A u, v \in Targets, j \in active' : Stopping(u, j)' /\ Stopping(v, j)' => u = v
      BY <1>a, <1>d, <1>e DEF ResourceInv, Leasing
    <2>7. \A u \in Targets : target'[u].at \in {"leased", "stopping"} =>
            target'[u].instance \in Instances /\ (~closed' => target'[u].instance \in active')
      BY <1>a DEF ResourceInv, Leasing
    <2> QED BY <2>1, <2>3, <2>4, <2>5, <2>6, <2>7 DEF Leasing
  <1>4. Shelf'
    BY <1>a DEF ResourceInv, Shelf
  <1>5. Hands' /\ Alone'
    BY <1>a, <1>b DEF ResourceInv, Hands, Alone, Living
  <1>6. Waiters'
    BY <1>a DEF ResourceInv, Waiters
  <1>7. LeasedAreReady'
    BY <1>a, <1>b DEF ResourceInv, LeasedAreReady, Leasing
  <1> QED BY <1>1, <1>2, <1>3, <1>4, <1>5, <1>6, <1>7 DEF ResourceInv

\* The release ends: the provider is not active any more.
LEMMA InvReleased ==
  ASSUME ResourceInv, NEW t \in Targets, Released(t)
  PROVE  ResourceInv'
  <1>0. PICK i : i = target[t].instance
    OBVIOUS
  <1>a. /\ Stopping(t, i) /\ i \in Instances /\ provider[i] = "gone" /\ mu = "free"
        /\ active' = active \ {i} /\ changed' = (IF i \in active THEN changed + 1 ELSE changed)
        /\ active \subseteq Instances /\ changed \in Nat
        /\ UNCHANGED <<kind, mu, provider, refs, sharedNow, closed, nextID, closing>>
    BY <1>0 DEF Released, Stopping, ResourceInv, ResourceTypes, Leasing
  <1>b. /\ target' \in [Targets -> Targeted] /\ target'[t].at = "done"
        /\ \A u \in Targets : u /= t => target'[u] = target[u]
    BY Goes DEF Released, ResourceInv, Where
  <1>c. i \in active => refs[i] = 0 /\ \A u \in Targets : ~Leased(u, i) /\ (Stopping(u, i) => u = t)
    BY <1>a, LastOne
  <1>d. \A u \in Targets, j \in Instances :
          /\ Leased(u, j)' <=> Leased(u, j)
          /\ j /= i => (Stopping(u, j)' <=> Stopping(u, j))
          /\ Stopping(u, j)' => Stopping(u, j)
    BY <1>a, <1>b DEF Leased, Stopping
  <1>e. \A j \in Instances : Lessees(j)' = Lessees(j)
    BY <1>d DEF Lessees
  <1>1. ResourceTypes'
    <2>1. changed' \in Nat /\ active' \subseteq Instances
      BY <1>a
    <2> QED BY <1>a, <1>b, <2>1 DEF ResourceInv, ResourceTypes
  <1>2. Starting'
    BY <1>a, <1>b DEF ResourceInv, Starting, Stopping
  <1>3. Leasing'
    <2>1. \A u \in Targets, j \in Instances : Leased(u, j)' \/ Stopping(u, j)' => provider'[j] /= "unused"
      BY <1>a, <1>d DEF ResourceInv, Leasing
    <2>2. \A u \in Targets : target'[u].at \in {"leased", "stopping"} =>
            target'[u].instance \in Instances /\ (~closed' => target'[u].instance \in active')
      <3> SUFFICES ASSUME NEW u \in Targets, target'[u].at \in {"leased", "stopping"}
                   PROVE  target'[u].instance \in Instances /\ (~closed' => target'[u].instance \in active')
        OBVIOUS
      <3>1. u /= t /\ target'[u] = target[u]
        BY <1>b
      <3>2. target[u].instance \in Instances /\ (~closed => target[u].instance \in active)
        BY <3>1 DEF ResourceInv, Leasing
      <3>3. target[u].instance = i => i \notin active
        BY <1>c, <3>1 DEF Leased, Stopping
      <3> QED BY <1>a, <3>1, <3>2, <3>3
    <2>3. \A j \in active' : refs'[j] = Cardinality(Lessees(j)')
      BY <1>a, <1>e DEF ResourceInv, Leasing
    <2>4. \A j \in active' : refs'[j] = 0 => \E u \in Targets : Stopping(u, j)'
      BY <1>a, <1>d DEF ResourceInv, Leasing
    <2>5. \A u \in Targets, j \in active' : Stopping(u, j)' => refs'[j] = 0
      BY <1>a, <1>d DEF ResourceInv, Leasing
    <2>6. \A u, v \in Targets, j \in active' : Stopping(u, j)' /\ Stopping(v, j)' => u = v
      BY <1>a, <1>d DEF ResourceInv, Leasing
    <2> QED BY <2>1, <2>2, <2>3, <2>4, <2>5, <2>6 DEF Leasing
  <1>4. Shelf'
    BY <1>a, <1>c DEF ResourceInv, Shelf
  <1>5. Hands' /\ Alone'
    BY <1>a DEF ResourceInv, Hands, Alone, Living
  <1>6. Waiters'
    <2>1. i \in active => \A u \in Targets : target'[u].at = "waiting" =>
                            target'[u].channel <= changed' /\ target'[u].channel /= changed'
      <3> SUFFICES ASSUME i \in active, NEW u \in Targets, target'[u].at = "waiting"
                   PROVE  target'[u].channel <= changed' /\ target'[u].channel /= changed'
        OBVIOUS
      <3>1. target'[u] = target[u] /\ target[u].channel <= changed /\ target[u].channel \in Nat
        BY <1>b DEF ResourceInv, ResourceTypes, Targeted, Waiters
      <3> QED BY <1>a, <3>1
    <2>2. CASE i \in active
      BY <2>1, <2>2 DEF Waiters
    <2>3. CASE i \notin active
      <3>1. active' = active /\ changed' = changed
        BY <1>a, <2>3
      <3> QED BY <1>b, <3>1 DEF ResourceInv, Waiters
    <2> QED BY <2>2, <2>3
  <1>7. LeasedAreReady'
    BY <1>a, <1>b DEF ResourceInv, LeasedAreReady
  <1> QED BY <1>1, <1>2, <1>3, <1>4, <1>5, <1>6, <1>7 DEF ResourceInv

\* Close takes every active provider in hand, and tells those who wait.
LEMMA InvCloseLocks ==
  ASSUME ResourceInv, CloseLocks
  PROVE  ResourceInv'
  <1>a. /\ closing.at = "idle" /\ mu = "free" /\ closed' = TRUE /\ closing'.at = "stopping" /\ closing'.left = active
        /\ closing' \in [at : {"idle", "stopping", "closed"}, left : SUBSET Instances]
        /\ active' = {} /\ sharedNow' = 0 /\ changed' = changed + 1 /\ changed \in Nat
        /\ UNCHANGED <<kind, mu, target, provider, refs, nextID>>
    BY DEF CloseLocks, ResourceInv, ResourceTypes
  <1>1. ResourceTypes'
    BY <1>a DEF ResourceInv, ResourceTypes
  <1>2. Starting'
    BY <1>a DEF ResourceInv, Starting
  <1>3. Leasing'
    <2>1. \A u \in Targets, j \in Instances : Leased(u, j)' \/ Stopping(u, j)' => provider'[j] /= "unused"
      BY <1>a DEF ResourceInv, Leasing, Leased, Stopping
    <2>2. \A u \in Targets : target'[u].at \in {"leased", "stopping"} => target'[u].instance \in Instances
      BY <1>a DEF ResourceInv, Leasing
    <2> QED BY <1>a, <2>1, <2>2 DEF Leasing
  <1>4. Shelf' /\ Hands' /\ Alone'
    BY <1>a DEF ResourceInv, Shelf, Hands, Alone, Living
  <1>5. Waiters'
    <2> SUFFICES ASSUME NEW u \in Targets, target'[u].at = "waiting"
                 PROVE  target'[u].channel <= changed' /\ target'[u].channel /= changed'
      BY DEF Waiters
    <2>1. target'[u] = target[u] /\ target[u].channel <= changed /\ target[u].channel \in Nat
      BY <1>a DEF ResourceInv, ResourceTypes, Targeted, Waiters
    <2> QED BY <1>a, <2>1
  <1>6. LeasedAreReady'
    BY <1>a DEF LeasedAreReady
  <1> QED BY <1>1, <1>2, <1>3, <1>4, <1>5, <1>6 DEF ResourceInv

\* Close has stopped one more provider, or the last of them.
LEMMA InvCloseStopped ==
  ASSUME ResourceInv, CloseStopped
  PROVE  ResourceInv'
  <1>a. /\ closing.at = "stopping" /\ closing'.at \in {"stopping", "closed"} /\ closing'.left \subseteq closing.left
        /\ \A i \in closing.left : i \notin closing'.left => provider[i] = "gone"
        /\ closing'.at = "closed" => closing'.left = {}
        /\ closing' \in [at : {"idle", "stopping", "closed"}, left : SUBSET Instances]
        /\ UNCHANGED <<kind, mu, target, provider, refs, active, sharedNow, closed, changed, nextID>>
    BY DEF CloseStopped, ResourceInv, ResourceTypes
  <1>1. ResourceTypes'
    BY <1>a DEF ResourceInv, ResourceTypes
  <1>2. Starting' /\ Shelf'
    BY <1>a DEF ResourceInv, Starting, Shelf
  <1>5. Leasing'
    <2>1. active' = {}
      BY <1>a DEF ResourceInv, Hands
    <2>2. \A u \in Targets, j \in Instances : Leased(u, j)' \/ Stopping(u, j)' => provider'[j] /= "unused"
      BY <1>a DEF ResourceInv, Leasing, Leased, Stopping
    <2>3. \A u \in Targets : target'[u].at \in {"leased", "stopping"} =>
            target'[u].instance \in Instances /\ (~closed' => target'[u].instance \in active')
      BY <1>a DEF ResourceInv, Leasing
    <2> QED BY <2>1, <2>2, <2>3 DEF Leasing
  <1>3. Hands' /\ Alone'
    BY <1>a DEF ResourceInv, Hands, Alone, Living
  <1>4. Waiters' /\ LeasedAreReady'
    BY <1>a DEF ResourceInv, Waiters, LeasedAreReady
  <1> QED BY <1>1, <1>2, <1>3, <1>4, <1>5 DEF ResourceInv

-----------------------------------------------------------------------------

\* The four ways Acquire's loop goes under the mutex.
LEMMA InvAcquireLocks ==
  ASSUME ResourceInv, NEW t \in Targets, AcquireLocks(t)
  PROVE  ResourceInv'
  <1>a. target[t].at \in {"idle", "woken"} /\ mu = "free" /\ target \in [Targets -> Targeted] /\ target[t] \in Targeted
    BY DEF AcquireLocks, ResourceInv, ResourceTypes
  <1>1. CASE closed
    <2>1. TargetGoes(t, "done")
      BY <1>1 DEF AcquireLocks
    <2>2. /\ target' \in [Targets -> Targeted] /\ target'[t].at = "done"
          /\ \A u \in Targets : u /= t => target'[u] = target[u]
      BY <2>1, Goes DEF ResourceInv, Where
    <2>3. UNCHANGED <<kind, mu, provider, refs, active, sharedNow, closed, changed, nextID, closing>>
      BY <1>1 DEF AcquireLocks
    <2> QED BY <1>a, <2>2, <2>3, InvAside
  <1>2. CASE ~closed /\ kind = "exclusive" /\ active /= {}
    <2>1. /\ target' = [target EXCEPT ![t].at = "waiting", ![t].channel = changed]
          /\ UNCHANGED <<kind, mu, provider, refs, active, sharedNow, closed, changed, nextID, closing>>
      BY <1>2 DEF AcquireLocks
    <2>2. \A e \in Targeted : LET f == [[e EXCEPT !.at = "waiting"] EXCEPT !.channel = changed]
                              IN f \in Targeted /\ f.at = "waiting" /\ f.channel = changed
      BY DEF Targeted, ResourceInv, ResourceTypes
    <2>3. /\ target' \in [Targets -> Targeted] /\ target'[t] = [[target[t] EXCEPT !.at = "waiting"] EXCEPT !.channel = changed]
          /\ \A u \in Targets : u /= t => target'[u] = target[u]
      BY <1>a, <2>1, <2>2
    <2>4. target'[t].at = "waiting" /\ target'[t].channel = changed
      BY <1>a, <2>2, <2>3
    <2> QED BY <1>2, <1>a, <2>1, <2>3, <2>4, InvAside
  <1>3. CASE ~closed /\ kind = "shared" /\ sharedNow /= 0
    <2>1. /\ refs' = [refs EXCEPT ![sharedNow] = @ + 1]
          /\ target' = [target EXCEPT ![t].at = "leased", ![t].instance = sharedNow]
          /\ UNCHANGED <<kind, mu, provider, active, sharedNow, closed, changed, nextID, closing>>
      BY <1>3 DEF AcquireLocks
    <2> QED BY <1>3, <1>a, <2>1, InvJoins
  <1>4. CASE ~closed /\ ~(kind = "exclusive" /\ active /= {}) /\ ~(kind = "shared" /\ sharedNow /= 0)
    <2>1. /\ nextID < MaxInstances /\ nextID' = nextID + 1
          /\ provider' = [provider EXCEPT ![nextID + 1] = "starting"]
          /\ target' = [target EXCEPT ![t].at = "starting", ![t].instance = nextID + 1]
          /\ mu' = t /\ UNCHANGED <<kind, refs, active, sharedNow, closed, changed, closing>>
      BY <1>4 DEF AcquireLocks
    <2> QED BY <1>4, <1>a, <2>1, InvStarts
  <1> QED BY <1>1, <1>2, <1>3, <1>4

\* The select of a waiting target.
LEMMA InvAcquireWakes ==
  ASSUME ResourceInv, NEW t \in Targets, AcquireWakes(t)
  PROVE  ResourceInv'
  <1>1. PICK to \in {"woken", "done"} : TargetGoes(t, to)
    BY DEF AcquireWakes
  <1>2. /\ target' \in [Targets -> Targeted] /\ target'[t].at = to
        /\ \A u \in Targets : u /= t => target'[u] = target[u]
    BY <1>1, Goes DEF ResourceInv, Where
  <1>3. /\ target[t].at = "waiting"
        /\ UNCHANGED <<kind, mu, provider, refs, active, sharedNow, closed, changed, nextID, closing>>
    BY DEF AcquireWakes
  <1> QED BY <1>2, <1>3, InvAside

\* Every step of a target, of stop and of Close keeps the invariant.
THEOREM ResourceStep == ResourceInv /\ [ResourceNext]_resourceVars => ResourceInv'
  <1> SUFFICES ASSUME ResourceInv, [ResourceNext]_resourceVars PROVE ResourceInv'
    OBVIOUS
  <1>1. CASE \E t \in Targets : TargetNext(t)
    BY <1>1, InvAcquireLocks, InvAcquireWakes, InvStartReady, InvStartAborts, InvReleaseLocks, InvReleased
       DEF TargetNext
  <1>2. CASE \E i \in Instances : StopBegins(i) \/ StopEnds(i)
    BY <1>2, InvStopBegins, InvStopEnds
  <1>3. CASE CloseLocks \/ CloseStopped
    BY <1>3, InvCloseLocks, InvCloseStopped
  <1>4. CASE UNCHANGED resourceVars
    BY <1>4 DEF resourceVars, ResourceInv, ResourceTypes, Starting, Leasing, Shelf, Hands, Alone, Waiters,
                LeasedAreReady, Leased, Stopping, Lessees, Living
  <1> QED BY <1>1, <1>2, <1>3, <1>4 DEF ResourceNext

THEOREM ResourceInvariant == ResourceSpec => []ResourceInv
  <1> QED BY ResourceInitially, ResourceStep, PTL DEF ResourceSpec

\* At most one of a set whose members are all the same.
LEMMA AtMostOne ==
  ASSUME NEW S, \A x, y \in S : x = y
  PROVE  Cardinality(S) <= 1
  <1>1. CASE S = {}
    BY <1>1, FS_EmptySet
  <1>2. CASE S /= {}
    <2>1. PICK x \in S : S = {x}
      BY <1>2
    <2> QED BY <2>1, FS_Singleton
  <1> QED BY <1>1, <1>2

\* What the invariant says to a target: its provider lives while it is leased,
\* an exclusive one lives alone, none outlives Close, and no wake-up is lost.
LEMMA InvIsKept == ResourceInv => LeasesAreKept
  <1> SUFFICES ASSUME ResourceInv PROVE LeasesAreKept
    OBVIOUS
  <1>1. kind = "exclusive" => Cardinality(LivingProviders) <= 1
    BY AtMostOne DEF ResourceInv, Alone, Living, LivingProviders
  <1>2. closing.at = "closed" => LivingProviders = {}
    <2> SUFFICES ASSUME closing.at = "closed", NEW i \in Instances, Living(i) PROVE FALSE
      BY DEF LivingProviders, Living
    <2>1. closed /\ active = {} /\ closing.left = {} /\ mu = "free"
      BY DEF ResourceInv, Hands, Starting
    <2>2. provider[i] /= "starting"
      BY <2>1, NoneStarting
    <2> QED BY <2>1, <2>2 DEF ResourceInv, Hands
  <1>3. \A i \in active : \E t \in Targets : target[t].instance = i /\ target[t].at \in {"leased", "stopping"}
    <2> TAKE i \in active
    <2>1. refs[i] = Cardinality(Lessees(i))
      BY DEF ResourceInv, Leasing
    <2>2. CASE refs[i] = 0
      BY <2>2 DEF ResourceInv, Leasing, Stopping
    <2>3. CASE refs[i] /= 0
      <3>1. Lessees(i) /= {}
        BY <2>1, <2>3, FS_EmptySet
      <3> QED BY <3>1 DEF Lessees, Leased
    <2> QED BY <2>2, <2>3
  <1> QED BY <1>1, <1>2, <1>3 DEF ResourceInv, LeasedAreReady, Waiters, LeasesAreKept, ProvidersAreKept, WaitersAreWoken

\* However targets acquire and release, and whenever Close comes, the manager
\* keeps its promise.
THEOREM LeasesKept == ResourceSpec => []LeasesAreKept
  <1> QED BY ResourceInvariant, InvIsKept, PTL

-----------------------------------------------------------------------------
(* TempOwner: a directory under a random name is its run's own, and a sweep  *)
(* takes only what is abandoned.                                            *)

BeforeMakingPCs == SweepPCs \cup {"start", "mkdir", "resweep", "mkdir_again"}

\* A run has made the stable name or its own random name, or nothing yet; a
\* random name nobody has made is not there.
NamingInv ==
  /\ \A p \in Runs : name[p] \in {"none", Stable, p}
  /\ \A p \in Runs : pc[p] \in BeforeMakingPCs => name[p] = "none"
  /\ \A p \in Runs : pc[p] \in MakingPCs \cup OwnedPCs => name[p] # "none"
  /\ \A p \in Runs : name[p] # p =>
       p \notin there /\ p \notin aged /\ lock[p] = "absent" /\ marker[p] = "none" /\ tree[p] = {}

\* What a sweep has against a random name: it was listed, so it was made; its
\* marker was written before its lock is tried; and a removal was decided only
\* after its run had let the lock go.
JudgedInv ==
  \A p, q \in Runs :
    /\ p \in todo[q] \/ cur[q] = p => name[p] = p
    /\ cur[q] = p /\ pc[q] = "sweep_lock" => pc[p] \notin {"claim", "mark"}
    /\ cur[q] = p /\ pc[q] \in {"sweep_unlock", "sweep_rm", "sweep_rmdir"} =>
         pc[p] \notin MakingPCs \cup OwnedPCs

\* A live run's random name: unmarked and young until it is marked, locked from
\* the claim on, and written by its run alone.
RandomInv ==
  \A p \in Runs : name[p] = p =>
    /\ pc[p] \in MakingPCs \cup OwnedPCs => p \in there /\ tree[p] \subseteq {p}
    /\ pc[p] \in {"claim", "mark"} => marker[p] = "none" /\ p \notin aged
    /\ pc[p] \in {"tree", "work", "keep_unlock"} => marker[p] # "none"
    /\ pc[p] = "claim" => lock[p] = "absent"
    /\ pc[p] \in OwnedPCs => lock[p] = p

\* A sweep past its listing has an entry in hand.
CurInv == \A p \in Runs : pc[p] \in SweepPCs \ {"sweep"} => cur[p] # "none"

OwnerInv == TypeOK /\ CurInv /\ NamingInv /\ JudgedInv /\ RandomInv

RunStep(p) == Sweep(p) \/ Create(p) \/ Work(p) \/ Closing(p) \/ Crash(p)

\* Every step of a run keeps the declared shape.
LEMMA TypeStep ==
  ASSUME TypeOK, CurInv, NEW p \in Runs, RunStep(p)
  PROVE  TypeOK'
  <1> USE NamesAssumption, AttemptsAssumption DEF TypeOK, CurInv, PCs
  <1> USE DEF BeforeMakingPCs, SweepPCs, MakingPCs, OwnedPCs, EndPCs, Goto, Names, disk, sweep
  <1>1. CASE SweepList(p)       BY <1>1 DEF SweepList
  <1>2. CASE SweepJudge(p)
    <2> PICK n \in todo[p] :
           Judge(p, n) /\ todo' = [todo EXCEPT ![p] = @ \ {n}] /\ cur' = [cur EXCEPT ![p] = n]
      BY <1>2, Zenon DEF SweepJudge
    <2>1. CASE marker[n] = "plain" /\ Goto(p, "sweep", "sweep_lock")
      BY <1>2, <2>1 DEF SweepJudge
    <2>2. CASE marker[n] = "none" /\ n \in aged /\ Goto(p, "sweep", "sweep_rm")
      BY <1>2, <2>2 DEF SweepJudge
    <2>3. CASE Goto(p, "sweep", "sweep")
      BY <1>2, <2>3 DEF SweepJudge
    <2> QED BY <2>1, <2>2, <2>3 DEF Judge
  <1>3. CASE SweepMiss(p)       BY <1>3 DEF SweepMiss
  <1>4. CASE SweepSpare(p)      BY <1>4 DEF SweepSpare
  <1>5. CASE SweepLock(p)       BY <1>5 DEF SweepLock, Acquire, Held
  <1>6. CASE SweepUnlock(p)     BY <1>6 DEF SweepUnlock, Release
  <1>7. CASE SweepPurge(p)      BY <1>7 DEF SweepPurge, Purge
  <1>8. CASE SweepUnlink(p)
    <2>1. CASE Unlink(cur[p]) /\ UNCHANGED failed
      BY <1>8, <2>1 DEF SweepUnlink, Unlink
    <2>2. CASE failed' = [failed EXCEPT ![p] = @ \cup {cur[p]}] /\ UNCHANGED disk
      BY <1>8, <2>2 DEF SweepUnlink, Unlink
    <2> QED BY <1>8, <2>1, <2>2 DEF SweepUnlink
  <1>9. CASE SweepEnd(p)
    <2>1. CASE Goto(p, "sweep", "mkdir")
      BY <1>9, <2>1 DEF SweepEnd
    <2>2. CASE Goto(p, "sweep", "mkdir_again")
      BY <1>9, <2>2 DEF SweepEnd
    <2> QED BY <1>9, <2>1, <2>2 DEF SweepEnd
  <1>10. CASE Mkdir(p)           BY <1>10, ZenonT(40) DEF Mkdir, Make
  <1>11. CASE MkdirAgain(p)
    <2>1. CASE Make(p, Stable)
      BY <1>11, <2>1 DEF MkdirAgain, Make
    <2>2. CASE Make(p, p)
      BY <1>11, <2>2 DEF MkdirAgain, Make
    <2> QED BY <1>11, <2>1, <2>2 DEF MkdirAgain
  <1>12. CASE Claim(p)           BY <1>12 DEF Claim, Acquire
  <1>13. CASE ClaimFail(p)       BY <1>13 DEF ClaimFail
  <1>14. CASE WriteMarker(p)     BY <1>14 DEF WriteMarker, Mark
  <1>15. CASE WriteMarkerFail(p) BY <1>15 DEF WriteMarkerFail, Release
  <1>16. CASE MakeTree(p)        BY <1>16 DEF MakeTree
  <1>17. CASE Finish(p)          BY <1>17 DEF Finish
  <1>18. CASE Work(p)
    <2>1. name[p] \in Names \/ tree' = tree
      BY <1>18 DEF Work
    <2> QED BY <1>18, <2>1, ZenonT(40) DEF Work
  <1>19. CASE KeepMark(p)        BY <1>19 DEF KeepMark, Mark
  <1>20. CASE KeepFail(p)        BY <1>20 DEF KeepFail, Release
  <1>21. CASE Unlock(p)          BY <1>21 DEF Unlock, Release
  <1>22. CASE CleanupPurge(p)    BY <1>22 DEF CleanupPurge, Purge
  <1>23. CASE CleanupUnlink(p)   BY <1>23 DEF CleanupUnlink, Unlink
  <1>24. CASE CleanupRetry(p)
    <2>1. CASE Goto(p, "clean_rmdir", "clean_rm") /\ tries[p] + 1 < CleanupAttempts
                 /\ tries' = [tries EXCEPT ![p] = @ + 1]
      BY <1>24, <2>1 DEF CleanupRetry
    <2>2. CASE Goto(p, "clean_rmdir", "done") /\ UNCHANGED tries
      BY <1>24, <2>2 DEF CleanupRetry
    <2>3. CASE Goto(p, "claim_rmdir", "done") /\ UNCHANGED tries
      BY <1>24, <2>3 DEF CleanupRetry
    <2> QED BY <1>24, <2>1, <2>2, <2>3 DEF CleanupRetry
  <1>25. CASE Crash(p)           BY <1>25 DEF Crash
  <1> QED
    BY <1>1, <1>2, <1>3, <1>4, <1>5, <1>6, <1>7, <1>8, <1>9, <1>10, <1>11,
         <1>12, <1>13, <1>14, <1>15, <1>16, <1>17, <1>18, <1>19,
         <1>20, <1>21, <1>22, <1>23, <1>24, <1>25
    DEF RunStep, Sweep, Create, Closing

\* Every step of a run keeps an entry in hand past the listing.
LEMMA CurStep ==
  ASSUME TypeOK, CurInv, NEW p \in Runs, RunStep(p)
  PROVE  CurInv'
  <1> USE NamesAssumption DEF TypeOK, CurInv
  <1> USE DEF BeforeMakingPCs, SweepPCs, MakingPCs, OwnedPCs, EndPCs, Goto, Names, disk, sweep
  <1>1. CASE SweepList(p)       BY <1>1 DEF SweepList
  <1>2. CASE SweepJudge(p)
    <2> PICK n \in todo[p] :
           Judge(p, n) /\ todo' = [todo EXCEPT ![p] = @ \ {n}] /\ cur' = [cur EXCEPT ![p] = n]
      BY <1>2, Zenon DEF SweepJudge
    <2>1. CASE marker[n] = "plain" /\ Goto(p, "sweep", "sweep_lock")
      BY <1>2, <2>1 DEF SweepJudge
    <2>2. CASE marker[n] = "none" /\ n \in aged /\ Goto(p, "sweep", "sweep_rm")
      BY <1>2, <2>2 DEF SweepJudge
    <2>3. CASE Goto(p, "sweep", "sweep")
      BY <1>2, <2>3 DEF SweepJudge
    <2> QED BY <2>1, <2>2, <2>3 DEF Judge
  <1>3. CASE SweepMiss(p)       BY <1>3 DEF SweepMiss
  <1>4. CASE SweepSpare(p)      BY <1>4 DEF SweepSpare
  <1>5. CASE SweepLock(p)       BY <1>5 DEF SweepLock, Acquire, Held
  <1>6. CASE SweepUnlock(p)     BY <1>6 DEF SweepUnlock, Release
  <1>7. CASE SweepPurge(p)      BY <1>7 DEF SweepPurge, Purge
  <1>8. CASE SweepUnlink(p)     BY <1>8 DEF SweepUnlink, Unlink
  <1>9. CASE SweepEnd(p)        BY <1>9, SMTT(30) DEF SweepEnd
  <1>10. CASE Mkdir(p)           BY <1>10 DEF Mkdir, Make
  <1>11. CASE MkdirAgain(p)      BY <1>11 DEF MkdirAgain, Make
  <1>12. CASE Claim(p)           BY <1>12 DEF Claim, Acquire
  <1>13. CASE ClaimFail(p)       BY <1>13, SMTT(30) DEF ClaimFail
  <1>14. CASE WriteMarker(p)     BY <1>14 DEF WriteMarker, Mark
  <1>15. CASE WriteMarkerFail(p) BY <1>15 DEF WriteMarkerFail, Release
  <1>16. CASE MakeTree(p)        BY <1>16 DEF MakeTree
  <1>17. CASE Finish(p)          BY <1>17 DEF Finish
  <1>18. CASE Work(p)            BY <1>18 DEF Work
  <1>19. CASE KeepMark(p)        BY <1>19 DEF KeepMark, Mark
  <1>20. CASE KeepFail(p)        BY <1>20 DEF KeepFail, Release
  <1>21. CASE Unlock(p)          BY <1>21, SMTT(30) DEF Unlock, Release
  <1>22. CASE CleanupPurge(p)    BY <1>22 DEF CleanupPurge, Purge
  <1>23. CASE CleanupUnlink(p)   BY <1>23, SMTT(30) DEF CleanupUnlink, Unlink
  <1>24. CASE CleanupRetry(p)    BY <1>24 DEF CleanupRetry
  <1>25. CASE Crash(p)           BY <1>25 DEF Crash
  <1> QED
    BY <1>1, <1>2, <1>3, <1>4, <1>5, <1>6, <1>7, <1>8, <1>9, <1>10, <1>11,
         <1>12, <1>13, <1>14, <1>15, <1>16, <1>17, <1>18, <1>19,
         <1>20, <1>21, <1>22, <1>23, <1>24, <1>25
    DEF RunStep, Sweep, Create, Closing

\* Every step of a run preserves the invariant on names.
LEMMA NamingStep ==
  ASSUME OwnerInv, NEW p \in Runs, RunStep(p)
  PROVE  NamingInv'
  <1> USE NamesAssumption DEF OwnerInv, TypeOK, NamingInv, JudgedInv
  <1> USE DEF BeforeMakingPCs, SweepPCs, MakingPCs, OwnedPCs, EndPCs, Goto, Names, disk, sweep
  <1>1. CASE SweepList(p)       BY <1>1 DEF SweepList
  <1>2. CASE SweepJudge(p)
    <2> PICK n \in todo[p] :
           Judge(p, n) /\ todo' = [todo EXCEPT ![p] = @ \ {n}] /\ cur' = [cur EXCEPT ![p] = n]
      BY <1>2, Zenon DEF SweepJudge
    <2>1. CASE marker[n] = "plain" /\ Goto(p, "sweep", "sweep_lock")
      BY <1>2, <2>1 DEF SweepJudge
    <2>2. CASE marker[n] = "none" /\ n \in aged /\ Goto(p, "sweep", "sweep_rm")
      BY <1>2, <2>2 DEF SweepJudge
    <2>3. CASE Goto(p, "sweep", "sweep")
      BY <1>2, <2>3 DEF SweepJudge
    <2> QED BY <2>1, <2>2, <2>3 DEF Judge
  <1>3. CASE SweepMiss(p)       BY <1>3 DEF SweepMiss
  <1>4. CASE SweepSpare(p)      BY <1>4 DEF SweepSpare
  <1>5. CASE SweepLock(p)       BY <1>5 DEF SweepLock, Acquire, Held
  <1>6. CASE SweepUnlock(p)     BY <1>6 DEF SweepUnlock, Release
  <1>7. CASE SweepPurge(p)      BY <1>7 DEF SweepPurge, Purge
  <1>8. CASE SweepUnlink(p)     BY <1>8 DEF SweepUnlink, Unlink
  <1>9. CASE SweepEnd(p)        BY <1>9 DEF SweepEnd
  <1>10. CASE Mkdir(p)
    <2>1. CASE Make(p, Stable) /\ Goto(p, "mkdir", "claim")
      BY <1>10, <2>1 DEF Mkdir, Make
    <2>2. CASE Goto(p, "mkdir", "resweep") /\ UNCHANGED <<disk, name>>
      BY <1>10, <2>2 DEF Mkdir, Make
    <2> QED BY <1>10, <2>1, <2>2 DEF Mkdir
  <1>11. CASE MkdirAgain(p)
    <2>1. CASE Make(p, Stable)
      BY <1>11, <2>1 DEF MkdirAgain, Make
    <2>2. CASE Make(p, p)
      BY <1>11, <2>2 DEF MkdirAgain, Make
    <2> QED BY <1>11, <2>1, <2>2 DEF MkdirAgain
  <1>12. CASE Claim(p)           BY <1>12 DEF Claim, Acquire
  <1>13. CASE ClaimFail(p)       BY <1>13 DEF ClaimFail
  <1>14. CASE WriteMarker(p)     BY <1>14 DEF WriteMarker, Mark
  <1>15. CASE WriteMarkerFail(p) BY <1>15 DEF WriteMarkerFail, Release
  <1>16. CASE MakeTree(p)        BY <1>16 DEF MakeTree
  <1>17. CASE Finish(p)          BY <1>17 DEF Finish
  <1>18. CASE Work(p)            BY <1>18 DEF Work
  <1>19. CASE KeepMark(p)        BY <1>19 DEF KeepMark, Mark
  <1>20. CASE KeepFail(p)        BY <1>20 DEF KeepFail, Release
  <1>21. CASE Unlock(p)          BY <1>21 DEF Unlock, Release
  <1>22. CASE CleanupPurge(p)    BY <1>22 DEF CleanupPurge, Purge
  <1>23. CASE CleanupUnlink(p)   BY <1>23 DEF CleanupUnlink, Unlink
  <1>24. CASE CleanupRetry(p)    BY <1>24 DEF CleanupRetry
  <1>25. CASE Crash(p)           BY <1>25 DEF Crash
  <1> QED
    BY <1>1, <1>2, <1>3, <1>4, <1>5, <1>6, <1>7, <1>8, <1>9, <1>10, <1>11,
         <1>12, <1>13, <1>14, <1>15, <1>16, <1>17, <1>18, <1>19,
         <1>20, <1>21, <1>22, <1>23, <1>24, <1>25
    DEF RunStep, Sweep, Create, Closing

\* Every step of a run preserves the invariant on what sweeps have judged.
LEMMA JudgedStep ==
  ASSUME OwnerInv, NEW p \in Runs, RunStep(p)
  PROVE  JudgedInv'
  <1> USE NamesAssumption DEF OwnerInv, TypeOK, NamingInv, JudgedInv, RandomInv
  <1> USE DEF BeforeMakingPCs, SweepPCs, MakingPCs, OwnedPCs, EndPCs, Goto, Names, disk, sweep
  <1>1. CASE SweepList(p)       BY <1>1 DEF SweepList
  <1>2. CASE SweepJudge(p)
    <2> PICK n \in todo[p] :
           Judge(p, n) /\ todo' = [todo EXCEPT ![p] = @ \ {n}] /\ cur' = [cur EXCEPT ![p] = n]
      BY <1>2, Zenon DEF SweepJudge
    <2>1. CASE marker[n] = "plain" /\ Goto(p, "sweep", "sweep_lock")
      BY <1>2, <2>1 DEF SweepJudge
    <2>2. CASE marker[n] = "none" /\ n \in aged /\ Goto(p, "sweep", "sweep_rm")
      BY <1>2, <2>2 DEF SweepJudge
    <2>3. CASE Goto(p, "sweep", "sweep")
      BY <1>2, <2>3 DEF SweepJudge
    <2> QED BY <2>1, <2>2, <2>3 DEF Judge
  <1>3. CASE SweepMiss(p)       BY <1>3 DEF SweepMiss
  <1>4. CASE SweepSpare(p)      BY <1>4 DEF SweepSpare
  <1>5. CASE SweepLock(p)       BY <1>5 DEF SweepLock, Acquire, Held
  <1>6. CASE SweepUnlock(p)     BY <1>6 DEF SweepUnlock, Release
  <1>7. CASE SweepPurge(p)      BY <1>7 DEF SweepPurge, Purge
  <1>8. CASE SweepUnlink(p)     BY <1>8 DEF SweepUnlink, Unlink
  <1>9. CASE SweepEnd(p)        BY <1>9 DEF SweepEnd
  <1>10. CASE Mkdir(p)           BY <1>10 DEF Mkdir, Make
  <1>11. CASE MkdirAgain(p)      BY <1>11 DEF MkdirAgain, Make
  <1>12. CASE Claim(p)           BY <1>12 DEF Claim, Acquire
  <1>13. CASE ClaimFail(p)       BY <1>13 DEF ClaimFail
  <1>14. CASE WriteMarker(p)     BY <1>14 DEF WriteMarker, Mark
  <1>15. CASE WriteMarkerFail(p) BY <1>15 DEF WriteMarkerFail, Release
  <1>16. CASE MakeTree(p)        BY <1>16 DEF MakeTree
  <1>17. CASE Finish(p)          BY <1>17 DEF Finish
  <1>18. CASE Work(p)            BY <1>18 DEF Work
  <1>19. CASE KeepMark(p)        BY <1>19 DEF KeepMark, Mark
  <1>20. CASE KeepFail(p)        BY <1>20 DEF KeepFail, Release
  <1>21. CASE Unlock(p)          BY <1>21 DEF Unlock, Release
  <1>22. CASE CleanupPurge(p)    BY <1>22 DEF CleanupPurge, Purge
  <1>23. CASE CleanupUnlink(p)
    <2>1. pc' = [pc EXCEPT ![p] = "done"] /\ UNCHANGED <<name, todo, cur>>
      BY <1>23 DEF CleanupUnlink
    <2> QED BY <2>1
  <1>24. CASE CleanupRetry(p)    BY <1>24 DEF CleanupRetry
  <1>25. CASE Crash(p)           BY <1>25 DEF Crash
  <1> QED
    BY <1>1, <1>2, <1>3, <1>4, <1>5, <1>6, <1>7, <1>8, <1>9, <1>10, <1>11,
         <1>12, <1>13, <1>14, <1>15, <1>16, <1>17, <1>18, <1>19,
         <1>20, <1>21, <1>22, <1>23, <1>24, <1>25
    DEF RunStep, Sweep, Create, Closing

\* Every step of a run preserves the invariant on random names.
LEMMA RandomStep ==
  ASSUME OwnerInv, NEW p \in Runs, RunStep(p)
  PROVE  RandomInv'
  <1> USE NamesAssumption DEF OwnerInv, TypeOK, NamingInv, JudgedInv, RandomInv
  <1> USE DEF BeforeMakingPCs, SweepPCs, MakingPCs, OwnedPCs, EndPCs, Goto, Names, disk, sweep
  <1>1. CASE SweepList(p)       BY <1>1 DEF SweepList
  <1>2. CASE SweepJudge(p)
    <2> PICK n \in todo[p] :
           Judge(p, n) /\ todo' = [todo EXCEPT ![p] = @ \ {n}] /\ cur' = [cur EXCEPT ![p] = n]
      BY <1>2, Zenon DEF SweepJudge
    <2>1. CASE marker[n] = "plain" /\ Goto(p, "sweep", "sweep_lock")
      BY <1>2, <2>1 DEF SweepJudge
    <2>2. CASE marker[n] = "none" /\ n \in aged /\ Goto(p, "sweep", "sweep_rm")
      BY <1>2, <2>2 DEF SweepJudge
    <2>3. CASE Goto(p, "sweep", "sweep")
      BY <1>2, <2>3 DEF SweepJudge
    <2> QED BY <2>1, <2>2, <2>3 DEF Judge
  <1>3. CASE SweepMiss(p)       BY <1>3 DEF SweepMiss
  <1>4. CASE SweepSpare(p)      BY <1>4 DEF SweepSpare
  <1>5. CASE SweepLock(p)       BY <1>5 DEF SweepLock, Acquire, Held
  <1>6. CASE SweepUnlock(p)     BY <1>6 DEF SweepUnlock, Release
  <1>7. CASE SweepPurge(p)      BY <1>7 DEF SweepPurge, Purge
  <1>8. CASE SweepUnlink(p)     BY <1>8 DEF SweepUnlink, Unlink
  <1>9. CASE SweepEnd(p)        BY <1>9 DEF SweepEnd
  <1>10. CASE Mkdir(p)           BY <1>10 DEF Mkdir, Make
  <1>11. CASE MkdirAgain(p)      BY <1>11 DEF MkdirAgain, Make
  <1>12. CASE Claim(p)           BY <1>12 DEF Claim, Acquire
  <1>13. CASE ClaimFail(p)       BY <1>13 DEF ClaimFail
  <1>14. CASE WriteMarker(p)     BY <1>14 DEF WriteMarker, Mark
  <1>15. CASE WriteMarkerFail(p) BY <1>15 DEF WriteMarkerFail, Release
  <1>16. CASE MakeTree(p)        BY <1>16 DEF MakeTree
  <1>17. CASE Finish(p)          BY <1>17 DEF Finish
  <1>18. CASE Work(p)            BY <1>18 DEF Work
  <1>19. CASE KeepMark(p)        BY <1>19 DEF KeepMark, Mark
  <1>20. CASE KeepFail(p)        BY <1>20 DEF KeepFail, Release
  <1>21. CASE Unlock(p)          BY <1>21 DEF Unlock, Release
  <1>22. CASE CleanupPurge(p)    BY <1>22 DEF CleanupPurge, Purge
  <1>23. CASE CleanupUnlink(p)   BY <1>23 DEF CleanupUnlink, Unlink
  <1>24. CASE CleanupRetry(p)    BY <1>24 DEF CleanupRetry
  <1>25. CASE Crash(p)           BY <1>25 DEF Crash
  <1> QED
    BY <1>1, <1>2, <1>3, <1>4, <1>5, <1>6, <1>7, <1>8, <1>9, <1>10, <1>11,
         <1>12, <1>13, <1>14, <1>15, <1>16, <1>17, <1>18, <1>19,
         <1>20, <1>21, <1>22, <1>23, <1>24, <1>25
    DEF RunStep, Sweep, Create, Closing

\* A day that passes disturbs none of it.
LEMMA AgeStep ==
  ASSUME OwnerInv, NEW n \in Names, Age(n)
  PROVE  OwnerInv'
  <1> USE NamesAssumption DEF Age, Names
  <1>1. TypeOK'  BY DEF OwnerInv, TypeOK, sweep
  <1>2. CurInv'  BY DEF OwnerInv, CurInv, sweep
  <1>3. NamingInv'  BY DEF OwnerInv, NamingInv, TypeOK, sweep
  <1>4. JudgedInv'  BY DEF OwnerInv, JudgedInv, sweep
  <1>5. RandomInv'  BY DEF OwnerInv, RandomInv, sweep
  <1> QED BY <1>1, <1>2, <1>3, <1>4, <1>5 DEF OwnerInv

LEMMA StutterStep ==
  ASSUME OwnerInv, UNCHANGED vars
  PROVE  OwnerInv'
  BY DEF OwnerInv, TypeOK, CurInv, NamingInv, JudgedInv, RandomInv, vars, disk, sweep

LEMMA OwnerInit == Init => OwnerInv
  <1> SUFFICES ASSUME Init PROVE OwnerInv  OBVIOUS
  <1> USE NamesAssumption, AttemptsAssumption DEF Names
  <1> PICK left \in [Names -> Leftovers] :
         /\ \A p \in Runs : left[p] = "nothing"
         /\ there = {n \in Names : left[n] # "nothing"}
         /\ lock = [n \in Names |-> IF left[n] \in {"orphan", "kept"} THEN "free" ELSE "absent"]
         /\ marker = [n \in Names |-> CASE left[n] = "orphan" -> "plain"
                                        [] left[n] = "kept"   -> "kept"
                                        [] OTHER              -> "none"]
         /\ tree = [n \in Names |-> IF left[n] \in {"orphan", "kept"} THEN {Ghost} ELSE {}]
         /\ aged = {n \in Names : left[n] = "aged"}
    BY DEF Init
  <1>1. TypeOK
    <2>1. there \in SUBSET Names /\ aged \in SUBSET Names  OBVIOUS
    <2>2. lock \in [Names -> {"absent", "free"} \cup Runs]  OBVIOUS
    <2>3. marker \in [Names -> {"none", "plain", "kept"}]  OBVIOUS
    <2>4. tree \in [Names -> SUBSET (Runs \cup {Ghost})]  OBVIOUS
    <2>5. pc \in [Runs -> PCs] /\ name \in [Runs -> Names \cup {"none"}]  BY DEF Init, PCs
    <2>6. todo \in [Runs -> SUBSET Names] /\ cur \in [Runs -> Names \cup {"none"}]  BY DEF Init
    <2>7. again \in [Runs -> BOOLEAN] /\ failed \in [Runs -> SUBSET Names]  BY DEF Init
    <2>8. tries \in [Runs -> 0 .. CleanupAttempts]  BY DEF Init
    <2>9. seen \in [Runs -> [living : SUBSET Runs, kept : SUBSET Names, orphans : SUBSET Names]]
      BY DEF Init, Unseen
    <2> QED BY <2>1, <2>2, <2>3, <2>4, <2>5, <2>6, <2>7, <2>8, <2>9 DEF TypeOK
  <1>2. \A p \in Runs : pc[p] = "start" /\ name[p] = "none" /\ todo[p] = {} /\ cur[p] = "none"
    BY DEF Init
  <1>3. \A p \in Runs : /\ p \notin there /\ p \notin aged /\ lock[p] = "absent"
                        /\ marker[p] = "none" /\ tree[p] = {}
    OBVIOUS
  <1>4. CurInv  BY <1>2 DEF CurInv, SweepPCs
  <1>5. NamingInv  BY <1>2, <1>3 DEF NamingInv, MakingPCs, OwnedPCs
  <1>6. JudgedInv  BY <1>2 DEF JudgedInv
  <1>7. RandomInv  BY <1>2 DEF RandomInv
  <1> QED BY <1>1, <1>4, <1>5, <1>6, <1>7 DEF OwnerInv

\* The invariant holds in every reachable state, for any number of runs.
THEOREM OwnerCorrect == Spec => []OwnerInv
  <1>1. OwnerInv /\ [Next]_vars => OwnerInv'
    <2> SUFFICES ASSUME OwnerInv, [Next]_vars PROVE OwnerInv'  OBVIOUS
    <2>1. ASSUME NEW p \in Runs, RunStep(p) PROVE OwnerInv'
      <3> TypeOK /\ CurInv  BY DEF OwnerInv
      <3> QED BY <2>1, TypeStep, CurStep, NamingStep, JudgedStep, RandomStep DEF OwnerInv
    <2>2. ASSUME NEW n \in Names, Age(n) PROVE OwnerInv'  BY <2>2, AgeStep
    <2>3. CASE UNCHANGED vars  BY <2>3, StutterStep
    <2> QED BY <2>1, <2>2, <2>3 DEF Next, RunStep
  <1> QED BY OwnerInit, <1>1, PTL DEF Spec

\* The state keeps its shape, whatever the number of runs and attempts.
THEOREM TypeCorrect == Spec => []TypeOK
  <1>1. OwnerInv => TypeOK  BY DEF OwnerInv
  <1> QED BY <1>1, OwnerCorrect, PTL

\* A live run in a directory of its own random name is never disturbed by the
\* sweeps, failures and crashes of any number of others (Claim, Sweep, abandoned).
THEOREM RandomIsPrivate == Spec => []RandomNameIsPrivate
  <1>1. OwnerInv => RandomNameIsPrivate  BY DEF OwnerInv, RandomInv, RandomNameIsPrivate
  <1> QED BY <1>1, OwnerCorrect, PTL

-----------------------------------------------------------------------------
(* What a sweep may take *)

\* Who holds a lock has claimed the directory, or is a sweep between its two
\* steps.
LockInv ==
  \A n \in Names, r \in Runs : lock[n] = r =>
    \/ name[r] = n /\ pc[r] \in OwnedPCs \cup {"cleanup"}
    \/ cur[r] = n /\ pc[r] = "sweep_unlock"

\* What nothing has touched for a day is there.
AgedInv == \A n \in aged : n \in there

\* A run that holds the lock of what it made has marked it, or made it no day ago.
MarkedInv ==
  \A q \in Runs :
    /\ Owns(q) /\ pc[q] # "mark" => marker[name[q]] # "none"
    /\ pc[q] \in {"claim", "mark"} => name[q] \notin aged

\* A run that held its lock when a sweep saw it does not claim again, and while
\* it holds it the sweep does not remove what it made.
LivingInv ==
  \A p \in Runs : \A q \in seen[p].living :
    /\ pc[q] \notin BeforeMakingPCs \cup {"claim"}
    /\ pc[p] \in {"sweep_unlock", "sweep_rm", "sweep_rmdir"} /\ q # p /\ Owns(q) =>
         name[q] # cur[p]

\* A run that works has a marker.
PlainInv == \A q \in Runs : name[q] = q /\ pc[q] \in {"tree", "work"} => marker[q] = "plain"

\* The run of a random name that was kept does not write there again, and a
\* sweep that has seen it kept goes on only once it is emptied.
KeptByOwner(p, n) ==
  /\ n \in Runs => name[n] = n
  /\ \A q \in Runs : name[q] = n => pc[q] \notin {"claim", "mark", "tree", "work"}
  /\ marker[n] \in {"kept", "none"}
  /\ cur[p] = n /\ pc[p] \in SweepPCs \ {"sweep"} => marker[n] = "none"
KeptInv == \A p \in Runs : \A n \in seen[p].kept \ {Stable} : KeptByOwner(p, n)

\* A random name whose run has ended.
Forsaken(n) ==
  /\ n \in Runs => name[n] = n
  /\ \A q \in Runs : name[q] = n => pc[q] \in EndPCs

\* It is gone, or somebody is about to remove it, or died doing so.
Removing(q, n) ==
  cur[q] = n /\ (pc[q] \in {"sweep_unlock", "sweep_rm", "crashed"} \/ (pc[q] = "sweep_rmdir" /\ Empty(n)))
Taken(n) == n \notin there \/ \E q \in Runs : Removing(q, n)

\* An orphan that a sweep has listed looks abandoned until it is taken, and once
\* the sweep is through with it, it is taken or reported.
Orphan(p, n) ==
  /\ Forsaken(n)
  /\ marker[n] = "plain" \/ (marker[n] = "none" /\ n \in aged) \/ Taken(n)
  /\ pc[p] \in SweepPCs \cup {"mkdir"} =>
       \/ n \in todo[p] \cup failed[p] \/ Taken(n)
       \/ cur[p] = n /\ pc[p] \in {"sweep_lock", "sweep_rmdir"}
OrphanInv == \A p \in Runs : \A n \in seen[p].orphans \ {Stable} : Orphan(p, n)

\* A sweep goes on when it has judged all it listed.
ListInv == \A p \in Runs : pc[p] = "mkdir" => todo[p] = {}

SweepInv ==
  /\ LockInv /\ AgedInv /\ MarkedInv /\ LivingInv
  /\ PlainInv /\ KeptInv /\ OrphanInv /\ ListInv

\* Every step of a run preserves who may hold a lock.
LEMMA LockStep ==
  ASSUME TypeOK, CurInv, LockInv, NEW p \in Runs, RunStep(p)
  PROVE  LockInv'
  <1> USE NamesAssumption
  <1> USE DEF SweepPCs, OwnedPCs, MakingPCs, EndPCs, BeforeMakingPCs, Goto, Names, disk, sweep
  <1> /\ lock \in [Names -> {"absent", "free"} \cup Runs] /\ pc \in [Runs -> PCs]
      /\ name \in [Runs -> Names \cup {"none"}] /\ cur \in [Runs -> Names \cup {"none"}]
    BY DEF TypeOK
  <1> pc[p] \in SweepPCs \ {"sweep"} => cur[p] # "none"  BY DEF CurInv
  <1> SUFFICES ASSUME NEW n \in Names, NEW r \in Runs, lock'[n] = r
               PROVE  \/ name'[r] = n /\ pc'[r] \in OwnedPCs \cup {"cleanup"}
                      \/ cur'[r] = n /\ pc'[r] = "sweep_unlock"
    BY DEF LockInv
  <1> lock[n] = r => \/ name[r] = n /\ pc[r] \in OwnedPCs \cup {"cleanup"}
                     \/ cur[r] = n /\ pc[r] = "sweep_unlock"
    BY DEF LockInv
  <1>1. CASE SweepList(p)  BY <1>1 DEF SweepList
  <1>2. CASE SweepJudge(p)
    <2> PICK e \in todo[p] :
           Judge(p, e) /\ todo' = [todo EXCEPT ![p] = @ \ {e}] /\ cur' = [cur EXCEPT ![p] = e]
      BY <1>2, Zenon DEF SweepJudge
    <2>0. UNCHANGED <<disk, name, again, failed, tries, seen>>  BY <1>2 DEF SweepJudge
    <2>1. CASE marker[e] = "plain" /\ Goto(p, "sweep", "sweep_lock")
      BY <2>0, <2>1
    <2>2. CASE marker[e] = "none" /\ e \in aged /\ Goto(p, "sweep", "sweep_rm")
      BY <2>0, <2>2
    <2>3. CASE marker[e] = "none" /\ e \notin aged /\ Goto(p, "sweep", "sweep")
      BY <2>0, <2>3
    <2>4. CASE marker[e] = "kept" /\ Goto(p, "sweep", "sweep")
      BY <2>0, <2>4
    <2> QED BY <2>1, <2>2, <2>3, <2>4 DEF Judge
  <1>3. CASE SweepMiss(p)  BY <1>3 DEF SweepMiss
  <1>4. CASE SweepSpare(p)  BY <1>4 DEF SweepSpare, Held
  <1>5. CASE SweepLock(p)  BY <1>5 DEF SweepLock, Acquire, Held
  <1>6. CASE SweepUnlock(p)  BY <1>6 DEF SweepUnlock, Release
  <1>7. CASE SweepPurge(p)  BY <1>7 DEF SweepPurge, Purge
  <1>8. CASE SweepUnlink(p)
    <2>0. Goto(p, "sweep_rmdir", "sweep") /\ UNCHANGED <<name, todo, cur, again, tries, seen>>
      BY <1>8 DEF SweepUnlink
    <2>1. CASE Empty(cur[p]) /\ Unlink(cur[p]) /\ UNCHANGED failed
      BY <2>0, <2>1 DEF Unlink
    <2>2. CASE ~Empty(cur[p]) /\ failed' = [failed EXCEPT ![p] = @ \cup {cur[p]}] /\ UNCHANGED disk
      BY <2>0, <2>2
    <2> QED BY <1>8, <2>1, <2>2 DEF SweepUnlink
  <1>9. CASE SweepEnd(p)
    <2>0. todo[p] = {} /\ UNCHANGED <<disk, name, sweep, tries>>  BY <1>9 DEF SweepEnd
    <2>1. CASE Goto(p, "sweep", "mkdir")  BY <2>0, <2>1
    <2>2. CASE Goto(p, "sweep", "mkdir_again")  BY <2>0, <2>2
    <2> QED BY <1>9, <2>1, <2>2 DEF SweepEnd
  <1>10. CASE Mkdir(p)
    <2>0. UNCHANGED <<sweep, tries>>  BY <1>10 DEF Mkdir
    <2>1. CASE Goto(p, "mkdir", "claim") /\ Make(p, Stable)
      BY <2>0, <2>1 DEF Make
    <2>2. CASE Goto(p, "mkdir", "resweep") /\ UNCHANGED <<disk, name>>
      BY <2>0, <2>2
    <2> QED BY <1>10, <2>1, <2>2 DEF Mkdir
  <1>11. CASE MkdirAgain(p)
    <2>0. Goto(p, "mkdir_again", "claim") /\ UNCHANGED <<sweep, tries>>  BY <1>11 DEF MkdirAgain
    <2>1. CASE Make(p, Stable)
      BY <2>0, <2>1 DEF Make
    <2>2. CASE Make(p, p)
      BY <2>0, <2>2 DEF Make
    <2> QED BY <1>11, <2>1, <2>2 DEF MkdirAgain
  <1>12. CASE Claim(p)  BY <1>12 DEF Claim, Acquire, Held
  <1>13. CASE ClaimFail(p)  BY <1>13 DEF ClaimFail
  <1>14. CASE WriteMarker(p)  BY <1>14 DEF WriteMarker, Mark
  <1>15. CASE WriteMarkerFail(p)  BY <1>15 DEF WriteMarkerFail, Release
  <1>16. CASE MakeTree(p)  BY <1>16 DEF MakeTree
  <1>17. CASE Finish(p)  BY <1>17 DEF Finish
  <1>18. CASE Work(p)  BY <1>18 DEF Work
  <1>19. CASE KeepMark(p)  BY <1>19 DEF KeepMark, Mark
  <1>20. CASE KeepFail(p)  BY <1>20 DEF KeepFail, Release
  <1>21. CASE Unlock(p)  BY <1>21 DEF Unlock, Release
  <1>22. CASE CleanupPurge(p)  BY <1>22 DEF CleanupPurge, Purge
  <1>23. CASE CleanupUnlink(p)  BY <1>23 DEF CleanupUnlink, Unlink
  <1>24. CASE CleanupRetry(p)  BY <1>24 DEF CleanupRetry
  <1>25. CASE Crash(p)  BY <1>25 DEF Crash
  <1> QED
    BY <1>1, <1>2, <1>3, <1>4, <1>5, <1>6, <1>7, <1>8, <1>9, <1>10, <1>11,
         <1>12, <1>13, <1>14, <1>15, <1>16, <1>17, <1>18, <1>19,
         <1>20, <1>21, <1>22, <1>23, <1>24, <1>25
    DEF RunStep, Sweep, Create, Closing

\* Every step of a run leaves what is aged in the parent.
LEMMA AgedStep ==
  ASSUME OwnerInv, AgedInv, NEW p \in Runs, RunStep(p)
  PROVE  AgedInv'
  <1> USE NamesAssumption
  <1> USE DEF SweepPCs, OwnedPCs, MakingPCs, EndPCs, BeforeMakingPCs, Goto, Names, disk, sweep
  <1> SUFFICES ASSUME NEW n \in aged' PROVE n \in there'  BY DEF AgedInv
  <1> n \in aged => n \in there  BY DEF AgedInv
  <1>1. CASE SweepList(p)  BY <1>1 DEF SweepList
  <1>2. CASE SweepJudge(p)
    <2> PICK e \in todo[p] :
           Judge(p, e) /\ todo' = [todo EXCEPT ![p] = @ \ {e}] /\ cur' = [cur EXCEPT ![p] = e]
      BY <1>2, Zenon DEF SweepJudge
    <2>0. UNCHANGED <<disk, name, again, failed, tries, seen>>  BY <1>2 DEF SweepJudge
    <2>1. CASE marker[e] = "plain" /\ Goto(p, "sweep", "sweep_lock")
      BY <2>0, <2>1
    <2>2. CASE marker[e] = "none" /\ e \in aged /\ Goto(p, "sweep", "sweep_rm")
      BY <2>0, <2>2
    <2>3. CASE marker[e] = "none" /\ e \notin aged /\ Goto(p, "sweep", "sweep")
      BY <2>0, <2>3
    <2>4. CASE marker[e] = "kept" /\ Goto(p, "sweep", "sweep")
      BY <2>0, <2>4
    <2> QED BY <2>1, <2>2, <2>3, <2>4 DEF Judge
  <1>3. CASE SweepMiss(p)  BY <1>3 DEF SweepMiss
  <1>4. CASE SweepSpare(p)  BY <1>4 DEF SweepSpare, Held
  <1>5. CASE SweepLock(p)  BY <1>5 DEF SweepLock, Acquire, Held
  <1>6. CASE SweepUnlock(p)  BY <1>6 DEF SweepUnlock, Release
  <1>7. CASE SweepPurge(p)  BY <1>7 DEF SweepPurge, Purge
  <1>8. CASE SweepUnlink(p)
    <2>0. Goto(p, "sweep_rmdir", "sweep") /\ UNCHANGED <<name, todo, cur, again, tries, seen>>
      BY <1>8 DEF SweepUnlink
    <2>1. CASE Empty(cur[p]) /\ Unlink(cur[p]) /\ UNCHANGED failed
      BY <2>0, <2>1 DEF Unlink
    <2>2. CASE ~Empty(cur[p]) /\ failed' = [failed EXCEPT ![p] = @ \cup {cur[p]}] /\ UNCHANGED disk
      BY <2>0, <2>2
    <2> QED BY <1>8, <2>1, <2>2 DEF SweepUnlink
  <1>9. CASE SweepEnd(p)
    <2>0. todo[p] = {} /\ UNCHANGED <<disk, name, sweep, tries>>  BY <1>9 DEF SweepEnd
    <2>1. CASE Goto(p, "sweep", "mkdir")  BY <2>0, <2>1
    <2>2. CASE Goto(p, "sweep", "mkdir_again")  BY <2>0, <2>2
    <2> QED BY <1>9, <2>1, <2>2 DEF SweepEnd
  <1>10. CASE Mkdir(p)
    <2>0. UNCHANGED <<sweep, tries>>  BY <1>10 DEF Mkdir
    <2>1. CASE Goto(p, "mkdir", "claim") /\ Make(p, Stable)
      BY <2>0, <2>1 DEF Make
    <2>2. CASE Goto(p, "mkdir", "resweep") /\ UNCHANGED <<disk, name>>
      BY <2>0, <2>2
    <2> QED BY <1>10, <2>1, <2>2 DEF Mkdir
  <1>11. CASE MkdirAgain(p)
    <2>0. Goto(p, "mkdir_again", "claim") /\ UNCHANGED <<sweep, tries>>  BY <1>11 DEF MkdirAgain
    <2>1. CASE Make(p, Stable)
      BY <2>0, <2>1 DEF Make
    <2>2. CASE Make(p, p)
      BY <2>0, <2>2 DEF Make
    <2> QED BY <1>11, <2>1, <2>2 DEF MkdirAgain
  <1>12. CASE Claim(p)  BY <1>12 DEF Claim, Acquire, Held
  <1>13. CASE ClaimFail(p)  BY <1>13 DEF ClaimFail
  <1>14. CASE WriteMarker(p)  BY <1>14 DEF WriteMarker, Mark
  <1>15. CASE WriteMarkerFail(p)  BY <1>15 DEF WriteMarkerFail, Release
  <1>16. CASE MakeTree(p)  BY <1>16 DEF MakeTree
  <1>17. CASE Finish(p)  BY <1>17 DEF Finish
  <1>18. CASE Work(p)  BY <1>18 DEF Work
  <1>19. CASE KeepMark(p)  BY <1>19 DEF KeepMark, Mark
  <1>20. CASE KeepFail(p)  BY <1>20 DEF KeepFail, Release
  <1>21. CASE Unlock(p)  BY <1>21 DEF Unlock, Release
  <1>22. CASE CleanupPurge(p)  BY <1>22 DEF CleanupPurge, Purge
  <1>23. CASE CleanupUnlink(p)  BY <1>23 DEF CleanupUnlink, Unlink
  <1>24. CASE CleanupRetry(p)  BY <1>24 DEF CleanupRetry
  <1>25. CASE Crash(p)  BY <1>25 DEF Crash
  <1> QED
    BY <1>1, <1>2, <1>3, <1>4, <1>5, <1>6, <1>7, <1>8, <1>9, <1>10, <1>11,
         <1>12, <1>13, <1>14, <1>15, <1>16, <1>17, <1>18, <1>19,
         <1>20, <1>21, <1>22, <1>23, <1>24, <1>25
    DEF RunStep, Sweep, Create, Closing

\* Every step of a run leaves a sweep that is over nothing to judge.
LEMMA ListStep ==
  ASSUME TypeOK, ListInv, NEW p \in Runs, RunStep(p)
  PROVE  ListInv'
  <1> USE NamesAssumption
  <1> USE DEF SweepPCs, OwnedPCs, MakingPCs, EndPCs, BeforeMakingPCs, Goto, Names, disk, sweep
  <1> pc \in [Runs -> PCs] /\ todo \in [Runs -> SUBSET Names]  BY DEF TypeOK
  <1> SUFFICES ASSUME NEW q \in Runs, pc'[q] = "mkdir" PROVE todo'[q] = {}  BY DEF ListInv
  <1> pc[q] = "mkdir" => todo[q] = {}  BY DEF ListInv
  <1>1. CASE SweepList(p)  BY <1>1 DEF SweepList
  <1>2. CASE SweepJudge(p)
    <2> PICK e \in todo[p] :
           Judge(p, e) /\ todo' = [todo EXCEPT ![p] = @ \ {e}] /\ cur' = [cur EXCEPT ![p] = e]
      BY <1>2, Zenon DEF SweepJudge
    <2>0. UNCHANGED <<disk, name, again, failed, tries, seen>>  BY <1>2 DEF SweepJudge
    <2>1. CASE marker[e] = "plain" /\ Goto(p, "sweep", "sweep_lock")
      BY <2>0, <2>1
    <2>2. CASE marker[e] = "none" /\ e \in aged /\ Goto(p, "sweep", "sweep_rm")
      BY <2>0, <2>2
    <2>3. CASE marker[e] = "none" /\ e \notin aged /\ Goto(p, "sweep", "sweep")
      BY <2>0, <2>3
    <2>4. CASE marker[e] = "kept" /\ Goto(p, "sweep", "sweep")
      BY <2>0, <2>4
    <2> QED BY <2>1, <2>2, <2>3, <2>4 DEF Judge
  <1>3. CASE SweepMiss(p)  BY <1>3 DEF SweepMiss
  <1>4. CASE SweepSpare(p)  BY <1>4 DEF SweepSpare, Held
  <1>5. CASE SweepLock(p)  BY <1>5 DEF SweepLock, Acquire, Held
  <1>6. CASE SweepUnlock(p)  BY <1>6 DEF SweepUnlock, Release
  <1>7. CASE SweepPurge(p)  BY <1>7 DEF SweepPurge, Purge
  <1>8. CASE SweepUnlink(p)
    <2>0. Goto(p, "sweep_rmdir", "sweep") /\ UNCHANGED <<name, todo, cur, again, tries, seen>>
      BY <1>8 DEF SweepUnlink
    <2>1. CASE Empty(cur[p]) /\ Unlink(cur[p]) /\ UNCHANGED failed
      BY <2>0, <2>1 DEF Unlink
    <2>2. CASE ~Empty(cur[p]) /\ failed' = [failed EXCEPT ![p] = @ \cup {cur[p]}] /\ UNCHANGED disk
      BY <2>0, <2>2
    <2> QED BY <1>8, <2>1, <2>2 DEF SweepUnlink
  <1>9. CASE SweepEnd(p)
    <2>0. todo[p] = {} /\ UNCHANGED <<disk, name, sweep, tries>>  BY <1>9 DEF SweepEnd
    <2>1. CASE Goto(p, "sweep", "mkdir")  BY <2>0, <2>1
    <2>2. CASE Goto(p, "sweep", "mkdir_again")  BY <2>0, <2>2
    <2> QED BY <1>9, <2>1, <2>2 DEF SweepEnd
  <1>10. CASE Mkdir(p)
    <2>0. UNCHANGED <<sweep, tries>>  BY <1>10 DEF Mkdir
    <2>1. CASE Goto(p, "mkdir", "claim") /\ Make(p, Stable)
      BY <2>0, <2>1 DEF Make
    <2>2. CASE Goto(p, "mkdir", "resweep") /\ UNCHANGED <<disk, name>>
      BY <2>0, <2>2
    <2> QED BY <1>10, <2>1, <2>2 DEF Mkdir
  <1>11. CASE MkdirAgain(p)
    <2>0. Goto(p, "mkdir_again", "claim") /\ UNCHANGED <<sweep, tries>>  BY <1>11 DEF MkdirAgain
    <2>1. CASE Make(p, Stable)
      BY <2>0, <2>1 DEF Make
    <2>2. CASE Make(p, p)
      BY <2>0, <2>2 DEF Make
    <2> QED BY <1>11, <2>1, <2>2 DEF MkdirAgain
  <1>12. CASE Claim(p)  BY <1>12 DEF Claim, Acquire, Held
  <1>13. CASE ClaimFail(p)  BY <1>13 DEF ClaimFail
  <1>14. CASE WriteMarker(p)  BY <1>14 DEF WriteMarker, Mark
  <1>15. CASE WriteMarkerFail(p)  BY <1>15 DEF WriteMarkerFail, Release
  <1>16. CASE MakeTree(p)  BY <1>16 DEF MakeTree
  <1>17. CASE Finish(p)  BY <1>17 DEF Finish
  <1>18. CASE Work(p)  BY <1>18 DEF Work
  <1>19. CASE KeepMark(p)  BY <1>19 DEF KeepMark, Mark
  <1>20. CASE KeepFail(p)  BY <1>20 DEF KeepFail, Release
  <1>21. CASE Unlock(p)  BY <1>21 DEF Unlock, Release
  <1>22. CASE CleanupPurge(p)  BY <1>22 DEF CleanupPurge, Purge
  <1>23. CASE CleanupUnlink(p)  BY <1>23 DEF CleanupUnlink, Unlink
  <1>24. CASE CleanupRetry(p)  BY <1>24 DEF CleanupRetry
  <1>25. CASE Crash(p)  BY <1>25 DEF Crash
  <1> QED
    BY <1>1, <1>2, <1>3, <1>4, <1>5, <1>6, <1>7, <1>8, <1>9, <1>10, <1>11,
         <1>12, <1>13, <1>14, <1>15, <1>16, <1>17, <1>18, <1>19,
         <1>20, <1>21, <1>22, <1>23, <1>24, <1>25
    DEF RunStep, Sweep, Create, Closing

\* Every step of a run leaves the live ones marked or young.
LEMMA MarkedStep ==
  ASSUME OwnerInv, LockInv, AgedInv, MarkedInv, NEW p \in Runs, RunStep(p)
  PROVE  MarkedInv'
  <1> USE NamesAssumption
  <1> USE DEF SweepPCs, OwnedPCs, MakingPCs, EndPCs, BeforeMakingPCs, Goto, Names, disk, sweep
  <1> /\ lock \in [Names -> {"absent", "free"} \cup Runs] /\ pc \in [Runs -> PCs]
      /\ name \in [Runs -> Names \cup {"none"}] /\ cur \in [Runs -> Names \cup {"none"}]
      /\ marker \in [Names -> {"none", "plain", "kept"}]
    BY DEF OwnerInv, TypeOK
  <1> pc[p] \in SweepPCs \ {"sweep"} => cur[p] # "none"  BY DEF OwnerInv, CurInv
  <1> /\ pc[p] \in BeforeMakingPCs => name[p] = "none"
      /\ pc[p] \in MakingPCs \cup OwnedPCs => name[p] # "none"
    BY DEF OwnerInv, NamingInv
  <1> \A n \in Names : n \in aged => n \in there  BY DEF AgedInv
  <1> \A n \in Names : lock[n] = p => pc[p] \in OwnedPCs \cup {"cleanup", "sweep_unlock"}
    BY DEF LockInv
  <1> SUFFICES ASSUME NEW q \in Runs
               PROVE  /\ Owns(q)' /\ pc'[q] # "mark" => marker'[name'[q]] # "none"
                      /\ pc'[q] \in {"claim", "mark"} => name'[q] \notin aged'
    BY DEF MarkedInv
  <1> /\ Owns(q) /\ pc[q] # "mark" => marker[name[q]] # "none"
      /\ pc[q] \in {"claim", "mark"} => name[q] \notin aged
      /\ pc[q] \in BeforeMakingPCs => name[q] = "none"
    BY DEF MarkedInv, OwnerInv, NamingInv
  <1> USE DEF Owns
  <1>1. CASE SweepList(p)  BY <1>1 DEF SweepList
  <1>2. CASE SweepJudge(p)
    <2> PICK e \in todo[p] :
           Judge(p, e) /\ todo' = [todo EXCEPT ![p] = @ \ {e}] /\ cur' = [cur EXCEPT ![p] = e]
      BY <1>2, Zenon DEF SweepJudge
    <2>0. UNCHANGED <<disk, name, again, failed, tries, seen>>  BY <1>2 DEF SweepJudge
    <2>1. CASE marker[e] = "plain" /\ Goto(p, "sweep", "sweep_lock")
      BY <2>0, <2>1
    <2>2. CASE marker[e] = "none" /\ e \in aged /\ Goto(p, "sweep", "sweep_rm")
      BY <2>0, <2>2
    <2>3. CASE marker[e] = "none" /\ e \notin aged /\ Goto(p, "sweep", "sweep")
      BY <2>0, <2>3
    <2>4. CASE marker[e] = "kept" /\ Goto(p, "sweep", "sweep")
      BY <2>0, <2>4
    <2> QED BY <2>1, <2>2, <2>3, <2>4 DEF Judge
  <1>3. CASE SweepMiss(p)  BY <1>3 DEF SweepMiss
  <1>4. CASE SweepSpare(p)  BY <1>4 DEF SweepSpare, Held
  <1>5. CASE SweepLock(p)  BY <1>5 DEF SweepLock, Acquire, Held
  <1>6. CASE SweepUnlock(p)  BY <1>6 DEF SweepUnlock, Release
  <1>7. CASE SweepPurge(p)  BY <1>7 DEF SweepPurge, Purge
  <1>8. CASE SweepUnlink(p)
    <2>0. Goto(p, "sweep_rmdir", "sweep") /\ UNCHANGED <<name, todo, cur, again, tries, seen>>
      BY <1>8 DEF SweepUnlink
    <2>1. CASE Empty(cur[p]) /\ Unlink(cur[p]) /\ UNCHANGED failed
      BY <2>0, <2>1 DEF Unlink
    <2>2. CASE ~Empty(cur[p]) /\ failed' = [failed EXCEPT ![p] = @ \cup {cur[p]}] /\ UNCHANGED disk
      BY <2>0, <2>2
    <2> QED BY <1>8, <2>1, <2>2 DEF SweepUnlink
  <1>9. CASE SweepEnd(p)
    <2>0. todo[p] = {} /\ UNCHANGED <<disk, name, sweep, tries>>  BY <1>9 DEF SweepEnd
    <2>1. CASE Goto(p, "sweep", "mkdir")  BY <2>0, <2>1
    <2>2. CASE Goto(p, "sweep", "mkdir_again")  BY <2>0, <2>2
    <2> QED BY <1>9, <2>1, <2>2 DEF SweepEnd
  <1>10. CASE Mkdir(p)
    <2>0. UNCHANGED <<sweep, tries>>  BY <1>10 DEF Mkdir
    <2>1. CASE Goto(p, "mkdir", "claim") /\ Make(p, Stable)
      BY <2>0, <2>1 DEF Make
    <2>2. CASE Goto(p, "mkdir", "resweep") /\ UNCHANGED <<disk, name>>
      BY <2>0, <2>2
    <2> QED BY <1>10, <2>1, <2>2 DEF Mkdir
  <1>11. CASE MkdirAgain(p)
    <2>0. Goto(p, "mkdir_again", "claim") /\ UNCHANGED <<sweep, tries>>  BY <1>11 DEF MkdirAgain
    <2>1. CASE Make(p, Stable)
      BY <2>0, <2>1 DEF Make
    <2>2. CASE Make(p, p)
      BY <2>0, <2>2 DEF Make
    <2> QED BY <1>11, <2>1, <2>2 DEF MkdirAgain
  <1>12. CASE Claim(p)  BY <1>12 DEF Claim, Acquire, Held
  <1>13. CASE ClaimFail(p)  BY <1>13 DEF ClaimFail
  <1>14. CASE WriteMarker(p)  BY <1>14 DEF WriteMarker, Mark
  <1>15. CASE WriteMarkerFail(p)  BY <1>15 DEF WriteMarkerFail, Release
  <1>16. CASE MakeTree(p)  BY <1>16 DEF MakeTree
  <1>17. CASE Finish(p)  BY <1>17 DEF Finish
  <1>18. CASE Work(p)  BY <1>18 DEF Work
  <1>19. CASE KeepMark(p)  BY <1>19 DEF KeepMark, Mark
  <1>20. CASE KeepFail(p)  BY <1>20 DEF KeepFail, Release
  <1>21. CASE Unlock(p)  BY <1>21 DEF Unlock, Release
  <1>22. CASE CleanupPurge(p)  BY <1>22 DEF CleanupPurge, Purge
  <1>23. CASE CleanupUnlink(p)  BY <1>23 DEF CleanupUnlink, Unlink
  <1>24. CASE CleanupRetry(p)  BY <1>24 DEF CleanupRetry
  <1>25. CASE Crash(p)  BY <1>25 DEF Crash
  <1> QED
    BY <1>1, <1>2, <1>3, <1>4, <1>5, <1>6, <1>7, <1>8, <1>9, <1>10, <1>11,
         <1>12, <1>13, <1>14, <1>15, <1>16, <1>17, <1>18, <1>19,
         <1>20, <1>21, <1>22, <1>23, <1>24, <1>25
    DEF RunStep, Sweep, Create, Closing

\* Every step of a run preserves what is known of the live ones a sweep has seen.
LEMMA LivingStep ==
  ASSUME OwnerInv, LockInv, MarkedInv, LivingInv, NEW p \in Runs, RunStep(p)
  PROVE  LivingInv'
  <1> USE NamesAssumption
  <1> USE DEF SweepPCs, OwnedPCs, MakingPCs, EndPCs, BeforeMakingPCs, Goto, Names, disk, sweep
  <1> /\ lock \in [Names -> {"absent", "free"} \cup Runs] /\ pc \in [Runs -> PCs]
      /\ name \in [Runs -> Names \cup {"none"}] /\ cur \in [Runs -> Names \cup {"none"}]
      /\ marker \in [Names -> {"none", "plain", "kept"}]
    BY DEF OwnerInv, TypeOK
  <1> pc[p] \in SweepPCs \ {"sweep"} => cur[p] # "none"  BY DEF OwnerInv, CurInv
  <1> /\ pc[p] \in BeforeMakingPCs => name[p] = "none"
      /\ pc[p] \in MakingPCs \cup OwnedPCs => name[p] # "none"
    BY DEF OwnerInv, NamingInv
  <1>0. seen \in [Runs -> [living : SUBSET Runs, kept : SUBSET Names, orphans : SUBSET Names]]
    BY DEF OwnerInv, TypeOK
  <1> SUFFICES ASSUME NEW s \in Runs, NEW q \in seen'[s].living
               PROVE  /\ pc'[q] \notin BeforeMakingPCs \cup {"claim"}
                      /\ pc'[s] \in {"sweep_unlock", "sweep_rm", "sweep_rmdir"} /\ q # s /\ Owns(q)'
                           => name'[q] # cur'[s]
    BY DEF LivingInv
  <1> q \in Runs
    <2>1. TypeOK'  BY TypeStep DEF OwnerInv
    <2> QED BY <2>1 DEF TypeOK
  <1> q \in seen[s].living =>
        /\ pc[q] \notin BeforeMakingPCs \cup {"claim"}
        /\ pc[s] \in {"sweep_unlock", "sweep_rm", "sweep_rmdir"} /\ q # s /\ Owns(q) => name[q] # cur[s]
    BY DEF LivingInv
  <1> Owns(q) => pc[q] \in OwnedPCs \cup {"cleanup"} /\ (marker[name[q]] = "none" => name[q] \notin aged)
    <2>1. pc[q] \in BeforeMakingPCs => name[q] = "none"  BY DEF OwnerInv, NamingInv
    <2> QED BY <2>1 DEF Owns, LockInv, MarkedInv
  <1> USE DEF Owns
  <1>1. CASE SweepList(p)  BY <1>1, <1>0 DEF SweepList
  <1>2. CASE SweepJudge(p)
    <2> PICK e \in todo[p] :
           Judge(p, e) /\ todo' = [todo EXCEPT ![p] = @ \ {e}] /\ cur' = [cur EXCEPT ![p] = e]
      BY <1>2, Zenon DEF SweepJudge
    <2>0. UNCHANGED <<disk, name, again, failed, tries, seen>>  BY <1>2 DEF SweepJudge
    <2>1. CASE marker[e] = "plain" /\ Goto(p, "sweep", "sweep_lock")
      BY <2>0, <2>1
    <2>2. CASE marker[e] = "none" /\ e \in aged /\ Goto(p, "sweep", "sweep_rm")
      BY <2>0, <2>2
    <2>3. CASE marker[e] = "none" /\ e \notin aged /\ Goto(p, "sweep", "sweep")
      BY <2>0, <2>3
    <2>4. CASE marker[e] = "kept" /\ Goto(p, "sweep", "sweep")
      BY <2>0, <2>4
    <2> QED BY <2>1, <2>2, <2>3, <2>4 DEF Judge
  <1>3. CASE SweepMiss(p)  BY <1>3 DEF SweepMiss
  <1>4. CASE SweepSpare(p)  BY <1>4 DEF SweepSpare, Held
  <1>5. CASE SweepLock(p)  BY <1>5 DEF SweepLock, Acquire, Held
  <1>6. CASE SweepUnlock(p)  BY <1>6 DEF SweepUnlock, Release
  <1>7. CASE SweepPurge(p)  BY <1>7 DEF SweepPurge, Purge
  <1>8. CASE SweepUnlink(p)
    <2>0. Goto(p, "sweep_rmdir", "sweep") /\ UNCHANGED <<name, todo, cur, again, tries, seen>>
      BY <1>8 DEF SweepUnlink
    <2>1. CASE Empty(cur[p]) /\ Unlink(cur[p]) /\ UNCHANGED failed
      BY <2>0, <2>1 DEF Unlink
    <2>2. CASE ~Empty(cur[p]) /\ failed' = [failed EXCEPT ![p] = @ \cup {cur[p]}] /\ UNCHANGED disk
      BY <2>0, <2>2
    <2> QED BY <1>8, <2>1, <2>2 DEF SweepUnlink
  <1>9. CASE SweepEnd(p)
    <2>0. todo[p] = {} /\ UNCHANGED <<disk, name, sweep, tries>>  BY <1>9 DEF SweepEnd
    <2>1. CASE Goto(p, "sweep", "mkdir")  BY <2>0, <2>1
    <2>2. CASE Goto(p, "sweep", "mkdir_again")  BY <2>0, <2>2
    <2> QED BY <1>9, <2>1, <2>2 DEF SweepEnd
  <1>10. CASE Mkdir(p)
    <2>0. UNCHANGED <<sweep, tries>>  BY <1>10 DEF Mkdir
    <2>1. CASE Goto(p, "mkdir", "claim") /\ Make(p, Stable)
      BY <2>0, <2>1 DEF Make
    <2>2. CASE Goto(p, "mkdir", "resweep") /\ UNCHANGED <<disk, name>>
      BY <2>0, <2>2
    <2> QED BY <1>10, <2>1, <2>2 DEF Mkdir
  <1>11. CASE MkdirAgain(p)
    <2>0. Goto(p, "mkdir_again", "claim") /\ UNCHANGED <<sweep, tries>>  BY <1>11 DEF MkdirAgain
    <2>1. CASE Make(p, Stable)
      BY <2>0, <2>1 DEF Make
    <2>2. CASE Make(p, p)
      BY <2>0, <2>2 DEF Make
    <2> QED BY <1>11, <2>1, <2>2 DEF MkdirAgain
  <1>12. CASE Claim(p)  BY <1>12 DEF Claim, Acquire, Held
  <1>13. CASE ClaimFail(p)  BY <1>13 DEF ClaimFail
  <1>14. CASE WriteMarker(p)  BY <1>14 DEF WriteMarker, Mark
  <1>15. CASE WriteMarkerFail(p)  BY <1>15 DEF WriteMarkerFail, Release
  <1>16. CASE MakeTree(p)  BY <1>16 DEF MakeTree
  <1>17. CASE Finish(p)  BY <1>17 DEF Finish
  <1>18. CASE Work(p)  BY <1>18 DEF Work
  <1>19. CASE KeepMark(p)  BY <1>19 DEF KeepMark, Mark
  <1>20. CASE KeepFail(p)  BY <1>20 DEF KeepFail, Release
  <1>21. CASE Unlock(p)  BY <1>21 DEF Unlock, Release
  <1>22. CASE CleanupPurge(p)  BY <1>22 DEF CleanupPurge, Purge
  <1>23. CASE CleanupUnlink(p)  BY <1>23 DEF CleanupUnlink, Unlink
  <1>24. CASE CleanupRetry(p)  BY <1>24 DEF CleanupRetry
  <1>25. CASE Crash(p)  BY <1>25 DEF Crash
  <1> QED
    BY <1>1, <1>2, <1>3, <1>4, <1>5, <1>6, <1>7, <1>8, <1>9, <1>10, <1>11,
         <1>12, <1>13, <1>14, <1>15, <1>16, <1>17, <1>18, <1>19,
         <1>20, <1>21, <1>22, <1>23, <1>24, <1>25
    DEF RunStep, Sweep, Create, Closing

\* Every step of a run leaves those that work marked.
LEMMA PlainStep ==
  ASSUME OwnerInv, PlainInv, NEW p \in Runs, RunStep(p)
  PROVE  PlainInv'
  <1> USE NamesAssumption
  <1> USE DEF SweepPCs, OwnedPCs, MakingPCs, EndPCs, BeforeMakingPCs, Goto, Names, disk, sweep
  <1> /\ lock \in [Names -> {"absent", "free"} \cup Runs] /\ pc \in [Runs -> PCs]
      /\ name \in [Runs -> Names \cup {"none"}] /\ cur \in [Runs -> Names \cup {"none"}]
      /\ marker \in [Names -> {"none", "plain", "kept"}]
    BY DEF OwnerInv, TypeOK
  <1> pc[p] \in SweepPCs \ {"sweep"} => cur[p] # "none"  BY DEF OwnerInv, CurInv
  <1> /\ pc[p] \in BeforeMakingPCs => name[p] = "none"
      /\ pc[p] \in MakingPCs \cup OwnedPCs => name[p] # "none"
    BY DEF OwnerInv, NamingInv
  <1> SUFFICES ASSUME NEW q \in Runs, name'[q] = q, pc'[q] \in {"tree", "work"}
               PROVE  marker'[q] = "plain"
    BY DEF PlainInv
  <1> /\ name[q] = q /\ pc[q] \in {"tree", "work"} => marker[q] = "plain"
      /\ pc[q] \in BeforeMakingPCs => name[q] = "none"
      /\ name[p] \in {"none", Stable, p}
      /\ cur[p] = q /\ pc[p] \in {"sweep_unlock", "sweep_rm", "sweep_rmdir"} =>
           pc[q] \notin MakingPCs \cup OwnedPCs
    BY DEF PlainInv, OwnerInv, NamingInv, JudgedInv
  <1>1. CASE SweepList(p)  BY <1>1 DEF SweepList
  <1>2. CASE SweepJudge(p)
    <2> PICK e \in todo[p] :
           Judge(p, e) /\ todo' = [todo EXCEPT ![p] = @ \ {e}] /\ cur' = [cur EXCEPT ![p] = e]
      BY <1>2, Zenon DEF SweepJudge
    <2>0. UNCHANGED <<disk, name, again, failed, tries, seen>>  BY <1>2 DEF SweepJudge
    <2>1. CASE marker[e] = "plain" /\ Goto(p, "sweep", "sweep_lock")
      BY <2>0, <2>1
    <2>2. CASE marker[e] = "none" /\ e \in aged /\ Goto(p, "sweep", "sweep_rm")
      BY <2>0, <2>2
    <2>3. CASE marker[e] = "none" /\ e \notin aged /\ Goto(p, "sweep", "sweep")
      BY <2>0, <2>3
    <2>4. CASE marker[e] = "kept" /\ Goto(p, "sweep", "sweep")
      BY <2>0, <2>4
    <2> QED BY <2>1, <2>2, <2>3, <2>4 DEF Judge
  <1>3. CASE SweepMiss(p)  BY <1>3 DEF SweepMiss
  <1>4. CASE SweepSpare(p)  BY <1>4 DEF SweepSpare, Held
  <1>5. CASE SweepLock(p)  BY <1>5 DEF SweepLock, Acquire, Held
  <1>6. CASE SweepUnlock(p)  BY <1>6 DEF SweepUnlock, Release
  <1>7. CASE SweepPurge(p)  BY <1>7 DEF SweepPurge, Purge
  <1>8. CASE SweepUnlink(p)
    <2>0. Goto(p, "sweep_rmdir", "sweep") /\ UNCHANGED <<name, todo, cur, again, tries, seen>>
      BY <1>8 DEF SweepUnlink
    <2>1. CASE Empty(cur[p]) /\ Unlink(cur[p]) /\ UNCHANGED failed
      BY <2>0, <2>1 DEF Unlink
    <2>2. CASE ~Empty(cur[p]) /\ failed' = [failed EXCEPT ![p] = @ \cup {cur[p]}] /\ UNCHANGED disk
      BY <2>0, <2>2
    <2> QED BY <1>8, <2>1, <2>2 DEF SweepUnlink
  <1>9. CASE SweepEnd(p)
    <2>0. todo[p] = {} /\ UNCHANGED <<disk, name, sweep, tries>>  BY <1>9 DEF SweepEnd
    <2>1. CASE Goto(p, "sweep", "mkdir")  BY <2>0, <2>1
    <2>2. CASE Goto(p, "sweep", "mkdir_again")  BY <2>0, <2>2
    <2> QED BY <1>9, <2>1, <2>2 DEF SweepEnd
  <1>10. CASE Mkdir(p)
    <2>0. UNCHANGED <<sweep, tries>>  BY <1>10 DEF Mkdir
    <2>1. CASE Goto(p, "mkdir", "claim") /\ Make(p, Stable)
      BY <2>0, <2>1 DEF Make
    <2>2. CASE Goto(p, "mkdir", "resweep") /\ UNCHANGED <<disk, name>>
      BY <2>0, <2>2
    <2> QED BY <1>10, <2>1, <2>2 DEF Mkdir
  <1>11. CASE MkdirAgain(p)
    <2>0. Goto(p, "mkdir_again", "claim") /\ UNCHANGED <<sweep, tries>>  BY <1>11 DEF MkdirAgain
    <2>1. CASE Make(p, Stable)
      BY <2>0, <2>1 DEF Make
    <2>2. CASE Make(p, p)
      BY <2>0, <2>2 DEF Make
    <2> QED BY <1>11, <2>1, <2>2 DEF MkdirAgain
  <1>12. CASE Claim(p)  BY <1>12 DEF Claim, Acquire, Held
  <1>13. CASE ClaimFail(p)  BY <1>13 DEF ClaimFail
  <1>14. CASE WriteMarker(p)  BY <1>14 DEF WriteMarker, Mark
  <1>15. CASE WriteMarkerFail(p)  BY <1>15 DEF WriteMarkerFail, Release
  <1>16. CASE MakeTree(p)  BY <1>16 DEF MakeTree
  <1>17. CASE Finish(p)  BY <1>17 DEF Finish
  <1>18. CASE Work(p)  BY <1>18 DEF Work
  <1>19. CASE KeepMark(p)  BY <1>19 DEF KeepMark, Mark
  <1>20. CASE KeepFail(p)  BY <1>20 DEF KeepFail, Release
  <1>21. CASE Unlock(p)  BY <1>21 DEF Unlock, Release
  <1>22. CASE CleanupPurge(p)  BY <1>22 DEF CleanupPurge, Purge
  <1>23. CASE CleanupUnlink(p)  BY <1>23 DEF CleanupUnlink, Unlink
  <1>24. CASE CleanupRetry(p)  BY <1>24 DEF CleanupRetry
  <1>25. CASE Crash(p)  BY <1>25 DEF Crash
  <1> QED
    BY <1>1, <1>2, <1>3, <1>4, <1>5, <1>6, <1>7, <1>8, <1>9, <1>10, <1>11,
         <1>12, <1>13, <1>14, <1>15, <1>16, <1>17, <1>18, <1>19,
         <1>20, <1>21, <1>22, <1>23, <1>24, <1>25
    DEF RunStep, Sweep, Create, Closing

\* Every step of a run preserves what is known of the kept ones a sweep has seen.
LEMMA KeptStep ==
  ASSUME OwnerInv, PlainInv, KeptInv, NEW p \in Runs, RunStep(p)
  PROVE  KeptInv'
  <1> USE NamesAssumption
  <1> USE DEF SweepPCs, OwnedPCs, MakingPCs, EndPCs, BeforeMakingPCs, Goto, Names, disk, sweep
  <1> /\ lock \in [Names -> {"absent", "free"} \cup Runs] /\ pc \in [Runs -> PCs]
      /\ name \in [Runs -> Names \cup {"none"}] /\ cur \in [Runs -> Names \cup {"none"}]
      /\ marker \in [Names -> {"none", "plain", "kept"}]
    BY DEF OwnerInv, TypeOK
  <1> pc[p] \in SweepPCs \ {"sweep"} => cur[p] # "none"  BY DEF OwnerInv, CurInv
  <1> /\ pc[p] \in BeforeMakingPCs => name[p] = "none"
      /\ pc[p] \in MakingPCs \cup OwnedPCs => name[p] # "none"
    BY DEF OwnerInv, NamingInv
  <1>0. seen \in [Runs -> [living : SUBSET Runs, kept : SUBSET Names, orphans : SUBSET Names]]
    BY DEF OwnerInv, TypeOK
  <1> SUFFICES ASSUME NEW s \in Runs, NEW n \in seen'[s].kept \ {Stable}
               PROVE  KeptByOwner(s, n)'
    BY DEF KeptInv
  <1> n \in Names
    <2>1. TypeOK'  BY TypeStep DEF OwnerInv
    <2> QED BY <2>1 DEF TypeOK
  <1>a. n \in seen[s].kept => KeptByOwner(s, n)  BY DEF KeptInv
  <1>b. \A q \in Runs : name[q] \in {"none", Stable, q} /\ (pc[q] \in BeforeMakingPCs => name[q] = "none")
    BY DEF OwnerInv, NamingInv
  <1> USE <1>a, <1>b DEF KeptByOwner
  <1>1. CASE SweepList(p)
    <2>1. CASE n \in seen[s].kept  BY <1>1, <2>1 DEF SweepList
    <2>2. CASE n \notin seen[s].kept
      <3>1. s = p /\ n \in there /\ marker[n] = "kept"  BY <1>1, <1>0, <2>2 DEF SweepList
      <3>2. n \in Runs => /\ name[n] = n
                         /\ pc[n] \notin {"claim", "mark", "tree", "work"}
        BY <3>1 DEF OwnerInv, NamingInv, RandomInv, PlainInv
      <3> QED BY <1>1, <3>1, <3>2 DEF SweepList
    <2> QED BY <2>1, <2>2
  <1>2. CASE SweepJudge(p)
    <2> PICK e \in todo[p] :
           Judge(p, e) /\ todo' = [todo EXCEPT ![p] = @ \ {e}] /\ cur' = [cur EXCEPT ![p] = e]
      BY <1>2, Zenon DEF SweepJudge
    <2>0. UNCHANGED <<disk, name, again, failed, tries, seen>>  BY <1>2 DEF SweepJudge
    <2>1. CASE marker[e] = "plain" /\ Goto(p, "sweep", "sweep_lock")
      BY <2>0, <2>1
    <2>2. CASE marker[e] = "none" /\ e \in aged /\ Goto(p, "sweep", "sweep_rm")
      BY <2>0, <2>2
    <2>3. CASE marker[e] = "none" /\ e \notin aged /\ Goto(p, "sweep", "sweep")
      BY <2>0, <2>3
    <2>4. CASE marker[e] = "kept" /\ Goto(p, "sweep", "sweep")
      BY <2>0, <2>4
    <2> QED BY <2>1, <2>2, <2>3, <2>4 DEF Judge
  <1>3. CASE SweepMiss(p)  BY <1>3 DEF SweepMiss
  <1>4. CASE SweepSpare(p)  BY <1>4 DEF SweepSpare, Held
  <1>5. CASE SweepLock(p)  BY <1>5 DEF SweepLock, Acquire, Held
  <1>6. CASE SweepUnlock(p)  BY <1>6 DEF SweepUnlock, Release
  <1>7. CASE SweepPurge(p)  BY <1>7 DEF SweepPurge, Purge
  <1>8. CASE SweepUnlink(p)
    <2>0. Goto(p, "sweep_rmdir", "sweep") /\ UNCHANGED <<name, todo, cur, again, tries, seen>>
      BY <1>8 DEF SweepUnlink
    <2>1. CASE Empty(cur[p]) /\ Unlink(cur[p]) /\ UNCHANGED failed
      BY <2>0, <2>1 DEF Unlink
    <2>2. CASE ~Empty(cur[p]) /\ failed' = [failed EXCEPT ![p] = @ \cup {cur[p]}] /\ UNCHANGED disk
      BY <2>0, <2>2
    <2> QED BY <1>8, <2>1, <2>2 DEF SweepUnlink
  <1>9. CASE SweepEnd(p)
    <2>0. todo[p] = {} /\ UNCHANGED <<disk, name, sweep, tries>>  BY <1>9 DEF SweepEnd
    <2>1. CASE Goto(p, "sweep", "mkdir")  BY <2>0, <2>1
    <2>2. CASE Goto(p, "sweep", "mkdir_again")  BY <2>0, <2>2
    <2> QED BY <1>9, <2>1, <2>2 DEF SweepEnd
  <1>10. CASE Mkdir(p)
    <2>0. UNCHANGED <<sweep, tries>>  BY <1>10 DEF Mkdir
    <2>1. CASE Goto(p, "mkdir", "claim") /\ Make(p, Stable)
      BY <2>0, <2>1 DEF Make
    <2>2. CASE Goto(p, "mkdir", "resweep") /\ UNCHANGED <<disk, name>>
      BY <2>0, <2>2
    <2> QED BY <1>10, <2>1, <2>2 DEF Mkdir
  <1>11. CASE MkdirAgain(p)
    <2>0. Goto(p, "mkdir_again", "claim") /\ UNCHANGED <<sweep, tries>>  BY <1>11 DEF MkdirAgain
    <2>1. CASE Make(p, Stable)
      BY <2>0, <2>1 DEF Make
    <2>2. CASE Make(p, p)
      BY <2>0, <2>2 DEF Make
    <2> QED BY <1>11, <2>1, <2>2 DEF MkdirAgain
  <1>12. CASE Claim(p)  BY <1>12 DEF Claim, Acquire, Held
  <1>13. CASE ClaimFail(p)  BY <1>13 DEF ClaimFail
  <1>14. CASE WriteMarker(p)  BY <1>14 DEF WriteMarker, Mark
  <1>15. CASE WriteMarkerFail(p)  BY <1>15 DEF WriteMarkerFail, Release
  <1>16. CASE MakeTree(p)  BY <1>16 DEF MakeTree
  <1>17. CASE Finish(p)  BY <1>17 DEF Finish
  <1>18. CASE Work(p)  BY <1>18 DEF Work
  <1>19. CASE KeepMark(p)  BY <1>19 DEF KeepMark, Mark
  <1>20. CASE KeepFail(p)  BY <1>20 DEF KeepFail, Release
  <1>21. CASE Unlock(p)  BY <1>21 DEF Unlock, Release
  <1>22. CASE CleanupPurge(p)  BY <1>22 DEF CleanupPurge, Purge
  <1>23. CASE CleanupUnlink(p)  BY <1>23 DEF CleanupUnlink, Unlink
  <1>24. CASE CleanupRetry(p)  BY <1>24 DEF CleanupRetry
  <1>25. CASE Crash(p)  BY <1>25 DEF Crash
  <1> QED
    BY <1>1, <1>2, <1>3, <1>4, <1>5, <1>6, <1>7, <1>8, <1>9, <1>10, <1>11,
         <1>12, <1>13, <1>14, <1>15, <1>16, <1>17, <1>18, <1>19,
         <1>20, <1>21, <1>22, <1>23, <1>24, <1>25
    DEF RunStep, Sweep, Create, Closing

\* Every step of a run leaves an abandoned name abandoned.
LEMMA ForsakenStep ==
  ASSUME OwnerInv, NEW p \in Runs, RunStep(p), NEW n \in Names \ {Stable}, Forsaken(n)
  PROVE  Forsaken(n)'
  <1> USE NamesAssumption
  <1> USE DEF SweepPCs, OwnedPCs, MakingPCs, EndPCs, BeforeMakingPCs, Goto, Names, disk, sweep
  <1> /\ lock \in [Names -> {"absent", "free"} \cup Runs] /\ pc \in [Runs -> PCs]
      /\ name \in [Runs -> Names \cup {"none"}] /\ cur \in [Runs -> Names \cup {"none"}]
      /\ marker \in [Names -> {"none", "plain", "kept"}]
    BY DEF OwnerInv, TypeOK
  <1> pc[p] \in SweepPCs \ {"sweep"} => cur[p] # "none"  BY DEF OwnerInv, CurInv
  <1> /\ pc[p] \in BeforeMakingPCs => name[p] = "none"
      /\ pc[p] \in MakingPCs \cup OwnedPCs => name[p] # "none"
    BY DEF OwnerInv, NamingInv
  <1> \A q \in Runs : name[q] \in {"none", Stable, q} /\ (pc[q] \in BeforeMakingPCs => name[q] = "none")
    BY DEF OwnerInv, NamingInv
  <1> USE DEF Forsaken
  <1>1. CASE SweepList(p)  BY <1>1 DEF SweepList
  <1>2. CASE SweepJudge(p)
    <2> PICK e \in todo[p] :
           Judge(p, e) /\ todo' = [todo EXCEPT ![p] = @ \ {e}] /\ cur' = [cur EXCEPT ![p] = e]
      BY <1>2, Zenon DEF SweepJudge
    <2>0. UNCHANGED <<disk, name, again, failed, tries, seen>>  BY <1>2 DEF SweepJudge
    <2>1. CASE marker[e] = "plain" /\ Goto(p, "sweep", "sweep_lock")
      BY <2>0, <2>1
    <2>2. CASE marker[e] = "none" /\ e \in aged /\ Goto(p, "sweep", "sweep_rm")
      BY <2>0, <2>2
    <2>3. CASE marker[e] = "none" /\ e \notin aged /\ Goto(p, "sweep", "sweep")
      BY <2>0, <2>3
    <2>4. CASE marker[e] = "kept" /\ Goto(p, "sweep", "sweep")
      BY <2>0, <2>4
    <2> QED BY <2>1, <2>2, <2>3, <2>4 DEF Judge
  <1>3. CASE SweepMiss(p)  BY <1>3 DEF SweepMiss
  <1>4. CASE SweepSpare(p)  BY <1>4 DEF SweepSpare, Held
  <1>5. CASE SweepLock(p)  BY <1>5 DEF SweepLock, Acquire, Held
  <1>6. CASE SweepUnlock(p)  BY <1>6 DEF SweepUnlock, Release
  <1>7. CASE SweepPurge(p)  BY <1>7 DEF SweepPurge, Purge
  <1>8. CASE SweepUnlink(p)
    <2>0. Goto(p, "sweep_rmdir", "sweep") /\ UNCHANGED <<name, todo, cur, again, tries, seen>>
      BY <1>8 DEF SweepUnlink
    <2>1. CASE Empty(cur[p]) /\ Unlink(cur[p]) /\ UNCHANGED failed
      BY <2>0, <2>1 DEF Unlink
    <2>2. CASE ~Empty(cur[p]) /\ failed' = [failed EXCEPT ![p] = @ \cup {cur[p]}] /\ UNCHANGED disk
      BY <2>0, <2>2
    <2> QED BY <1>8, <2>1, <2>2 DEF SweepUnlink
  <1>9. CASE SweepEnd(p)
    <2>0. todo[p] = {} /\ UNCHANGED <<disk, name, sweep, tries>>  BY <1>9 DEF SweepEnd
    <2>1. CASE Goto(p, "sweep", "mkdir")  BY <2>0, <2>1
    <2>2. CASE Goto(p, "sweep", "mkdir_again")  BY <2>0, <2>2
    <2> QED BY <1>9, <2>1, <2>2 DEF SweepEnd
  <1>10. CASE Mkdir(p)
    <2>0. UNCHANGED <<sweep, tries>>  BY <1>10 DEF Mkdir
    <2>1. CASE Goto(p, "mkdir", "claim") /\ Make(p, Stable)
      BY <2>0, <2>1 DEF Make
    <2>2. CASE Goto(p, "mkdir", "resweep") /\ UNCHANGED <<disk, name>>
      BY <2>0, <2>2
    <2> QED BY <1>10, <2>1, <2>2 DEF Mkdir
  <1>11. CASE MkdirAgain(p)
    <2>0. Goto(p, "mkdir_again", "claim") /\ UNCHANGED <<sweep, tries>>  BY <1>11 DEF MkdirAgain
    <2>1. CASE Make(p, Stable)
      BY <2>0, <2>1 DEF Make
    <2>2. CASE Make(p, p)
      BY <2>0, <2>2 DEF Make
    <2> QED BY <1>11, <2>1, <2>2 DEF MkdirAgain
  <1>12. CASE Claim(p)  BY <1>12 DEF Claim, Acquire, Held
  <1>13. CASE ClaimFail(p)  BY <1>13 DEF ClaimFail
  <1>14. CASE WriteMarker(p)  BY <1>14 DEF WriteMarker, Mark
  <1>15. CASE WriteMarkerFail(p)  BY <1>15 DEF WriteMarkerFail, Release
  <1>16. CASE MakeTree(p)  BY <1>16 DEF MakeTree
  <1>17. CASE Finish(p)  BY <1>17 DEF Finish
  <1>18. CASE Work(p)  BY <1>18 DEF Work
  <1>19. CASE KeepMark(p)  BY <1>19 DEF KeepMark, Mark
  <1>20. CASE KeepFail(p)  BY <1>20 DEF KeepFail, Release
  <1>21. CASE Unlock(p)  BY <1>21 DEF Unlock, Release
  <1>22. CASE CleanupPurge(p)  BY <1>22 DEF CleanupPurge, Purge
  <1>23. CASE CleanupUnlink(p)  BY <1>23 DEF CleanupUnlink, Unlink
  <1>24. CASE CleanupRetry(p)  BY <1>24 DEF CleanupRetry
  <1>25. CASE Crash(p)  BY <1>25 DEF Crash
  <1> QED
    BY <1>1, <1>2, <1>3, <1>4, <1>5, <1>6, <1>7, <1>8, <1>9, <1>10, <1>11,
         <1>12, <1>13, <1>14, <1>15, <1>16, <1>17, <1>18, <1>19,
         <1>20, <1>21, <1>22, <1>23, <1>24, <1>25
    DEF RunStep, Sweep, Create, Closing

\* Every step of a run leaves taken what is abandoned and taken.
LEMMA TakenStep ==
  ASSUME OwnerInv, NEW p \in Runs, RunStep(p), NEW n \in Names \ {Stable}, Forsaken(n), Taken(n)
  PROVE  Taken(n)'
  <1> USE NamesAssumption
  <1> USE DEF SweepPCs, OwnedPCs, MakingPCs, EndPCs, BeforeMakingPCs, Goto, Names, disk, sweep
  <1> /\ lock \in [Names -> {"absent", "free"} \cup Runs] /\ pc \in [Runs -> PCs]
      /\ name \in [Runs -> Names \cup {"none"}] /\ cur \in [Runs -> Names \cup {"none"}]
      /\ marker \in [Names -> {"none", "plain", "kept"}]
    BY DEF OwnerInv, TypeOK
  <1> pc[p] \in SweepPCs \ {"sweep"} => cur[p] # "none"  BY DEF OwnerInv, CurInv
  <1> /\ pc[p] \in BeforeMakingPCs => name[p] = "none"
      /\ pc[p] \in MakingPCs \cup OwnedPCs => name[p] # "none"
    BY DEF OwnerInv, NamingInv
  <1> tree \in [Names -> SUBSET (Runs \cup {Ghost})]  BY DEF OwnerInv, TypeOK
  <1> PICK q \in Runs : n \notin there \/ Removing(q, n)  BY DEF Taken
  <1> SUFFICES n \notin there' \/ Removing(q, n)' \/ Removing(p, n)'  BY DEF Taken
  <1> /\ name[p] = n => pc[p] \in EndPCs
      /\ n = p => name[p] = p
    BY DEF Forsaken
  <1> USE DEF Removing, Empty
  <1>1. CASE SweepList(p)  BY <1>1 DEF SweepList
  <1>2. CASE SweepJudge(p)
    <2> PICK e \in todo[p] :
           Judge(p, e) /\ todo' = [todo EXCEPT ![p] = @ \ {e}] /\ cur' = [cur EXCEPT ![p] = e]
      BY <1>2, Zenon DEF SweepJudge
    <2>0. UNCHANGED <<disk, name, again, failed, tries, seen>>  BY <1>2 DEF SweepJudge
    <2>1. CASE marker[e] = "plain" /\ Goto(p, "sweep", "sweep_lock")
      BY <2>0, <2>1
    <2>2. CASE marker[e] = "none" /\ e \in aged /\ Goto(p, "sweep", "sweep_rm")
      BY <2>0, <2>2
    <2>3. CASE marker[e] = "none" /\ e \notin aged /\ Goto(p, "sweep", "sweep")
      BY <2>0, <2>3
    <2>4. CASE marker[e] = "kept" /\ Goto(p, "sweep", "sweep")
      BY <2>0, <2>4
    <2> QED BY <2>1, <2>2, <2>3, <2>4 DEF Judge
  <1>3. CASE SweepMiss(p)  BY <1>3 DEF SweepMiss
  <1>4. CASE SweepSpare(p)  BY <1>4 DEF SweepSpare, Held
  <1>5. CASE SweepLock(p)  BY <1>5 DEF SweepLock, Acquire, Held
  <1>6. CASE SweepUnlock(p)  BY <1>6 DEF SweepUnlock, Release
  <1>7. CASE SweepPurge(p)  BY <1>7 DEF SweepPurge, Purge
  <1>8. CASE SweepUnlink(p)
    <2>0. Goto(p, "sweep_rmdir", "sweep") /\ UNCHANGED <<name, todo, cur, again, tries, seen>>
      BY <1>8 DEF SweepUnlink
    <2>1. CASE Empty(cur[p]) /\ Unlink(cur[p]) /\ UNCHANGED failed
      BY <2>0, <2>1 DEF Unlink
    <2>2. CASE ~Empty(cur[p]) /\ failed' = [failed EXCEPT ![p] = @ \cup {cur[p]}] /\ UNCHANGED disk
      BY <2>0, <2>2
    <2> QED BY <1>8, <2>1, <2>2 DEF SweepUnlink
  <1>9. CASE SweepEnd(p)
    <2>0. todo[p] = {} /\ UNCHANGED <<disk, name, sweep, tries>>  BY <1>9 DEF SweepEnd
    <2>1. CASE Goto(p, "sweep", "mkdir")  BY <2>0, <2>1
    <2>2. CASE Goto(p, "sweep", "mkdir_again")  BY <2>0, <2>2
    <2> QED BY <1>9, <2>1, <2>2 DEF SweepEnd
  <1>10. CASE Mkdir(p)
    <2>0. UNCHANGED <<sweep, tries>>  BY <1>10 DEF Mkdir
    <2>1. CASE Goto(p, "mkdir", "claim") /\ Make(p, Stable)
      BY <2>0, <2>1 DEF Make
    <2>2. CASE Goto(p, "mkdir", "resweep") /\ UNCHANGED <<disk, name>>
      BY <2>0, <2>2
    <2> QED BY <1>10, <2>1, <2>2 DEF Mkdir
  <1>11. CASE MkdirAgain(p)
    <2>0. Goto(p, "mkdir_again", "claim") /\ UNCHANGED <<sweep, tries>>  BY <1>11 DEF MkdirAgain
    <2>1. CASE Make(p, Stable)
      BY <2>0, <2>1 DEF Make
    <2>2. CASE Make(p, p)
      BY <2>0, <2>2 DEF Make
    <2> QED BY <1>11, <2>1, <2>2 DEF MkdirAgain
  <1>12. CASE Claim(p)  BY <1>12 DEF Claim, Acquire, Held
  <1>13. CASE ClaimFail(p)  BY <1>13 DEF ClaimFail
  <1>14. CASE WriteMarker(p)  BY <1>14 DEF WriteMarker, Mark
  <1>15. CASE WriteMarkerFail(p)  BY <1>15 DEF WriteMarkerFail, Release
  <1>16. CASE MakeTree(p)  BY <1>16 DEF MakeTree
  <1>17. CASE Finish(p)  BY <1>17 DEF Finish
  <1>18. CASE Work(p)  BY <1>18 DEF Work
  <1>19. CASE KeepMark(p)  BY <1>19 DEF KeepMark, Mark
  <1>20. CASE KeepFail(p)  BY <1>20 DEF KeepFail, Release
  <1>21. CASE Unlock(p)  BY <1>21 DEF Unlock, Release
  <1>22. CASE CleanupPurge(p)  BY <1>22 DEF CleanupPurge, Purge
  <1>23. CASE CleanupUnlink(p)  BY <1>23 DEF CleanupUnlink, Unlink
  <1>24. CASE CleanupRetry(p)  BY <1>24 DEF CleanupRetry
  <1>25. CASE Crash(p)  BY <1>25 DEF Crash
  <1> QED
    BY <1>1, <1>2, <1>3, <1>4, <1>5, <1>6, <1>7, <1>8, <1>9, <1>10, <1>11,
         <1>12, <1>13, <1>14, <1>15, <1>16, <1>17, <1>18, <1>19,
         <1>20, <1>21, <1>22, <1>23, <1>24, <1>25
    DEF RunStep, Sweep, Create, Closing

\* Every step of a run preserves what is known of the orphans a sweep has seen.
LEMMA OrphanStep ==
  ASSUME OwnerInv, LockInv, OrphanInv, NEW p \in Runs, RunStep(p)
  PROVE  OrphanInv'
  <1> USE NamesAssumption
  <1> USE DEF SweepPCs, OwnedPCs, MakingPCs, EndPCs, BeforeMakingPCs, Goto, Names, disk, sweep
  <1> /\ lock \in [Names -> {"absent", "free"} \cup Runs] /\ pc \in [Runs -> PCs]
      /\ name \in [Runs -> Names \cup {"none"}] /\ cur \in [Runs -> Names \cup {"none"}]
      /\ marker \in [Names -> {"none", "plain", "kept"}]
    BY DEF OwnerInv, TypeOK
  <1> pc[p] \in SweepPCs \ {"sweep"} => cur[p] # "none"  BY DEF OwnerInv, CurInv
  <1> /\ pc[p] \in BeforeMakingPCs => name[p] = "none"
      /\ pc[p] \in MakingPCs \cup OwnedPCs => name[p] # "none"
    BY DEF OwnerInv, NamingInv
  <1>0. /\ seen \in [Runs -> [living : SUBSET Runs, kept : SUBSET Names, orphans : SUBSET Names]]
        /\ todo \in [Runs -> SUBSET Names] /\ failed \in [Runs -> SUBSET Names]
        /\ tree \in [Names -> SUBSET (Runs \cup {Ghost})]
    BY DEF OwnerInv, TypeOK
  <1> SUFFICES ASSUME NEW s \in Runs, NEW n \in seen'[s].orphans \ {Stable}
               PROVE  Orphan(s, n)'
    BY DEF OrphanInv
  <1> n \in Names
    <2>1. TypeOK'  BY TypeStep DEF OwnerInv
    <2> QED BY <2>1 DEF TypeOK
  <1>o. n \in seen[s].orphans => Orphan(s, n)  BY DEF OrphanInv
  <1>a. n \in seen[s].orphans => Forsaken(n)'  BY <1>o, ForsakenStep DEF Orphan
  <1>t. n \in seen[s].orphans /\ Taken(n) => Taken(n)'  BY <1>o, TakenStep DEF Orphan
  <1>r. n \notin there' \/ Removing(s, n)' \/ Removing(p, n)' => Taken(n)'  BY DEF Taken
  <1>n. n \in seen[s].orphans /\ name[p] = n => pc[p] \in EndPCs  BY <1>o DEF Orphan, Forsaken
  <1>h. n \in seen[s].orphans /\ Held(n) => Taken(n)
    BY <1>o DEF Orphan, Forsaken, LockInv, Held, Taken, Removing
  <1> USE <1>0, <1>o, <1>a, <1>t, <1>r, <1>n, <1>h DEF Orphan, Removing, Empty
  <1>1. CASE SweepList(p)
    <2>1. CASE n \in seen[s].orphans  BY <1>1, <2>1 DEF SweepList
    <2>2. CASE n \notin seen[s].orphans
      <3>1. /\ s = p /\ pc'[p] = "sweep" /\ n \in todo'[p] /\ n \in there
            /\ marker[n] = "plain" \/ (marker[n] = "none" /\ n \in aged)
            /\ \A q \in Runs : name[q] = n => pc[q] \in EndPCs
        BY <1>1, <2>2 DEF SweepList
      <3>2. n \in Runs => name[n] = n  BY <3>1 DEF OwnerInv, NamingInv
      <3>3. Forsaken(n)  BY <3>1, <3>2 DEF Forsaken
      <3>4. Forsaken(n)'  BY <3>3, ForsakenStep
      <3> QED BY <1>1, <3>1, <3>4 DEF SweepList
    <2> QED BY <2>1, <2>2
  <1>2. CASE SweepJudge(p)
    <2> PICK e \in todo[p] :
           Judge(p, e) /\ todo' = [todo EXCEPT ![p] = @ \ {e}] /\ cur' = [cur EXCEPT ![p] = e]
      BY <1>2, Zenon DEF SweepJudge
    <2>0. UNCHANGED <<disk, name, again, failed, tries, seen>>  BY <1>2 DEF SweepJudge
    <2>1. CASE marker[e] = "plain" /\ Goto(p, "sweep", "sweep_lock")
      BY <2>0, <2>1
    <2>2. CASE marker[e] = "none" /\ e \in aged /\ Goto(p, "sweep", "sweep_rm")
      BY <2>0, <2>2
    <2>3. CASE marker[e] = "none" /\ e \notin aged /\ Goto(p, "sweep", "sweep")
      BY <2>0, <2>3
    <2>4. CASE marker[e] = "kept" /\ Goto(p, "sweep", "sweep")
      BY <2>0, <2>4
    <2> QED BY <2>1, <2>2, <2>3, <2>4 DEF Judge
  <1>3. CASE SweepMiss(p)  BY <1>3 DEF SweepMiss
  <1>4. CASE SweepSpare(p)  BY <1>4 DEF SweepSpare, Held
  <1>5. CASE SweepLock(p)  BY <1>5 DEF SweepLock, Acquire, Held
  <1>6. CASE SweepUnlock(p)  BY <1>6 DEF SweepUnlock, Release
  <1>7. CASE SweepPurge(p)  BY <1>7 DEF SweepPurge, Purge
  <1>8. CASE SweepUnlink(p)
    <2>0. Goto(p, "sweep_rmdir", "sweep") /\ UNCHANGED <<name, todo, cur, again, tries, seen>>
      BY <1>8 DEF SweepUnlink
    <2>1. CASE Empty(cur[p]) /\ Unlink(cur[p]) /\ UNCHANGED failed
      BY <2>0, <2>1 DEF Unlink
    <2>2. CASE ~Empty(cur[p]) /\ failed' = [failed EXCEPT ![p] = @ \cup {cur[p]}] /\ UNCHANGED disk
      BY <2>0, <2>2
    <2> QED BY <1>8, <2>1, <2>2 DEF SweepUnlink
  <1>9. CASE SweepEnd(p)
    <2>0. todo[p] = {} /\ UNCHANGED <<disk, name, sweep, tries>>  BY <1>9 DEF SweepEnd
    <2>1. CASE Goto(p, "sweep", "mkdir")  BY <2>0, <2>1
    <2>2. CASE Goto(p, "sweep", "mkdir_again")  BY <2>0, <2>2
    <2> QED BY <1>9, <2>1, <2>2 DEF SweepEnd
  <1>10. CASE Mkdir(p)
    <2>0. UNCHANGED <<sweep, tries>>  BY <1>10 DEF Mkdir
    <2>1. CASE Goto(p, "mkdir", "claim") /\ Make(p, Stable)
      BY <2>0, <2>1 DEF Make
    <2>2. CASE Goto(p, "mkdir", "resweep") /\ UNCHANGED <<disk, name>>
      BY <2>0, <2>2
    <2> QED BY <1>10, <2>1, <2>2 DEF Mkdir
  <1>11. CASE MkdirAgain(p)
    <2>0. Goto(p, "mkdir_again", "claim") /\ UNCHANGED <<sweep, tries>>  BY <1>11 DEF MkdirAgain
    <2>1. CASE Make(p, Stable)
      BY <2>0, <2>1 DEF Make
    <2>2. CASE Make(p, p)
      BY <2>0, <2>2 DEF Make
    <2> QED BY <1>11, <2>1, <2>2 DEF MkdirAgain
  <1>12. CASE Claim(p)  BY <1>12 DEF Claim, Acquire, Held
  <1>13. CASE ClaimFail(p)  BY <1>13 DEF ClaimFail
  <1>14. CASE WriteMarker(p)  BY <1>14 DEF WriteMarker, Mark
  <1>15. CASE WriteMarkerFail(p)  BY <1>15 DEF WriteMarkerFail, Release
  <1>16. CASE MakeTree(p)  BY <1>16 DEF MakeTree
  <1>17. CASE Finish(p)  BY <1>17 DEF Finish
  <1>18. CASE Work(p)  BY <1>18 DEF Work
  <1>19. CASE KeepMark(p)  BY <1>19 DEF KeepMark, Mark
  <1>20. CASE KeepFail(p)  BY <1>20 DEF KeepFail, Release
  <1>21. CASE Unlock(p)  BY <1>21 DEF Unlock, Release
  <1>22. CASE CleanupPurge(p)  BY <1>22 DEF CleanupPurge, Purge
  <1>23. CASE CleanupUnlink(p)  BY <1>23 DEF CleanupUnlink, Unlink
  <1>24. CASE CleanupRetry(p)  BY <1>24 DEF CleanupRetry
  <1>25. CASE Crash(p)  BY <1>25 DEF Crash
  <1> QED
    BY <1>1, <1>2, <1>3, <1>4, <1>5, <1>6, <1>7, <1>8, <1>9, <1>10, <1>11,
         <1>12, <1>13, <1>14, <1>15, <1>16, <1>17, <1>18, <1>19,
         <1>20, <1>21, <1>22, <1>23, <1>24, <1>25
    DEF RunStep, Sweep, Create, Closing

\* A day that passes disturbs none of it.
LEMMA AgeKeeps ==
  ASSUME OwnerInv, SweepInv, NEW a \in Names, Age(a)
  PROVE  SweepInv'
  <1> USE NamesAssumption DEF Age, Names, sweep
  <1> seen \in [Runs -> [living : SUBSET Runs, kept : SUBSET Names, orphans : SUBSET Names]]
    BY DEF OwnerInv, TypeOK
  <1>1. LockInv'  BY DEF SweepInv, LockInv
  <1>2. AgedInv'  BY DEF SweepInv, AgedInv
  <1>3. MarkedInv'  BY DEF SweepInv, MarkedInv, Owns
  <1>4. LivingInv'  BY DEF SweepInv, LivingInv, Owns
  <1>5. PlainInv'  BY DEF SweepInv, PlainInv
  <1>6. KeptInv'  BY DEF SweepInv, KeptInv, KeptByOwner
  <1>7. OrphanInv'
    <2>1. \A n : (Forsaken(n)' <=> Forsaken(n)) /\ (Taken(n)' <=> Taken(n))
      BY DEF Forsaken, Taken, Removing, Empty
    <2>2. \A s \in Runs : \A n \in seen[s].orphans \ {Stable} : Orphan(s, n)
      BY DEF SweepInv, OrphanInv
    <2> SUFFICES ASSUME NEW s \in Runs, NEW n \in seen[s].orphans \ {Stable}
                 PROVE  Orphan(s, n)'
      BY DEF OrphanInv
    <2> QED BY <2>1, <2>2 DEF Orphan
  <1>8. ListInv'  BY DEF SweepInv, ListInv
  <1> QED BY <1>1, <1>2, <1>3, <1>4, <1>5, <1>6, <1>7, <1>8 DEF SweepInv

LEMMA StutterKeeps ==
  ASSUME SweepInv, UNCHANGED vars
  PROVE  SweepInv'
  <1> USE DEF vars, disk, sweep
  <1>1. LockInv' /\ AgedInv'  BY DEF SweepInv, LockInv, AgedInv
  <1>2. MarkedInv' /\ LivingInv'  BY DEF SweepInv, MarkedInv, LivingInv, Owns
  <1>3. PlainInv' /\ KeptInv'  BY DEF SweepInv, PlainInv, KeptInv, KeptByOwner
  <1>4. OrphanInv' /\ ListInv'
    BY DEF SweepInv, OrphanInv, Orphan, Forsaken, Taken, Removing, Empty, ListInv
  <1> QED BY <1>1, <1>2, <1>3, <1>4 DEF SweepInv

LEMMA SweepInit == Init => SweepInv
  <1> SUFFICES ASSUME Init PROVE SweepInv  OBVIOUS
  <1> USE NamesAssumption DEF Init, Names
  <1>1. \A p \in Runs : pc[p] = "start" /\ name[p] = "none" /\ seen[p] = Unseen
    OBVIOUS
  <1>2. LockInv
    <2> \A n \in Names : lock[n] \in {"free", "absent"}  OBVIOUS
    <2> QED BY DEF LockInv
  <1>3. AgedInv  BY DEF AgedInv
  <1>4. MarkedInv  BY <1>1 DEF MarkedInv, Owns
  <1>5. LivingInv /\ KeptInv /\ OrphanInv  BY <1>1 DEF LivingInv, KeptInv, OrphanInv, Unseen
  <1>6. PlainInv /\ ListInv  BY <1>1 DEF PlainInv, ListInv
  <1> QED BY <1>2, <1>3, <1>4, <1>5, <1>6 DEF SweepInv

\* The invariant holds in every reachable state, for any number of runs.
THEOREM SweepCorrect == Spec => []SweepInv
  <1>1. OwnerInv /\ SweepInv /\ [Next]_vars => SweepInv'
    <2> SUFFICES ASSUME OwnerInv, SweepInv, [Next]_vars PROVE SweepInv'  OBVIOUS
    <2>1. ASSUME NEW p \in Runs, RunStep(p) PROVE SweepInv'
      <3> LockInv /\ AgedInv /\ MarkedInv /\ LivingInv /\ PlainInv /\ KeptInv /\ OrphanInv /\ ListInv
        BY DEF SweepInv
      <3> TypeOK /\ CurInv  BY DEF OwnerInv
      <3>1. LockInv' /\ AgedInv' /\ MarkedInv' /\ LivingInv'
        BY <2>1, LockStep, AgedStep, MarkedStep, LivingStep
      <3>2. PlainInv' /\ KeptInv' /\ OrphanInv' /\ ListInv'
        BY <2>1, PlainStep, KeptStep, OrphanStep, ListStep
      <3> QED BY <3>1, <3>2 DEF SweepInv
    <2>2. ASSUME NEW n \in Names, Age(n) PROVE SweepInv'  BY <2>2, AgeKeeps
    <2>3. CASE UNCHANGED vars  BY <2>3, StutterKeeps
    <2> QED BY <2>1, <2>2, <2>3 DEF Next, RunStep
  <1> QED BY SweepInit, OwnerCorrect, <1>1, PTL DEF Spec

\* However many runs sweep, fail and die, a sweep takes nothing of a live run
\* that it has seen and nothing it has seen kept, and leaves nothing of what it
\* has seen abandoned that it did not report (Sweep, abandoned, destination).
THEOREM SweepRight == Spec => []SweepIsRight
  <1>1. OwnerInv /\ SweepInv => SweepIsRight
    <2> SUFFICES ASSUME OwnerInv, SweepInv PROVE SweepIsRight  OBVIOUS
    <2> seen \in [Runs -> [living : SUBSET Runs, kept : SUBSET Names, orphans : SUBSET Names]]
      BY DEF OwnerInv, TypeOK
    <2>1. LivingAreSpared  BY DEF SweepInv, LivingInv, LivingAreSpared
    <2>2. KeptIsObeyed  BY DEF SweepInv, KeptInv, KeptByOwner, KeptIsObeyed, SweepPCs
    <2>3. OrphansAreCollected
      <3> SUFFICES ASSUME NEW p \in Runs, pc[p] = "mkdir",
                          NEW n \in (seen[p].orphans \ {Stable}) \ failed[p], n \in there
                   PROVE  \E q \in Runs \ {p} :
                            cur[q] = n /\ pc[q] \in {"sweep_unlock", "sweep_rm", "sweep_rmdir", "crashed"}
        BY DEF OrphansAreCollected
      <3>1. Taken(n)  BY DEF SweepInv, OrphanInv, Orphan, ListInv
      <3> QED BY <3>1 DEF Taken, Removing
    <2> QED BY <2>1, <2>2, <2>3 DEF SweepIsRight
  <1> QED BY <1>1, OwnerCorrect, SweepCorrect, PTL

\* Both promises of the temporary directories, which TLC checks for two runs:
\* a live run keeps its own directory, and a sweep takes what is abandoned and
\* nothing else.
THEOREM DirectoriesSafe == Spec => []DirectoriesAreSafe
  <1>1. RandomNameIsPrivate /\ SweepIsRight => DirectoriesAreSafe  BY DEF DirectoriesAreSafe
  <1> QED BY <1>1, RandomIsPrivate, SweepRight, PTL

-----------------------------------------------------------------------------
(* Recorder: what a recording lost, it says.                                *)

EventTypes == {"run-start", "event", "run-end", "spoilt"}
Records == [seq : Nat, type : EventTypes]

\* Lines in the order of their emission, of events up to number n.
Ordered(lines, n) ==
  /\ lines \in Seq(Records)
  /\ \A i \in 1..Len(lines) :
       /\ lines[i].seq \in 1..n
       /\ \A j \in 1..(i - 1) : lines[j].seq < lines[i].seq
       /\ lines[i].type = "run-start" => i = 1
       /\ lines[i].type = "run-end" => i = Len(lines)

Clean(lines) == \A i \in 1..Len(lines) : lines[i].type /= "spoilt"

\* What a reader says after n of the lines.
SummaryOf(lines, n) ==
  IF n = 0 THEN NothingRead
  ELSE [ok |-> TRUE, last |-> lines[n].seq, missing |-> lines[n].seq - n, events |-> n,
        ended |-> lines[n].type = "run-end"]

\* A set of numbers has a least one.
LEMMA Least ==
  ASSUME NEW S, S \subseteq Nat, S /= {}
  PROVE  \E x \in S : \A y \in S : x <= y
<1>1. PICK x \in S : \A y \in S : ~ (<<y, x>> \in OpToRel(<, Nat))
  BY NatLessThanWellFounded, WFMin
<1>w. S \subseteq Nat /\ x \in S
  OBVIOUS
<1>2. ASSUME NEW y \in S PROVE x <= y
  <2>1. x \in Nat /\ y \in Nat /\ ~ (<<y, x>> \in OpToRel(<, Nat))
    BY <1>1
  <2>2. y < x => <<y, x>> \in OpToRel(<, Nat)
    BY <2>1 DEF OpToRel
  <2>3. ~(y < x)
    BY <2>1, <2>2, Zenon
  <2> QED BY <1>w, <2>3
<1> QED BY <1>2

\* Summary.accept, of a line that follows.
LEMMA Follows ==
  ASSUME NEW e \in Records, NEW s, s.ok = TRUE, s.ended = FALSE, s.last \in Nat, s.events \in Nat,
         e.type /= "spoilt", e.type = "run-start" => s.events = 0, s.last < e.seq
  PROVE  Accept(e, s) = [ok |-> TRUE, last |-> e.seq, missing |-> s.missing + (e.seq - s.last - 1),
                         events |-> s.events + 1, ended |-> e.type = "run-end"]
<1>1. e.seq \in Nat /\ ~(e.seq <= s.last) /\ ~(e.type = "run-start" /\ s.events > 0)
  BY DEF Records
<1> QED BY <1>1 DEF Accept

LEMMA Accepted ==
  ASSUME NEW top \in Nat, NEW lines, Ordered(lines, top), Clean(lines), NEW n \in 1..Len(lines)
  PROVE  Accept(lines[n], SummaryOf(lines, n - 1)) = SummaryOf(lines, n)
<1>1. n \in Nat /\ n - 1 \in Nat /\ Len(lines) \in Nat
  BY DEF Ordered
<1>2. /\ lines[n] \in Records /\ lines[n].seq \in 1..top /\ lines[n].type /= "spoilt"
      /\ lines[n].type = "run-start" => n = 1
      /\ lines[n].type = "run-end" => n = Len(lines)
  BY <1>1 DEF Ordered, Clean
<1>3. CASE n = 1
  <2>1. SummaryOf(lines, n - 1) = [ok |-> TRUE, last |-> 0, missing |-> 0, events |-> 0, ended |-> FALSE]
    BY <1>3 DEF SummaryOf, NothingRead
  <2>2. SummaryOf(lines, n) = [ok |-> TRUE, last |-> lines[n].seq, missing |-> lines[n].seq - 1,
            events |-> 1, ended |-> lines[n].type = "run-end"]
    BY <1>3 DEF SummaryOf
  <2>3. lines[n].seq > 0 /\ 0 + (lines[n].seq - 0 - 1) = lines[n].seq - 1 /\ lines[n].seq \in Int
    BY <1>2
  <2> DEFINE s == SummaryOf(lines, n - 1)
  <2>4. s.ok = TRUE /\ s.ended = FALSE /\ s.last = 0 /\ s.events = 0 /\ s.missing = 0
    BY <2>1
  <2> HIDE DEF s
  <2>5. Accept(lines[n], s) = [ok |-> TRUE, last |-> lines[n].seq,
           missing |-> s.missing + (lines[n].seq - s.last - 1),
           events |-> s.events + 1, ended |-> lines[n].type = "run-end"]
    <3>1. /\ lines[n] \in Records /\ s.ok = TRUE /\ s.ended = FALSE /\ s.last \in Nat
          /\ s.events \in Nat /\ lines[n].type /= "spoilt"
          /\ lines[n].type = "run-start" => s.events = 0
          /\ s.last < lines[n].seq
      BY <2>3, <2>4, <1>2
    <3> QED BY ONLY <3>1, Follows
  <2> QED
    <3>1. s.missing + (lines[n].seq - s.last - 1) = lines[n].seq - 1 /\ s.events + 1 = 1
      BY <2>3, <2>4
    <3> QED BY <2>2, <2>5, <3>1 DEF s
<1>4. CASE n > 1
  <2>1. /\ n - 1 \in 1..Len(lines) /\ lines[n - 1] \in Records
        /\ lines[n - 1].seq < lines[n].seq /\ lines[n - 1].type /= "run-end"
    BY <1>1, <1>4 DEF Ordered
  <2> DEFINE before == lines[n - 1].seq
             now == lines[n].seq
  <2>2. SummaryOf(lines, n - 1) = [ok |-> TRUE, last |-> before, missing |-> before - (n - 1),
            events |-> n - 1, ended |-> FALSE]
    <3>1. n - 1 /= 0 /\ (lines[n - 1].type = "run-end") = FALSE
      BY <2>1, <1>4
    <3> QED BY <3>1 DEF SummaryOf
  <2>3. SummaryOf(lines, n) = [ok |-> TRUE, last |-> now, missing |-> now - n, events |-> n,
            ended |-> lines[n].type = "run-end"]
    BY <1>4 DEF SummaryOf
  <2>4. before \in Nat /\ now \in Nat /\ before < now
    BY <2>1, <1>2 DEF Records
  <2>5. /\ (before - (n - 1)) + (now - before - 1) = now - n
        /\ (n - 1) + 1 = n /\ ~(now <= before)
    <3> HIDE DEF before, now
    <3>1. n \in Nat /\ before \in Nat /\ now \in Nat /\ before < now
      BY <2>4, <1>1
    <3> QED BY ONLY <3>1
  <2> DEFINE s == SummaryOf(lines, n - 1)
  <2>6. s.ok = TRUE /\ s.ended = FALSE /\ s.last = before /\ s.events = n - 1 /\ s.missing = before - (n - 1)
    BY <2>2
  <2> HIDE DEF s, before
  <2>7. Accept(lines[n], s) = [ok |-> TRUE, last |-> lines[n].seq,
           missing |-> s.missing + (lines[n].seq - s.last - 1),
           events |-> s.events + 1, ended |-> lines[n].type = "run-end"]
    <3>1. /\ lines[n] \in Records /\ s.ok = TRUE /\ s.ended = FALSE /\ s.last \in Nat
          /\ s.events \in Nat /\ lines[n].type /= "spoilt"
          /\ lines[n].type = "run-start" => s.events = 0
          /\ s.last < lines[n].seq
      BY <2>4, <2>6, <1>1, <1>2, <1>4
    <3> QED BY ONLY <3>1, Follows
  <2> QED BY <2>3, <2>5, <2>6, <2>7 DEF s
<1> QED BY <1>1, <1>3, <1>4

\* readStream, of lines in order of which none is spoilt.
LEMMA WellRead ==
  ASSUME NEW top \in Nat, NEW lines, Ordered(lines, top), Clean(lines)
  PROVE  ReadStream(lines) = SummaryOf(lines, Len(lines))
<1> DEFINE L == Len(lines)
           Reads(f) == f = [n \in 0..L |-> IF n = 0 THEN NothingRead ELSE Accept(lines[n], f[n - 1])]
           g == [n \in 0..L |-> SummaryOf(lines, n)]
           read == CHOOSE f : Reads(f)
<1>1. L \in Nat
  BY DEF Ordered
<1>2. SummaryOf(lines, 0) = NothingRead
  BY DEF SummaryOf
<1>3. Reads(g)
  <2>1. ASSUME NEW n \in 0..L, n /= 0 PROVE g[n] = Accept(lines[n], g[n - 1])
    <3>1. n \in 1..L /\ n - 1 \in 0..L
      BY <1>1, <2>1
    <3> QED BY <3>1, Accepted
  <2> QED BY <2>1, <1>2
<1>4. Reads(read)
  BY <1>3
<1>5. read[L] = SummaryOf(lines, L)
  <2> DEFINE S == {n \in 0..L : read[n] /= SummaryOf(lines, n)}
  <2>1. SUFFICES ASSUME S /= {} PROVE FALSE
    <3> HIDE DEF read
    <3> QED BY <1>1
  <2>2. PICK x \in S : \A y \in S : x <= y
    <3> HIDE DEF read
    <3>1. S \subseteq Nat
      OBVIOUS
    <3> HIDE DEF S
    <3> QED BY <2>1, <3>1, Least
  <2>3. read[x] = IF x = 0 THEN NothingRead ELSE Accept(lines[x], read[x - 1])
    <3> HIDE DEF read
    <3> QED BY <1>4, <2>2
  <2>4. x /= 0
    BY <2>2, <2>3, <1>2
  <2>5. x - 1 \in 0..L /\ x \in 1..L
    BY <1>1, <2>2, <2>4
  <2>6. read[x - 1] = SummaryOf(lines, x - 1)
    <3> HIDE DEF read
    <3>1. x - 1 \notin S
      BY <2>2, <2>5
    <3> QED BY <2>5, <3>1
  <2> QED BY <2>2, <2>3, <2>4, <2>5, <2>6, Accepted
<1>6. ReadStream(lines) = read[L]
  BY DEF ReadStream
<1> QED BY <1>5, <1>6
-----------------------------------------------------------------------------

LEMMA Appending ==
  ASSUME NEW lines, NEW m \in Nat, NEW n \in Nat, Ordered(lines, m), m < n,
         \A i \in 1..Len(lines) : lines[i].type /= "run-end",
         NEW e \in Records, e.seq = n, e.type = "run-start" => lines = <<>>
  PROVE  /\ Ordered(Append(lines, e), n) /\ Len(Append(lines, e)) = Len(lines) + 1
         /\ \A i \in 1..Len(lines) : Append(lines, e)[i] = lines[i]
         /\ Append(lines, e)[Len(lines) + 1] = e
<1>1. lines \in Seq(Records) /\ Len(lines) \in Nat
  BY DEF Ordered
<1>2. /\ Append(lines, e) \in Seq(Records) /\ Len(Append(lines, e)) = Len(lines) + 1
      /\ \A i \in 1..Len(lines) : Append(lines, e)[i] = lines[i]
      /\ Append(lines, e)[Len(lines) + 1] = e
  BY <1>1
<1> DEFINE all == Append(lines, e)
<1> HIDE DEF all
<1>3. ASSUME NEW i \in 1..Len(all)
      PROVE  /\ all[i].seq \in 1..n
             /\ \A j \in 1..(i - 1) : all[j].seq < all[i].seq
             /\ all[i].type = "run-start" => i = 1
             /\ all[i].type = "run-end" => i = Len(all)
  <2>1. CASE i \in 1..Len(lines)
    <3>1. /\ all[i] = lines[i] /\ lines[i].seq \in 1..m /\ lines[i].type /= "run-end"
          /\ lines[i].type = "run-start" => i = 1
      BY <1>2, <2>1 DEF Ordered, all
    <3>2. ASSUME NEW j \in 1..(i - 1) PROVE all[j].seq < all[i].seq
      <4>1. j \in 1..Len(lines)
        BY <1>1, <2>1
      <4> QED BY <4>1, <3>1, <1>2, <2>1 DEF Ordered, all
    <3> QED BY <3>1, <3>2
  <2>2. CASE i = Len(lines) + 1
    <3>1. all[i] = e /\ Len(all) = i
      BY <1>2, <2>2 DEF all
    <3>2. e.type = "run-start" => i = 1
      BY <2>2
    <3>3. ASSUME NEW j \in 1..(i - 1) PROVE all[j].seq < all[i].seq
      <4>1. j \in 1..Len(lines)
        BY <1>1, <2>2
      <4>2. all[j] = lines[j] /\ lines[j].seq \in 1..m
        BY <4>1, <1>2 DEF Ordered, all
      <4> QED BY <4>2, <3>1
    <3>4. e.seq \in 1..n
      OBVIOUS
    <3> QED BY <3>1, <3>2, <3>3, <3>4
  <2> QED BY <1>1, <1>2, <2>1, <2>2 DEF all
<1> QED BY <1>2, <1>3 DEF Ordered, all

LEMMA Shortening ==
  ASSUME NEW lines, NEW n \in Nat, Ordered(lines, n), NEW k \in 0..Len(lines)
  PROVE  LET rest == SubSeq(lines, k + 1, Len(lines))
         IN /\ Ordered(rest, n) /\ Len(rest) = Len(lines) - k
            /\ \A i \in 1..(Len(lines) - k) : rest[i] = lines[i + k]
<1> DEFINE rest == SubSeq(lines, k + 1, Len(lines))
<1>1. lines \in Seq(Records) /\ Len(lines) \in Nat
  BY DEF Ordered
<1>2. /\ rest \in Seq(Records) /\ Len(rest) = Len(lines) - k
      /\ \A i \in 1..(Len(lines) - k) : rest[i] = lines[i + k]
  BY <1>1
<1> HIDE DEF rest
<1>3. ASSUME NEW i \in 1..Len(rest)
      PROVE  /\ rest[i].seq \in 1..n
             /\ \A j \in 1..(i - 1) : rest[j].seq < rest[i].seq
             /\ rest[i].type = "run-start" => i = 1
             /\ rest[i].type = "run-end" => i = Len(rest)
  <2>1. i + k \in 1..Len(lines) /\ rest[i] = lines[i + k]
    BY <1>1, <1>2
  <2>2. /\ lines[i + k].seq \in 1..n
        /\ lines[i + k].type = "run-start" => i + k = 1
        /\ lines[i + k].type = "run-end" => i + k = Len(lines)
    BY <2>1 DEF Ordered
  <2>3. ASSUME NEW j \in 1..(i - 1) PROVE rest[j].seq < rest[i].seq
    <3>1. j + k \in 1..(i + k - 1) /\ j \in 1..(Len(lines) - k)
      BY <1>1, <1>2
    <3>2. rest[j] = lines[j + k] /\ lines[j + k].seq < lines[i + k].seq
      BY <3>1, <2>1, <1>2 DEF Ordered
    <3> QED BY <3>2, <2>1
  <2> QED BY <2>1, <2>2, <2>3, <1>1, <1>2
<1> QED BY <1>2, <1>3 DEF Ordered, rest

-----------------------------------------------------------------------------

Recorders == [seq : Nat, attempts : Nat, failures : Nat, ended : BOOLEAN]
Streams == [lines : Seq(Records), torn : BOOLEAN, dropped : Nat, closed : BOOLEAN]
Rings == [events : Seq(Records), dropped : Nat, closed : BOOLEAN]

SinkOK ==
  /\ sink \in [kind : SinkKinds, capacity : Capacities]
  /\ recorder \in Recorders /\ stream \in Streams /\ ring \in Rings
  /\ account \in [emitted : Int, dropped : Int]

\* Every attempt is a line or a loss, and nothing follows the run-end.
Balanced(lines, dropped, r) ==
  /\ Ordered(lines, r.seq)
  /\ r.attempts = Len(lines) + dropped
  /\ \A i \in 1..Len(lines) : lines[i].type = "run-end" => r.ended /\ lines[i].seq = r.seq

StreamInv ==
  /\ ToStream => Balanced(stream.lines, stream.dropped, recorder)
  /\ ~ToStream => stream.lines = <<>>

\* A bounded ring has room for the run-end until it comes, and no spoilt line.
RingInv ==
  /\ ToRing => Balanced(ring.events, ring.dropped, recorder)
  /\ ~ToRing => ring.events = <<>>
  /\ Clean(ring.events)
  /\ sink.capacity > 0 /\ ~recorder.ended => Len(ring.events) < sink.capacity
  /\ RingKeepsTheEnd

\* What the run-end says was lost is what was lost before it.
AccountInv ==
  /\ recorder.attempts = recorder.seq
  /\ recorder.ended /\ sink.kind = "dir" /\ stream.lines /= <<>> /\ Last(stream.lines).type = "run-end" =>
       account.dropped = stream.dropped /\ account.emitted = Len(stream.lines) - 1
  /\ recorder.ended /\ sink.kind = "ring" /\ ring.events /= <<>> /\ Last(ring.events).type = "run-end" =>
       account.dropped = ring.dropped /\ account.emitted = Len(ring.events) - 1

RecorderInv == SinkOK /\ StreamInv /\ RingInv /\ AccountInv

LEMMA RecorderStarts == RecorderInit => RecorderInv
<1> SUFFICES ASSUME RecorderInit PROVE RecorderInv
  OBVIOUS
<1>1. SinkOK
  BY DEF RecorderInit, SinkOK, NoAccount, Recorders, Streams, Rings
<1>2. Ordered(<<>>, 0) /\ Clean(<<>>) /\ Len(<<>>) = 0
  BY DEF Ordered, Clean
<1>3. Balanced(<<>>, 0, recorder)
  BY <1>2 DEF RecorderInit, Balanced
<1> QED BY <1>1, <1>2, <1>3, RecorderAssumption
     DEF RecorderInit, RecorderInv, StreamInv, RingInv, AccountInv, RingKeepsTheEnd, ToStream, ToRing

\* One emission, of anything, to any sink, that ends in any way.
Emits(type, how) ==
  /\ ~recorder.ended /\ EmitLocked(type, how) /\ UNCHANGED sink
  /\ type \in {"run-start", "event", "run-end"} /\ how \in {"line", "lost", "part"}
  /\ type = "run-start" => recorder.seq = 0

Numbered ==
  /\ recorder'.seq = recorder.seq + 1 /\ recorder'.attempts = recorder.attempts + 1
  /\ recorder.seq \in Nat /\ recorder.attempts \in Nat /\ recorder.seq = recorder.attempts

LEMMA EmitNumbers ==
  ASSUME RecorderInv, NEW type, NEW how, Emits(type, how)
  PROVE  /\ Numbered
         /\ recorder' \in Recorders
         /\ recorder'.ended = (type = "run-end")
         /\ stream' = IF ToStream THEN DirEmit(Event(recorder.seq + 1, type), how) ELSE stream
         /\ ring' = IF ToRing THEN RingEmit(Event(recorder.seq + 1, type)) ELSE ring
<1>1. recorder \in Recorders
  BY DEF RecorderInv, SinkOK
<1>2. /\ recorder' = [recorder EXCEPT !.seq = recorder.seq + 1, !.attempts = recorder.attempts + 1,
                         !.failures = IF Kept(how) THEN recorder.failures ELSE recorder.failures + 1,
                         !.ended = type = "run-end"]
      /\ Deliver(Event(recorder.seq + 1, type), how)
  BY DEF Emits, EmitLocked
<1>3. recorder.attempts = recorder.seq
  BY DEF RecorderInv, AccountInv
<1>4. Numbered
  BY <1>1, <1>2, <1>3 DEF Numbered, Recorders
<1>5. recorder' \in Recorders
  <2> DEFINE lost == IF Kept(how) THEN recorder.failures ELSE recorder.failures + 1
             last == type = "run-end"
  <2>1. lost \in Nat /\ last \in BOOLEAN
    BY <1>1 DEF Recorders
  <2>2. recorder' = [recorder EXCEPT !.seq = recorder.seq + 1, !.attempts = recorder.attempts + 1,
                         !.failures = lost, !.ended = last]
    BY <1>2
  <2> HIDE DEF lost, last
  <2>3. recorder.seq + 1 \in Nat /\ recorder.attempts + 1 \in Nat
    BY <1>1 DEF Recorders
  <2>4. [recorder EXCEPT !.seq = recorder.seq + 1] \in Recorders
    BY <1>1, <2>3 DEF Recorders
  <2>5. \A s \in Recorders : [s EXCEPT !.attempts = recorder.attempts + 1] \in Recorders
    BY <2>3 DEF Recorders
  <2>6. \A s \in Recorders : [s EXCEPT !.failures = lost] \in Recorders
    BY <2>1 DEF Recorders
  <2>7. \A s \in Recorders : [s EXCEPT !.ended = last] \in Recorders
    BY <2>1 DEF Recorders
  <2> QED BY <2>2, <2>4, <2>5, <2>6, <2>7
<1>6. recorder'.ended = (type = "run-end")
  BY <1>1, <1>2 DEF Recorders
<1> QED BY <1>2, <1>4, <1>5, <1>6 DEF Deliver

\* An emission that leaves the lines as they are is a loss.
LEMMA Losing ==
  ASSUME NEW lines, NEW dropped \in Nat, NEW r \in Recorders, Balanced(lines, dropped, r), ~r.ended,
         NEW s \in Recorders, s.seq = r.seq + 1, s.attempts = r.attempts + 1
  PROVE  Balanced(lines, dropped + 1, s)
<1>1. Ordered(lines, s.seq)
  BY DEF Ordered, Balanced, Recorders
<1>2. lines \in Seq(Records) /\ r.attempts = Len(lines) + dropped
  BY DEF Balanced, Ordered
<1>3. s.attempts = Len(lines) + (dropped + 1)
  BY <1>2 DEF Recorders
<1> QED BY <1>1, <1>3 DEF Balanced

\* One that adds a line loses nothing.
LEMMA Gaining ==
  ASSUME NEW lines, NEW dropped \in Nat, NEW r \in Recorders, Balanced(lines, dropped, r), ~r.ended,
         NEW s \in Recorders, s.seq = r.seq + 1, s.attempts = r.attempts + 1, r.attempts = r.seq,
         NEW e \in Records, e.seq = s.seq, e.type = "run-start" => r.seq = 0,
         e.type = "run-end" => s.ended
  PROVE  /\ Balanced(Append(lines, e), dropped, s) /\ Len(Append(lines, e)) = Len(lines) + 1
         /\ \A i \in 1..Len(lines) : Append(lines, e)[i] = lines[i] /\ lines[i].type /= "run-end"
         /\ Append(lines, e)[Len(lines) + 1] = e
<1>1. /\ r.seq \in Nat /\ s.seq \in Nat /\ r.seq < s.seq /\ Ordered(lines, r.seq)
      /\ Len(lines) \in Nat /\ r.attempts = Len(lines) + dropped /\ lines \in Seq(Records)
      /\ r.attempts \in Nat
  <2>1. Ordered(lines, r.seq) /\ r.attempts = Len(lines) + dropped
    BY DEF Balanced
  <2>2. lines \in Seq(Records) /\ Len(lines) \in Nat
    BY <2>1 DEF Ordered
  <2>3. r.seq \in Nat /\ s.seq \in Nat /\ r.attempts \in Nat
    BY DEF Recorders
  <2>4. r.seq < s.seq
    BY ONLY <2>3, s.seq = r.seq + 1
  <2> QED BY ONLY <2>1, <2>2, <2>3, <2>4
<1>2. \A i \in 1..Len(lines) : lines[i].type /= "run-end"
  BY DEF Balanced
<1>3. r.seq = 0 => lines = <<>>
  <2>1. r.seq = 0 => Len(lines) = 0
    <3> DEFINE length == Len(lines)
               number == r.seq
    <3>1. length \in Nat /\ number \in Nat /\ number = length + dropped
      BY <1>1
    <3> HIDE DEF length, number
    <3>2. number = 0 => length = 0
      BY ONLY <3>1, dropped \in Nat
    <3> QED BY <3>2 DEF length, number
  <2> QED BY <1>1, <2>1, EmptySeq
<1>4. /\ Ordered(Append(lines, e), s.seq) /\ Len(Append(lines, e)) = Len(lines) + 1
      /\ \A i \in 1..Len(lines) : Append(lines, e)[i] = lines[i]
      /\ Append(lines, e)[Len(lines) + 1] = e
  BY <1>1, <1>2, <1>3, Appending
<1>5. s.attempts = Len(Append(lines, e)) + dropped
  BY <1>1, <1>4
<1>6. ASSUME NEW i \in 1..Len(Append(lines, e)), Append(lines, e)[i].type = "run-end"
      PROVE  s.ended /\ Append(lines, e)[i].seq = s.seq
  <2>1. i \in 1..Len(lines) \/ i = Len(lines) + 1
    BY <1>1, <1>4
  <2> QED BY <2>1, <1>2, <1>4, <1>6
<1> QED BY <1>2, <1>4, <1>5, <1>6 DEF Balanced

LEMMA StreamStep ==
  ASSUME RecorderInv, NEW type, NEW how, Emits(type, how)
  PROVE  /\ StreamInv' /\ stream' \in Streams
         /\ ToStream /\ stream'.lines /= <<>> /\ Last(stream'.lines).type = "run-end" =>
              stream'.dropped = stream.dropped /\ Len(stream'.lines) = Len(stream.lines) + 1
<1> DEFINE e == Event(recorder.seq + 1, type)
<1>1. /\ Numbered /\ recorder' \in Recorders /\ recorder'.ended = (type = "run-end")
      /\ stream' = IF ToStream THEN DirEmit(e, how) ELSE stream
  BY EmitNumbers
<1>2. /\ stream \in Streams
      /\ recorder \in Recorders /\ ~recorder.ended /\ UNCHANGED sink
      /\ type \in {"run-start", "event", "run-end"} /\ (type = "run-start" => recorder.seq = 0)
  BY DEF RecorderInv, SinkOK, Emits
<1>3. ToStream' = ToStream
  BY <1>2 DEF ToStream
<1>4. CASE ~ToStream
  BY <1>1, <1>2, <1>3, <1>4 DEF RecorderInv, StreamInv
<1>5. CASE ToStream
  <2>1. Balanced(stream.lines, stream.dropped, recorder)
    BY <1>5 DEF RecorderInv, StreamInv
  <2>2. /\ recorder'.seq = recorder.seq + 1 /\ recorder'.attempts = recorder.attempts + 1
        /\ recorder.attempts = recorder.seq
    BY <1>1 DEF Numbered
  <2>3. ASSUME stream'.lines = stream.lines, stream'.dropped = stream.dropped + 1
        PROVE  /\ Balanced(stream'.lines, stream'.dropped, recorder')
               /\ stream.lines /= <<>> => Last(stream.lines).type /= "run-end"
    <3>1. Balanced(stream.lines, stream.dropped + 1, recorder')
      <4>1. stream.dropped \in Nat
        BY <1>2 DEF Streams
      <4> QED BY <4>1, <1>1, <1>2, <2>1, <2>2, Losing
    <3>2. \A i \in 1..Len(stream.lines) : stream.lines[i].type /= "run-end"
      BY <2>1, <1>2 DEF Balanced
    <3>3. stream.lines /= <<>> => Len(stream.lines) \in 1..Len(stream.lines)
      <4>1. stream.lines \in Seq(Records)
        BY <1>2 DEF Streams
      <4>2. stream.lines /= <<>> => Len(stream.lines) \in Nat \ {0}
        BY <4>1, EmptySeq
      <4> QED BY <4>2
    <3> QED BY <2>3, <3>1, <3>2, <3>3 DEF Last
  <2>4. ASSUME NEW d \in Records, d.seq = recorder.seq + 1, d.type = type \/ d.type = "spoilt",
               stream'.lines = Append(stream.lines, d), stream'.dropped = stream.dropped
        PROVE  /\ Balanced(stream'.lines, stream'.dropped, recorder')
               /\ Len(stream'.lines) = Len(stream.lines) + 1
    <3>1. d.type = "run-start" => recorder.seq = 0
      BY <2>4, <1>2
    <3>2. d.type = "run-end" => recorder'.ended
      BY <2>4, <1>1
    <3>3. d.seq = recorder'.seq
      BY <2>2, <2>4
    <3>4. stream.dropped \in Nat
      BY <1>2 DEF Streams
    <3> QED BY <3>1, <3>2, <3>3, <3>4, <2>1, <2>2, <2>4, <1>1, <1>2, Gaining
  <2>5. CASE stream.closed \/ how = "lost"
    <3>1. stream' = [stream EXCEPT !.dropped = stream.dropped + 1]
      BY <1>1, <1>5, <2>5 DEF DirEmit
    <3>2. /\ stream'.lines = stream.lines /\ stream'.dropped = stream.dropped + 1
          /\ stream' \in Streams
      BY <3>1, <1>2 DEF Streams
    <3> QED BY <3>2, <2>3, <1>3, <1>5 DEF StreamInv
  <2>6. CASE ~(stream.closed \/ how = "lost") /\ how = "part"
    <3>1. stream' = [stream EXCEPT !.dropped = stream.dropped + 1, !.torn = TRUE]
      BY <1>1, <1>5, <2>6 DEF DirEmit
    <3>2. /\ stream'.lines = stream.lines /\ stream'.dropped = stream.dropped + 1
          /\ stream' \in Streams
      <4>1. stream.dropped + 1 \in Nat
        BY <1>2 DEF Streams
      <4>2. [stream EXCEPT !.dropped = stream.dropped + 1] \in Streams
        BY <4>1, <1>2 DEF Streams
      <4>3. \A t \in Streams : [t EXCEPT !.torn = TRUE] \in Streams
        BY DEF Streams
      <4>4. stream' \in Streams
        BY <3>1, <4>2, <4>3
      <4>5. stream'.lines = stream.lines /\ stream'.dropped = stream.dropped + 1
        BY <3>1, <1>2 DEF Streams
      <4> QED BY <4>4, <4>5
    <3> QED BY <3>2, <2>3, <1>3, <1>5 DEF StreamInv
  <2>7. CASE ~(stream.closed \/ how = "lost") /\ how /= "part"
    <3> DEFINE d == IF stream.torn THEN [e EXCEPT !.type = "spoilt"] ELSE e
    <3>1. stream' = [stream EXCEPT !.lines = Append(stream.lines, d), !.torn = FALSE]
      BY <1>1, <1>5, <2>7 DEF DirEmit
    <3>2. d \in Records /\ d.seq = recorder.seq + 1 /\ (d.type = type \/ d.type = "spoilt")
      <4>1. e = [seq |-> recorder.seq + 1, type |-> type]
        BY DEF Event
      <4>2. d = e \/ d = [seq |-> recorder.seq + 1, type |-> "spoilt"]
        BY <4>1
      <4>3. recorder.seq + 1 \in Nat /\ type \in EventTypes /\ "spoilt" \in EventTypes
        BY <1>1, <1>2 DEF Numbered, EventTypes
      <4> HIDE DEF d, e
      <4> QED BY <4>1, <4>2, <4>3 DEF Records
    <3> HIDE DEF d
    <3>3. /\ stream'.lines = Append(stream.lines, d) /\ stream'.dropped = stream.dropped
          /\ stream' \in Streams
      <4>1. Append(stream.lines, d) \in Seq(Records)
        BY <3>2, <1>2 DEF Streams
      <4>2. [stream EXCEPT !.lines = Append(stream.lines, d)] \in Streams
        BY <4>1, <1>2 DEF Streams
      <4>3. \A t \in Streams : [t EXCEPT !.torn = FALSE] \in Streams
        BY DEF Streams
      <4>4. stream' \in Streams
        BY <3>1, <4>2, <4>3
      <4>5. stream'.lines = Append(stream.lines, d) /\ stream'.dropped = stream.dropped
        BY <3>1, <1>2 DEF Streams
      <4> QED BY <4>4, <4>5
    <3> QED BY <3>2, <3>3, <2>4, <1>3, <1>5 DEF StreamInv
  <2> QED BY <2>5, <2>6, <2>7
<1> QED BY <1>4, <1>5

\* The oldest events of a ring fall out.
LEMMA Clipping ==
  ASSUME NEW lines, NEW dropped \in Nat, NEW r \in Recorders, Balanced(lines, dropped, r),
         NEW k \in 0..Len(lines)
  PROVE  LET rest == SubSeq(lines, k + 1, Len(lines))
         IN /\ Balanced(rest, dropped + k, r) /\ Len(rest) = Len(lines) - k
            /\ Clean(lines) => Clean(rest)
<1> DEFINE rest == SubSeq(lines, k + 1, Len(lines))
<1>1. r.seq \in Nat /\ Ordered(lines, r.seq) /\ Len(lines) \in Nat /\ r.attempts = Len(lines) + dropped
  BY DEF Balanced, Ordered, Recorders
<1>2. /\ Ordered(rest, r.seq) /\ Len(rest) = Len(lines) - k
      /\ \A i \in 1..(Len(lines) - k) : rest[i] = lines[i + k]
  BY <1>1, Shortening
<1> HIDE DEF rest
<1>3. \A i \in 1..Len(rest) : rest[i] = lines[i + k] /\ i + k \in 1..Len(lines)
  BY <1>1, <1>2
<1>4. r.attempts = Len(rest) + (dropped + k)
  BY <1>1, <1>2
<1>5. \A i \in 1..Len(rest) : rest[i].type = "run-end" => r.ended /\ rest[i].seq = r.seq
  BY <1>3 DEF Balanced
<1>6. Clean(lines) => Clean(rest)
  BY <1>3 DEF Clean
<1> QED BY <1>2, <1>4, <1>5, <1>6 DEF Balanced, rest

LEMMA RingStep ==
  ASSUME RecorderInv, NEW type, NEW how, Emits(type, how)
  PROVE  /\ RingInv' /\ ring' \in Rings
         /\ ToRing /\ type = "run-end" /\ ring'.events /= <<>> /\ Last(ring'.events).type = "run-end" =>
              ring'.dropped = ring.dropped /\ Len(ring'.events) = Len(ring.events) + 1
<1> DEFINE e == Event(recorder.seq + 1, type)
           all == Append(ring.events, e)
           room == IF e.type = "run-end" THEN sink.capacity ELSE sink.capacity - 1
           over == Len(all) - room
<1>1. /\ Numbered /\ recorder' \in Recorders /\ recorder'.ended = (type = "run-end")
      /\ ring' = IF ToRing THEN RingEmit(e) ELSE ring
  BY EmitNumbers
<1>2. /\ ring \in Rings /\ recorder \in Recorders /\ ~recorder.ended /\ UNCHANGED sink
      /\ type \in {"run-start", "event", "run-end"} /\ (type = "run-start" => recorder.seq = 0)
      /\ sink \in [kind : SinkKinds, capacity : Capacities] /\ RingInv
  BY DEF RecorderInv, SinkOK, Emits
<1>3. ToRing' = ToRing /\ sink' = sink
  BY <1>2 DEF ToRing
<1>4. sink.capacity \in Nat
  BY <1>2, RecorderAssumption
<1>5. CASE ~ToRing
  <2>1. ring' = ring /\ ring.events = <<>>
    BY <1>1, <1>2, <1>5 DEF RingInv
  <2>2. Len(ring.events) = 0
    BY <2>1
  <2> QED BY <1>1, <1>2, <1>3, <1>4, <1>5, <2>1, <2>2 DEF RingInv, RingKeepsTheEnd
<1>6. CASE ToRing
  <2>1. /\ Balanced(ring.events, ring.dropped, recorder) /\ Clean(ring.events)
        /\ sink.capacity > 0 => Len(ring.events) < sink.capacity
    BY <1>2, <1>6 DEF RingInv
  <2>2. /\ recorder'.seq = recorder.seq + 1 /\ recorder'.attempts = recorder.attempts + 1
        /\ recorder.attempts = recorder.seq /\ recorder.seq \in Nat
    BY <1>1 DEF Numbered
  <2>3. /\ ring.events \in Seq(Records) /\ ring.dropped \in Nat /\ Len(ring.events) \in Nat
        /\ ring.closed \in BOOLEAN
    BY <1>2 DEF Rings
  <2>4. \A i \in 1..Len(ring.events) : ring.events[i].type /= "run-end"
    BY <2>1, <1>2 DEF Balanced
  <2>5. CASE ring.closed
    <3>1. ring' = [ring EXCEPT !.dropped = ring.dropped + 1]
      BY <1>1, <1>6, <2>5 DEF RingEmit
    <3>2. /\ ring'.events = ring.events /\ ring'.dropped = ring.dropped + 1 /\ ring'.closed = TRUE
          /\ ring' \in Rings
      BY <3>1, <1>2, <2>5 DEF Rings
    <3>3. Balanced(ring.events, ring.dropped + 1, recorder')
      BY <1>1, <1>2, <2>1, <2>2, <2>3, Losing
    <3>4. ring.events /= <<>> => Last(ring.events).type /= "run-end"
      <4>1. ring.events /= <<>> => Len(ring.events) \in Nat \ {0}
        BY <2>3, EmptySeq
      <4> QED BY <4>1, <2>4 DEF Last
    <3> QED BY <1>1, <1>3, <1>6, <2>1, <3>2, <3>3, <3>4 DEF RingInv, RingKeepsTheEnd, Clean
  <2>6. CASE ~ring.closed
    <3>1. e \in Records /\ e.seq = recorder'.seq /\ e.type = type
      <4>1. e = [seq |-> recorder.seq + 1, type |-> type]
        BY DEF Event
      <4>2. recorder.seq + 1 \in Nat /\ type \in EventTypes
        BY <2>2, <1>2 DEF EventTypes
      <4> HIDE DEF e
      <4> QED BY <4>1, <4>2, <2>2 DEF Records
    <3>2. ring' = IF sink.capacity > 0 /\ over > 0
                  THEN [ring EXCEPT !.events = SubSeq(all, over + 1, Len(all)), !.dropped = ring.dropped + over]
                  ELSE [ring EXCEPT !.events = all]
      BY <1>1, <1>6, <2>6 DEF RingEmit
    <3> HIDE DEF e
    <3>3. /\ Balanced(all, ring.dropped, recorder') /\ Len(all) = Len(ring.events) + 1
          /\ \A i \in 1..Len(ring.events) : all[i] = ring.events[i]
          /\ all[Len(ring.events) + 1] = e
      <4>1. e.type = "run-start" => recorder.seq = 0
        BY <3>1, <1>2
      <4>2. e.type = "run-end" => recorder'.ended
        BY <3>1, <1>1
      <4>3. e.seq = recorder'.seq /\ e \in Records
        BY <3>1
      <4> QED BY <4>1, <4>2, <4>3, <2>1, <2>2, <2>3, <1>1, <1>2, Gaining
    <3>4. Clean(all)
      <4>1. \A i \in 1..Len(all) : i \in 1..Len(ring.events) \/ i = Len(ring.events) + 1
        BY <2>3, <3>3
      <4>2. e.type /= "spoilt"
        BY <3>1, <1>2
      <4> QED BY <4>1, <4>2, <3>3, <2>1 DEF Clean
    <3>5. all \in Seq(Records) /\ Len(all) \in Nat
      BY <3>1, <2>3
    <3> HIDE DEF all
    <3>6. CASE sink.capacity > 0 /\ over > 0
      <4>1. type /= "run-end" /\ room = sink.capacity - 1
        <5>1. type = "run-end" => over <= 0
          BY <3>1, <3>3, <2>1, <2>3, <1>4, <3>6
        <5> QED BY <5>1, <3>1, <3>5, <3>6, <1>4
      <4>2. over \in 0..Len(all) /\ over \in Nat /\ Len(all) - over = sink.capacity - 1
        BY <4>1, <3>5, <3>6, <1>4
      <4> DEFINE rest == SubSeq(all, over + 1, Len(all))
      <4>3. ring' = [ring EXCEPT !.events = rest, !.dropped = ring.dropped + over]
        BY <3>2, <3>6
      <4> HIDE DEF over, room
      <4>4. /\ Balanced(rest, ring.dropped + over, recorder') /\ Len(rest) = Len(all) - over
            /\ Clean(rest)
        BY <4>2, <3>3, <3>4, <2>3, <1>1, Clipping
      <4>5. rest \in Seq(Records) /\ ring.dropped + over \in Nat
        BY <4>2, <4>4, <2>3 DEF Balanced, Ordered
      <4> HIDE DEF rest
      <4>6. /\ ring'.events = rest /\ ring'.dropped = ring.dropped + over /\ ring' \in Rings
        BY <4>3, <4>5, <1>2 DEF Rings
      <4>7. Len(rest) < sink.capacity
        BY <4>2, <4>4, <1>4
      <4> QED BY <4>1, <4>4, <4>6, <4>7, <1>1, <1>3, <1>6 DEF RingInv, RingKeepsTheEnd
    <3>7. CASE ~(sink.capacity > 0 /\ over > 0)
      <4>1. ring' = [ring EXCEPT !.events = all]
        BY <3>2, <3>7
      <4>2. /\ ring'.events = all /\ ring'.dropped = ring.dropped /\ ring' \in Rings
        BY <4>1, <3>5, <1>2 DEF Rings
      <4>3. type /= "run-end" => (sink.capacity > 0 => Len(all) < sink.capacity)
        BY <3>1, <3>5, <3>7, <1>4
      <4>4. Last(all) = e /\ all /= <<>>
        <5>1. Len(all) /= 0
          BY <3>3, <2>3
        <5>2. Last(all) = e
          BY <3>3 DEF Last
        <5> QED BY <5>1, <5>2, EmptySeq
      <4> QED BY <4>2, <4>3, <4>4, <3>1, <3>3, <3>4, <1>1, <1>3, <1>6 DEF RingInv, RingKeepsTheEnd
    <3> QED BY <3>6, <3>7
  <2> QED BY <2>5, <2>6
<1> QED BY <1>5, <1>6

-----------------------------------------------------------------------------

LEMMA NumbersKept ==
  ASSUME RecorderInv, NEW type, NEW how, Emits(type, how)
  PROVE  recorder'.attempts = recorder'.seq
BY EmitNumbers DEF Numbered

\* An emission before the run-end.
LEMMA EmitStep ==
  ASSUME RecorderInv, NEW type, type /= "run-end", NEW how, Emits(type, how), UNCHANGED account
  PROVE  RecorderInv'
<1>1. /\ StreamInv' /\ stream' \in Streams
  BY StreamStep
<1>2. RingInv' /\ ring' \in Rings
  BY RingStep
<1>3. recorder' \in Recorders /\ recorder'.ended = FALSE /\ recorder'.attempts = recorder'.seq
  BY EmitNumbers, NumbersKept
<1>4. SinkOK'
  BY <1>1, <1>2, <1>3 DEF RecorderInv, SinkOK, Emits
<1>5. AccountInv'
  BY <1>3 DEF AccountInv
<1> QED BY <1>1, <1>2, <1>4, <1>5 DEF RecorderInv

LEMMA RunEndStep == RecorderInv /\ RunEnd => RecorderInv'
<1> SUFFICES ASSUME RecorderInv, RunEnd PROVE RecorderInv'
  OBVIOUS
<1>1. PICK how \in WriteOutcomes : EmitLocked("run-end", how)
  BY DEF RunEnd
<1>2. Emits("run-end", how)
  BY <1>1 DEF Emits, RunEnd, WriteOutcomes
<1>3. /\ StreamInv' /\ stream' \in Streams
      /\ ToStream /\ stream'.lines /= <<>> /\ Last(stream'.lines).type = "run-end" =>
           stream'.dropped = stream.dropped /\ Len(stream'.lines) = Len(stream.lines) + 1
  BY <1>2, StreamStep
<1>4. /\ RingInv' /\ ring' \in Rings
      /\ ToRing /\ ring'.events /= <<>> /\ Last(ring'.events).type = "run-end" =>
           ring'.dropped = ring.dropped /\ Len(ring'.events) = Len(ring.events) + 1
  BY <1>2, RingStep
<1>5. recorder' \in Recorders /\ recorder'.attempts = recorder'.seq
  BY <1>2, EmitNumbers, NumbersKept
<1>6. /\ stream \in Streams /\ ring \in Rings /\ recorder \in Recorders
      /\ StreamInv /\ RingInv /\ UNCHANGED sink
  BY <1>2 DEF RecorderInv, SinkOK, Emits
<1> DEFINE emitted == recorder.attempts - Dropped
<1>7. account' = [emitted |-> IF emitted > 0 THEN emitted ELSE 0, dropped |-> Dropped]
  BY DEF RunEnd
<1>8. Dropped \in Nat
  <2>1. /\ stream.dropped \in Nat /\ ring.dropped \in Nat /\ recorder.failures \in Nat
    BY <1>6 DEF Streams, Rings, Recorders
  <2> QED BY <2>1 DEF Dropped
<1>9. account' \in [emitted : Int, dropped : Int]
  <2>1. recorder.attempts \in Nat
    BY <1>6 DEF Recorders
  <2>2. emitted \in Int
    BY <2>1, <1>8
  <2> HIDE DEF emitted
  <2> QED BY <2>2, <1>7, <1>8
<1>10. SinkOK'
  BY <1>3, <1>4, <1>5, <1>6, <1>9 DEF RecorderInv, SinkOK
<1>11. ASSUME sink.kind = "dir", stream'.lines /= <<>>, Last(stream'.lines).type = "run-end"
       PROVE  account'.dropped = stream'.dropped /\ account'.emitted = Len(stream'.lines) - 1
  <2>1. /\ ToStream /\ ~ToRing /\ stream.dropped \in Nat /\ Len(stream.lines) \in Nat
    BY <1>6, <1>11 DEF ToStream, ToRing, Streams
  <2>2. Dropped = stream.dropped
    BY <2>1, <1>11 DEF Dropped
  <2>3. recorder.attempts = Len(stream.lines) + stream.dropped
    BY <2>1, <1>6 DEF StreamInv, Balanced
  <2>4. emitted = Len(stream.lines)
    BY <2>1, <2>2, <2>3
  <2> QED BY <2>1, <2>2, <2>4, <1>3, <1>7, <1>11
<1>12. ASSUME sink.kind = "ring", ring'.events /= <<>>, Last(ring'.events).type = "run-end"
       PROVE  account'.dropped = ring'.dropped /\ account'.emitted = Len(ring'.events) - 1
  <2>1. /\ ToRing /\ ~ToStream /\ ring.dropped \in Nat /\ Len(ring.events) \in Nat
    BY <1>6, <1>12 DEF ToStream, ToRing, Rings
  <2>2. Dropped = ring.dropped
    BY <2>1, <1>12 DEF Dropped
  <2>3. recorder.attempts = Len(ring.events) + ring.dropped
    BY <2>1, <1>6 DEF RingInv, Balanced
  <2>4. emitted = Len(ring.events)
    BY <2>1, <2>2, <2>3
  <2> QED BY <2>1, <2>2, <2>4, <1>4, <1>7, <1>12
<1>13. AccountInv'
  BY <1>5, <1>6, <1>11, <1>12 DEF AccountInv
<1> QED BY <1>3, <1>4, <1>10, <1>13 DEF RecorderInv

LEMMA CloseStep == RecorderInv /\ CloseSink => RecorderInv'
<1> SUFFICES ASSUME RecorderInv, CloseSink PROVE RecorderInv'
  OBVIOUS
<1>1. /\ stream \in Streams /\ ring \in Rings
      /\ stream' = [stream EXCEPT !.closed = TRUE] /\ ring' = [ring EXCEPT !.closed = TRUE]
      /\ UNCHANGED <<recorder, sink, account>>
  BY DEF RecorderInv, SinkOK, CloseSink
<1>2. /\ stream' \in Streams /\ stream'.lines = stream.lines /\ stream'.dropped = stream.dropped
      /\ ring' \in Rings /\ ring'.events = ring.events /\ ring'.dropped = ring.dropped
      /\ ring'.closed = TRUE
  BY <1>1 DEF Streams, Rings
<1>3. SinkOK'
  BY <1>1, <1>2 DEF RecorderInv, SinkOK
<1>4. ToStream' = ToStream /\ ToRing' = ToRing
  BY <1>1 DEF ToStream, ToRing
<1>5. StreamInv'
  BY <1>1, <1>2, <1>4 DEF RecorderInv, StreamInv
<1>6. RingInv'
  BY <1>1, <1>2, <1>4 DEF RecorderInv, RingInv, RingKeepsTheEnd
<1>7. AccountInv'
  BY <1>1, <1>2 DEF RecorderInv, AccountInv
<1> QED BY <1>3, <1>5, <1>6, <1>7 DEF RecorderInv

LEMMA RecorderStep == RecorderInv /\ [RecorderNext]_recorderVars => RecorderInv'
<1> SUFFICES ASSUME RecorderInv, [RecorderNext]_recorderVars PROVE RecorderInv'
  OBVIOUS
<1>1. CASE UNCHANGED recorderVars
  BY <1>1 DEF recorderVars, RecorderInv, SinkOK, StreamInv, RingInv, AccountInv, RingKeepsTheEnd,
              ToStream, ToRing
<1>2. ASSUME NEW type \in {"run-start", "event"}, NEW how \in WriteOutcomes, EmitLocked(type, how),
             UNCHANGED <<sink, account>>, type = "run-start" => recorder.seq = 0
      PROVE  RecorderInv'
  <2>1. CASE recorder.ended
    <3>1. UNCHANGED recorderVars
      BY <1>2, <2>1 DEF EmitLocked, recorderVars
    <3> QED BY <3>1, <1>1
  <2>2. CASE ~recorder.ended
    <3>1. Emits(type, how)
      BY <1>2, <2>2 DEF Emits, WriteOutcomes
    <3> QED BY <3>1, <1>2, EmitStep
  <2> QED BY <2>1, <2>2
<1>3. CASE RecorderStart
  <2>1. PICK how \in WriteOutcomes : EmitLocked("run-start", how)
    BY <1>3 DEF RecorderStart
  <2> QED BY <2>1, <1>2, <1>3 DEF RecorderStart
<1>4. CASE Emit
  <2>1. PICK how \in WriteOutcomes : EmitLocked("event", how)
    BY <1>4 DEF Emit
  <2> QED BY <2>1, <1>2, <1>4 DEF Emit
<1> QED BY <1>1, <1>3, <1>4, RunEndStep, CloseStep DEF RecorderNext

\* What a reader makes of lines that are in order, with their account.
LEMMA ReadBack ==
  ASSUME NEW lines, NEW dropped \in Nat, NEW r \in Recorders, Balanced(lines, dropped, r), Clean(lines),
         r.attempts = r.seq
  PROVE  /\ ReadStream(lines).ok
         /\ ReadStream(lines).ended =>
              /\ lines /= <<>> /\ Last(lines).type = "run-end" /\ r.ended
              /\ ReadStream(lines).missing = dropped /\ ReadStream(lines).events = Len(lines)
<1> DEFINE n == Len(lines)
<1>1. /\ r.seq \in Nat /\ Ordered(lines, r.seq) /\ n \in Nat /\ r.seq = n + dropped
      /\ lines \in Seq(Records)
  BY DEF Balanced, Ordered, Recorders
<1>2. ReadStream(lines) = SummaryOf(lines, n)
  BY <1>1, WellRead
<1>3. CASE n = 0
  <2>1. SummaryOf(lines, n) = NothingRead
    BY <1>3 DEF SummaryOf
  <2> QED BY <1>2, <2>1 DEF NothingRead
<1>4. CASE n /= 0
  <2>1. SummaryOf(lines, n) = [ok |-> TRUE, last |-> lines[n].seq, missing |-> lines[n].seq - n,
                               events |-> n, ended |-> lines[n].type = "run-end"]
    BY <1>4 DEF SummaryOf
  <2>2. n \in 1..Len(lines) /\ lines /= <<>> /\ Last(lines) = lines[n]
    BY <1>1, <1>4 DEF Last
  <2>3. lines[n].type = "run-end" => r.ended /\ lines[n].seq = r.seq
    BY <2>2 DEF Balanced
  <2>4. r.seq - n = dropped
    BY <1>1
  <2> HIDE DEF n
  <2>5. /\ SummaryOf(lines, n).ok = TRUE /\ SummaryOf(lines, n).missing = lines[n].seq - n
        /\ SummaryOf(lines, n).events = n
        /\ SummaryOf(lines, n).ended = (lines[n].type = "run-end")
    BY <2>1
  <2> QED BY <1>2, <2>2, <2>3, <2>4, <2>5 DEF n
<1> QED BY <1>3, <1>4

LEMMA HonestFollows == RecorderInv => RecordingIsHonest
<1> SUFFICES ASSUME RecorderInv PROVE RecordingIsHonest
  OBVIOUS
<1>1. /\ recorder \in Recorders /\ stream \in Streams /\ ring \in Rings
      /\ recorder.attempts = recorder.seq /\ StreamInv /\ RingInv /\ AccountInv
  BY DEF RecorderInv, SinkOK, AccountInv
<1>3. ReadStream(<<>>).ok /\ ~ReadStream(<<>>).ended
  <2>1. Ordered(<<>>, 0) /\ Clean(<<>>) /\ Len(<<>>) = 0
    BY DEF Ordered, Clean
  <2>2. ReadStream(<<>>) = SummaryOf(<<>>, 0)
    BY <2>1, WellRead
  <2> QED BY <2>2 DEF SummaryOf, NothingRead
<1>4. ASSUME ~Spoilt
      PROVE  /\ ReadStream(stream.lines).ok
             /\ sink.kind = "dir" /\ ReadStream(stream.lines).ended =>
                  /\ ReadStream(stream.lines).missing = account.dropped
                  /\ ReadStream(stream.lines).events = account.emitted + 1
  <2>1. stream.lines \in Seq(Records) /\ stream.dropped \in Nat /\ Len(stream.lines) \in Nat
    BY <1>1 DEF Streams
  <2>2. Clean(stream.lines)
    BY <2>1, <1>4 DEF Spoilt, Clean
  <2>3. CASE ToStream
    <3>1. Balanced(stream.lines, stream.dropped, recorder)
      BY <1>1, <2>3 DEF StreamInv
    <3>2. /\ ReadStream(stream.lines).ok
          /\ ReadStream(stream.lines).ended =>
               /\ stream.lines /= <<>> /\ Last(stream.lines).type = "run-end" /\ recorder.ended
               /\ ReadStream(stream.lines).missing = stream.dropped
               /\ ReadStream(stream.lines).events = Len(stream.lines)
      BY <3>1, <1>1, <2>1, <2>2, ReadBack
    <3>3. ASSUME sink.kind = "dir", ReadStream(stream.lines).ended
          PROVE  account.dropped = stream.dropped /\ account.emitted = Len(stream.lines) - 1
      BY <3>2, <3>3, <1>1 DEF AccountInv
    <3> QED BY <3>2, <3>3, <2>1
  <2>4. CASE ~ToStream
    BY <1>1, <1>3, <2>4 DEF StreamInv
  <2> QED BY <2>3, <2>4
<1>5. /\ ReadStream(ring.events).ok
      /\ sink.kind = "ring" /\ ReadStream(ring.events).ended =>
           /\ ReadStream(ring.events).missing = account.dropped
           /\ ReadStream(ring.events).events = account.emitted + 1
  <2>1. ring.events \in Seq(Records) /\ ring.dropped \in Nat /\ Len(ring.events) \in Nat
    BY <1>1 DEF Rings
  <2>2. CASE ToRing
    <3>1. Balanced(ring.events, ring.dropped, recorder) /\ Clean(ring.events)
      BY <1>1, <2>2 DEF RingInv
    <3>2. /\ ReadStream(ring.events).ok
          /\ ReadStream(ring.events).ended =>
               /\ ring.events /= <<>> /\ Last(ring.events).type = "run-end" /\ recorder.ended
               /\ ReadStream(ring.events).missing = ring.dropped
               /\ ReadStream(ring.events).events = Len(ring.events)
      BY <3>1, <1>1, <2>1, ReadBack
    <3>3. ASSUME sink.kind = "ring", ReadStream(ring.events).ended
          PROVE  account.dropped = ring.dropped /\ account.emitted = Len(ring.events) - 1
      BY <3>2, <3>3, <1>1 DEF AccountInv
    <3> QED BY <3>2, <3>3, <2>1
  <2>3. CASE ~ToRing
    BY <1>1, <1>3, <2>3 DEF RingInv
  <2> QED BY <2>2, <2>3
<1> QED BY <1>1, <1>4, <1>5 DEF RecordingIsHonest, RestIsReadable, LossIsReported, RingInv

\* What a recording lost, it says, and the rest of it is read back: for any sinks,
\* any ring capacities and any number of events, whichever writes fail and
\* whenever the sink is closed (Recorder.emitLocked, MemorySink.Emit, readStream).
THEOREM RecordingHonest == RecorderSpec => []RecordingIsHonest
<1>1. RecorderInv => RecordingIsHonest
  BY HonestFollows
<1> QED BY <1>1, RecorderStarts, RecorderStep, PTL DEF RecorderSpec
==============================================================================
