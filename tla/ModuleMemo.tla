----------------------------- MODULE ModuleMemo -----------------------------
(***************************************************************************)
(* Workspace.Module (module.go): callers that ask the same question share  *)
(* one `go list`, and its answer is reused until a command has run.        *)
(*                                                                         *)
(* An answer is one moduleAnswer object, in the order they were made.  The *)
(* content of the tree is a version that every write of a command raises,  *)
(* so that the age of a listing can be compared.  Holding Workspace.mu and *)
(* the tree for reading excludes only Close and the instrumentation        *)
(* window, which changes nothing; Close is an action of its own, and the   *)
(* locks themselves are the subject of Workspace.                          *)
(***************************************************************************)
EXTENDS Naturals, Sequences, FiniteSets

CONSTANTS
  Askers,       \* goroutines that call Module
  Queries,      \* normalised queries, as moduleQuery.key spells them
  Commands,     \* goroutines that call Exec
  Failed, Canceled, Refused,   \* the errors a listing ends with
  Nothing,      \* no listing yet
  MaxAnswers,   \* bound: listings started
  MaxVersion    \* bound: writes by commands

None == 0
Versions == 0..MaxVersion
Listings == Versions \cup {Failed, Canceled, Refused}

ASSUME MemoAssumption ==
  /\ IsFiniteSet(Askers) /\ MaxAnswers \in Nat /\ MaxVersion \in Nat
  /\ Failed \notin Versions /\ Canceled \notin Versions /\ Refused \notin Versions
  /\ Nothing \notin Listings
  /\ Cardinality({Failed, Canceled, Refused}) = 3

VARIABLES
  memo,      \* Workspace.modules: the answer each query is filed under
  answer,    \* every moduleAnswer made so far
  asker,     \* each caller: where it is and what it holds
  version,   \* what the frozen tree holds
  command,   \* the commands that run
  shut,      \* Workspace.closed
  broken,    \* Workspace.prepareFailed
  floor      \* the version at the last time a command forgot the listings

memoVars == <<memo, answer, asker, version, command, shut, broken, floor>>

\* A caller that is not in a call.
AskerIdle == [at |-> "idle", query |-> Nothing, mine |-> None, left |-> FALSE,
              gone |-> FALSE, saw |-> Nothing, since |-> 0, got |-> Nothing]

MemoInit ==
  /\ memo = [q \in Queries |-> None]
  /\ answer = <<>>
  /\ asker = [c \in Askers |-> AskerIdle]
  /\ version = 0
  /\ command = [x \in Commands |-> "idle"]
  /\ shut = FALSE /\ broken = FALSE
  /\ floor = 0

Asking(c) == asker[c].at /= "idle"

-----------------------------------------------------------------------------
(* The memo's own steps, each under moduleMu *)

\* joinModule: an answer that is filed is shared, settled or not.
JoinModule(c, q) ==
  IF memo[q] /= None
  THEN /\ answer' = [answer EXCEPT ![memo[q]].interested = @ + 1]
       /\ asker' = [asker EXCEPT ![c] =
            [AskerIdle EXCEPT !.at = "following", !.query = q, !.mine = memo[q],
                              !.since = floor]]
       /\ UNCHANGED memo
  ELSE /\ Len(answer) < MaxAnswers
       /\ answer' = Append(answer, [interested |-> 1, settled |-> FALSE,
                                    cancelled |-> FALSE, listed |-> Nothing])
       /\ memo' = [memo EXCEPT ![q] = Len(answer) + 1]
       /\ asker' = [asker EXCEPT ![c] =
            [AskerIdle EXCEPT !.at = "leading", !.query = q,
                              !.mine = Len(answer) + 1, !.since = floor]]

\* leaveModule: the last caller to go tears an unsettled listing down.
LeaveModule(q, a) ==
  LET wanted == answer[a].interested - 1
      over   == wanted = 0 /\ ~answer[a].settled
  IN /\ answer' = [answer EXCEPT ![a].interested = wanted,
                                 ![a].cancelled = @ \/ over]
     /\ memo' = IF over /\ memo[q] = a THEN [memo EXCEPT ![q] = None] ELSE memo

\* MUTANT: a listing that settled well is filed, forgotten or not.
SettleModuleFiled(q, a, listed) ==
  /\ answer' = [answer EXCEPT ![a].listed = listed, ![a].settled = TRUE,
                              ![a].cancelled = TRUE]
  /\ memo' = [memo EXCEPT ![q] = IF listed \in Versions THEN a ELSE None]

\* settleModule: a failure is forgotten, if it is still the one filed.
SettleModule(q, a, listed) ==
  /\ answer' = [answer EXCEPT ![a].listed = listed, ![a].settled = TRUE,
                              ![a].cancelled = TRUE]
  /\ memo' = IF memo[q] = a /\ listed \notin Versions
             THEN [memo EXCEPT ![q] = None] ELSE memo

\* forgetModules
ForgetModules == memo' = [q \in Queries |-> None]

-----------------------------------------------------------------------------
(* Module *)

AskAllowed == ~shut /\ ~broken

Ask(c, q) ==
  /\ ~Asking(c)
  /\ AskAllowed
  /\ JoinModule(c, q)
  /\ UNCHANGED <<version, command, shut, broken, floor>>

\* The context of a call ends; whoever gave it decides when.
AskerGoes(c) ==
  /\ Asking(c) /\ asker[c].at /= "answered" /\ ~asker[c].gone
  /\ asker' = [asker EXCEPT ![c].gone = TRUE]
  /\ UNCHANGED <<memo, answer, version, command, shut, broken, floor>>

AskerReturns(c, got) ==
  asker' = [asker EXCEPT ![c] = [AskerIdle EXCEPT !.at = "answered", !.got = got,
                                   !.gone = asker[c].gone, !.since = asker[c].since]]

\* The caller has its answer; the call is over.
AskerDone(c) ==
  /\ asker[c].at = "answered"
  /\ asker' = [asker EXCEPT ![c] = AskerIdle]
  /\ UNCHANGED <<memo, answer, version, command, shut, broken, floor>>

\* A follower: the select takes either case that is ready.
FollowerAnswered(c) ==
  LET a == asker[c].mine
  IN /\ asker[c].at = "following"
     /\ answer[a].settled
     /\ AskerReturns(c, answer[a].listed)
     /\ LeaveModule(asker[c].query, a)
     /\ UNCHANGED <<version, command, shut, broken, floor>>

FollowerGives(c) ==
  /\ asker[c].at = "following" /\ asker[c].gone
  /\ AskerReturns(c, Canceled)
  /\ LeaveModule(asker[c].query, asker[c].mine)
  /\ UNCHANGED <<version, command, shut, broken, floor>>

\* The goroutine that watches a leader's context releases its interest.
LeaderWatched(c) ==
  /\ asker[c].at \in {"leading", "read", "listed", "settled"}
  /\ asker[c].gone /\ ~asker[c].left
  /\ asker' = [asker EXCEPT ![c].left = TRUE]
  /\ LeaveModule(asker[c].query, asker[c].mine)
  /\ UNCHANGED <<version, command, shut, broken, floor>>

\* listModule: refused, or the go command reads the tree ...
ListingReads(c) ==
  /\ asker[c].at = "leading"
  /\ asker' = [asker EXCEPT ![c].at = "read",
                 ![c].saw = IF AskAllowed THEN version ELSE Refused]
  /\ UNCHANGED <<memo, answer, version, command, shut, broken, floor>>

\* ... and ends; a listing whose own context was cancelled is an error.
ListingEnds(c) ==
  LET was == asker[c].saw
  IN /\ asker[c].at = "read"
     /\ \E saw \in IF was = Refused THEN {Refused}
                   ELSE IF answer[asker[c].mine].cancelled THEN {Canceled}
                   ELSE {was, Failed} :
          asker' = [asker EXCEPT ![c].at = "listed", ![c].saw = saw]
     /\ UNCHANGED <<memo, answer, version, command, shut, broken, floor>>

LeaderSettles(c) ==
  /\ asker[c].at = "listed"
  /\ asker' = [asker EXCEPT ![c].at = "settled"]
  /\ SettleModule(asker[c].query, asker[c].mine, asker[c].saw)
  /\ UNCHANGED <<version, command, shut, broken, floor>>

LeaderReturns(c) ==
  /\ asker[c].at = "settled"
  /\ AskerReturns(c, asker[c].saw)
  /\ IF asker[c].left THEN UNCHANGED <<memo, answer>>
     ELSE LeaveModule(asker[c].query, asker[c].mine)
  /\ UNCHANGED <<version, command, shut, broken, floor>>

-----------------------------------------------------------------------------
(* The calls around it *)

CommandStarts(x) ==
  /\ command[x] = "idle" /\ AskAllowed
  /\ command' = [command EXCEPT ![x] = "running"]
  /\ UNCHANGED <<memo, answer, asker, version, shut, broken, floor>>

CommandWrites(x) ==
  /\ command[x] = "running" /\ version < MaxVersion
  /\ version' = version + 1
  /\ UNCHANGED <<memo, answer, asker, command, shut, broken, floor>>

\* The deferred forgetModules, whatever the command did.
CommandReturns(x) ==
  /\ command[x] = "running"
  /\ command' = [command EXCEPT ![x] = "idle"]
  /\ ForgetModules
  /\ floor' = version
  /\ UNCHANGED <<answer, asker, version, shut, broken>>

\* A preparation fails, which no listing in flight keeps from happening.
PreparationFails ==
  /\ AskAllowed
  /\ broken' = TRUE
  /\ UNCHANGED <<memo, answer, asker, version, command, shut, floor>>

\* Close holds Workspace.mu for writing when it forgets.
CloseForgets ==
  /\ ~shut /\ \A c \in Askers : ~Asking(c)
  /\ \A x \in Commands : command[x] = "idle"
  /\ shut' = TRUE
  /\ ForgetModules
  /\ UNCHANGED <<answer, asker, version, command, broken, floor>>

AskerNext(c) ==
  \/ \E q \in Queries : Ask(c, q)
  \/ AskerGoes(c)
  \/ FollowerAnswered(c) \/ FollowerGives(c)
  \/ LeaderWatched(c) \/ ListingReads(c) \/ ListingEnds(c)
  \/ LeaderSettles(c) \/ LeaderReturns(c) \/ AskerDone(c)

MemoNext ==
  \/ \E c \in Askers : AskerNext(c)
  \/ \E x \in Commands : CommandStarts(x) \/ CommandWrites(x) \/ CommandReturns(x)
  \/ PreparationFails
  \/ CloseForgets

\* Goroutines run and the go command ends; nobody has to ask or to give up.
MemoFairness ==
  \A c \in Askers :
    /\ WF_memoVars(FollowerAnswered(c)) /\ WF_memoVars(FollowerGives(c))
    /\ WF_memoVars(ListingReads(c)) /\ WF_memoVars(ListingEnds(c))
    /\ WF_memoVars(LeaderSettles(c)) /\ WF_memoVars(LeaderReturns(c))
    /\ WF_memoVars(AskerDone(c))

MemoSpec == MemoInit /\ [][MemoNext]_memoVars /\ MemoFairness

-----------------------------------------------------------------------------
(* Properties *)

Answers == 1..Len(answer)

\* A caller hears of a cancellation only when its own context has ended:
\* neither the leader that made the listing nor another follower takes it
\* away from a caller that still waits (leaveModule, Module's select).
OwnCancellationOnly ==
  \A c \in Askers : asker[c].got = Canceled => asker[c].gone

\* A call that began after a command returned is not answered with a listing
\* of the tree as it was before that, however long the listing took: neither
\* from the memo nor by joining a listing in flight (forgetModules,
\* settleModule's check that it is still the one filed).
NothingOlderThanACommand ==
  \A c \in Askers : asker[c].got \in Versions => asker[c].got >= asker[c].since

\* What is filed is worth waiting for: it is running for somebody, or it is a
\* complete listing; a failed or a torn-down one is not handed to the next
\* caller.
FiledIsAlive ==
  \A q \in Queries : memo[q] /= None =>
     \/ answer[memo[q]].settled /\ answer[memo[q]].listed \in Versions
     \/ ~answer[memo[q]].settled /\ ~answer[memo[q]].cancelled

\* Every call of Module comes back, whoever else gave up (Module's deferred
\* settleModule closes done on every path).
AsksReturn == \A c \in Askers : Asking(c) ~> ~Asking(c)

\* A caller of Module gets an answer of its own: of the tree it asked about,
\* and not torn down by anybody else.
AnswersAreRight == OwnCancellationOnly /\ NothingOlderThanACommand /\ FiledIsAlive
==============================================================================
