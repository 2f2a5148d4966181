----------------------------- MODULE BuildCache ------------------------------
(***************************************************************************)
(* goatest's build cache (goatest/internal/buildcache).  A layer is a      *)
(* directory of actions, each naming an output, and of objects, the        *)
(* outputs.  Every go command of a run is served by a process of its own   *)
(* that reads the run's scratch layer, then the base layer that all        *)
(* repositories of the machine share, then the host's own cache, and       *)
(* writes to one of the two layers.  A collection removes what was not     *)
(* read for two touch intervals, from a listing it made before.            *)
(*                                                                         *)
(* A file is published by a rename, so it is whole or absent, and every    *)
(* output has one unit of size.  Times are those of the files.             *)
(***************************************************************************)
EXTENDS Integers, Sequences, FiniteSets, SequencesExt

CONSTANTS
  Actions,      \* action identifiers
  OutputOf,     \* the output that building an action gives
  Servers,      \* go commands served at one time
  HostActions,  \* actions that the host's cache holds
  Touch,        \* the touch interval of each layer
  BaseTTL,      \* the age at which the base layer drops an action
  MaxBytes,     \* the bound of a layer
  MaxTime, MaxRequests, MaxCollections  \* bounds on the clock and on what happens

Layers == {"scratch", "base"}
Outputs == {OutputOf[a] : a \in Actions}

VARIABLES
  clock,
  acts,         \* [layer -> [action -> file time, or 0 for none]]
  objs,         \* [layer -> [output -> file time, or 0 for none]]
  sound,        \* the host actions whose object is still what its name says
  req,          \* [server -> the request it is serving]
  col,          \* [layer -> the collection under way]
  persist,      \* the persistence of a run's native cache under way
  collected,    \* [layer -> the file time of its collection record]
  left,         \* requests and collections still to come
  answered      \* [layer -> [output -> when an answer last named it]], by kind

buildCacheVars == <<clock, acts, objs, sound, req, col, persist, collected, left, answered>>

Quiet == [pc |-> "idle"]
Asked(a, t) == [pc |-> "read", target |-> t, act |-> a, src |-> "scratch", now |-> clock, mtime |-> 0, holder |-> "none",
                calm |-> {l \in Layers : col[l].pc = "idle"}]

BuildCacheInit ==
  /\ clock = 1
  /\ acts = [l \in Layers |-> [a \in Actions |-> 0]]
  /\ objs = [l \in Layers |-> [o \in Outputs |-> 0]]
  /\ sound \in SUBSET HostActions
  /\ req = [s \in Servers |-> Quiet]
  /\ col = [l \in Layers |-> Quiet] /\ persist = Quiet
  /\ collected = [l \in Layers |-> 0]
  /\ left = [requests |-> MaxRequests, collections |-> MaxCollections]
  /\ answered = [k \in {"direct", "across"} |-> [l \in Layers |-> [o \in Outputs |-> 0]]]

Tick == clock < MaxTime /\ clock' = clock + 1 /\ UNCHANGED <<acts, objs, sound, req, col, collected, left, answered, persist>>

-----------------------------------------------------------------------------
(* One request *)

MinIdle(l) == 2 * Touch[l]

\* The layer that the server of a go command writes to, and those it looks in.
Target(s) == req[s].target
Holders(s) == IF Target(s) = "base" THEN <<"base">> ELSE <<"scratch", "base">>

\* The first of some layers that holds an output.
Holder(ls, o) ==
  LET held == SelectSeq(ls, LAMBDA l : objs[l][o] > 0) IN IF held = <<>> THEN "none" ELSE held[1]

\* The answer names a file: was it found through an action of its own layer, and
\* did no collection of that layer run meanwhile?
Answer(s, action, holder) ==
  LET r == req[s]
      kind == IF action = holder THEN "direct" ELSE "across"
  IN /\ req' = [req EXCEPT ![s] = Quiet]
     /\ answered' = IF holder \in r.calm
                    THEN [answered EXCEPT ![kind][holder][OutputOf[r.act]] = r.now] ELSE answered

\* serveGet
Get(s, a, t) ==
  /\ req[s].pc = "idle" /\ req' = [req EXCEPT ![s] = Asked(a, t)]
  /\ left.requests > 0 /\ left' = [left EXCEPT !.requests = @ - 1]
  /\ UNCHANGED <<clock, acts, objs, sound, col, collected, answered, persist>>

Onward(r) == IF r.src = "scratch" THEN [r EXCEPT !.pc = "read", !.src = "base"] ELSE [r EXCEPT !.pc = "host"]

\* readAction: an absent record is a miss of this layer.
ReadAction(s) ==
  /\ req[s].pc = "read"
  /\ LET r == req[s]
         m == acts[r.src][r.act]
     IN req' = [req EXCEPT ![s] = IF m = 0 THEN Onward(r) ELSE [r EXCEPT !.pc = "object", !.mtime = m]]
  /\ UNCHANGED <<clock, acts, objs, sound, col, collected, left, answered, persist>>

\* object: in either layer, wherever the action was.
FindObject(s) ==
  /\ req[s].pc = "object"
  /\ LET r == req[s]
         h == Holder(<<"scratch", "base">>, OutputOf[r.act])
     IN req' = [req EXCEPT ![s] = IF h = "none" THEN Onward(r) ELSE [r EXCEPT !.pc = "touch", !.holder = h]]
  /\ UNCHANGED <<clock, acts, objs, sound, col, collected, left, answered, persist>>

\* touch: the action's file time, once an interval; a file that has gone is not
\* made again.
TouchAndAnswer(s) ==
  /\ req[s].pc = "touch"
  /\ LET r == req[s]
     IN /\ acts' = IF r.now - r.mtime >= Touch[r.src] /\ acts[r.src][r.act] > 0
                   THEN [acts EXCEPT ![r.src][r.act] = r.now] ELSE acts
        /\ Answer(s, r.src, r.holder)
  /\ UNCHANGED <<clock, objs, sound, col, collected, left, persist>>

\* importNative: an action of the host's cache whose output is held already is
\* recorded; else its object is copied, and refused when its digest is another.
ImportNative(s) ==
  /\ req[s].pc = "host" /\ req[s].act \in HostActions
  /\ Holder(Holders(s), OutputOf[req[s].act]) /= "none" \/ req[s].act \in sound
  /\ req' = [req EXCEPT ![s].pc = "put"]
  /\ UNCHANGED <<clock, acts, objs, sound, col, collected, left, answered, persist>>

\* A miss: the go command builds the package and may put it.
Miss(s) ==
  /\ req[s].pc = "host"
  /\ ~(req[s].act \in HostActions
       /\ (Holder(Holders(s), OutputOf[req[s].act]) /= "none" \/ req[s].act \in sound))
  /\ req' = [req EXCEPT ![s] = Quiet]
  /\ UNCHANGED <<clock, acts, objs, sound, col, collected, left, answered, persist>>

\* servePut
Put(s, a, t) ==
  /\ req[s].pc = "idle" /\ req' = [req EXCEPT ![s] = [Asked(a, t) EXCEPT !.pc = "put"]]
  /\ left.requests > 0 /\ left' = [left EXCEPT !.requests = @ - 1]
  /\ UNCHANGED <<clock, acts, objs, sound, col, collected, answered, persist>>

\* putWithHooks: the object that a holder has is used; else it is written.
PutObject(s) ==
  /\ req[s].pc = "put"
  /\ LET r == req[s]
         o == OutputOf[r.act]
         h == Holder(Holders(s), o)
     IN /\ objs' = IF h = "none" THEN [objs EXCEPT ![Target(s)][o] = clock] ELSE objs
        /\ req' = [req EXCEPT ![s].pc = "action", ![s].holder = IF h = "none" THEN Target(s) ELSE h]
  /\ UNCHANGED <<clock, acts, sound, col, collected, left, answered, persist>>

\* putAction
PutAction(s) ==
  /\ req[s].pc = "action"
  /\ acts' = [acts EXCEPT ![Target(s)][req[s].act] = clock]
  /\ Answer(s, Target(s), req[s].holder)
  /\ UNCHANGED <<clock, objs, sound, col, collected, left, persist>>

\* A request that fails answers with an error and changes nothing more.
Fail(s) ==
  /\ req[s].pc \in {"read", "object", "put", "action"} /\ req' = [req EXCEPT ![s] = Quiet]
  /\ UNCHANGED <<clock, acts, objs, sound, col, collected, left, answered, persist>>

-----------------------------------------------------------------------------
(* A collection *)

\* CollectLocked: the scratch layer when a server closes and it was not done
\* within a minute, the base layer at the end of a run and on demand.
HoldCollection(l) ==
  /\ left.collections > 0 /\ left' = [left EXCEPT !.collections = @ - 1]
  /\ col[l].pc = "idle" /\ (l = "base" => persist.pc = "idle")
  /\ l = "scratch" => collected[l] = 0 \/ clock - collected[l] >= Touch[l]
  /\ col' = [col EXCEPT ![l] = [pc |-> "actions", now |-> clock]]
  /\ req' = [s \in Servers |-> IF req[s].pc = "idle" THEN req[s] ELSE [req[s] EXCEPT !.calm = @ \ {l}]]
  /\ UNCHANGED <<clock, acts, objs, sound, collected, answered, persist>>

\* list: the actions, then the objects, then what each action records; an action
\* that has gone since names no output.
ListActions(l) ==
  /\ col[l].pc = "actions"
  /\ col' = [col EXCEPT ![l] = [pc |-> "objects", now |-> @.now, acts |-> acts[l]]]
  /\ UNCHANGED <<clock, acts, objs, sound, req, collected, left, answered, persist>>

\* protected
Spared(l, c, mtime) == c.now - mtime < MinIdle(l)

\* What dropping one action does to the plan.
Dropped(l, c, plan, a) ==
  LET o == OutputOf[a]
      refs == [plan.refs EXCEPT ![o] = @ - 1]
      free == refs[o] <= 0 /\ c.objs[o] > 0 /\ o \notin plan.gone /\ ~Spared(l, c, c.objs[o])
  IN [dropped |-> plan.dropped \cup {a}, refs |-> refs,
      gone |-> IF free THEN plan.gone \cup {o} ELSE plan.gone,
      left |-> IF free THEN plan.left - 1 ELSE plan.left]

\* collectWithHooks: unreferenced objects; then what is too old; then, oldest
\* first, until the layer fits.
Plan(l, c) ==
  LET listed == {a \in Actions : c.acts[a] > 0}
      order == SetToSortSeq(listed, LAMBDA a, b : c.acts[a] < c.acts[b])
      refs == [o \in Outputs |-> Cardinality({a \in listed : OutputOf[a] = o})]
      loose == {o \in Outputs : c.objs[o] > 0 /\ refs[o] = 0 /\ ~Spared(l, c, c.objs[o])}
      start == [dropped |-> {}, refs |-> refs, gone |-> loose,
                left |-> Cardinality({o \in Outputs : c.objs[o] > 0}) - Cardinality(loose)]
      expire(plan, a) == IF l = "base" /\ BaseTTL > 0 /\ c.now - c.acts[a] >= BaseTTL /\ ~Spared(l, c, c.acts[a])
                         THEN Dropped(l, c, plan, a) ELSE plan
      shrink(plan, a) == IF plan.left > MaxBytes /\ a \notin plan.dropped /\ ~Spared(l, c, c.acts[a])
                         THEN Dropped(l, c, plan, a) ELSE plan
  IN FoldLeft(shrink, FoldLeft(expire, start, order), order)

ListObjects(l) ==
  /\ col[l].pc = "objects"
  /\ LET c == [now |-> col[l].now, acts |-> col[l].acts, objs |-> objs[l]]
     IN col' = [col EXCEPT ![l] = [pc |-> "remove", now |-> c.now, plan |-> Plan(l, c)]]
  /\ UNCHANGED <<clock, acts, objs, sound, req, collected, left, answered, persist>>

\* The actions go, whatever they have become since the listing, then the objects.
RemoveActions(l) ==
  /\ col[l].pc = "remove"
  /\ acts' = [acts EXCEPT ![l] = [a \in Actions |-> IF a \in col[l].plan.dropped THEN 0 ELSE @[a]]]
  /\ col' = [col EXCEPT ![l].pc = "sweep"]
  /\ UNCHANGED <<clock, objs, sound, req, collected, left, answered, persist>>

RemoveObjects(l) ==
  /\ col[l].pc = "sweep"
  /\ objs' = [objs EXCEPT ![l] = [o \in Outputs |-> IF o \in col[l].plan.gone THEN 0 ELSE @[o]]]
  /\ collected' = [collected EXCEPT ![l] = col[l].now]
  /\ col' = [col EXCEPT ![l] = Quiet]
  /\ UNCHANGED <<clock, acts, sound, req, left, answered, persist>>

\* A removal that fails ends the collection where it is.
CollectFails(l) ==
  /\ col[l].pc \in {"actions", "objects", "remove", "sweep"} /\ col' = [col EXCEPT ![l] = Quiet]
  /\ UNCHANGED <<clock, acts, objs, sound, req, collected, left, answered, persist>>

-----------------------------------------------------------------------------
(* PersistNative: what the preparation built in the run's native cache is linked *)
(* into the base layer, under the lock of its collections.                       *)

Persisting(a) == [pc |-> "object", act |-> a, now |-> clock]

\* While a collection holds the lock the persistence is deferred, to no later time.
HoldPersist(a) ==
  /\ persist.pc = "idle" /\ left.requests > 0 /\ left' = [left EXCEPT !.requests = @ - 1]
  /\ persist' = IF col["base"].pc = "idle" THEN Persisting(a) ELSE Quiet
  /\ UNCHANGED <<clock, acts, objs, sound, req, col, collected, answered>>

\* An action the base has, with its object, is left; else the object is linked
\* unless it is there.
PersistObject ==
  /\ persist.pc = "object"
  /\ LET o == OutputOf[persist.act]
         has == objs["base"][o] > 0
     IN  /\ objs' = IF has THEN objs ELSE [objs EXCEPT !["base"][o] = persist.now]
         /\ persist' = IF has /\ acts["base"][persist.act] > 0 THEN Quiet ELSE [persist EXCEPT !.pc = "action"]
  /\ UNCHANGED <<clock, acts, sound, req, col, collected, left, answered>>

PersistAction ==
  /\ persist.pc = "action" /\ persist' = Quiet
  /\ acts' = [acts EXCEPT !["base"][persist.act] = persist.now]
  /\ answered' = [answered EXCEPT !["direct"]["base"][OutputOf[persist.act]] = persist.now]
  /\ UNCHANGED <<clock, objs, sound, req, col, collected, left>>

BuildCacheNext ==
  \/ Tick
  \/ \E s \in Servers : \/ \E a \in Actions, t \in Layers : Get(s, a, t) \/ Put(s, a, t)
                        \/ ReadAction(s) \/ FindObject(s) \/ TouchAndAnswer(s) \/ ImportNative(s) \/ Miss(s)
                        \/ PutObject(s) \/ PutAction(s) \/ Fail(s)
  \/ \E l \in Layers : \/ HoldCollection(l) \/ ListActions(l) \/ ListObjects(l)
                       \/ RemoveActions(l) \/ RemoveObjects(l) \/ CollectFails(l)
  \/ \E a \in Actions : HoldPersist(a)
  \/ PersistObject \/ PersistAction

-----------------------------------------------------------------------------

ThereFor(kind) ==
  \A l \in Layers, o \in Outputs :
    answered[kind][l][o] > 0 /\ clock < answered[kind][l][o] + Touch[l] => objs[l][o] > 0

\* A file that an answer named, through an action of the same layer and while no
\* collection of it ran, is there for a touch interval after the request, however
\* stale its own file time: the go command opens it after the answer.  So is what
\* a run persisted in the base layer.
ReadIsSpared == ThereFor("direct")

=============================================================================
