----------------------------- MODULE TempOwner -----------------------------
(***************************************************************************)
(* Temporary directories with an owner and a collector                     *)
(* (internal/tempowner, internal/snapshot/stable.go and cleanup.go).       *)
(*                                                                         *)
(* Runs are processes of one source root that share a temporary parent.    *)
(* Each sweeps the parent, makes itself a directory (the root's stable     *)
(* name, or a random one where the stable name is taken), claims it with   *)
(* an advisory lock and a marker, works in the tree below it, and keeps or *)
(* removes it.  A run may die at any step; the kernel then drops its       *)
(* locks.                                                                  *)
(*                                                                         *)
(* A lock belongs to the file that is there now: whoever still holds the   *)
(* lock of a file that was unlinked holds nothing anybody else can see.    *)
(***************************************************************************)
EXTENDS Naturals

CONSTANTS
  Runs,             \* the processes, each of which runs once
  Stable,           \* the name StableName gives the source root
  Old,              \* a random name an earlier run left in the parent
  Ghost,            \* that earlier run
  CleanupAttempts   \* cleanupAttempts

ASSUME NamesAssumption ==
  /\ Stable \notin Runs /\ Old \notin Runs /\ Stable # Old /\ Ghost \notin Runs
  /\ {"absent", "free", "none"} \cap (Runs \cup {Stable, Old, Ghost}) = {}
ASSUME AttemptsAssumption == CleanupAttempts \in Nat \ {0}

\* os.MkdirTemp never gives a name twice: a run's random name is its own.
Names == Runs \cup {Stable, Old}

\* What a name of the parent can hold when the runs begin: nothing, an unmarked
\* directory nobody touched for LegacyMaxAge or a younger one, an orphan, or a
\* directory that was kept.
Leftovers == {"nothing", "young", "aged", "orphan", "kept"}

VARIABLES
  there,    \* the directories of the parent
  lock,     \* owner.lock of each: not there, free, or the run that holds it
  marker,   \* owner.json of each
  tree,     \* the runs that wrote into the tree below each
  aged,     \* the directories nothing has touched for LegacyMaxAge
  pc,       \* where each run is
  name,     \* the directory a run made, once it has made one
  todo,     \* the entries a sweep has yet to judge
  cur,      \* the entry a sweep is judging or removing
  again,    \* the sweep is the one destination makes of the stable name
  failed,   \* the entries a sweep reported an error about
  tries,    \* removals Cleanup has attempted
  seen      \* history: what a sweep's listing found live, kept and abandoned

disk == <<there, lock, marker, tree, aged>>
sweep == <<todo, cur, again, failed, seen>>
vars == <<disk, pc, name, sweep, tries>>

Unseen == [living |-> {}, kept |-> {}, orphans |-> {}]

Init ==
  /\ \E left \in [Names -> Leftovers] :
       /\ \A p \in Runs : left[p] = "nothing"
       /\ there = {n \in Names : left[n] # "nothing"}
       /\ lock = [n \in Names |-> IF left[n] \in {"orphan", "kept"} THEN "free" ELSE "absent"]
       /\ marker = [n \in Names |-> CASE left[n] = "orphan" -> "plain"
                                      [] left[n] = "kept"   -> "kept"
                                      [] OTHER              -> "none"]
       /\ tree = [n \in Names |-> IF left[n] \in {"orphan", "kept"} THEN {Ghost} ELSE {}]
       /\ aged = {n \in Names : left[n] = "aged"}
  /\ pc = [p \in Runs |-> "start"]
  /\ name = [p \in Runs |-> "none"]
  /\ todo = [p \in Runs |-> {}]
  /\ cur = [p \in Runs |-> "none"]
  /\ again = [p \in Runs |-> FALSE]
  /\ failed = [p \in Runs |-> {}]
  /\ tries = [p \in Runs |-> 0]
  /\ seen = [p \in Runs |-> Unseen]

-----------------------------------------------------------------------------
SweepPCs == {"sweep", "sweep_lock", "sweep_unlock", "sweep_rm", "sweep_rmdir"}
MakingPCs == {"claim", "mark", "tree"}
OwnedPCs == {"mark", "tree", "work", "keep_unlock"}
EndPCs == {"done", "crashed"}
PCs == SweepPCs \cup MakingPCs \cup OwnedPCs \cup EndPCs \cup
  {"start", "cleanup", "mkdir", "resweep", "mkdir_again", "claim_rm", "claim_rmdir",
   "clean_rm", "clean_rmdir"}

Goto(p, from, to) == pc[p] = from /\ pc' = [pc EXCEPT ![p] = to]

\* Acquire opens or creates owner.lock and tries it without waiting.
Held(n) == lock[n] \in Runs
Acquire(n, p) == lock' = [lock EXCEPT ![n] = p]
Release(n, p) == lock' = [lock EXCEPT ![n] = IF @ = p THEN "free" ELSE @]

Owns(p) == name[p] # "none" /\ lock[name[p]] = p

\* os.RemoveAll empties a directory and then unlinks it, which fails if
\* something is in it again.
Purge(n) ==
  /\ lock' = [lock EXCEPT ![n] = "absent"]
  /\ marker' = [marker EXCEPT ![n] = "none"]
  /\ tree' = [tree EXCEPT ![n] = {}]
  /\ aged' = aged \ {n}
Empty(n) == lock[n] = "absent" /\ marker[n] = "none" /\ tree[n] = {}
Unlink(n) == there' = there \ {n} /\ aged' = aged \ {n} /\ UNCHANGED <<lock, marker, tree>>

-----------------------------------------------------------------------------
(* Sweep *)

\* ReadDir, over every prefix at the start of a run and over the stable name
\* in destination.
SweepList(p) ==
  LET listed == {n \in there : pc[p] = "resweep" => n = Stable}
  IN /\ \/ Goto(p, "start", "sweep")
        \/ Goto(p, "resweep", "sweep")
     /\ again' = [again EXCEPT ![p] = (pc[p] = "resweep")]
     /\ todo' = [todo EXCEPT ![p] = listed]
     /\ failed' = [failed EXCEPT ![p] = {}]
     /\ seen' = [seen EXCEPT ![p] =
          [living  |-> {q \in Runs : Owns(q) /\ name[q] \in listed},
           kept    |-> {n \in listed : marker[n] = "kept"},
           orphans |-> {n \in listed :
                          /\ IF marker[n] = "none" THEN n \in aged
                             ELSE marker[n] = "plain" /\ ~Held(n)
                          /\ \A q \in Runs : name[q] = n => pc[q] \in EndPCs}]]
     /\ UNCHANGED <<disk, name, cur, tries>>

\* The marker is read before the lock is tried.  A kept directory is left; one
\* with no marker goes only if nothing has touched it for a day.
Judge(p, n) ==
  \/ marker[n] = "plain" /\ Goto(p, "sweep", "sweep_lock")
  \/ marker[n] = "none" /\ n \in aged /\ Goto(p, "sweep", "sweep_rm")
  \/ marker[n] = "none" /\ n \notin aged /\ Goto(p, "sweep", "sweep")
  \/ marker[n] = "kept" /\ Goto(p, "sweep", "sweep")

SweepJudge(p) ==
  /\ \E n \in todo[p] :
       /\ Judge(p, n)
       /\ todo' = [todo EXCEPT ![p] = @ \ {n}]
       /\ cur' = [cur EXCEPT ![p] = n]
  /\ UNCHANGED <<disk, name, again, failed, tries, seen>>

\* A directory that went away meanwhile cannot be locked.
SweepMiss(p) ==
  /\ Goto(p, "sweep_lock", "sweep")
  /\ cur[p] \notin there
  /\ failed' = [failed EXCEPT ![p] = @ \cup {cur[p]}]
  /\ UNCHANGED <<disk, name, todo, cur, again, tries, seen>>

SweepSpare(p) ==
  /\ Goto(p, "sweep_lock", "sweep")
  /\ cur[p] \in there /\ Held(cur[p])
  /\ UNCHANGED <<disk, name, sweep, tries>>

\* MUTANT: a lock somebody holds is taken for one nobody does.
SweepLockBlind(p) ==
  /\ Goto(p, "sweep_lock", "sweep_unlock")
  /\ cur[p] \in there
  /\ UNCHANGED <<disk, name, sweep, tries>>

SweepLock(p) ==
  /\ Goto(p, "sweep_lock", "sweep_unlock")
  /\ cur[p] \in there /\ ~Held(cur[p])
  /\ Acquire(cur[p], p)
  /\ UNCHANGED <<there, marker, tree, aged, name, sweep, tries>>

\* The lock that proved the directory abandoned is given back before removal.
SweepUnlock(p) ==
  /\ Goto(p, "sweep_unlock", "sweep_rm")
  /\ Release(cur[p], p)
  /\ UNCHANGED <<there, marker, tree, aged, name, sweep, tries>>

SweepPurge(p) ==
  /\ Goto(p, "sweep_rm", "sweep_rmdir")
  /\ Purge(cur[p])
  /\ UNCHANGED <<there, name, sweep, tries>>

SweepUnlink(p) ==
  /\ Goto(p, "sweep_rmdir", "sweep")
  /\ \/ Empty(cur[p]) /\ Unlink(cur[p]) /\ UNCHANGED failed
     \/ ~Empty(cur[p]) /\ failed' = [failed EXCEPT ![p] = @ \cup {cur[p]}] /\ UNCHANGED disk
  /\ UNCHANGED <<name, todo, cur, again, tries, seen>>

SweepEnd(p) ==
  /\ todo[p] = {}
  /\ \/ ~again[p] /\ Goto(p, "sweep", "mkdir")
     \/ again[p] /\ Goto(p, "sweep", "mkdir_again")
  /\ UNCHANGED <<disk, name, sweep, tries>>

-----------------------------------------------------------------------------
(* destination and claimDestination *)

Make(p, n) ==
  /\ n \notin there
  /\ there' = there \cup {n}
  /\ name' = [name EXCEPT ![p] = n]
  /\ UNCHANGED <<lock, marker, tree, aged>>

Mkdir(p) ==
  /\ \/ Goto(p, "mkdir", "claim") /\ Make(p, Stable)
     \/ Goto(p, "mkdir", "resweep") /\ Stable \in there /\ UNCHANGED <<disk, name>>
  /\ UNCHANGED <<sweep, tries>>

MkdirAgain(p) ==
  /\ Goto(p, "mkdir_again", "claim")
  /\ \/ Make(p, Stable)
     \/ Stable \in there /\ Make(p, p)          \* os.MkdirTemp
  /\ UNCHANGED <<sweep, tries>>

Claim(p) ==
  /\ Goto(p, "claim", "mark")
  /\ name[p] \in there /\ ~Held(name[p])
  /\ Acquire(name[p], p)
  /\ UNCHANGED <<there, marker, tree, aged, name, sweep, tries>>

\* A directory somebody else owns is left alone; any other failure to claim
\* removes it.
ClaimFail(p) ==
  /\ \/ Goto(p, "claim", "done") /\ name[p] \in there /\ Held(name[p])
     \/ Goto(p, "claim", "claim_rm") /\ name[p] \notin there
  /\ UNCHANGED <<disk, name, sweep, tries>>

Mark(p, m) ==
  /\ name[p] \in there
  /\ marker' = [marker EXCEPT ![name[p]] = m]
  /\ aged' = aged \ {name[p]}
  /\ UNCHANGED <<there, lock, tree>>

WriteMarker(p) ==
  /\ Goto(p, "mark", "tree")
  /\ Mark(p, "plain")
  /\ UNCHANGED <<name, sweep, tries>>

WriteMarkerFail(p) ==
  /\ Goto(p, "mark", "claim_rm")
  /\ Release(name[p], p)
  /\ UNCHANGED <<there, marker, tree, aged, name, sweep, tries>>

\* makeTreeDir refuses a tree that is already there.
MakeTree(p) ==
  /\ Goto(p, "tree", "work")
  /\ name[p] \in there /\ tree[name[p]] = {}
  /\ tree' = [tree EXCEPT ![name[p]] = {p}]
  /\ UNCHANGED <<there, lock, marker, aged, name, sweep, tries>>

\* A failure while the snapshot is made, or the end of the run.
Finish(p) ==
  /\ \/ Goto(p, "tree", "cleanup")
     \/ Goto(p, "work", "cleanup")
  /\ UNCHANGED <<disk, name, sweep, tries>>

\* The copy, the commands and the mutants write below the tree's path.
Work(p) ==
  /\ Goto(p, "work", "work")
  /\ tree[name[p]] # {}
  /\ tree' = [tree EXCEPT ![name[p]] = @ \cup {p}]
  /\ UNCHANGED <<there, lock, marker, aged, name, sweep, tries>>

-----------------------------------------------------------------------------
(* Keep and Cleanup *)

KeepMark(p) ==
  /\ Goto(p, "work", "keep_unlock")
  /\ Mark(p, "kept")
  /\ UNCHANGED <<name, sweep, tries>>

\* A directory that cannot be marked kept is removed.
KeepFail(p) ==
  /\ Goto(p, "work", "clean_rm")
  /\ Release(name[p], p)
  /\ UNCHANGED <<there, marker, tree, aged, name, sweep, tries>>

\* The lock goes first, the directory after it.
Unlock(p) ==
  /\ \/ Goto(p, "keep_unlock", "done")
     \/ Goto(p, "cleanup", "clean_rm")
  /\ Release(name[p], p)
  /\ UNCHANGED <<there, marker, tree, aged, name, sweep, tries>>

CleanupPurge(p) ==
  /\ \/ Goto(p, "clean_rm", "clean_rmdir")
     \/ Goto(p, "claim_rm", "claim_rmdir")
  /\ Purge(name[p])
  /\ UNCHANGED <<there, name, sweep, tries>>

CleanupUnlink(p) ==
  /\ \/ Goto(p, "clean_rmdir", "done")
     \/ Goto(p, "claim_rmdir", "done")
  /\ Empty(name[p]) /\ Unlink(name[p])
  /\ UNCHANGED <<name, sweep, tries>>

\* Cleanup tries again; claimDestination looks at no error.
CleanupRetry(p) ==
  /\ pc[p] \in {"clean_rmdir", "claim_rmdir"} /\ ~Empty(name[p])
  /\ \/ /\ Goto(p, "clean_rmdir", "clean_rm") /\ tries[p] + 1 < CleanupAttempts
        /\ tries' = [tries EXCEPT ![p] = @ + 1]
     \/ Goto(p, "clean_rmdir", "done") /\ tries[p] + 1 = CleanupAttempts /\ UNCHANGED tries
     \/ Goto(p, "claim_rmdir", "done") /\ UNCHANGED tries
  /\ UNCHANGED <<disk, name, sweep>>

-----------------------------------------------------------------------------
(* The machine *)

\* A run dies, and the kernel drops every lock it holds.
Crash(p) ==
  /\ pc[p] \notin EndPCs \cup {"start"}
  /\ pc' = [pc EXCEPT ![p] = "crashed"]
  /\ lock' = [n \in Names |-> IF lock[n] = p THEN "free" ELSE lock[n]]
  /\ UNCHANGED <<there, marker, tree, aged, name, sweep, tries>>

\* A day passes over a directory without a marker.  No run takes a day from
\* making its directory to marking it.
Age(n) ==
  /\ n \in there \ aged
  /\ marker[n] = "none"
  /\ \A p \in Runs : name[p] = n => pc[p] \notin {"claim", "mark"}
  /\ aged' = aged \cup {n}
  /\ UNCHANGED <<there, lock, marker, tree, pc, name, sweep, tries>>

Sweep(p) ==
  \/ SweepList(p) \/ SweepJudge(p) \/ SweepMiss(p) \/ SweepSpare(p) \/ SweepLock(p)
  \/ SweepUnlock(p) \/ SweepPurge(p) \/ SweepUnlink(p) \/ SweepEnd(p)

Create(p) ==
  \/ Mkdir(p) \/ MkdirAgain(p) \/ Claim(p) \/ ClaimFail(p) \/ WriteMarker(p)
  \/ WriteMarkerFail(p) \/ MakeTree(p) \/ Finish(p)

Closing(p) ==
  \/ KeepMark(p) \/ KeepFail(p) \/ Unlock(p)
  \/ CleanupPurge(p) \/ CleanupUnlink(p) \/ CleanupRetry(p)

Next ==
  \/ \E p \in Runs : Sweep(p) \/ Create(p) \/ Work(p) \/ Closing(p) \/ Crash(p)
  \/ \E n \in Names : Age(n)

Spec == Init /\ [][Next]_vars

\* The parent holds the directory of one run that died, under the stable name,
\* and no day passes.
OrphanedStable ==
  /\ there = {Stable} /\ marker[Stable] = "plain" /\ aged = {}

OrphanSpec == Init /\ OrphanedStable /\ [][\E p \in Runs : Sweep(p) \/ Create(p) \/ Work(p) \/ Closing(p) \/ Crash(p)]_vars

-----------------------------------------------------------------------------
(* Properties *)

\* The state is of the declared shape.
TypeOK ==
  /\ there \in SUBSET Names /\ aged \in SUBSET Names
  /\ lock \in [Names -> {"absent", "free"} \cup Runs]
  /\ marker \in [Names -> {"none", "plain", "kept"}]
  /\ tree \in [Names -> SUBSET (Runs \cup {Ghost})]
  /\ pc \in [Runs -> PCs]
  /\ name \in [Runs -> Names \cup {"none"}]
  /\ todo \in [Runs -> SUBSET Names]
  /\ cur \in [Runs -> Names \cup {"none"}]
  /\ again \in [Runs -> BOOLEAN]
  /\ failed \in [Runs -> SUBSET Names]
  /\ tries \in [Runs -> 0 .. CleanupAttempts]
  /\ seen \in [Runs -> [living : SUBSET Runs, kept : SUBSET Names, orphans : SUBSET Names]]

\* A live run in a directory of its own random name is never disturbed: from
\* the claim to the release the directory is there, locked by the run, and only
\* the run wrote into its tree, however many sweeps go over the parent and
\* whoever dies on the way (Claim locks before it marks, Sweep spares what is
\* young and unmarked, Cleanup is the only one to take it away).
RandomNameIsPrivate ==
  \A p \in Runs : name[p] = p =>
    /\ pc[p] \in MakingPCs \cup OwnedPCs => p \in there /\ tree[p] \subseteq {p}
    /\ pc[p] \in OwnedPCs => lock[p] = p

\* A sweep never moves against a directory whose run owned it when the sweep
\* listed the parent and owns it still.
LivingAreSpared ==
  \A p \in Runs : pc[p] \in {"sweep_unlock", "sweep_rm", "sweep_rmdir"} =>
    \A q \in seen[p].living \ {p} : Owns(q) => name[q] # cur[p]

\* A directory under a random name that was kept when a sweep listed the parent
\* is not collected by that sweep: what it may take under the name is what
\* another sweep, which had judged before the directory was kept, has emptied
\* meanwhile.  (Behind the stable name there may be another directory by then.)
KeptIsObeyed ==
  \A p \in Runs : pc[p] \in {"sweep_lock", "sweep_unlock", "sweep_rm", "sweep_rmdir"}
                  /\ cur[p] \in seen[p].kept \ {Stable} => marker[cur[p]] # "kept"

\* A directory under a random name that was abandoned when a sweep listed the
\* parent with no live run behind it is gone when the sweep ends, unless the sweep
\* reported an error about it or another run is removing it, or died doing so: one
\* entry that cannot be judged or removed does not stop the collection of the
\* others.
OrphansAreCollected ==
  \A p \in Runs : pc[p] = "mkdir" =>
    \A n \in (seen[p].orphans \ {Stable}) \ failed[p] :
      \/ n \notin there
      \/ \E q \in Runs \ {p} :
           cur[q] = n /\ pc[q] \in {"sweep_unlock", "sweep_rm", "sweep_rmdir", "crashed"}

\* What a sweep may take: nothing of a living run, nothing that was kept, and
\* all that crashed runs left behind.
SweepIsRight == LivingAreSpared /\ KeptIsObeyed /\ OrphansAreCollected

\* Both: runs, sweeps and deaths in any order leave a living run its directory
\* and take every abandoned one.
DirectoriesAreSafe == RandomNameIsPrivate /\ SweepIsRight

\* Two runs of one root never write into one tree.
OneRunPerTree ==
  \A n \in Names : \A p, q \in Runs : {p, q} \subseteq tree[n] => p = q

=============================================================================
