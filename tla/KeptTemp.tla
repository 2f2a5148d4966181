------------------------------- MODULE KeptTemp -------------------------------
(***************************************************************************)
(* goatest's temporary directories (goatest/internal/tempowner, keptledger, *)
(* assure/run_scratch.go, keep_temp.go, buildcache.go and app/temp.go).     *)
(*                                                                         *)
(* A run sweeps the temporary root, makes and claims its scratch, sweeps   *)
(* beside the build cache, and claims the projection all runs of the cache *)
(* share or, when it is taken, one of its own.  In the end it removes what *)
(* is its own, or marks it kept and writes it into the ledger.  `cache gc` *)
(* sweeps too, and removes what the ledger says was kept long enough.  A   *)
(* process may die at any step; the kernel then drops its locks.           *)
(***************************************************************************)
EXTENDS Naturals

CONSTANTS
  Keepers,      \* runs and plans, each of which makes its directories once
  Collectors,   \* runs of `cache gc`
  Earlier       \* a run that was over before

ASSUME KeptTempAssumption ==
  /\ Keepers \cap Collectors = {} /\ Earlier \notin Keepers \cup Collectors
  /\ {"nobody", "free", "absent"} \cap (Keepers \cup Collectors \cup {Earlier}) = {}

\* A directory: which kind of name it has, and whose.  os.MkdirTemp gives no
\* name twice; the shared name is that of the build cache; and a ledger can name
\* a directory that no run made.
ScratchOf(r) == <<"scratch", r>>
NativeOf(r) == <<"native", r>>
SharedNative == <<"shared", Earlier>>
Foreign == <<"foreign", Earlier>>
TempDirs == ({"scratch", "native"} \X (Keepers \cup {Earlier})) \cup {SharedNative, Foreign}
NoDir == <<"none", Earlier>>

Movers == Keepers \cup Collectors
Unmarked == [run |-> "nobody", kept |-> FALSE]
MarkerOf(r, kept) == [run |-> r, kept |-> kept]

VARIABLES
  present,       \* the directories that are there
  ownerLock,     \* owner.lock of each: not there, free, or who holds it
  ownerMarker,   \* owner.json of each
  filled,        \* the directories that hold more than these two files
  stale,         \* those that were untouched for UnclaimedMaxAge
  ledger,        \* kept-temp-v1.json: the run an entry names for a path
  ledgerLock,    \* who holds its lock
  keeps,         \* the runs with --keep-temp
  place,         \* where each process is
  making,        \* the directory a run is making, claiming or removing
  native,        \* the projection a run has claimed
  scan,          \* of a sweep or a collection: the entries left, the one at hand,
                 \* and, a history, what was kept when they were read
  loaded,        \* the ledger as a process has read it
  recorded       \* history: the entries that were written and not collected

tempDisk == <<present, ownerLock, ownerMarker, filled, stale>>
ledgerVars == <<ledger, ledgerLock, loaded, recorded>>
keptTempVars == <<tempDisk, ledgerVars, keeps, place, making, native, scan>>

\* What can be there of the run that was over before.
Remains(d) == IF d[1] = "foreign" THEN {"nothing", "bare"}
              ELSE IF d[1] = "shared" THEN {"nothing", "orphan", "kept"}
              ELSE {"nothing", "bare", "stale", "orphan", "kept"}
OfEarlier == {d \in TempDirs : d[2] = Earlier}
NoScan == [of |-> "none", left |-> {}, at |-> NoDir, kept |-> {}]
UnreadLedger == [d \in TempDirs |-> "nobody"]

\* The start: what is left of the run before, what the ledger names of it, the
\* runs that keep, and the processes there are.
KeptTempStart(was, lines, keeping, starters) ==
  /\ present = {d \in OfEarlier : was[d] /= "nothing"}
  /\ ownerLock = [d \in TempDirs |->
       IF d \in OfEarlier /\ was[d] \in {"orphan", "kept"} THEN "free" ELSE "absent"]
  /\ ownerMarker = [d \in TempDirs |->
       IF d \in OfEarlier /\ was[d] \in {"orphan", "kept"} THEN MarkerOf(Earlier, was[d] = "kept")
       ELSE Unmarked]
  /\ filled = present /\ stale = {d \in OfEarlier : was[d] = "stale"}
  /\ ledger = [d \in TempDirs |-> IF d \in lines THEN Earlier ELSE "nobody"]
  /\ recorded = ledger
  /\ ledgerLock = "free" /\ loaded = [p \in Movers |-> UnreadLedger]
  /\ keeps = keeping
  /\ place = [p \in Movers |-> IF p \in starters THEN "start" ELSE "done"]
  /\ making = [p \in Movers |-> NoDir] /\ native = [p \in Movers |-> NoDir]
  /\ scan = [p \in Movers |-> NoScan]

KeptTempInit ==
  \E was \in [OfEarlier -> {"nothing", "bare", "stale", "orphan", "kept"}],
     lines \in SUBSET OfEarlier, keeping \in SUBSET Keepers, starters \in SUBSET Movers :
       /\ \A d \in OfEarlier : was[d] \in Remains(d)
       /\ KeptTempStart(was, lines, keeping, starters)

-----------------------------------------------------------------------------
(* The lock, the marker and os.RemoveAll *)

MovesOn(p, from, to) == place[p] = from /\ place' = [place EXCEPT ![p] = to]

IsHeld(d) == ownerLock[d] \in Movers

\* acquire: open or create owner.lock, and try it without waiting.
LockDir(p, d) ==
  /\ d \in present /\ ~IsHeld(d)
  /\ ownerLock' = [ownerLock EXCEPT ![d] = p]
  /\ UNCHANGED <<present, ownerMarker, filled, stale>>

UnlockDir(p, d) ==
  /\ ownerLock' = [ownerLock EXCEPT ![d] = IF @ = p THEN "free" ELSE @]
  /\ UNCHANGED <<present, ownerMarker, filled, stale>>

\* writeMarker: a rename inside the directory, which has to be there.
MarkDir(d, marker) ==
  /\ d \in present
  /\ ownerMarker' = [ownerMarker EXCEPT ![d] = marker]
  /\ stale' = stale \ {d}
  /\ UNCHANGED <<present, ownerLock, filled>>

\* RemoveAll empties the directory, and then unlinks it if it is still empty.
EmptyDir(d) ==
  /\ ownerLock' = [ownerLock EXCEPT ![d] = "absent"]
  /\ ownerMarker' = [ownerMarker EXCEPT ![d] = Unmarked]
  /\ filled' = filled \ {d} /\ stale' = stale \ {d}
  /\ UNCHANGED present

Unlinkable(d) == ownerLock[d] = "absent" /\ ownerMarker[d] = Unmarked /\ d \notin filled

UnlinkDir(d) ==
  /\ present' = present \ {d} /\ stale' = stale \ {d}
  /\ UNCHANGED <<ownerLock, ownerMarker, filled>>

-----------------------------------------------------------------------------
(* Sweep *)

\* ReadDir: the directories of one prefix.  The shared projection has neither.
SweepLists(p, prefix) ==
  /\ scan' = [scan EXCEPT ![p] =
       [of |-> prefix, left |-> {d \in present : d[1] = prefix}, at |-> NoDir,
        kept |-> {d \in present : ownerMarker[d].kept}]]
  /\ UNCHANGED <<tempDisk, ledgerVars, keeps, making, native>>

\* classify: the marker first.  What is kept is left, and what has no marker
\* goes if it was untouched for a day.
Classify(p) ==
  /\ \E d \in scan[p].left :
       /\ scan' = [scan EXCEPT ![p].left = @ \ {d}, ![p].at = d]
       /\ \/ ownerMarker[d].kept /\ MovesOn(p, "sweep", "sweep")
          \/ ownerMarker[d] = Unmarked /\ d \notin stale /\ MovesOn(p, "sweep", "sweep")
          \/ ownerMarker[d] = Unmarked /\ d \in stale /\ MovesOn(p, "sweep", "sweep_empty")
          \/ ownerMarker[d] /= Unmarked /\ ~ownerMarker[d].kept /\ MovesOn(p, "sweep", "sweep_lock")
  /\ UNCHANGED <<tempDisk, ledgerVars, keeps, making, native>>

\* A lock that is held is that of a living run, and a lock that cannot be tried
\* is an error.
SweepSpares(p) ==
  /\ MovesOn(p, "sweep_lock", "sweep")
  /\ UNCHANGED <<tempDisk, ledgerVars, keeps, making, native, scan>>

SweepLocks(p) ==
  /\ MovesOn(p, "sweep_lock", "sweep_unlock") /\ LockDir(p, scan[p].at)
  /\ UNCHANGED <<ledgerVars, keeps, making, native, scan>>

\* The lock is only a question: it is given back before the removal.
SweepUnlocks(p) ==
  /\ MovesOn(p, "sweep_unlock", "sweep_empty") /\ UnlockDir(p, scan[p].at)
  /\ UNCHANGED <<ledgerVars, keeps, making, native, scan>>

SweepEmpties(p) ==
  /\ MovesOn(p, "sweep_empty", "sweep_unlink") /\ EmptyDir(scan[p].at)
  /\ UNCHANGED <<ledgerVars, keeps, making, native, scan>>

SweepUnlinks(p) ==
  /\ MovesOn(p, "sweep_unlink", "sweep")
  /\ IF Unlinkable(scan[p].at) THEN UnlinkDir(scan[p].at) ELSE UNCHANGED tempDisk
  /\ UNCHANGED <<ledgerVars, keeps, making, native, scan>>

SweptAll(p, prefix) == scan[p].of = prefix /\ scan[p].left = {}

SweepNext(p) ==
  \/ Classify(p) \/ SweepSpares(p) \/ SweepLocks(p) \/ SweepUnlocks(p)
  \/ SweepEmpties(p) \/ SweepUnlinks(p)

-----------------------------------------------------------------------------
(* What a run makes *)

\* openRunScratch, after the sweep of a temporary root that somebody named.
RunSweeps(p) ==
  /\ p \in Keepers
  /\ \/ MovesOn(p, "start", "sweep") /\ SweepLists(p, "scratch")
     \/ MovesOn(p, "start", "scratch")
        /\ UNCHANGED <<tempDisk, ledgerVars, keeps, making, native, scan>>

ScratchSwept(p) ==
  /\ p \in Keepers /\ SweptAll(p, "scratch") /\ MovesOn(p, "sweep", "scratch")
  /\ scan' = [scan EXCEPT ![p] = NoScan]
  /\ UNCHANGED <<tempDisk, ledgerVars, keeps, making, native>>

Makes(p, d) ==
  /\ making' = [making EXCEPT ![p] = d]
  /\ present' = present \cup {d}
  /\ scan' = [scan EXCEPT ![p] = NoScan]
  /\ UNCHANGED <<ownerLock, ownerMarker, filled, stale, ledgerVars, keeps, native>>

MakesScratch(p) == MovesOn(p, "scratch", "claim") /\ Makes(p, ScratchOf(p))

\* openNativeBuildCache: the sweep, and then the shared name, which may be there.
NativeSweeps(p) == MovesOn(p, "native", "sweep") /\ SweepLists(p, "native")

\* A run without the build cache has no projection.
Uncached(p) ==
  /\ MovesOn(p, "native", "work")
  /\ UNCHANGED <<tempDisk, ledgerVars, keeps, making, native, scan>>

MakesShared(p) ==
  /\ p \in Keepers /\ SweptAll(p, "native") /\ MovesOn(p, "sweep", "claim")
  /\ Makes(p, SharedNative)

\* The shared name belongs to another run: the run makes a projection of its own.
SharedTaken(p) ==
  /\ making[p] = SharedNative /\ IsHeld(SharedNative) /\ MovesOn(p, "claim", "claim")
  /\ Makes(p, NativeOf(p))

Claims(p) ==
  /\ MovesOn(p, "claim", "mark") /\ LockDir(p, making[p])
  /\ UNCHANGED <<ledgerVars, keeps, making, native, scan>>

\* After the scratch the projection; after the projection the work.
Marks(p) ==
  /\ MovesOn(p, "mark", IF making[p] = ScratchOf(p) THEN "native" ELSE "work")
  /\ MarkDir(making[p], MarkerOf(p, FALSE))
  /\ native' = [native EXCEPT ![p] = IF making[p] = ScratchOf(p) THEN NoDir ELSE making[p]]
  /\ UNCHANGED <<ledgerVars, keeps, making, scan>>

\* A directory that cannot be claimed is removed, the shared one left; without a
\* projection the run works all the same.
ClaimFails(p) ==
  /\ place[p] \in {"claim", "mark"}
  /\ MovesOn(p, place[p], IF making[p] = SharedNative THEN "work" ELSE "drop_empty")
  /\ UnlockDir(p, making[p])
  /\ UNCHANGED <<ledgerVars, keeps, making, native, scan>>

OwnDirs(p) == {ScratchOf(p)} \cup ({native[p]} \ {NoDir})

\* The run writes below its directories.
Works(p) ==
  /\ MovesOn(p, "work", "close")
  /\ filled' = filled \cup (OwnDirs(p) \cap present)
  /\ UNCHANGED <<present, ownerLock, ownerMarker, stale, ledgerVars, keeps, making, native, scan>>

-----------------------------------------------------------------------------
(* releaseBuildCache and releaseRunScratch *)

\* The directory that is being let go: first the projection, then the scratch.
Leaving(p) == IF making[p] /= ScratchOf(p) THEN native[p] ELSE ScratchOf(p)

\* After the projection comes the scratch, and after it the end.
LetGo(p, from) ==
  IF making[p] = ScratchOf(p) THEN MovesOn(p, from, "done") /\ UNCHANGED making
  ELSE MovesOn(p, from, "close") /\ making' = [making EXCEPT ![p] = ScratchOf(p)]

\* No projection to let go.
NoNative(p) ==
  /\ making[p] /= ScratchOf(p) /\ native[p] = NoDir /\ LetGo(p, "close")
  /\ UNCHANGED <<tempDisk, ledgerVars, keeps, native, scan>>

\* Keep: the marker says so before the lock is given back.
KeepMarks(p) ==
  /\ p \in keeps /\ Leaving(p) /= NoDir
  /\ MovesOn(p, "close", "kept") /\ MarkDir(Leaving(p), MarkerOf(p, TRUE))
  /\ UNCHANGED <<ledgerVars, keeps, making, native, scan>>

KeepUnlocks(p) ==
  /\ MovesOn(p, "kept", "note") /\ UnlockDir(p, Leaving(p))
  /\ UNCHANGED <<ledgerVars, keeps, making, native, scan>>

\* A projection that cannot be marked is not written down; a scratch is.
KeepFails(p) ==
  /\ p \in keeps /\ place[p] = "close" /\ Leaving(p) /= NoDir
  /\ UnlockDir(p, Leaving(p))
  /\ IF making[p] = ScratchOf(p) THEN MovesOn(p, "close", "note") /\ UNCHANGED making ELSE LetGo(p, "close")
  /\ UNCHANGED <<ledgerVars, keeps, native, scan>>

\* Without Keep the lock goes first, and then what is the run's own.
Releases(p) ==
  /\ p \notin keeps /\ place[p] = "close" /\ Leaving(p) /= NoDir
  /\ UnlockDir(p, Leaving(p))
  /\ IF Leaving(p) = SharedNative THEN LetGo(p, "close") ELSE MovesOn(p, "close", "drop_empty") /\ UNCHANGED making
  /\ UNCHANGED <<ledgerVars, keeps, native, scan>>

DropEmpties(p) ==
  /\ MovesOn(p, "drop_empty", "drop_unlink") /\ EmptyDir(making[p])
  /\ UNCHANGED <<ledgerVars, keeps, making, native, scan>>

\* What was dropped before the work was a claim that failed.
DropUnlinks(p) ==
  /\ place[p] = "drop_unlink"
  /\ IF Unlinkable(making[p]) THEN UnlinkDir(making[p]) ELSE UNCHANGED tempDisk
  /\ IF making[p] = NativeOf(p) /\ native[p] = NoDir
     THEN MovesOn(p, "drop_unlink", "work") /\ UNCHANGED making
     ELSE LetGo(p, "drop_unlink")
  /\ UNCHANGED <<ledgerVars, keeps, native, scan>>

RunNext(p) ==
  \/ RunSweeps(p) \/ ScratchSwept(p) \/ MakesScratch(p) \/ NativeSweeps(p) \/ Uncached(p)
  \/ MakesShared(p) \/ SharedTaken(p) \/ Claims(p) \/ Marks(p) \/ ClaimFails(p) \/ Works(p)
  \/ NoNative(p) \/ KeepMarks(p) \/ KeepUnlocks(p) \/ KeepFails(p) \/ Releases(p)
  \/ DropEmpties(p) \/ DropUnlinks(p)

-----------------------------------------------------------------------------
(* The ledger *)

\* Mutant: the ledger is read whoever holds its lock.
TakeLedgerAnyhow(p) ==
  /\ ledgerLock' = p /\ loaded' = [loaded EXCEPT ![p] = ledger]
  /\ UNCHANGED <<ledger, recorded>>

\* keptledger.Update: the lock, and then what the ledger says.
TakeLedger(p) ==
  /\ ledgerLock = "free" /\ ledgerLock' = p
  /\ loaded' = [loaded EXCEPT ![p] = ledger]
  /\ UNCHANGED <<ledger, recorded>>

\* Save: one rename, and the lock is given back; or nothing is written.
SaveLedger(p, lines, history) ==
  /\ \/ ledger' = lines /\ recorded' = history
     \/ UNCHANGED <<ledger, recorded>>
  /\ ledgerLock' = IF ledgerLock = p THEN "free" ELSE ledgerLock
  /\ loaded' = [loaded EXCEPT ![p] = UnreadLedger]

\* recordKept: one entry for each path.
NoteReads(p) ==
  /\ MovesOn(p, "note", "noting") /\ TakeLedger(p)
  /\ UNCHANGED <<tempDisk, keeps, making, native, scan>>

NoteWrites(p) ==
  /\ LetGo(p, "noting")
  /\ SaveLedger(p, [loaded[p] EXCEPT ![Leaving(p)] = p], [recorded EXCEPT ![Leaving(p)] = p])
  /\ UNCHANGED <<tempDisk, keeps, native, scan>>

\* The lock is held for too long, or the ledger cannot be read.
NoteGivesUp(p) ==
  /\ LetGo(p, "note")
  /\ UNCHANGED <<tempDisk, ledgerVars, keeps, native, scan>>

-----------------------------------------------------------------------------
(* cache gc *)

GcSweeps(p) ==
  /\ p \in Collectors
  /\ \/ MovesOn(p, "start", "sweep") /\ SweepLists(p, "native")
     \/ SweptAll(p, "native") /\ MovesOn(p, "sweep", "sweep") /\ SweepLists(p, "scratch")

GcSwept(p) ==
  /\ p \in Collectors /\ SweptAll(p, "scratch") /\ MovesOn(p, "sweep", "ledger")
  /\ scan' = [scan EXCEPT ![p] = NoScan]
  /\ UNCHANGED <<tempDisk, ledgerVars, keeps, making, native>>

\* collectKeptTemporaries.
Lined == {d \in TempDirs : ledger[d] /= "nobody"}

GcReads(p) ==
  /\ MovesOn(p, "ledger", "collect") /\ TakeLedger(p)
  /\ scan' = [scan EXCEPT ![p] =
       [of |-> "ledger", left |-> Lined, at |-> NoDir, kept |-> Lined]]
  /\ UNCHANGED <<tempDisk, keeps, making, native>>

GcGivesUp(p) ==
  /\ MovesOn(p, "ledger", "done")
  /\ UNCHANGED <<tempDisk, ledgerVars, keeps, making, native, scan>>

\* An entry of what is not there is dropped.  One that is too young, or cannot
\* be looked at, or that the marker does not vouch for, is kept.
GcPasses(p) ==
  /\ MovesOn(p, "collect", "collect")
  /\ \E d \in scan[p].left :
       /\ scan' = [scan EXCEPT ![p].left = @ \ {d}]
       /\ loaded' = [loaded EXCEPT ![p][d] = IF d \in present THEN @ ELSE "nobody"]
  /\ UNCHANGED <<tempDisk, ledger, ledgerLock, recorded, keeps, making, native>>

\* KeptBy: the marker says that the run of the entry kept it.
Vouched(p, d) == ownerMarker[d] = MarkerOf(loaded[p][d], TRUE)

GcTakes(p) ==
  /\ MovesOn(p, "collect", "gc_empty")
  /\ \E d \in scan[p].left :
       /\ d \in present /\ Vouched(p, d)
       /\ scan' = [scan EXCEPT ![p].left = @ \ {d}, ![p].at = d]
  /\ UNCHANGED <<tempDisk, ledgerVars, keeps, making, native>>

GcEmpties(p) ==
  /\ MovesOn(p, "gc_empty", "gc_unlink") /\ EmptyDir(scan[p].at)
  /\ UNCHANGED <<ledgerVars, keeps, making, native, scan>>

GcUnlinks(p) ==
  /\ MovesOn(p, "gc_unlink", "collect")
  /\ IF Unlinkable(scan[p].at)
     THEN UnlinkDir(scan[p].at) /\ loaded' = [loaded EXCEPT ![p][scan[p].at] = "nobody"]
     ELSE UNCHANGED <<tempDisk, loaded>>
  /\ UNCHANGED <<ledger, ledgerLock, recorded, keeps, making, native, scan>>

GcWrites(p) ==
  /\ scan[p].left = {} /\ MovesOn(p, "collect", "done")
  /\ SaveLedger(p, loaded[p], [d \in TempDirs |->
       IF d \in scan[p].kept /\ loaded[p][d] = "nobody" THEN "nobody" ELSE recorded[d]])
  /\ scan' = [scan EXCEPT ![p] = NoScan]
  /\ UNCHANGED <<tempDisk, keeps, making, native>>

LedgerNext(p) ==
  \/ NoteReads(p) \/ NoteWrites(p) \/ NoteGivesUp(p)
  \/ GcSweeps(p) \/ GcSwept(p) \/ GcReads(p) \/ GcGivesUp(p) \/ GcPasses(p)
  \/ GcTakes(p) \/ GcEmpties(p) \/ GcUnlinks(p) \/ GcWrites(p)

-----------------------------------------------------------------------------
(* Death, and time *)

\* The kernel drops the locks of a process that is gone.
Dies(p) ==
  /\ place[p] /= "done" /\ place' = [place EXCEPT ![p] = "done"]
  /\ ownerLock' = [d \in TempDirs |-> IF ownerLock[d] = p THEN "free" ELSE ownerLock[d]]
  /\ ledgerLock' = IF ledgerLock = p THEN "free" ELSE ledgerLock
  /\ loaded' = [loaded EXCEPT ![p] = UnreadLedger] /\ scan' = [scan EXCEPT ![p] = NoScan]
  /\ making' = [making EXCEPT ![p] = NoDir] /\ native' = [native EXCEPT ![p] = NoDir]
  /\ UNCHANGED <<present, ownerMarker, filled, stale, ledger, recorded, keeps>>

\* A day goes by.  A sweep compares with the moment it began, and no run takes a
\* day to claim what it has made.
Ages(d) ==
  /\ d \in present \ stale /\ ownerMarker[d] = Unmarked /\ d[1] \in {"scratch", "native"}
  /\ \A p \in Movers : scan[p] = NoScan /\ ~(making[p] = d /\ place[p] \in {"claim", "mark"})
  /\ stale' = stale \cup {d}
  /\ UNCHANGED <<present, ownerLock, ownerMarker, filled, ledgerVars, keeps, place, making, native, scan>>

KeptTempNext ==
  \/ \E p \in Movers : SweepNext(p) \/ RunNext(p) \/ LedgerNext(p) \/ Dies(p)
  \/ \E d \in TempDirs : Ages(d)

KeptTempSpec == KeptTempInit /\ [][KeptTempNext]_keptTempVars

-----------------------------------------------------------------------------
(* What is promised *)

KeptTempTypeOK ==
  /\ present \subseteq TempDirs /\ filled \subseteq TempDirs /\ stale \subseteq TempDirs
  /\ ownerLock \in [TempDirs -> Movers \cup {"free", "absent"}]
  /\ ownerMarker \in [TempDirs -> [run : Keepers \cup {Earlier, "nobody"}, kept : BOOLEAN]]
  /\ {ledger, recorded} \subseteq [TempDirs -> Keepers \cup {Earlier, "nobody"}]
  /\ loaded \in [Movers -> [TempDirs -> Keepers \cup {Earlier, "nobody"}]]
  /\ ledgerLock \in Movers \cup {"free"} /\ keeps \subseteq Keepers
  /\ making \in [Movers -> TempDirs \cup {NoDir}] /\ native \in [Movers -> TempDirs \cup {NoDir}]
  /\ scan \in [Movers -> [of : {"none", "scratch", "native", "ledger"}, left : SUBSET TempDirs,
                           at : TempDirs \cup {NoDir}, kept : SUBSET TempDirs]]

\* A directory that a living run has claimed and not let go.
LetGoOf == {"note", "noting", "drop_empty", "drop_unlink", "done"}
Uses(r, d) ==
  \/ d = ScratchOf(r) /\ making[r] \notin {NoDir, d} /\ place[r] /= "done"
  \/ d = ScratchOf(r) /\ making[r] = d /\ place[r] \notin LetGoOf \cup {"claim"}
  \/ d = native[r] /\ making[r] = d /\ place[r] \notin LetGoOf
  \/ making[r] = d /\ place[r] = "mark"
InUse(d) == \E r \in Keepers : Uses(r, d)

Sweeping(p) == place[p] \in {"sweep_empty", "sweep_unlink"}
Collecting(p) == place[p] \in {"gc_empty", "gc_unlink"}

\* Who removes what others made takes nothing from a living run: a sweep asks for
\* the lock, and a collection for the marker, which a run writes in the end.  The
\* shared projection is another matter: a run can claim it again between the
\* question and the removal.
RunningAreSpared ==
  \A p \in Movers : Sweeping(p) \/ (Collecting(p) /\ scan[p].at /= SharedNative) => ~InUse(scan[p].at)

\* A sweep takes nothing that was kept when it began.
KeptAreSpared == \A p \in Movers : Sweeping(p) => scan[p].at \notin scan[p].kept

\* A path that only the ledger names is never taken.
ForeignAreSpared == \A p \in Movers : Sweeping(p) \/ Collecting(p) => scan[p].at /= Foreign

\* Runs and collections that end together lose no entry of each other.
LedgerIsKept == \A d \in TempDirs : recorded[d] /= "nobody" => ledger[d] = recorded[d]

\* What keeps a directory from being taken: neither a sweep nor a collection
\* takes what is in use, was kept or was never goatest's, and no entry of the
\* ledger is lost however runs and collections overlap and die.
KeptIsKept == RunningAreSpared /\ KeptAreSpared /\ ForeignAreSpared /\ LedgerIsKept
===============================================================================
