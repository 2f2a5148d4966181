----------------------------- MODULE Workspace -----------------------------
(***************************************************************************)
(* The public Workspace / Session API (workspace.go, session.go,           *)
(* frozen.go, changes.go): one frozen copy of a module, prepared at most   *)
(* once, used by any number of goroutines at the same time.                *)
(*                                                                         *)
(* A caller is a goroutine; pc says where in which call it is.  Three      *)
(* read-write locks order the calls: mu (the workspace's lifetime), tree   *)
(* (the files on disk) and smu (the session's lifetime).  The flags that   *)
(* stateMu guards are read and written in single steps.  The data is what  *)
(* the drift checks compare: the content of each path.                     *)
(***************************************************************************)
CONSTANTS
  Nobody,     \* the value of a lock field that names no caller
  Callers,    \* goroutines that use the workspace
  Sources,    \* Go sources of the manifest: what discovery reads
  Assets,     \* the other files of the manifest
  Extras,     \* paths the manifest does not name, which a command may create
  KeepTemp,   \* the values of OpenOptions.KeepTemp the instance is opened with
  Stubborn    \* the directories whose removal, or whose keep, may fail

ASSUME CallersAssumption == Nobody \notin Callers
ASSUME PathsAssumption == /\ Sources \cap Assets = {}
                          /\ Sources \cap Extras = {}
                          /\ Assets \cap Extras = {}

Directories == {"snapshot", "scratch", "session", "probe"}

ASSUME OptionsAssumption == KeepTemp \subseteq BOOLEAN /\ Stubborn \subseteq Directories

Manifest == Sources \cup Assets
Scannable == Sources \cup Extras
Paths == Manifest \cup Extras

\* What a path holds: the bytes Open froze, bytes a child process wrote,
\* the instrumented source, or nothing.
Contents == {"frozen", "edited", "instrumented", "absent"}
Written == {"frozen", "edited", "absent"}

\* What a child process may leave at f; no write makes frozen bytes of a
\* path that was never frozen.
Writable(f) == IF f \in Manifest THEN Written ELSE {"edited", "absent"}

\* The tree snapshot.Create left, as the manifest describes it.
Pristine == [f \in Paths |-> IF f \in Manifest THEN "frozen" ELSE "absent"]

-----------------------------------------------------------------------------
(* Go's sync.RWMutex: any number of readers or one writer, and a writer    *)
(* that has announced itself keeps new readers out while it waits for the  *)
(* readers already inside.  A caller that has not been admitted yet is     *)
(* simply not in the lock; its pc says what it is waiting for.             *)

\* A lock nobody holds and nobody waits for.
Unlocked == [readers |-> {}, writer |-> Nobody, pending |-> Nobody]

\* The values of a lock shared by the callers in P.
RWMutexes(P) == [readers : SUBSET P,
                 writer  : P \cup {Nobody},
                 pending : P \cup {Nobody}]

\* RLock is granted while no writer is inside or announced.
CanRLock(l) == l.writer = Nobody /\ l.pending = Nobody

RLock(l, p) == [l EXCEPT !.readers = @ \cup {p}]

RUnlock(l, p) == [l EXCEPT !.readers = @ \ {p}]

\* Lock first announces the writer, one at a time ...
CanAnnounce(l) == l.writer = Nobody /\ l.pending = Nobody

Announce(l, p) == [l EXCEPT !.pending = p]

\* ... and then waits for the last reader to leave.
CanLock(l, p) == l.pending = p /\ l.readers = {}

Lock(l, p) == [l EXCEPT !.writer = p, !.pending = Nobody]

Unlock(l) == [l EXCEPT !.writer = Nobody]

\* A critical section short enough to be one step: Lock immediately
\* followed by Unlock.
Passed(l) == [l EXCEPT !.pending = Nobody]

-----------------------------------------------------------------------------
VARIABLES
  pc,              \* where each caller is
  mu, tree, smu,   \* Workspace.mu, Workspace.tree, Session.mu
  closed,          \* Workspace.closed
  prepareStarted,  \* Workspace.prepareStarted
  prepareFailed,   \* Workspace.prepareFailed
  attached,        \* Workspace.session is not nil
  sess,            \* the session object: not made, open or closed
  files,           \* the frozen tree on disk
  dirs,            \* the temporary directories that exist
  keep,            \* OpenOptions.KeepTemp
  prep,            \* the locals of the one preparation that got past its options
  failing,         \* the error the Close in progress has met so far, if any
  closeErr,        \* Workspace.closeErr; "unset" until closeDone is closed
  answers,         \* what the Close calls that returned have returned
  reported         \* the directories some call returned an error about

vars == <<pc, mu, tree, smu, closed, prepareStarted, prepareFailed, attached,
          sess, files, dirs, keep, prep, failing, closeErr, answers, reported>>
flags == <<closed, prepareStarted, prepareFailed, attached>>
disk == <<files, dirs, keep>>
closing == <<failing, closeErr, answers, reported>>

-----------------------------------------------------------------------------
(* Program counters, by the lock they hold. *)

DiscoveryPCs == {"prep_parse", "prep_scan", "prep_capture"}
TreeReadPCs == DiscoveryPCs \cup {"exec_run", "prep_copy", "prep_verify"}
WindowPCs == {"win_gate", "win_freeze", "win_validate", "win_restore",
              "win_restored", "win_failed"}
PreparePCs == DiscoveryPCs \cup WindowPCs \cup
  {"prep_begun", "prep_discover", "prep_probe", "prep_copy", "prep_window",
   "win_wait", "prep_verifying", "prep_verify", "prep_build", "prep_fail"}
MuReadPCs == PreparePCs \cup {"exec_tree", "exec_run", "exec_ret"}
MuPendingPCs == {"close_wait", "close_pub_wait", "close_rejoin_wait"}
SmuPendingPCs == {"chg_wait", "scl_wait", "close_sess_wait"}
FreePCs == {"idle", "exec_mu", "prep_mu", "sess_mu", "chg_mu", "scl_mu",
            "close_mu", "close_join", "close_rejoin", "close_sess",
            "close_rm", "close_pub"}
PCs == MuReadPCs \cup MuPendingPCs \cup SmuPendingPCs \cup FreePCs
         \cup {"sess_run", "chg_scan"}

Goto(p, from, to) == pc[p] = from /\ pc' = [pc EXCEPT ![p] = to]

\* The locals of a preparation before discovery has read anything.
FreshPrep(probe) ==
  [probe    |-> probe,
   todo     |-> {},                                  \* paths a phase still has to read
   parsed   |-> [f \in Paths |-> "absent"],          \* what packages.Load parsed
   scanned  |-> [f \in Paths |-> "absent"],          \* what discovery re-read and digested
   captured |-> [f \in Paths |-> "absent"],          \* captureInstrumentationSources
   minted   |-> {},                                  \* the files the catalogue has mutants of
   copied   |-> [f \in Paths |-> "absent"],          \* the probe snapshot
   pinned   |-> [f \in Paths |-> "absent"],          \* freezeBuildInputs
   built    |-> [f \in Paths |-> "absent"]]          \* what the compiler read

Preps ==
  [probe : BOOLEAN, todo : SUBSET Paths, minted : SUBSET Paths,
   parsed : [Paths -> Contents], scanned : [Paths -> Contents],
   captured : [Paths -> Contents], copied : [Paths -> Contents],
   pinned : [Paths -> Contents], built : [Paths -> Contents]]

Init ==
  /\ pc = [p \in Callers |-> "idle"]
  /\ mu = Unlocked /\ tree = Unlocked /\ smu = Unlocked
  /\ closed = FALSE /\ prepareStarted = FALSE
  /\ prepareFailed = FALSE /\ attached = FALSE
  /\ sess = "none"
  /\ files = Pristine
  /\ dirs = {"snapshot", "scratch"}
  /\ keep \in KeepTemp
  /\ prep = FreshPrep(FALSE)
  /\ failing = FALSE /\ closeErr = "unset" /\ answers = {} /\ reported = {}

-----------------------------------------------------------------------------
(* Workspace.Exec *)

Allowed == ~closed /\ ~prepareFailed

ExecCall(p) ==
  /\ Goto(p, "idle", "exec_mu")
  /\ UNCHANGED <<mu, tree, smu, flags, sess, disk, prep, closing>>

ExecEnter(p) ==
  /\ CanRLock(mu)
  /\ \/ Allowed /\ Goto(p, "exec_mu", "exec_tree") /\ mu' = RLock(mu, p)
     \/ ~Allowed /\ Goto(p, "exec_mu", "idle") /\ UNCHANGED mu
  /\ UNCHANGED <<tree, smu, flags, sess, disk, prep, closing>>

\* MUTANT: a command that waited for the tree is not asked again.
ExecStartUnasked(p) ==
  /\ CanRLock(tree)
  /\ Goto(p, "exec_tree", "exec_run") /\ tree' = RLock(tree, p)
  /\ UNCHANGED <<mu, smu, flags, sess, disk, prep, closing>>

\* Asked again once the tree is held: a failed window may have been in front.
ExecStart(p) ==
  /\ CanRLock(tree)
  /\ \/ Allowed /\ Goto(p, "exec_tree", "exec_run") /\ tree' = RLock(tree, p)
     \/ ~Allowed /\ Goto(p, "exec_tree", "exec_ret") /\ UNCHANGED tree
  /\ UNCHANGED <<mu, smu, flags, sess, disk, prep, closing>>

ExecEnd(p) ==
  /\ Goto(p, "exec_run", "exec_ret")
  /\ tree' = RUnlock(tree, p)
  /\ UNCHANGED <<mu, smu, flags, sess, disk, prep, closing>>

ExecReturn(p) ==
  /\ Goto(p, "exec_ret", "idle")
  /\ mu' = RUnlock(mu, p)
  /\ UNCHANGED <<tree, smu, flags, sess, disk, prep, closing>>

\* A child process of a command, of the verification or of a session call
\* writes into the tree; nothing refuses it.
ChildWrite(p) ==
  /\ pc[p] \in {"exec_run", "prep_verify", "sess_run"}
  /\ \E f \in Paths : \E c \in Writable(f) : files' = [files EXCEPT ![f] = c]
  /\ UNCHANGED <<pc, mu, tree, smu, flags, sess, dirs, keep, prep, closing>>

-----------------------------------------------------------------------------
(* Workspace.Prepare, up to the instrumentation window *)

PrepareCall(p) ==
  /\ Goto(p, "idle", "prep_mu")
  /\ UNCHANGED <<mu, tree, smu, flags, sess, disk, prep, closing>>

\* MUTANT: the claim on the one preparation is not checked.
PrepareBeginUnclaimed(p) ==
  /\ CanRLock(mu)
  /\ \/ /\ ~closed
        /\ Goto(p, "prep_mu", "prep_begun")
        /\ mu' = RLock(mu, p)
        /\ prepareStarted' = TRUE
     \/ /\ closed
        /\ Goto(p, "prep_mu", "idle")
        /\ UNCHANGED <<mu, prepareStarted>>
  /\ UNCHANGED <<tree, smu, closed, prepareFailed, attached, sess, disk, prep, closing>>

PrepareBegin(p) ==
  /\ CanRLock(mu)
  /\ \/ /\ ~closed /\ ~prepareStarted
        /\ Goto(p, "prep_mu", "prep_begun")
        /\ mu' = RLock(mu, p)
        /\ prepareStarted' = TRUE
     \/ /\ closed \/ prepareStarted
        /\ Goto(p, "prep_mu", "idle")
        /\ UNCHANGED <<mu, prepareStarted>>
  /\ UNCHANGED <<tree, smu, closed, prepareFailed, attached, sess, disk, prep, closing>>

\* A cancelled context or bad options give the preparation back unspent.
PrepareAbandon(p) ==
  /\ Goto(p, "prep_begun", "idle")
  /\ prepareStarted' = FALSE
  /\ mu' = RUnlock(mu, p)
  /\ UNCHANGED <<tree, smu, closed, prepareFailed, attached, sess, disk, prep, closing>>

PrepareSpend(p) ==
  /\ \/ Goto(p, "prep_begun", "prep_discover")
     \/ Goto(p, "prep_begun", "prep_fail")       \* rules or patterns refused
  /\ \E probe \in BOOLEAN : prep' = FreshPrep(probe)
  /\ UNCHANGED <<mu, tree, smu, flags, sess, disk, closing>>

DiscoverEnter(p) ==
  /\ Goto(p, "prep_discover", "prep_parse")
  /\ CanRLock(tree)
  /\ tree' = RLock(tree, p)
  /\ prep' = [prep EXCEPT !.todo = Scannable]
  /\ UNCHANGED <<mu, smu, flags, sess, disk, closing>>

\* packages.Load lists and parses the files one by one.
DiscoverParse(p) ==
  /\ pc[p] = "prep_parse"
  /\ \E f \in prep.todo :
       prep' = [prep EXCEPT !.todo = @ \ {f}, !.parsed[f] = files[f]]
  /\ UNCHANGED <<pc, mu, tree, smu, flags, sess, disk, closing>>

DiscoverParsed(p) ==
  /\ Goto(p, "prep_parse", "prep_scan")
  /\ prep.todo = {}
  /\ prep' = [prep EXCEPT !.todo = {f \in Scannable : prep.parsed[f] # "absent"}]
  /\ UNCHANGED <<mu, tree, smu, flags, sess, disk, closing>>

\* Each parsed file is read a second time: its digest is of these bytes,
\* its candidates are of the bytes that were parsed.  A frozen source has
\* candidates; bytes somebody else wrote may or may not.
DiscoverScan(p) ==
  /\ pc[p] = "prep_scan"
  /\ \E f \in prep.todo, mints \in BOOLEAN :
       /\ files[f] # "absent"
       /\ prep.parsed[f] = "frozen" => mints
       /\ prep' = [prep EXCEPT !.todo = @ \ {f},
                               !.scanned[f] = files[f],
                               !.minted = IF mints THEN @ \cup {f} ELSE @]
  /\ UNCHANGED <<pc, mu, tree, smu, flags, sess, disk, closing>>

DiscoverScanned(p) ==
  /\ Goto(p, "prep_scan", "prep_capture")
  /\ prep.todo = {}
  /\ prep' = [prep EXCEPT !.todo = prep.minted]
  /\ UNCHANGED <<mu, tree, smu, flags, sess, disk, closing>>

DiscoverCapture(p) ==
  /\ pc[p] = "prep_capture"
  /\ \E f \in prep.todo :
       /\ files[f] # "absent"
       /\ prep' = [prep EXCEPT !.todo = @ \ {f}, !.captured[f] = files[f]]
  /\ UNCHANGED <<pc, mu, tree, smu, flags, sess, disk, closing>>

DiscoverEnd(p) ==
  /\ prep.todo = {}
  /\ \/ prep.probe /\ Goto(p, "prep_capture", "prep_probe")
     \/ ~prep.probe /\ Goto(p, "prep_capture", "prep_window")
  /\ tree' = RUnlock(tree, p)
  /\ UNCHANGED <<mu, smu, flags, sess, disk, prep, closing>>

\* The probe tree is a snapshot of the snapshot, copied file by file.
ProbeEnter(p) ==
  /\ Goto(p, "prep_probe", "prep_copy")
  /\ CanRLock(tree)
  /\ tree' = RLock(tree, p)
  /\ dirs' = dirs \cup {"probe"}
  /\ prep' = [prep EXCEPT !.todo = Paths]
  /\ UNCHANGED <<mu, smu, flags, sess, files, keep, closing>>

ProbeCopy(p) ==
  /\ pc[p] = "prep_copy"
  /\ \E f \in prep.todo :
       prep' = [prep EXCEPT !.todo = @ \ {f}, !.copied[f] = files[f]]
  /\ UNCHANGED <<pc, mu, tree, smu, flags, sess, disk, closing>>

\* Its digest has to be the workspace's own.
ProbeEnd(p) ==
  /\ Goto(p, "prep_copy", "prep_window")
  /\ prep.todo = {}
  /\ prep.copied = Pristine
  /\ tree' = RUnlock(tree, p)
  /\ UNCHANGED <<mu, smu, flags, sess, disk, prep, closing>>

\* Any error of discovery, of the probe copy or of the verification.
ReadPhaseFail(p) ==
  /\ \E from \in DiscoveryPCs \cup {"prep_copy", "prep_verify"} :
       Goto(p, from, "prep_fail")
  /\ tree' = RUnlock(tree, p)
  /\ UNCHANGED <<mu, smu, flags, sess, disk, prep, closing>>

-----------------------------------------------------------------------------
(* The instrumentation window: the tree is held exclusively *)

WindowAnnounce(p) ==
  /\ Goto(p, "prep_window", "win_wait")
  /\ CanAnnounce(tree)
  /\ tree' = Announce(tree, p)
  /\ UNCHANGED <<mu, smu, flags, sess, disk, prep, closing>>

WindowEnter(p) ==
  /\ Goto(p, "win_wait", "win_gate")
  /\ CanLock(tree, p)
  /\ tree' = Lock(tree, p)
  /\ UNCHANGED <<mu, smu, flags, sess, disk, prep, closing>>

\* checkDiscoveredSources: every file discovery digested, and every image
\* captured for restoration, against the manifest.
DiscoveredSourcesMatch ==
  \A f \in Paths :
    /\ prep.scanned[f] # "absent" => f \in Manifest /\ prep.scanned[f] = "frozen"
    /\ f \in prep.minted => prep.captured[f] = "frozen"

WindowGate(p) ==
  /\ Goto(p, "win_gate", "win_freeze")
  /\ files = Pristine
  /\ DiscoveredSourcesMatch
  /\ UNCHANGED <<mu, tree, smu, flags, sess, disk, prep, closing>>

\* The session's scratch, with a verified copy of every manifest file in it.
WindowFreeze(p) ==
  /\ Goto(p, "win_freeze", "win_validate")
  /\ \A f \in Manifest : files[f] = "frozen"
  /\ dirs' = dirs \cup {"session"}
  /\ prep' = [prep EXCEPT !.pinned = [f \in Paths |->
                IF f \in Manifest THEN files[f] ELSE "absent"]]
  /\ UNCHANGED <<mu, tree, smu, flags, sess, files, keep, closing>>

\* Validation rewrites the sources in place.
WindowValidate(p) ==
  /\ Goto(p, "win_validate", "win_restore")
  /\ files' = [f \in Paths |-> IF f \in prep.minted THEN "instrumented" ELSE files[f]]
  /\ UNCHANGED <<mu, tree, smu, flags, sess, dirs, keep, prep, closing>>

\* The overlay takes the instrumented sources, the captured ones go back, and
\* the tree is digested again.
WindowRestore(p) ==
  LET restored == [f \in Paths |->
                     IF f \in prep.minted THEN prep.captured[f] ELSE files[f]]
  IN /\ files' = restored
     /\ \/ restored = Pristine /\ Goto(p, "win_restore", "win_restored")
                               /\ UNCHANGED prepareFailed
        \/ restored # Pristine /\ Goto(p, "win_restore", "win_failed")
                               /\ prepareFailed' = TRUE
     /\ UNCHANGED <<mu, tree, smu, closed, prepareStarted, attached, sess,
                    dirs, keep, prep, closing>>

WindowUnlock(p) ==
  /\ Goto(p, "win_restored", "prep_verifying")
  /\ tree' = Unlock(tree)
  /\ UNCHANGED <<mu, smu, flags, sess, disk, prep, closing>>

\* Any error inside the window, published before the tree is given back.
WindowFail(p) ==
  /\ \E from \in {"win_gate", "win_freeze", "win_validate", "win_restore"} :
       Goto(p, from, "win_failed")
  /\ prepareFailed' = TRUE
  /\ UNCHANGED <<mu, tree, smu, closed, prepareStarted, attached, sess, disk,
                 prep, closing>>

WindowFailUnlock(p) ==
  /\ Goto(p, "win_failed", "prep_fail")
  /\ tree' = Unlock(tree)
  /\ UNCHANGED <<mu, smu, flags, sess, disk, prep, closing>>

-----------------------------------------------------------------------------
(* Verification, the builds and the published session *)

VerifyEnter(p) ==
  /\ Goto(p, "prep_verifying", "prep_verify")
  /\ CanRLock(tree)
  /\ tree' = RLock(tree, p)
  /\ UNCHANGED <<mu, smu, flags, sess, disk, prep, closing>>

VerifyEnd(p) ==
  /\ Goto(p, "prep_verify", "prep_build")
  /\ files = Pristine
  /\ tree' = RUnlock(tree, p)
  /\ prep' = [prep EXCEPT !.todo = Paths]
  /\ UNCHANGED <<mu, smu, flags, sess, disk, closing>>

VerifySkip(p) ==
  /\ Goto(p, "prep_verifying", "prep_build")
  /\ prep' = [prep EXCEPT !.todo = Paths]
  /\ UNCHANGED <<mu, tree, smu, flags, sess, disk, closing>>

\* MUTANT: the overlay names the instrumented sources and nothing else.
OverlaidSourcesOnly(f) ==
  IF f \in prep.minted THEN "instrumented" ELSE files[f]

\* The go command reads through the overlay: an instrumented source where
\* there is one, the pinned copy for the rest of the manifest, and the
\* directory on disk for a path the overlay does not name.
Overlaid(f) ==
  IF f \in prep.minted THEN "instrumented"
  ELSE IF f \in Manifest THEN prep.pinned[f]
  ELSE files[f]

BuildRead(p) ==
  /\ pc[p] = "prep_build"
  /\ \E f \in prep.todo :
       prep' = [prep EXCEPT !.todo = @ \ {f}, !.built[f] = Overlaid(f)]
  /\ UNCHANGED <<pc, mu, tree, smu, flags, sess, disk, closing>>

BuildFail(p) ==
  /\ Goto(p, "prep_build", "prep_fail")
  /\ UNCHANGED <<mu, tree, smu, flags, sess, disk, prep, closing>>

PublishSession(p) ==
  /\ Goto(p, "prep_build", "idle")
  /\ prep.todo = {}
  /\ attached' = TRUE
  /\ sess' = "open"
  /\ mu' = RUnlock(mu, p)
  /\ UNCHANGED <<tree, smu, closed, prepareStarted, prepareFailed, disk, prep, closing>>

\* failPrepare and the deferred prepareDidFail.  KeepTemp keeps the session's
\* scratch but never the probe tree.
PrepareFail(p) ==
  /\ Goto(p, "prep_fail", "idle")
  /\ prepareFailed' = TRUE
  /\ \E left \in SUBSET (Stubborn \cap dirs \cap (IF keep THEN {"probe"} ELSE {"probe", "session"})) :
       /\ dirs' = dirs \ ((IF keep THEN {"probe"} ELSE {"probe", "session"}) \ left)
       /\ reported' = reported \cup left
  /\ mu' = RUnlock(mu, p)
  /\ prep' = FreshPrep(FALSE)
  /\ UNCHANGED <<tree, smu, closed, prepareStarted, attached, sess, files, keep,
                 failing, closeErr, answers>>

-----------------------------------------------------------------------------
(* Session calls: Exec, Control and Probe share smu, Changes and Close own it *)

SessionCall(p) ==
  /\ sess # "none"
  /\ \/ Goto(p, "idle", "sess_mu")
     \/ Goto(p, "idle", "chg_mu")
     \/ Goto(p, "idle", "scl_mu")
  /\ UNCHANGED <<mu, tree, smu, flags, sess, disk, prep, closing>>

SessionEnter(p) ==
  /\ CanRLock(smu)
  /\ \/ sess = "open" /\ Goto(p, "sess_mu", "sess_run") /\ smu' = RLock(smu, p)
     \/ sess = "closed" /\ Goto(p, "sess_mu", "idle") /\ UNCHANGED smu
  /\ UNCHANGED <<mu, tree, flags, sess, disk, prep, closing>>

SessionEnd(p) ==
  /\ Goto(p, "sess_run", "idle")
  /\ smu' = RUnlock(smu, p)
  /\ UNCHANGED <<mu, tree, flags, sess, disk, prep, closing>>

SessionAnnounce(p) ==
  /\ CanAnnounce(smu)
  /\ \/ Goto(p, "chg_mu", "chg_wait")
     \/ Goto(p, "scl_mu", "scl_wait")
     \/ Goto(p, "close_sess", "close_sess_wait")
  /\ smu' = Announce(smu, p)
  /\ UNCHANGED <<mu, tree, flags, sess, disk, prep, closing>>

ChangesEnter(p) ==
  /\ CanLock(smu, p)
  /\ \/ sess = "open" /\ Goto(p, "chg_wait", "chg_scan") /\ smu' = Lock(smu, p)
     \/ sess = "closed" /\ Goto(p, "chg_wait", "idle") /\ smu' = Passed(smu)
  /\ UNCHANGED <<mu, tree, flags, sess, disk, prep, closing>>

ChangesEnd(p) ==
  /\ Goto(p, "chg_scan", "idle")
  /\ smu' = Unlock(smu)
  /\ UNCHANGED <<mu, tree, flags, sess, disk, prep, closing>>

\* keepOrRemove on each of ds: a removal that fails leaves the directory, a
\* keep that fails removes it, and both are the caller's error.
KeepOrRemove(ds, bad) ==
  dirs \ (IF keep THEN bad ELSE ds \ bad)

\* Session.Close: once.  KeepTemp leaves the session's scratch untouched.
SessionCloses(bad) ==
  /\ bad \in SUBSET (IF sess = "closed" THEN {}
                     ELSE Stubborn \cap dirs \cap (IF keep THEN {"probe"} ELSE {"session", "probe"}))
  /\ sess' = "closed"
  /\ dirs' = IF sess = "closed" THEN dirs ELSE KeepOrRemove({"session", "probe"}, bad)
  /\ reported' = reported \cup bad

SessionClose(p) ==
  /\ Goto(p, "scl_wait", "idle")
  /\ CanLock(smu, p)
  /\ \E bad \in SUBSET Stubborn : SessionCloses(bad)
  /\ smu' = Passed(smu)
  /\ UNCHANGED <<mu, tree, flags, files, keep, prep, failing, closeErr, answers>>

-----------------------------------------------------------------------------
(* Workspace.Close *)

CloseCall(p) ==
  /\ Goto(p, "idle", "close_mu")
  /\ UNCHANGED <<mu, tree, smu, flags, sess, disk, prep, closing>>

\* The three places where Close asks for mu exclusively.
CloseAnnounce(p) ==
  /\ CanAnnounce(mu)
  /\ \/ Goto(p, "close_mu", "close_wait")
     \/ Goto(p, "close_pub", "close_pub_wait")
     \/ Goto(p, "close_rejoin", "close_rejoin_wait")
  /\ mu' = Announce(mu, p)
  /\ UNCHANGED <<tree, smu, flags, sess, disk, prep, closing>>

\* MUTANT: Close claims the workspace without waiting for the calls inside it.
CloseClaimEager(p) ==
  /\ mu.pending = p
  /\ \/ ~closed /\ attached /\ Goto(p, "close_wait", "close_sess")
     \/ ~closed /\ ~attached /\ Goto(p, "close_wait", "close_rm")
     \/ closed /\ Goto(p, "close_wait", "close_join")
  /\ closed' = TRUE
  /\ attached' = FALSE
  /\ mu' = Passed(mu)
  /\ UNCHANGED <<tree, smu, prepareStarted, prepareFailed, sess, disk, prep, closing>>

\* MUTANT: Close forgets the session it took off the workspace.
CloseClaimSessionless(p) ==
  /\ CanLock(mu, p)
  /\ \/ ~closed /\ Goto(p, "close_wait", "close_rm")
     \/ closed /\ Goto(p, "close_wait", "close_join")
  /\ closed' = TRUE
  /\ attached' = FALSE
  /\ mu' = Passed(mu)
  /\ UNCHANGED <<tree, smu, prepareStarted, prepareFailed, sess, disk, prep, closing>>

CloseClaim(p) ==
  /\ CanLock(mu, p)
  /\ \/ ~closed /\ attached /\ Goto(p, "close_wait", "close_sess")
     \/ ~closed /\ ~attached /\ Goto(p, "close_wait", "close_rm")
     \/ closed /\ Goto(p, "close_wait", "close_join")
  /\ closed' = TRUE
  /\ attached' = FALSE
  /\ mu' = Passed(mu)
  /\ UNCHANGED <<tree, smu, prepareStarted, prepareFailed, sess, disk, prep, closing>>

CloseSession(p) ==
  /\ Goto(p, "close_sess_wait", "close_rm")
  /\ CanLock(smu, p)
  /\ \E bad \in SUBSET Stubborn : SessionCloses(bad) /\ failing' = (bad # {})
  /\ smu' = Passed(smu)
  /\ UNCHANGED <<mu, tree, flags, files, keep, prep, closeErr, answers>>

\* Scratch and snapshot, each kept or removed; the session's scratch lives
\* inside the workspace's and goes with it.
CloseRemove(p) ==
  /\ Goto(p, "close_rm", "close_pub")
  /\ \E bad \in SUBSET (Stubborn \cap {"scratch", "snapshot"}) :
       LET left == KeepOrRemove({"scratch", "snapshot"}, bad)
       IN /\ dirs' = IF "scratch" \in left THEN left ELSE left \ {"session"}
          /\ failing' = (failing \/ bad # {})
          /\ reported' = reported \cup bad
                         \cup (IF "scratch" \in bad THEN {"session"} ELSE {})
  /\ UNCHANGED <<mu, tree, smu, flags, sess, files, keep, prep, closeErr, answers>>

\* MUTANT: the first Close returns without closing closeDone.
ClosePublishSilent(p) ==
  /\ Goto(p, "close_pub_wait", "idle")
  /\ CanLock(mu, p)
  /\ mu' = Passed(mu)
  /\ UNCHANGED <<tree, smu, flags, sess, disk, prep, closing>>

ClosePublish(p) ==
  /\ Goto(p, "close_pub_wait", "idle")
  /\ CanLock(mu, p)
  /\ closeErr' = IF failing THEN "failed" ELSE "nil"
  /\ answers' = answers \cup {closeErr'}
  /\ mu' = Passed(mu)
  /\ UNCHANGED <<tree, smu, flags, sess, disk, prep, failing, reported>>

\* A second Close waits for the first one's verdict and repeats it.
CloseJoin(p) ==
  /\ Goto(p, "close_join", "close_rejoin")
  /\ closeErr # "unset"
  /\ UNCHANGED <<mu, tree, smu, flags, sess, disk, prep, closing>>

CloseRejoin(p) ==
  /\ Goto(p, "close_rejoin_wait", "idle")
  /\ CanLock(mu, p)
  /\ mu' = Passed(mu)
  /\ answers' = answers \cup {closeErr}
  /\ UNCHANGED <<tree, smu, flags, sess, disk, prep, failing, closeErr, reported>>

-----------------------------------------------------------------------------
(* A caller's choices, and the steps a call in progress takes by itself *)

Begin(p) == ExecCall(p) \/ PrepareCall(p) \/ SessionCall(p) \/ CloseCall(p)

ExecStep(p) == ExecEnter(p) \/ ExecStart(p) \/ ExecEnd(p) \/ ExecReturn(p)

DiscoverStep(p) ==
  \/ DiscoverEnter(p) \/ DiscoverParse(p) \/ DiscoverParsed(p) \/ DiscoverScan(p)
  \/ DiscoverScanned(p) \/ DiscoverCapture(p) \/ DiscoverEnd(p)
  \/ ProbeEnter(p) \/ ProbeCopy(p) \/ ProbeEnd(p) \/ ReadPhaseFail(p)

WindowStep(p) ==
  \/ WindowAnnounce(p) \/ WindowEnter(p) \/ WindowGate(p) \/ WindowFreeze(p)
  \/ WindowValidate(p) \/ WindowRestore(p) \/ WindowUnlock(p)
  \/ WindowFail(p) \/ WindowFailUnlock(p)

PrepareStep(p) ==
  \/ PrepareBegin(p) \/ PrepareAbandon(p) \/ PrepareSpend(p)
  \/ DiscoverStep(p) \/ WindowStep(p)
  \/ VerifyEnter(p) \/ VerifyEnd(p) \/ VerifySkip(p)
  \/ BuildRead(p) \/ BuildFail(p) \/ PublishSession(p) \/ PrepareFail(p)

SessionStep(p) ==
  \/ SessionEnter(p) \/ SessionEnd(p) \/ SessionAnnounce(p)
  \/ ChangesEnter(p) \/ ChangesEnd(p) \/ SessionClose(p)

CloseStep(p) ==
  \/ CloseAnnounce(p) \/ CloseClaim(p) \/ CloseSession(p) \/ CloseRemove(p)
  \/ ClosePublish(p) \/ CloseJoin(p) \/ CloseRejoin(p)

Progress(p) == ExecStep(p) \/ PrepareStep(p) \/ SessionStep(p) \/ CloseStep(p)

Next == \E p \in Callers : Begin(p) \/ Progress(p) \/ ChildWrite(p)

Spec == Init /\ [][Next]_vars

\* A call that has begun goes on: its goroutine is scheduled, its children are
\* killed at their timeouts, and sync.RWMutex starves neither side.  No caller
\* has to begin another call, and no child has to write.
FairSpec == Spec /\ \A p \in Callers : SF_vars(Progress(p))

-----------------------------------------------------------------------------
(* Properties *)

\* The workspace's state is of the declared shape.
TypeOK ==
  /\ pc \in [Callers -> PCs]
  /\ mu \in RWMutexes(Callers) /\ tree \in RWMutexes(Callers) /\ smu \in RWMutexes(Callers)
  /\ closed \in BOOLEAN /\ prepareStarted \in BOOLEAN
  /\ prepareFailed \in BOOLEAN /\ attached \in BOOLEAN
  /\ sess \in {"none", "open", "closed"}
  /\ files \in [Paths -> Contents]
  /\ dirs \in SUBSET Directories
  /\ keep \in BOOLEAN
  /\ prep \in Preps
  /\ failing \in BOOLEAN
  /\ closeErr \in {"unset", "nil", "failed"}
  /\ answers \in SUBSET {"unset", "nil", "failed"}
  /\ reported \in SUBSET Directories

\* No command, verification or session target is ever running while a file of
\* the tree holds instrumented source: not inside the window, and not after a
\* window that failed with the sources still rewritten (Exec's second
\* execAllowed, prepareDidFail before tree.Unlock).
NoChildSeesInstrumentation ==
  \A p \in Callers : pc[p] \in {"exec_run", "prep_verify", "sess_run"} =>
    \A f \in Paths : files[f] # "instrumented"

\* Nothing a call is using is removed under it: a command or a preparation has
\* the snapshot and the scratch until it returns (Close waits on mu), a session
\* target its scratch and the tree it starts in until it returns (Session.Close
\* waits on the session's lock, and Workspace.Close on Session.Close).
NothingRemovedUnderACall ==
  \A p \in Callers :
    /\ pc[p] \in MuReadPCs => {"snapshot", "scratch"} \subseteq dirs
    /\ pc[p] \in {"sess_run", "chg_scan"} => {"snapshot", "scratch", "session"} \subseteq dirs

\* A preparation that got past its options is the only one there will ever be:
\* no two calls are preparing at once, and none is once a session was published
\* or a preparation failed.
PreparedAtMostOnce ==
  /\ \A p, q \in Callers : pc[p] \in PreparePCs /\ pc[q] \in PreparePCs => p = q
  /\ \A p \in Callers : pc[p] \in PreparePCs => prepareStarted /\ sess = "none"
  /\ sess # "none" => ~prepareFailed

\* Every mutant of a published session was minted from a file whose digest is
\* the manifest's, and every manifest file the binaries were compiled from is
\* the frozen bytes or their instrumentation, whatever commands wrote into the
\* tree while discovery read it or while the compiler ran.
SessionBuiltFromManifest ==
  sess # "none" =>
    /\ \A f \in prep.minted : f \in Manifest /\ prep.scanned[f] = "frozen"
    /\ \A f \in Manifest :
         prep.built[f] = IF f \in prep.minted THEN "instrumented" ELSE "frozen"

\* All Close calls give one answer, the answer of the one that did the work, and
\* none before that work is over.
CloseAnswersAgree == answers \subseteq {closeErr} \ {"unset"}

\* When a Close has returned, no call is using the workspace or its session, and
\* without KeepTemp every directory the workspace made is gone or was named in
\* an error some call returned.
ClosedMeansOver ==
  closeErr # "unset" =>
    /\ \A p \in Callers : pc[p] \notin MuReadPCs \cup {"sess_run", "chg_scan"}
    /\ sess # "open"
    /\ ~keep => dirs \subseteq reported

\* What Close says is so, whoever asks and whenever: one answer for all, and
\* after it nothing that goes on and nothing left that nobody named.
CloseIsFinal == CloseAnswersAgree /\ ClosedMeansOver

\* KeepTemp keeps: unless an error said otherwise, what Open made is still there.
KeepTempKeeps == keep => {"scratch", "snapshot"} \ reported \subseteq dirs

\* Every call that has begun returns, in spite of writers that keep readers out
\* while they wait for earlier readers.
CallsReturn == \A p \in Callers : pc[p] # "idle" ~> pc[p] = "idle"
=============================================================================
