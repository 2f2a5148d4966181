-------------------------- MODULE WorkspaceProofs --------------------------
(***************************************************************************)
(* Proofs about Workspace, for any callers and any manifest: the shape of  *)
(* its state, and the inductive invariants that its safety follows from.   *)
(***************************************************************************)
EXTENDS Workspace, TLAPS

\* A lock operation on a lock of the callers gives a lock of the callers.
LEMMA LockTypes ==
  ASSUME NEW p \in Callers, NEW l \in RWMutexes(Callers)
  PROVE  /\ RLock(l, p) \in RWMutexes(Callers)
         /\ RUnlock(l, p) \in RWMutexes(Callers)
         /\ Announce(l, p) \in RWMutexes(Callers)
         /\ Lock(l, p) \in RWMutexes(Callers)
         /\ Unlock(l) \in RWMutexes(Callers)
         /\ Passed(l) \in RWMutexes(Callers)
  BY DEF RWMutexes, RLock, RUnlock, Announce, Lock, Unlock, Passed

\* A preparation starts from locals of the declared shape.
LEMMA FreshPrepType == \A probe \in BOOLEAN : FreshPrep(probe) \in Preps
  BY DEF FreshPrep, Preps, Contents

\* The frozen tree is a tree of contents.
LEMMA PristineType == Pristine \in [Paths -> Contents]
  BY DEF Pristine, Contents

\* The state Open leaves has the declared shape.
LEMMA TypeInit == Init => TypeOK
  <1> SUFFICES ASSUME Init PROVE TypeOK
    OBVIOUS
  <1>1. pc \in [Callers -> PCs]
    BY DEF Init, PCs, FreePCs
  <1>2. Unlocked \in RWMutexes(Callers)
    BY DEF Unlocked, RWMutexes
  <1>3. prep \in Preps
    BY FreshPrepType DEF Init
  <1> QED
    BY <1>1, <1>2, <1>3, PristineType, OptionsAssumption DEF Init, TypeOK, Directories

\* Workspace.Exec keeps the shape.
LEMMA TypeExec ==
  ASSUME TypeOK, NEW p \in Callers, ExecCall(p) \/ ExecStep(p)
  PROVE  TypeOK'
  <1> USE LockTypes DEF TypeOK
  <1> USE DEF PCs, MuReadPCs, FreePCs, Goto, flags, disk, closing
  <1>1. CASE ExecCall(p)    BY <1>1 DEF ExecCall
  <1>2. CASE ExecEnter(p)   BY <1>2 DEF ExecEnter
  <1>3. CASE ExecStart(p)   BY <1>3 DEF ExecStart
  <1>4. CASE ExecEnd(p)     BY <1>4 DEF ExecEnd
  <1>5. CASE ExecReturn(p)  BY <1>5 DEF ExecReturn
  <1> QED BY <1>1, <1>2, <1>3, <1>4, <1>5 DEF ExecStep

\* Reading one more path keeps the preparation's locals well typed.
LEMMA ReadTypes ==
  ASSUME NEW r \in Preps, NEW f \in Paths, NEW c \in Contents,
         NEW todo \in SUBSET Paths, NEW minted \in SUBSET Paths
  PROVE  /\ [r EXCEPT !.todo = todo, !.parsed[f] = c] \in Preps
         /\ [r EXCEPT !.todo = todo, !.scanned[f] = c, !.minted = minted] \in Preps
         /\ [r EXCEPT !.todo = todo, !.captured[f] = c] \in Preps
         /\ [r EXCEPT !.todo = todo, !.copied[f] = c] \in Preps
         /\ [r EXCEPT !.todo = todo, !.built[f] = c] \in Preps
         /\ [r EXCEPT !.todo = todo] \in Preps
  BY DEF Preps

\* Discovery and the probe copy keep the shape.
LEMMA TypeDiscover ==
  ASSUME TypeOK, NEW p \in Callers, DiscoverStep(p)
  PROVE  TypeOK'
  <1> USE LockTypes DEF TypeOK
  <1> USE DEF PCs, MuReadPCs, FreePCs, PreparePCs, DiscoveryPCs, Goto, flags, disk, closing
  <1>0. prep.todo \in SUBSET Paths /\ prep.minted \in SUBSET Paths
    BY DEF Preps
  <1>1. CASE DiscoverEnter(p)
    BY <1>1, ReadTypes DEF DiscoverEnter, Paths, Scannable, Manifest, Preps
  <1>2. CASE DiscoverParse(p)
    <2> PICK f \in prep.todo : prep' = [prep EXCEPT !.todo = @ \ {f}, !.parsed[f] = files[f]]
      BY <1>2 DEF DiscoverParse
    <2>1. prep' \in Preps
      BY <1>0, ReadTypes
    <2> QED BY <1>2, <2>1 DEF DiscoverParse
  <1>3. CASE DiscoverParsed(p)
    BY <1>3 DEF DiscoverParsed, Paths, Scannable, Manifest, Preps
  <1>4. CASE DiscoverScan(p)
    <2> PICK f \in prep.todo, mints \in BOOLEAN :
           prep' = [prep EXCEPT !.todo = @ \ {f}, !.scanned[f] = files[f],
                                !.minted = IF mints THEN @ \cup {f} ELSE @]
      BY <1>4 DEF DiscoverScan
    <2>1. prep' \in Preps
      BY <1>0, ReadTypes
    <2> QED BY <1>4, <2>1 DEF DiscoverScan
  <1>5. CASE DiscoverScanned(p)
    BY <1>5 DEF DiscoverScanned, Preps
  <1>6. CASE DiscoverCapture(p)
    <2> PICK f \in prep.todo : prep' = [prep EXCEPT !.todo = @ \ {f}, !.captured[f] = files[f]]
      BY <1>6 DEF DiscoverCapture
    <2>1. prep' \in Preps
      BY <1>0, ReadTypes
    <2> QED BY <1>6, <2>1 DEF DiscoverCapture
  <1>7. CASE DiscoverEnd(p)
    BY <1>7 DEF DiscoverEnd
  <1>8. CASE ProbeEnter(p)
    BY <1>8 DEF ProbeEnter, Directories, Preps
  <1>9. CASE ProbeCopy(p)
    <2> PICK f \in prep.todo : prep' = [prep EXCEPT !.todo = @ \ {f}, !.copied[f] = files[f]]
      BY <1>9 DEF ProbeCopy
    <2>1. prep' \in Preps
      BY <1>0, ReadTypes
    <2> QED BY <1>9, <2>1 DEF ProbeCopy
  <1>10. CASE ProbeEnd(p)
    BY <1>10 DEF ProbeEnd
  <1>11. CASE ReadPhaseFail(p)
    BY <1>11 DEF ReadPhaseFail
  <1> QED BY <1>1, <1>2, <1>3, <1>4, <1>5, <1>6, <1>7, <1>8, <1>9, <1>10, <1>11
          DEF DiscoverStep

\* The instrumentation window keeps the shape.
LEMMA TypeWindow ==
  ASSUME TypeOK, NEW p \in Callers, WindowStep(p)
  PROVE  TypeOK'
  <1> USE LockTypes DEF TypeOK
  <1> USE DEF PCs, MuReadPCs, FreePCs, PreparePCs, DiscoveryPCs, WindowPCs, Goto,
              flags, disk, closing
  <1>1. CASE WindowAnnounce(p)
    BY <1>1 DEF WindowAnnounce
  <1>2. CASE WindowEnter(p)
    BY <1>2 DEF WindowEnter
  <1>3. CASE WindowGate(p)
    BY <1>3 DEF WindowGate
  <1>4. CASE WindowFreeze(p)
    <2>1. prep' \in Preps
      BY <1>4 DEF WindowFreeze, Preps, Contents
    <2> QED BY <1>4, <2>1 DEF WindowFreeze, Directories
  <1>5. CASE WindowValidate(p)
    BY <1>5 DEF WindowValidate, Contents
  <1>6. CASE WindowRestore(p)
    <2>1. files' \in [Paths -> Contents]
      BY <1>6 DEF WindowRestore, Preps
    <2>2. prepareFailed' \in BOOLEAN
      BY <1>6 DEF WindowRestore
    <2>3. pc' \in [Callers -> PCs]
      BY <1>6 DEF WindowRestore
    <2> QED BY <1>6, <2>1, <2>2, <2>3 DEF WindowRestore
  <1>7. CASE WindowUnlock(p)
    BY <1>7 DEF WindowUnlock
  <1>8. CASE WindowFail(p)
    BY <1>8 DEF WindowFail
  <1>9. CASE WindowFailUnlock(p)
    BY <1>9 DEF WindowFailUnlock
  <1> QED BY <1>1, <1>2, <1>3, <1>4, <1>5, <1>6, <1>7, <1>8, <1>9 DEF WindowStep

\* The rest of Workspace.Prepare keeps the shape.
LEMMA TypePrepare ==
  ASSUME TypeOK, NEW p \in Callers, PrepareCall(p) \/ PrepareStep(p)
  PROVE  TypeOK'
  <1> USE LockTypes DEF TypeOK
  <1> USE DEF PCs, MuReadPCs, FreePCs, PreparePCs, Goto, flags, disk, closing
  <1>1. CASE PrepareCall(p)
    BY <1>1 DEF PrepareCall
  <1>2. CASE PrepareBegin(p)
    BY <1>2 DEF PrepareBegin
  <1>3. CASE PrepareAbandon(p)
    BY <1>3 DEF PrepareAbandon
  <1>4. CASE PrepareSpend(p)
    BY <1>4, FreshPrepType DEF PrepareSpend
  <1>5. CASE VerifyEnter(p)
    BY <1>5 DEF VerifyEnter
  <1>6. CASE VerifyEnd(p)
    BY <1>6 DEF VerifyEnd, Preps
  <1>7. CASE VerifySkip(p)
    BY <1>7 DEF VerifySkip, Preps
  <1>8. CASE BuildRead(p)
    <2> PICK f \in prep.todo : prep' = [prep EXCEPT !.todo = @ \ {f}, !.built[f] = Overlaid(f)]
      BY <1>8 DEF BuildRead
    <2>1. f \in Paths /\ prep.todo \ {f} \in SUBSET Paths /\ prep.minted \in SUBSET Paths
      BY DEF Preps
    <2>2. Overlaid(f) \in Contents
      BY <2>1 DEF Overlaid, Preps, Contents
    <2>3. prep' \in Preps
      BY <2>1, <2>2, ReadTypes
    <2> QED BY <1>8, <2>3 DEF BuildRead
  <1>9. CASE BuildFail(p)
    BY <1>9 DEF BuildFail
  <1>10. CASE PublishSession(p)
    BY <1>10 DEF PublishSession
  <1>11. CASE PrepareFail(p)
    BY <1>11, FreshPrepType DEF PrepareFail
  <1> QED BY <1>1, <1>2, <1>3, <1>4, <1>5, <1>6, <1>7, <1>8, <1>9, <1>10, <1>11,
             TypeDiscover, TypeWindow DEF PrepareStep

\* Session calls keep the shape.
LEMMA TypeSession ==
  ASSUME TypeOK, NEW p \in Callers, SessionCall(p) \/ SessionStep(p)
  PROVE  TypeOK'
  <1> USE LockTypes DEF TypeOK
  <1> USE DEF PCs, FreePCs, SmuPendingPCs, Goto, flags, disk, closing
  <1>1. CASE SessionCall(p)      BY <1>1 DEF SessionCall
  <1>2. CASE SessionEnter(p)     BY <1>2 DEF SessionEnter
  <1>3. CASE SessionEnd(p)       BY <1>3 DEF SessionEnd
  <1>4. CASE SessionAnnounce(p)  BY <1>4 DEF SessionAnnounce
  <1>5. CASE ChangesEnter(p)     BY <1>5 DEF ChangesEnter
  <1>6. CASE ChangesEnd(p)       BY <1>6 DEF ChangesEnd
  <1>7. CASE SessionClose(p)
    BY <1>7 DEF SessionClose, SessionCloses, KeepOrRemove
  <1> QED BY <1>1, <1>2, <1>3, <1>4, <1>5, <1>6, <1>7 DEF SessionStep

\* Workspace.Close keeps the shape.
LEMMA TypeClose ==
  ASSUME TypeOK, NEW p \in Callers, CloseCall(p) \/ CloseStep(p)
  PROVE  TypeOK'
  <1> USE LockTypes DEF TypeOK
  <1> USE DEF PCs, FreePCs, MuPendingPCs, SmuPendingPCs, Goto, flags, disk, closing
  <1>1. CASE CloseCall(p)      BY <1>1 DEF CloseCall
  <1>2. CASE CloseAnnounce(p)  BY <1>2 DEF CloseAnnounce
  <1>3. CASE CloseClaim(p)     BY <1>3 DEF CloseClaim
  <1>4. CASE CloseSession(p)
    BY <1>4 DEF CloseSession, SessionCloses, KeepOrRemove
  <1>5. CASE CloseRemove(p)
    <2>1. dirs' \in SUBSET Directories /\ failing' \in BOOLEAN
      BY <1>5 DEF CloseRemove, KeepOrRemove
    <2>2. reported' \in SUBSET Directories
      BY <1>5 DEF CloseRemove, Directories
    <2> QED BY <1>5, <2>1, <2>2 DEF CloseRemove
  <1>6. CASE ClosePublish(p)   BY <1>6 DEF ClosePublish
  <1>7. CASE CloseJoin(p)      BY <1>7 DEF CloseJoin
  <1>8. CASE CloseRejoin(p)    BY <1>8 DEF CloseRejoin
  <1> QED BY <1>1, <1>2, <1>3, <1>4, <1>5, <1>6, <1>7, <1>8 DEF CloseStep

\* Every step keeps the declared shape.
LEMMA TypeStep == TypeOK /\ [Next]_vars => TypeOK'
  <1> SUFFICES ASSUME TypeOK, [Next]_vars PROVE TypeOK'
    OBVIOUS
  <1>1. CASE UNCHANGED vars
    BY <1>1 DEF vars, TypeOK
  <1>2. ASSUME NEW p \in Callers, ChildWrite(p) PROVE TypeOK'
    BY <1>2 DEF ChildWrite, TypeOK, Writable, Written, Contents, flags, closing
  <1>3. ASSUME NEW p \in Callers, Begin(p) \/ Progress(p) PROVE TypeOK'
    BY <1>3, TypeExec, TypePrepare, TypeSession, TypeClose DEF Begin, Progress
  <1> QED BY <1>1, <1>2, <1>3 DEF Next

\* Whatever the callers do, the state keeps the shape TypeOK declares.
THEOREM TypeCorrect == Spec => []TypeOK
  BY TypeInit, TypeStep, PTL DEF Spec

-----------------------------------------------------------------------------
(* Safety: the inductive invariant ties each lock to the program counters of *)
(* its holders.                                                              *)

\* A lock is held for reading, held for writing and waited for by exactly the
\* callers whose program counters are in R, W and P, and its writer is alone.
Guards(l, R, W, P) ==
  /\ l.readers = {p \in Callers : pc[p] \in R}
  /\ \A p \in Callers : (pc[p] \in W) <=> (l.writer = p)
  /\ \A p \in Callers : (pc[p] \in P) <=> (l.pending = p)
  /\ l.writer # Nobody => l.readers = {}
  /\ l.pending # Nobody => l.writer = Nobody

TreeInv == Guards(tree, TreeReadPCs, WindowPCs, {"win_wait"})
MuInv == Guards(mu, MuReadPCs, {}, MuPendingPCs)
SmuInv == Guards(smu, {"sess_run"}, {"chg_scan"}, SmuPendingPCs)

\* Callers that hold a session object.
SessionPCs == {"sess_mu", "sess_run", "chg_mu", "chg_wait", "chg_scan", "scl_mu", "scl_wait",
               "close_sess", "close_sess_wait"}

\* One preparation at a time, none beside or after a session, and the failure
\* of the only one published from the moment its window gives up.
PrepInv ==
  /\ \A p, q \in Callers : pc[p] \in PreparePCs /\ pc[q] \in PreparePCs => p = q
  /\ \A p \in Callers : pc[p] \in PreparePCs => prepareStarted /\ sess = "none"
  /\ \A p \in Callers : pc[p] \in PreparePCs \ {"win_failed", "prep_fail"} => ~prepareFailed
  /\ prepareFailed => prepareStarted
  /\ sess # "none" => prepareStarted /\ ~prepareFailed
  /\ attached => sess # "none"
  /\ \A p \in Callers : pc[p] \in SessionPCs => sess # "none"

\* Instrumented source is in the tree only while the window that put it there
\* has yet to restore it, or for good once the preparation has failed.
InstrInv ==
  (\E f \in Paths : files[f] = "instrumented") =>
     prepareFailed \/ \E p \in Callers : pc[p] = "win_restore"

WindowIInv == TypeOK /\ TreeInv /\ PrepInv /\ InstrInv /\ NoChildSeesInstrumentation

\* Callers inside the first Close, from its claim to its verdict.
ClosingPCs == {"close_sess", "close_sess_wait", "close_rm", "close_pub", "close_pub_wait"}

\* One Close does the work; nobody is inside mu once it has claimed the
\* workspace; an open session is attached, or still ahead of that Close.
CloseInv ==
  /\ \A p, q \in Callers : pc[p] \in ClosingPCs /\ pc[q] \in ClosingPCs => p = q
  /\ \A p \in Callers : pc[p] \in ClosingPCs => closed /\ closeErr = "unset"
  /\ closeErr # "unset" => closed
  /\ \A p \in Callers : pc[p] \in {"sess_run", "chg_scan"} => sess = "open"
  /\ closed => \A p \in Callers : pc[p] \notin MuReadPCs
  /\ sess # "none" /\ ~closed => attached
  /\ sess = "open" /\ closed => \E p \in Callers : pc[p] \in {"close_sess", "close_sess_wait"}

\* What exists while it can still be used.
DirsInv ==
  /\ ~closed \/ sess = "open" => {"snapshot", "scratch"} \subseteq dirs
  /\ sess = "open" => "session" \in dirs
  /\ \A p \in Callers :
       pc[p] \in {"win_validate", "win_restore", "win_restored", "prep_verifying",
                  "prep_verify", "prep_build"} => "session" \in dirs

\* A Close that has an answer to repeat repeats the one that was published.
AnswerInv ==
  /\ answers \subseteq {closeErr} \ {"unset"}
  /\ \A p \in Callers : pc[p] \in {"close_rejoin", "close_rejoin_wait"} => closeErr # "unset"

\* What is left without KeepTemp was reported: the session's directories once
\* nobody prepares and no session is open, everything once Close has removed.
LeftoverInv ==
  ~keep =>
    /\ sess # "open" /\ (\A p \in Callers : pc[p] \in PreparePCs => pc[p] = "prep_begun")
         => dirs \cap {"session", "probe"} \subseteq reported
    /\ \A p \in Callers : pc[p] \in {"close_pub", "close_pub_wait"} => dirs \subseteq reported
    /\ closeErr # "unset" => dirs \subseteq reported

SafetyInv ==
  /\ WindowIInv
  /\ MuInv /\ SmuInv
  /\ CloseInv /\ DirsInv /\ AnswerInv
  /\ LeftoverInv /\ KeepTempKeeps

\* Where a preparation is before its window, and where its failure takes it.
BeforeWindowPCs == DiscoveryPCs \cup {"prep_discover", "prep_probe", "prep_copy", "prep_window",
                                      "prep_fail"}

\* A step of discovery or of the probe copy moves its own caller only, and
\* touches the tree lock, the preparation's locals and the probe directory.
LEMMA DiscoverFrame ==
  ASSUME TypeOK, NEW p \in Callers, DiscoverStep(p)
  PROVE  /\ pc[p] \in (BeforeWindowPCs \ {"prep_fail"}) \cup {"prep_verify"}
         /\ \E to \in BeforeWindowPCs : pc' = [pc EXCEPT ![p] = to]
         /\ UNCHANGED <<mu, smu, closed, prepareStarted, prepareFailed, attached, sess,
                        files, keep, failing, closeErr, answers, reported>>
         /\ dirs \subseteq dirs'
  <1> USE DEF TypeOK, BeforeWindowPCs, DiscoveryPCs, Goto, flags, disk, closing
  <1>1. CASE DiscoverEnter(p)  BY <1>1 DEF DiscoverEnter
  <1>2. CASE DiscoverParse(p)  BY <1>2 DEF DiscoverParse
  <1>3. CASE DiscoverParsed(p) BY <1>3 DEF DiscoverParsed
  <1>4. CASE DiscoverScan(p)   BY <1>4 DEF DiscoverScan
  <1>5. CASE DiscoverScanned(p) BY <1>5 DEF DiscoverScanned
  <1>6. CASE DiscoverCapture(p) BY <1>6 DEF DiscoverCapture
  <1>7. CASE DiscoverEnd(p)    BY <1>7 DEF DiscoverEnd
  <1>8. CASE ProbeEnter(p)     BY <1>8 DEF ProbeEnter
  <1>9. CASE ProbeCopy(p)      BY <1>9 DEF ProbeCopy
  <1>10. CASE ProbeEnd(p)       BY <1>10 DEF ProbeEnd
  <1>11. CASE ReadPhaseFail(p)  BY <1>11 DEF ReadPhaseFail
  <1> QED BY <1>1, <1>2, <1>3, <1>4, <1>5, <1>6, <1>7, <1>8, <1>9, <1>10, <1>11 DEF DiscoverStep

\* Every step preserves TreeInv: a caller moves exactly as the lock lets it.
LEMMA TreeStep ==
  ASSUME TypeOK, TreeInv, NEW p \in Callers, Begin(p) \/ Progress(p) \/ ChildWrite(p)
  PROVE  TreeInv'
  <1> USE CallersAssumption DEF TypeOK, TreeInv, Guards, Goto, RWMutexes
  <1> USE DEF RLock, RUnlock, Announce, Lock, Unlock, Passed, CanRLock, CanAnnounce, CanLock
  <1> USE DEF MuReadPCs, MuPendingPCs, SmuPendingPCs, TreeReadPCs, WindowPCs, DiscoveryPCs, PreparePCs
  <1> USE DEF flags, disk, closing
  <1>1. CASE ExecCall(p) \/ ExecStep(p)
    BY <1>1 DEF ExecStep, ExecCall, ExecEnter, ExecStart, ExecEnd, ExecReturn
  <1>2. CASE DiscoverEnter(p)    BY <1>2 DEF DiscoverEnter
  <1>3. CASE DiscoverParse(p)    BY <1>3 DEF DiscoverParse
  <1>4. CASE DiscoverParsed(p)   BY <1>4 DEF DiscoverParsed
  <1>5. CASE DiscoverScan(p)     BY <1>5 DEF DiscoverScan
  <1>6. CASE DiscoverScanned(p)  BY <1>6 DEF DiscoverScanned
  <1>7. CASE DiscoverCapture(p)  BY <1>7 DEF DiscoverCapture
  <1>8. CASE DiscoverEnd(p)      BY <1>8 DEF DiscoverEnd
  <1>9. CASE ProbeEnter(p)       BY <1>9 DEF ProbeEnter
  <1>10. CASE ProbeCopy(p)        BY <1>10 DEF ProbeCopy
  <1>11. CASE ProbeEnd(p)         BY <1>11 DEF ProbeEnd
  <1>12. CASE ReadPhaseFail(p)    BY <1>12 DEF ReadPhaseFail
  <1>13. CASE WindowAnnounce(p)   BY <1>13 DEF WindowAnnounce
  <1>14. CASE WindowEnter(p)      BY <1>14 DEF WindowEnter
  <1>15. CASE WindowGate(p)       BY <1>15 DEF WindowGate
  <1>16. CASE WindowFreeze(p)     BY <1>16 DEF WindowFreeze
  <1>17. CASE WindowValidate(p)   BY <1>17 DEF WindowValidate
  <1>18. CASE WindowRestore(p)    BY <1>18 DEF WindowRestore
  <1>19. CASE WindowUnlock(p)     BY <1>19 DEF WindowUnlock
  <1>20. CASE WindowFail(p)       BY <1>20 DEF WindowFail
  <1>21. CASE WindowFailUnlock(p) BY <1>21 DEF WindowFailUnlock
  <1>22. CASE PrepareCall(p)      BY <1>22 DEF PrepareCall
  <1>23. CASE PrepareBegin(p)     BY <1>23 DEF PrepareBegin
  <1>24. CASE PrepareAbandon(p)   BY <1>24 DEF PrepareAbandon
  <1>25. CASE PrepareSpend(p)     BY <1>25 DEF PrepareSpend
  <1>26. CASE VerifyEnter(p)      BY <1>26 DEF VerifyEnter
  <1>27. CASE VerifyEnd(p)        BY <1>27 DEF VerifyEnd
  <1>28. CASE VerifySkip(p)       BY <1>28 DEF VerifySkip
  <1>29. CASE BuildRead(p)        BY <1>29 DEF BuildRead
  <1>30. CASE BuildFail(p)        BY <1>30 DEF BuildFail
  <1>31. CASE PublishSession(p)   BY <1>31 DEF PublishSession
  <1>32. CASE PrepareFail(p)      BY <1>32 DEF PrepareFail
  <1>33. CASE SessionCall(p) \/ SessionStep(p)
    BY <1>33 DEF SessionStep, SessionCall, SessionEnter, SessionEnd, SessionAnnounce,
             ChangesEnter, ChangesEnd, SessionClose
  <1>34. CASE CloseCall(p) \/ CloseStep(p)
    BY <1>34 DEF CloseStep, CloseCall, CloseAnnounce, CloseClaim, CloseSession,
             CloseRemove, ClosePublish, CloseJoin, CloseRejoin
  <1>35. CASE ChildWrite(p)
    BY <1>35 DEF ChildWrite
  <1> QED
    BY <1>1, <1>2, <1>3, <1>4, <1>5, <1>6, <1>7, <1>8, <1>9, <1>10, <1>11,
         <1>12, <1>13, <1>14, <1>15, <1>16, <1>17, <1>18, <1>19,
         <1>20, <1>21, <1>22, <1>23, <1>24, <1>25, <1>26, <1>27,
         <1>28, <1>29, <1>30, <1>31, <1>32, <1>33, <1>34, <1>35
    DEF Begin, Progress, PrepareStep, DiscoverStep, WindowStep

\* Every step preserves MuInv: a caller moves exactly as the lock lets it.
LEMMA MuStep ==
  ASSUME TypeOK, MuInv, NEW p \in Callers, Begin(p) \/ Progress(p) \/ ChildWrite(p)
  PROVE  MuInv'
  <1> USE CallersAssumption DEF TypeOK, MuInv, Guards, Goto, RWMutexes
  <1> USE DEF RLock, RUnlock, Announce, Lock, Unlock, Passed, CanRLock, CanAnnounce, CanLock
  <1> USE DEF MuReadPCs, MuPendingPCs, SmuPendingPCs, TreeReadPCs, WindowPCs, DiscoveryPCs, PreparePCs
  <1> USE DEF flags, disk, closing
  <1>1. CASE ExecCall(p) \/ ExecStep(p)
    BY <1>1 DEF ExecStep, ExecCall, ExecEnter, ExecStart, ExecEnd, ExecReturn
  <1>2. CASE DiscoverStep(p)
    BY <1>2, DiscoverFrame DEF BeforeWindowPCs
  <1>3. CASE WindowStep(p)
    BY <1>3 DEF WindowStep, WindowAnnounce, WindowEnter, WindowGate, WindowFreeze,
             WindowValidate, WindowRestore, WindowUnlock, WindowFail, WindowFailUnlock
  <1>4. CASE PrepareCall(p)      BY <1>4 DEF PrepareCall
  <1>5. CASE PrepareBegin(p)     BY <1>5 DEF PrepareBegin
  <1>6. CASE PrepareAbandon(p)   BY <1>6 DEF PrepareAbandon
  <1>7. CASE PrepareSpend(p)     BY <1>7 DEF PrepareSpend
  <1>8. CASE VerifyEnter(p)      BY <1>8 DEF VerifyEnter
  <1>9. CASE VerifyEnd(p)        BY <1>9 DEF VerifyEnd
  <1>10. CASE VerifySkip(p)       BY <1>10 DEF VerifySkip
  <1>11. CASE BuildRead(p)        BY <1>11 DEF BuildRead
  <1>12. CASE BuildFail(p)        BY <1>12 DEF BuildFail
  <1>13. CASE PublishSession(p)   BY <1>13 DEF PublishSession
  <1>14. CASE PrepareFail(p)      BY <1>14 DEF PrepareFail
  <1>15. CASE SessionCall(p) \/ SessionStep(p)
    BY <1>15 DEF SessionStep, SessionCall, SessionEnter, SessionEnd, SessionAnnounce,
             ChangesEnter, ChangesEnd, SessionClose
  <1>16. CASE CloseCall(p) \/ CloseStep(p)
    BY <1>16 DEF CloseStep, CloseCall, CloseAnnounce, CloseClaim, CloseSession,
             CloseRemove, ClosePublish, CloseJoin, CloseRejoin
  <1>17. CASE ChildWrite(p)
    BY <1>17 DEF ChildWrite
  <1> QED
    BY <1>1, <1>2, <1>3, <1>4, <1>5, <1>6, <1>7, <1>8, <1>9, <1>10, <1>11,
         <1>12, <1>13, <1>14, <1>15, <1>16, <1>17
    DEF Begin, Progress, PrepareStep

\* Every step preserves SmuInv: a caller moves exactly as the lock lets it.
LEMMA SmuStep ==
  ASSUME TypeOK, SmuInv, NEW p \in Callers, Begin(p) \/ Progress(p) \/ ChildWrite(p)
  PROVE  SmuInv'
  <1> USE CallersAssumption DEF TypeOK, SmuInv, Guards, Goto, RWMutexes
  <1> USE DEF RLock, RUnlock, Announce, Lock, Unlock, Passed, CanRLock, CanAnnounce, CanLock
  <1> USE DEF MuReadPCs, MuPendingPCs, SmuPendingPCs, TreeReadPCs, WindowPCs, DiscoveryPCs, PreparePCs
  <1> USE DEF flags, disk, closing
  <1>1. CASE ExecCall(p) \/ ExecStep(p)
    BY <1>1 DEF ExecStep, ExecCall, ExecEnter, ExecStart, ExecEnd, ExecReturn
  <1>2. CASE DiscoverStep(p)
    BY <1>2, DiscoverFrame DEF BeforeWindowPCs
  <1>3. CASE WindowStep(p)
    BY <1>3 DEF WindowStep, WindowAnnounce, WindowEnter, WindowGate, WindowFreeze,
             WindowValidate, WindowRestore, WindowUnlock, WindowFail, WindowFailUnlock
  <1>4. CASE PrepareCall(p)      BY <1>4 DEF PrepareCall
  <1>5. CASE PrepareBegin(p)     BY <1>5 DEF PrepareBegin
  <1>6. CASE PrepareAbandon(p)   BY <1>6 DEF PrepareAbandon
  <1>7. CASE PrepareSpend(p)     BY <1>7 DEF PrepareSpend
  <1>8. CASE VerifyEnter(p)      BY <1>8 DEF VerifyEnter
  <1>9. CASE VerifyEnd(p)        BY <1>9 DEF VerifyEnd
  <1>10. CASE VerifySkip(p)       BY <1>10 DEF VerifySkip
  <1>11. CASE BuildRead(p)        BY <1>11 DEF BuildRead
  <1>12. CASE BuildFail(p)        BY <1>12 DEF BuildFail
  <1>13. CASE PublishSession(p)   BY <1>13 DEF PublishSession
  <1>14. CASE PrepareFail(p)      BY <1>14 DEF PrepareFail
  <1>15. CASE SessionCall(p)      BY <1>15 DEF SessionCall
  <1>16. CASE SessionEnter(p)     BY <1>16 DEF SessionEnter
  <1>17. CASE SessionEnd(p)       BY <1>17 DEF SessionEnd
  <1>18. CASE SessionAnnounce(p)  BY <1>18 DEF SessionAnnounce
  <1>19. CASE ChangesEnter(p)
    <2>1. CASE sess = "open"
      <3>1. pc' = [pc EXCEPT ![p] = "chg_scan"] /\ pc[p] = "chg_wait" /\ smu.pending = p
            /\ smu.readers = {} /\ smu' = [smu EXCEPT !.writer = p, !.pending = Nobody]
        BY <1>19, <2>1 DEF ChangesEnter
      <3>2. smu.writer = Nobody
        BY <3>1
      <3>3. smu'.readers = {q \in Callers : pc'[q] \in {"sess_run"}}
        BY <3>1
      <3>4. smu'.writer = p /\ smu'.pending = Nobody /\ smu'.readers = {}
        BY <3>1
      <3>5. \A q \in Callers : (pc'[q] \in {"chg_scan"}) <=> (smu'.writer = q)
        BY <3>1, <3>2, <3>4
      <3>6. \A q \in Callers : (pc'[q] \in SmuPendingPCs) <=> (smu'.pending = q)
        BY <3>1, <3>4
      <3> QED BY <3>3, <3>4, <3>5, <3>6
    <2>2. CASE sess = "closed"  BY <1>19, <2>2 DEF ChangesEnter
    <2> QED BY <1>19, <2>1, <2>2 DEF ChangesEnter
  <1>20. CASE ChangesEnd(p)       BY <1>20 DEF ChangesEnd
  <1>21. CASE SessionClose(p)     BY <1>21 DEF SessionClose
  <1>22. CASE CloseCall(p) \/ CloseStep(p)
    BY <1>22 DEF CloseStep, CloseCall, CloseAnnounce, CloseClaim, CloseSession,
             CloseRemove, ClosePublish, CloseJoin, CloseRejoin
  <1>23. CASE ChildWrite(p)
    BY <1>23 DEF ChildWrite
  <1> QED
    BY <1>1, <1>2, <1>3, <1>4, <1>5, <1>6, <1>7, <1>8, <1>9, <1>10, <1>11,
         <1>12, <1>13, <1>14, <1>15, <1>16, <1>17, <1>18, <1>19,
         <1>20, <1>21, <1>22, <1>23
    DEF Begin, Progress, PrepareStep, SessionStep

\* Every step preserves the invariant on preparations.
LEMMA PrepStep ==
  ASSUME TypeOK, PrepInv, NEW p \in Callers, Begin(p) \/ Progress(p) \/ ChildWrite(p)
  PROVE  PrepInv'
  <1> USE DEF TypeOK, PrepInv, SessionPCs, Goto
  <1> USE DEF MuReadPCs, MuPendingPCs, SmuPendingPCs, TreeReadPCs, WindowPCs, DiscoveryPCs, PreparePCs
  <1> USE DEF flags, disk, closing
  <1>1. CASE ExecCall(p) \/ ExecStep(p)
    BY <1>1 DEF ExecStep, ExecCall, ExecEnter, ExecStart, ExecEnd, ExecReturn
  <1>2. CASE DiscoverStep(p)
    BY <1>2, DiscoverFrame DEF BeforeWindowPCs
  <1>3. CASE WindowStep(p)
    BY <1>3 DEF WindowStep, WindowAnnounce, WindowEnter, WindowGate, WindowFreeze,
             WindowValidate, WindowRestore, WindowUnlock, WindowFail, WindowFailUnlock
  <1>4. CASE PrepareCall(p)      BY <1>4 DEF PrepareCall
  <1>5. CASE PrepareBegin(p)     BY <1>5 DEF PrepareBegin
  <1>6. CASE PrepareAbandon(p)   BY <1>6 DEF PrepareAbandon
  <1>7. CASE PrepareSpend(p)     BY <1>7 DEF PrepareSpend
  <1>8. CASE VerifyEnter(p)      BY <1>8 DEF VerifyEnter
  <1>9. CASE VerifyEnd(p)        BY <1>9 DEF VerifyEnd
  <1>10. CASE VerifySkip(p)       BY <1>10 DEF VerifySkip
  <1>11. CASE BuildRead(p)        BY <1>11 DEF BuildRead
  <1>12. CASE BuildFail(p)        BY <1>12 DEF BuildFail
  <1>13. CASE PublishSession(p)   BY <1>13 DEF PublishSession
  <1>14. CASE PrepareFail(p)      BY <1>14 DEF PrepareFail
  <1>15. CASE SessionCall(p) \/ SessionStep(p)
    BY <1>15 DEF SessionStep, SessionCall, SessionEnter, SessionEnd, SessionAnnounce,
             ChangesEnter, ChangesEnd, SessionClose, SessionCloses
  <1>16. CASE CloseCall(p) \/ CloseStep(p)
    BY <1>16 DEF CloseStep, CloseCall, CloseAnnounce, CloseClaim, CloseSession,
             CloseRemove, ClosePublish, CloseJoin, CloseRejoin, SessionCloses
  <1>17. CASE ChildWrite(p)
    BY <1>17 DEF ChildWrite
  <1> QED
    BY <1>1, <1>2, <1>3, <1>4, <1>5, <1>6, <1>7, <1>8, <1>9, <1>10, <1>11,
         <1>12, <1>13, <1>14, <1>15, <1>16, <1>17
    DEF Begin, Progress, PrepareStep

\* Every step preserves the invariant on instrumented source.
LEMMA InstrStep ==
  ASSUME WindowIInv, NEW p \in Callers, Begin(p) \/ Progress(p) \/ ChildWrite(p)
  PROVE  InstrInv'
  <1> USE DEF WindowIInv, TypeOK, InstrInv, Goto
  <1> USE DEF MuReadPCs, MuPendingPCs, SmuPendingPCs, TreeReadPCs, WindowPCs, DiscoveryPCs, PreparePCs
  <1> USE DEF flags, disk, closing
  <1>1. CASE ExecCall(p) \/ ExecStep(p)
    BY <1>1 DEF ExecStep, ExecCall, ExecEnter, ExecStart, ExecEnd, ExecReturn
  <1>2. CASE DiscoverStep(p)
    BY <1>2, DiscoverFrame DEF BeforeWindowPCs
  <1>3. CASE WindowStep(p)
    BY <1>3 DEF WindowStep, WindowAnnounce, WindowEnter, WindowGate, WindowFreeze,
             WindowValidate, WindowRestore, WindowUnlock, WindowFail,
             WindowFailUnlock, Pristine
  <1>4. CASE PrepareCall(p)      BY <1>4 DEF PrepareCall
  <1>5. CASE PrepareBegin(p)     BY <1>5 DEF PrepareBegin
  <1>6. CASE PrepareAbandon(p)   BY <1>6 DEF PrepareAbandon
  <1>7. CASE PrepareSpend(p)     BY <1>7 DEF PrepareSpend
  <1>8. CASE VerifyEnter(p)      BY <1>8 DEF VerifyEnter
  <1>9. CASE VerifyEnd(p)        BY <1>9 DEF VerifyEnd
  <1>10. CASE VerifySkip(p)       BY <1>10 DEF VerifySkip
  <1>11. CASE BuildRead(p)        BY <1>11 DEF BuildRead
  <1>12. CASE BuildFail(p)        BY <1>12 DEF BuildFail
  <1>13. CASE PublishSession(p)   BY <1>13 DEF PublishSession
  <1>14. CASE PrepareFail(p)      BY <1>14 DEF PrepareFail
  <1>15. CASE SessionCall(p) \/ SessionStep(p)
    BY <1>15 DEF SessionStep, SessionCall, SessionEnter, SessionEnd, SessionAnnounce,
             ChangesEnter, ChangesEnd, SessionClose
  <1>16. CASE CloseCall(p) \/ CloseStep(p)
    BY <1>16 DEF CloseStep, CloseCall, CloseAnnounce, CloseClaim, CloseSession,
             CloseRemove, ClosePublish, CloseJoin, CloseRejoin
  <1>17. CASE ChildWrite(p)
    BY <1>17 DEF ChildWrite, Writable, Written
  <1> QED
    BY <1>1, <1>2, <1>3, <1>4, <1>5, <1>6, <1>7, <1>8, <1>9, <1>10, <1>11,
         <1>12, <1>13, <1>14, <1>15, <1>16, <1>17
    DEF Begin, Progress, PrepareStep

\* Every step preserves the privacy of the window: a command enters only where no
\* window is open and none has failed.
LEMMA NoChildStep ==
  ASSUME WindowIInv, NEW p \in Callers, Begin(p) \/ Progress(p) \/ ChildWrite(p)
  PROVE  NoChildSeesInstrumentation'
  <1> USE CallersAssumption DEF WindowIInv, TypeOK, TreeInv, Guards, PrepInv, SessionPCs, InstrInv,
              NoChildSeesInstrumentation, Goto
  <1> USE DEF RLock, RUnlock, Announce, Lock, Unlock, Passed, CanRLock, CanAnnounce, CanLock
  <1> USE DEF MuReadPCs, MuPendingPCs, SmuPendingPCs, TreeReadPCs, WindowPCs, DiscoveryPCs, PreparePCs
  <1> USE DEF flags, disk, closing
  <1>1. CASE ExecCall(p) \/ ExecStep(p)
    BY <1>1 DEF ExecStep, ExecCall, ExecEnter, ExecStart, ExecEnd, ExecReturn, Allowed
  <1>2. CASE DiscoverEnter(p)    BY <1>2 DEF DiscoverEnter
  <1>3. CASE DiscoverParse(p)    BY <1>3 DEF DiscoverParse
  <1>4. CASE DiscoverParsed(p)   BY <1>4 DEF DiscoverParsed
  <1>5. CASE DiscoverScan(p)     BY <1>5 DEF DiscoverScan
  <1>6. CASE DiscoverScanned(p)  BY <1>6 DEF DiscoverScanned
  <1>7. CASE DiscoverCapture(p)  BY <1>7 DEF DiscoverCapture
  <1>8. CASE DiscoverEnd(p)      BY <1>8 DEF DiscoverEnd
  <1>9. CASE ProbeEnter(p)       BY <1>9 DEF ProbeEnter
  <1>10. CASE ProbeCopy(p)        BY <1>10 DEF ProbeCopy
  <1>11. CASE ProbeEnd(p)         BY <1>11 DEF ProbeEnd
  <1>12. CASE ReadPhaseFail(p)    BY <1>12 DEF ReadPhaseFail
  <1>13. CASE WindowStep(p)
    BY <1>13 DEF WindowStep, WindowAnnounce, WindowEnter, WindowGate, WindowFreeze,
             WindowValidate, WindowRestore, WindowUnlock, WindowFail, WindowFailUnlock
  <1>14. CASE PrepareCall(p)      BY <1>14 DEF PrepareCall
  <1>15. CASE PrepareBegin(p)     BY <1>15 DEF PrepareBegin
  <1>16. CASE PrepareAbandon(p)   BY <1>16 DEF PrepareAbandon
  <1>17. CASE PrepareSpend(p)     BY <1>17 DEF PrepareSpend
  <1>18. CASE VerifyEnter(p)      BY <1>18 DEF VerifyEnter
  <1>19. CASE VerifyEnd(p)        BY <1>19 DEF VerifyEnd
  <1>20. CASE VerifySkip(p)       BY <1>20 DEF VerifySkip
  <1>21. CASE BuildRead(p)        BY <1>21 DEF BuildRead
  <1>22. CASE BuildFail(p)        BY <1>22 DEF BuildFail
  <1>23. CASE PublishSession(p)   BY <1>23 DEF PublishSession
  <1>24. CASE PrepareFail(p)      BY <1>24 DEF PrepareFail
  <1>25. CASE SessionCall(p) \/ SessionStep(p)
    BY <1>25 DEF SessionStep, SessionCall, SessionEnter, SessionEnd, SessionAnnounce,
             ChangesEnter, ChangesEnd, SessionClose
  <1>26. CASE CloseCall(p) \/ CloseStep(p)
    BY <1>26 DEF CloseStep, CloseCall, CloseAnnounce, CloseClaim, CloseSession,
             CloseRemove, ClosePublish, CloseJoin, CloseRejoin
  <1>27. CASE ChildWrite(p)
    BY <1>27 DEF ChildWrite, Writable, Written
  <1> QED
    BY <1>1, <1>2, <1>3, <1>4, <1>5, <1>6, <1>7, <1>8, <1>9, <1>10, <1>11,
         <1>12, <1>13, <1>14, <1>15, <1>16, <1>17, <1>18, <1>19,
         <1>20, <1>21, <1>22, <1>23, <1>24, <1>25, <1>26, <1>27
    DEF Begin, Progress, PrepareStep, DiscoverStep

\* Every step preserves the invariant on Close.
LEMMA CloseInvStep ==
  ASSUME TypeOK, MuInv, SmuInv, PrepInv, CloseInv, NEW p \in Callers,
         Begin(p) \/ Progress(p) \/ ChildWrite(p)
  PROVE  CloseInv'
  <1> USE CallersAssumption DEF TypeOK, MuInv, SmuInv, Guards, PrepInv, CloseInv, ClosingPCs, SessionPCs, Goto
  <1> USE DEF RLock, RUnlock, Announce, Lock, Unlock, Passed, CanRLock, CanAnnounce, CanLock
  <1> USE DEF MuReadPCs, MuPendingPCs, SmuPendingPCs, TreeReadPCs, WindowPCs, DiscoveryPCs, PreparePCs
  <1> USE DEF flags, disk, closing
  <1>1. CASE ExecCall(p) \/ ExecStep(p)
    BY <1>1 DEF ExecStep, ExecCall, ExecEnter, ExecStart, ExecEnd, ExecReturn, Allowed
  <1>2. CASE DiscoverStep(p)
    BY <1>2, DiscoverFrame DEF BeforeWindowPCs
  <1>3. CASE WindowStep(p)
    BY <1>3 DEF WindowStep, WindowAnnounce, WindowEnter, WindowGate, WindowFreeze,
             WindowValidate, WindowRestore, WindowUnlock, WindowFail, WindowFailUnlock
  <1>4. CASE PrepareCall(p)      BY <1>4 DEF PrepareCall
  <1>5. CASE PrepareBegin(p)     BY <1>5 DEF PrepareBegin
  <1>6. CASE PrepareAbandon(p)   BY <1>6 DEF PrepareAbandon
  <1>7. CASE PrepareSpend(p)     BY <1>7 DEF PrepareSpend
  <1>8. CASE VerifyEnter(p)      BY <1>8 DEF VerifyEnter
  <1>9. CASE VerifyEnd(p)        BY <1>9 DEF VerifyEnd
  <1>10. CASE VerifySkip(p)       BY <1>10 DEF VerifySkip
  <1>11. CASE BuildRead(p)        BY <1>11 DEF BuildRead
  <1>12. CASE BuildFail(p)        BY <1>12 DEF BuildFail
  <1>13. CASE PublishSession(p)   BY <1>13 DEF PublishSession
  <1>14. CASE PrepareFail(p)      BY <1>14 DEF PrepareFail
  <1>15. CASE SessionCall(p) \/ SessionStep(p)
    BY <1>15 DEF SessionStep, SessionCall, SessionEnter, SessionEnd, SessionAnnounce,
             ChangesEnter, ChangesEnd, SessionClose, SessionCloses
  <1>16. CASE CloseCall(p) \/ CloseStep(p)
    BY <1>16 DEF CloseStep, CloseCall, CloseAnnounce, CloseClaim, CloseSession,
             CloseRemove, ClosePublish, CloseJoin, CloseRejoin, SessionCloses
  <1>17. CASE ChildWrite(p)
    BY <1>17 DEF ChildWrite
  <1> QED
    BY <1>1, <1>2, <1>3, <1>4, <1>5, <1>6, <1>7, <1>8, <1>9, <1>10, <1>11,
         <1>12, <1>13, <1>14, <1>15, <1>16, <1>17
    DEF Begin, Progress, PrepareStep

\* Every step preserves the invariant on what exists.
LEMMA DirsStep ==
  ASSUME TypeOK, MuInv, SmuInv, PrepInv, CloseInv, DirsInv, NEW p \in Callers,
         Begin(p) \/ Progress(p) \/ ChildWrite(p)
  PROVE  DirsInv'
  <1> USE CallersAssumption DEF TypeOK, PrepInv, CloseInv, DirsInv, ClosingPCs, SessionPCs, Goto
  <1> USE DEF MuReadPCs, MuPendingPCs, SmuPendingPCs, TreeReadPCs, WindowPCs, DiscoveryPCs, PreparePCs
  <1> USE DEF flags, disk, closing
  <1>1. CASE ExecCall(p) \/ ExecStep(p)
    BY <1>1 DEF ExecStep, ExecCall, ExecEnter, ExecStart, ExecEnd, ExecReturn
  <1>2. CASE DiscoverStep(p)
    BY <1>2, DiscoverFrame DEF BeforeWindowPCs
  <1>3. CASE WindowStep(p)
    BY <1>3 DEF WindowStep, WindowAnnounce, WindowEnter, WindowGate, WindowFreeze,
             WindowValidate, WindowRestore, WindowUnlock, WindowFail, WindowFailUnlock
  <1>4. CASE PrepareCall(p)      BY <1>4 DEF PrepareCall
  <1>5. CASE PrepareBegin(p)     BY <1>5 DEF PrepareBegin
  <1>6. CASE PrepareAbandon(p)   BY <1>6 DEF PrepareAbandon
  <1>7. CASE PrepareSpend(p)     BY <1>7 DEF PrepareSpend
  <1>8. CASE VerifyEnter(p)      BY <1>8 DEF VerifyEnter
  <1>9. CASE VerifyEnd(p)        BY <1>9 DEF VerifyEnd
  <1>10. CASE VerifySkip(p)       BY <1>10 DEF VerifySkip
  <1>11. CASE BuildRead(p)        BY <1>11 DEF BuildRead
  <1>12. CASE BuildFail(p)        BY <1>12 DEF BuildFail
  <1>13. CASE PublishSession(p)   BY <1>13 DEF PublishSession
  <1>14. CASE PrepareFail(p)      BY <1>14 DEF PrepareFail
  <1>15. CASE SessionCall(p) \/ SessionStep(p)
    BY <1>15 DEF SessionStep, SessionCall, SessionEnter, SessionEnd, SessionAnnounce,
             ChangesEnter, ChangesEnd, SessionClose, SessionCloses, KeepOrRemove
  <1>16. CASE CloseCall(p) \/ CloseStep(p)
    BY <1>16 DEF CloseStep, CloseCall, CloseAnnounce, CloseClaim, CloseSession,
             CloseRemove, ClosePublish, CloseJoin, CloseRejoin, SessionCloses,
             KeepOrRemove
  <1>17. CASE ChildWrite(p)
    BY <1>17 DEF ChildWrite
  <1> QED
    BY <1>1, <1>2, <1>3, <1>4, <1>5, <1>6, <1>7, <1>8, <1>9, <1>10, <1>11,
         <1>12, <1>13, <1>14, <1>15, <1>16, <1>17
    DEF Begin, Progress, PrepareStep

\* Every step preserves the invariant on answers.
LEMMA AnswerStep ==
  ASSUME TypeOK, CloseInv, AnswerInv, NEW p \in Callers,
         Begin(p) \/ Progress(p) \/ ChildWrite(p)
  PROVE  AnswerInv'
  <1> USE DEF TypeOK, CloseInv, AnswerInv, ClosingPCs, Goto
  <1> USE DEF MuReadPCs, MuPendingPCs, SmuPendingPCs, TreeReadPCs, WindowPCs, DiscoveryPCs, PreparePCs
  <1> USE DEF flags, disk, closing
  <1>1. CASE ExecCall(p) \/ ExecStep(p)
    BY <1>1 DEF ExecStep, ExecCall, ExecEnter, ExecStart, ExecEnd, ExecReturn
  <1>2. CASE DiscoverStep(p)
    BY <1>2, DiscoverFrame DEF BeforeWindowPCs
  <1>3. CASE WindowStep(p)
    BY <1>3 DEF WindowStep, WindowAnnounce, WindowEnter, WindowGate, WindowFreeze,
             WindowValidate, WindowRestore, WindowUnlock, WindowFail, WindowFailUnlock
  <1>4. CASE PrepareCall(p)      BY <1>4 DEF PrepareCall
  <1>5. CASE PrepareBegin(p)     BY <1>5 DEF PrepareBegin
  <1>6. CASE PrepareAbandon(p)   BY <1>6 DEF PrepareAbandon
  <1>7. CASE PrepareSpend(p)     BY <1>7 DEF PrepareSpend
  <1>8. CASE VerifyEnter(p)      BY <1>8 DEF VerifyEnter
  <1>9. CASE VerifyEnd(p)        BY <1>9 DEF VerifyEnd
  <1>10. CASE VerifySkip(p)       BY <1>10 DEF VerifySkip
  <1>11. CASE BuildRead(p)        BY <1>11 DEF BuildRead
  <1>12. CASE BuildFail(p)        BY <1>12 DEF BuildFail
  <1>13. CASE PublishSession(p)   BY <1>13 DEF PublishSession
  <1>14. CASE PrepareFail(p)      BY <1>14 DEF PrepareFail
  <1>15. CASE SessionCall(p) \/ SessionStep(p)
    BY <1>15 DEF SessionStep, SessionCall, SessionEnter, SessionEnd, SessionAnnounce,
             ChangesEnter, ChangesEnd, SessionClose
  <1>16. CASE CloseCall(p) \/ CloseStep(p)
    BY <1>16 DEF CloseStep, CloseCall, CloseAnnounce, CloseClaim, CloseSession,
             CloseRemove, ClosePublish, CloseJoin, CloseRejoin
  <1>17. CASE ChildWrite(p)
    BY <1>17 DEF ChildWrite
  <1> QED
    BY <1>1, <1>2, <1>3, <1>4, <1>5, <1>6, <1>7, <1>8, <1>9, <1>10, <1>11,
         <1>12, <1>13, <1>14, <1>15, <1>16, <1>17
    DEF Begin, Progress, PrepareStep

\* Every step preserves the invariant on what is left.
LEMMA LeftoverStep ==
  ASSUME TypeOK, PrepInv, CloseInv, LeftoverInv, NEW p \in Callers,
         Begin(p) \/ Progress(p) \/ ChildWrite(p)
  PROVE  LeftoverInv'
  <1> USE DEF TypeOK, PrepInv, CloseInv, LeftoverInv, ClosingPCs, Goto
  <1> USE DEF MuReadPCs, MuPendingPCs, SmuPendingPCs, TreeReadPCs, WindowPCs, DiscoveryPCs, PreparePCs
  <1> USE DEF flags, disk, closing
  <1>1. CASE ExecCall(p) \/ ExecStep(p)
    BY <1>1 DEF ExecStep, ExecCall, ExecEnter, ExecStart, ExecEnd, ExecReturn
  <1>2. CASE DiscoverStep(p)
    BY <1>2, DiscoverFrame DEF BeforeWindowPCs
  <1>3. CASE WindowStep(p)
    BY <1>3 DEF WindowStep, WindowAnnounce, WindowEnter, WindowGate, WindowFreeze,
             WindowValidate, WindowRestore, WindowUnlock, WindowFail, WindowFailUnlock
  <1>4. CASE PrepareCall(p)      BY <1>4 DEF PrepareCall
  <1>5. CASE PrepareBegin(p)     BY <1>5 DEF PrepareBegin
  <1>6. CASE PrepareAbandon(p)   BY <1>6 DEF PrepareAbandon
  <1>7. CASE PrepareSpend(p)     BY <1>7 DEF PrepareSpend
  <1>8. CASE VerifyEnter(p)      BY <1>8 DEF VerifyEnter
  <1>9. CASE VerifyEnd(p)        BY <1>9 DEF VerifyEnd
  <1>10. CASE VerifySkip(p)       BY <1>10 DEF VerifySkip
  <1>11. CASE BuildRead(p)        BY <1>11 DEF BuildRead
  <1>12. CASE BuildFail(p)        BY <1>12 DEF BuildFail
  <1>13. CASE PublishSession(p)   BY <1>13 DEF PublishSession
  <1>14. CASE PrepareFail(p)      BY <1>14 DEF PrepareFail
  <1>15. CASE SessionCall(p) \/ SessionStep(p)
    BY <1>15 DEF SessionStep, SessionCall, SessionEnter, SessionEnd, SessionAnnounce,
             ChangesEnter, ChangesEnd, SessionClose, SessionCloses, KeepOrRemove
  <1>16. CASE CloseCall(p)        BY <1>16 DEF CloseCall
  <1>17. CASE CloseAnnounce(p)    BY <1>17 DEF CloseAnnounce
  <1>18. CASE CloseClaim(p)       BY <1>18 DEF CloseClaim
  <1>19. CASE CloseSession(p)     BY <1>19 DEF CloseSession, SessionCloses, KeepOrRemove
  <1>20. CASE CloseRemove(p)      BY <1>20 DEF CloseRemove, KeepOrRemove, Directories
  <1>21. CASE ClosePublish(p)     BY <1>21 DEF ClosePublish
  <1>22. CASE CloseJoin(p)        BY <1>22 DEF CloseJoin
  <1>23. CASE CloseRejoin(p)      BY <1>23 DEF CloseRejoin
  <1>24. CASE ChildWrite(p)
    BY <1>24 DEF ChildWrite
  <1> QED
    BY <1>1, <1>2, <1>3, <1>4, <1>5, <1>6, <1>7, <1>8, <1>9, <1>10, <1>11,
         <1>12, <1>13, <1>14, <1>15, <1>16, <1>17, <1>18, <1>19,
         <1>20, <1>21, <1>22, <1>23, <1>24
    DEF Begin, Progress, PrepareStep, CloseStep

\* Every step preserves what KeepTemp promises.
LEMMA KeepStep ==
  ASSUME TypeOK, KeepTempKeeps, NEW p \in Callers, Begin(p) \/ Progress(p) \/ ChildWrite(p)
  PROVE  KeepTempKeeps'
  <1> USE DEF TypeOK, KeepTempKeeps, Goto
  <1> USE DEF MuReadPCs, MuPendingPCs, SmuPendingPCs, TreeReadPCs, WindowPCs, DiscoveryPCs, PreparePCs
  <1> USE DEF flags, disk, closing
  <1>1. CASE ExecCall(p) \/ ExecStep(p)
    BY <1>1 DEF ExecStep, ExecCall, ExecEnter, ExecStart, ExecEnd, ExecReturn
  <1>2. CASE DiscoverStep(p)
    BY <1>2, DiscoverFrame DEF BeforeWindowPCs
  <1>3. CASE WindowStep(p)
    BY <1>3 DEF WindowStep, WindowAnnounce, WindowEnter, WindowGate, WindowFreeze,
             WindowValidate, WindowRestore, WindowUnlock, WindowFail, WindowFailUnlock
  <1>4. CASE PrepareCall(p)      BY <1>4 DEF PrepareCall
  <1>5. CASE PrepareBegin(p)     BY <1>5 DEF PrepareBegin
  <1>6. CASE PrepareAbandon(p)   BY <1>6 DEF PrepareAbandon
  <1>7. CASE PrepareSpend(p)     BY <1>7 DEF PrepareSpend
  <1>8. CASE VerifyEnter(p)      BY <1>8 DEF VerifyEnter
  <1>9. CASE VerifyEnd(p)        BY <1>9 DEF VerifyEnd
  <1>10. CASE VerifySkip(p)       BY <1>10 DEF VerifySkip
  <1>11. CASE BuildRead(p)        BY <1>11 DEF BuildRead
  <1>12. CASE BuildFail(p)        BY <1>12 DEF BuildFail
  <1>13. CASE PublishSession(p)   BY <1>13 DEF PublishSession
  <1>14. CASE PrepareFail(p)      BY <1>14 DEF PrepareFail
  <1>15. CASE SessionCall(p) \/ SessionStep(p)
    BY <1>15 DEF SessionStep, SessionCall, SessionEnter, SessionEnd, SessionAnnounce,
             ChangesEnter, ChangesEnd, SessionClose, SessionCloses, KeepOrRemove
  <1>16. CASE CloseCall(p) \/ CloseStep(p)
    BY <1>16 DEF CloseStep, CloseCall, CloseAnnounce, CloseClaim, CloseSession,
             CloseRemove, ClosePublish, CloseJoin, CloseRejoin, SessionCloses,
             KeepOrRemove
  <1>17. CASE ChildWrite(p)
    BY <1>17 DEF ChildWrite
  <1> QED
    BY <1>1, <1>2, <1>3, <1>4, <1>5, <1>6, <1>7, <1>8, <1>9, <1>10, <1>11,
         <1>12, <1>13, <1>14, <1>15, <1>16, <1>17
    DEF Begin, Progress, PrepareStep

\* The state Open leaves satisfies every part of the invariant.
LEMMA SafetyInit == Init => SafetyInv
  <1> SUFFICES ASSUME Init PROVE SafetyInv
    OBVIOUS
  <1> USE CallersAssumption, TypeInit
  <1>1. TreeInv /\ MuInv /\ SmuInv
    BY DEF Init, TreeInv, MuInv, SmuInv, Guards, Unlocked, MuReadPCs, MuPendingPCs,
           SmuPendingPCs, TreeReadPCs, WindowPCs, DiscoveryPCs, PreparePCs
  <1>2. PrepInv /\ CloseInv /\ AnswerInv
    BY DEF Init, PrepInv, CloseInv, AnswerInv, ClosingPCs, SessionPCs, MuReadPCs, PreparePCs,
           WindowPCs, DiscoveryPCs
  <1>3. InstrInv /\ NoChildSeesInstrumentation
    BY DEF Init, InstrInv, NoChildSeesInstrumentation, Pristine
  <1>4. DirsInv /\ LeftoverInv /\ KeepTempKeeps
    BY DEF Init, DirsInv, LeftoverInv, KeepTempKeeps
  <1> QED BY <1>1, <1>2, <1>3, <1>4 DEF SafetyInv, WindowIInv

\* Every step of every caller preserves it.
LEMMA SafetyStep == SafetyInv /\ [Next]_vars => SafetyInv'
  <1> SUFFICES ASSUME SafetyInv, [Next]_vars PROVE SafetyInv'
    OBVIOUS
  <1> USE DEF SafetyInv, WindowIInv
  <1>1. CASE UNCHANGED vars
    BY <1>1 DEF vars, TypeOK, TreeInv, MuInv, SmuInv, Guards, PrepInv, InstrInv,
                NoChildSeesInstrumentation, CloseInv, DirsInv, AnswerInv, LeftoverInv,
                KeepTempKeeps
  <1>2. ASSUME NEW p \in Callers, Begin(p) \/ Progress(p) \/ ChildWrite(p)
        PROVE  SafetyInv'
    <2>1. TypeOK'
      BY <1>2, TypeStep DEF Next
    <2>2. TreeInv' /\ MuInv' /\ SmuInv'
      BY <1>2, TreeStep, MuStep, SmuStep
    <2>3. PrepInv' /\ InstrInv' /\ NoChildSeesInstrumentation'
      BY <1>2, PrepStep, InstrStep, NoChildStep
    <2>4. CloseInv' /\ DirsInv' /\ AnswerInv'
      BY <1>2, CloseInvStep, DirsStep, AnswerStep
    <2>5. LeftoverInv' /\ KeepTempKeeps'
      BY <1>2, LeftoverStep, KeepStep
    <2> QED BY <2>1, <2>2, <2>3, <2>4, <2>5
  <1> QED BY <1>1, <1>2 DEF Next

\* The invariant gives each of the properties the runs check.
LEMMA SafetyGives ==
  SafetyInv => /\ PreparedAtMostOnce
               /\ NothingRemovedUnderACall
               /\ CloseAnswersAgree
               /\ ClosedMeansOver
  <1> SUFFICES ASSUME SafetyInv
               PROVE  /\ PreparedAtMostOnce /\ NothingRemovedUnderACall
                      /\ CloseAnswersAgree /\ ClosedMeansOver
    OBVIOUS
  <1> USE DEF SafetyInv, WindowIInv
  <1>1. PreparedAtMostOnce
    BY DEF PrepInv, PreparedAtMostOnce
  <1>2. NothingRemovedUnderACall
    BY DEF CloseInv, DirsInv, NothingRemovedUnderACall
  <1>3. CloseAnswersAgree
    BY DEF AnswerInv, CloseAnswersAgree
  <1>4. ClosedMeansOver
    BY DEF CloseInv, ClosingPCs, LeftoverInv, ClosedMeansOver
  <1> QED BY <1>1, <1>2, <1>3, <1>4

\* The inductive invariant holds in every reachable state.
THEOREM SafetyCorrect == Spec => []SafetyInv
  BY SafetyInit, SafetyStep, PTL DEF Spec

\* No command, verification or session target ever runs beside instrumented
\* source, however many callers queue behind the instrumentation window and
\* however it ends (Exec's second question, prepareDidFail before the unlock).
THEOREM WindowIsPrivate == Spec => []NoChildSeesInstrumentation
  <1>1. SafetyInv => NoChildSeesInstrumentation
    BY DEF SafetyInv, WindowIInv
  <1> QED BY <1>1, SafetyCorrect, PTL

\* One preparation gets past its options in the life of a workspace
\* (beginPrepare, abandonPrepare).
THEOREM PreparedOnce == Spec => []PreparedAtMostOnce
  BY SafetyGives, SafetyCorrect, PTL

\* No directory a call is using is removed under it, by Close, by Session.Close
\* or by a preparation that fails.
THEOREM DirectoriesOutliveCalls == Spec => []NothingRemovedUnderACall
  BY SafetyGives, SafetyCorrect, PTL

\* All Close calls return the verdict of the one that did the work.
THEOREM CloseAgrees == Spec => []CloseAnswersAgree
  BY SafetyGives, SafetyCorrect, PTL

\* A Close that returned leaves no call inside, no open session and, without
\* KeepTemp, no directory that no error named.
THEOREM CloseIsOver == Spec => []ClosedMeansOver
  BY SafetyGives, SafetyCorrect, PTL

\* Whoever closes the workspace and whenever, all get one answer and after it the
\* workspace is over.
THEOREM CloseFinal == Spec => []CloseIsFinal
  BY CloseAgrees, CloseIsOver, PTL DEF CloseIsFinal

\* KeepTemp keeps the snapshot and the scratch unless an error said otherwise.
THEOREM KeepIsKept == Spec => []KeepTempKeeps
  <1>1. SafetyInv => KeepTempKeeps
    BY DEF SafetyInv
  <1> QED BY <1>1, SafetyCorrect, PTL

-----------------------------------------------------------------------------

\* Where a preparation is once its gate found the tree and what discovery read
\* to be the manifest's, and once the manifest's files are pinned.
GatedPCs == {"win_freeze", "win_validate", "win_restore", "win_restored", "prep_verifying",
             "prep_verify", "prep_build"}
PinnedPCs == GatedPCs \ {"win_freeze"}

\* What a preparation has to show for each file at each of its stages: a mutant's
\* file was digested, its digest was the manifest's, the pinned copies are the
\* frozen bytes, and what the compiler has read came through the overlay.
BuiltInv ==
  /\ \A f \in prep.minted : prep.scanned[f] # "absent"
  /\ \A p \in Callers : pc[p] \in GatedPCs => \A f \in prep.minted : f \in Manifest /\ prep.scanned[f] = "frozen"
  /\ \A p \in Callers : pc[p] \in PinnedPCs => \A f \in Manifest : prep.pinned[f] = "frozen"
  /\ \A p \in Callers : pc[p] = "prep_build" =>
       \A f \in Manifest \ prep.todo :
         prep.built[f] = IF f \in prep.minted THEN "instrumented" ELSE "frozen"
  /\ SessionBuiltFromManifest

\* A step that leaves the preparation's locals and the session alone, and takes no
\* caller into a later stage.
LEMMA BuiltFrame ==
  ASSUME BuiltInv, UNCHANGED <<prep, sess>>,
         \A q \in Callers : pc'[q] \in GatedPCs => pc[q] \in GatedPCs,
         \A q \in Callers : pc'[q] \in PinnedPCs => pc[q] \in PinnedPCs,
         \A q \in Callers : pc'[q] = "prep_build" => pc[q] = "prep_build"
  PROVE  BuiltInv'
  BY DEF BuiltInv, SessionBuiltFromManifest

\* A step of the one preparation before its gate.
LEMMA BuiltBefore ==
  ASSUME BuiltInv, sess = "none", UNCHANGED sess,
         \A q \in Callers : pc'[q] \notin GatedPCs,
         \A f \in prep'.minted : prep'.scanned[f] # "absent"
  PROVE  BuiltInv'
  BY DEF BuiltInv, SessionBuiltFromManifest, GatedPCs, PinnedPCs

\* Every step of discovery and of the probe copy keeps it.
LEMMA BuiltDiscover ==
  ASSUME TypeOK, PrepInv, BuiltInv, NEW p \in Callers, DiscoverStep(p)
  PROVE  BuiltInv'
  <1>a. pc \in [Callers -> PCs] /\ prep \in Preps /\ files \in [Paths -> Contents]
    BY DEF TypeOK
  <1>b. CASE pc[p] = "prep_verify"
    <2>1. ReadPhaseFail(p)
      BY <1>b DEF DiscoverStep, DiscoverEnter, DiscoverParse, DiscoverParsed, DiscoverScan, DiscoverScanned,
                  DiscoverCapture, DiscoverEnd, ProbeEnter, ProbeCopy, ProbeEnd, Goto
    <2>2. UNCHANGED <<prep, sess>> /\ pc' = [pc EXCEPT ![p] = "prep_fail"]
      BY <2>1 DEF ReadPhaseFail, Goto
    <2> QED BY <1>a, <2>2, BuiltFrame DEF GatedPCs, PinnedPCs
  <1>c. CASE pc[p] # "prep_verify"
    <2>1. pc[p] \in BeforeWindowPCs /\ \E to \in BeforeWindowPCs : pc' = [pc EXCEPT ![p] = to]
      BY <1>c, DiscoverFrame
    <2>2. pc[p] \in PreparePCs /\ sess = "none" /\ UNCHANGED sess
      BY <2>1, DiscoverFrame DEF BeforeWindowPCs, PreparePCs, DiscoveryPCs, PrepInv
    <2>3. \A q \in Callers : pc'[q] \notin GatedPCs
      <3>1. \A q \in Callers : q # p => pc[q] \notin PreparePCs /\ pc'[q] = pc[q]
        BY <1>a, <2>1, <2>2 DEF PrepInv
      <3>2. pc'[p] \in BeforeWindowPCs
        BY <1>a, <2>1
      <3>3. GatedPCs \subseteq PreparePCs /\ BeforeWindowPCs \cap GatedPCs = {}
        BY DEF GatedPCs, PreparePCs, WindowPCs, BeforeWindowPCs, DiscoveryPCs
      <3> QED BY <3>1, <3>2, <3>3
    <2>4. \A f \in prep'.minted : prep'.scanned[f] # "absent"
      <3>1. \A f \in prep.minted : prep.scanned[f] # "absent"
        BY DEF BuiltInv
      <3>2. CASE DiscoverScan(p)
        <4>1. PICK f \in prep.todo, mints \in BOOLEAN :
                /\ files[f] # "absent"
                /\ prep' = [prep EXCEPT !.todo = @ \ {f}, !.scanned[f] = files[f],
                                        !.minted = IF mints THEN @ \cup {f} ELSE @]
          BY <3>2 DEF DiscoverScan
        <4>2. prep'.minted \subseteq prep.minted \cup {f} /\ prep'.scanned = [prep.scanned EXCEPT ![f] = files[f]]
          BY <1>a, <4>1 DEF Preps
        <4>3. prep.scanned \in [Paths -> Contents] /\ f \in Paths /\ prep.minted \subseteq Paths
          BY <1>a, <4>1 DEF Preps
        <4> QED BY <3>1, <4>1, <4>2, <4>3
      <3>3. CASE ~DiscoverScan(p)
        <4>1. prep'.minted = prep.minted /\ prep'.scanned = prep.scanned
          BY <1>a, <3>3 DEF Preps, DiscoverStep, DiscoverEnter, DiscoverParse, DiscoverParsed, DiscoverScanned,
                  DiscoverCapture, DiscoverEnd, ProbeEnter, ProbeCopy, ProbeEnd, ReadPhaseFail
        <4> QED BY <3>1, <4>1
      <3> QED BY <3>2, <3>3
    <2> QED BY <2>2, <2>3, <2>4, BuiltBefore
  <1> QED BY <1>b, <1>c

\* Every step of the window keeps it: the gate asks, and the freeze pins.
LEMMA BuiltWindow ==
  ASSUME TypeOK, PrepInv, BuiltInv, NEW p \in Callers, WindowStep(p)
  PROVE  BuiltInv'
  <1>a. pc \in [Callers -> PCs] /\ prep \in Preps /\ files \in [Paths -> Contents]
    BY DEF TypeOK
  <1>b. pc[p] \in WindowPCs \cup {"prep_window", "win_wait"} /\ UNCHANGED sess
    BY DEF WindowStep, WindowAnnounce, WindowEnter, WindowGate, WindowFreeze, WindowValidate, WindowRestore,
           WindowUnlock, WindowFail, WindowFailUnlock, Goto, WindowPCs
  <1>c. sess = "none" /\ \A q \in Callers : q # p => pc[q] \notin GatedPCs \cup PinnedPCs \cup {"prep_build"}
    BY <1>b DEF PrepInv, GatedPCs, PinnedPCs, PreparePCs, WindowPCs
  <1>1. CASE WindowGate(p)
    <2>1. /\ pc' = [pc EXCEPT ![p] = "win_freeze"] /\ UNCHANGED prep
          /\ \A f \in Paths : prep.scanned[f] # "absent" => f \in Manifest /\ prep.scanned[f] = "frozen"
      BY <1>1 DEF WindowGate, Goto, DiscoveredSourcesMatch
    <2>2. \A f \in prep.minted : f \in Manifest /\ prep.scanned[f] = "frozen"
      BY <1>a, <2>1 DEF BuiltInv, Preps
    <2>3. \A q \in Callers : pc'[q] \notin PinnedPCs \cup {"prep_build"}
      BY <1>a, <1>c, <2>1 DEF PinnedPCs, GatedPCs
    <2> QED BY <1>b, <1>c, <2>1, <2>2, <2>3 DEF BuiltInv, SessionBuiltFromManifest
  <1>2. CASE WindowFreeze(p)
    <2>1. /\ pc[p] = "win_freeze" /\ pc' = [pc EXCEPT ![p] = "win_validate"]
          /\ \A f \in Manifest : files[f] = "frozen"
          /\ prep' = [prep EXCEPT !.pinned = [f \in Paths |-> IF f \in Manifest THEN files[f] ELSE "absent"]]
      BY <1>2 DEF WindowFreeze, Goto
    <2>2. /\ prep'.minted = prep.minted /\ prep'.scanned = prep.scanned
          /\ prep'.pinned = [f \in Paths |-> IF f \in Manifest THEN files[f] ELSE "absent"]
      BY <1>a, <2>1 DEF Preps
    <2>3. \A f \in Manifest : prep'.pinned[f] = "frozen"
      BY <2>1, <2>2 DEF Paths
    <2>4. \A f \in prep.minted : f \in Manifest /\ prep.scanned[f] = "frozen"
      BY <2>1 DEF BuiltInv, GatedPCs
    <2>5. \A q \in Callers : pc'[q] # "prep_build"
      BY <1>a, <1>c, <2>1
    <2> QED BY <1>b, <1>c, <2>2, <2>3, <2>4, <2>5 DEF BuiltInv, SessionBuiltFromManifest
  <1>3. CASE ~WindowGate(p) /\ ~WindowFreeze(p)
    <2>1. PICK to \in {"win_wait", "win_gate", "win_restore", "win_restored", "win_failed", "prep_verifying", "prep_fail"} :
            /\ pc' = [pc EXCEPT ![p] = to] /\ UNCHANGED prep
            /\ to \in PinnedPCs => pc[p] \in PinnedPCs
      BY <1>3 DEF WindowStep, WindowAnnounce, WindowEnter, WindowValidate, WindowRestore,
           WindowUnlock, WindowFail, WindowFailUnlock, Goto, PinnedPCs, GatedPCs
    <2>2. /\ \A q \in Callers : pc'[q] \in PinnedPCs => pc[q] \in PinnedPCs
          /\ \A q \in Callers : pc'[q] \in GatedPCs => pc[q] \in GatedPCs
          /\ \A q \in Callers : pc'[q] = "prep_build" => pc[q] = "prep_build"
      BY <1>a, <2>1 DEF PinnedPCs, GatedPCs
    <2> QED BY <1>b, <2>1, <2>2, BuiltFrame
  <1> QED BY <1>1, <1>2, <1>3

\* Verification asks for every file to be read, and each is read through the
\* overlay; the session is what has been read when none is left.
LEMMA BuiltBuild ==
  ASSUME TypeOK, PrepInv, BuiltInv, NEW p \in Callers,
         VerifyEnd(p) \/ VerifySkip(p) \/ BuildRead(p) \/ PublishSession(p)
  PROVE  BuiltInv'
  <1>a. pc \in [Callers -> PCs] /\ prep \in Preps
    BY DEF TypeOK
  <1>b. pc[p] \in PinnedPCs /\ pc[p] \in GatedPCs /\ pc[p] \in PreparePCs
    BY DEF VerifyEnd, VerifySkip, BuildRead, PublishSession, Goto, PinnedPCs, GatedPCs, PreparePCs
  <1>c. /\ sess = "none" /\ \A q \in Callers : q # p => pc[q] \notin GatedPCs /\ pc[q] # "prep_build"
        /\ \A f \in prep.minted : f \in Manifest /\ prep.scanned[f] = "frozen"
        /\ \A f \in Manifest : prep.pinned[f] = "frozen"
    BY <1>b DEF PrepInv, BuiltInv, GatedPCs, PreparePCs, WindowPCs
  <1>1. CASE VerifyEnd(p) \/ VerifySkip(p)
    <2>1. prep' = [prep EXCEPT !.todo = Paths] /\ UNCHANGED sess
      BY <1>1 DEF VerifyEnd, VerifySkip
    <2>2. prep'.minted = prep.minted /\ prep'.scanned = prep.scanned /\ prep'.pinned = prep.pinned /\ prep'.todo = Paths
      BY <1>a, <2>1 DEF Preps
    <2>3. Manifest \ Paths = {}
      BY DEF Paths
    <2> QED BY <1>c, <2>1, <2>2, <2>3 DEF BuiltInv, SessionBuiltFromManifest
  <1>2. CASE BuildRead(p)
    <2>1. PICK f \in prep.todo : prep' = [prep EXCEPT !.todo = @ \ {f}, !.built[f] = Overlaid(f)]
      BY <1>2 DEF BuildRead
    <2>2. pc[p] = "prep_build" /\ UNCHANGED <<pc, sess>>
      BY <1>2 DEF BuildRead
    <2>3. /\ prep'.minted = prep.minted /\ prep'.scanned = prep.scanned /\ prep'.pinned = prep.pinned
          /\ prep'.todo = prep.todo \ {f} /\ prep'.built = [prep.built EXCEPT ![f] = Overlaid(f)]
          /\ prep.built \in [Paths -> Contents]
      BY <1>a, <2>1 DEF Preps
    <2>4. f \in Manifest => Overlaid(f) = IF f \in prep.minted THEN "instrumented" ELSE "frozen"
      BY <1>c DEF Overlaid
    <2>5. \A g \in Manifest \ prep'.todo : prep'.built[g] = IF g \in prep.minted THEN "instrumented" ELSE "frozen"
      <3> TAKE g \in Manifest \ prep'.todo
      <3>1. CASE g = f
        BY <2>3, <2>4, <3>1 DEF Paths
      <3>2. CASE g # f
        BY <2>2, <2>3, <3>2 DEF BuiltInv
      <3> QED BY <3>1, <3>2
    <2> QED BY <1>c, <2>2, <2>3, <2>5 DEF BuiltInv, SessionBuiltFromManifest
  <1>3. CASE PublishSession(p)
    <2>1. pc[p] = "prep_build" /\ pc' = [pc EXCEPT ![p] = "idle"] /\ prep.todo = {} /\ UNCHANGED prep
      BY <1>3 DEF PublishSession, Goto
    <2>2. \A f \in Manifest : prep.built[f] = IF f \in prep.minted THEN "instrumented" ELSE "frozen"
      BY <2>1 DEF BuiltInv
    <2>3. \A q \in Callers : pc'[q] \notin GatedPCs /\ pc'[q] # "prep_build"
      BY <1>a, <1>c, <2>1 DEF GatedPCs
    <2> QED BY <1>c, <2>1, <2>2, <2>3 DEF BuiltInv, SessionBuiltFromManifest, PinnedPCs
  <1> QED BY <1>1, <1>2, <1>3

\* Every step of every caller keeps it.
LEMMA BuiltStep ==
  ASSUME TypeOK, PrepInv, BuiltInv, NEW p \in Callers, Begin(p) \/ Progress(p) \/ ChildWrite(p)
  PROVE  BuiltInv'
  <1>a. pc \in [Callers -> PCs] /\ prep \in Preps
    BY DEF TypeOK
  <1>1. CASE DiscoverStep(p)
    BY <1>1, BuiltDiscover
  <1>2. CASE WindowStep(p)
    BY <1>2, BuiltWindow
  <1>3. CASE VerifyEnd(p) \/ VerifySkip(p) \/ BuildRead(p) \/ PublishSession(p)
    BY <1>3, BuiltBuild
  <1>4. CASE PrepareSpend(p) \/ PrepareFail(p)
    <2>1. /\ pc[p] \in {"prep_begun", "prep_fail"} /\ UNCHANGED sess
          /\ \E probe \in BOOLEAN : prep' = FreshPrep(probe)
          /\ \E to \in {"prep_discover", "prep_fail", "idle"} : pc' = [pc EXCEPT ![p] = to]
      BY <1>4 DEF PrepareSpend, PrepareFail, Goto, flags, disk, closing
    <2>2. prep'.minted = {}
      BY <2>1 DEF FreshPrep
    <2>3. sess = "none" /\ \A q \in Callers : pc'[q] \notin GatedPCs
      BY <1>a, <2>1 DEF PrepInv, GatedPCs, PreparePCs, WindowPCs
    <2> QED BY <2>1, <2>2, <2>3, BuiltBefore
  <1>5. CASE PrepareCall(p) \/ PrepareBegin(p) \/ PrepareAbandon(p) \/ VerifyEnter(p) \/ BuildFail(p)
    <2>1. /\ UNCHANGED <<prep, sess>>
          /\ \E to \in {"prep_mu", "prep_begun", "idle", "prep_verify", "prep_fail"} :
               /\ pc' = [pc EXCEPT ![p] = to]
               /\ to = "prep_verify" => pc[p] = "prep_verifying"
      BY <1>5 DEF PrepareCall, PrepareBegin, PrepareAbandon, VerifyEnter, BuildFail, Goto, flags, disk, closing
    <2> QED BY <1>a, <2>1, BuiltFrame DEF GatedPCs, PinnedPCs
  <1>6. CASE ExecCall(p) \/ ExecStep(p) \/ ChildWrite(p)
    <2>1. UNCHANGED <<prep, sess>>
      BY <1>6 DEF ExecStep, ExecCall, ExecEnter, ExecStart, ExecEnd, ExecReturn, ChildWrite
    <2>2. pc' = pc \/ \E to \in {"exec_mu", "exec_tree", "exec_run", "exec_ret", "idle"} : pc' = [pc EXCEPT ![p] = to]
      BY <1>6 DEF ExecStep, ExecCall, ExecEnter, ExecStart, ExecEnd, ExecReturn, ChildWrite, Goto
    <2> QED BY <1>a, <2>1, <2>2, BuiltFrame DEF GatedPCs, PinnedPCs
  <1>7. CASE SessionCall(p) \/ SessionStep(p) \/ CloseCall(p) \/ CloseStep(p)
    <2>1. UNCHANGED prep /\ (sess' # "none" => sess # "none")
      <3>1. CASE SessionCall(p) \/ SessionStep(p)
        BY <3>1 DEF SessionCall, SessionStep, SessionEnter, SessionEnd, SessionAnnounce, ChangesEnter, ChangesEnd,
                    SessionClose, SessionCloses, disk, closing, PrepInv, SessionPCs, Goto
      <3>2. CASE CloseCall(p) \/ CloseStep(p)
        BY <3>2 DEF CloseCall, CloseStep, CloseAnnounce, CloseClaim, CloseSession, CloseRemove, ClosePublish,
                    CloseJoin, CloseRejoin, SessionCloses, disk, closing, PrepInv, SessionPCs, Goto
      <3> QED BY <1>7, <3>1, <3>2
    <2>2. \E to \in PCs \ PreparePCs : pc' = [pc EXCEPT ![p] = to]
      BY <1>7 DEF SessionCall, SessionStep, SessionEnter, SessionEnd, SessionAnnounce, ChangesEnter, ChangesEnd,
                  SessionClose, CloseCall, CloseStep, CloseAnnounce, CloseClaim, CloseSession, CloseRemove,
                  ClosePublish, CloseJoin, CloseRejoin, Goto, PCs, MuPendingPCs, SmuPendingPCs, FreePCs,
                  PreparePCs, WindowPCs, DiscoveryPCs
    <2>3. \A q \in Callers : pc'[q] \in GatedPCs => pc'[q] = pc[q]
      BY <1>a, <2>2 DEF GatedPCs, PreparePCs, WindowPCs
    <2> QED BY <2>1, <2>3 DEF BuiltInv, SessionBuiltFromManifest, PinnedPCs, GatedPCs
  <1> QED BY <1>1, <1>2, <1>3, <1>4, <1>5, <1>6, <1>7 DEF Begin, Progress, PrepareStep

\* What a session was built from is the manifest: each of its mutants is of a file
\* whose digest was the manifest's, and each file of the manifest was compiled
\* from the frozen bytes or their instrumentation, whatever any number of commands
\* wrote meanwhile (checkDiscoveredSources, freezeBuildInputs, the overlay).
THEOREM BuiltFromManifest == Spec => []SessionBuiltFromManifest
  <1>1. Init => BuiltInv
    BY DEF Init, FreshPrep, BuiltInv, SessionBuiltFromManifest, GatedPCs, PinnedPCs
  <1>2. SafetyInv /\ BuiltInv /\ [Next]_vars => BuiltInv'
    <2> SUFFICES ASSUME SafetyInv, BuiltInv, [Next]_vars PROVE BuiltInv'
      OBVIOUS
    <2>1. CASE UNCHANGED vars
      BY <2>1 DEF vars, BuiltInv, SessionBuiltFromManifest
    <2>2. CASE \E p \in Callers : Begin(p) \/ Progress(p) \/ ChildWrite(p)
      BY <2>2, BuiltStep DEF SafetyInv, WindowIInv
    <2> QED BY <2>1, <2>2 DEF Next
  <1>3. BuiltInv => SessionBuiltFromManifest
    BY DEF BuiltInv
  <1> QED BY <1>1, <1>2, <1>3, SafetyCorrect, PTL DEF Spec
=============================================================================
