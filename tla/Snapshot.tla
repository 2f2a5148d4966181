------------------------------ MODULE Snapshot ------------------------------
(***************************************************************************)
(* The copies a run measures in (internal/snapshot): the snapshot of the   *)
(* user's tree, the copies of the instrumented snapshot that --isolate     *)
(* gives the workers, the digests they are compared with and the files     *)
(* that are put back (redigest.go), and the drift gate (internal/drift).   *)
(*                                                                         *)
(* The user's tree is not locked: it is edited while it is walked, while   *)
(* its files are copied by a pool of goroutines and while files are put    *)
(* back from it.  A file is a number and its content a number, which is    *)
(* its digest as well; 0 is no file.  Directories, permissions and times   *)
(* are left out (Redigest compares none of them).                          *)
(***************************************************************************)
EXTENDS Integers, FiniteSets, FiniteSetsExt

CONSTANTS
  Files,        \* the paths, in path order
  Excluded,     \* those a pattern excludes from the walk
  Generated,    \* those of the runtime package that instrumentation adds
  Instrumented, \* those instrumentation rewrites
  MaxEdits,     \* bound: edits of the user's tree
  MaxWrites     \* bound: files the tests write, in all

ASSUME SnapshotAssumption ==
  /\ Files \subseteq Nat /\ Instrumented \subseteq Files \ Generated

VARIABLES
  step,       \* where the run is
  isolating,  \* --isolate
  trees,      \* "user", "snap" and "worker": path -> content
  irregular,  \* paths of the user's tree that are links, devices or ill-named
  listed,     \* walker.files: what the walk found and is still to be copied
  uncopied,   \* copySnapshotFiles: errorsByPath
  manifest,   \* "snap" and "worker": Snapshot.Manifest
  drifts,     \* Restore: the drifted files still to be put back
  gated,      \* the drift gate was passed
  edits, writes

snapshotVars == <<step, isolating, trees, irregular, listed, uncopied, manifest, drifts, gated, edits, writes>>

Nothing == [f \in Files |-> 0]
Present(t) == {f \in Files : trees[t][f] # 0}
Source(t) == IF t = "snap" THEN "user" ELSE "snap"
InstrumentedText == 9

SnapshotInit ==
  /\ step = "walk snap"
  /\ isolating \in BOOLEAN
  /\ \E there \in SUBSET (Files \ Generated) :
       trees = [user |-> [f \in Files |-> IF f \in there THEN 1 ELSE 0], snap |-> Nothing, worker |-> Nothing]
  /\ irregular \in {s \in SUBSET Present("user") : Cardinality(s) < 2}
  /\ listed = {} /\ uncopied = {} /\ drifts = {}
  /\ manifest = [snap |-> Nothing, worker |-> Nothing]
  /\ gated = FALSE /\ edits = 0 /\ writes = 0

-----------------------------------------------------------------------------
(* Those who write into the trees *)

\* The user saves, adds or deletes a file of the working tree.
UserEdits ==
  /\ edits < MaxEdits
  /\ \E f \in Files \ Generated, c \in {0, 1, 2} :
       /\ c # trees["user"][f] /\ f \notin irregular
       /\ trees' = [trees EXCEPT !["user"][f] = c]
  /\ edits' = edits + 1
  /\ UNCHANGED <<step, isolating, gated, irregular, listed, uncopied, manifest, drifts, writes>>

\* A test changes, adds or deletes a file beside the package it runs in.
TestWrites(t) ==
  /\ writes < MaxWrites
  /\ \E f \in Files, c \in {0, 3} :
       /\ c # trees[t][f]
       /\ trees' = [trees EXCEPT ![t][f] = c]
  /\ writes' = writes + 1
  /\ UNCHANGED <<step, isolating, gated, irregular, listed, uncopied, manifest, drifts, edits>>

-----------------------------------------------------------------------------
(* Create *)

\* walker.walk and rejection: what is not a regular file is refused, and so
\* is the whole tree; the error names the first such path.
Walk(t) ==
  /\ step = (IF t = "snap" THEN "walk snap" ELSE "walk worker")
  /\ LET bad == IF t = "snap" THEN irregular \ Excluded ELSE {}
     IN IF bad # {} THEN step' = "over" /\ uncopied' = {Min(bad)} /\ UNCHANGED listed
        ELSE /\ listed' = Present(Source(t)) \ (IF t = "snap" THEN Excluded ELSE {})
             /\ step' = (IF t = "snap" THEN "copy snap" ELSE "copy worker")
             /\ UNCHANGED uncopied
  /\ UNCHANGED <<isolating, gated, trees, irregular, manifest, drifts, edits, writes>>

\* copyFile: what is written is what is hashed, in one reading of the source.
CopyFile(t, f, read) ==
  /\ trees' = [trees EXCEPT ![t][f] = read]
  /\ manifest' = [manifest EXCEPT ![t][f] = read]

\* One file of copySnapshotFiles, by any goroutine of the pool and so in any
\* order; an error stops none of the others.  The content is read while the
\* user edits: it may be the one before or the one after an edit.
CopyOne(t) ==
  /\ step = (IF t = "snap" THEN "copy snap" ELSE "copy worker")
  /\ \E f \in listed :
       /\ \/ /\ trees[Source(t)][f] # 0
             /\ \E read \in {trees[Source(t)][f]} \cup (IF t = "snap" /\ edits > 0 THEN {1, 2} ELSE {}) :
                  CopyFile(t, f, read)
             /\ UNCHANGED uncopied
          \/ /\ t = "snap" /\ uncopied' = uncopied \cup {f}
             /\ UNCHANGED <<trees, manifest>>
       /\ listed' = listed \ {f}
  /\ UNCHANGED <<step, isolating, gated, irregular, drifts, edits, writes>>

\* copySnapshotFiles after its pool is done: the first error in path order,
\* with abandon, which removes what was copied.
CopyEnds(t) ==
  /\ step = (IF t = "snap" THEN "copy snap" ELSE "copy worker") /\ listed = {}
  /\ IF uncopied # {}
     THEN /\ step' = "over" /\ uncopied' = {Min(uncopied)}
          /\ trees' = [trees EXCEPT ![t] = Nothing] /\ manifest' = [manifest EXCEPT ![t] = Nothing]
     ELSE /\ step' = (IF t = "snap" THEN "baseline" ELSE "instrumented baseline") /\ UNCHANGED <<uncopied, trees, manifest>>
  /\ UNCHANGED <<isolating, gated, irregular, listed, drifts, edits, writes>>

-----------------------------------------------------------------------------
(* Redigest and Restore *)

\* Redigest: added, changed and removed files.
Redigest(t) == {f \in Files : manifest[t][f] # trees[t][f]}

\* The baseline is over.  Under --isolate the snapshot is put back first.
BaselineEnds ==
  /\ step = "baseline"
  /\ drifts' = IF isolating THEN Redigest("snap") ELSE {}
  /\ step' = IF isolating THEN "restore snap" ELSE "instrument"
  /\ UNCHANGED <<isolating, gated, trees, irregular, listed, uncopied, manifest, edits, writes>>

\* MUTANT: what is copied back is not compared with the manifest.
RestoredUnchecked(t, f, content) == TRUE

\* restoreOne's last check, on the digest of what it copied.
Restored(t, f, content) == content = manifest[t][f]

\* restoreOne, in path order: the file goes, and is copied back from the tree
\* the snapshot was made of unless it was added.
RestoreOne(t) ==
  /\ step = (IF t = "snap" THEN "restore snap" ELSE "restore worker") /\ drifts # {}
  /\ LET f == Min(drifts)
         content == trees[Source(t)][f]
     IN IF manifest[t][f] = 0
        THEN trees' = [trees EXCEPT ![t][f] = 0] /\ drifts' = drifts \ {f} /\ UNCHANGED <<step, uncopied>>
        ELSE /\ trees' = [trees EXCEPT ![t][f] = content]
             /\ IF content # 0 /\ Restored(t, f, content)
                THEN drifts' = drifts \ {f} /\ UNCHANGED <<step, uncopied>>
                ELSE drifts' = {} /\ step' = "over" /\ uncopied' = {f}
  /\ UNCHANGED <<isolating, gated, irregular, listed, manifest, edits, writes>>

RestoreEnds(t) ==
  /\ step = (IF t = "snap" THEN "restore snap" ELSE "restore worker") /\ drifts = {}
  /\ step' = IF t = "snap" THEN "instrument" ELSE IF gated THEN "ready" ELSE "gate"
  /\ UNCHANGED <<isolating, gated, trees, irregular, listed, uncopied, manifest, drifts, edits, writes>>

-----------------------------------------------------------------------------
(* What the run does with the trees *)

\* Instrumentation rewrites files of the snapshot and adds the runtime's.
Instrument ==
  /\ step = "instrument"
  /\ trees' = [trees EXCEPT !["snap"] =
                [f \in Files |-> IF f \in Generated \/ (f \in Instrumented /\ @[f] # 0)
                                 THEN InstrumentedText ELSE @[f]]]
  /\ step' = IF isolating THEN "walk worker" ELSE "instrumented baseline"
  /\ UNCHANGED <<isolating, gated, irregular, listed, uncopied, manifest, drifts, edits, writes>>

\* drift.Unexpected: a changed instrumented file and an added file of the
\* runtime are what instrumentation did; nothing else may differ.
Unexpected ==
  {f \in Redigest("snap") :
     ~(\/ f \in Instrumented /\ manifest["snap"][f] # 0 /\ trees["snap"][f] # 0
       \/ f \in Generated /\ manifest["snap"][f] = 0)}

\* The instrumented baseline is over; it ran in the first worker's copy when
\* there is one, which is put back.
InstrumentedBaselineEnds ==
  /\ step = "instrumented baseline"
  /\ IF isolating THEN drifts' = Redigest("worker") /\ step' = "restore worker"
     ELSE step' = "gate" /\ UNCHANGED drifts
  /\ UNCHANGED <<isolating, gated, trees, irregular, listed, uncopied, manifest, edits, writes>>

\* driftGate: the snapshot is compared with its manifest either way.
DriftGate ==
  /\ step = "gate"
  /\ IF Unexpected = {} THEN step' = "gated" /\ gated' = TRUE /\ UNCHANGED uncopied
     ELSE step' = "over" /\ uncopied' = {Min(Unexpected)} /\ UNCHANGED gated
  /\ UNCHANGED <<isolating, trees, irregular, listed, manifest, drifts, edits, writes>>

\* A mutant starts (RunOne), and its tests run in the tree of its worker.
MutantStarts ==
  /\ step \in {"gated", "ready"}
  /\ step' = "measure"
  /\ UNCHANGED <<isolating, gated, trees, irregular, listed, uncopied, manifest, drifts, edits, writes>>

\* restoreWorker after a mutant, or nothing without --isolate.
MutantEnds ==
  /\ step = "measure"
  /\ IF isolating THEN drifts' = Redigest("worker") /\ step' = "restore worker"
     ELSE step' = "ready" /\ UNCHANGED drifts
  /\ UNCHANGED <<isolating, gated, trees, irregular, listed, uncopied, manifest, edits, writes>>

\* The tests run in the snapshot, and in the worker's copy once there is one.
TestsWrite ==
  \/ step = "baseline" /\ TestWrites("snap")
  \/ step \in {"instrumented baseline", "measure"} /\ TestWrites(IF isolating THEN "worker" ELSE "snap")

SnapshotNext ==
  \/ UserEdits \/ TestsWrite
  \/ \E t \in {"snap", "worker"} : Walk(t) \/ CopyOne(t) \/ CopyEnds(t) \/ RestoreOne(t) \/ RestoreEnds(t)
  \/ BaselineEnds \/ Instrument \/ InstrumentedBaselineEnds \/ DriftGate \/ MutantStarts \/ MutantEnds

SnapshotSpec == SnapshotInit /\ [][SnapshotNext]_snapshotVars

-----------------------------------------------------------------------------
(* Properties *)

\* A copy is what its manifest says however the source was edited under it,
\* until a test writes into it, and a file put back is one the manifest
\* names with its content.  So every mutant of an isolated worker starts from
\* the files its copy was made with, or the run stops; and the first mutant
\* measured in the snapshot starts from the files that were copied, with the
\* changes instrumentation makes and, but for the files it rewrote, nothing
\* either baseline left behind (Create, Restore, driftGate).
MutantsStartFromTheSame ==
  /\ step = "baseline" /\ writes = 0 => trees["snap"] = manifest["snap"]
  /\ step \in {"gated", "ready"} /\ isolating => trees["worker"] = manifest["worker"]
  /\ step = "gated" =>
       \A f \in Files \ (Instrumented \cup Generated) : trees["snap"][f] = manifest["snap"][f]
  /\ step = "gated" => \A f \in Instrumented : (trees["snap"][f] = 0) <=> (manifest["snap"][f] = 0)
  /\ step = "walk worker" =>
       \A f \in Files : trees["snap"][f] \in {manifest["snap"][f], InstrumentedText}
=============================================================================
