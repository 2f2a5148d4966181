------------------------------- MODULE Repair -------------------------------
(***************************************************************************)
(* Generated repairs (goatest/internal/assure/generation.go, validator.go, *)
(* goatest/internal/repair): a candidate test is validated in a copy of    *)
(* the repository against the original, its mutant and the suite.  A run   *)
(* applies the first that passes; goatest fix applies a batch, all of it   *)
(* or nothing, while the user may edit the same files.                     *)
(*                                                                         *)
(* A file holds 0 when it is absent; the preimage of a candidate is the    *)
(* content its author saw.                                                 *)
(***************************************************************************)
EXTENDS Naturals, Sequences, FiniteSets

CONSTANTS
    Batch,          \* the candidates, in order: [path, preimage, content, passes]
    RepairModes,    \* fix: a batch; run: one after the other; dry: none is applied
    RepairPaths,    \* the files the batch and the user write
    UserContent,    \* what the user writes
    MaxUserEdits    \* bound on the edits of the user

ASSUME RepairAssumption ==
    /\ Batch \in Seq([path : RepairPaths, preimage : Nat, content : Nat \ {0}, passes : Nat]) /\ Batch /= <<>>
    /\ RepairModes \subseteq {"fix", "run", "dry"} /\ UserContent \subseteq Nat \ {0}

VARIABLES
    mode,
    files,       \* path -> content in the repository
    original,    \* path -> what inspectApplication read there
    phase,       \* where the repair stands
    at,          \* the candidate the phase is at
    passed,      \* the checks it has passed, or Rejected
    todo,        \* the candidates of the transaction
    applied,     \* those written so far
    results,     \* candidate -> candidate, rejected, stored, artifact, applied
    failure,     \* what went wrong: none, write, preimage, rollback
    edits,       \* path -> what the user saved, in order
    slipped      \* paths whose last save fell between a comparison and its write

repairVars == <<mode, files, original, phase, at, passed, todo, applied, results, failure, edits, slipped>>

Candidates == 1 .. Len(Batch)
Path(i) == Batch[i].path
After(i, set) == {j \in set : j > i /\ \A k \in set : k > i => j <= k}

-----------------------------------------------------------------------------
(* Validation, in a copy of the repository *)

\* OriginalPasses, Kills and Suite, in this order: the original passes with the
\* candidate, its mutant does not, the suite passes and shows no race.
Checks == 3
Rejected == Checks + 1

\* copyRepository and writeCandidate: the repository is copied without the tool's
\* directories, and the candidate written where the copy still has the preimage;
\* an unsafe path, or a link in the repository, is refused there.
Written(i) == files[Path(i)] = Batch[i].preimage

\* withCandidate: each check has a copy of its own.
CheckCandidate ==
    /\ phase = "validate" /\ passed < Checks
    /\ passed' = IF Written(at) /\ passed < Batch[at].passes
               THEN passed + 1 ELSE Rejected
    /\ UNCHANGED <<mode, files, original, phase, at, todo, applied, results, failure, edits, slipped>>

\* ValidateCandidate ends with the last check, or with the first that fails.
Validated == phase = "validate" /\ passed >= Checks

NextCandidate ==
    /\ passed' = 0
    /\ IF at = Len(Batch) THEN phase' = "end" /\ UNCHANGED at
       ELSE at' = at + 1 /\ phase' = "validate"

\* A run takes one candidate after the other, and only stores it when it was
\* asked not to apply.
GenerateRepairs ==
    /\ Validated /\ mode /= "fix"
    /\ IF passed = Rejected \/ mode = "dry"
       THEN /\ results' = [results EXCEPT ![at] = IF passed = Rejected THEN "rejected" ELSE "stored"]
            /\ NextCandidate /\ UNCHANGED todo
       ELSE todo' = {at} /\ phase' = "inspect" /\ UNCHANGED <<at, passed, results>>
    /\ UNCHANGED <<mode, files, original, applied, failure, edits, slipped>>

\* goatest fix validates all of them first and applies none if one is rejected.
Fix ==
    /\ Validated /\ mode = "fix"
    /\ results' = [results EXCEPT ![at] = IF passed = Rejected THEN "rejected" ELSE @]
    /\ IF at < Len(Batch) THEN at' = at + 1 /\ passed' = 0 /\ UNCHANGED <<phase, todo>>
       ELSE /\ UNCHANGED <<at, passed>>
            /\ IF \E i \in Candidates : results'[i] = "rejected"
               THEN phase' = "end" /\ UNCHANGED todo
               ELSE phase' = "inspect" /\ todo' = Candidates
    /\ UNCHANGED <<mode, files, original, applied, failure, edits, slipped>>

-----------------------------------------------------------------------------
(* The transaction *)

\* A run goes on to the next candidate after one that was not applied.
EndTransaction ==
    IF mode = "fix" \/ results'[at] = "applied" THEN phase' = "end" /\ UNCHANGED <<at, passed>>
    ELSE NextCandidate

\* The batch names no path twice; each target is read, and a candidate whose
\* preimage is gone is kept beside the repository as an artifact.
InspectApplications ==
    /\ phase = "inspect"
    /\ original' = files
    /\ LET changed == {i \in todo : files[Path(i)] /= Batch[i].preimage}
           twice == \E i, j \in todo : i /= j /\ Path(i) = Path(j)
       IN  /\ results' = [i \in Candidates |->
                             IF i \in changed /\ ~twice THEN "artifact" ELSE results[i]]
           /\ IF changed /= {} \/ twice THEN EndTransaction
              ELSE phase' = "check" /\ at' \in After(0, todo) /\ UNCHANGED passed
    /\ UNCHANGED <<mode, files, todo, applied, failure, edits, slipped>>

Unapplied(r) == [i \in Candidates |-> IF r[i] = "applied" THEN "candidate" ELSE r[i]]

\* The preimage is compared again just before the write.
CheckPreimage ==
    /\ phase = "check"
    /\ IF files[Path(at)] = Batch[at].preimage
       THEN phase' = "write" /\ UNCHANGED <<results, failure>>
       ELSE /\ phase' = "rollback" /\ failure' = "preimage"
            /\ results' = [Unapplied(results) EXCEPT ![at] = "artifact"]
    /\ UNCHANGED <<mode, files, original, at, passed, todo, applied, edits, slipped>>

WriteSucceeds ==
    /\ files' = [files EXCEPT ![Path(at)] = Batch[at].content]
    /\ results' = [results EXCEPT ![at] = "applied"]
    /\ applied' = applied \cup {at}
    /\ IF After(at, todo) = {} THEN EndTransaction ELSE phase' = "check" /\ at' \in After(at, todo) /\ UNCHANGED passed
    /\ UNCHANGED failure

\* A temporary file is renamed over the target; a failure undoes the batch.
WriteCandidate ==
    /\ phase = "write"
    /\ \/ WriteSucceeds
       \/ /\ phase' = "rollback" /\ failure' = "write" /\ results' = Unapplied(results)
          /\ UNCHANGED <<files, applied, at, passed>>
    /\ UNCHANGED <<mode, original, todo, edits, slipped>>

\* Mutant: a file is put back whatever it holds now.
RollbackBlind ==
    /\ phase = "rollback"
    /\ IF applied = {} THEN results' = results /\ EndTransaction
       ELSE /\ at' \in {i \in applied : \A j \in applied : j <= i}
            /\ phase' = "restore" /\ UNCHANGED <<results, passed>>
    /\ UNCHANGED <<mode, files, original, todo, applied, failure, edits, slipped>>

\* Backwards; a file that no longer holds the candidate is the user's and stays.
Rollback ==
    /\ phase = "rollback"
    /\ UNCHANGED results
    /\ IF applied = {} THEN EndTransaction /\ UNCHANGED <<applied, failure>>
       ELSE \E i \in applied :
               /\ \A j \in applied : j <= i
               /\ at' = i /\ UNCHANGED passed
               /\ IF files[Path(i)] = Batch[i].content
                  THEN phase' = "restore" /\ UNCHANGED <<applied, failure>>
                  ELSE applied' = applied \ {i} /\ failure' = "rollback" /\ UNCHANGED phase
    /\ UNCHANGED <<mode, files, original, todo, edits, slipped>>

Restore ==
    /\ phase = "restore" /\ phase' = "rollback"
    /\ applied' = applied \ {at}
    /\ \/ files' = [files EXCEPT ![Path(at)] = original[Path(at)]] /\ UNCHANGED failure
       \/ failure' = "rollback" /\ UNCHANGED files
    /\ UNCHANGED <<mode, original, at, passed, todo, results, edits, slipped>>

\* The user saves a file; between a comparison and its write nothing notices.
UserSaves ==
    /\ phase /= "end"
    /\ \E p \in RepairPaths, c \in UserContent :
          /\ Len(edits[p]) < MaxUserEdits
          /\ files' = [files EXCEPT ![p] = c]
          /\ edits' = [edits EXCEPT ![p] = Append(@, c)]
          /\ slipped' = IF phase \in {"write", "restore"} /\ p = Path(at)
                        THEN slipped \cup {p} ELSE slipped \ {p}
    /\ UNCHANGED <<mode, original, phase, at, passed, todo, applied, results, failure>>

RepairStart(f) ==
    /\ mode \in RepairModes
    /\ files = f /\ original = f
    /\ phase = "validate" /\ at = 1 /\ passed = 0 /\ todo = {} /\ applied = {}
    /\ results = [i \in Candidates |-> "candidate"]
    /\ failure = "none"
    /\ edits = [p \in RepairPaths |-> <<>>] /\ slipped = {}

RepairNext ==
    \/ CheckCandidate \/ GenerateRepairs \/ Fix \/ InspectApplications \/ CheckPreimage \/ WriteCandidate
    \/ Rollback \/ Restore \/ UserSaves

RepairInit == \E f \in [RepairPaths -> Nat] : RepairStart(f)

RepairSpec == RepairInit /\ [][RepairNext]_repairVars

-----------------------------------------------------------------------------
(* Properties *)

\* What the user saved last of a file.
LastSave(p) == edits[p][Len(edits[p])]

\* What the user saved last is what the file holds when the repair ends, unless
\* it is the very preimage a candidate asks for, or the very content it writes
\* (which a rollback takes for its own), or the save fell between the last
\* comparison and the rename (user edits are preserved, goatest/internal/repair);
\* a batch is applied as a whole or undone as a whole, and a candidate left in a
\* file nobody saved is one whose rollback was reported as failed, or was there
\* before.
RepairsAreAllOrNothing ==
    phase = "end" =>
       /\ \A p \in RepairPaths :
             /\ edits[p] /= <<>> /\ p \notin slipped
             /\ \A i \in Candidates : Path(i) = p => LastSave(p) \notin {Batch[i].preimage, Batch[i].content}
             => files[p] = LastSave(p)
       /\ \/ \A i \in todo : results[i] = "applied"
          \/ failure = "rollback"
          \/ \A i \in todo :
                files[Path(i)] = Batch[i].content /\ original[Path(i)] /= Batch[i].content => edits[Path(i)] /= <<>>

=============================================================================
