---------------------------- MODULE HistoryStore ----------------------------
(***************************************************************************)
(* The run history (internal/report/history.go, enumerate.go): a directory *)
(* for each workspace digest, claimed with a marker file, with the stored  *)
(* runs and a copy of the newest beside them; and the commands that read   *)
(* and empty it (internal/cli/report.go).                                  *)
(*                                                                         *)
(* Any number of runs store their reports at once, in other processes and  *)
(* in no order, while `report clean` empties the history; each file        *)
(* operation is a step and a process may die between any two of them.  A   *)
(* run is the moment it finished.  RemoveAll is one step, and what makes a *)
(* stored document unreadable from outside is left out.                    *)
(***************************************************************************)
EXTENDS Integers, Sequences, FiniteSets, SequencesExt

CONSTANTS
  StoredRuns,   \* the runs, numbered by the moment they finished
  Digests,      \* the workspace digests
  DigestOf,     \* run -> the digest of the workspace it measured
  ModuleOf,     \* run -> the module it measured
  Keys,         \* the names of the workspace directories
  KeyOf,        \* WorkspaceKey: digest -> a prefix of its hash
  Cleaned,      \* the module whose history `report clean` deletes
  MaxCleans     \* bound: cleans

\* A run's moment is no mark for "none", and the digest of a workspace covers its
\* go.mod.
ASSUME HistoryAssumption ==
  /\ StoredRuns \subseteq Nat \ {0} /\ IsFiniteSet(StoredRuns) /\ IsFiniteSet(Keys)
  /\ DigestOf \in [StoredRuns -> Digests] /\ KeyOf \in [Digests -> Keys]
  /\ {"no marker", "half a marker", "a marker of something else"} \cap Digests = {}
  /\ \A r, s \in StoredRuns : DigestOf[r] = DigestOf[s] => ModuleOf[r] = ModuleOf[s]

VARIABLES
  linking,   \* whether os.Link works in the store's file system
  store,     \* key -> the workspace directory
  writing,   \* run -> where History.Write is in it
  cleaning,  \* where `report clean` is, and the directories it has left
  deleted    \* the runs a clean removed

historyVars == <<linking, store, writing, cleaning, deleted>>

NoMarker == "no marker"
HalfMarker == "half a marker"
OtherTool == "a marker of something else"
NoWorkspace == [there |-> FALSE, marker |-> NoMarker, runsDir |-> FALSE, files |-> {}, latest |-> 0]

HistoryInit ==
  /\ linking \in BOOLEAN
  /\ store \in [Keys -> {NoWorkspace, [NoWorkspace EXCEPT !.there = TRUE, !.marker = OtherTool]}]
  /\ writing = [r \in StoredRuns |-> "called"]
  /\ cleaning = [at |-> "idle", left |-> <<>>, done |-> 0]
  /\ deleted = {}

Dir(r) == KeyOf[DigestOf[r]]
WriteGoes(r, at) == writing' = [writing EXCEPT ![r] = at]
SetDir(r, field, value) == store' = [store EXCEPT ![Dir(r)][field] = value]

-----------------------------------------------------------------------------
(* History.Write *)

\* Claim: the directory, then claim's first look at the marker.
ClaimMakes(r) ==
  /\ writing[r] = "called"
  /\ SetDir(r, "there", TRUE) /\ WriteGoes(r, "look")
  /\ UNCHANGED <<linking, cleaning, deleted>>

\* sameMarker, on the first look and on the one after a lost race.
SameMarker(r) == store[Dir(r)].marker = DigestOf[r]

ClaimLooks(r) ==
  /\ writing[r] \in {"look", "look again"}
  /\ IF store[Dir(r)].marker = NoMarker
     THEN WriteGoes(r, IF writing[r] = "look" THEN "create" ELSE "failed")
     ELSE WriteGoes(r, IF SameMarker(r) THEN "claimed" ELSE "refused")
  /\ UNCHANGED <<linking, store, cleaning, deleted>>

\* MUTANT: the marker is always created under its name and then written.
CreateMarkerOpened(r) ==
  /\ writing[r] = "create"
  /\ IF store[Dir(r)].marker # NoMarker THEN WriteGoes(r, "look again") /\ UNCHANGED store
     ELSE SetDir(r, "marker", HalfMarker) /\ WriteGoes(r, "in place")
  /\ UNCHANGED <<linking, cleaning, deleted>>

\* createMarker: a whole marker is linked into place, or, where there are no
\* links, createMarkerInPlace opens the name itself.
CreateMarker(r) ==
  /\ writing[r] = "create"
  /\ IF store[Dir(r)].marker # NoMarker THEN WriteGoes(r, "look again") /\ UNCHANGED store
     ELSE IF linking THEN SetDir(r, "marker", DigestOf[r]) /\ WriteGoes(r, "claimed")
     ELSE SetDir(r, "marker", HalfMarker) /\ WriteGoes(r, "in place")
  /\ UNCHANGED <<linking, cleaning, deleted>>

\* createMarkerInPlace: a failed write takes the marker away again.
CreateMarkerInPlace(r) ==
  /\ writing[r] = "in place"
  /\ \/ SetDir(r, "marker", DigestOf[r]) /\ WriteGoes(r, "claimed")
     \/ SetDir(r, "marker", NoMarker) /\ WriteGoes(r, "failed")
  /\ UNCHANGED <<linking, cleaning, deleted>>

\* store: the directory of the runs.
StoreMakes(r) ==
  /\ writing[r] = "claimed"
  /\ SetDir(r, "runsDir", TRUE) /\ WriteGoes(r, "run")
  /\ UNCHANGED <<linking, cleaning, deleted>>

\* writeAtomic of runs/<id>.json: the temporary file, written and flushed in
\* the directory, is renamed over the name; without the directory both fail.
StoreRun(r) ==
  /\ writing[r] = "run"
  /\ IF store[Dir(r)].runsDir
     THEN SetDir(r, "files", store[Dir(r)].files \cup {r}) /\ WriteGoes(r, "latest")
     ELSE WriteGoes(r, "failed") /\ UNCHANGED store
  /\ UNCHANGED <<linking, cleaning, deleted>>

\* writeAtomic of latest.json: whoever comes last.
StoreLatest(r) ==
  /\ writing[r] = "latest"
  /\ SetDir(r, "latest", r) /\ WriteGoes(r, "stored")
  /\ UNCHANGED <<linking, cleaning, deleted>>

WriteOver == {"stored", "refused", "failed", "dead"}

\* A write fails (a full disk, a rename refused three times) or the process
\* dies; a marker half written stays as it is then.
WriteStops(r) ==
  /\ writing[r] \notin WriteOver
  /\ WriteGoes(r, "dead")
  /\ UNCHANGED <<linking, store, cleaning, deleted>>

-----------------------------------------------------------------------------
(* Reading the history *)

\* ReadMarker and the check of List: a marker this store wrote, in the
\* directory of its own key.
Owned(k) == store[k].marker \in Digests /\ KeyOf[store[k].marker] = k

\* readWorkspace: the stored runs, and the newest one's copy when its run is
\* not among them.
RunsIn(k) == store[k].files \cup ({store[k].latest} \ {0})

\* readHistory: the module's runs of every owned directory; the callers sort
\* them newest first.
ReadHistory(module) ==
  {r \in UNION {RunsIn(k) : k \in {j \in Keys : Owned(j)}} : ModuleOf[r] = module}

\* report latest, and the run `explain` reads.
Newest(module) ==
  LET runs == ReadHistory(module)
  IN IF runs = {} THEN 0 ELSE CHOOSE r \in runs : \A s \in runs : s <= r

-----------------------------------------------------------------------------
(* report clean *)

\* runReportClean reads the history first: the directories with a run of the
\* module in them, with the digests their markers had then.
CleanReads ==
  /\ cleaning.at = "idle" /\ cleaning.done < MaxCleans
  /\ LET mine == {k \in Keys : Owned(k) /\ \E r \in RunsIn(k) : ModuleOf[r] = Cleaned}
     IN cleaning' = [cleaning EXCEPT !.at = "runs",
                                     !.left = SetToSeq({[key |-> k, digest |-> store[k].marker] : k \in mine})]
  /\ UNCHANGED <<linking, store, writing, deleted>>

\* RemoveRuns: the marker is read again, the runs go with their directory.
RemoveRuns ==
  /\ cleaning.at = "runs" /\ cleaning.left # <<>>
  /\ LET k == Head(cleaning.left).key
     IN IF store[k].marker = Head(cleaning.left).digest
        THEN /\ deleted' = deleted \cup store[k].files
             /\ store' = [store EXCEPT ![k].runsDir = FALSE, ![k].files = {}]
             /\ cleaning' = [cleaning EXCEPT !.at = "latest"]
        ELSE /\ cleaning' = [at |-> "idle", left |-> <<>>, done |-> cleaning.done + 1]
             /\ UNCHANGED <<store, deleted>>
  /\ UNCHANGED <<linking, writing>>

\* RemoveRuns, then the copy of the newest run.
RemoveLatest ==
  /\ cleaning.at = "latest"
  /\ LET k == Head(cleaning.left).key
     IN /\ store' = [store EXCEPT ![k].latest = 0]
        /\ deleted' = deleted \cup ({store[k].latest} \ {0})
  /\ cleaning' = [cleaning EXCEPT !.at = "runs", !.left = Tail(@)]
  /\ UNCHANGED <<linking, writing>>

CleanEnds ==
  /\ cleaning.at = "runs" /\ cleaning.left = <<>>
  /\ cleaning' = [at |-> "idle", left |-> <<>>, done |-> cleaning.done + 1]
  /\ UNCHANGED <<linking, store, writing, deleted>>

HistoryNext ==
  \/ \E r \in StoredRuns :
       \/ ClaimMakes(r) \/ ClaimLooks(r) \/ CreateMarker(r) \/ CreateMarkerInPlace(r)
       \/ StoreMakes(r) \/ StoreRun(r) \/ StoreLatest(r) \/ WriteStops(r)
  \/ CleanReads \/ RemoveRuns \/ RemoveLatest \/ CleanEnds

HistorySpec == HistoryInit /\ [][HistoryNext]_historyVars

-----------------------------------------------------------------------------
(* Properties *)

\* A run that was told its report is filed stays in the history of its module
\* until a clean of that module takes it: the runs that end beside it, those
\* that die or are refused, and the copy of the newest run they all write
\* over never hide it, and the newest filed run is the one shown first.
FiledIsFound ==
  \A r \in StoredRuns :
    writing[r] = "stored" /\ r \notin deleted =>
      r \in ReadHistory(ModuleOf[r]) /\ Newest(ModuleOf[r]) >= r

\* A run is refused its directory only when something else owns it; two runs
\* that claim one directory at once both get it, wherever files can be linked
\* into place (createMarker).
RefusalIsDeserved ==
  \A r \in StoredRuns :
    linking /\ writing[r] = "refused" => store[Dir(r)].marker \in {OtherTool} \cup (Digests \ {DigestOf[r]})

\* A directory of something else, or of a workspace whose digest has the same
\* key, never holds a document of a run that is not its owner's, and a clean
\* of one module deletes no run of another (claim, RemoveRuns).
OwnersAreApart ==
  /\ \A k \in Keys : store[k].marker \notin Digests => RunsIn(k) = {}
  /\ \A k \in Keys : \A r \in RunsIn(k) : DigestOf[r] = store[k].marker
  /\ \A r \in deleted : ModuleOf[r] = Cleaned

HistoryIsKept == FiledIsFound /\ RefusalIsDeserved /\ OwnersAreApart
=============================================================================
