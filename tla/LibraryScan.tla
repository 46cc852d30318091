---------------------------- MODULE LibraryScan ----------------------------
(***************************************************************************)
(* One library: the folders on its volume, the index rows that describe    *)
(* them, and everything that moves the two apart or back together.         *)
(*                                                                         *)
(* A scan (packages/core/src/scan/scan-service.ts) is a sequence of        *)
(* separately committed statements, so each statement whose effect another *)
(* actor can see is an action of its own.  Beside it run the owner of the  *)
(* volume (adds, renames and deletes folders, unplugs the drive), the user *)
(* who removes and restores models (delete-service.ts), the nightly prune  *)
(* (prune-service.ts) and the crash of the worker.                         *)
(*                                                                         *)
(* Scans of one library exclude each other (library-scan-lock.ts), so one  *)
(* scan at a time is all there is to interleave with.                      *)
(***************************************************************************)
EXTENDS Integers, FiniteSets

CONSTANTS
  Path,              \* folder paths a model can have inside the library
  LooseFile,         \* the paths whose model is one loose file (is_file_model)
  Filename, Size,    \* what a file is known by before it has a digest
  Content,           \* the file sets a folder may hold
  Id,                \* ids of model rows
  NoModel,           \* value of a row that does not exist
  GraceDays,         \* days a missing row is kept
  MinModels,         \* MIN_MODELS_FOR_THRESHOLD
  ThresholdPercent,  \* MASS_DISAPPEARANCE_THRESHOLD, in percent
  Outage,            \* the sets of paths that can drop off the volume together
  RootHasOtherFiles, \* TRUE when the root holds entries that are not models
  MaxDisk, MaxRemove, MaxOutage, MaxCrash   \* bounds on outside events

File == Filename \X Size

ASSUME ScanAssumption ==
  /\ LooseFile \subseteq Path
  /\ IsFiniteSet(Path) /\ IsFiniteSet(Id)
  /\ Content \subseteq (SUBSET File) \ {{}}
  /\ \A c \in Content : \A f, g \in c : f[1] = g[1] => f = g
  /\ GraceDays \in Nat \ {0}
  /\ MinModels \in Nat /\ ThresholdPercent \in 0..100
  /\ Outage \subseteq SUBSET Path
  /\ RootHasOtherFiles \in BOOLEAN
  /\ {MaxDisk, MaxRemove, MaxOutage, MaxCrash} \subseteq Nat

Present == -1      \* missing_at IS NULL
NoFolder == {}     \* no file of a model at that path
Nowhere == "nowhere"

Row == [path : Path, files : SUBSET File, missing : Present..GraceDays]

ASSUME NoModelAssumption == NoModel \notin Row

VARIABLES
  disk,        \* [Path -> files in that folder]
  reachable,   \* does the storage health check succeed
  hidden,      \* folders of an unmounted part of the volume
  models,      \* the table models, with the live rows of model_files folded in
  exclusions,  \* the table model_exclusions
  removing,    \* models excluded whose row is still to be deleted
  phase,       \* where the scan is
  force,       \* the option of the scan in progress
  known,       \* knownModelCount
  unread,      \* directories the walk has still to read
  walked,      \* what it found in the others
  excluded,    \* the exclusions as this scan loaded them
  matches,     \* renames recognised and not yet written: {<<id, new path>>}
  done,        \* folders upserted by this scan
  touched,     \* rows with last_seen_at >= startedAt
  current,     \* the row and folder of the upsert in progress
  outcome,     \* how the last scan ended
  pruning,     \* what the prune in progress has decided
  count        \* how many of each bounded outside event have happened

diskVars == <<disk, reachable, hidden>>
tableVars == <<models, exclusions, removing>>
gateVars == <<force, known>>
walkVars == <<unread, walked>>
foldVars == <<excluded, matches>>
upsertVars == <<done, touched, current>>
scanVars == <<phase, gateVars, walkVars, foldVars, upsertVars, outcome>>
vars == <<diskVars, tableVars, scanVars, pruning, count>>

----------------------------------------------------------------------------
(* What the tables and the volume say. *)

Exists(i) == models[i] # NoModel
Live(i) == Exists(i) /\ models[i].missing = Present
Rows == {i \in Id : Exists(i)}
LiveRows == {i \in Id : Live(i)}
RowsAt(p) == {i \in Rows : models[i].path = p}
LivePaths == {models[i].path : i \in LiveRows}

Visible(p) == reachable /\ p \notin hidden /\ disk[p] # NoFolder
VisiblePaths == {p \in Path : Visible(p)}

\* A row of model_files is found by its name and takes the new size.
Merge(old, new) == new \cup {f \in old : \A g \in new : g[1] # f[1]}

FoundPaths == {p \in Path : walked[p] # NoFolder}
\* Mutant: removed models are upserted like the others.
ToUpsertRemoved == FoundPaths \ done

ToUpsert == (FoundPaths \ excluded) \ done

----------------------------------------------------------------------------
(* The scan. *)

EndScan(result) ==
  /\ phase' = "idle"
  /\ outcome' = result
  /\ force' = FALSE /\ known' = 0 /\ excluded' = {}
  /\ unread' = Path /\ walked' = [p \in Path |-> NoFolder]
  /\ matches' = {} /\ done' = {} /\ touched' = {} /\ current' = Nowhere

StartScan ==
  /\ phase = "idle"
  /\ phase' = "health"
  /\ outcome' = "running"
  /\ \E f \in BOOLEAN : force' = f
  /\ UNCHANGED <<diskVars, tableVars, known, walkVars, foldVars, upsertVars,
                 pruning, count>>

RootIsEmpty == VisiblePaths = {} /\ ~RootHasOtherFiles

\* Guards 1 and 2.
CheckHealth ==
  /\ phase = "health"
  /\ \/ /\ ~reachable
        /\ EndScan("storage_unavailable")
     \/ /\ reachable /\ RootIsEmpty /\ LiveRows # {} /\ ~force
        /\ EndScan("empty_root")
     \/ /\ reachable /\ (RootIsEmpty => LiveRows = {} \/ force)
        /\ phase' = "walk"
        /\ known' = Cardinality(LiveRows)
        /\ UNCHANGED <<force, walkVars, foldVars, upsertVars, outcome>>
  /\ UNCHANGED <<diskVars, tableVars, pruning, count>>

\* The walk reads one directory after the other while the owner works on them;
\* a directory that cannot be read counts as one with nothing in it.
WalkFolder(p) ==
  /\ phase = "walk"
  /\ p \in unread
  /\ unread' = unread \ {p}
  /\ walked' = [walked EXCEPT ![p] = IF Visible(p) THEN disk[p] ELSE NoFolder]
  /\ UNCHANGED <<diskVars, tableVars, phase, gateVars, foldVars, upsertVars,
                 outcome, pruning, count>>

WouldGoMissing == {i \in LiveRows : models[i].path \notin FoundPaths}

\* Mutant: a library of exactly the minimum is not protected.
TooManyGoneOffByOne ==
  /\ ~force
  /\ known > MinModels
  /\ Cardinality(WouldGoMissing) * 100 > ThresholdPercent * known

\* Mutant: an admin's confirmation is not heard.
TooManyGoneEvenForced ==
  /\ known >= MinModels
  /\ Cardinality(WouldGoMissing) * 100 > ThresholdPercent * known

TooManyGone ==
  /\ ~force
  /\ known >= MinModels
  /\ Cardinality(WouldGoMissing) * 100 > ThresholdPercent * known

\* Guard 3; past it the scan loads the exclusions it will honour to its end.
CheckDisappearance ==
  /\ phase = "walk"
  /\ unread = {}
  /\ \/ /\ TooManyGone
        /\ EndScan("mass_disappearance")
     \/ /\ ~TooManyGone
        /\ phase' = "match"
        /\ excluded' = exclusions
        /\ UNCHANGED <<gateVars, walkVars, matches, upsertVars, outcome>>
  /\ UNCHANGED <<diskVars, tableVars, pruning, count>>

\* foldRenamedModels: live folder models whose path was not walked, ...
Vanished == {i \in WouldGoMissing : models[i].path \notin LooseFile}

\* Mutant: a twin that did not vanish makes a rename ambiguous too.
RecognisableAmongAll(i) ==
  /\ models[i].files # {}
  /\ \A j \in LiveRows \ {i} : models[j].files # models[i].files

\* ... the only one of them to hold its files, ...
Recognisable(i) ==
  /\ models[i].files # {}
  /\ \A j \in Vanished \ {i} : models[j].files # models[i].files

\* ... and the walked folders no live row describes.
NewFolders == (FoundPaths \ LooseFile) \ (LivePaths \cup excluded)

Candidates(i) == {p \in NewFolders : walked[p] = models[i].files}

\* Which folder of several copies is met first depends on the walk.  The live
\* rows and the files of the vanished ones are read by two statements; a model
\* removed between the two has no files left to be recognised by, as if it had
\* been removed before both.
MatchRenames ==
  /\ phase = "match"
  /\ phase' = "fold"
  /\ LET Matched == {i \in Vanished : Recognisable(i) /\ Candidates(i) # {}}
     IN \E target \in [Matched -> Path] :
          /\ \A i \in Matched : target[i] \in Candidates(i)
          /\ matches' = {<<i, target[i]>> : i \in Matched}
  /\ UNCHANGED <<diskVars, tableVars, gateVars, walkVars, excluded, upsertVars,
                 outcome, pruning, count>>

\* models_library_path_uq covers missing rows too: the update fails on a path
\* one of them still holds.  A row deleted meanwhile is no row to update.
FoldRename(i, p) ==
  /\ phase = "fold"
  /\ <<i, p>> \in matches
  /\ \/ /\ Exists(i) /\ RowsAt(p) \subseteq {i}
        /\ models' = [models EXCEPT ![i].path = p]
        /\ matches' = matches \ {<<i, p>>}
        /\ UNCHANGED <<phase, gateVars, walkVars, excluded, upsertVars,
                       outcome>>
     \/ /\ ~Exists(i)
        /\ matches' = matches \ {<<i, p>>}
        /\ UNCHANGED <<models, phase, gateVars, walkVars, excluded, upsertVars,
                       outcome>>
     \/ /\ Exists(i) /\ ~(RowsAt(p) \subseteq {i})
        /\ EndScan("failed")
        /\ UNCHANGED models
  /\ UNCHANGED <<diskVars, exclusions, removing, pruning, count>>

BeginUpserts ==
  /\ phase = "fold"
  /\ matches = {}
  /\ phase' = "upsert"
  /\ UNCHANGED <<diskVars, tableVars, gateVars, walkVars, foldVars, upsertVars,
                 outcome, pruning, count>>

\* Mutant: only a new row gets last_seen_at.
UpsertModelUnseen(p, i) ==
  /\ phase = "upsert"
  /\ p \in ToUpsert
  /\ \/ /\ i \in RowsAt(p)
        /\ models' = [models EXCEPT ![i].missing = Present]
        /\ UNCHANGED touched
     \/ /\ RowsAt(p) = {} /\ ~Exists(i)
        /\ models' = [models EXCEPT ![i] =
                        [path |-> p, files |-> {}, missing |-> Present]]
        /\ touched' = touched \cup {i}
  /\ phase' = "files"
  /\ current' = <<i, p>>
  /\ UNCHANGED <<diskVars, exclusions, removing, gateVars, walkVars, foldVars,
                 done, outcome, pruning, count>>

\* upsertModelRows, its first half: the row of models.
UpsertModel(p, i) ==
  /\ phase = "upsert"
  /\ p \in ToUpsert
  /\ \/ /\ i \in RowsAt(p)
        /\ models' = [models EXCEPT ![i].missing = Present]
     \/ /\ RowsAt(p) = {} /\ ~Exists(i)
        /\ models' = [models EXCEPT ![i] =
                        [path |-> p, files |-> {}, missing |-> Present]]
  /\ phase' = "files"
  /\ touched' = touched \cup {i}
  /\ current' = <<i, p>>
  /\ UNCHANGED <<diskVars, exclusions, removing, gateVars, walkVars, foldVars,
                 done, outcome, pruning, count>>

\* Its second half writes the files one by one, each a statement of its own;
\* which of them are written first depends on the walk.
UpsertPartOfFiles ==
  /\ phase = "files"
  /\ Exists(current[1])
  /\ \E part \in (SUBSET walked[current[2]]) \ {walked[current[2]]} :
       models' = [models EXCEPT ![current[1]].files = Merge(@, part)]
  /\ UNCHANGED <<diskVars, exclusions, removing, scanVars, pruning, count>>

\* The last of them, and updateModelRollups.  The model may have been removed
\* in between: a new file then has no row to belong to, while files that had
\* rows before are updated in vain and the scan goes on.
UpsertFiles ==
  /\ phase = "files"
  /\ LET i == current[1]
         p == current[2]
     IN \/ /\ Exists(i)
           /\ models' = [models EXCEPT ![i].files = Merge(@, walked[p])]
           /\ phase' = "upsert"
           /\ done' = done \cup {p}
           /\ current' = Nowhere
           /\ UNCHANGED <<gateVars, walkVars, foldVars, touched, outcome>>
        \/ /\ ~Exists(i)
           /\ phase' = "upsert"
           /\ done' = done \cup {p}
           /\ current' = Nowhere
           /\ UNCHANGED <<models, gateVars, walkVars, foldVars, touched, outcome>>
        \/ /\ ~Exists(i)
           /\ EndScan("failed")
           /\ UNCHANGED models
  /\ UNCHANGED <<diskVars, exclusions, removing, pruning, count>>

\* markMissing, the files: those this scan did not see are no longer live.
MarkFilesMissing ==
  /\ phase = "upsert"
  /\ ToUpsert = {}
  /\ phase' = "mark"
  /\ models' = [i \in Id |->
       IF ~Exists(i) THEN NoModel
       ELSE [models[i] EXCEPT !.files =
               IF i \in touched THEN @ \cap walked[models[i].path] ELSE {}]]
  /\ UNCHANGED <<diskVars, exclusions, removing, gateVars, walkVars, foldVars,
                 upsertVars, outcome, pruning, count>>

\* markMissing, the models.
MarkModelsMissing ==
  /\ phase = "mark"
  /\ phase' = "finish"
  /\ models' = [i \in Id |->
       IF Live(i) /\ i \notin touched
       THEN [models[i] EXCEPT !.missing = 0]
       ELSE models[i]]
  /\ UNCHANGED <<diskVars, exclusions, removing, gateVars, walkVars, foldVars,
                 upsertVars, outcome, pruning, count>>

\* saveFingerprints, derived work, search vectors, then the run's result.
FinishScan ==
  /\ phase = "finish"
  /\ EndScan("succeeded")
  /\ UNCHANGED <<diskVars, tableVars, pruning, count>>

Bump(event) == count' = [count EXCEPT ![event] = @ + 1]

\* A statement fails, or the worker dies and PostgreSQL releases the lock; the
\* run of a dead worker stays 'running'.  What was committed stays.
InterruptScan ==
  /\ phase # "idle"
  /\ count.crash < MaxCrash /\ Bump("crash")
  /\ \E result \in {"failed", "running"} : EndScan(result)
  /\ UNCHANGED <<diskVars, tableVars, pruning>>

ScanStep ==
  \/ StartScan
  \/ CheckHealth
  \/ \E p \in Path : WalkFolder(p)
  \/ CheckDisappearance
  \/ MatchRenames
  \/ \E i \in Id, p \in Path : FoldRename(i, p)
  \/ BeginUpserts
  \/ \E p \in Path, i \in Id : UpsertModel(p, i)
  \/ UpsertPartOfFiles
  \/ UpsertFiles
  \/ MarkFilesMissing
  \/ MarkModelsMissing
  \/ FinishScan

----------------------------------------------------------------------------
(* The owner of the volume. *)

ChangeDisk(newDisk) ==
  /\ count.disk < MaxDisk /\ Bump("disk")
  /\ disk' = newDisk
  /\ UNCHANGED <<reachable, hidden, tableVars, scanVars, pruning>>

\* A folder appears, disappears or gets other files.
WriteFolder(p, c) ==
  /\ disk[p] # c
  /\ ChangeDisk([disk EXCEPT ![p] = c])

RenameFolder(p, q) ==
  /\ disk[p] # NoFolder /\ disk[q] = NoFolder
  /\ (p \in LooseFile) = (q \in LooseFile)
  /\ ChangeDisk([disk EXCEPT ![p] = NoFolder, ![q] = disk[p]])

LoseVolume ==
  /\ count.outage < MaxOutage /\ Bump("outage")
  /\ \/ reachable' = FALSE /\ UNCHANGED hidden
     \/ \E gone \in Outage : hidden' = gone /\ UNCHANGED reachable
  /\ UNCHANGED <<disk, tableVars, scanVars, pruning>>

RestoreVolume ==
  /\ ~reachable \/ hidden # {}
  /\ reachable' = TRUE /\ hidden' = {}
  /\ UNCHANGED <<disk, tableVars, scanVars, pruning, count>>

----------------------------------------------------------------------------
(* The user: removeModel in its two statements, and restoreExclusion. *)

RecordExclusion(i) ==
  /\ count.remove < MaxRemove /\ Bump("remove")
  /\ Exists(i) /\ i \notin removing
  /\ exclusions' = exclusions \cup {models[i].path}
  /\ removing' = removing \cup {i}
  /\ UNCHANGED <<diskVars, models, scanVars, pruning>>

DeleteModel(i) ==
  /\ i \in removing
  /\ models' = [models EXCEPT ![i] = NoModel]
  /\ removing' = removing \ {i}
  /\ UNCHANGED <<diskVars, exclusions, scanVars, pruning, count>>

RestoreExclusion(p) ==
  /\ p \in exclusions
  /\ exclusions' = exclusions \ {p}
  /\ UNCHANGED <<diskVars, models, removing, scanVars, pruning, count>>

----------------------------------------------------------------------------
(* Time and the nightly prune, whose two statements a scan can run between. *)

Ageing(i) == Exists(i) /\ models[i].missing \in 0..(GraceDays - 1)

\* A prune takes far less than a day.
PassDay ==
  /\ pruning = "idle"
  /\ \E i \in Id : Ageing(i)
  /\ models' = [i \in Id |->
       IF Ageing(i) THEN [models[i] EXCEPT !.missing = @ + 1] ELSE models[i]]
  /\ UNCHANGED <<diskVars, exclusions, removing, scanVars, pruning, count>>

EntirelyMissing == Rows # {} /\ LiveRows = {}

\* Mutant: no library is suspect.
BeginPruneUnsuspecting ==
  /\ pruning = "idle"
  /\ pruning' = "delete"
  /\ UNCHANGED <<diskVars, tableVars, scanVars, count>>

BeginPrune ==
  /\ pruning = "idle"
  /\ pruning' = IF EntirelyMissing THEN "skip" ELSE "delete"
  /\ UNCHANGED <<diskVars, tableVars, scanVars, count>>

\* Mutant: the cutoff is a day early.
ExpiredEarly(i) == Exists(i) /\ models[i].missing >= GraceDays - 1

Expired(i) == Exists(i) /\ models[i].missing = GraceDays

FinishPrune ==
  /\ pruning # "idle"
  /\ models' = [i \in Id |->
       IF pruning = "delete" /\ Expired(i) THEN NoModel ELSE models[i]]
  \* A removal whose row is already gone deletes nothing.
  /\ removing' = {i \in removing : models'[i] # NoModel}
  /\ pruning' = "idle"
  /\ UNCHANGED <<diskVars, exclusions, scanVars, count>>

----------------------------------------------------------------------------
Init ==
  /\ disk \in [Path -> Content \cup {NoFolder}]
  /\ reachable = TRUE /\ hidden = {}
  /\ models = [i \in Id |-> NoModel]
  /\ exclusions = {} /\ removing = {}
  /\ phase = "idle" /\ force = FALSE /\ known = 0
  /\ unread = Path /\ walked = [p \in Path |-> NoFolder]
  /\ excluded = {} /\ matches = {} /\ done = {} /\ touched = {}
  /\ current = Nowhere /\ outcome = "none"
  /\ pruning = "idle"
  /\ count = [disk |-> 0, remove |-> 0, outage |-> 0, crash |-> 0]

OwnerStep ==
  \/ \E p \in Path, c \in Content \cup {NoFolder} : WriteFolder(p, c)
  \/ \E p, q \in Path : RenameFolder(p, q)
  \/ LoseVolume
  \/ RestoreVolume

UserStep ==
  \/ \E i \in Id : RecordExclusion(i) \/ DeleteModel(i)
  \/ \E p \in Path : RestoreExclusion(p)

PruneStep == BeginPrune \/ FinishPrune

Next ==
  \/ ScanStep \/ InterruptScan
  \/ OwnerStep
  \/ UserStep
  \/ PassDay \/ PruneStep

Spec == Init /\ [][Next]_vars

\* The worker works its jobs off and the sweeps keep sending them (scans by the
\* library's schedule, the prune every night); a removal runs to its end; days
\* pass.  Nothing makes the owner plug the drive back in.
Fairness ==
  /\ WF_vars(ScanStep)
  /\ WF_vars(PruneStep)
  /\ SF_vars(PassDay)
  /\ \A i \in Id : WF_vars(DeleteModel(i))

FairSpec == Spec /\ Fairness

----------------------------------------------------------------------------
(* Properties. *)

DiskTypeOK ==
  /\ disk \in [Path -> Content \cup {NoFolder}]
  /\ reachable \in BOOLEAN
  /\ hidden \subseteq Path

TableTypeOK ==
  /\ models \in [Id -> Row \cup {NoModel}]
  /\ exclusions \subseteq Path
  /\ removing \subseteq Id

ScanTypeOK ==
  /\ phase \in {"idle", "health", "walk", "match", "fold", "upsert", "files",
                "mark", "finish"}
  /\ force \in BOOLEAN
  /\ known \in Nat
  /\ unread \subseteq Path
  /\ walked \in [Path -> Content \cup {NoFolder}]
  /\ excluded \subseteq Path
  /\ matches \subseteq Id \X Path
  /\ done \subseteq Path
  /\ touched \subseteq Id
  /\ phase = "files" => current \in Id \X Path
  /\ phase # "files" => current = Nowhere
  /\ outcome \in {"none", "running", "succeeded", "failed",
                  "storage_unavailable", "empty_root", "mass_disappearance"}

EventTypeOK ==
  /\ pruning \in {"idle", "skip", "delete"}
  /\ count \in [{"disk", "remove", "outage", "crash"} -> Nat]

\* Every variable holds the kind of value its column or local has, and an
\* upsert is in progress exactly between its two halves.
TypeOK == DiskTypeOK /\ TableTypeOK /\ ScanTypeOK /\ EventTypeOK

\* When a scan is about to report success, what is live is what it walked and
\* was not excluded, file by file: whatever renames it folded, rows it revived
\* and removals it raced on the way (scan-service.ts: "reconciles that against
\* the database").
IndexMatchesWalk ==
  phase = "finish" =>
    \A i \in LiveRows :
      /\ models[i].path \in FoundPaths \ excluded
      /\ models[i].files = walked[models[i].path]

Reconciling == phase \in {"upsert", "files", "mark", "finish"}

UniquePaths == \A i, j \in Rows : models[i].path = models[j].path => i = j

LocalsMatch ==
  /\ done \subseteq FoundPaths \ excluded
  /\ ~Reconciling => done = {} /\ touched = {}
  /\ phase = "files" =>
       /\ current[1] \in touched
       /\ current[2] \in FoundPaths \ excluded
       /\ Exists(current[1]) => models[current[1]].path = current[2]
       /\ RowsAt(current[2]) \subseteq {current[1]}

\* A touched row holds what was walked, or is being given it.
TouchedMatch ==
  /\ \A i \in Rows \cap touched :
       \/ models[i].path \in done /\ walked[models[i].path] \subseteq models[i].files
       \/ phase = "files" /\ current = <<i, models[i].path>>
  /\ \A i \in Rows : models[i].path \in done => i \in touched

MarkedMatch ==
  /\ phase \in {"mark", "finish"} =>
       /\ done = FoundPaths \ excluded
       /\ \A i \in Rows \cap touched : models[i].files = walked[models[i].path]
  /\ phase = "finish" => LiveRows \subseteq touched

\* What makes IndexMatchesWalk inductive: paths are unique, and at every moment
\* of the reconciliation the touched rows are those of the folders done.
ScanInv == TypeOK /\ UniquePaths /\ LocalsMatch /\ TouchedMatch /\ MarkedMatch

\* A row goes missing only in a scan that did not find its folder, or whose
\* folder the user excluded: never because the scan looked at another folder,
\* revived it late or folded it elsewhere.
MissingMeansGone ==
  [][\A i \in Id :
       (Live(i) /\ Exists(i)' /\ ~Live(i)') =>
         models[i].path \notin FoundPaths \ excluded]_vars

\* Without an admin's confirmation one scan never takes more than the threshold
\* of a library's models away, models the user excluded apart ("Refusing to
\* proceed in case the storage is only partly available").
MassDisappearanceRefused ==
  [][(MarkModelsMissing /\ ~force /\ known >= MinModels) =>
       LET lost == {i \in LiveRows : ~Live(i)' /\ models[i].path \notin excluded}
       IN Cardinality(lost) * 100 <= ThresholdPercent * known]_vars

\* Metadata dies by the user's hand or after the whole grace period: no scan,
\* crash, outage or rename takes a row away (prune-service.ts: "Nothing is
\* removed until it has been missing for the whole grace period").
KeptForGracePeriod ==
  [][\A i \in Id :
       (Exists(i) /\ ~Exists(i)') => i \in removing \/ models[i].missing = GraceDays]_vars

\* The prune never takes the last row of a library whose user removed nothing,
\* however long its drive is away and whichever scan runs between the prune's
\* two statements ("A library that is entirely missing is skipped").
PruneNeverEmptiesLibrary ==
  [][(Rows # {} /\ count.remove = 0) => \E i \in Id : Exists(i)']_vars

Settled ==
  /\ LivePaths = VisiblePaths \ exclusions
  /\ \A i \in LiveRows : models[i].files = disk[models[i].path]

VolumePresent == reachable /\ hidden = {}

\* What guards 2 and 3 refuse without an admin's confirmation.
TooMuchIsGone ==
  LET lost == {i \in LiveRows : models[i].path \notin VisiblePaths}
  IN \/ RootIsEmpty /\ LiveRows # {}
     \/ /\ Cardinality(LiveRows) >= MinModels
        /\ Cardinality(lost) * 100 > ThresholdPercent * Cardinality(LiveRows)

\* One scan after the other is refused, and nobody confirms one.
Refusing ==
  /\ ~force /\ TooMuchIsGone
  /\ phase \in {"idle", "health", "walk"}
  /\ phase = "idle" => outcome \in {"empty_root", "mass_disappearance"}

\* Once the owner leaves a mounted volume alone, the scans to come bring the
\* index to exactly what is on it, wherever an outage, a crash or a failed
\* statement cut earlier ones short.  The one exception is what the guards are
\* for: more than the threshold of the library is really gone, or was renamed,
\* no admin ever confirms a scan again, and every scan to come is refused.
Converges == <>[]VolumePresent => <>[]Settled \/ <>[]Refusing
=============================================================================
