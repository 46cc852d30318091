------------------------------- MODULE Uploads -------------------------------
(***************************************************************************)
(* Files that arrive over HTTP in one folder of a library, as they are or  *)
(* in an archive that is extracted there (worker/src/http/upload.ts,       *)
(* zip-ingest.ts), and the deletion of the folder's model with its files   *)
(* (deleteModelFiles, core/src/services/delete-service.ts).                *)
(*                                                                         *)
(* An upload begins here when its last byte is in the staging directory.   *)
(* Handlers take no lock: they meet each other, the owner and the scans    *)
(* between any two operations on files.  A scan is abstracted to what it   *)
(* does to this folder, in two steps; the queue to the one job of the      *)
(* library that waits.                                                     *)
(***************************************************************************)
EXTENDS Integers, FiniteSets

CONSTANTS
  Upload,
  Name,              \* names of files in the folder
  Arrival,           \* what may be uploaded, [Upload -> names it puts there]: one
                     \* is a file, more an archive
  Held,              \* sets of names the owner may have there already
  Owner, Mixed,      \* whose bytes a file holds if not one upload's
  NoFile,
  MaxTrouble         \* bound on what the owner and the user do, what fails and
                     \* the worker's deaths together

UploadsAssumption ==
  /\ Arrival \subseteq [Upload -> SUBSET Name] /\ Held \subseteq SUBSET Name
  /\ Owner \notin Upload /\ Mixed \notin Upload /\ NoFile \notin Name
  /\ NoFile \notin [by : Upload \cup {Owner, Mixed}, whole : BOOLEAN]

VARIABLES
  backend,   \* "local": beside the staging directory; "mounted": on another
             \* volume; "s3"
  names,     \* which of Arrival it is
  folder,    \* [Name -> whose bytes are there, and whether all, or NoFile]
  pc,        \* where the handler of each upload is
  todo,      \* entries it has still to extract
  wrote,     \* entries it has extracted
  at,        \* the entry it is writing, or NoFile
  index,     \* model_files: [Name -> what a scan saw of it last, or NoFile]
  missing,   \* those of them with a missing_at
  waiting,   \* a scan of the library waits in the queue
  scan,      \* what the scan in progress has seen
  erase,     \* the deletion in progress
  crossed,   \* extractions that met a step of another, could not look or not undo
  troubles   \* how many there were

uploadVars == <<backend, names>>
handlerVars == <<pc, todo, wrote, at>>
indexVars == <<index, missing>>
scanVars == <<waiting, scan>>
uploadsVars == <<uploadVars, folder, handlerVars, indexVars, scanVars, erase, crossed, troubles>>

zip == {u \in Upload : Cardinality(names[u]) > 1}

Part(u) == [by |-> u, whole |-> FALSE]
Whole(u) == [by |-> u, whole |-> TRUE]
OnDisk == {n \in Name : folder[n] # NoFile}
Row == {n \in Name : index[n] # NoFile}

Trouble == troubles < MaxTrouble /\ troubles' = troubles + 1

----------------------------------------------------------------------------
(* Operations on files. *)

Extracting == {u \in zip : pc[u] \in {"write", "undo", "send"}}

\* What is under one name changes at the hands of `who`.  Extractions under way
\* have met that; a deletion does not answer for a file that arrives.
SetFile(n, file, who) ==
  /\ folder' = [folder EXCEPT ![n] = file]
  /\ crossed' = crossed \cup (Extracting \ {who})
  /\ erase' = IF file # NoFile /\ erase.active
              THEN [erase EXCEPT !.named = @ \ {n}] ELSE erase

\* A file that is opened is emptied; two that write to one file mix.
OpenedBy(n, u) ==
  IF folder[n] # NoFile /\ ~folder[n].whole THEN Part(Mixed) ELSE Part(u)

\* What has been renamed over or removed meanwhile stays what it is.
ClosedBy(n, u) ==
  IF folder[n] \in {Part(u), Part(Mixed)} THEN Whole(folder[n].by) ELSE folder[n]

Untouched == UNCHANGED <<folder, crossed, erase>>

----------------------------------------------------------------------------
(* ingest: a file as it is. *)

Goto(u, label) == pc' = [pc EXCEPT ![u] = label]

\* The path is unusable, the library is gone or read-only by now, or the file
\* cannot be stored.  The browser is not told.
Refuse(u) ==
  /\ pc[u] = "staged" /\ Trouble
  /\ Goto(u, "failed")
  /\ Untouched
  /\ UNCHANGED <<uploadVars, todo, wrote, at, indexVars, scanVars>>

\* A rename, or the end of a multipart upload: the file is there at once.
Store(u, n) ==
  /\ pc[u] = "staged" /\ u \notin zip /\ n \in names[u]
  /\ backend # "mounted"
  /\ SetFile(n, Whole(u), u)
  /\ Goto(u, "send")
  /\ UNCHANGED <<uploadVars, todo, wrote, at, indexVars, scanVars, troubles>>

\* EXDEV: the file is copied to where it is to be.
BeginCopy(u, n) ==
  /\ pc[u] = "staged" /\ u \notin zip /\ n \in names[u]
  /\ backend = "mounted"
  /\ SetFile(n, OpenedBy(n, u), u)
  /\ Goto(u, "copy")
  /\ at' = [at EXCEPT ![u] = n]
  /\ UNCHANGED <<uploadVars, todo, wrote, indexVars, scanVars, troubles>>

EndCopy(u) ==
  /\ pc[u] = "copy"
  /\ SetFile(at[u], ClosedBy(at[u], u), u)
  /\ Goto(u, "send")
  /\ at' = [at EXCEPT ![u] = NoFile]
  /\ UNCHANGED <<uploadVars, todo, wrote, indexVars, scanVars, troubles>>

\* copyFile removes what it could not finish.
CopyFails(u) ==
  /\ pc[u] = "copy" /\ Trouble
  /\ SetFile(at[u], NoFile, u)
  /\ Goto(u, "failed")
  /\ at' = [at EXCEPT ![u] = NoFile]
  /\ UNCHANGED <<uploadVars, todo, wrote, indexVars, scanVars>>

----------------------------------------------------------------------------
(* extractZipIntoLibrary. *)

BeginZip(u) == Goto(u, "write") /\ todo' = [todo EXCEPT ![u] = names[u]]

\* destinationInUse; a folder that cannot be listed counts as empty.
Look(u) ==
  /\ pc[u] = "staged" /\ u \in zip
  /\ \/ OnDisk = {} /\ BeginZip(u) /\ UNCHANGED <<crossed, troubles>>
     \/ OnDisk # {} /\ Goto(u, "failed") /\ UNCHANGED <<todo, crossed, troubles>>
     \/ OnDisk # {} /\ BeginZip(u) /\ Trouble /\ crossed' = crossed \cup {u}
  /\ UNCHANGED <<uploadVars, folder, erase, wrote, at, indexVars, scanVars>>

\* writeFile opens the file, then fills it.
OpenEntry(u, n) ==
  /\ pc[u] = "write" /\ at[u] = NoFile /\ n \in todo[u]
  /\ backend # "s3"
  /\ SetFile(n, OpenedBy(n, u), u)
  /\ at' = [at EXCEPT ![u] = n]
  /\ UNCHANGED <<uploadVars, pc, todo, wrote, indexVars, scanVars, troubles>>

EntryDone(u, n) ==
  /\ todo' = [todo EXCEPT ![u] = @ \ {n}]
  /\ wrote' = [wrote EXCEPT ![u] = @ \cup {n}]
  /\ at' = [at EXCEPT ![u] = NoFile]
  /\ UNCHANGED <<uploadVars, pc, indexVars, scanVars, troubles>>

CloseEntry(u) ==
  /\ pc[u] = "write" /\ at[u] # NoFile
  /\ SetFile(at[u], ClosedBy(at[u], u), u)
  /\ EntryDone(u, at[u])

PutEntry(u, n) ==
  /\ pc[u] = "write" /\ n \in todo[u]
  /\ backend = "s3"
  /\ SetFile(n, Whole(u), u)
  /\ EntryDone(u, n)

\* Mutant: what landed is left.
EntryFailsForGood(u) ==
  /\ pc[u] = "write" /\ todo[u] # {} /\ Trouble
  /\ Goto(u, "failed") /\ at' = [at EXCEPT ![u] = NoFile]
  /\ Untouched
  /\ UNCHANGED <<uploadVars, todo, wrote, indexVars, scanVars>>

\* The archive cannot be read, it is too large, or a write fails: of an entry
\* that was opened what is written of it stays.
EntryFails(u) ==
  /\ pc[u] = "write" /\ todo[u] # {} /\ Trouble
  /\ Goto(u, "undo") /\ at' = [at EXCEPT ![u] = NoFile]
  /\ Untouched
  /\ UNCHANGED <<uploadVars, todo, wrote, indexVars, scanVars>>

\* Entry by entry, and whosever file is there now; a removal that fails is let
\* pass.
UndoEntry(u, n) ==
  /\ pc[u] = "undo" /\ n \in wrote[u]
  /\ wrote' = [wrote EXCEPT ![u] = @ \ {n}]
  /\ \/ SetFile(n, NoFile, u) /\ UNCHANGED troubles
     \/ /\ Trouble
        /\ crossed' = crossed \cup {u} /\ UNCHANGED <<folder, erase>>
  /\ UNCHANGED <<uploadVars, pc, todo, at, indexVars, scanVars>>

EndZip(u) ==
  /\ \/ pc[u] = "write" /\ todo[u] = {} /\ Goto(u, "send")
     \/ pc[u] = "undo" /\ wrote[u] = {} /\ Goto(u, "failed")
  /\ Untouched
  /\ UNCHANGED <<uploadVars, todo, wrote, at, indexVars, scanVars, troubles>>

----------------------------------------------------------------------------
(* The scan an upload asks for. *)

\* Mutant: a scan that runs swallows the request, as under policy `singleton`.
SendBehindNone(u) ==
  /\ pc[u] = "send"
  /\ waiting' = (waiting \/ ~scan.active)
  /\ Goto(u, "stored")
  /\ Untouched
  /\ UNCHANGED <<uploadVars, todo, wrote, at, indexVars, scan, troubles>>

\* One that waits already swallows it, one that runs does not.
SendScan(u) ==
  /\ pc[u] = "send"
  /\ waiting' = TRUE
  /\ Goto(u, "stored")
  /\ Untouched
  /\ UNCHANGED <<uploadVars, todo, wrote, at, indexVars, scan, troubles>>

SendScanFails(u) ==
  /\ pc[u] = "send" /\ Trouble
  /\ Goto(u, "unsent")
  /\ Untouched
  /\ UNCHANGED <<uploadVars, todo, wrote, at, indexVars, scanVars>>

NotScanning == [active |-> FALSE, seen |-> [n \in Name |-> NoFile]]

ReadFolder ==
  /\ waiting /\ ~scan.active
  /\ waiting' = FALSE /\ scan' = [active |-> TRUE, seen |-> folder]
  /\ Untouched
  /\ UNCHANGED <<uploadVars, handlerVars, indexVars, troubles>>

\* The folder's files are upserted, those it has lost marked missing.
IndexFolder ==
  /\ scan.active
  /\ index' = [n \in Name |-> IF scan.seen[n] # NoFile THEN scan.seen[n] ELSE index[n]]
  /\ missing' = {n \in Row : scan.seen[n] = NoFile}
  /\ scan' = NotScanning
  /\ Untouched
  /\ UNCHANGED <<uploadVars, handlerVars, waiting, troubles>>

\* The scan is tried again.
ScanFails ==
  /\ scan.active /\ Trouble
  /\ scan' = NotScanning /\ waiting' = TRUE
  /\ Untouched
  /\ UNCHANGED <<uploadVars, handlerVars, indexVars>>

Underway == {"copy", "write", "undo", "send"}

\* The worker dies: what it had opened stays as it is, uploads are not taken up
\* again, its scan is.
WorkerDies ==
  /\ Trouble
  /\ \E u \in Upload : pc[u] \in Underway
  /\ pc' = [u \in Upload |-> IF pc[u] \in Underway THEN "failed" ELSE pc[u]]
  /\ crossed' = crossed \cup Extracting
  /\ at' = [u \in Upload |-> NoFile]
  /\ scan' = NotScanning /\ waiting' = (waiting \/ scan.active)
  /\ UNCHANGED <<uploadVars, folder, todo, wrote, indexVars, erase>>

----------------------------------------------------------------------------
(* deleteModelFiles. *)

NotErasing ==
  [active |-> FALSE, todo |-> {}, failed |-> FALSE, named |-> {}, forgot |-> {}]

\* The files of the model, missing ones among them.
BeginErase ==
  /\ ~erase.active /\ Row # {}
  /\ Trouble
  /\ erase' = [NotErasing EXCEPT !.active = TRUE, !.todo = Row, !.named = Row]
  /\ UNCHANGED <<uploadVars, folder, handlerVars, indexVars, scanVars, crossed>>

\* Mutant: a removal that fails is logged, and no more.
SurvivedUnnoticed(n) == [erase EXCEPT !.todo = @ \ {n}]

\* failures.push
Survived(n) == [erase EXCEPT !.todo = @ \ {n}, !.failed = TRUE]

\* On a disk there must be a file to remove; a bucket does not mind.
EraseFile(n) ==
  /\ n \in erase.todo
  /\ \/ /\ folder[n] # NoFile \/ backend = "s3"
        /\ folder' = [folder EXCEPT ![n] = NoFile]
        /\ crossed' = crossed \cup Extracting
        /\ erase' = [erase EXCEPT !.todo = @ \ {n}]
        /\ UNCHANGED troubles
     \/ /\ erase' = Survived(n)
        /\ (folder[n] = NoFile /\ backend # "s3" /\ UNCHANGED troubles) \/ Trouble
        /\ UNCHANGED <<folder, crossed>>
  /\ UNCHANGED <<uploadVars, handlerVars, indexVars, scanVars>>

EndErase ==
  /\ erase.active /\ erase.todo = {}
  /\ IF erase.failed
     THEN erase' = NotErasing /\ UNCHANGED indexVars
     ELSE /\ erase' = [NotErasing EXCEPT !.forgot = Row \cap OnDisk]
          /\ index' = [n \in Name |-> NoFile] /\ missing' = {}
  /\ UNCHANGED <<uploadVars, folder, handlerVars, scanVars, crossed, troubles>>

----------------------------------------------------------------------------
\* The owner saves a file or deletes one.
OwnerActs(n) ==
  /\ Trouble
  /\ \E file \in {Whole(Owner), NoFile} \ {folder[n]} : SetFile(n, file, Owner)
  /\ UNCHANGED <<uploadVars, handlerVars, indexVars, scanVars>>

Handle(u) ==
  \/ Refuse(u)
  \/ \E n \in Name : Store(u, n) \/ BeginCopy(u, n)
  \/ EndCopy(u) \/ CopyFails(u)
  \/ Look(u)
  \/ \E n \in Name : OpenEntry(u, n) \/ PutEntry(u, n) \/ UndoEntry(u, n)
  \/ CloseEntry(u) \/ EntryFails(u) \/ EndZip(u)
  \/ SendScan(u) \/ SendScanFails(u)

ScanStep == ReadFolder \/ IndexFolder

UploadsInit ==
  /\ backend \in {"local", "mounted", "s3"}
  /\ names \in Arrival
  /\ \E held \in Held :
       folder = [n \in Name |-> IF n \in held THEN Whole(Owner) ELSE NoFile]
  /\ index \in {folder, [n \in Name |-> NoFile]} /\ missing = {}
  /\ pc = [u \in Upload |-> "staged"]
  /\ todo = [u \in Upload |-> {}] /\ wrote = [u \in Upload |-> {}]
  /\ at = [u \in Upload |-> NoFile]
  /\ waiting = FALSE /\ scan = NotScanning
  /\ erase = NotErasing /\ crossed = {}
  /\ troubles = 0

UploadsNext ==
  \/ \E u \in Upload : Handle(u)
  \/ ScanStep \/ ScanFails \/ WorkerDies
  \/ BeginErase \/ EndErase
  \/ \E n \in Name : EraseFile(n) \/ OwnerActs(n)

UploadsSpec == UploadsInit /\ [][UploadsNext]_uploadsVars

\* The worker takes the scans that wait and carries them out, and tries again
\* those that fail.
UploadsFairness == WF_uploadsVars(ReadFolder) /\ WF_uploadsVars(IndexFolder \/ ScanFails)

----------------------------------------------------------------------------
(* Properties. *)

\* A file an upload has stored, and asked a scan to look at, gets into the index
\* unless it is replaced or removed, or the row of its model is deleted under it,
\* whatever scan was running or waiting then (upload.ts: "A scan rather than a
\* direct insert").
StoredIsIndexed ==
  \A u \in Upload, n \in Name :
    (pc[u] = "stored" /\ folder[n] = Whole(u))
      ~> \/ folder[n] # Whole(u) \/ n \in erase.forgot
         \/ index[n] = Whole(u) /\ n \notin missing

\* An archive is extracted whole, or nothing of it stays but the entry that
\* failed: nobody mistakes half a pack for a model.  Extractions into a folder
\* that others change meanwhile, that could not remove an entry or died are left
\* out: nothing guards the folder.
ExtractionIsAllOrNothing ==
  \A u \in zip \ crossed :
    /\ pc[u] = "send" => \A n \in names[u] : folder[n] = Whole(u)
    /\ pc[u] = "failed" => \A n \in Name : folder[n] # Whole(u)

\* When the row of a model goes, no file is left that it named when the deletion
\* began, whatever could not be removed (deleteModelFiles: "The index row goes
\* only when the disk is actually clear").  A file that arrived meanwhile, or that
\* a scan has just added to the row, is left and forgotten.
RowGoesWithItsFiles ==
  [][(Row # {} /\ Row' = {}) => erase.named \cap OnDisk = {}]_uploadsVars
=============================================================================
