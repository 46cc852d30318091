# PrintBench: specifications and proofs

This directory keeps TLA+ models of PrintBench beside its code: what its libraries, its
job queue, its imports, its ledger of filament, its accounts and what it derives from files must
never do and must eventually do, checked by
TLC on small instances and, for the properties that matter most, proved by TLAPS for
instances of every size. `PROJECT.json` lists the runs, the lines each definition
translates, the mutants that show each property can fail, and the theorems.

- [The system](#the-system): its parts, their state, how they interact, what is hard
- [The modules](#the-modules): which module models which code, and how
- [The runs](#the-runs): what each checks, its bounds, its fairness
- [The proofs](#the-proofs): what is proved, from what, along which argument
- [Findings](#findings): where the code and its own words disagree
- [What is left out](#what-is-left-out), and [the plan](#the-plan)

To check a run or a proof module, from this directory:

    tlc -workers 2 -config LibraryScan.cfg MCLibraryScan
    tlapm LibraryScanProofs.tla


## The system

PrintBench keeps libraries of 3D-print models. The files stay where their owner put
them; a PostgreSQL index describes them. A web process answers requests, a worker
process takes jobs from pg-boss queues, and both reach the same database and the same
volumes. The owner of the files works on them too, with a file manager, at any time.

Almost everything that is hard here comes from three facts. The files and the index
change independently. Every statement commits on its own unless it is inside an
explicit transaction, so a request, a job and a crash can meet between any two of
them. And jobs are delivered at least once, collapse into one another, fail and are
retried.

### Parts, state and operations

| part | state it keeps | operations | talks to |
|---|---|---|---|
| **Library scan** `core/src/scan` | `models`, `model_files`, `scan_runs`; locals of a scan that outlive statements | walk, three guards, rename folding, upsert, soft deletion | volume, exclusions, import reservations, derived work |
| **Prune** `core/src/scan/prune-service.ts` | the same rows | hard deletion after the grace period, except for libraries that are wholly missing | the nightly maintenance |
| **Removing models** `core/src/services/delete-service.ts` | `model_exclusions` | exclude and delete a row, restore an exclusion, delete the files | scans, which honour exclusions |
| **Moving between libraries** `core/src/services/move-service.ts`, `storage/move.ts` | two volumes and one row | refuse, carry files one by one, put back, update the row | scans of both libraries, the queue |
| **Job queue** `packages/jobs`, `apps/worker/src/jobs` | jobs per queue and key: created, retry, active | send, fetch, finish, fail, expire, sweep | every producer and handler |
| **Filament and prints** `filament-service.ts`, `print-service.ts` | `filament_stock_changes`, `filament_spools`, `filaments`, `print_runs`, `print_filament_usage` | log, edit, delete a print; weigh, create, archive a spool | deletion of models (cascade), print requests, backups |
| **Print requests** `request-service.ts` | `print_requests` | create, change status, link to a model | prints: a printed request makes a run |
| **Accounts and invitations** `packages/auth`, `core/src/invite-service.ts`, `admin/users/actions.ts` | `user`, `session`, `invites` | invite, accept, change role, suspend, delete | the sign-in library |
| **Password recovery** | password-reset links, the password's fingerprint | issue, validate, reset, change | accounts, sessions |
| **Shares** `share-service.ts` | one token column per model | mint, revoke | public pages |
| **MakerWorld sign-in** `makerworld-auth-service.ts` | a stored token, a pending challenge, a generation | start, answer a challenge, cancel | source providers |
| **Model imports** `core/src/import`, `upload/source-actions.ts`, `jobs/import.ts` | `model_imports`, staged files | request, deliver, stage, publish under the scan lock, reserve a row, roll back | scan, source providers, queue |
| **Derived work** `jobs/analyze.ts`, thumbnails, digests | columns of `model_files` | compute from the bytes, write back | scans that change the row meanwhile; digests let a scan fold renames |
| **Backup and restore** `apps/worker/src/backup` | an archive; all of the above | pause the worker, files, database, resume | everything |
| **Health detector** | `problems` | recompute per library | scans |
| **Grouping and sidecars** `library/grouping.ts`, `syncSidecar` in `model-service.ts` | sidecar files in the folders themselves | make models of a walked tree, write what a user edited beside the files | scans, which group what they walked; edits, which write what the grouping reads |
| **Uploads** `apps/worker/src/http` | staged files | store a file, extract an archive, roll back, ask for a scan | volume, scan, queue |
| **Storage adapters, paths, search, browsing, lists, tags, slicers, settings, audit, schema, web interface, mesh library** | rows or nothing | queries, single-row edits, pure functions, I/O | see `PROJECT.json` |

`PROJECT.json` lists every part under `components` with its files, including those no
module models, and why.

### What makes each part correct

- *Scan.* After a scan the index says what was walked, file by file, whatever happened
  beside it. Nothing is lost to an outage: a row lives through its whole grace period,
  a library that has vanished as a whole is left alone, and a scan refuses to take most
  of one away. A rename keeps the row, and all a user attached to it. A rescan of what
  did not change writes nothing. Left alone, the index gets there in the end.
- *Move.* No file is ever whole nowhere. The row points at the destination only when the
  files are there. A scan in flight does not hide what arrived. A move that is over has
  left one live row.
- *Queue.* A change somebody reported is looked at by a scan that begins after it,
  although requests collapse. A library that is due is scanned.
- *Filament.* The ledger is append-only, so its sums must be right after every history:
  each print has been charged for what it says now. A weighing makes the balance what
  the scales said. Archived stock is not drawn on anew. A retried submission is
  answered with its print. Transactions that lock several rows never wait in a circle.
- *Requests.* A printed request has one print; undoing it deletes only what it made.
- *Accounts.* An invitation makes one account, with its role. Some administrator stays.
  A reset ends every session and password it replaces, against any concurrent change.
- *Imports.* An import publishes all of its files or none, once, and ends.
- *Uploads.* What was stored gets into the index. An archive is extracted whole or not at
  all. The row of a model whose files are deleted goes only with the last of them.
- *Derived work.* What is stored about a file is about its current bytes.
- *Grouping.* Every mesh is in exactly one model, but for the places the grouping does not look at. A file that is added takes no model away
  and nothing out of one. An edit of a model does not merge others into it.
- *Restore.* A database put in place finds its files, or the old database is kept.

The behaviours a test would hardly reach are listed under `hazards`, each at the line
where it bites, with the property that watches it or the reason none does yet.


## The modules

| module | models | composed with |
|---|---|---|
| `LibraryScan` | one library's volume and index; scan, owner, user, prune, crash | |
| `ScanHistory` | `LibraryScan` with a history variable, for promises that span scans | extends `LibraryScan` |
| `LibraryMove` | one model moved between two libraries while both are scanned | takes `LibraryScan`'s scan, abstracted to one path |
| `ScanQueue` | the queue of scans: senders, the sweep, the handler, retries | |
| `FilamentLedger` | transactions on spools, filaments and prints | |
| `ModelImport` | one import, from the request to the description, and whoever else touches the model | takes `LibraryScan`'s scan, abstracted to one step on one folder |
| `Uploads` | uploads into one folder, and the deletion of its model with its files | takes `LibraryScan`'s scan as two steps on one folder, and `ScanQueue`'s queue as the one job that waits |
| `DerivedWork` | the files of one model, what handlers derive from them, and the folding of renames | takes `LibraryScan`'s scan as one step on the rows of one model |
| `DerivedHistory` | `DerivedWork` with a history variable: the digest each row had last | extends `DerivedWork` |
| `Grouping` | which folders of a walked tree are models, and of which files | |
| `ModelTree` | folders in each other, a scan of them, and edits that leave sidecars in them | extends `Grouping`; takes `LibraryScan`'s scan as the upserts, one by one, of what the grouping finds |
| `Accounts` | roles, suspension, deletion, invitations, the first account | |
| `PasswordState`, `Passwords` | one account's password, reset links and sessions | |
| `LatestAttempt` | what a person who signs in to a source is promised: an abstract specification | |
| `SignInState`, `MakerWorldSignIn` | signing in to MakerWorld | implements `LatestAttempt` |
| `RequestState`, `PrintRequests` | one request of the print queue and the prints it makes | takes the print history of `FilamentLedger`, abstracted to whether a print is there and filled in |
| `BackupRestore` | a restore: handlers, jobs, database, status page, crashes | takes the queue as the set of databases its jobs name rows of |
| `Imports` | `ModelImport` and `Uploads` side by side, and what the second promises | extends the one, instantiates the other |
| `Services` | `Accounts`, `Passwords`, `MakerWorldSignIn`, `PrintRequests` and `BackupRestore` side by side, and what they promise | instantiates the five |
| `LibraryScanProofs` | theorems about `LibraryScan`, `ScanHistory` and `ModelTree` | extends `ScanHistory` and `ModelTree` |
| `LibraryMoveProofs`, `ScanQueueProofs`, `FilamentLedgerProofs`, `DerivedWorkProofs` | theorems about the module each is named after | extends it |
| `ModelImportProofs` | theorems about `ModelImport` and `Uploads` | extends `Imports` |
| `ServicesProofs` | theorems about `Passwords`, `MakerWorldSignIn` and `PrintRequests` | extends `Services` |
| `AdministrationProofs` | theorems about `Accounts` and `BackupRestore` | extends `Services` |
| `MCLibraryMove`, `MCScanQueue`, `MCFilamentLedger`, `MCDerivedWork`, `MCModelTree` | small instances | |
| `MCModelImport` | a small instance of `ModelImport` and one of `Uploads`: each behaviour is one of one of them | extends `Imports` |
| `MCLibraryScan` | a small instance of `LibraryScan` and one of `ModelTree`: each behaviour is one of one of them | extends both |
| `MCScanHistory` | a small instance of `LibraryScan`, whose volume drops off, and one of `ScanHistory`, whose folders are renamed: each behaviour is one of one of them | extends `ScanHistory` |
| `MCServices` | small instances of `Accounts`, `Passwords`, `MakerWorldSignIn`, `PrintRequests` and `BackupRestore`: each behaviour is one of one of them | extends `Services` |

The three modules named `...State` hold the parameters, the variables and the promises of the
module beside them; `Services` and `Imports` take them, and repeat the promises of the parts
they instantiate. The instances and the proofs extend the same two modules, so that a run and a theorem speak
of the same property.

A definition introduced by a comment "Mutant: ..." is not part of a model. It is a
plausible mistake in the definition below it, kept so that the property it breaks can be
seen to break.

### LibraryScan

`disk` is the volume: at each path a folder that holds some files, or nothing. `models`
is the table, with the live rows of `model_files` folded in: a row has a path, its files
and `missing`, the days since `missing_at` or `Present`. A file is what a scan knows it
by before there is a digest, its name and size.

A scan is one `phase` after the other, and a phase is exactly what another actor cannot
see the inside of:

| action | code |
|---|---|
| `StartScan`, `CheckHealth` | `scan-service.ts`: the run's row, the health check, the empty-root guard, the count of known models |
| `WalkFolder(p)` | the walk, one directory at a time: the owner may change a folder before or after it is read. An unreadable directory counts as empty |
| `CheckDisappearance` | the proportional guard, then the exclusions, loaded once |
| `MatchRenames`, `FoldRename(i, p)` | `foldRenamedModels`: the decision is taken first, the rows are updated one by one. A path still held by a missing row fails the whole scan, by the unique index. The live rows and the files of the vanished ones are read by two statements; only a removal can come between that changes either, and a model removed there is not recognised, as if it had been removed before |
| `UpsertModel(p, i)`, `UpsertPartOfFiles`, `UpsertFiles` | `upsertModelRows`: the row, then its files, one statement each, any of which may be there alone when a removal or a crash comes. After a removal the first new file fails on the foreign key; if all files had rows, the updates find none and the scan goes on |
| `MarkFilesMissing`, `MarkModelsMissing` | `markMissing`, two statements |
| `FinishScan` | the end of the run |
| `InterruptScan` | a statement that fails or a worker that dies, anywhere; what was committed stays |

Beside it run the owner (`WriteFolder`, `RenameFolder`, `LoseVolume`, `RestoreVolume`: a
volume can be unreachable or only partly mounted), the user (`RecordExclusion` and
`DeleteModel` are the two statements of `removeModel`; `RestoreExclusion`), time
(`PassDay`) and the prune (`BeginPrune` decides which libraries are suspect,
`FinishPrune` deletes). Scans of one library exclude each other by an advisory lock, so
one scan at a time is all there is. `touched` stands for the comparison of
`last_seen_at` with the scan's start.

`ScanHistory` adds what happened since a scan last succeeded undisturbed: nothing, one
rename of a folder to a name on the mounted part of the volume, or anything else.

### LibraryMove

The job (`job`), the two volumes (`disk`, a file is absent, partial or whole), the row
that holds the model's path in each library (`at`), one exclusion, and the scans of both
libraries, each abstracted to its effect on that path: `BeginScan`, `WalkPath`,
`LoadExclusions`, `Reconcile` are the phases of `LibraryScan` seen from one folder. No
lock keeps scans out of a move; the code only looks for one that is running (`CheckScans`).
`Rename` is the transfer within a volume, `BeginCopy`, `EndCopy`, `RemoveSource` the one
across volumes. Any transfer may fail (`TransferFails`), and each file is then put back: renamed
(`PutBack`), or across volumes copied and removed, which others can see half done (`BeginCopyBack`, `EndCopyBack`,
`RemoveArrived`); or it is left stranded (`Strand`). The worker may die (`Crash`) and the queue delivers again
(`Deliver`), up to its limit.

### ScanQueue

`created`, `retry` and `active` hold the job of each key, at most one each: the `stately`
policy of pg-boss, modelled from how `packages/jobs/src/queue.ts` configures it. Requests
are sent under the key of their library, the sweep sends without a key, and jobs without
a key share one, with one count of retries: a scan that was swept can be dropped behind
another's retry, which costs a schedule, never a request. `wanted` is the property's view:
libraries with a change no scan has begun to look at; `owed` is the one the scan that has begun
is to look at, given back when it fails. `Fetch`, `BeginScan`, `EndScan`, `FailScan`, `Crash`, `Expire` are the
worker; `BeginSweep` and `SweepOne` are the five-minute sweep over the due libraries.

### FilamentLedger

Each connection in `Tx` runs one transaction at a time through `pc`: it waits for the
advisory lock of its key (`TakeKey`) or the row of its print (`LockRow`), locks its
spools in the order of their uuids (`LockSpool`), reads and checks (`CheckSpools`,
`ReadBalance`), and writes and commits (`CommitPrint`, `CommitMeasure`,
`CommitArchive`). Locks are held to the end (`End`); a transaction can be rolled back at any
point (`Rollback`). At READ COMMITTED what a transaction read before it held the lock may
be stale, and that is why the reads are separate steps. Tables change at the commit only.
`run` holds what a print records, `charged` the sum of the stock changes that name it,
`stock` the sum of a spool's.

`BeginLog` picks a uuid nobody has used; `DeleteModel` is the cascade from a model to its
prints, which takes the record and leaves the stock changes.

### ModelImport

One request in one library. `state` and `reserved` are its row in `model_imports`; `disk` the
files of the model in the folder named after the request; `row` the model's live files
and whose words describe it: nobody's yet (`pending`), the files' own (`embedded`), the
source's or the user's; `sidecar` whose words the sidecar holds. `waiting`, `retrying` and
`active` are the slots of its key in the queue, as in `ScanQueue`. `importLock` and
`scanLock` are the advisory locks, each held by a connection and gone with it.

A handler's `pc` steps are what the code commits, or makes visible, separately:

| action | code |
|---|---|
| `Enter`, `Start` | `processMakerWorldImport` tries the lock; the request is read and marked importing |
| `Stage` | rights, credential and source are checked and the files that are not in the folder yet downloaded beside it: success or failure |
| `TakeScanLock`, `Publish(h, f)`, `PublishCopy(h, f)` | the files are moved in one by one under the library's scan lock. S3 moves by copying, and may fail between the copy and the deletion |
| `Index` | the deep scan, whose upsert commits the row and its reservation together; an excluded folder is not upserted |
| `Describe` | name, notes, tags and link under the row's lock, then the sidecar. A row that has the link has nothing pending, so one test stands for the code's two |
| `Derive`, `Complete` | the jobs for every live file; the request is complete and names its model |
| `Fault`, `Undo`, `Unpublish`, `Release`, `Fail` | the rollback of what this attempt published, unless the model is reserved, then the scan lock, then the request |
| `Leave` | the connection of the import's lock closes |
| `Late`, `Crash`, `Expire` | a delivery that outlives its time is delivered again beside its handler; a dead worker's is when it expires |

Beside it run other scans (`OtherScan`: one step, since a scan holds the scan lock from its
start to its end), the analyzer (`Analyse`, which takes the words of the first file for a model
that has none), the user's edits and removals, and the user's request itself: the insert or the look at
the request there is (`Ask`), the update that queues it again (`Requeue`), the send (`SendJob`,
`SendFails`) and the mark of one that failed (`MarkQueueFailed`). One user asks, one click after the other.

`Requeue` asks for the request's id and not for the state `Ask` saw, and `MarkQueueFailed` may follow a send
that had queued the job. So a handler can be at work on a request that is called failed; a click that
reads "failed" then takes back, with its update, what the handler completes in between, and the
import is done once more. `CompleteIsKept` names this exception, the only one there is.

### Uploads

An upload begins here when its last byte is staged; `names` says what it puts into the folder, one
file or an archive of more. `folder` is the folder on the volume: under each name nothing, or whose
bytes, and whether all of them. `index` is what the rows of `model_files` say, `missing` which
of them are. `backend` is what the code distinguishes: a local library, one on another volume than the
staging directory, S3.

| action | code |
|---|---|
| `Refuse` | `ingest`: no such library, a read-only one, an unusable path; or the file cannot be stored |
| `Store(u, n)`; `BeginCopy`, `EndCopy`, `CopyFails` | `moveIntoLocalLibrary`: a rename, or across volumes a copy that others can see half done; a multipart upload is there at once |
| `Look` | `destinationInUse`, which takes what it cannot list for empty |
| `OpenEntry`, `CloseEntry`, `PutEntry` | the entries of an archive, one by one: on a disk a file is opened, then filled |
| `EntryFails`, `UndoEntry`, `EndZip` | the archive or a write fails; what was written is removed by name |
| `SendScan`, `SendScanFails`, `ReadFolder`, `IndexFolder`, `ScanFails` | the request, which collapses into one that waits, and the scan: what it walked, then what it commits |
| `BeginErase`, `EraseFile`, `EndErase` | `deleteModelFiles`: the rows are read, the files removed one by one, the row deleted if all went |
| `WorkerDies`, `OwnerActs` | a worker that dies with uploads under way; the owner saves or deletes a file |

`crossed` are extractions that met a step of somebody else's in their folder, could not look or
could not undo; the code guards none of that, and `ExtractionIsAllOrNothing` leaves them out.

### DerivedWork

`disk` is the model's folder: each name holds a content and the time it was written, or
nothing. `rows` is `model_files`: the name, the time the scan recorded (`stamp` stands for
size and mtime), whether it is missing, and what was derived, each the content it was
derived from, or pending, or failed. `store` is the preview store: a preview is kept under the digest of
the row or, while that has none, under the row's id, size and mtime (`Key`). `jobs` are the
queued pairs of a kind of work and a row, `work` the handler of each kind.

| action | code |
|---|---|
| `Scan`, `HandOff` | `upsertModelRows` and `markMissing`, and later the list of what is still pending: a worker that dies in between hands out nothing |
| `Reconcile` | the sweep of `jobs/maintenance.ts` |
| `Skip`, `Read`, `Write`, `Fail` | `handleFileAnalyze`, `handleFileThumbnail`, `handleFileDigest`: the row, then the bytes, are read; later the answer is written to the row by its id, whatever has become of it. A preview kept under the row's key is taken instead of the bytes, a rendering goes to the store before it goes to the row |
| `Match`, `Fold` | `resolveRename` after the digest is written: the look for the one missing row, then a transaction that folds the two whatever they have become |
| `Change` | the owner saves, copies, renames, replaces or deletes a file |
| `Crash` | the worker dies; its jobs are tried again or given up |

`overtaken` marks what a row was given, by kind, by a handler that had read what was no longer so, until
that kind of work is done again or the row is forgotten. `spoiled` marks the keys of previews rendered so, or for a
digest that is overtaken: whoever takes such a preview is overtaken in turn, and so is a row that is folded by such
a digest. The promise about current bytes leaves just these out, because the code does nothing against it.

### Grouping and ModelTree

A directory is the sequence of the names that lead to it, and `tree` gives each the kinds of
file that lie in it: a mesh, an image, a sidecar, a package's sidecar. `grouping.ts` walks
down and emits; `Grouping` says of each directory what becomes of it:

| definition | code |
|---|---|
| `OwnDirs`, `OwnFiles`, `HasMeshes` | `collectOwnFiles`: a folder and the common subfolders (`stl`, `images`, ...) under it |
| `RealDirs`, `Children`, `SubtreeHasMeshes` | `realSubdirs`, `subtreeHasMeshes`: the folders that may be models of their own |
| `Collapses`, `WholeFiles` | `emitSubtreeAsModel`: a sidecar, the flat depth, or `top_level` make one model of everything beneath |
| `Descends`, `Visited`, `IsModel`, `FilesOf` | `visit` and `emitModel` |
| `HasLooseFiles`, `LooseModels` | `emitLooseFiles`: a mesh in a directory that is no model is a model of its own |

`ModelTree` lets the owner put files there and take them away (`Put`, `Take`) while a scan reads the
tree and upserts what the grouping made of it, outer folders first (`ReadTree`, `Upsert`,
`MarkRowsMissing`). An edit is `Look` (`syncSidecar` asks the rows for nested models) and later
`WriteSidecar` or, when nothing would change or the write fails, `LeaveSidecar`. `DropsOut` names
the three places in which a mesh is in no model: a folder with a name of its own inside a common one, a
common folder of a directory that is no model (the root or, in flat mode, one above the depth), and in flat mode
what lies too deep below a package.

### Accounts

`role`, `banned` and `origin` describe each account, `offer`, `closed` and `spentBy` each
invitation; `acts` says where each server action is. Nothing runs in a transaction, so
every statement is an action: `Look` (`wouldStrandInstance`) and `Write` are the two of a
demotion, a suspension and a deletion; `Create`, `Consume`, `Undo`, `Promote` those of an
account that is added, invited or the first. `Die` ends one anywhere. `raced` and
`leftover` remember the two things the property excepts.

### Passwords

`password` counts how often it was set, so no two hashes are equal; `link` is the
verification row, bound to a password; a session remembers the password it was opened by.
`userLock` is the row lock (`SELECT ... FOR UPDATE`) of the account. `LockReset`,
`CheckReset`, `WriteReset` are the transaction of `resetPassword`; `FindSession`,
`LockChange`, `CheckChange`, `WriteChange` the change that `createAuth` wraps in one; a
sign-in (`SignIn`, `Admit`, `Enter`) takes no lock, but the session it inserts refers to the
account and waits for it. `Suspend` and `Drop` are the two statements of `setSuspended`.

### MakerWorldSignIn

`guard` is the row that says which attempt is current, `challenges` those that wait for a
code. No lock is held while MakerWorld is asked, so a call is a sequence of transactions:
`Start`, `Open`, `Answer`, then `Save`, `AddChallenge` or `Close`; `Verify`, `Claim`,
`AnswerCode`, then `Save` or `Retry`; `Cancel` and `Paste`. Each rereads the guard. Under the
mapping *current = the guard's attempt unless it has expired, begun = the attempts opened,
saved = whose token is stored* every step is one of `LatestAttempt`'s or leaves its
variables alone; TLC checks it (`LateAnswersAreIgnored`) and TLAPS proves it
(`LateAnswersNeverSave`).

### PrintRequests

`request` is one row of the queue, `prints` what became of each print, `changes` where each
session's change of status is and what it read: `Look`, then `Log` (`logPrint`) or `Judge`
and `Withdraw` (`isUntouchedRun`, `deletePrint`), then `Write`. Prints are filled in and
deleted, models deleted with their prints, and the request linked and deleted at any time. `beside`,
`strays` and `late` remember, per change and per print, what the code does not prevent: changes that
overlap, a print one of them or a break-off leaves without its request, a print filled in after the look.

### BackupRestore

A database is named by the upload it came from; a job and a handler by the database whose
rows it names. `asks` says where each request is: `Receiving`, `Clear`, `Receive` for an
upload; `Apply`, `Verify` and then the phases of `runRestore`: `Pause`, `Drain`, `Prepare`,
`MakeRoom` and `PutFiles` (the model files of the backup, renamed one by one over what lies at their paths),
`Load` (the transaction), `Upgrade`, `Previews`, `Resume`, `Finish`; `Recover` and `Report` are
its catch. Any of them may fail, and the worker may die (`Crash`); the status page is `state`.
`files` says whose model files lie at the paths two databases share, which may be two databases' after a
failure or a death midway. `Enqueue`, `Take`, `Handled` are everybody else's work; `Migrate` is the web
container's boot.


## The runs

| run | question | properties | instance |
|---|---|---|---|
| `scan_outages_renames` | What does a volume that drops off cost, and are a rename and a rescan what they promise? | `KeptForGracePeriod`, `PruneNeverEmptiesLibrary`, `MassDisappearanceRefused`, `QuietRescan`, `RenameKeepsTheRow` | 2 paths, any part of them lost, 1 crash; and 3 look-alike folders that stay; 3 ids, 2 days of grace, threshold at 2 models, nothing else in the root |
| `scan_converges` | Is the index what was walked, whatever raced the scan, and does it get to what is there? Does every mesh get one model, and keep it? | `IndexMatchesWalk`, `MissingMeansGone`, `Converges`, `EveryMeshHasOneModel`, `AddingTakesNothing` | 2 paths, 2 ids, 2 acts of the owner, 1 removal, outage or crash, threshold at 2 models; and 7 folders in each other, 2 files at first, 3 modes, 1 act, 1 edit, 1 scan |
| `tree_edits` | Does an edit merge models? | `EditsDoNotMerge` (violated) | the same 7 folders, 1 edit, 1 scan |
| `move` | Does a move lose, hide or duplicate anything? | `RowHasItsFiles`, `ArrivedIsNotHidden`, `CleanMoveSettles` | 1 file renamed, 1 copied; 2 faults, 1 crash, 2 deliveries, 1 more request |
| `move_halfdone` | Does it, when the worker dies at the end of a move? | `MoveSettles` (violated) | the same without faults |
| `queue` | Is a requested scan begun? | `WantedIsQueued`, `RequestIsHonoured` | 2 libraries, both scheduled, 2 failures, 2 retries |
| `queue_starved` | Is a due library scanned? | `DueIsScanned` (violated) | 2 scheduled libraries, no failure |
| `ledger` | Do the sums stay right, and does every transaction end? | `ChargedForWhatIsRecorded`, `ChecksHoldAtTheWrite`, `EveryTransactionEnds` | 2 spools of 1 filament, 2 prints, 1 key, 2 connections, 4 begins |
| `imports` | Does an import publish all or nothing, once, and whose words stay? Is what is uploaded whole, and indexed? | `IndexedFilesStay`, `HalfIsNeverIndexed`, `FailureLeavesNothing`, `SourceIsAuthoritative`, `EditsAreKept`, `CompleteStands`, `EveryImportEnds`, `StoredIsIndexed`, `ExtractionIsAllOrNothing`, `RowGoesWithItsFiles` | 2 files, 2 handlers, 2 clicks, 2 troubles; and 2 uploads, 2 names, 3 kinds of storage, 2 troubles |
| `derived` | Is what a row shows true, does every file get it, is a rename followed? | `DerivedIsCurrent`, `WorkIsDone`, `RenameIsFollowed` | 2 names, 2 contents, 2 rows, thumbnails and digests, 2 troubles, 1 scan |
| `derived_edits` | Is an edit ever taken for a rename? | `EditIsNotARename` (violated) | the same with digests only, 3 troubles, 2 scans |
| `services` | Do accounts, passwords, sign-ins, print requests and restores keep what they promise when their requests interleave? | `AdministratorRemains`, `InvitationMakesOneAccount`, `SessionsAreCurrent`, `PasswordChangesAreAuthorised`, `ChallengesAreCurrent`, `LateAnswersAreIgnored`, `HistoryAgrees`, `FilledInIsKept`, `RestoreIsClean` | see below |

### Bounds, and why they are enough

*Scan.* A folder holds two files, so that one can be in the index without the other. What can go wrong with a row involves its own path and at most one other it is
confused with; two paths and two ids give both, and renames get a third so that a twin
can stay behind while two vanish. `MaxDisk`, `MaxRemove`, `MaxOutage` and `MaxCrash` bound how
often the outside acts: two acts put one before and one during a walk; one removal can
fall between any two statements. A count is one number over the whole behaviour, so each
run spends it on its own question; `scan_converges` allows one removal, outage or crash in all
(`MaxMishap`) beside the two acts. `GraceDays` is one in `scan_converges`, where time is not the question,
and two in `scan_outages_renames`, so that a row can be missing and not expired. In both the guard's minimum
of five models and twenty percent becomes two and forty, where one of two models gone is
too many and the boundary "exactly the minimum" is met. `LooseFile` is empty: models that
are loose files are only excluded from rename folding. Ids are interchangeable, and so are two of the
paths; `scan_outages_renames`, which has no liveness, uses both symmetries. A root with nothing but models
in it (`RootHasOtherFiles` is false in both) lets the guard against an empty root bite.

*Tree.* Three levels are what a model nested in a model nested in a folder needs. One name
(`stl`) stands for the common ones, and is met at the root, in a model, and with a folder of its own inside.
Two files and one act put any two or three kinds of file in any folders: a sidecar over a mesh,
a mesh beside a package. `Depth` is one because the scan passes none
(`scan-service.ts:197`) and that is the default. In `tree_edits` the owner does
not act, since the edit and the scan suffice.

*Move.* One file on each side of the difference the code makes, rename or copy. Two faults make a
transfer fail and its rollback too; one crash may fall anywhere; two deliveries show a
redelivery.

*Queue.* Two libraries compete for the worker and the empty key. `Period` is the number of
sweeps between two firings of a schedule; one, a library due at every sweep, is the hardest for a
request to live beside. Failures within the retry limit are the
interesting ones: beyond it the queue gives up by design.

*Ledger.* Two connections suffice for every pair of operations on the same rows, and two
spools for two orders of locking. Four begins (the two spools and two transactions, or
one spool and three) are what a retry beside an edit, an archiving or a weighing needs.
One weight per print and one on the scales: sums are checked by the changes that must
cancel, and the proofs do not depend on the values. Begins are bounded, so the system
stops when they are used up and the run does not check for deadlock; that no transaction
is stuck is `EveryTransactionEnds`.

*Imports.* Two files can be half-published. Two handlers are a late one beside the next.
`MaxTrouble` counts failing steps, rollbacks that fail, dying workers, late deliveries and
removals together: two of them are every pair, in every order, and stay below the
retry limit of three, beyond which the queue gives up by design. Two clicks are the
request and one retry. Some properties exclude some troubles, each for a reason the code
gives: a worker that dies between two files leaves the first where another scan
finds it, and a rollback that fails leaves what it could not remove.

*Uploads.* Two archives of two files, or an archive and a file that goes where one of its entries does, into a
folder that is empty or holds a file of the owner's, indexed or not. Two archives meet on a local disk
only: where the staging directory is makes no difference to them, and a bucket takes their entries whole. Two files make an archive that can be
half extracted, two uploads one that meets another. `MaxTrouble` counts the owner's acts, deletions,
failures and deaths together. Two of them are a deletion with a removal that fails, a failed extraction
beside the owner, a scan that fails beside a worker that dies. An upload is tried once and requests are
bounded, so the system stops, and the run does not check for deadlock; that no import is stuck
is `EveryImportEnds`.

*Derived work.* One file is there at first. Two names and two contents are what a rename, a copy and an
edit need, and two rows what a rename makes of them. `MaxTrouble` counts the owner's acts, reads that
fail and crashes together: two of them are an edit beside a failure, a rename beside a crash. One more scan sees
what they did. A thumbnail is an analysis with a store, so the run has the harder of the
two. With three troubles and two scans the instance is too large for a run of minutes; the proof of
`DerivedIsCurrent` has no such bounds.

*Services.* The five share no row that decides anything, so one run picks one of them in its
first state and the bounds are each part's own. Accounts: two server actions at once, three people, so
that two administrators can end each other beside a new account; one invitation, two acts of an
administrator, one death. Passwords: two requests, two passwords set, two links, three sessions: a reset
overtaken by a change, by a newer link, by a sign-in. Sign-in: two attempts from two tabs, two tries,
one wrong code. Requests: two sessions of which one runs the queue, two models, two prints, three
presses, one that breaks off. Restore: two requests, one upload that carries model files (the database before and the one
after), two applications of it, two troubles. Presses, acts and troubles are bounded, so the system stops
and the run does not check for deadlock. Calls, models and requests are interchangeable, and the run
has no liveness, so it uses that symmetry.

### Fairness, and why the code justifies it

- `LibraryScan`: the worker takes its jobs and sweeps keep sending them, so a scan that can
  take a step does (`WF` on `ScanStep`) and so does the nightly prune. Days pass: `SF`
  because the prune, which is short, disables the passing of a day for its duration. A
  removal in progress ends. Nothing makes the owner remount a volume, so `Converges`
  assumes it. Nothing makes an admin confirm a scan either (`force`), and without one an
  owner who empties most of a library is refused by the guards for ever: `Converges` names
  that end (`Refusing`) and allows no other. `scan_converges` has this fairness; its folders in each other have safety
  properties only, and none of their own.
- `LibraryMove`: the worker works the job off; each library is scanned again and again, by the
  request the move itself sends and by the schedule.
- `ScanQueue`: pg-boss hands out each waiting job eventually whichever key it is under:
  `SF` on `Fetch(key)`, since the worker's being busy disables it again and again. Handlers
  end, jobs of a dead worker expire, the sweep's cron never stops. No user has to press
  anything.
- `FilamentLedger`: a connection that can go on does. A lock can be taken and released again
  and again by others only finitely often, because begins are bounded, so weak fairness
  is enough.
- `ModelImport`: a web request and a handler go on, waiting jobs are fetched, jobs of dead
  workers expire. A handler asks for the scan lock every 50 ms and other scans are one step, so
  weak fairness is enough. `EveryImportEnds` leaves a late delivery out: see below.
- `Uploads`: the worker takes a scan that waits and carries it out, or it fails and is tried again (`WF`
  on `ReadFolder` and on `IndexFolder \/ ScanFails`). No handler of an upload need ever go on. In the
  instance with `ModelImport` whichever of the two is not at work has nothing enabled, so the
  fairness of both can be asked of both.
- `DerivedWork`: the worker takes the jobs of each kind and finishes what it does, a scan that has
  updated its rows hands out the work, and the sweep comes round (`WF` on `Handle(k)`, `HandOff` and
  `Reconcile`). No scan need ever begin, and `RenameIsFollowed` asks for its end only once the
  owner has stopped.

Interruptions, faults, crashes and requests are never fair.


## The proofs

Each proof module holds for every value of the constants that satisfies the assumption
named in its model: finite sets of paths and ids and a positive grace period
(`ScanAssumption`, and `NoModelAssumption`: the marker of an absent row is not a row);
directories that are sequences of names, with every directory above each, and a depth of at least one
(`GroupingAssumption`);
finitely many files (`MoveAssumption`); weights that are natural numbers and markers
that are not in the sets they mark absence from (`LedgerAssumption`); the same of markers
beside handlers, attempts, calls, models and prints (`ImportAssumption`, `QueueAssumption`,
`SignInAssumption`, `PasswordsAssumption`, `RequestsAssumption`, `AccountsAssumption`,
`RestoreAssumption`, `UploadsAssumption`, `DerivedAssumption`). There is no
bound on outside events but the natural numbers `Max...`.

| theorem | says |
|---|---|
| `LibraryScanProofs!TypeCorrect` | `Spec => []TypeOK` |
| `LibraryScanProofs!ScanInvariant` | `Spec => []ScanInv` |
| `LibraryScanProofs!IndexIsWhatWasWalked` | `Spec => []IndexMatchesWalk` |
| `LibraryScanProofs!OnlyGoneGoesMissing` | `Spec => MissingMeansGone` |
| `LibraryScanProofs!NoMassDisappearance` | `Spec => MassDisappearanceRefused` |
| `LibraryScanProofs!GracePeriodKept` | `Spec => KeptForGracePeriod` |
| `LibraryScanProofs!LibraryKeepsARow` | `Spec => PruneNeverEmptiesLibrary` |
| `LibraryScanProofs!HistoryTells` | `Spec_H => [](ScanInv /\ HistoryInv)` |
| `LibraryScanProofs!RescanIsQuiet` | `Spec_H => QuietRescan` |
| `LibraryScanProofs!ARenameKeepsItsRow` | `Spec_H => RenameKeepsTheRow` |
| `LibraryScanProofs!MeshesHaveOneModel` | `TreeSpec => []EveryMeshHasOneModel` |
| `LibraryScanProofs!AddingKeepsModels` | `TreeSpec => AddingTakesNothing` |
| `LibraryMoveProofs!FilesAreNeverLost` | `Spec => []NeverNeither` |
| `LibraryMoveProofs!MoveIsTyped` | `Spec => []TypeOK` |
| `LibraryMoveProofs!TheRowMovesLast` | `Spec => []RowMovesLast` |
| `LibraryMoveProofs!TheRowHasItsFiles` | `Spec => []RowHasItsFiles`: the two, which one run checks as one |
| `LibraryMoveProofs!TheArrivedIsNotHidden` | `Spec => ArrivedIsNotHidden` |
| `ScanQueueProofs!QueueIsTyped` | `Spec => []TypeOK` |
| `ScanQueueProofs!RequestsMayCollapse` | `Spec => []WantedIsQueued` |
| `FilamentLedgerProofs!LedgerIsTyped` | `Spec => []TypeOK` |
| `FilamentLedgerProofs!PrintsAreChargedOnce` | `Spec => []ChargedForWhatIsRecorded` |
| `FilamentLedgerProofs!MeasuringIsExact` | `Spec => []MeasuredIsExact` |
| `FilamentLedgerProofs!ArchivedIsNeverAdded` | `Spec => []OnlyActiveSpoolsAreAdded` |
| `FilamentLedgerProofs!SubmissionsAreNeverRefused` | `Spec => []RetryIsAnswered` |
| `FilamentLedgerProofs!ChecksHold` | `Spec => []ChecksHoldAtTheWrite`: the three above, which one run checks as one |
| `ModelImportProofs!Typing` | `Spec => []TypeOK` |
| `ModelImportProofs!IndexedFilesAreKept` | `Spec => []IndexedFilesStay` |
| `ModelImportProofs!EditsStay` | `Spec => EditsAreKept` |
| `ModelImportProofs!CompleteStays` | `Spec => CompleteIsKept` |
| `ModelImportProofs!CompleteImportsAreWhole` | `Spec => CompleteIsWhole` |
| `ModelImportProofs!CompleteImportsStand` | `Spec => CompleteStands`: the two, which one run checks as one |
| `ModelImportProofs!HalfAModelIsNeverIndexed` | `Spec => []HalfIsNeverIndexed` |
| `ModelImportProofs!FailuresLeaveNothing` | `Spec => []FailureLeavesNothing` |
| `ModelImportProofs!TheSourceDescribes` | `Spec => []SourceIsAuthoritative` |
| `ModelImportProofs!ArchivesAreAllOrNothing` | `Up!UploadsSpec => []ExtractionIsAllOrNothing` |
| `ModelImportProofs!TheRowGoesWithItsFiles` | `Up!UploadsSpec => RowGoesWithItsFiles` |
| `ServicesProofs!PasswordsAreTyped` | `Password!Spec => []Password!TypeOK` |
| `ServicesProofs!OnlyCurrentSessions` | `Password!Spec => []SessionsAreCurrent` |
| `ServicesProofs!ChecksAreNeverStale` | `Password!Spec => PasswordChangesAreAuthorised` |
| `ServicesProofs!SignInIsTyped` | `SignIn!Spec => []SignIn!TypeOK` |
| `ServicesProofs!OnlyTheCurrentAttemptAsks` | `SignIn!Spec => []ChallengesAreCurrent` |
| `ServicesProofs!LateAnswersNeverSave` | `SignIn!Spec => LateAnswersAreIgnored`: the sign-in implements `LatestAttempt` |
| `ServicesProofs!RequestsAreTyped` | `Queue!Spec => []Queue!TypeOK` |
| `ServicesProofs!RequestAndHistoryAgree` | `Queue!Spec => []HistoryAgrees` |
| `ServicesProofs!WorkIsNeverThrownAway` | `Queue!Spec => FilledInIsKept` |
| `AdministrationProofs!AccountsAreTyped` | `Account!Spec => []Account!TypeOK` |
| `AdministrationProofs!AnAdministratorStays` | `Account!Spec => []AdministratorRemains` |
| `AdministrationProofs!OneAccountAnInvitation` | `Account!Spec => []InvitationMakesOneAccount` |
| `AdministrationProofs!RestoresAreTyped` | `Restore!Spec => []Restore!TypeOK` |
| `AdministrationProofs!RestoresAreClean` | `Restore!Spec => []RestoreIsClean` |
| `DerivedWorkProofs!DerivedWorkIsTyped` | `Spec => []TypeOK` |
| `DerivedWorkProofs!DerivedStaysCurrent` | `Spec => []DerivedIsCurrent` |

*The scan.* `IndexMatchesWalk` speaks of one phase and is far from inductive. `ScanInv`
says what holds at every moment of a reconciliation: paths are unique among all rows,
missing ones included (the unique index); `done` are the folders finished; a touched row
belongs to a folder that is done and holds at least what was walked, or is the one
between its two halves; and once every folder is done and the files are marked, a touched row
holds exactly what was walked. The conjuncts need each other: without unique paths a
second row could hold a done path untouched, and without the clause on the row in
progress a removal between the halves would break the third. The two action properties
follow from it by looking at each action that clears or sets `missing`.
`MassDisappearanceRefused` relates the guard to a mark made many statements later.
`GuardHeld` says that what would go missing stays within the threshold once the guard has
tested it: after the guard a rename is written only onto a folder that was found, a row is
revived only at one, and the user and the prune only take rows away, so the set only shrinks.
`PruneNeverEmptiesLibrary` relates the look of a prune to its deletion, with scans in between. `Spares`
says that while the user has removed nothing no row waits for a removal, and that a prune which decided
to delete has a row that is not over, if there are rows at all: it saw a live one, no step of a scan brings a
row to the end of its grace period, and no day passes before the prune is done.

*The history of a library.* `QuietRescan` and `RenameKeepsTheRow` span scans. `HistoryInv` relates what has happened
to how the index stands to the volume. A scan nobody disturbs can rely on its walk (`WalkHolds`): what it read is
what is there, the rows it touched are live and at the folders done, and past the marks no other row has a file. So
when it succeeds the index is the volume (`Suits`), and each statement of the next one, revived row, merged files and marks
included, writes what is there already (`QuietStep`). After a rename the index is the volume but for one row
(`Awaits`): it alone vanished, the new folder alone is new, so the next scan matches the two whatever
other folders look like them, and what it was before it is again (`Arrived`). The fold may fail, on a missing
row at the new path, and the scan may be refused; the row then waits on. The first attempt at this proof failed for a
reason: a folder renamed to a name on a part of the volume that is not mounted is not seen, and its row
goes missing. The history now tells that rename from the others.

*The tree.* The grouping has no state of its own, so these two theorems are about the operators and hold of
every tree (`TreeTyped`). On the way to a mesh there is at most one directory
below which all names are common and above which none is (`Below`), and whoever owns the mesh is that directory or collapses above it (`OwnerBelow`,
`OneBelow`). Two owners would then lie one above the other, and the walk does not go on from
one that collapses (`UpperDescends`). That there is one owner follows from the last directory the walk
gets to on the way: it stops there because it collapses, and owns the mesh; or because it is too deep below
a package; or it is the directory itself. A last one exists because the directories it gets to are an initial part
of the way (`VisitedAbove`), and such a part is as long as its cardinality (`InitialPart`), which
takes the place of an induction. `AddingTakesNothing` is monotonicity: a mesh or an image changes neither what
is pinned nor, outside `top_level`, what collapses, so everything else only grows.

*The move.* `FilesInv` adds the type of `disk` to `NeverNeither`. The argument is one step per
action that touches a file: each either makes a second copy or removes one when the other
is seen to be whole. `RowMovesLast` needs `MoveInv`, which follows an undisturbed move through three
phases: `Untouched` (the source is whole and the row is there), `Carrying` (what was moved is whole at the
destination, the rest still at the source) and `Arrived`. A scan of the source may mark files
missing meanwhile, and the phases say of which ones. `ArrivedIsNotHidden` needs `SeenInv`: what has
been carried is there (`CarriedIsThere`); once the row has moved the job is over but for the exclusion,
the folder is not empty, and a scan of the destination past its walk has seen a file there or claimed the
row (`ArrivedIsSeen`).

*The queue.* `WantedIsQueued` is about one library's own key; the jobs the sweep sends, which may be of any
library, stay under the empty one (`KeyedIsOwn`). A request can only be lost when a job that stood for it
goes without a scan having begun, that is when it fails for the last time, so the invariant counts:
what a key's job has failed, or is about to, is at most the failures there were (`FailuresCounted`), and
below the retry limit a failed job finds its place again. `OwedIsHeld` carries the request through the scan
that has begun, until it ends or fails.

*The ledger.* `LedgerInv` is what `PrintsAreChargedOnce` needs: a transaction on a print
names a print (`PrintsAreAsked`), the one being logged is fresh (`LogIsFresh`), past its row
lock it is alone with it (`Alone`) and what it read of it is still so (`Seen`); a print that
is gone records nothing (`Gone`). Then the delta a commit adds is the difference between
two charges of which the first is the charge in the table. `SpoolInv` says that no spool is
held twice (`HeldApart`) and that a transaction about to write holds every spool it names
(`LocksWhatItNeeds`); it makes weighing exact, and together with the filament's lock
keeps archiving out. `KeyInv` says that a key past its lock is held by one transaction, and
so that whoever goes on to insert has seen every committed run of that key.

*Imports.* `IInv` starts from the locks (`Locks`): who works holds the import's, who publishes
the scan lock too. So from staging to the end one handler alone changes the folder, and
from publication on no other scan looks at it. `Attempt` says what follows: the staged files
are just those the folder lacks, and what the attempt published the index does not name,
unless the model is reserved, in which case the rollback spares it. `Progress` says that
what is described is whole, or is being removed, and that a working handler's request is not
complete. `Exclusion` covers the removal's two statements: an excluded folder's row is
about to go, or gone, which is why a scan of an excluded folder cannot complete an import. An edit
is kept by every action taken alone. `WholeInv` adds what holds while the troubles a property excepts have not
happened. `Settled`, always: past its start a working handler's request is importing, what is
indexed or reserved is whole, and what was reserved is not rolled back. `FolderWhole`, unless a worker died
midway or a rollback failed (`Unharmed`): outside an attempt the folder has every file or none, during one what the
attempt has published. `NothingLeft` and `Described`, unless the model was removed as well
(`Undeleted`): what is not reserved is not there, and what is waits for the words of its source, or has them,
or the user's.

*Uploads.* `Extractions` is about an archive that meets nobody: before it and after it failed nothing whole
of it is in the folder, in between nothing but what it will remove, and at its end all of it. `Cleared` says
that a deletion that has not failed has removed what it is done with, so the row goes only when nothing
it named is left.

*Passwords.* `LockKeeps`: a request past its lock holds it, and what it has checked (the account is not
suspended, the password it knows is the one set, its link the one in the row) stays so, because
everything that could change it waits for the same lock. Both properties follow.

*The sign-in.* `Provenance` says where names come from: what rows, browsers and calls name has been
opened. `FirstIsAlone` says that until a call has acted on the first answer nobody else knows of
its attempt, which is why its challenge can be added, and its guard be closed, without asking further.
For the implementation each action is one lemma's case: only a transaction that sees its attempt
current and not expired saves, and it ends the attempt in the same transaction.

*Print requests.* `Knowing` says what a change has found out at each of its steps, `OneByOne` that two
under way have overlapped, `Informed` that one which has not still has in hand what the request names.
So a write that overlaps none loses no print (`OnePrint`). `Untouched` is what keeps work that was filled in.

*Accounts.* `Births`: one server action makes an account, from nothing to its role, and has spent the
invitation before it gives the role. `Redeemed`: an invited account has spent its invitation, is
being made, or its action died. `Administered`: unless two looks raced, there is an administrator whom no
statement under way can end (`Safe`), or there has never been one and all there is is the setup's
(`NoneYet`). A look that finds another administrator starts a statement that can end only the
one it is about; the invariant says why the other cannot be ended meanwhile.

*Restore.* Unless two restores crossed, `Standing`: one at a time (`OneAtATime`), each step knows what
has been done before it (`CourseOf`), the status page shows the restore that runs and what became of
the last (`Shown`), the worker is up, stuck or about to be resumed (`Served`), and no handler works while
the database is replaced, nor does a queued job name another than the one in place except before it is
discarded (`Dropped`). Beside it `Filed`: a request past the copying has its backup's files, all of
them, in their places (`Furnished`), and so has the database it has put in place, until another restore begins.

*Derived work.* A row says when the file it describes was written, not what was in it, and the owner may rename
a file back to the name, with the time, of one already read. `OneTimeOneContent` names the argument: some mapping
of times to contents tells what every file, every row and kind not `overtaken`, every preview whose key is not `spoiled` and every
handler that is not late has of its time. A change of the owner's takes a time nobody has used (`Dated`) and extends the
mapping; everything else copies along it. A preview kept by a row and its time is that row's at that time, so it
follows the mapping; one kept by a digest shows the digest's content. The proof needs the marks to follow what
goes on from a late answer: a thumbnail kept for a digest that was late, or read late under the old time of a row
whose file is renamed back to it (`mv p q`, a save of p while its thumbnail is read, a scan, `mv q p`, a scan), is shown by a row
that nobody wrote late to.

*Model-checked only.* Liveness (`Converges`, `CleanMoveSettles`, `RequestIsHonoured`,
`EveryTransactionEnds`, `EveryImportEnds`, `StoredIsIndexed`, `WorkIsDone`, `RenameIsFollowed`), which is out of the prover's reach. Every other property of a passing
run has a theorem.


## Findings

- `move_halfdone`: a worker that dies after the row of a moved model is updated and before
  the exclusion at its destination is deleted leaves the exclusion for good. The
  redelivered job sees a model that has arrived and does nothing
  (`apps/worker/src/jobs/move.ts:43`), every later scan of the destination skips the
  folder, the model goes missing and the prune deletes it.
- `queue_starved`: the sweep sends every due library without a key
  (`apps/worker/src/jobs/schedule.ts:31`), and jobs without a key share the one slot of the
  empty key. The library listed second gets no job while the first is in the slot; when the first is
  due again each time the slot is free, the second is never scanned.
- `derived_edits`: the digest handler takes a row without a digest for a new file
  (`apps/worker/src/jobs/analyze.ts:278`), and the comment at line 275 says that one whose content
  changed "already had a digest". The scan clears the digest of a changed file
  (`core/src/scan/scan-service.ts:497`). After `mv q p` over a known `p`, the row of `p` gets the
  digest of `q`, is folded into the missing row of `q`, and what was attached to `p` is deleted.

- `tree_edits`: `syncSidecar` asks the rows for models nested in the one edited
  (`core/src/services/model-service.ts:365`) so that, as the comment at line 344 says, adding a tag does not
  "silently" merge "the models underneath at the next scan". A scan upserts the outer folder first. An
  edit that looks between the two upserts writes its sidecar above a live nested model, the next scan
  merges it, and its row goes missing and is pruned.

Behaviours the models show and the code does not promise otherwise, so that no run calls
them wrong: a rename onto a path held by a missing row fails every scan until the prune
deletes that row; a removal after a scan has loaded its exclusions lets the scan make the
row again; a crash between two files of a move leaves the model split between two
libraries with every file still whole in one; a dead worker's run stays
'running' and refuses moves until it is cleared; a worker that dies between two files of
an import lets another scan index half the model and the analyzer describe it, and then the
import, once complete, keeps those words instead of the source's; a job delivered while
a late handler still holds the import's lock is done at once, so that if that handler's worker then
dies, nothing finishes the import until the user asks again; and on S3 a move into the folder that
copied and could not delete is not rolled back.

The same is so of the parts one instance checks together. *Accounts*: two removals that both looked before
either wrote can end both administrators (`AdministratorRemains` excepts them through
`raced`, although `users/actions.ts:33` says the check refuses such a change); the late update of
the role demotes an account somebody made administrator meanwhile; a setup that dies before its
promotion leaves an instance with a user and no administrator. *Print requests*: two overlapping changes, or
one that breaks off and is asked again, leave a second print, and a print filled in after the look is deleted
(both are excepted print by print). *Restore*: a restore that fails after it has
begun to put files in their places says that "nothing was changed" (`backup/http.ts:406`), and the comment at
`restore.ts:185` calls those files inert, but where the old database has files at the same paths they are the backup's now,
some or all, and stay so (`RestoreSettles` claims only the database); `restored` stays
false after an upgrade that fails, so the old jobs are kept, as they are by a crash between the commit
and the discard; the status is not looked at again between the check of an apply and its write, so two
restores can cross; an upload begun before an apply removes the staged file or overwrites the
status; a pause that fails is not followed by a resume. *Derived work*: a crash between the update of the
digest and `resolveRename` leaves the two rows unfolded for good; a thumbnail rendered while the file changed, or while its
digest was out of date, is kept under the old size and time or the old digest, and shown again by whatever has them
later, where `preview-store.ts:11` says "a stale image can never be served" (the key changes with the row, not with the bytes); a fold whose missing row was
brought back by a scan after the look deletes the new row all the same; a row reset whose late handlers finish before the
scan hands out is left to the sweep; a failure is recorded and not tried again; and
`resolveRename` does not exclude the fresh row from its candidates. *Uploads*: a write that fails midway
leaves the entry it had opened, which the rollback does not remove and which then makes
`destinationInUse` refuse the same archive again; the rollback removes by name, so it takes what another
upload or the owner has put there since; two archives of one name can both find the destination empty; what
is not stored, or not scanned, the browser is not told; across volumes a scan can see a
file half copied; a file that is uploaded and indexed while its model's files are being deleted is forgotten
with the row until the next scan; and a file that is already gone makes the deletion refuse, again at every
try, until a prune has dropped its row. *Grouping*: a mesh in a common
folder at the root of the library, in a folder of its own inside a common one or, in flat mode, in a common
folder of a directory above the depth or too deep below a package belongs to no model; the preview groups by the depth that was chosen
(`admin/libraries/actions.ts:178`) and the scan by the default.


## What is left out

*Of the parts that are modelled.* Scan: sidecars that restore a row's metadata and search vectors;
the list of derived work is in `DerivedWork`. Prune: rows of single files, old problems and old
runs. Move: sidecars and empty
folders. Queue: the payload's `mode` and `force`, and the queues other than scans, which differ in
policy. Ledger: costs, snapshots of names and prices, edits that change neither stock nor who
may be named. Imports: the cover picture, which is optional; what the sources answer and the
credentials, a choice between success and failure; a web process that dies between its insert and its
send, which the user repairs by asking again; two clicks of one user at the same moment.
Uploads: tickets and the resumable transfer, which the tus server keeps, downloads as an archive, and which
paths and entries are safe. Derived work: the metadata a slicer embeds, a `lastSeenAt` that a fold reads before it
writes, the rendering, a job that outlives its two hours. Accounts: names and addresses
(`updateUser`), what a role permits. Passwords: hashing and cookies, which are the library's. Sign-in: what
MakerWorld answers is a choice. Print requests: the wording (`updateRequest`), making
several at once, lists. Restore: the export, what the files and the tables hold, files of the old
database that the backup has no namesake of (they stay, for a scan to find), and a web action that read old rows and sends its job after the discard.
Grouping: names and their case, what the walker skips, containers and nested models, which are reported
and change nothing; and what a sidecar says.

The advisory lock of a scan is taken to be held; that it is a connection that can drop is listed as a
hazard without a property.

*Of the rest.* Geometry (parsers and renderers over floating point and byte streams), the web
interface, HTTP clients and parsers of other sites, cryptography, search and queries
keep no shared state a protocol depends on, or none a model checker can say more about
than a test. They are most of the implementation by lines, which is why the modules
stand for about a tenth of it. Those with a protocol of their own that are not modelled
are in the plan.


## The plan

In this order, most important first. What is done is marked.

1. *(done)* The scan, its histories, its proofs: the index is the product.
2. *(done)* The move between libraries, and the queue, which decide when scans happen.
3. *(done)* The ledger of filament and prints, with its proofs.
4. *(done)* Imports, with the proofs of their safety.
5. *(done)* `Accounts` and `Passwords`: invitations in their three commits, roles and the last
   administrator, suspension and sessions, recovery links against changes and sign-ins.
6. *(done)* `PrintRequests`: one print per printed request; only what a request made is deleted
   with it.
7. *(done)* `DerivedWork`: answers about old bytes, and the digest by which a rename is folded.
8. *(done)* `BackupRestore`: pausing, one transaction, resuming, with crashes.
9. *(done)* `MakerWorldSignIn`, with answers that arrive late, and the promise it implements.
10. *(done)* `Grouping` and `ModelTree`: every mesh in one model, sidecars that edits leave.
11. *(done)* `Uploads`: files and archives that arrive beside scans, and `deleteModelFiles`.
12. The token of a share.
13. That `LibraryMove`'s scan of one path is implemented by `LibraryScan`, and that the ledger
    implements a balance that each operation adjusts at once.

Theorems to come: the two implementations of step 13.
