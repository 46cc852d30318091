----------------------------- MODULE ModelImport -----------------------------
(***************************************************************************)
(* Importing one model from another site into a library: the request       *)
(* (upload/source-actions.ts), its job (jobs/import.ts) and the service    *)
(* that stages the files, publishes them under the library's scan lock,    *)
(* indexes and describes them (core/src/import/import-service.ts).  Beside *)
(* it run other scans of the library, the analyzer that takes metadata     *)
(* from the files themselves (embedded-metadata-service.ts) and the user.  *)
(*                                                                         *)
(* The model has a folder of its own, named after the request.  A scan is  *)
(* abstracted to what it does to that folder, in one step: it holds the    *)
(* scan lock throughout, and LibraryScan has the races it does not exclude.*)
(***************************************************************************)
EXTENDS Integers, FiniteSets

CONSTANTS
  File,        \* the files of the model, as numbers in the order of their names
  Handler,     \* handlers of the worker; a late one runs beside the next
  NoOne, Lost,
  MaxClick,    \* bound on the times the user asks
  MaxTrouble   \* bound on everything that goes wrong, below the retry limit

ASSUME ImportAssumption ==
  /\ File \subseteq Nat /\ IsFiniteSet(File) /\ File # {}
  /\ NoOne \notin Handler /\ Lost \notin Handler \cup {NoOne}
  /\ MaxClick \in Nat /\ MaxTrouble \in 0..3

VARIABLES
  state,       \* model_imports.state, "none" before there is a row
  reserved,    \* model_imports.model_id names the row of the model
  disk,        \* the files in the folder
  row,         \* the row of models: its live files and where its metadata is from
  sidecar,     \* whose metadata the sidecar in the folder holds
  excluded,    \* the folder is in model_exclusions
  removing,    \* its row is about to be deleted
  jobs,        \* live files whose derived work waits in the queues
  analysed,    \* live files whose derived work is done
  web,         \* the user's request in progress
  waiting, retrying, active,   \* the import's jobs, one in each state at most
  importLock, scanLock,        \* the advisory locks: who holds them
  pc,          \* where each handler is
  staged,      \* files it has still to publish
  published,   \* files it has published
  count        \* bounded outside events

requestVars == <<state, reserved>>
modelVars == <<row, sidecar, jobs, analysed>>
queueVars == <<waiting, retrying, active>>
lockVars == <<importLock, scanLock>>
handlerVars == <<pc, staged, published>>
userVars == <<excluded, removing>>
vars == <<requestVars, disk, modelVars, userVars, web, queueVars, lockVars,
          handlerVars, count>>

NoRow == [files |-> {}, meta |-> "none"]
Event == {"click", "fault", "stuck", "crash", "late", "remove"}

Trouble(event) ==
  /\ count["fault"] + count["stuck"] + count["crash"] + count["late"] + count["remove"] < MaxTrouble
  /\ count' = [count EXCEPT ![event] = @ + 1]

----------------------------------------------------------------------------
(* The user's request. *)

\* createModelSourceImport inserts the request, or reads the one there is: an
\* import that failed, or whose model is gone, is to be queued again.
Ask ==
  /\ web = "idle" /\ count["click"] < MaxClick
  /\ count' = [count EXCEPT !["click"] = @ + 1]
  /\ web' = IF state = "failed" \/ (state = "complete" /\ ~reserved)
            THEN "requeue" ELSE "send"
  /\ state' = IF state = "none" THEN "queued" ELSE state
  /\ UNCHANGED <<reserved, disk, modelVars, userVars, queueVars, lockVars, handlerVars>>

\* The update asks for the request's id only, whatever its state is by now.
Requeue ==
  /\ web = "requeue" /\ web' = "send"
  /\ state' = "queued"
  /\ UNCHANGED <<reserved, disk, modelVars, userVars, queueVars, lockVars, handlerVars, count>>

\* A job that already waits swallows this one.
SendJob ==
  /\ web = "send" /\ web' = "idle"
  /\ waiting' = TRUE
  /\ UNCHANGED <<requestVars, disk, modelVars, userVars, retrying, active, lockVars,
                 handlerVars, count>>

\* The send fails; the job may have been queued all the same.
SendFails ==
  /\ web = "send" /\ web' = "fail" /\ Trouble("fault")
  /\ waiting' \in {waiting, TRUE}
  /\ UNCHANGED <<requestVars, disk, modelVars, userVars, retrying, active, lockVars, handlerVars>>

\* markMakerWorldImportQueueFailed.
MarkQueueFailed ==
  /\ web = "fail" /\ web' = "idle"
  /\ state' = IF state = "queued" THEN "failed" ELSE state
  /\ UNCHANGED <<reserved, disk, modelVars, userVars, queueVars, lockVars, handlerVars, count>>

----------------------------------------------------------------------------
(* The queue. *)

Fetch(h) ==
  /\ active = NoOne /\ pc[h] = "idle"
  /\ \/ waiting /\ waiting' = FALSE /\ UNCHANGED retrying
     \/ retrying /\ retrying' = FALSE /\ UNCHANGED waiting
  /\ active' = h
  /\ pc' = [pc EXCEPT ![h] = "enter"]
  /\ UNCHANGED <<requestVars, disk, modelVars, userVars, web, lockVars, staged, published, count>>

\* The job outlives its time and is delivered again beside its handler.
Late(h) ==
  /\ active = h /\ Trouble("late")
  /\ active' = NoOne /\ retrying' = TRUE
  /\ UNCHANGED <<requestVars, disk, modelVars, userVars, web, waiting, lockVars, handlerVars>>

\* The worker dies: its connections, and with them the locks, are gone; its job
\* stays active until it expires.
Crash ==
  /\ \E h \in Handler : pc[h] # "idle"
  /\ Trouble("crash")
  /\ pc' = [h \in Handler |-> "idle"]
  /\ staged' = [h \in Handler |-> {}] /\ published' = [h \in Handler |-> {}]
  /\ importLock' = NoOne /\ scanLock' = NoOne
  /\ active' = IF active = NoOne THEN NoOne ELSE Lost
  /\ UNCHANGED <<requestVars, disk, modelVars, userVars, web, waiting, retrying>>

Expire ==
  /\ active = Lost
  /\ active' = NoOne /\ retrying' = TRUE
  /\ UNCHANGED <<requestVars, disk, modelVars, userVars, web, waiting, lockVars, handlerVars, count>>

----------------------------------------------------------------------------
(* The handler. *)

Goto(h, label) == pc' = [pc EXCEPT ![h] = label]

\* The handler returns: its connection closes and the job, if still its own, is done.
Leave(h) ==
  /\ pc[h] = "leave"
  /\ Goto(h, "idle")
  /\ staged' = [staged EXCEPT ![h] = {}] /\ published' = [published EXCEPT ![h] = {}]
  /\ importLock' = IF importLock = h THEN NoOne ELSE importLock
  /\ scanLock' = IF scanLock = h THEN NoOne ELSE scanLock
  /\ active' = IF active = h THEN NoOne ELSE active
  /\ UNCHANGED <<requestVars, disk, modelVars, userVars, web, waiting, retrying, count>>

\* Mutants: the lock is not asked for; a request found importing is left alone.
EnterUnlocked(h) ==
  /\ pc[h] = "enter"
  /\ IF state \in {"complete", "failed"}
     THEN Goto(h, "leave") /\ UNCHANGED importLock
     ELSE Goto(h, "start") /\ importLock' = h
  /\ UNCHANGED <<requestVars, disk, modelVars, userVars, web, queueVars, scanLock,
                 staged, published, count>>
EnterQueuedOnly(h) ==
  /\ pc[h] = "enter"
  /\ IF importLock # NoOne \/ state # "queued"
     THEN Goto(h, "leave") /\ UNCHANGED importLock
     ELSE Goto(h, "start") /\ importLock' = h
  /\ UNCHANGED <<requestVars, disk, modelVars, userVars, web, queueVars, scanLock,
                 staged, published, count>>

\* processMakerWorldImport tries the lock and reads the request.
Enter(h) ==
  /\ pc[h] = "enter"
  /\ IF importLock # NoOne \/ state \in {"complete", "failed"}
     THEN Goto(h, "leave") /\ UNCHANGED importLock
     ELSE Goto(h, "start") /\ importLock' = h
  /\ UNCHANGED <<requestVars, disk, modelVars, userVars, web, queueVars, scanLock,
                 staged, published, count>>

Start(h) ==
  /\ pc[h] = "start" /\ Goto(h, "stage")
  /\ state' = "importing"
  /\ UNCHANGED <<reserved, disk, modelVars, userVars, web, queueVars, lockVars,
                 staged, published, count>>

\* The user's rights, the credential and the source are checked, and what the
\* folder does not hold yet is downloaded beside it.
Stage(h) ==
  /\ pc[h] = "stage"
  /\ \/ Goto(h, "wait") /\ staged' = [staged EXCEPT ![h] = File \ disk] /\ UNCHANGED count
     \/ Trouble("fault") /\ Goto(h, "fail") /\ UNCHANGED staged
  /\ UNCHANGED <<requestVars, disk, modelVars, userVars, web, queueVars, lockVars, published>>

\* Mutant: files are published beside whatever scan is running.
TakeScanLockUnasked(h) ==
  /\ pc[h] = "wait" /\ Goto(h, "publish")
  /\ UNCHANGED <<requestVars, disk, modelVars, userVars, web, queueVars, lockVars,
                 staged, published, count>>

\* withLibraryScanLock asks again until the lock is free.
TakeScanLock(h) ==
  /\ pc[h] = "wait" /\ scanLock = NoOne
  /\ scanLock' = h /\ Goto(h, "publish")
  /\ UNCHANGED <<requestVars, disk, modelVars, userVars, web, queueVars, importLock,
                 staged, published, count>>

\* Mutant: a published file is not remembered.
PublishUnrecorded(h, f) ==
  /\ pc[h] = "publish" /\ f \in staged[h]
  /\ disk' = disk \cup {f}
  /\ staged' = [staged EXCEPT ![h] = @ \ {f}]
  /\ UNCHANGED <<requestVars, modelVars, userVars, web, queueVars, lockVars, pc,
                 published, count>>

Publish(h, f) ==
  /\ pc[h] = "publish" /\ f \in staged[h]
  /\ disk' = disk \cup {f}
  /\ staged' = [staged EXCEPT ![h] = @ \ {f}]
  /\ published' = [published EXCEPT ![h] = @ \cup {f}]
  /\ UNCHANGED <<requestVars, modelVars, userVars, web, queueVars, lockVars, pc, count>>

\* S3 has no rename: the file is copied and the original cannot be removed, so
\* the move fails and nobody remembers the copy.
PublishCopy(h, f) ==
  /\ pc[h] = "publish" /\ f \in staged[h] /\ Trouble("stuck")
  /\ disk' = disk \cup {f}
  /\ staged' = [staged EXCEPT ![h] = @ \ {f}]
  /\ Goto(h, "undo")
  /\ UNCHANGED <<requestVars, modelVars, userVars, web, queueVars, lockVars, published>>

\* What a scan makes of the folder: a new row takes its metadata from the
\* sidecar, or waits for some; an existing one keeps its own.
Seen == [files |-> disk,
         meta |-> IF row # NoRow THEN row.meta
                  ELSE IF sidecar = "none" THEN "pending" ELSE sidecar]

\* scanLibraryUnderLock: the row, its files and its reservation in one transaction;
\* of an excluded folder only a row that is there already, with no file left.
Index(h) ==
  /\ pc[h] = "publish" /\ staged[h] = {}
  /\ \/ /\ ~excluded /\ state = "importing"
        /\ Goto(h, "describe") /\ row' = Seen /\ reserved' = TRUE
     \/ /\ ~excluded /\ state # "importing"
        /\ Goto(h, "undo") /\ UNCHANGED <<row, reserved>>
     \/ /\ excluded /\ row' = [row EXCEPT !.files = {}]
        /\ Goto(h, IF row = NoRow THEN "undo" ELSE "describe") /\ UNCHANGED reserved
  /\ UNCHANGED <<state, disk, sidecar, jobs, analysed, userVars, web, queueVars, lockVars,
                 staged, published, count>>

\* Mutant: every attempt describes the model anew.
DescribeAgain(h) ==
  /\ pc[h] = "describe"
  /\ IF row = NoRow
     THEN Goto(h, "undo") /\ UNCHANGED <<row, sidecar>>
     ELSE /\ Goto(h, "derive")
          /\ row' = [row EXCEPT !.meta = "source"]
          /\ sidecar' = row'.meta
  /\ UNCHANGED <<requestVars, disk, jobs, analysed, userVars, web, queueVars, lockVars,
                 staged, published, count>>

\* The metadata of the source and its link, under the lock of the row, then the
\* sidecar.  A row with the link has no metadata pending.
Describe(h) ==
  /\ pc[h] = "describe"
  /\ IF row = NoRow
     THEN Goto(h, "undo") /\ UNCHANGED <<row, sidecar>>
     ELSE /\ Goto(h, "derive")
          /\ row' = [row EXCEPT !.meta = IF @ = "pending" THEN "source" ELSE @]
          /\ sidecar' = row'.meta
  /\ UNCHANGED <<requestVars, disk, jobs, analysed, userVars, web, queueVars, lockVars,
                 staged, published, count>>

\* onDerivedWork for every live file, whichever attempt indexed it.
Derive(h) ==
  /\ pc[h] = "derive" /\ Goto(h, "complete")
  /\ jobs' = jobs \cup row.files
  /\ UNCHANGED <<requestVars, disk, row, sidecar, analysed, userVars, web, queueVars, lockVars,
                 staged, published, count>>

\* model_id refuses a model that has been removed meanwhile.
Complete(h) ==
  /\ pc[h] = "complete"
  /\ IF row = NoRow
     THEN Goto(h, "undo") /\ UNCHANGED requestVars
     ELSE Goto(h, "leave") /\ state' = "complete" /\ reserved' = TRUE
  /\ UNCHANGED <<disk, modelVars, userVars, web, queueVars, lockVars, staged, published, count>>

\* A move, the scan, a statement or a queue fails.
Fault(h) ==
  /\ pc[h] \in {"publish", "describe", "derive", "complete"}
  /\ Trouble("fault") /\ Goto(h, "undo")
  /\ UNCHANGED <<requestVars, disk, modelVars, userVars, web, queueVars, lockVars,
                 staged, published>>

\* Mutant: the reservation is not looked at.
UndoAll(h) ==
  /\ pc[h] = "undo" /\ Goto(h, "remove")
  /\ UNCHANGED <<requestVars, disk, modelVars, userVars, web, queueVars, lockVars, staged,
                 published, count>>

\* The files of a reserved model stay for another attempt.
Undo(h) ==
  /\ pc[h] = "undo" /\ Goto(h, "remove")
  /\ published' = [published EXCEPT ![h] = IF reserved THEN {} ELSE @]
  /\ UNCHANGED <<requestVars, disk, modelVars, userVars, web, queueVars, lockVars, staged, count>>

Unpublish(h, f) ==
  /\ pc[h] = "remove" /\ f \in published[h]
  /\ \/ /\ disk' = disk \ {f} /\ published' = [published EXCEPT ![h] = @ \ {f}]
        /\ UNCHANGED count
     \/ Trouble("stuck") /\ published' = [published EXCEPT ![h] = {}] /\ UNCHANGED disk
  /\ UNCHANGED <<requestVars, modelVars, userVars, web, queueVars, lockVars, pc, staged>>

Release(h) ==
  /\ pc[h] = "remove" /\ published[h] = {}
  /\ scanLock' = NoOne /\ Goto(h, "fail")
  /\ UNCHANGED <<requestVars, disk, modelVars, userVars, web, queueVars, importLock,
                 staged, published, count>>

Fail(h) ==
  /\ pc[h] = "fail" /\ Goto(h, "leave")
  /\ state' = "failed"
  /\ UNCHANGED <<reserved, disk, modelVars, userVars, web, queueVars, lockVars,
                 staged, published, count>>

----------------------------------------------------------------------------
(* Everyone else. *)

\* Another scan, which sends the derived work of files that lack it.
OtherScan ==
  /\ scanLock = NoOne
  /\ row' = IF disk # {} /\ ~excluded THEN Seen ELSE [row EXCEPT !.files = {}]
  /\ jobs' = jobs \cup (row'.files \ analysed)
  /\ UNCHANGED <<requestVars, disk, sidecar, analysed, userVars, web, queueVars, lockVars,
                 handlerVars, count>>

\* Mutant: a reserved model is described all the same.
DescribesReserved(f) ==
  /\ f \in row.files /\ \A g \in row.files : f <= g
  /\ row.meta = "pending"

\* The first of the files is where embedded metadata comes from, unless a
\* request has reserved the model (applyEmbeddedModelMetadata).
Describes(f) ==
  /\ f \in row.files /\ \A g \in row.files : f <= g
  /\ row.meta = "pending"
  /\ ~(reserved /\ state # "complete")

Analyse(f) ==
  /\ f \in jobs
  /\ jobs' = jobs \ {f} /\ analysed' = analysed \cup {f}
  /\ IF Describes(f)
     THEN row' = [row EXCEPT !.meta = "embedded"] /\ sidecar' = "embedded"
     ELSE UNCHANGED <<row, sidecar>>
  /\ UNCHANGED <<requestVars, disk, userVars, web, queueVars, lockVars, handlerVars, count>>

\* updateModel.
Edit ==
  /\ row # NoRow
  /\ row' = [row EXCEPT !.meta = "user"] /\ sidecar' = "user"
  /\ UNCHANGED <<requestVars, disk, jobs, analysed, userVars, web, queueVars, lockVars,
                 handlerVars, count>>

\* removeModel, its two statements; the files stay.
RecordExclusion ==
  /\ row # NoRow /\ Trouble("remove")
  /\ excluded' = TRUE /\ removing' = TRUE
  /\ UNCHANGED <<requestVars, disk, modelVars, web, queueVars, lockVars, handlerVars>>

\* The reservation goes with the row.
DeleteModel ==
  /\ removing /\ removing' = FALSE
  /\ row' = NoRow /\ reserved' = FALSE
  /\ jobs' = {} /\ analysed' = {}
  /\ UNCHANGED <<state, disk, sidecar, excluded, web, queueVars, lockVars, handlerVars, count>>

RestoreExclusion ==
  /\ excluded /\ excluded' = FALSE
  /\ UNCHANGED <<requestVars, disk, modelVars, removing, web, queueVars, lockVars,
                 handlerVars, count>>

----------------------------------------------------------------------------
Init ==
  /\ state = "none" /\ reserved = FALSE
  /\ disk = {} /\ row = NoRow /\ sidecar = "none"
  /\ excluded = FALSE /\ removing = FALSE
  /\ jobs = {} /\ analysed = {}
  /\ web = "idle"
  /\ waiting = FALSE /\ retrying = FALSE /\ active = NoOne
  /\ importLock = NoOne /\ scanLock = NoOne
  /\ pc = [h \in Handler |-> "idle"]
  /\ staged = [h \in Handler |-> {}] /\ published = [h \in Handler |-> {}]
  /\ count = [e \in Event |-> 0]

Step(h) ==
  \/ Enter(h) \/ Start(h) \/ Stage(h) \/ TakeScanLock(h)
  \/ \E f \in File : Publish(h, f) \/ Unpublish(h, f)
  \/ Index(h) \/ Describe(h) \/ Derive(h) \/ Complete(h)
  \/ Undo(h) \/ Release(h) \/ Fail(h) \/ Leave(h)

Next ==
  \/ Ask \/ Requeue \/ SendJob \/ SendFails \/ MarkQueueFailed
  \/ \E h \in Handler : Fetch(h) \/ Step(h) \/ Fault(h) \/ Late(h)
  \/ \E h \in Handler, f \in File : PublishCopy(h, f)
  \/ Crash \/ Expire
  \/ OtherScan \/ Edit \/ RecordExclusion \/ DeleteModel \/ RestoreExclusion
  \/ \E f \in File : Analyse(f)

Spec == Init /\ [][Next]_vars

\* Web requests and handlers go on, waiting jobs are fetched, jobs of a dead
\* worker expire.  The scan lock is asked for every 50 ms, and no scan keeps it.
Fairness ==
  /\ WF_vars(Requeue \/ SendJob \/ SendFails \/ MarkQueueFailed)
  /\ WF_vars(\E h \in Handler : Fetch(h)) /\ WF_vars(Expire)
  /\ \A h \in Handler : WF_vars(Step(h))

FairSpec == Spec /\ Fairness

----------------------------------------------------------------------------
(* Properties. *)

Working == {"start", "stage", "wait", "publish", "describe", "derive", "complete",
            "undo", "remove", "fail"}
Publishing == {"publish", "describe", "derive", "complete", "undo", "remove"}

\* Every variable has its type, and a lock is held by a handler that works under it.
TypeOK ==
  /\ state \in {"none", "queued", "importing", "complete", "failed"} /\ reserved \in BOOLEAN
  /\ disk \subseteq File
  /\ row \in [files : SUBSET File, meta : {"none", "pending", "embedded", "source", "user"}]
  /\ sidecar \in {"none", "embedded", "source", "user"}
  /\ excluded \in BOOLEAN /\ removing \in BOOLEAN
  /\ jobs \subseteq File /\ analysed \subseteq File
  /\ web \in {"idle", "requeue", "send", "fail"}
  /\ waiting \in BOOLEAN /\ retrying \in BOOLEAN /\ active \in Handler \cup {NoOne, Lost}
  /\ importLock \in Handler \cup {NoOne} /\ scanLock \in Handler \cup {NoOne}
  /\ pc \in [Handler -> Working \cup {"idle", "enter", "leave"}]
  /\ staged \in [Handler -> SUBSET File] /\ published \in [Handler -> SUBSET File]
  /\ count \in [Event -> Nat]
  /\ importLock # NoOne => pc[importLock] \in Working \cup {"leave"}
  /\ scanLock # NoOne => scanLock = importLock /\ pc[scanLock] \in Publishing \cup {"leave"}

\* The index never names a file of the model that has been taken away again:
\* what an attempt publishes and rolls back, no scan has seen, and the files of
\* a reserved model stay, over any crashes, retries and late handlers.
IndexedFilesStay == row.files \subseteq disk

\* No scan makes a row of half a model, while workers live and what is rolled
\* back can be removed ("while scans still cannot see them").
HalfIsNeverIndexed ==
  count["crash"] = 0 /\ count["stuck"] = 0 => row.files \in {{}, File}

\* An import that failed before its model was indexed leaves nothing behind, on
\* disk or in the index, once its handler is done; a click whose send fails calls
\* it failed while one may be at work.
FailureLeavesNothing ==
  (/\ state = "failed" /\ ~reserved /\ \A h \in Handler : pc[h] \notin Working
   /\ count["crash"] = 0 /\ count["stuck"] = 0 /\ count["remove"] = 0)
  => disk = {} /\ row = NoRow

\* A completed import describes its model as the source does, or as the user
\* has since: the analyzer of a scan that came between two attempts does not
\* ("Existing records, sidecars, explicit edits and URL imports are authoritative").
SourceIsAuthoritative ==
  (/\ state = "complete"
   /\ count["crash"] = 0 /\ count["stuck"] = 0 /\ count["remove"] = 0)
  => row.meta \in {"source", "user"}

\* No attempt writes over what the user has entered, and no analyzer.
EditsAreKept ==
  [][row.meta = "user" /\ row' # NoRow => row'.meta = "user"]_vars

\* An import is reported complete only with all of its files indexed, and the
\* derived work of each sent or done, whichever attempt made the row; unless the
\* user is just removing it.
CompleteIsWhole ==
  [][(state # "complete" /\ state' = "complete" /\ ~removing) =>
       row.files = File /\ row.files \subseteq jobs \cup analysed]_vars

\* No late handler, redelivery or failed send takes a completed import back:
\* only the update of a click does that found it failed, or its model removed,
\* when it looked.  A model that is there is no protection: while a click is
\* between its look and its update, a handler that was on its way all the same
\* may complete the import, which is then done once more.
CompleteIsKept ==
  [][(state = "complete" /\ state' # "complete") => web = "requeue"]_vars

\* A completed import is whole and stays completed, whichever attempt did what of
\* it and however late another one wakes up, but for a click that looked before.
CompleteStands == CompleteIsWhole /\ CompleteIsKept

\* Every import that is asked for ends, completed or failed, however often the
\* worker dies on the way; unless a delivery outlives its time.
EveryImportEnds ==
  state \in {"queued", "importing"} ~>
    state \in {"complete", "failed"} \/ count["late"] > 0
=============================================================================
