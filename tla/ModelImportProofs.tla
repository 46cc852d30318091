-------------------------- MODULE ModelImportProofs --------------------------
(***************************************************************************)
(* Proofs about ModelImport for any files, any number of handlers, clicks  *)
(* and troubles, and about Uploads for any uploads, names and troubles.    *)
(***************************************************************************)
EXTENDS Imports, TLAPS

\* TypeOK in three parts: the tables and the folder, the queue, the handlers.
TypeModel ==
  /\ state \in {"none", "queued", "importing", "complete", "failed"} /\ reserved \in BOOLEAN
  /\ disk \subseteq File
  /\ row \in [files : SUBSET File, meta : {"none", "pending", "embedded", "source", "user"}]
  /\ sidecar \in {"none", "embedded", "source", "user"}
  /\ excluded \in BOOLEAN /\ removing \in BOOLEAN
  /\ jobs \subseteq File /\ analysed \subseteq File
TypeQueue ==
  /\ web \in {"idle", "requeue", "send", "fail"}
  /\ waiting \in BOOLEAN /\ retrying \in BOOLEAN /\ active \in Handler \cup {NoOne, Lost}
  /\ count \in [Event -> Nat]
TypeHandler ==
  /\ importLock \in Handler \cup {NoOne} /\ scanLock \in Handler \cup {NoOne}
  /\ pc \in [Handler -> Working \cup {"idle", "enter", "leave"}]
  /\ staged \in [Handler -> SUBSET File] /\ published \in [Handler -> SUBSET File]

\* Who works holds the import's lock, who publishes the scan lock as well, and
\* nobody else holds either.
Locks ==
  /\ \A h \in Handler : pc[h] \in Working => importLock = h
  /\ \A h \in Handler : pc[h] \in Publishing => scanLock = h
  /\ importLock # NoOne => pc[importLock] \in Working \cup {"leave"}
  /\ scanLock # NoOne => scanLock = importLock /\ pc[scanLock] \in Publishing \cup {"leave"}

\* A working handler knows what of the model is not in the folder, and until the
\* model is reserved no scan has seen what it published.
Attempt(h) ==
  /\ pc[h] \notin Publishing \cup {"leave"} => published[h] = {}
  /\ pc[h] \in {"wait", "publish"} => staged[h] \cap disk = {} /\ File \subseteq disk \cup staged[h]
  /\ pc[h] \in Publishing => reserved \/ published[h] \cap row.files = {}
  /\ pc[h] = "remove" => published[h] \cap row.files = {}

\* The request of a working handler is not complete; what it describes is whole,
\* or a removal is under way or done.
Progress(h) ==
  /\ pc[h] \in Working => state # "complete"
  /\ pc[h] \in {"describe", "derive", "complete"} => removing \/ row = NoRow \/ row.files = File
  /\ pc[h] = "complete" => removing \/ row = NoRow \/ row.files \subseteq jobs \cup analysed

\* A folder is excluded before its row is deleted, and has no row after.
Exclusion == excluded => removing \/ row = NoRow

IInv ==
  /\ TypeModel /\ TypeQueue /\ TypeHandler /\ Locks
  /\ IndexedFilesStay
  /\ \A h \in Handler : Attempt(h)
  /\ \A h \in Handler : Progress(h)
  /\ Exclusion

\* The parts make up TypeOK.
LEMMA TypeParts == TypeModel /\ TypeQueue /\ TypeHandler /\ Locks => TypeOK
  BY DEF TypeModel, TypeQueue, TypeHandler, Locks, TypeOK

\* What a scan makes of the folder is a row, and it keeps the metadata of one.
LEMMA SeenIsRow ==
  ASSUME TypeModel
  PROVE  /\ Seen \in [files : SUBSET File, meta : {"none", "pending", "embedded", "source", "user"}]
         /\ Seen.files = disk /\ (row # NoRow => Seen.meta = row.meta)
  BY DEF TypeModel, Seen

\* No row is a row without files and metadata.
LEMMA NoRowIsRow ==
  /\ NoRow \in [files : SUBSET File, meta : {"none", "pending", "embedded", "source", "user"}]
  /\ NoRow.files = {} /\ NoRow.meta = "none"
  BY DEF NoRow

\* The invariant holds before anything was asked for.
LEMMA InitIInv == Init => IInv
<1> SUFFICES ASSUME Init PROVE IInv
  OBVIOUS
<1>1. TypeModel /\ IndexedFilesStay /\ Exclusion
  BY NoRowIsRow DEF Init, TypeModel, IndexedFilesStay, Exclusion
<1>2. TypeQueue
  BY DEF Init, TypeQueue, Event
<1>3. TypeHandler /\ Locks
  BY DEF Init, TypeHandler, Locks, Working, Publishing
<1>4. \A h \in Handler : Attempt(h) /\ Progress(h)
  BY NoRowIsRow DEF Init, Attempt, Progress, Working, Publishing
<1> QED
  BY <1>1, <1>2, <1>3, <1>4 DEF IInv

----------------------------------------------------------------------------
(* The types. *)

\* A trouble is one more in the count.
LEMMA TroubleIsCounted ==
  ASSUME TypeQueue, NEW e \in Event, Trouble(e)
  PROVE  count' \in [Event -> Nat]
  BY DEF TypeQueue, Trouble, Event

\* Every step keeps the queue's type.
LEMMA QueueStep == TypeQueue /\ [Next]_vars => TypeQueue'
<1> SUFFICES ASSUME TypeQueue, [Next]_vars PROVE TypeQueue'
  OBVIOUS
<1> USE DEF TypeQueue, queueVars
<1>1. CASE Ask
  <2>1. count' \in [Event -> Nat]
    BY <1>1 DEF Ask, Event
  <2> QED
    BY <1>1, <2>1 DEF Ask
<1>2. CASE Requeue \/ SendJob \/ MarkQueueFailed
  BY <1>2 DEF Requeue, SendJob, MarkQueueFailed
<1>3. CASE SendFails
  <2>1. count' \in [Event -> Nat]
    BY <1>3, TroubleIsCounted DEF SendFails, Event
  <2> QED
    BY <1>3, <2>1 DEF SendFails
<1>4. ASSUME NEW h \in Handler, Fetch(h) PROVE TypeQueue'
  BY <1>4 DEF Fetch
<1>5. ASSUME NEW h \in Handler, Late(h) PROVE TypeQueue'
  <2>1. count' \in [Event -> Nat]
    BY <1>5, TroubleIsCounted DEF Late, Event
  <2> QED
    BY <1>5, <2>1 DEF Late
<1>6. CASE Crash
  <2>1. count' \in [Event -> Nat]
    BY <1>6, TroubleIsCounted DEF Crash, Event
  <2> QED
    BY <1>6, <2>1 DEF Crash
<1>7. CASE Expire
  BY <1>7 DEF Expire
<1>8. ASSUME NEW h \in Handler, Step(h) PROVE TypeQueue'
  <2>1. ASSUME NEW f \in File, Unpublish(h, f) PROVE TypeQueue'
    <3>1. count' \in [Event -> Nat]
      BY <2>1, TroubleIsCounted DEF Unpublish, Event
    <3> QED
      BY <2>1, <3>1 DEF Unpublish
  <2>2. CASE Stage(h)
    <3>1. count' \in [Event -> Nat]
      BY <2>2, TroubleIsCounted DEF Stage, Event
    <3> QED
      BY <2>2, <3>1 DEF Stage
  <2>3. CASE Enter(h) \/ Start(h) \/ TakeScanLock(h) \/ \E f \in File : Publish(h, f)
    BY <2>3 DEF Enter, Start, TakeScanLock, Publish
  <2>4. CASE Index(h) \/ Describe(h) \/ Derive(h) \/ Complete(h)
    BY <2>4 DEF Index, Describe, Derive, Complete
  <2>5. CASE Undo(h) \/ Release(h) \/ Fail(h) \/ Leave(h)
    BY <2>5 DEF Undo, Release, Fail, Leave
  <2> QED
    BY <1>8, <2>1, <2>2, <2>3, <2>4, <2>5 DEF Step
<1>9. ASSUME NEW h \in Handler, Fault(h) PROVE TypeQueue'
  <2>1. count' \in [Event -> Nat]
    BY <1>9, TroubleIsCounted DEF Fault, Event
  <2> QED
    BY <1>9, <2>1 DEF Fault
<1>10. ASSUME NEW h \in Handler, NEW f \in File, PublishCopy(h, f) PROVE TypeQueue'
  <2>1. count' \in [Event -> Nat]
    BY <1>10, TroubleIsCounted DEF PublishCopy, Event
  <2> QED
    BY <1>10, <2>1 DEF PublishCopy
<1>11. CASE RecordExclusion
  <2>1. count' \in [Event -> Nat]
    BY <1>11, TroubleIsCounted DEF RecordExclusion, Event
  <2> QED
    BY <1>11, <2>1 DEF RecordExclusion
<1>12. CASE OtherScan \/ Edit \/ DeleteModel \/ RestoreExclusion \/ \E f \in File : Analyse(f)
  BY <1>12 DEF OtherScan, Edit, DeleteModel, RestoreExclusion, Analyse
<1>13. CASE UNCHANGED vars
  BY <1>13 DEF vars
<1> QED
  BY <1>1, <1>2, <1>3, <1>4, <1>5, <1>6, <1>7, <1>8, <1>9, <1>10, <1>11, <1>12, <1>13 DEF Next

\* What the actions make of the row of the model.
LEMMA RowWith ==
  ASSUME TypeModel
  PROVE  /\ [row EXCEPT !.files = {}] \in
              [files : SUBSET File, meta : {"none", "pending", "embedded", "source", "user"}]
         /\ [row EXCEPT !.files = {}].files = {} /\ [row EXCEPT !.files = {}].meta = row.meta
         /\ \A m \in {"pending", "embedded", "source", "user"} :
              /\ [row EXCEPT !.meta = m] \in
                   [files : SUBSET File, meta : {"none", "pending", "embedded", "source", "user"}]
              /\ [row EXCEPT !.meta = m].files = row.files /\ [row EXCEPT !.meta = m].meta = m
  BY DEF TypeModel

\* What Describe makes of it.
LEMMA RowDescribed ==
  ASSUME TypeModel, NEW h \in Handler, Describe(h), row # NoRow
  PROVE  /\ row' \in [files : SUBSET File, meta : {"none", "pending", "embedded", "source", "user"}]
         /\ row'.files = row.files
         /\ row'.meta = IF row.meta = "pending" THEN "source" ELSE row.meta
         /\ sidecar' = row'.meta
<1>1. row' = [row EXCEPT !.meta = IF row.meta = "pending" THEN "source" ELSE row.meta]
  BY DEF Describe
<1>2. sidecar' = row'.meta
  BY DEF Describe
<1> QED
  BY <1>1, <1>2 DEF TypeModel

\* Every step keeps the types of the request, the folder and the index.
LEMMA ModelStep == TypeModel /\ [Next]_vars => TypeModel'
<1> SUFFICES ASSUME TypeModel, [Next]_vars PROVE TypeModel'
  OBVIOUS
<1> USE DEF TypeModel, requestVars, modelVars, userVars
<1>1. CASE Ask \/ Requeue \/ SendJob \/ SendFails \/ MarkQueueFailed \/ Crash \/ Expire
  BY <1>1 DEF Ask, Requeue, SendJob, SendFails, MarkQueueFailed, Crash, Expire
<1>2. ASSUME NEW h \in Handler, Fetch(h) \/ Fault(h) \/ Late(h) PROVE TypeModel'
  BY <1>2 DEF Fetch, Fault, Late
<1>3. ASSUME NEW h \in Handler, NEW f \in File,
             Publish(h, f) \/ Unpublish(h, f) \/ PublishCopy(h, f)
      PROVE  TypeModel'
  BY <1>3 DEF Publish, Unpublish, PublishCopy
<1>4. ASSUME NEW h \in Handler, Step(h) PROVE TypeModel'
  <2>1. CASE Enter(h) \/ Start(h) \/ Stage(h) \/ TakeScanLock(h)
    BY <2>1 DEF Enter, Start, Stage, TakeScanLock
  <2>2. CASE Index(h)
    BY <2>2, SeenIsRow, RowWith DEF Index
  <2>3. CASE Describe(h)
    <3>1. CASE row = NoRow
      BY <2>3, <3>1 DEF Describe
    <3>2. CASE row # NoRow
      <4>1. row'.meta \in {"none", "embedded", "source", "user"}
        BY <2>3, <3>2, RowDescribed
      <4>2. sidecar' \in {"none", "embedded", "source", "user"}
        BY <2>3, <3>2, <4>1, RowDescribed
      <4>3. row' \in [files : SUBSET File, meta : {"none", "pending", "embedded", "source", "user"}]
        BY <2>3, <3>2, RowDescribed
      <4> QED
        BY <2>3, <4>2, <4>3 DEF Describe
    <3> QED
      BY <3>1, <3>2
  <2>4. CASE Derive(h) \/ Complete(h)
    BY <2>4 DEF Derive, Complete
  <2>5. CASE Undo(h) \/ Release(h) \/ Fail(h) \/ Leave(h)
    BY <2>5 DEF Undo, Release, Fail, Leave
  <2> QED
    BY <1>3, <1>4, <2>1, <2>2, <2>3, <2>4, <2>5 DEF Step
<1>5. CASE OtherScan
  <2>1. row' \in [files : SUBSET File, meta : {"none", "pending", "embedded", "source", "user"}]
    BY <1>5, SeenIsRow, RowWith DEF OtherScan
  <2>2. row'.files \subseteq File
    BY <2>1
  <2> QED
    BY <1>5, <2>1, <2>2 DEF OtherScan
<1>6. ASSUME NEW f \in File, Analyse(f) PROVE TypeModel'
  BY <1>6, RowWith DEF Analyse
<1>7. CASE Edit
  BY <1>7, RowWith DEF Edit
<1>8. CASE RecordExclusion \/ DeleteModel \/ RestoreExclusion
  BY <1>8, NoRowIsRow DEF RecordExclusion, DeleteModel, RestoreExclusion
<1>9. CASE UNCHANGED vars
  BY <1>9 DEF vars
<1> QED
  BY <1>1, <1>2, <1>3, <1>4, <1>5, <1>6, <1>7, <1>8, <1>9 DEF Next

----------------------------------------------------------------------------
(* The locks. *)

\* The actions that leave every handler where it is and the locks with it.
Bystander ==
  \/ Ask \/ Requeue \/ SendJob \/ SendFails \/ MarkQueueFailed \/ Expire \/ OtherScan \/ Edit
  \/ RecordExclusion \/ DeleteModel \/ RestoreExclusion
  \/ \E f \in File : Analyse(f)
  \/ \E h \in Handler : Late(h)
  \/ UNCHANGED vars

\* A bystander touches neither locks nor handlers.
LEMMA BystanderFrame ==
  ASSUME Bystander
  PROVE  UNCHANGED <<importLock, scanLock, pc, staged, published>>
  BY DEF Bystander, Ask, Requeue, SendJob, SendFails, MarkQueueFailed, Expire, OtherScan, Edit,
         RecordExclusion,
         DeleteModel, RestoreExclusion, Analyse, Late, lockVars, handlerVars, vars

\* Every step is a bystander's, the death of the worker or one handler's.
LEMMA ByWhom ==
  ASSUME [Next]_vars
  PROVE  \/ Bystander \/ Crash
         \/ \E h \in Handler : Fetch(h) \/ Step(h) \/ Fault(h) \/ \E f \in File : PublishCopy(h, f)
  BY DEF Next, Bystander

\* Every step keeps who holds the locks.
LEMMA HandlerStep == TypeModel /\ TypeHandler /\ Locks /\ [Next]_vars => TypeHandler' /\ Locks'
<1> SUFFICES ASSUME TypeModel, TypeHandler, Locks, [Next]_vars PROVE TypeHandler' /\ Locks'
  OBVIOUS
<1> USE ImportAssumption DEF TypeHandler, Locks, Goto, lockVars, handlerVars, Working, Publishing
<1>1. CASE Bystander
  BY <1>1, BystanderFrame
<1>2. CASE Crash
  BY <1>2 DEF Crash
<1>3. ASSUME NEW h \in Handler, Fetch(h) \/ Fault(h) PROVE TypeHandler' /\ Locks'
  BY <1>3 DEF Fetch, Fault
<1>4. ASSUME NEW h \in Handler, NEW f \in File,
             Publish(h, f) \/ Unpublish(h, f) \/ PublishCopy(h, f)
      PROVE  TypeHandler' /\ Locks'
  <2>1. CASE Publish(h, f)
    BY <2>1 DEF Publish
  <2>2. CASE Unpublish(h, f)
    BY <2>2 DEF Unpublish
  <2>3. CASE PublishCopy(h, f)
    BY <2>3 DEF PublishCopy
  <2> QED
    BY <1>4, <2>1, <2>2, <2>3
<1>5. ASSUME NEW h \in Handler, Step(h) PROVE TypeHandler' /\ Locks'
  <2>1. CASE Enter(h)
    BY <2>1 DEF Enter
  <2>2. CASE Start(h)
    BY <2>2 DEF Start
  <2>3. CASE Stage(h)
    BY <2>3 DEF Stage, TypeModel
  <2>4. CASE TakeScanLock(h)
    BY <2>4 DEF TakeScanLock
  <2>5. CASE Index(h)
    BY <2>5 DEF Index
  <2>6. CASE Describe(h)
    BY <2>6 DEF Describe
  <2>7. CASE Derive(h)
    BY <2>7 DEF Derive
  <2>8. CASE Complete(h)
    BY <2>8 DEF Complete
  <2>9. CASE Undo(h)
    BY <2>9 DEF Undo
  <2>10. CASE Release(h)
    BY <2>10 DEF Release
  <2>11. CASE Fail(h)
    BY <2>11 DEF Fail
  <2>12. CASE Leave(h)
    BY <2>12 DEF Leave
  <2> QED
    BY <1>4, <1>5, <2>1, <2>2, <2>3, <2>4, <2>5, <2>6, <2>7, <2>8, <2>9, <2>10, <2>11, <2>12 DEF Step
<1> QED
  BY <1>1, <1>2, <1>3, <1>4, <1>5, ByWhom

\* One handler works at a time, and none publishes while the scan lock is free.
LEMMA Alone ==
  ASSUME TypeHandler, Locks, NEW h \in Handler
  PROVE  /\ pc[h] \in Working => \A g \in Handler \ {h} : pc[g] \notin Working
         /\ scanLock = NoOne => pc[h] \notin Publishing
         /\ Publishing \subseteq Working
  BY ImportAssumption DEF TypeHandler, Locks, Working, Publishing

----------------------------------------------------------------------------
(* What is indexed stays on disk. *)

Attempts == IndexedFilesStay /\ \A h \in Handler : Attempt(h)

\* A handler that does not move is not disturbed by what only adds files to the
\* folder or takes files out of the index, unless it is about to publish.
LEMMA Undisturbed ==
  ASSUME NEW h \in Handler, Attempt(h),
         pc'[h] = pc[h], staged'[h] = staged[h], published'[h] = published[h],
         pc[h] \in {"wait", "publish"} => disk' = disk,
         pc[h] \in Publishing => row'.files \subseteq row.files /\ (reserved' \/ ~reserved \/ row'.files = {})
  PROVE  Attempt(h)'
  BY DEF Attempt, Publishing

\* Every step keeps what is indexed on disk, and what an attempt published unindexed or reserved.
LEMMA AttemptStep ==
  TypeModel /\ TypeHandler /\ Locks /\ Attempts /\ [Next]_vars => Attempts'
<1> SUFFICES ASSUME TypeModel, TypeHandler, Locks, Attempts, [Next]_vars PROVE Attempts'
  OBVIOUS
<1> USE DEF Attempts, requestVars, modelVars, userVars, lockVars, handlerVars, Goto
<1>1. CASE Bystander
  <2>1. UNCHANGED <<importLock, scanLock, pc, staged, published>>
    BY <1>1, BystanderFrame
  <2>2. disk' = disk
    BY <1>1 DEF Bystander, Ask, Requeue, SendJob, SendFails, MarkQueueFailed, Expire, OtherScan,
                Edit, RecordExclusion,
                DeleteModel, RestoreExclusion, Analyse, Late, vars
  <2>3. CASE OtherScan
    <3>1. row'.files \subseteq disk
      BY <2>3, SeenIsRow, RowWith DEF OtherScan
    <3>2. \A h \in Handler : pc[h] \notin Publishing
      BY <2>3, Alone DEF OtherScan
    <3>3. \A h \in Handler : Attempt(h)'
      BY <2>1, <2>2, <3>2, Undisturbed
    <3> QED
      BY <2>2, <3>1, <3>3 DEF IndexedFilesStay
  <2>4. CASE Edit \/ \E f \in File : Analyse(f)
    <3>1. row'.files = row.files /\ reserved' = reserved
      BY <2>4, RowWith DEF Edit, Analyse
    <3> QED
      BY <2>1, <2>2, <3>1, Undisturbed DEF IndexedFilesStay
  <2>5. CASE DeleteModel
    <3>1. row'.files = {}
      BY <2>5, NoRowIsRow DEF DeleteModel
    <3> QED
      BY <2>1, <2>2, <3>1, Undisturbed DEF IndexedFilesStay
  <2>6. CASE \/ Ask \/ Requeue \/ SendJob \/ SendFails \/ MarkQueueFailed \/ Expire
             \/ RecordExclusion \/ RestoreExclusion
             \/ (\E h \in Handler : Late(h)) \/ UNCHANGED vars
    <3>1. row' = row /\ reserved' = reserved
      BY <2>6 DEF Ask, Requeue, SendJob, SendFails, MarkQueueFailed, Expire, RecordExclusion,
                  RestoreExclusion, Late, vars
    <3> QED
      BY <2>1, <2>2, <3>1, Undisturbed DEF IndexedFilesStay
  <2> QED
    BY <1>1, <2>3, <2>4, <2>5, <2>6 DEF Bystander
<1>2. CASE Crash
  BY <1>2 DEF Crash, IndexedFilesStay, Attempt, Publishing
<1>3. ASSUME NEW h \in Handler, Fetch(h) \/ Fault(h) PROVE Attempts'
  <2>1. UNCHANGED <<disk, row, reserved, staged, published>>
    BY <1>3 DEF Fetch, Fault
  <2>2. Attempt(h)'
    BY <1>3, <2>1 DEF Fetch, Fault, Attempt, TypeHandler, Publishing
  <2>3. \A g \in Handler \ {h} : Attempt(g)'
    BY <1>3, <2>1, Undisturbed DEF Fetch, Fault, TypeHandler
  <2> QED
    BY <2>1, <2>2, <2>3 DEF IndexedFilesStay
<1>4. ASSUME NEW h \in Handler, NEW f \in File,
             Publish(h, f) \/ Unpublish(h, f) \/ PublishCopy(h, f)
      PROVE  Attempts'
  <2>1. UNCHANGED <<row, reserved>>
    BY <1>4 DEF Publish, Unpublish, PublishCopy
  <2>2. \A g \in Handler \ {h} : pc[g] \notin Working
    BY <1>4, Alone DEF Publish, Unpublish, PublishCopy, Working
  <2>3. \A g \in Handler \ {h} : Attempt(g)'
    <3>1. TAKE g \in Handler \ {h}
    <3>2. pc'[g] = pc[g] /\ staged'[g] = staged[g] /\ published'[g] = published[g]
      BY <1>4 DEF Publish, Unpublish, PublishCopy, TypeHandler
    <3>3. pc[g] \notin Working
      BY <2>2
    <3> QED
      BY <2>1, <3>2, <3>3, Undisturbed DEF Working, Publishing
  <2>4. IndexedFilesStay' /\ Attempt(h)'
    <3>1. CASE Publish(h, f)
      BY <2>1, <3>1 DEF Publish, IndexedFilesStay, Attempt, TypeHandler, TypeModel, Publishing
    <3>2. CASE Unpublish(h, f)
      BY <2>1, <3>2 DEF Unpublish, IndexedFilesStay, Attempt, TypeHandler, TypeModel, Publishing
    <3>3. CASE PublishCopy(h, f)
      BY <2>1, <3>3 DEF PublishCopy, IndexedFilesStay, Attempt, TypeHandler, TypeModel, Publishing
    <3> QED
      BY <1>4, <3>1, <3>2, <3>3
  <2> QED
    BY <2>3, <2>4
<1>5. ASSUME NEW h \in Handler, Step(h) PROVE Attempts'
  <2>1. CASE Enter(h) \/ Start(h) \/ Stage(h) \/ TakeScanLock(h)
    <3>1. UNCHANGED <<disk, row, reserved, published>>
      BY <2>1 DEF Enter, Start, Stage, TakeScanLock
    <3>2. \A g \in Handler \ {h} : pc'[g] = pc[g] /\ staged'[g] = staged[g]
      BY <2>1 DEF Enter, Start, Stage, TakeScanLock, TypeHandler
    <3>3. Attempt(h)'
      BY <2>1, <3>1 DEF Enter, Start, Stage, TakeScanLock, TypeHandler, TypeModel, Attempt, Publishing
    <3> QED
      BY <3>1, <3>2, <3>3, Undisturbed DEF IndexedFilesStay
  <2>2. CASE Index(h)
    <3>1. pc[h] \in Working /\ UNCHANGED <<disk, staged, published>>
      BY <2>2 DEF Index, Working
    <3>2. \A g \in Handler \ {h} : pc[g] \notin Publishing /\ pc'[g] = pc[g]
      BY <2>2, <3>1, Alone DEF Index, TypeHandler
    <3>3. row'.files \subseteq disk
      BY <2>2, SeenIsRow, RowWith DEF Index, IndexedFilesStay
    <3>4. Attempt(h)'
      <4>1. reserved' \/ row'.files = {} \/ (row' = row /\ reserved' = reserved)
        BY <2>2, RowWith DEF Index
      <4>2. pc'[h] \in {"describe", "undo"}
        BY <2>2 DEF Index, TypeHandler
      <4> QED
        BY <2>2, <3>1, <4>1, <4>2 DEF Index, Attempt, Publishing
    <3> QED
      BY <3>1, <3>2, <3>3, <3>4, Undisturbed DEF IndexedFilesStay
  <2>3. CASE Describe(h)
    <3>1. row'.files = row.files
      BY <2>3, RowDescribed DEF Describe
    <3>2. UNCHANGED <<disk, reserved, staged, published>>
      BY <2>3 DEF Describe
    <3>3. Attempt(h)'
      BY <2>3, <3>1, <3>2 DEF Describe, Attempt, TypeHandler, Publishing
    <3>4. \A g \in Handler \ {h} : pc'[g] = pc[g]
      BY <2>3 DEF Describe, TypeHandler
    <3> QED
      BY <3>1, <3>2, <3>3, <3>4, Undisturbed DEF IndexedFilesStay
  <2>4. CASE Derive(h) \/ Complete(h)
    <3>1. UNCHANGED <<disk, row, staged, published>> /\ (reserved' \/ reserved' = reserved)
      BY <2>4 DEF Derive, Complete
    <3>2. Attempt(h)'
      BY <2>4, <3>1 DEF Derive, Complete, Attempt, TypeHandler, Publishing
    <3>3. \A g \in Handler \ {h} : pc'[g] = pc[g]
      BY <2>4 DEF Derive, Complete, TypeHandler
    <3> QED
      BY <3>1, <3>2, <3>3, Undisturbed DEF IndexedFilesStay
  <2>5. CASE Undo(h) \/ Release(h) \/ Fail(h) \/ Leave(h)
    <3>1. UNCHANGED <<disk, row, reserved>>
      BY <2>5 DEF Undo, Release, Fail, Leave
    <3>2. Attempt(h)'
      BY <2>5, <3>1 DEF Undo, Release, Fail, Leave, Attempt, TypeHandler, Publishing
    <3>3. \A g \in Handler \ {h} :
            pc'[g] = pc[g] /\ staged'[g] = staged[g] /\ published'[g] = published[g]
      BY <2>5 DEF Undo, Release, Fail, Leave, TypeHandler
    <3> QED
      BY <3>1, <3>2, <3>3, Undisturbed DEF IndexedFilesStay
  <2> QED
    BY <1>4, <1>5, <2>1, <2>2, <2>3, <2>4, <2>5 DEF Step
<1> QED
  BY <1>1, <1>2, <1>3, <1>4, <1>5, ByWhom

----------------------------------------------------------------------------
(* What is complete is whole, and stays complete. *)

Progresses == Exclusion /\ \A h \in Handler : Progress(h)

\* A handler that does not move is not disturbed by what leaves the files of the
\* model and their derived work alone, or removes the model.
LEMMA ProgressKept ==
  ASSUME NEW h \in Handler, Progress(h), pc'[h] = pc[h],
         pc[h] \in Working => state' # "complete",
         pc[h] \in Publishing =>
           \/ removing' \/ row' = NoRow
           \/ /\ row'.files = row.files /\ removing' = removing /\ row # NoRow
              /\ jobs \cup analysed \subseteq jobs' \cup analysed'
  PROVE  Progress(h)'
  BY DEF Progress, Publishing

\* A scan that finds no files makes no row where there is none.
LEMMA NoRowEmptied == [NoRow EXCEPT !.files = {}] = NoRow
  BY DEF NoRow

\* Every step keeps what handlers have established about the model they describe.
LEMMA ProgressStep ==
  TypeModel /\ TypeHandler /\ Locks /\ Attempts /\ Progresses /\ [Next]_vars => Progresses'
<1> SUFFICES ASSUME TypeModel, TypeHandler, Locks, Attempts, Progresses, [Next]_vars
             PROVE  Progresses'
  OBVIOUS
<1> USE DEF Progresses, requestVars, modelVars, userVars, lockVars, handlerVars, Goto
<1>1. CASE Bystander
  <2>1. UNCHANGED <<importLock, scanLock, pc, staged, published>>
    BY <1>1, BystanderFrame
  <2>2. state' \in {state, "queued", "failed"}
    <3>1. CASE Ask \/ Requeue \/ MarkQueueFailed
      BY <3>1 DEF Ask, Requeue, MarkQueueFailed
    <3>2. CASE OtherScan \/ Edit \/ \E f \in File : Analyse(f)
      BY <3>2 DEF OtherScan, Edit, Analyse
    <3>3. CASE \/ SendJob \/ Expire \/ RecordExclusion \/ DeleteModel \/ RestoreExclusion
               \/ (\E h \in Handler : Late(h)) \/ UNCHANGED vars
      BY <3>3 DEF SendJob, Expire, RecordExclusion, DeleteModel, RestoreExclusion, Late, vars
    <3>4. CASE SendFails
      BY <3>4 DEF SendFails
    <3> QED
      BY <1>1, <3>1, <3>2, <3>3, <3>4 DEF Bystander
  <2>3. \A h \in Handler : pc[h] \in Working => state' # "complete"
    BY <2>2 DEF Progress
  <2>4. CASE OtherScan
    <3>1. \A h \in Handler : pc[h] \notin Publishing
      BY <2>4, Alone DEF OtherScan
    <3>2. excluded /\ row = NoRow => row' = NoRow
      BY <2>4, NoRowEmptied DEF OtherScan
    <3> QED
      BY <2>1, <2>3, <2>4, <3>1, <3>2, ProgressKept DEF OtherScan, Exclusion
  <2>5. CASE Edit
    <3>1. row'.files = row.files /\ row # NoRow
      BY <2>5, RowWith DEF Edit
    <3> QED
      BY <2>1, <2>3, <2>5, <3>1, ProgressKept DEF Edit, Exclusion
  <2>6. ASSUME NEW f \in File, Analyse(f) PROVE Progresses'
    <3>1. row'.files = row.files /\ (row = NoRow => row' = NoRow)
      BY <2>6, RowWith, NoRowIsRow DEF Analyse, Describes
    <3>2. jobs' \cup analysed' = jobs \cup analysed
      BY <2>6 DEF Analyse
    <3> QED
      BY <2>1, <2>3, <2>6, <3>1, <3>2, ProgressKept DEF Analyse, Exclusion
  <2>7. CASE RecordExclusion \/ DeleteModel
    <3>1. removing' \/ row' = NoRow
      BY <2>7 DEF RecordExclusion, DeleteModel
    <3> QED
      BY <2>1, <2>3, <3>1, ProgressKept DEF Exclusion
  <2>8. CASE \/ Ask \/ Requeue \/ SendJob \/ SendFails \/ MarkQueueFailed \/ Expire
             \/ RestoreExclusion
             \/ (\E h \in Handler : Late(h)) \/ UNCHANGED vars
    <3>1. UNCHANGED <<row, removing, jobs, analysed>>
      BY <2>8 DEF Ask, Requeue, SendJob, SendFails, MarkQueueFailed, Expire, RestoreExclusion,
                  Late, vars
    <3>2. excluded' = excluded \/ excluded' = FALSE
      BY <2>8 DEF Ask, Requeue, SendJob, SendFails, MarkQueueFailed, Expire, RestoreExclusion,
                  Late, vars
    <3>3. \A h \in Handler : Progress(h)'
      BY <2>1, <2>3, <3>1 DEF Progress, Working
    <3> QED
      BY <3>1, <3>2, <3>3 DEF Exclusion
  <2> QED
    BY <1>1, <2>4, <2>5, <2>6, <2>7, <2>8 DEF Bystander
<1>2. CASE Crash
  BY <1>2 DEF Crash, Exclusion, Progress, Working
<1>3. ASSUME NEW h \in Handler, Fetch(h) \/ Fault(h) PROVE Progresses'
  <2>1. UNCHANGED <<state, row, removing, excluded, jobs, analysed>>
    BY <1>3 DEF Fetch, Fault
  <2>2. Progress(h)'
    BY <1>3, <2>1 DEF Fetch, Fault, Progress, TypeHandler, Working
  <2>3. \A g \in Handler \ {h} : pc'[g] = pc[g]
    BY <1>3 DEF Fetch, Fault, TypeHandler
  <2> QED
    BY <2>1, <2>2, <2>3 DEF Exclusion, Progress
<1>4. ASSUME NEW h \in Handler, NEW f \in File,
             Publish(h, f) \/ Unpublish(h, f) \/ PublishCopy(h, f)
      PROVE  Progresses'
  <2>1. UNCHANGED <<state, row, removing, excluded, jobs, analysed>>
    BY <1>4 DEF Publish, Unpublish, PublishCopy
  <2>2. Progress(h)'
    BY <1>4, <2>1 DEF Publish, Unpublish, PublishCopy, Progress, TypeHandler, Working
  <2>3. \A g \in Handler \ {h} : pc'[g] = pc[g]
    BY <1>4 DEF Publish, Unpublish, PublishCopy, TypeHandler
  <2> QED
    BY <2>1, <2>2, <2>3 DEF Exclusion, Progress
<1>5. ASSUME NEW h \in Handler, Step(h) PROVE Progresses'
  <2>1. \A g \in Handler \ {h} : pc[h] \in Working => pc[g] \notin Working /\ pc[g] \notin Publishing
    BY Alone
  <2>2. CASE Enter(h)
    <3>1. UNCHANGED <<state, row, removing, excluded, jobs, analysed>>
      BY <2>2 DEF Enter
    <3>2. Progress(h)'
      BY <2>2, <3>1 DEF Enter, Progress, TypeHandler, Working
    <3> QED
      BY <2>2, <3>1, <3>2 DEF Enter, TypeHandler, Exclusion, Progress
  <2>3. CASE Start(h) \/ Fail(h)
    <3>1. UNCHANGED <<row, removing, excluded, jobs, analysed>> /\ state' # "complete"
      BY <2>3 DEF Start, Fail
    <3>2. Progress(h)'
      BY <2>3, <3>1 DEF Start, Fail, Progress, TypeHandler, Working
    <3>3. \A g \in Handler \ {h} : pc'[g] = pc[g]
      BY <2>3 DEF Start, Fail, TypeHandler
    <3> QED
      BY <3>1, <3>2, <3>3 DEF Exclusion, Progress
  <2>4. CASE Stage(h) \/ TakeScanLock(h) \/ Undo(h) \/ Release(h) \/ Leave(h)
    <3>1. UNCHANGED <<state, row, removing, excluded, jobs, analysed>>
      BY <2>4 DEF Stage, TakeScanLock, Undo, Release, Leave
    <3>2. Progress(h)'
      BY <2>4, <3>1 DEF Stage, TakeScanLock, Undo, Release, Leave, Progress, TypeHandler, Working
    <3>3. \A g \in Handler \ {h} : pc'[g] = pc[g]
      BY <2>4 DEF Stage, TakeScanLock, Undo, Release, Leave, TypeHandler
    <3> QED
      BY <3>1, <3>2, <3>3 DEF Exclusion, Progress
  <2>5. CASE Index(h)
    <3>1. pc[h] \in Working /\ state' = state /\ UNCHANGED <<removing, excluded, jobs, analysed>>
      BY <2>5 DEF Index, Working
    <3>2. \A g \in Handler \ {h} : Progress(g)'
      BY <2>1, <2>5, <3>1, ProgressKept DEF Index, TypeHandler
    <3>3. disk = File
      BY <2>5 DEF Index, Attempts, Attempt, TypeModel
    <3>4. Progress(h)'
      <4>1. state # "complete" /\ pc'[h] \in {"describe", "undo"}
        BY <2>5, <3>1 DEF Index, Progress, TypeHandler
      <4>2. pc'[h] = "describe" => removing \/ row'.files = File
        BY <2>5, <3>3, SeenIsRow DEF Index, TypeHandler, Exclusion
      <4> QED
        BY <3>1, <4>1, <4>2 DEF Progress
    <3>5. Exclusion'
      BY <2>5, <3>1, NoRowEmptied DEF Index, Exclusion
    <3> QED
      BY <3>2, <3>4, <3>5
  <2>6. CASE Describe(h)
    <3>1. row'.files = row.files /\ (row = NoRow => row' = NoRow)
      BY <2>6, RowDescribed DEF Describe
    <3>2. pc[h] \in Working /\ UNCHANGED <<state, removing, excluded, jobs, analysed>>
      BY <2>6 DEF Describe, Working
    <3>3. \A g \in Handler \ {h} : Progress(g)'
      BY <2>1, <2>6, <3>2, ProgressKept DEF Describe, TypeHandler
    <3>4. Progress(h)'
      BY <2>6, <3>1, <3>2 DEF Describe, Progress, TypeHandler, Working
    <3> QED
      BY <3>1, <3>2, <3>3, <3>4 DEF Exclusion
  <2>7. CASE Derive(h)
    <3>1. pc[h] \in Working /\ UNCHANGED <<state, row, removing, excluded, analysed>>
      BY <2>7 DEF Derive, Working
    <3>2. \A g \in Handler \ {h} : Progress(g)'
      BY <2>1, <2>7, <3>1, ProgressKept DEF Derive, TypeHandler
    <3>3. Progress(h)'
      BY <2>7, <3>1 DEF Derive, Progress, TypeHandler, Working
    <3> QED
      BY <3>1, <3>2, <3>3 DEF Exclusion
  <2>8. CASE Complete(h)
    <3>1. pc[h] \in Working /\ UNCHANGED <<row, removing, excluded, jobs, analysed>>
      BY <2>8 DEF Complete, Working
    <3>2. \A g \in Handler \ {h} : Progress(g)'
      BY <2>1, <2>8, <3>1, ProgressKept DEF Complete, TypeHandler
    <3>3. Progress(h)'
      BY <2>8, <3>1 DEF Complete, Progress, TypeHandler, Working
    <3> QED
      BY <3>1, <3>2, <3>3 DEF Exclusion
  <2> QED
    BY <1>4, <1>5, <2>2, <2>3, <2>4, <2>5, <2>6, <2>7, <2>8 DEF Step
<1> QED
  BY <1>1, <1>2, <1>3, <1>4, <1>5, ByWhom

----------------------------------------------------------------------------
(* The theorems. *)

\* Every step keeps the invariant.
LEMMA InvariantStep == IInv /\ [Next]_vars => IInv'
<1> SUFFICES ASSUME IInv, [Next]_vars PROVE IInv'
  OBVIOUS
<1>1. TypeModel /\ TypeQueue /\ TypeHandler /\ Locks /\ Attempts /\ Progresses
  BY DEF IInv, Attempts, Progresses
<1>2. TypeModel' /\ TypeQueue'
  BY <1>1, ModelStep, QueueStep
<1>3. TypeHandler' /\ Locks'
  BY <1>1, HandlerStep
<1>4. Attempts'
  BY <1>1, AttemptStep
<1>5. Progresses'
  BY <1>1, ProgressStep
<1> QED
  BY <1>2, <1>3, <1>4, <1>5 DEF IInv, Attempts, Progresses

\* The invariant holds always.
LEMMA Invariance == Spec => []IInv
  BY InitIInv, InvariantStep, PTL DEF Spec

\* Every variable has its type and a lock is held by a handler that works under
\* it, for any files, handlers and troubles (processMakerWorldImport,
\* withLibraryScanLock).
THEOREM Typing == Spec => []TypeOK
<1>1. IInv => TypeOK
  BY TypeParts DEF IInv
<1> QED
  BY <1>1, Invariance, PTL

\* No file the index names is ever rolled back: what an attempt takes away again
\* no scan has seen, whatever crashed, failed, came late or was removed before
\* (the rollback of runMakerWorldImport).
THEOREM IndexedFilesAreKept == Spec => []IndexedFilesStay
<1>1. IInv => IndexedFilesStay
  BY DEF IInv
<1> QED
  BY <1>1, Invariance, PTL

\* A row that the user has described keeps what the user entered through scans,
\* the analyzer and every attempt of an import, until the model is removed
\* (upsertModelRows, applyEmbeddedModelMetadata, runMakerWorldImport).
THEOREM EditsStay == Spec => EditsAreKept
<1>1. TypeModel /\ [Next]_vars => (row.meta = "user" /\ row' # NoRow => row'.meta = "user")
  <2> SUFFICES ASSUME TypeModel, [Next]_vars, row.meta = "user", row' # NoRow
               PROVE  row'.meta = "user"
    OBVIOUS
  <2> USE DEF modelVars
  <2>1. row # NoRow
    BY NoRowIsRow
  <2>2. CASE Bystander
    <3>1. CASE OtherScan
      BY <2>1, <3>1, SeenIsRow, RowWith DEF OtherScan
    <3>2. CASE Edit \/ \E f \in File : Analyse(f)
      BY <3>2, RowWith DEF Edit, Analyse, Describes
    <3>3. CASE \/ Ask \/ Requeue \/ SendJob \/ SendFails \/ MarkQueueFailed \/ Expire
               \/ RecordExclusion \/ DeleteModel
               \/ RestoreExclusion \/ (\E h \in Handler : Late(h)) \/ UNCHANGED vars
      BY <3>3 DEF Ask, Requeue, SendJob, SendFails, MarkQueueFailed, Expire, RecordExclusion,
                  DeleteModel,
                  RestoreExclusion, Late, vars
    <3> QED
      BY <2>2, <3>1, <3>2, <3>3 DEF Bystander
  <2>3. CASE Crash
    BY <2>3 DEF Crash
  <2>4. ASSUME NEW h \in Handler, Fetch(h) \/ Fault(h) \/ \E f \in File : PublishCopy(h, f)
        PROVE  row' = row
    BY <2>4 DEF Fetch, Fault, PublishCopy
  <2>5. ASSUME NEW h \in Handler, Step(h) PROVE row'.meta = "user"
    <3>1. CASE Index(h)
      BY <2>1, <3>1, SeenIsRow, RowWith DEF Index
    <3>2. CASE Describe(h)
      BY <2>1, <3>2, RowDescribed
    <3>3. CASE Enter(h) \/ Start(h) \/ Stage(h) \/ TakeScanLock(h)
      BY <3>3 DEF Enter, Start, Stage, TakeScanLock
    <3>4. CASE \E f \in File : Publish(h, f) \/ Unpublish(h, f)
      BY <3>4 DEF Publish, Unpublish
    <3>5. CASE Derive(h) \/ Complete(h) \/ Undo(h) \/ Release(h) \/ Fail(h) \/ Leave(h)
      BY <3>5 DEF Derive, Complete, Undo, Release, Fail, Leave
    <3> QED
      BY <2>5, <3>1, <3>2, <3>3, <3>4, <3>5 DEF Step
  <2> QED
    BY <2>2, <2>3, <2>4, <2>5, ByWhom
<1>2. IInv /\ [Next]_vars => [row.meta = "user" /\ row' # NoRow => row'.meta = "user"]_vars
  BY <1>1 DEF IInv
<1> QED
  BY <1>2, Invariance, PTL DEF Spec, EditsAreKept

\* Only a click's two writes, the failure to queue and a handler's start, failure and completion
\* change the state of the request.
LEMMA StateChanges ==
  ASSUME [Next]_vars, state' # state
  PROVE  \/ Ask \/ Requeue \/ MarkQueueFailed
         \/ \E h \in Handler : Start(h) \/ Fail(h) \/ Complete(h)
<1> USE DEF requestVars
<1>1. CASE Bystander
  <2>1. ~OtherScan /\ ~Edit /\ ~\E f \in File : Analyse(f)
    BY DEF OtherScan, Edit, Analyse
  <2>2. /\ ~SendJob /\ ~SendFails /\ ~Expire
        /\ ~RecordExclusion /\ ~DeleteModel /\ ~RestoreExclusion
    BY DEF SendJob, SendFails, Expire, RecordExclusion, DeleteModel, RestoreExclusion
  <2>3. ~(\E h \in Handler : Late(h)) /\ ~UNCHANGED vars
    BY DEF Late, vars
  <2> QED
    BY <1>1, <2>1, <2>2, <2>3 DEF Bystander
<1>2. ~Crash
  BY DEF Crash
<1>3. ASSUME NEW h \in Handler, Fetch(h) \/ Fault(h) \/ \E f \in File : PublishCopy(h, f)
      PROVE  FALSE
  BY <1>3 DEF Fetch, Fault, PublishCopy
<1>4. ASSUME NEW h \in Handler, Step(h) PROVE Start(h) \/ Fail(h) \/ Complete(h)
  <2>1. ~Enter(h) /\ ~Stage(h) /\ ~TakeScanLock(h)
    BY DEF Enter, Stage, TakeScanLock
  <2>2. ~\E f \in File : Publish(h, f) \/ Unpublish(h, f)
    BY DEF Publish, Unpublish
  <2>3. ~Index(h) /\ ~Describe(h)
    BY DEF Index, Describe
  <2>4. ~Derive(h) /\ ~Undo(h) /\ ~Release(h) /\ ~Leave(h)
    BY DEF Derive, Undo, Release, Leave
  <2> QED
    BY <1>4, <2>1, <2>2, <2>3, <2>4 DEF Step
<1> QED
  BY <1>1, <1>2, <1>3, <1>4, ByWhom

\* A completed import is taken back by nothing but the update of a click that
\* found it failed, or its model removed, when it looked: not by late handlers,
\* redeliveries or failed sends (createModelSourceImport, runMakerWorldImport).
THEOREM CompleteStays == Spec => CompleteIsKept
<1>1. IInv /\ [Next]_vars /\ state = "complete" /\ state' # "complete"
      => web = "requeue"
  <2> SUFFICES ASSUME IInv, [Next]_vars, state = "complete", state' # "complete"
               PROVE  web = "requeue"
    OBVIOUS
  <2>1. ASSUME NEW h \in Handler PROVE ~Start(h) /\ ~Fail(h) /\ ~Complete(h)
    BY <2>1 DEF IInv, Progress, Working, Start, Fail, Complete
  <2>2. ~Ask /\ ~MarkQueueFailed
    BY DEF Ask, MarkQueueFailed
  <2>3. Requeue
    BY <2>1, <2>2, StateChanges
  <2> QED
    BY <2>3 DEF Requeue
<1>2. IInv /\ [Next]_vars
      => [(state = "complete" /\ state' # "complete") => web = "requeue"]_vars
  BY <1>1
<1> QED
  BY <1>2, Invariance, PTL DEF Spec, CompleteIsKept

\* An import that is reported complete has every file of its model indexed and
\* the derived work of each sent or done, whichever attempt indexed it, unless
\* its removal is under way (runMakerWorldImport).
THEOREM CompleteImportsAreWhole == Spec => CompleteIsWhole
<1>1. IInv /\ [Next]_vars /\ state # "complete" /\ state' = "complete" /\ ~removing
      => row.files = File /\ row.files \subseteq jobs \cup analysed
  <2> SUFFICES ASSUME IInv, [Next]_vars, state # "complete", state' = "complete", ~removing
               PROVE  row.files = File /\ row.files \subseteq jobs \cup analysed
    OBVIOUS
  <2>1. ~Ask /\ ~Requeue /\ ~MarkQueueFailed
    BY DEF Ask, Requeue, MarkQueueFailed
  <2>2. \A h \in Handler : ~Start(h) /\ ~Fail(h)
    BY DEF Start, Fail
  <2>3. PICK h \in Handler : Complete(h)
    BY <2>1, <2>2, StateChanges
  <2>4. row # NoRow /\ pc[h] = "complete"
    BY <2>3 DEF Complete, requestVars
  <2> QED
    BY <2>4 DEF IInv, Progress
<1>2. IInv /\ [Next]_vars
      => [(state # "complete" /\ state' = "complete" /\ ~removing) =>
             row.files = File /\ row.files \subseteq jobs \cup analysed]_vars
  BY <1>1
<1> QED
  BY <1>2, Invariance, PTL DEF Spec, CompleteIsWhole

\* Completed imports are whole and stay so, over any crashes, late handlers and
\* failed sends, until a click that looked before updates them.
THEOREM CompleteImportsStand == Spec => CompleteStands
BY CompleteImportsAreWhole, CompleteStays DEF CompleteStands
----------------------------------------------------------------------------
(* What is there is all or nothing. *)

\* No worker has died and nothing rolled back has been left; nor has the model
\* been removed.
Unharmed == count["crash"] = 0 /\ count["stuck"] = 0
Undeleted == Unharmed /\ count["remove"] = 0

\* The request of a working handler is not complete; what it has indexed,
\* and what any attempt has reserved, is whole, and it rolls back neither.
Settled ==
  /\ \A h \in Handler : pc[h] \in Working => state # "complete"
  /\ \A h \in Handler : pc[h] \in {"describe", "derive", "complete"} => disk = File
  /\ reserved => disk = File
  /\ \A h \in Handler : pc[h] = "remove" => published[h] = {} \/ ~reserved

\* Between attempts the folder holds every file or none, and during one what the
\* attempt has published unless it had nothing to publish.
FolderWhole ==
  /\ row.files \in {{}, File}
  /\ (\A h \in Handler : pc[h] \notin Publishing) => disk \in {{}, File}
  /\ \A h \in Handler : pc[h] \in Publishing =>
       disk = published[h] \/ (disk = File /\ published[h] = {})

\* Every step keeps what attempts have settled.
LEMMA SettledStep ==
  ASSUME TypeModel, TypeHandler, Locks, Attempts, Settled, [Next]_vars
  PROVE  Settled'
<1> USE DEF Settled, requestVars, modelVars, userVars, lockVars, handlerVars, Goto
<1>1. CASE Bystander
  <2>1. UNCHANGED <<pc, published>>
    BY <1>1, BystanderFrame
  <2>2. disk' = disk /\ (reserved' => reserved) /\ (state # "complete" => state' # "complete")
    <3>1. CASE Ask \/ Requeue \/ MarkQueueFailed
      <4>1. UNCHANGED <<disk, reserved>>
        BY <3>1 DEF Ask, Requeue, MarkQueueFailed
      <4>2. state # "complete" => state' # "complete"
        BY <3>1 DEF Ask, Requeue, MarkQueueFailed
      <4> QED
        BY <4>1, <4>2
    <3>2. CASE OtherScan \/ Edit \/ \E f \in File : Analyse(f)
      BY <3>2 DEF OtherScan, Edit, Analyse
    <3>3. CASE \/ SendJob \/ Expire \/ RecordExclusion \/ DeleteModel \/ RestoreExclusion
               \/ (\E h \in Handler : Late(h)) \/ UNCHANGED vars
      BY <3>3 DEF SendJob, Expire, RecordExclusion, DeleteModel, RestoreExclusion, Late, vars
    <3>4. CASE SendFails
      BY <3>4 DEF SendFails
    <3> QED
      BY <1>1, <3>1, <3>2, <3>3, <3>4 DEF Bystander
  <2> QED
    BY <2>1, <2>2
<1>2. CASE Crash
  BY <1>2 DEF Crash, Working
<1>3. ASSUME NEW h \in Handler, Fetch(h) \/ Fault(h) PROVE Settled'
  <2>1. UNCHANGED <<state, disk, reserved, published>>
    BY <1>3 DEF Fetch, Fault
  <2>2. \A g \in Handler \ {h} : pc'[g] = pc[g]
    BY <1>3 DEF Fetch, Fault, TypeHandler
  <2>3. \/ pc'[h] = "enter"
        \/ pc'[h] = "undo" /\ state # "complete"
    BY <1>3 DEF Fetch, Fault, TypeHandler, Working
  <2> QED
    BY <2>1, <2>2, <2>3 DEF Working
<1>4. ASSUME NEW h \in Handler, NEW f \in File,
             Publish(h, f) \/ Unpublish(h, f) \/ PublishCopy(h, f)
      PROVE  Settled'
  <2>1. UNCHANGED <<state, reserved>> /\ pc[h] \in {"publish", "remove"}
    BY <1>4 DEF Publish, Unpublish, PublishCopy
  <2>2. \A g \in Handler \ {h} : pc[g] \notin Working /\ pc'[g] = pc[g]
    BY <1>4, <2>1, Alone DEF Publish, Unpublish, PublishCopy, TypeHandler, Working
  <2>3. pc'[h] \in {pc[h], "undo"}
    BY <1>4 DEF Publish, Unpublish, PublishCopy, TypeHandler
  <2>4. reserved => disk' = disk
    <3>1. ~reserved \/ ~Unpublish(h, f)
      BY DEF Unpublish
    <3>2. CASE Publish(h, f)
      BY <3>2 DEF Publish, TypeModel
    <3>3. CASE PublishCopy(h, f)
      BY <3>3 DEF PublishCopy, TypeModel
    <3> QED
      BY <1>4, <3>1, <3>2, <3>3
  <2>5. pc'[h] = "remove" => published'[h] = {} \/ ~reserved
    BY <1>4 DEF Publish, Unpublish, PublishCopy, TypeHandler
  <2> QED
    BY <2>1, <2>2, <2>3, <2>4, <2>5 DEF Working
<1>5. ASSUME NEW h \in Handler, Step(h) PROVE Settled'
  <2>1. ASSUME disk' = disk, reserved' => reserved \/ disk = File,
               \A g \in Handler \ {h} : pc[g] \in Working => state' # "complete",
               \A g \in Handler \ {h} : pc'[g] = pc[g] /\ published'[g] = published[g],
               \A g \in Handler \ {h} : pc[g] = "remove" => (reserved' => reserved),
               pc'[h] \in Working => state' # "complete",
               pc'[h] \in {"describe", "derive", "complete"} => disk = File,
               pc'[h] = "remove" => published'[h] = {} \/ ~reserved'
        PROVE  Settled'
    BY <2>1
  <2>2. \A g \in Handler \ {h} : pc[h] \in Working => pc[g] \notin Working
    BY Alone
  <2>3. CASE Enter(h)
    BY <2>1, <2>3 DEF Enter, TypeHandler, Working
  <2>4. CASE Start(h)
    BY <2>1, <2>2, <2>4 DEF Start, TypeHandler, Working
  <2>5. CASE Stage(h) \/ TakeScanLock(h)
    BY <2>1, <2>5 DEF Stage, TakeScanLock, TypeHandler, Working
  <2>6. CASE Index(h)
    <3>1. disk = File /\ pc[h] \in Working
      <4>1. pc[h] = "publish" /\ staged[h] = {}
        BY <2>6 DEF Index
      <4>2. File \subseteq disk \cup staged[h] /\ disk \subseteq File
        BY <4>1 DEF Attempts, Attempt, TypeModel
      <4> QED
        BY <4>1, <4>2 DEF Working
    <3> QED
      BY <2>1, <2>2, <2>6, <3>1 DEF Index, TypeHandler, Working
  <2>7. CASE Describe(h)
    BY <2>1, <2>7 DEF Describe, TypeHandler, Working
  <2>8. CASE Derive(h)
    BY <2>1, <2>8 DEF Derive, TypeHandler, Working
  <2>9. CASE Complete(h)
    BY <2>1, <2>2, <2>9 DEF Complete, TypeHandler, Working
  <2>10. CASE Undo(h)
    BY <2>1, <2>10 DEF Undo, TypeHandler, Working
  <2>11. CASE Release(h)
    BY <2>1, <2>11 DEF Release, TypeHandler, Working
  <2>12. CASE Fail(h)
    BY <2>1, <2>2, <2>12 DEF Fail, TypeHandler, Working
  <2>13. CASE Leave(h)
    BY <2>1, <2>13 DEF Leave, TypeHandler, Working
  <2> QED
    BY <1>4, <1>5, <2>3, <2>4, <2>5, <2>6, <2>7, <2>8, <2>9, <2>10, <2>11, <2>12, <2>13 DEF Step
<1> QED
  BY <1>1, <1>2, <1>3, <1>4, <1>5, ByWhom

\* What has gone wrong once stays counted.
LEMMA TroubleStays ==
  ASSUME TypeQueue, NEW e \in Event, NEW d \in Event, Trouble(e)
  PROVE  (count'[d] = 0 => count[d] = 0) /\ count'[e] # 0
  BY DEF TypeQueue, Trouble, Event

\* A step that leaves nothing has gone wrong is no crash, nothing is stuck, and
\* nothing had gone wrong before it.
LEMMA StillUnharmed ==
  ASSUME TypeQueue, [Next]_vars, Unharmed'
  PROVE  /\ Unharmed /\ ~Crash
         /\ \A h \in Handler, f \in File : ~PublishCopy(h, f)
         /\ \A h \in Handler, f \in File : Unpublish(h, f) =>
              disk' = disk \ {f} /\ published' = [published EXCEPT ![h] = @ \ {f}]
         /\ Undeleted' => Undeleted /\ ~RecordExclusion
<1> USE DEF Unharmed, Undeleted
<1>1. \A e \in {"fault", "stuck", "crash", "late", "remove"} : Trouble(e) =>
        /\ e # "crash" /\ e # "stuck" /\ (Undeleted' => e # "remove")
        /\ Unharmed /\ (Undeleted' => Undeleted)
  BY TroubleStays DEF Event
<1>2. UNCHANGED count \/ Ask => Unharmed /\ (Undeleted' => Undeleted)
  BY DEF Ask, TypeQueue, Event
<1>3. ~Crash /\ (\A h \in Handler, f \in File : ~PublishCopy(h, f)) /\ (Undeleted' => ~RecordExclusion)
  BY <1>1 DEF Crash, PublishCopy, RecordExclusion
<1>4. \A h \in Handler, f \in File : Unpublish(h, f) =>
        disk' = disk \ {f} /\ published' = [published EXCEPT ![h] = @ \ {f}]
  BY <1>1 DEF Unpublish
<1>5. UNCHANGED count \/ Ask \/ \E e \in {"fault", "stuck", "crash", "late", "remove"} : Trouble(e)
  <2>1. CASE Bystander
    BY <2>1 DEF Bystander, Requeue, SendJob, SendFails, MarkQueueFailed, Expire, OtherScan, Edit,
                RecordExclusion,
                DeleteModel, RestoreExclusion, Analyse, Late, vars
  <2>2. CASE Crash
    BY <2>2 DEF Crash
  <2>3. ASSUME NEW h \in Handler, Fetch(h) \/ Fault(h) \/ \E f \in File : PublishCopy(h, f)
        PROVE  UNCHANGED count \/ \E e \in {"fault", "stuck", "crash", "late", "remove"} : Trouble(e)
    BY <2>3 DEF Fetch, Fault, PublishCopy
  <2>4. ASSUME NEW h \in Handler, Step(h)
        PROVE  UNCHANGED count \/ \E e \in {"fault", "stuck", "crash", "late", "remove"} : Trouble(e)
    <3>1. CASE Stage(h) \/ \E f \in File : Unpublish(h, f)
      BY <3>1 DEF Stage, Unpublish
    <3>2. CASE Enter(h) \/ Start(h) \/ TakeScanLock(h) \/ (\E f \in File : Publish(h, f)) \/ Index(h)
      BY <3>2 DEF Enter, Start, TakeScanLock, Publish, Index
    <3>3. CASE Describe(h) \/ Derive(h) \/ Complete(h) \/ Undo(h) \/ Release(h) \/ Fail(h) \/ Leave(h)
      BY <3>3 DEF Describe, Derive, Complete, Undo, Release, Fail, Leave
    <3> QED
      BY <2>4, <3>1, <3>2, <3>3 DEF Step
  <2> QED
    BY <2>1, <2>2, <2>3, <2>4, ByWhom
<1> QED
  BY <1>1, <1>2, <1>3, <1>4, <1>5

\* What the bystanders can do to the folder and its row.
LEMMA BystanderFolder ==
  ASSUME TypeModel, TypeHandler, Locks, Bystander
  PROVE  /\ disk' = disk
         /\ \/ row'.files \in {row.files, {}}
            \/ row'.files = disk /\ \A h \in Handler : pc[h] \notin Publishing
<1> USE DEF modelVars
<1>1. disk' = disk
  BY DEF Bystander, Ask, Requeue, SendJob, SendFails, MarkQueueFailed, Expire, OtherScan, Edit,
         RecordExclusion,
         DeleteModel, RestoreExclusion, Analyse, Late, vars
<1>2. CASE OtherScan
  BY <1>1, <1>2, SeenIsRow, RowWith, Alone DEF OtherScan
<1>3. CASE Edit \/ \E f \in File : Analyse(f)
  BY <1>1, <1>3, RowWith DEF Edit, Analyse
<1>4. CASE DeleteModel
  BY <1>1, <1>4, NoRowIsRow DEF DeleteModel
<1>5. CASE \/ Ask \/ Requeue \/ SendJob \/ SendFails \/ MarkQueueFailed \/ Expire
           \/ RecordExclusion \/ RestoreExclusion
           \/ (\E h \in Handler : Late(h)) \/ UNCHANGED vars
  BY <1>1, <1>5 DEF Ask, Requeue, SendJob, SendFails, MarkQueueFailed, Expire, RecordExclusion,
                    RestoreExclusion, Late, vars
<1> QED
  BY <1>2, <1>3, <1>4, <1>5 DEF Bystander

\* While nothing dies and nothing is stuck every step keeps the folder whole.
LEMMA FolderStep ==
  ASSUME TypeModel, TypeQueue, TypeHandler, Locks, Attempts, Settled, FolderWhole,
         [Next]_vars, Unharmed'
  PROVE  FolderWhole'
<1> USE DEF FolderWhole, requestVars, modelVars, userVars, lockVars, handlerVars, Goto
<1>0. /\ ~Crash /\ \A h \in Handler, f \in File : ~PublishCopy(h, f)
      /\ \A h \in Handler, f \in File : Unpublish(h, f) =>
           disk' = disk \ {f} /\ published' = [published EXCEPT ![h] = @ \ {f}]
  BY StillUnharmed
<1>1. CASE Bystander
  <2>1. UNCHANGED <<pc, published, disk>>
    BY <1>1, BystanderFrame, BystanderFolder
  <2>2. row'.files \in {{}, File}
    BY <1>1, BystanderFolder
  <2> QED
    BY <2>1, <2>2
<1>2. ASSUME NEW h \in Handler, Fetch(h) \/ Fault(h) PROVE FolderWhole'
  <2>1. UNCHANGED <<row, disk, published>>
    BY <1>2 DEF Fetch, Fault
  <2>2. pc'[h] \in Publishing <=> pc[h] \in Publishing
    BY <1>2 DEF Fetch, Fault, TypeHandler, Publishing
  <2>3. \A g \in Handler \ {h} : pc'[g] = pc[g]
    BY <1>2 DEF Fetch, Fault, TypeHandler
  <2> QED
    BY <2>1, <2>2, <2>3
<1>3. ASSUME NEW h \in Handler, NEW f \in File, Publish(h, f) \/ Unpublish(h, f)
      PROVE  FolderWhole'
  <2>1. UNCHANGED <<row, pc>> /\ pc[h] \in {"publish", "remove"}
    BY <1>3 DEF Publish, Unpublish
  <2>2. \A g \in Handler \ {h} : pc[g] \notin Publishing
    BY <2>1, Alone DEF Working, Publishing
  <2>3. disk' = published'[h] \/ (disk' = File /\ published'[h] = {})
    <3>1. disk = published[h] \/ (disk = File /\ published[h] = {})
      BY <2>1 DEF Publishing
    <3>2. CASE Publish(h, f)
      <4>1. f \notin disk /\ disk' = disk \cup {f} /\ published'[h] = published[h] \cup {f}
        BY <3>2 DEF Publish, Attempts, Attempt, TypeHandler
      <4> QED
        BY <3>1, <4>1
    <3>3. CASE Unpublish(h, f)
      <4>1. f \in published[h] /\ disk' = disk \ {f} /\ published'[h] = published[h] \ {f}
        BY <1>0, <3>3 DEF Unpublish, TypeHandler
      <4> QED
        BY <3>1, <4>1
    <3> QED
      BY <1>3, <3>2, <3>3
  <2>4. pc[h] \in Publishing
    BY <2>1 DEF Publishing
  <2> QED
    BY <2>1, <2>2, <2>3, <2>4
<1>4. ASSUME NEW h \in Handler, Step(h) PROVE FolderWhole'
  <2>1. CASE Enter(h) \/ Start(h) \/ Stage(h) \/ Fail(h)
    <3>1. UNCHANGED <<row, disk, published>>
      BY <2>1 DEF Enter, Start, Stage, Fail
    <3>2. pc'[h] \notin Publishing /\ pc[h] \notin Publishing
      BY <2>1 DEF Enter, Start, Stage, Fail, TypeHandler, Publishing
    <3>3. \A g \in Handler \ {h} : pc'[g] = pc[g]
      BY <2>1 DEF Enter, Start, Stage, Fail, TypeHandler
    <3> QED
      BY <3>1, <3>2, <3>3
  <2>2. CASE TakeScanLock(h)
    <3>1. \A g \in Handler : pc[g] \notin Publishing
      BY <2>2, Alone DEF TakeScanLock
    <3>2. disk \in {{}, File} /\ published[h] = {}
      BY <2>2, <3>1 DEF TakeScanLock, Attempts, Attempt, Publishing
    <3>3. UNCHANGED <<row, disk, published>> /\ pc'[h] \in Publishing
      BY <2>2 DEF TakeScanLock, TypeHandler, Publishing
    <3>4. \A g \in Handler \ {h} : pc'[g] = pc[g]
      BY <2>2 DEF TakeScanLock, TypeHandler
    <3> QED
      BY <3>1, <3>2, <3>3, <3>4
  <2>3. CASE Index(h) \/ Describe(h) \/ Derive(h)
    <3>1. pc[h] \in Publishing /\ pc'[h] \in Publishing /\ UNCHANGED <<disk, published>>
      BY <2>3 DEF Index, Describe, Derive, TypeHandler, Publishing
    <3>2. \A g \in Handler \ {h} : pc'[g] = pc[g]
      BY <2>3 DEF Index, Describe, Derive, TypeHandler
    <3>3. row'.files \in {{}, File}
      <4>1. CASE Index(h)
        <5>1. pc[h] = "publish" /\ staged[h] = {}
          BY <4>1 DEF Index
        <5>2. disk = File
          BY <5>1 DEF Attempts, Attempt, TypeModel
        <5> QED
          BY <4>1, <5>2, SeenIsRow, RowWith DEF Index
      <4>2. CASE Describe(h)
        BY <4>2, RowDescribed DEF Describe
      <4>3. CASE Derive(h)
        BY <4>3 DEF Derive
      <4> QED
        BY <2>3, <4>1, <4>2, <4>3
    <3> QED
      BY <3>1, <3>2, <3>3
  <2>4. CASE Complete(h)
    <3>1. pc[h] = "complete" /\ disk = File /\ UNCHANGED <<row, disk, published>>
      BY <2>4 DEF Complete, Settled
    <3>2. \A g \in Handler \ {h} : pc'[g] = pc[g]
      BY <2>4 DEF Complete, TypeHandler
    <3> QED
      BY <3>1, <3>2 DEF Publishing
  <2>5. CASE Undo(h)
    <3>1. UNCHANGED <<row, disk>> /\ pc[h] \in Publishing /\ pc'[h] \in Publishing
      BY <2>5 DEF Undo, TypeHandler, Publishing
    <3>2. published'[h] = published[h] \/ (disk = File /\ published'[h] = {})
      BY <2>5 DEF Undo, Settled, TypeHandler
    <3>3. \A g \in Handler \ {h} : pc'[g] = pc[g] /\ published'[g] = published[g]
      BY <2>5 DEF Undo, TypeHandler
    <3> QED
      BY <3>1, <3>2, <3>3
  <2>6. CASE Release(h)
    <3>1. UNCHANGED <<row, disk, published>> /\ disk \in {{}, File}
      BY <2>6 DEF Release, Publishing
    <3>2. \A g \in Handler \ {h} : pc'[g] = pc[g]
      BY <2>6 DEF Release, TypeHandler
    <3>3. pc'[h] \notin Publishing
      BY <2>6 DEF Release, TypeHandler, Publishing
    <3> QED
      BY <3>1, <3>2, <3>3
  <2>7. CASE Leave(h)
    <3>1. UNCHANGED <<row, disk>> /\ pc[h] \notin Publishing /\ pc'[h] \notin Publishing
      BY <2>7 DEF Leave, TypeHandler, Publishing
    <3>2. \A g \in Handler \ {h} : pc'[g] = pc[g] /\ published'[g] = published[g]
      BY <2>7 DEF Leave, TypeHandler
    <3> QED
      BY <3>1, <3>2
  <2> QED
    BY <1>3, <1>4, <2>1, <2>2, <2>3, <2>4, <2>5, <2>6, <2>7 DEF Step
<1> QED
  BY <1>0, <1>1, <1>2, <1>3, <1>4, ByWhom

\* While the model is not removed either, what is not reserved is not there: the
\* folder holds what the attempt in progress has published, and nothing else does.
NothingLeft ==
  /\ ~excluded /\ ~removing
  /\ ~reserved =>
       /\ row = NoRow /\ sidecar = "none"
       /\ (\A h \in Handler : pc[h] \notin Publishing) => disk = {}
       /\ \A h \in Handler : pc[h] \in Publishing =>
            pc[h] \in {"publish", "undo", "remove"} /\ disk = published[h]

\* A reserved model waits for its source's metadata, or has it or the user's.
Described ==
  /\ reserved => row.meta \in {"pending", "source", "user"}
  /\ \A h \in Handler : pc[h] \in {"derive", "complete"} => row.meta \in {"source", "user"}
  /\ state = "complete" => reserved /\ row.meta \in {"source", "user"}

\* What the bystanders do to a model that is not removed.
LEMMA BystanderModel ==
  ASSUME TypeModel, TypeHandler, Locks, Bystander, ~RecordExclusion, Settled, NothingLeft, Described
  PROVE  /\ UNCHANGED <<disk, reserved>> /\ ~excluded' /\ ~removing'
         /\ ~reserved => row' = row /\ sidecar' = sidecar
         /\ reserved => row'.meta \in {row.meta, "user"}
         /\ state' = state \/ state' # "complete"
<1> USE DEF NothingLeft, requestVars, modelVars, userVars
<1>1. CASE OtherScan
  <2>1. UNCHANGED <<disk, reserved, excluded, removing, state, sidecar>>
    BY <1>1 DEF OtherScan
  <2>2. CASE reserved
    <3>1. row # NoRow /\ disk = File
      BY <2>2, NoRowIsRow DEF Described, Settled
    <3>2. row' = Seen
      BY <1>1, <3>1, ImportAssumption DEF OtherScan
    <3> QED
      BY <2>1, <2>2, <3>1, <3>2, SeenIsRow
  <2>3. CASE ~reserved
    <3>1. \A h \in Handler : pc[h] \notin Publishing
      BY <1>1, Alone DEF OtherScan
    <3>2. row' = [NoRow EXCEPT !.files = {}]
      BY <1>1, <2>3, <3>1 DEF OtherScan
    <3> QED
      BY <2>1, <2>3, <3>2, NoRowEmptied
  <2> QED
    BY <2>2, <2>3
<1>2. CASE Edit
  <2>1. reserved /\ row'.meta = "user"
    BY <1>2, RowWith DEF Edit
  <2> QED
    BY <1>2, <2>1 DEF Edit
<1>3. ASSUME NEW f \in File, Analyse(f)
      PROVE  /\ UNCHANGED <<disk, reserved, excluded, removing, state>>
             /\ ~reserved => row' = row /\ sidecar' = sidecar
             /\ reserved => row'.meta \in {row.meta, "user"}
  <2>1. UNCHANGED <<disk, reserved, excluded, removing, state>>
    BY <1>3 DEF Analyse
  <2>2. ~Describes(f)
    <3>1. CASE reserved
      BY <3>1 DEF Describes, Described
    <3>2. CASE ~reserved
      BY <3>2, NoRowIsRow DEF Describes
    <3> QED
      BY <3>1, <3>2
  <2>3. UNCHANGED <<row, sidecar>>
    BY <1>3, <2>2 DEF Analyse
  <2> QED
    BY <2>1, <2>3
<1>4. CASE Ask
  <2>1. state' = state \/ state' # "complete"
    BY <1>4 DEF Ask
  <2> QED
    BY <1>4, <2>1 DEF Ask
<1>5. CASE Requeue \/ MarkQueueFailed \/ SendFails
  <2>1. UNCHANGED <<disk, reserved, row, sidecar, excluded, removing>>
    BY <1>5 DEF Requeue, MarkQueueFailed, SendFails
  <2>2. state' = state \/ state' # "complete"
    BY <1>5 DEF Requeue, MarkQueueFailed, SendFails
  <2> QED
    BY <2>1, <2>2
<1>6. CASE SendJob \/ Expire \/ RestoreExclusion \/ (\E h \in Handler : Late(h)) \/ UNCHANGED vars
  BY <1>6 DEF SendJob, Expire, RestoreExclusion, Late, vars
<1>7. ~DeleteModel
  BY DEF DeleteModel
<1> QED
  BY <1>1, <1>2, <1>3, <1>4, <1>5, <1>6, <1>7 DEF Bystander

\* While nothing dies, is stuck or removed, every step keeps what is not reserved
\* from being there, and what is from being described by anybody else.
LEMMA ModelKept ==
  ASSUME TypeModel, TypeQueue, TypeHandler, Locks, Attempts, Settled, NothingLeft, Described,
         [Next]_vars, Undeleted'
  PROVE  NothingLeft' /\ Described'
<1> USE DEF NothingLeft, Described, requestVars, modelVars, userVars, lockVars, handlerVars, Goto
<1>0. /\ ~Crash /\ ~RecordExclusion /\ \A h \in Handler, f \in File : ~PublishCopy(h, f)
      /\ \A h \in Handler, f \in File : Unpublish(h, f) =>
           disk' = disk \ {f} /\ published' = [published EXCEPT ![h] = @ \ {f}]
  BY StillUnharmed DEF Undeleted
<1>1. CASE Bystander
  <2>1. UNCHANGED <<pc, published>>
    BY <1>1, BystanderFrame
  <2>2. /\ UNCHANGED <<disk, reserved>> /\ ~excluded' /\ ~removing'
        /\ ~reserved => row' = row /\ sidecar' = sidecar
        /\ reserved => row'.meta \in {row.meta, "user"}
        /\ state' = state \/ state' # "complete"
    BY <1>0, <1>1, BystanderModel
  <2>3. \A h \in Handler : pc[h] \in {"derive", "complete"} => reserved
    BY DEF Publishing
  <2> QED
    BY <2>1, <2>2, <2>3
<1>2. ASSUME NEW h \in Handler, Fetch(h) \/ Fault(h) PROVE NothingLeft' /\ Described'
  <2>1. UNCHANGED <<state, reserved, row, sidecar, excluded, removing, disk, published>>
    BY <1>2 DEF Fetch, Fault
  <2>2. \/ pc[h] \notin Publishing /\ pc'[h] \notin Publishing
        \/ pc[h] \in Publishing /\ pc'[h] = "undo"
    BY <1>2 DEF Fetch, Fault, TypeHandler, Publishing
  <2>3. \A g \in Handler \ {h} : pc'[g] = pc[g]
    BY <1>2 DEF Fetch, Fault, TypeHandler
  <2> QED
    BY <2>1, <2>2, <2>3 DEF Publishing
<1>3. ASSUME NEW h \in Handler, NEW f \in File, Publish(h, f) \/ Unpublish(h, f)
      PROVE  NothingLeft' /\ Described'
  <2>1. /\ UNCHANGED <<state, reserved, row, sidecar, excluded, removing, pc>>
        /\ pc[h] \in {"publish", "remove"}
    BY <1>3 DEF Publish, Unpublish
  <2>2. \A g \in Handler \ {h} : pc[g] \notin Publishing
    BY <2>1, Alone DEF Working, Publishing
  <2>3. disk = published[h] => disk' = published'[h]
    <3>1. CASE Publish(h, f)
      <4>1. disk' = disk \cup {f} /\ published'[h] = published[h] \cup {f}
        BY <3>1 DEF Publish, TypeHandler
      <4> QED
        BY <4>1
    <3>2. CASE Unpublish(h, f)
      <4>1. disk' = disk \ {f} /\ published' = [published EXCEPT ![h] = @ \ {f}]
        BY <1>0, <3>2
      <4>2. published'[h] = published[h] \ {f}
        BY <4>1 DEF TypeHandler
      <4> QED
        BY <4>1, <4>2
    <3> QED
      BY <1>3, <3>1, <3>2
  <2> QED
    BY <2>1, <2>2, <2>3 DEF Publishing
<1>4. ASSUME NEW h \in Handler, Step(h) PROVE NothingLeft' /\ Described'
  <2>1. CASE Enter(h) \/ Start(h) \/ Stage(h) \/ Fail(h)
    <3>1. UNCHANGED <<reserved, row, sidecar, excluded, removing, disk, published>>
      BY <2>1 DEF Enter, Start, Stage, Fail
    <3>2. state' = state \/ state' # "complete"
      BY <2>1 DEF Enter, Start, Stage, Fail
    <3>3. pc'[h] \notin Publishing /\ pc[h] \notin Publishing
      BY <2>1 DEF Enter, Start, Stage, Fail, TypeHandler, Publishing
    <3>4. \A g \in Handler \ {h} : pc'[g] = pc[g]
      BY <2>1 DEF Enter, Start, Stage, Fail, TypeHandler
    <3> QED
      BY <3>1, <3>2, <3>3, <3>4 DEF Publishing
  <2>2. CASE TakeScanLock(h)
    <3>1. \A g \in Handler : pc[g] \notin Publishing
      BY <2>2, Alone DEF TakeScanLock
    <3>2. published[h] = {}
      BY <2>2 DEF TakeScanLock, Attempts, Attempt, Publishing
    <3>3. /\ UNCHANGED <<state, reserved, row, sidecar, excluded, removing, disk, published>>
          /\ pc'[h] = "publish"
      BY <2>2 DEF TakeScanLock, TypeHandler
    <3>4. \A g \in Handler \ {h} : pc'[g] = pc[g]
      BY <2>2 DEF TakeScanLock, TypeHandler
    <3> QED
      BY <3>1, <3>2, <3>3, <3>4
  <2>3. CASE Index(h)
    <3>1. pc[h] = "publish" /\ UNCHANGED <<state, sidecar, excluded, removing, disk, published>>
      BY <2>3 DEF Index
    <3>2. CASE state # "importing"
      <4>1. UNCHANGED <<row, reserved>> /\ pc'[h] = "undo"
        BY <2>3, <3>2 DEF Index, TypeHandler
      <4>2. \A g \in Handler \ {h} : pc'[g] = pc[g]
        BY <2>3 DEF Index, TypeHandler
      <4> QED
        BY <3>1, <4>1, <4>2 DEF Publishing
    <3> SUFFICES ASSUME state = "importing" PROVE NothingLeft' /\ Described'
      BY <3>2
    <3>3. row' = Seen /\ reserved' = TRUE /\ pc'[h] = "describe"
      BY <2>3 DEF Index, TypeHandler
    <3>4. \A g \in Handler \ {h} : pc'[g] = pc[g] /\ pc[g] \notin Publishing
      BY <2>3, <3>1, Alone DEF Index, TypeHandler, Working, Publishing
    <3>5. row'.meta \in {"pending", "source", "user"}
      <4>1. CASE reserved
        <5>1. row # NoRow
          BY <4>1, NoRowIsRow
        <5> QED
          BY <3>3, <4>1, <5>1, SeenIsRow
      <4>2. CASE ~reserved
        BY <3>3, <4>2 DEF Seen
      <4> QED
        BY <4>1, <4>2
    <3> QED
      BY <3>1, <3>3, <3>4, <3>5 DEF Publishing
  <2>4. CASE Describe(h)
    <3>1. pc[h] = "describe" /\ UNCHANGED <<state, reserved, excluded, removing, disk, published>>
      BY <2>4 DEF Describe
    <3>2. reserved /\ row # NoRow /\ state # "complete"
      BY <3>1, NoRowIsRow DEF Publishing, Settled, Working
    <3>3. row'.meta \in {"source", "user"}
      BY <2>4, <3>2, RowDescribed
    <3>4. \A g \in Handler \ {h} : pc'[g] = pc[g]
      BY <2>4 DEF Describe, TypeHandler
    <3> QED
      BY <3>1, <3>2, <3>3, <3>4
  <2>5. CASE Derive(h)
    <3>1. pc[h] = "derive" /\ UNCHANGED <<state, reserved, row, sidecar, excluded, removing, disk, published>>
      BY <2>5 DEF Derive
    <3>2. reserved
      BY <3>1 DEF Publishing
    <3>3. \A g \in Handler \ {h} : pc'[g] = pc[g]
      BY <2>5 DEF Derive, TypeHandler
    <3> QED
      BY <3>1, <3>2, <3>3
  <2>6. CASE Complete(h)
    <3>1. pc[h] = "complete" /\ UNCHANGED <<row, sidecar, excluded, removing, disk, published>>
      BY <2>6 DEF Complete
    <3>2. reserved /\ row # NoRow /\ row.meta \in {"source", "user"}
      BY <3>1, NoRowIsRow DEF Publishing
    <3>3. reserved' = TRUE /\ pc'[h] = "leave"
      BY <2>6, <3>2 DEF Complete, TypeHandler
    <3>4. \A g \in Handler \ {h} : pc'[g] = pc[g]
      BY <2>6 DEF Complete, TypeHandler
    <3> QED
      BY <3>1, <3>2, <3>3, <3>4
  <2>7. CASE Undo(h)
    <3>1. /\ UNCHANGED <<state, reserved, row, sidecar, excluded, removing, disk>>
          /\ pc[h] = "undo" /\ pc'[h] = "remove"
      BY <2>7 DEF Undo, TypeHandler
    <3>2. \A g \in Handler \ {h} : pc'[g] = pc[g] /\ published'[g] = published[g]
      BY <2>7 DEF Undo, TypeHandler
    <3>3. ~reserved => published'[h] = published[h]
      BY <2>7 DEF Undo, TypeHandler
    <3> QED
      BY <3>1, <3>2, <3>3 DEF Publishing
  <2>8. CASE Release(h)
    <3>1. /\ UNCHANGED <<state, reserved, row, sidecar, excluded, removing, disk, published>>
          /\ pc[h] = "remove" /\ pc'[h] = "fail" /\ published[h] = {}
      BY <2>8 DEF Release, TypeHandler
    <3>2. \A g \in Handler \ {h} : pc'[g] = pc[g]
      BY <2>8 DEF Release, TypeHandler
    <3> QED
      BY <3>1, <3>2 DEF Publishing
  <2>9. CASE Leave(h)
    <3>1. /\ UNCHANGED <<state, reserved, row, sidecar, excluded, removing, disk>>
          /\ pc[h] = "leave" /\ pc'[h] = "idle"
      BY <2>9 DEF Leave, TypeHandler
    <3>2. \A g \in Handler \ {h} : pc'[g] = pc[g] /\ published'[g] = published[g]
      BY <2>9 DEF Leave, TypeHandler
    <3> QED
      BY <3>1, <3>2 DEF Publishing
  <2> QED
    BY <1>3, <1>4, <2>1, <2>2, <2>3, <2>4, <2>5, <2>6, <2>7, <2>8, <2>9 DEF Step
<1> QED
  BY <1>0, <1>1, <1>2, <1>3, <1>4, ByWhom

\* What holds of the folder while nothing goes wrong with it, on top of IInv.
WholeInv ==
  /\ IInv /\ Settled
  /\ Unharmed => FolderWhole
  /\ Undeleted => NothingLeft /\ Described

\* It holds always.
LEMMA WholeInvariance == Spec => []WholeInv
<1>1. Init => WholeInv
  <2> SUFFICES ASSUME Init PROVE WholeInv
    OBVIOUS
  <2>1. IInv
    BY InitIInv
  <2>2. Settled /\ FolderWhole /\ NothingLeft /\ Described
    BY NoRowIsRow DEF Init, Settled, FolderWhole, NothingLeft, Described, Working, Publishing
  <2> QED
    BY <2>1, <2>2 DEF WholeInv
<1>2. WholeInv /\ [Next]_vars => WholeInv'
  <2> SUFFICES ASSUME WholeInv, [Next]_vars PROVE WholeInv'
    OBVIOUS
  <2>1. TypeModel /\ TypeQueue /\ TypeHandler /\ Locks /\ Attempts /\ Progresses /\ Settled
    BY DEF WholeInv, IInv, Attempts, Progresses
  <2>2. IInv' /\ Settled'
    BY <2>1, InvariantStep, SettledStep DEF WholeInv
  <2>3. Unharmed' => FolderWhole'
    BY <2>1, StillUnharmed, FolderStep DEF WholeInv
  <2>4. ASSUME Undeleted' PROVE NothingLeft' /\ Described'
    <3>1. Unharmed'
      BY <2>4 DEF Undeleted
    <3>2. Undeleted
      BY <2>1, <2>4, <3>1, StillUnharmed
    <3> QED
      BY <2>1, <2>4, <3>2, ModelKept DEF WholeInv
  <2> QED
    BY <2>2, <2>3, <2>4 DEF WholeInv
<1> QED
  BY <1>1, <1>2, PTL DEF Spec

\* No scan, whenever it comes, makes a row of half a model: before the scan lock
\* is given up an attempt has published every file or taken every one back
\* (withLibraryScanLock around the publication in runMakerWorldImport).
THEOREM HalfAModelIsNeverIndexed == Spec => []HalfIsNeverIndexed
<1>1. WholeInv => HalfIsNeverIndexed
  BY DEF WholeInv, FolderWhole, Unharmed, HalfIsNeverIndexed
<1> QED
  BY <1>1, WholeInvariance, PTL

\* An import that failed before its model was reserved has left no file and no
\* row once no handler is at work, over any number of attempts, clicks and late handlers (the catch of
\* runMakerWorldImport).
THEOREM FailuresLeaveNothing == Spec => []FailureLeavesNothing
<1>1. WholeInv => FailureLeavesNothing
  <2> SUFFICES ASSUME WholeInv, ~reserved, Undeleted, \A h \in Handler : pc[h] \notin Working
               PROVE  disk = {} /\ row = NoRow
    BY DEF FailureLeavesNothing, Undeleted, Unharmed
  <2>1. \A h \in Handler : pc[h] \notin Publishing
    BY DEF Publishing, Working
  <2> QED
    BY <2>1 DEF WholeInv, NothingLeft
<1> QED
  BY <1>1, WholeInvariance, PTL

\* A completed import describes its model as the source or the user does,
\* whatever scans and analyzers ran between its attempts (runMakerWorldImport,
\* applyEmbeddedModelMetadata).
THEOREM TheSourceDescribes == Spec => []SourceIsAuthoritative
<1>1. WholeInv => SourceIsAuthoritative
  BY DEF WholeInv, Described, Undeleted, Unharmed, SourceIsAuthoritative
<1> QED
  BY <1>1, WholeInvariance, PTL

----------------------------------------------------------------------------
(* Uploads. *)

Bytes == [by : Upload \cup {Owner, Mixed}, whole : BOOLEAN]
Erasing == [active : BOOLEAN, todo : SUBSET Name, failed : BOOLEAN,
            named : SUBSET Name, forgot : SUBSET Name]
Labels == {"staged", "copy", "write", "undo", "send", "stored", "unsent", "failed"}

UploadsTyped ==
  /\ names \in [Upload -> SUBSET Name] /\ folder \in [Name -> Bytes \cup {NoFile}]
  /\ upc \in [Upload -> Labels] /\ crossed \subseteq Upload
  /\ todo \in [Upload -> SUBSET Name] /\ wrote \in [Upload -> SUBSET Name]
  /\ at \in [Upload -> Name \cup {NoFile}] /\ erase \in Erasing
  /\ \A u \in Upload : upc[u] = "copy" => at[u] # NoFile

\* While nobody else meets it an extraction knows all there is in the folder;
\* before it and after it failed there is nothing whole of it, and in between
\* nothing but what it will remove.
Extraction(u) ==
  /\ upc[u] # "copy"
  /\ upc[u] = "staged" => at[u] = NoFile /\ wrote[u] = {}
  /\ upc[u] = "write" =>
       /\ todo[u] \cup wrote[u] = names[u] /\ todo[u] \cap wrote[u] = {}
       /\ at[u] \in todo[u] \cup {NoFile} /\ (backend = "s3" => at[u] = NoFile)
       /\ \A n \in Name : folder[n] = IF n \in wrote[u] THEN Up!Whole(u)
                                      ELSE IF n = at[u] THEN Up!Part(u) ELSE NoFile
  /\ upc[u] = "undo" => \A n \in Name : folder[n] = Up!Whole(u) => n \in wrote[u]
  /\ upc[u] = "send" => \A n \in names[u] : folder[n] = Up!Whole(u)
  /\ upc[u] \in {"staged", "failed"} => \A n \in Name : folder[n] # Up!Whole(u)

Extractions == \A u \in Up!zip \ crossed : Extraction(u)

\* A deletion that has not failed yet has removed what it is done with.
Cleared ==
  erase.active /\ ~erase.failed => \A n \in erase.named : n \in erase.todo \/ folder[n] = NoFile

UploadsInv == UploadsTyped /\ Extractions /\ Cleared

LEMMA BytesAre ==
  /\ \A w \in Upload \cup {Owner, Mixed} :
       Up!Whole(w) \in Bytes /\ Up!Part(w) \in Bytes /\ Up!Whole(w) # NoFile /\ Up!Part(w) # NoFile
  /\ \A u, w \in Upload \cup {Owner, Mixed} :
       Up!Part(w) # Up!Whole(u) /\ (Up!Whole(w) = Up!Whole(u) => w = u)
  /\ Owner \notin Upload /\ Mixed \notin Upload /\ NoFile \notin Name /\ NoFile \notin Bytes
<1>1. /\ Owner \notin Upload /\ Mixed \notin Upload /\ NoFile \notin Name /\ NoFile \notin Bytes
  BY ImportsAssumption DEF Up!UploadsAssumption, Bytes
<1>2. \A w \in Upload \cup {Owner, Mixed} : Up!Whole(w) \in Bytes /\ Up!Part(w) \in Bytes
  BY DEF Up!Whole, Up!Part, Bytes
<1>3. \A u, w \in Upload \cup {Owner, Mixed} :
        Up!Part(w) # Up!Whole(u) /\ (Up!Whole(w) = Up!Whole(u) => w = u)
  BY DEF Up!Whole, Up!Part
<1> QED
  BY <1>1, <1>2, <1>3

LEMMA OpenedAre ==
  ASSUME UploadsTyped, NEW n \in Name, NEW w \in Upload
  PROVE  /\ Up!OpenedBy(n, w) \in {Up!Part(w), Up!Part(Mixed)}
         /\ Up!ClosedBy(n, w) \in {folder[n], Up!Whole(w), Up!Whole(Mixed)}
         /\ Up!OpenedBy(n, w) \in Bytes /\ Up!ClosedBy(n, w) \in Bytes \cup {NoFile}
<1>1. Up!OpenedBy(n, w) \in {Up!Part(w), Up!Part(Mixed)}
  BY DEF Up!OpenedBy
<1>2. Up!ClosedBy(n, w) \in {folder[n], Up!Whole(w), Up!Whole(Mixed)}
  <2>1. Up!Part(w).by = w /\ Up!Part(Mixed).by = Mixed
    BY DEF Up!Part
  <2> QED
    BY <2>1 DEF Up!ClosedBy
<1>3. folder[n] \in Bytes \cup {NoFile}
  BY DEF UploadsTyped
<1> QED
  BY <1>1, <1>2, <1>3, BytesAre

\* What changes under a name.
LEMMA FileSet ==
  ASSUME UploadsTyped, Cleared, NEW n \in Name, NEW x \in Bytes \cup {NoFile}, NEW who,
         Up!SetFile(n, x, who)
  PROVE  /\ folder' \in [Name -> Bytes \cup {NoFile}]
         /\ folder'[n] = x /\ \A m \in Name \ {n} : folder'[m] = folder[m]
         /\ crossed' = crossed \cup (Up!Extracting \ {who}) /\ crossed' \subseteq Upload
         /\ erase' \in Erasing /\ Cleared'
<1>1. /\ folder' = [folder EXCEPT ![n] = x] /\ folder \in [Name -> Bytes \cup {NoFile}]
      /\ crossed' = crossed \cup (Up!Extracting \ {who}) /\ crossed \subseteq Upload
      /\ erase' = IF x # NoFile /\ erase.active
                  THEN [erase EXCEPT !.named = @ \ {n}] ELSE erase
      /\ erase \in Erasing
  BY DEF Up!SetFile, UploadsTyped
<1>2. folder' \in [Name -> Bytes \cup {NoFile}] /\ folder'[n] = x
        /\ \A m \in Name \ {n} : folder'[m] = folder[m]
  BY <1>1
<1>3. crossed' \subseteq Upload /\ erase.named \subseteq Name
  BY <1>1 DEF Up!Extracting, Up!zip, Erasing
<1>4. CASE x # NoFile /\ erase.active
  <2>1. /\ erase' \in Erasing /\ erase'.active = erase.active /\ erase'.failed = erase.failed
        /\ erase'.todo = erase.todo /\ erase'.named = erase.named \ {n}
    <3>1. \A e \in Erasing :
            LET y == [e EXCEPT !.named = @ \ {n}]
            IN /\ y \in Erasing /\ y.active = e.active /\ y.failed = e.failed
               /\ y.todo = e.todo /\ y.named = e.named \ {n}
      BY DEF Erasing
    <3> QED
      BY <1>1, <1>4, <3>1
  <2>2. Cleared'
    BY <1>2, <1>3, <2>1 DEF Cleared
  <2> QED
    BY <1>1, <1>2, <1>3, <2>1, <2>2
<1>5. CASE ~(x # NoFile /\ erase.active)
  <2>1. erase' = erase
    BY <1>1, <1>5
  <2>2. Cleared'
    BY <1>2, <1>3, <1>5, <2>1 DEF Cleared
  <2> QED
    BY <1>1, <1>2, <1>3, <2>1, <2>2
<1> QED
  BY <1>4, <1>5

\* An extraction that no other handler meets does not notice what others do: at
\* most it has not begun, or is over.
LEMMA OthersPass ==
  ASSUME UploadsTyped, Cleared, Extractions, NEW n \in Name, NEW x \in Bytes \cup {NoFile}, NEW who,
         Up!SetFile(n, x, who), UNCHANGED <<backend, names>>,
         NEW u \in Upload, u \in Up!zip, u \notin crossed', u # who,
         x # Up!Whole(u) \/ x = folder[n],
         upc'[u] = upc[u], todo'[u] = todo[u], wrote'[u] = wrote[u], at'[u] = at[u]
  PROVE  Extraction(u)'
<1>1. /\ folder'[n] = x /\ \A m \in Name \ {n} : folder'[m] = folder[m]
      /\ crossed' = crossed \cup (Up!Extracting \ {who})
  BY FileSet
<1>2. u \notin crossed /\ upc[u] \notin {"write", "undo", "send"} /\ Extraction(u)
  BY <1>1 DEF Up!Extracting, Extractions
<1> QED
  BY <1>1, <1>2 DEF Extraction

\* Nor does one when nothing changes in the folder.
LEMMA QuietPass ==
  ASSUME Extractions, UNCHANGED <<backend, names, folder>>, crossed \subseteq crossed',
         NEW u \in Upload, u \in Up!zip, u \notin crossed',
         upc'[u] = upc[u], todo'[u] = todo[u], wrote'[u] = wrote[u], at'[u] = at[u]
  PROVE  Extraction(u)'
<1>1. Extraction(u)
  BY DEF Extractions
<1> QED
  BY <1>1 DEF Extraction

THEOREM UploadsInitInv == Up!UploadsInit => UploadsInv
<1> SUFFICES ASSUME Up!UploadsInit PROVE UploadsInv
  OBVIOUS
<1>1. PICK held \in Held : folder = [n \in Name |-> IF n \in held THEN Up!Whole(Owner) ELSE NoFile]
  BY DEF Up!UploadsInit
<1>2. folder \in [Name -> Bytes \cup {NoFile}] /\ \A n \in Name, u \in Upload : folder[n] # Up!Whole(u)
  BY <1>1, BytesAre
<1>3. names \in [Upload -> SUBSET Name]
  BY ImportsAssumption DEF Up!UploadsInit, Up!UploadsAssumption
<1>4. erase \in Erasing /\ erase.active = FALSE
  BY DEF Up!UploadsInit, Up!NotErasing, Erasing
<1>5. UploadsTyped
  BY <1>2, <1>3, <1>4 DEF Up!UploadsInit, UploadsTyped, Labels
<1>6. Extractions
  BY <1>2 DEF Up!UploadsInit, Extractions, Extraction, Up!zip
<1> QED
  BY <1>4, <1>5, <1>6 DEF UploadsInv, Cleared
HandlersTyped ==
  /\ upc \in [Upload -> Labels] /\ at \in [Upload -> Name \cup {NoFile}]
  /\ todo \in [Upload -> SUBSET Name] /\ wrote \in [Upload -> SUBSET Name]
  /\ \A u \in Upload : upc[u] = "copy" => at[u] # NoFile

Idle(w) ==
  \A u \in Upload \ {w} : /\ upc'[u] = upc[u] /\ todo'[u] = todo[u]
                          /\ wrote'[u] = wrote[u] /\ at'[u] = at[u]

\* A step that changes one file, at the hands of `who`.
LEMMA FileStep ==
  ASSUME UploadsInv, NEW n \in Name, NEW x \in Bytes \cup {NoFile}, NEW who,
         Up!SetFile(n, x, who), UNCHANGED <<backend, names>>, HandlersTyped', Idle(who),
         \A u \in Upload \ {who} : x # Up!Whole(u) \/ x = folder[n],
         who \in Up!zip \ crossed' => Extraction(who)'
  PROVE  UploadsInv'
<1> UploadsTyped /\ Cleared /\ Extractions
  BY DEF UploadsInv
<1>1. UploadsTyped' /\ Cleared'
  BY FileSet DEF UploadsTyped, HandlersTyped
<1>2. ASSUME NEW u \in Up!zip, u \notin crossed', u # who PROVE Extraction(u)'
  <2>1. u \in Upload
    BY DEF Up!zip
  <2> QED
    BY <1>2, <2>1, OthersPass DEF Idle
<1>3. Extractions'
  BY <1>2 DEF Extractions, Up!zip
<1> QED
  BY <1>1, <1>3 DEF UploadsInv

\* A step that changes nothing in the folder, at the hands of `who`.
LEMMA QuietStep ==
  ASSUME UploadsInv, UNCHANGED <<backend, names, folder>>, NEW who, HandlersTyped', Idle(who),
         crossed \subseteq crossed', crossed' \subseteq Upload, erase' \in Erasing, Cleared',
         who \in Up!zip \ crossed' => Extraction(who)'
  PROVE  UploadsInv'
<1> UploadsTyped /\ Extractions
  BY DEF UploadsInv
<1>1. UploadsTyped'
  BY DEF UploadsTyped, HandlersTyped
<1>2. ASSUME NEW u \in Up!zip, u \notin crossed', u # who PROVE Extraction(u)'
  <2>1. u \in Upload
    BY DEF Up!zip
  <2> QED
    BY <1>2, <2>1, QuietPass DEF Idle
<1>3. Extractions'
  BY <1>2 DEF Extractions, Up!zip
<1> QED
  BY <1>1, <1>3 DEF UploadsInv

----------------------------------------------------------------------------
(* What a handler does. *)

LEMMA StoreSteps ==
  ASSUME UploadsInv, NEW w \in Upload,
         \/ Up!Refuse(w)
         \/ \E n \in Name : Up!Store(w, n) \/ Up!BeginCopy(w, n)
         \/ Up!EndCopy(w) \/ Up!CopyFails(w)
  PROVE  UploadsInv'
<1> UploadsTyped /\ Cleared /\ Extractions
  BY DEF UploadsInv
<1> HandlersTyped
  BY DEF UploadsTyped, HandlersTyped
<1>1. CASE Up!Refuse(w)
  <2>1. /\ upc' = [upc EXCEPT ![w] = "failed"] /\ upc[w] = "staged"
        /\ UNCHANGED <<backend, names, folder, erase, crossed, todo, wrote, at>>
    BY <1>1 DEF Up!Refuse, Up!Goto, Up!Untouched, Up!uploadVars
  <2>2. HandlersTyped' /\ Idle(w) /\ upc'[w] = "failed"
    BY <2>1 DEF HandlersTyped, Idle, Labels
  <2>3. w \in Up!zip \ crossed' => Extraction(w)'
    BY <2>1, <2>2 DEF Extractions, Extraction
  <2>4. Cleared' /\ erase' \in Erasing /\ crossed' \subseteq Upload
    BY <2>1 DEF Cleared, UploadsTyped
  <2> QED
    BY <2>1, <2>2, <2>3, <2>4, QuietStep
<1>2. ASSUME NEW n \in Name, Up!Store(w, n) PROVE UploadsInv'
  <2>1. /\ upc' = [upc EXCEPT ![w] = "send"] /\ w \notin Up!zip
        /\ Up!SetFile(n, Up!Whole(w), w) /\ UNCHANGED <<backend, names, todo, wrote, at>>
    BY <1>2 DEF Up!Store, Up!Goto, Up!uploadVars
  <2>2. HandlersTyped' /\ Idle(w)
    BY <2>1 DEF HandlersTyped, Idle, Labels
  <2> QED
    BY <2>1, <2>2, FileStep, BytesAre
<1>3. ASSUME NEW n \in Name, Up!BeginCopy(w, n) PROVE UploadsInv'
  <2>1. /\ upc' = [upc EXCEPT ![w] = "copy"] /\ w \notin Up!zip
        /\ Up!SetFile(n, Up!OpenedBy(n, w), w) /\ at' = [at EXCEPT ![w] = n]
        /\ UNCHANGED <<backend, names, todo, wrote>>
    BY <1>3 DEF Up!BeginCopy, Up!Goto, Up!uploadVars
  <2>2. HandlersTyped' /\ Idle(w)
    BY <2>1, BytesAre DEF HandlersTyped, Idle, Labels
  <2>3. \A u \in Upload : Up!OpenedBy(n, w) # Up!Whole(u)
    BY OpenedAre, BytesAre
  <2> QED
    BY <2>1, <2>2, <2>3, OpenedAre, FileStep
<1>4. CASE Up!EndCopy(w) \/ Up!CopyFails(w)
  <2>1. upc[w] = "copy"
    BY <1>4 DEF Up!EndCopy, Up!CopyFails
  <2>2. PICK n \in Name : n = at[w]
    BY <2>1 DEF UploadsTyped
  <2>3. PICK x : /\ x \in {Up!ClosedBy(n, w), NoFile} /\ Up!SetFile(n, x, w)
                 /\ upc' \in {[upc EXCEPT ![w] = "send"], [upc EXCEPT ![w] = "failed"]}
                 /\ at' = [at EXCEPT ![w] = NoFile] /\ UNCHANGED <<backend, names, todo, wrote>>
    BY <1>4, <2>2 DEF Up!EndCopy, Up!CopyFails, Up!Goto, Up!uploadVars
  <2>4. HandlersTyped' /\ Idle(w)
    BY <2>3 DEF HandlersTyped, Idle, Labels
  <2>5. x \in Bytes \cup {NoFile} /\ \A u \in Upload \ {w} : x # Up!Whole(u) \/ x = folder[n]
    BY <2>2, <2>3, OpenedAre, BytesAre
  <2>6. w \notin Up!zip \ crossed'
    BY <2>1, <2>3, <2>5, FileSet DEF Extractions, Extraction
  <2> QED
    BY <2>3, <2>4, <2>5, <2>6, FileStep
<1> QED
  BY <1>1, <1>2, <1>3, <1>4

LEMMA LookStep ==
  ASSUME UploadsInv, NEW w \in Upload, Up!Look(w)
  PROVE  UploadsInv'
<1> UploadsTyped /\ Cleared /\ Extractions
  BY DEF UploadsInv
<1> HandlersTyped
  BY DEF UploadsTyped, HandlersTyped
<1>1. /\ w \in Up!zip /\ upc[w] = "staged" /\ UNCHANGED <<backend, names, folder, erase, wrote, at>>
      /\ crossed' \in {crossed, crossed \cup {w}}
      /\ \/ upc' = [upc EXCEPT ![w] = "failed"] /\ todo' = todo
         \/ /\ upc' = [upc EXCEPT ![w] = "write"] /\ todo' = [todo EXCEPT ![w] = names[w]]
            /\ Up!OnDisk = {} \/ w \in crossed'
  BY DEF Up!Look, Up!BeginZip, Up!Goto, Up!uploadVars
<1>2. HandlersTyped' /\ Idle(w)
  BY <1>1 DEF HandlersTyped, Idle, Labels, UploadsTyped
<1>3. /\ upc'[w] = "failed" \/ (upc'[w] = "write" /\ todo'[w] = names[w] /\ (Up!OnDisk = {} \/ w \in crossed'))
  BY <1>1 DEF HandlersTyped, UploadsTyped
<1>4. ASSUME w \notin crossed' PROVE Extraction(w)'
  <2>1. Extraction(w)
    BY <1>1, <1>4 DEF Extractions
  <2>2. CASE upc'[w] = "failed"
    BY <1>1, <2>1, <2>2 DEF Extraction
  <2>3. CASE upc'[w] = "write" /\ todo'[w] = names[w] /\ Up!OnDisk = {}
    <3>1. \A n \in Name : folder[n] = NoFile /\ n # NoFile
      BY <2>3, BytesAre DEF Up!OnDisk
    <3>2. at[w] = NoFile /\ wrote[w] = {}
      BY <1>1, <2>1 DEF Extraction
    <3> QED
      BY <1>1, <2>3, <3>1, <3>2 DEF Extraction
  <2> QED
    BY <1>3, <1>4, <2>2, <2>3
<1>5. Cleared' /\ erase' \in Erasing /\ crossed' \subseteq Upload /\ crossed \subseteq crossed'
  BY <1>1 DEF Cleared, UploadsTyped
<1> QED
  BY <1>1, <1>2, <1>4, <1>5, QuietStep

\* Another name, or none, is opened, closed or put: one entry at a time.
LEMMA EntrySteps ==
  ASSUME UploadsInv, NEW w \in Upload,
         \/ \E n \in Name : Up!OpenEntry(w, n) \/ Up!PutEntry(w, n)
         \/ Up!CloseEntry(w)
  PROVE  UploadsInv'
<1> UploadsTyped /\ Cleared /\ Extractions
  BY DEF UploadsInv
<1> HandlersTyped
  BY DEF UploadsTyped, HandlersTyped
<1>1. ASSUME NEW n \in Name, Up!OpenEntry(w, n) PROVE UploadsInv'
  <2>1. /\ upc[w] = "write" /\ n \in todo[w] /\ backend # "s3" /\ at[w] = NoFile
        /\ Up!SetFile(n, Up!OpenedBy(n, w), w) /\ at' = [at EXCEPT ![w] = n]
        /\ UNCHANGED <<backend, names, upc, todo, wrote>>
    BY <1>1 DEF Up!OpenEntry, Up!uploadVars
  <2>2. HandlersTyped' /\ Idle(w) /\ at'[w] = n
    BY <2>1, BytesAre DEF HandlersTyped, Idle
  <2>3. \A u \in Upload : Up!OpenedBy(n, w) # Up!Whole(u)
    BY OpenedAre, BytesAre
  <2>4. ASSUME w \in Up!zip \ crossed' PROVE Extraction(w)'
    <3>1. folder'[n] = Up!OpenedBy(n, w) /\ \A m \in Name \ {n} : folder'[m] = folder[m]
      BY <2>1, OpenedAre, FileSet
    <3>2. Extraction(w)
      BY <2>1, <2>4, OpenedAre, FileSet DEF Extractions
    <3>3. /\ folder[n] = NoFile /\ n \notin wrote[w]
          /\ \A m \in Name \ {n} : folder'[m] = IF m \in wrote[w] THEN Up!Whole(w) ELSE NoFile
      BY <2>1, <3>1, <3>2, BytesAre DEF Extraction
    <3>4. folder'[n] = Up!Part(w)
      BY <3>1, <3>3 DEF Up!OpenedBy
    <3> QED
      BY <2>1, <2>2, <3>2, <3>3, <3>4 DEF Extraction
  <2> QED
    BY <2>1, <2>2, <2>3, <2>4, OpenedAre, FileStep
<1>2. ASSUME NEW n \in Name, Up!PutEntry(w, n) PROVE UploadsInv'
  <2>1. /\ upc[w] = "write" /\ n \in todo[w] /\ backend = "s3"
        /\ Up!SetFile(n, Up!Whole(w), w) /\ at' = [at EXCEPT ![w] = NoFile]
        /\ todo' = [todo EXCEPT ![w] = @ \ {n}] /\ wrote' = [wrote EXCEPT ![w] = @ \cup {n}]
        /\ UNCHANGED <<backend, names, upc>>
    BY <1>2 DEF Up!PutEntry, Up!EntryDone, Up!uploadVars
  <2>2. /\ HandlersTyped' /\ Idle(w) /\ at'[w] = NoFile
        /\ todo'[w] = todo[w] \ {n} /\ wrote'[w] = wrote[w] \cup {n}
    BY <2>1 DEF HandlersTyped, Idle
  <2>3. ASSUME w \in Up!zip \ crossed' PROVE Extraction(w)'
    <3>1. folder'[n] = Up!Whole(w) /\ \A m \in Name \ {n} : folder'[m] = folder[m]
      BY <2>1, BytesAre, FileSet
    <3>2. Extraction(w)
      BY <2>1, <2>3, BytesAre, FileSet DEF Extractions
    <3>3. \A m \in Name : m # NoFile
      BY BytesAre
    <3> QED
      BY <2>1, <2>2, <3>1, <3>2, <3>3 DEF Extraction
  <2>4. \A u \in Upload \ {w} : Up!Whole(w) # Up!Whole(u)
    BY BytesAre
  <2> QED
    BY <2>1, <2>2, <2>3, <2>4, BytesAre, FileStep
<1>3. CASE Up!CloseEntry(w)
  <2>1. PICK n \in Name : n = at[w]
    BY <1>3 DEF Up!CloseEntry, UploadsTyped
  <2>2. /\ upc[w] = "write"
        /\ Up!SetFile(n, Up!ClosedBy(n, w), w) /\ at' = [at EXCEPT ![w] = NoFile]
        /\ todo' = [todo EXCEPT ![w] = @ \ {n}] /\ wrote' = [wrote EXCEPT ![w] = @ \cup {n}]
        /\ UNCHANGED <<backend, names, upc>>
    BY <1>3, <2>1 DEF Up!CloseEntry, Up!EntryDone, Up!uploadVars
  <2>3. /\ HandlersTyped' /\ Idle(w) /\ at'[w] = NoFile
        /\ todo'[w] = todo[w] \ {n} /\ wrote'[w] = wrote[w] \cup {n}
    BY <2>2 DEF HandlersTyped, Idle
  <2>4. ASSUME w \in Up!zip \ crossed' PROVE Extraction(w)'
    <3>1. folder'[n] = Up!ClosedBy(n, w) /\ \A m \in Name \ {n} : folder'[m] = folder[m]
      BY <2>2, OpenedAre, FileSet
    <3>2. Extraction(w)
      BY <2>2, <2>4, OpenedAre, FileSet DEF Extractions
    <3>3. \A m \in Name : m # NoFile
      BY BytesAre
    <3>4. n \in todo[w] /\ n \notin wrote[w] /\ folder[n] = Up!Part(w)
      BY <2>1, <2>2, <3>2, <3>3 DEF Extraction
    <3>5. folder'[n] = Up!Whole(w)
      BY <3>1, <3>4 DEF Up!ClosedBy, Up!Part
    <3>6. \A m \in Name : folder'[m] = IF m \in wrote'[w] THEN Up!Whole(w)
                                       ELSE IF m = at'[w] THEN Up!Part(w) ELSE NoFile
      BY <2>1, <2>2, <2>3, <3>1, <3>2, <3>3, <3>5 DEF Extraction
    <3> QED
      BY <2>1, <2>2, <2>3, <3>2, <3>4, <3>6 DEF Extraction
  <2>5. \A u \in Upload \ {w} : Up!ClosedBy(n, w) # Up!Whole(u) \/ Up!ClosedBy(n, w) = folder[n]
    BY OpenedAre, BytesAre
  <2> QED
    BY <2>2, <2>3, <2>4, <2>5, OpenedAre, FileStep
<1> QED
  BY <1>1, <1>2, <1>3

LEMMA EndSteps ==
  ASSUME UploadsInv, NEW w \in Upload,
         \/ Up!EntryFails(w) \/ Up!EndZip(w) \/ Up!SendScan(w) \/ Up!SendScanFails(w)
         \/ \E n \in Name : Up!UndoEntry(w, n)
  PROVE  UploadsInv'
<1> UploadsTyped /\ Cleared /\ Extractions
  BY DEF UploadsInv
<1> HandlersTyped
  BY DEF UploadsTyped, HandlersTyped
<1>1. CASE Up!EntryFails(w)
  <2>1. /\ upc[w] = "write" /\ upc' = [upc EXCEPT ![w] = "undo"] /\ at' = [at EXCEPT ![w] = NoFile]
        /\ UNCHANGED <<backend, names, folder, erase, crossed, todo, wrote>>
    BY <1>1 DEF Up!EntryFails, Up!Goto, Up!Untouched, Up!uploadVars
  <2>2. HandlersTyped' /\ Idle(w) /\ upc'[w] = "undo"
    BY <2>1 DEF HandlersTyped, Idle, Labels
  <2>3. ASSUME w \in Up!zip \ crossed' PROVE Extraction(w)'
    <3>1. Extraction(w)
      BY <2>1, <2>3 DEF Extractions
    <3>2. Up!Part(w) # Up!Whole(w) /\ NoFile # Up!Whole(w)
      BY BytesAre
    <3>3. \A n \in Name : folder[n] = Up!Whole(w) => n \in wrote[w]
      BY <2>1, <3>1, <3>2 DEF Extraction
    <3> QED
      BY <2>1, <2>2, <3>3 DEF Extraction
  <2>4. Cleared' /\ erase' \in Erasing /\ crossed' \subseteq Upload
    BY <2>1 DEF Cleared, UploadsTyped
  <2> QED
    BY <2>1, <2>2, <2>3, <2>4, QuietStep
<1>2. CASE Up!EndZip(w)
  <2>1. /\ \/ upc[w] = "write" /\ todo[w] = {} /\ upc' = [upc EXCEPT ![w] = "send"]
           \/ upc[w] = "undo" /\ wrote[w] = {} /\ upc' = [upc EXCEPT ![w] = "failed"]
        /\ UNCHANGED <<backend, names, folder, erase, crossed, todo, wrote, at>>
    BY <1>2 DEF Up!EndZip, Up!Goto, Up!Untouched, Up!uploadVars
  <2>2. HandlersTyped' /\ Idle(w)
    BY <2>1 DEF HandlersTyped, Idle, Labels
  <2>3. ASSUME w \in Up!zip \ crossed' PROVE Extraction(w)'
    <3>1. Extraction(w)
      BY <2>1, <2>3 DEF Extractions
    <3>2. CASE upc[w] = "write" /\ todo[w] = {} /\ upc' = [upc EXCEPT ![w] = "send"]
      <4>1. upc'[w] = "send" /\ names[w] \subseteq Name
        BY <3>2 DEF HandlersTyped, UploadsTyped
      <4>2. \A n \in names[w] : folder[n] = Up!Whole(w)
        BY <3>1, <3>2, <4>1 DEF Extraction
      <4> QED
        BY <2>1, <4>1, <4>2 DEF Extraction
    <3>3. CASE upc[w] = "undo" /\ wrote[w] = {} /\ upc' = [upc EXCEPT ![w] = "failed"]
      <4>1. upc'[w] = "failed"
        BY <3>3 DEF HandlersTyped
      <4> QED
        BY <2>1, <3>1, <3>3, <4>1 DEF Extraction
    <3> QED
      BY <2>1, <3>2, <3>3
  <2>4. Cleared' /\ erase' \in Erasing /\ crossed' \subseteq Upload
    BY <2>1 DEF Cleared, UploadsTyped
  <2> QED
    BY <2>1, <2>2, <2>3, <2>4, QuietStep
<1>3. CASE Up!SendScan(w) \/ Up!SendScanFails(w)
  <2>1. /\ upc' \in {[upc EXCEPT ![w] = "stored"], [upc EXCEPT ![w] = "unsent"]}
        /\ UNCHANGED <<backend, names, folder, erase, crossed, todo, wrote, at>>
    BY <1>3 DEF Up!SendScan, Up!SendScanFails, Up!Goto, Up!Untouched, Up!uploadVars
  <2>2. HandlersTyped' /\ Idle(w) /\ upc'[w] \in {"stored", "unsent"}
    BY <2>1 DEF HandlersTyped, Idle, Labels
  <2>3. Extraction(w)'
    BY <2>2 DEF Extraction
  <2>4. Cleared' /\ erase' \in Erasing /\ crossed' \subseteq Upload
    BY <2>1 DEF Cleared, UploadsTyped
  <2> QED
    BY <2>1, <2>2, <2>3, <2>4, QuietStep
<1>4. ASSUME NEW n \in Name, Up!UndoEntry(w, n) PROVE UploadsInv'
  <2>1. /\ upc[w] = "undo" /\ wrote' = [wrote EXCEPT ![w] = @ \ {n}]
        /\ UNCHANGED <<backend, names, upc, todo, at>>
    BY <1>4 DEF Up!UndoEntry, Up!uploadVars
  <2>2. HandlersTyped' /\ Idle(w) /\ wrote'[w] = wrote[w] \ {n}
    BY <2>1 DEF HandlersTyped, Idle
  <2>3. CASE Up!SetFile(n, NoFile, w)
    <3>1. ASSUME w \in Up!zip \ crossed' PROVE Extraction(w)'
      <4>1. folder'[n] = NoFile /\ \A m \in Name \ {n} : folder'[m] = folder[m]
        BY <2>3, FileSet
      <4>2. Extraction(w)
        BY <2>3, <3>1, FileSet DEF Extractions
      <4>3. NoFile # Up!Whole(w)
        BY BytesAre
      <4> QED
        BY <2>1, <2>2, <4>1, <4>2, <4>3 DEF Extraction
    <3>2. \A u \in Upload \ {w} : NoFile # Up!Whole(u)
      BY BytesAre
    <3> QED
      BY <2>1, <2>2, <2>3, <3>1, <3>2, FileStep
  <2>4. CASE crossed' = crossed \cup {w} /\ UNCHANGED <<folder, erase>>
    <3>1. Cleared' /\ erase' \in Erasing /\ crossed' \subseteq Upload
      BY <2>4 DEF Cleared, UploadsTyped
    <3> QED
      BY <2>1, <2>2, <2>4, <3>1, QuietStep
  <2> QED
    BY <1>4, <2>3, <2>4 DEF Up!UndoEntry
<1> QED
  BY <1>1, <1>2, <1>3, <1>4

----------------------------------------------------------------------------
(* Scans, deletions, the owner and a worker that dies. *)

\* The folder, the handlers and the deletion stay as they are.
LEMMA NothingStep ==
  ASSUME UploadsInv, UNCHANGED <<backend, names, folder, upc, todo, wrote, at, erase, crossed>>
  PROVE  UploadsInv'
<1>1. UploadsTyped'
  BY DEF UploadsInv, UploadsTyped
<1>2. Cleared'
  BY DEF UploadsInv, Cleared
<1>3. Extractions'
  BY DEF UploadsInv, Extractions, Extraction, Up!zip
<1> QED
  BY <1>1, <1>2, <1>3 DEF UploadsInv

LEMMA DeathStep ==
  ASSUME UploadsInv, Up!WorkerDies
  PROVE  UploadsInv'
<1> UploadsTyped /\ Cleared /\ Extractions
  BY DEF UploadsInv
<1>1. /\ upc' = [u \in Upload |-> IF upc[u] \in Up!Underway THEN "failed" ELSE upc[u]]
      /\ crossed' = crossed \cup Up!Extracting /\ at' = [u \in Upload |-> NoFile]
      /\ UNCHANGED <<backend, names, folder, todo, wrote, erase>>
  BY DEF Up!WorkerDies, Up!uploadVars
<1>2. upc' \in [Upload -> Labels] /\ \A u \in Upload : upc'[u] # "copy"
  BY <1>1 DEF UploadsTyped, Labels, Up!Underway
<1>3. UploadsTyped'
  BY <1>1, <1>2 DEF UploadsTyped, Up!Extracting, Up!zip
<1>4. Cleared'
  BY <1>1 DEF Cleared
<1>5. ASSUME NEW u \in Up!zip, u \notin crossed' PROVE Extraction(u)'
  <2>1. u \in Upload /\ Extraction(u) /\ upc[u] \notin {"write", "undo", "send"}
    BY <1>1, <1>5 DEF Extractions, Up!Extracting, Up!zip
  <2>2. upc'[u] = upc[u] /\ at'[u] = NoFile
    BY <1>1, <2>1 DEF Up!Underway, Extraction
  <2> QED
    BY <1>1, <2>1, <2>2 DEF Extraction
<1>6. Extractions'
  BY <1>1, <1>5 DEF Extractions, Up!zip
<1> QED
  BY <1>3, <1>4, <1>6 DEF UploadsInv

LEMMA EraseSteps ==
  ASSUME UploadsInv, Up!BeginErase \/ Up!EndErase \/ \E n \in Name : Up!EraseFile(n)
  PROVE  UploadsInv'
<1> UploadsTyped /\ Cleared /\ Extractions
  BY DEF UploadsInv
<1> HandlersTyped
  BY DEF UploadsTyped, HandlersTyped
<1>0. erase \in Erasing
  BY DEF UploadsTyped
<1>1. CASE Up!BeginErase \/ Up!EndErase
  <2>1. UNCHANGED <<backend, names, folder, crossed, upc, todo, wrote, at>>
    BY <1>1 DEF Up!BeginErase, Up!EndErase, Up!uploadVars, Up!handlerVars
  <2>2. erase' \in Erasing /\ Cleared'
    <3>1. CASE Up!BeginErase
      <4>1. erase' = [active |-> TRUE, todo |-> Up!Row, failed |-> FALSE, named |-> Up!Row, forgot |-> {}]
        BY <3>1 DEF Up!BeginErase, Up!NotErasing
      <4> QED
        BY <4>1 DEF Erasing, Cleared, Up!Row
    <3>2. CASE Up!EndErase
      <4>1. \/ erase' = Up!NotErasing
            \/ erase' = [Up!NotErasing EXCEPT !.forgot = Up!Row \cap Up!OnDisk]
        BY <3>2 DEF Up!EndErase
      <4>2. erase' \in Erasing /\ erase'.active = FALSE
        <5>1. Up!NotErasing \in Erasing /\ Up!NotErasing.active = FALSE
          BY DEF Up!NotErasing, Erasing
        <5>2. \A e \in Erasing, S \in SUBSET Name :
                [e EXCEPT !.forgot = S] \in Erasing /\ [e EXCEPT !.forgot = S].active = e.active
          BY DEF Erasing
        <5>3. Up!Row \cap Up!OnDisk \in SUBSET Name
          BY DEF Up!Row
        <5> QED
          BY <4>1, <5>1, <5>2, <5>3
      <4> QED
        BY <4>2 DEF Cleared
    <3> QED
      BY <1>1, <3>1, <3>2
  <2>3. HandlersTyped' /\ Idle(Owner)
    BY <2>1 DEF HandlersTyped, Idle
  <2>4. Owner \notin Up!zip /\ crossed' \subseteq Upload
    BY <2>1, BytesAre DEF Up!zip, UploadsTyped
  <2> QED
    BY <2>1, <2>2, <2>3, <2>4, QuietStep
<1>2. ASSUME NEW n \in Name, Up!EraseFile(n) PROVE UploadsInv'
  <2>1. UNCHANGED <<backend, names, upc, todo, wrote, at>> /\ n \in erase.todo
    BY <1>2 DEF Up!EraseFile, Up!uploadVars, Up!handlerVars
  <2>2. \A e \in Erasing : LET y == [e EXCEPT !.todo = @ \ {n}]
                               z == [e EXCEPT !.todo = @ \ {n}, !.failed = TRUE]
                           IN /\ y \in Erasing /\ y.active = e.active /\ y.failed = e.failed
                              /\ y.todo = e.todo \ {n} /\ y.named = e.named
                              /\ z \in Erasing /\ z.failed = TRUE
    BY DEF Erasing
  <2>3. CASE /\ folder' = [folder EXCEPT ![n] = NoFile]
             /\ crossed' = crossed \cup Up!Extracting
             /\ erase' = [erase EXCEPT !.todo = @ \ {n}]
    <3>1. folder' \in [Name -> Bytes \cup {NoFile}] /\ folder'[n] = NoFile
            /\ \A m \in Name \ {n} : folder'[m] = folder[m]
      BY <2>3 DEF UploadsTyped
    <3>2. erase' \in Erasing /\ Cleared'
      <4>1. erase.named \subseteq Name
        BY <1>0 DEF Erasing
      <4> QED
        BY <1>0, <2>2, <2>3, <3>1, <4>1 DEF Cleared
    <3>3. UploadsTyped'
      BY <2>1, <2>3, <3>1, <3>2 DEF UploadsTyped, Up!Extracting, Up!zip
    <3>4. ASSUME NEW u \in Up!zip, u \notin crossed' PROVE Extraction(u)'
      <4>1. u \in Upload /\ Extraction(u) /\ upc[u] \notin {"write", "undo", "send"}
        BY <2>3, <3>4 DEF Extractions, Up!Extracting, Up!zip
      <4>2. NoFile # Up!Whole(u)
        BY <4>1, BytesAre
      <4> QED
        BY <2>1, <3>1, <4>1, <4>2 DEF Extraction
    <3>5. Extractions'
      BY <2>1, <3>4 DEF Extractions, Up!zip
    <3> QED
      BY <3>2, <3>3, <3>5 DEF UploadsInv
  <2>4. CASE erase' = Up!Survived(n) /\ UNCHANGED <<folder, crossed>>
    <3>1. erase' \in Erasing /\ Cleared'
      BY <1>0, <2>2, <2>4 DEF Cleared, Up!Survived
    <3>2. HandlersTyped' /\ Idle(Owner)
      BY <2>1 DEF HandlersTyped, Idle
    <3>3. Owner \notin Up!zip /\ crossed' \subseteq Upload
      BY <2>4, BytesAre DEF Up!zip, UploadsTyped
    <3> QED
      BY <2>1, <2>4, <3>1, <3>2, <3>3, QuietStep
  <2> QED
    BY <1>2, <2>3, <2>4 DEF Up!EraseFile
<1> QED
  BY <1>1, <1>2

LEMMA OwnerStep ==
  ASSUME UploadsInv, NEW n \in Name, Up!OwnerActs(n)
  PROVE  UploadsInv'
<1> UploadsTyped /\ HandlersTyped
  BY DEF UploadsInv, UploadsTyped, HandlersTyped
<1>1. UNCHANGED <<backend, names, upc, todo, wrote, at>>
  BY DEF Up!OwnerActs, Up!uploadVars, Up!handlerVars
<1>2. PICK x \in {Up!Whole(Owner), NoFile} : Up!SetFile(n, x, Owner)
  BY DEF Up!OwnerActs
<1>3. HandlersTyped' /\ Idle(Owner)
  BY <1>1 DEF HandlersTyped, Idle
<1>4. x \in Bytes \cup {NoFile} /\ \A u \in Upload : x # Up!Whole(u)
  BY BytesAre
<1>5. Owner \notin Up!zip
  BY BytesAre DEF Up!zip
<1> QED
  BY <1>1, <1>2, <1>3, <1>4, <1>5, FileStep

----------------------------------------------------------------------------

THEOREM UploadsInvStays == UploadsInv /\ [Up!UploadsNext]_(Up!uploadsVars) => UploadsInv'
<1> SUFFICES ASSUME UploadsInv, [Up!UploadsNext]_(Up!uploadsVars) PROVE UploadsInv'
  OBVIOUS
<1>1. ASSUME NEW u \in Upload, Up!Handle(u) PROVE UploadsInv'
  BY <1>1, StoreSteps, LookStep, EntrySteps, EndSteps DEF Up!Handle
<1>2. CASE Up!ScanStep \/ Up!ScanFails
  <2>1. UNCHANGED <<backend, names, folder, upc, todo, wrote, at, erase, crossed>>
    BY <1>2 DEF Up!ScanStep, Up!ReadFolder, Up!IndexFolder, Up!ScanFails, Up!Untouched,
                Up!uploadVars, Up!handlerVars
  <2> QED
    BY <2>1, NothingStep
<1>3. CASE Up!WorkerDies
  BY <1>3, DeathStep
<1>4. CASE Up!BeginErase \/ Up!EndErase \/ \E n \in Name : Up!EraseFile(n)
  BY <1>4, EraseSteps
<1>5. ASSUME NEW n \in Name, Up!OwnerActs(n) PROVE UploadsInv'
  BY <1>5, OwnerStep
<1>6. CASE UNCHANGED Up!uploadsVars
  BY <1>6, NothingStep DEF Up!uploadsVars, Up!uploadVars, Up!handlerVars
<1> QED
  BY <1>1, <1>2, <1>3, <1>4, <1>5, <1>6 DEF Up!UploadsNext

THEOREM UploadsInvAlways == Up!UploadsSpec => []UploadsInv
  BY UploadsInitInv, UploadsInvStays, PTL DEF Up!UploadsSpec

\* extractZipIntoLibrary: an archive is there whole before a scan is asked for, and
\* when it failed nothing whole of it is left, unless the extraction met somebody
\* else, could not look or not remove; for any number of uploads, files and faults.
THEOREM ArchivesAreAllOrNothing == Up!UploadsSpec => []ExtractionIsAllOrNothing
<1>1. UploadsInv => ExtractionIsAllOrNothing
  BY DEF UploadsInv, Extractions, Extraction, ExtractionIsAllOrNothing, Up!ExtractionIsAllOrNothing
<1> QED
  BY <1>1, UploadsInvAlways, PTL

\* A row goes in one step only.
LEMMA RowsGoTogether ==
  ASSUME [Up!UploadsNext]_(Up!uploadsVars), Up!Row # {}, Up!Row' = {}
  PROVE  Up!EndErase /\ ~erase.failed
<1>1. \/ Up!EndErase \/ Up!IndexFolder \/ index' = index
  BY DEF Up!UploadsNext, Up!uploadsVars, Up!Handle, Up!Refuse, Up!Store, Up!BeginCopy, Up!EndCopy,
         Up!CopyFails, Up!Look, Up!OpenEntry, Up!PutEntry, Up!EntryDone, Up!CloseEntry, Up!EntryFails,
         Up!UndoEntry, Up!EndZip, Up!SendScan, Up!SendScanFails, Up!ScanStep, Up!ReadFolder,
         Up!ScanFails, Up!WorkerDies, Up!BeginErase, Up!EraseFile, Up!OwnerActs, Up!indexVars
<1>2. PICK n \in Name : index[n] # NoFile
  BY DEF Up!Row
<1>3. index' # index
  BY DEF Up!Row
<1>4. CASE Up!IndexFolder
  <2>1. index'[n] # NoFile
    BY <1>2, <1>4 DEF Up!IndexFolder
  <2> QED
    BY <2>1 DEF Up!Row
<1>5. CASE Up!EndErase
  BY <1>3, <1>5 DEF Up!EndErase, Up!indexVars
<1> QED
  BY <1>1, <1>3, <1>4, <1>5

\* deleteModelFiles: when the row of a model goes, nothing is left that it named
\* when the deletion began, but what arrived since.
THEOREM TheRowGoesWithItsFiles == Up!UploadsSpec => RowGoesWithItsFiles
<1>1. ASSUME UploadsInv, [Up!UploadsNext]_(Up!uploadsVars)
      PROVE  [(Up!Row # {} /\ Up!Row' = {}) => erase.named \cap Up!OnDisk = {}]_(Up!uploadsVars)
  <2> SUFFICES ASSUME Up!Row # {}, Up!Row' = {} PROVE erase.named \cap Up!OnDisk = {}
    OBVIOUS
  <2>1. erase.active /\ erase.todo = {} /\ ~erase.failed
    BY <1>1, RowsGoTogether DEF Up!EndErase
  <2> QED
    BY <1>1, <2>1 DEF UploadsInv, Cleared, Up!OnDisk
<1> QED
  BY <1>1, UploadsInvAlways, PTL DEF Up!UploadsSpec, RowGoesWithItsFiles, Up!RowGoesWithItsFiles

=============================================================================
