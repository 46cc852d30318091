---------------------------- MODULE BackupRestore ----------------------------
(***************************************************************************)
(* Restoring a backup in the worker (apps/worker/src/backup/http.ts and    *)
(* restore.ts): an upload is staged, applying it pauses the job handlers,  *)
(* puts the backup's model files in their places one by one, replaces the  *)
(* database in one transaction, brings it forward to this build's schema,  *)
(* throws away the jobs queued for the database before                     *)
(* (jobs/src/queue.ts), and starts the handlers again.                     *)
(*                                                                         *)
(* A database is named by the upload it came from, 0 being the first one.  *)
(* A job, and the handler working on it, by the database whose rows it     *)
(* names.  The queue's own schema survives a restore.                      *)
(***************************************************************************)
EXTENDS Integers, FiniteSets

CONSTANTS
  Request,              \* requests to upload or apply that can run at once
  WithFiles,            \* the uploads that carry the files of managed libraries
  MaxUpload, MaxApply,  \* bounds on the uploads staged and the requests to apply one
  MaxTrouble            \* and on the steps of a restore that fail, the drains that
                        \* time out and the deaths of the worker, together

\* What it asks of its parameters; MCServices assumes it of an instance.
RestoreAssumption == MaxUpload \in Nat /\ MaxApply \in Nat /\ MaxTrouble \in Nat

VARIABLES
  state,       \* what the status page shows: its status, the upload it is about,
               \* what it says of a failure, and the database it started from
  staged,      \* the uploads on disk
  known,       \* how many were ever staged
  data,        \* the database there is
  forward,     \* it has this build's schema
  files,       \* databases whose model files lie where two of them have the same paths
  jobs,        \* databases the queued jobs name rows of
  running,     \* databases the handlers at work name rows of
  working,     \* handlers are registered
  asks,        \* [Request -> where it is]
  stuck,       \* the handlers could not be stopped, or not be started again
  crossed,     \* two restores ran at the same time
  survived,    \* handlers outlived the pause, or jobs the database they name
  applied, trouble

vars == <<state, staged, known, data, forward, files, jobs, running, working, asks, stuck,
          crossed, survived, applied, trouble>>

Upload == 1..MaxUpload
Database == 0..MaxUpload
Steps == {"idle", "clear", "receive", "verify", "pause", "drain", "prepare", "files", "copy", "load",
          "upgrade", "previews", "resume", "finish", "recover", "report"}
Says == {"nothing", "unchanged", "changed", "interrupted"}
Idle == [step |-> "idle", id |-> 0, paused |-> FALSE, restored |-> FALSE, says |-> "nothing"]

At(q, step) == asks[q].step = step
Restoring(q) == asks[q].step \notin {"idle", "clear", "receive", "verify"}
Go(q, step) == asks' = [asks EXCEPT ![q].step = step]
Rest(q) == asks' = [asks EXCEPT ![q] = Idle]
Trouble == trouble < MaxTrouble /\ trouble' = trouble + 1
\* The catch of runRestore.
Caught(q, says) ==
  asks' = [asks EXCEPT ![q].says = says, ![q].step = IF asks[q].paused THEN "recover" ELSE "report"]
\* setState({ ...started, phase })
ShowPhase(q) == state' = [state EXCEPT !.status = "restoring", !.id = asks[q].id]

----------------------------------------------------------------------------
(* handleUpload: the check, the removal of what is staged, and the file. *)

Receiving(q) ==
  /\ At(q, "idle") /\ state.status # "restoring"
  /\ Go(q, "clear")
  /\ UNCHANGED <<state, staged, known, data, forward, files, jobs, running, working, stuck,
                 crossed, survived, applied, trouble>>

Clear(q) ==
  /\ At(q, "clear")
  /\ staged' = {} /\ Go(q, "receive")
  /\ UNCHANGED <<state, known, data, forward, files, jobs, running, working, stuck, crossed,
                 survived, applied, trouble>>

\* Whatever is going on by now.  What cannot be read is removed again.
Receive(q) ==
  /\ At(q, "receive") /\ Rest(q)
  /\ \/ /\ known < MaxUpload
        /\ known' = known + 1 /\ staged' = staged \cup {known + 1}
        /\ state' = [state EXCEPT !.status = "uploaded", !.id = known + 1, !.says = "nothing"]
     \/ UNCHANGED <<state, staged, known>>
  /\ UNCHANGED <<data, forward, files, jobs, running, working, stuck, crossed, survived, applied,
                 trouble>>

----------------------------------------------------------------------------
(* handleApply *)

Apply(q, u) ==
  /\ At(q, "idle") /\ state.status # "restoring" /\ u <= known /\ applied < MaxApply
  /\ asks' = [asks EXCEPT ![q].step = "verify", ![q].id = u]
  /\ applied' = applied + 1
  /\ UNCHANGED <<state, staged, known, data, forward, files, jobs, running, working, stuck,
                 crossed, survived, trouble>>

\* The file may have gone and its passphrase may be wrong.  Whether another
\* restore has begun is not looked at again.
Verify(q) ==
  /\ At(q, "verify")
  /\ \/ Rest(q) /\ UNCHANGED <<state, crossed>>
     \/ /\ asks[q].id \in staged /\ Go(q, "pause")
        /\ state' = [status |-> "restoring", id |-> asks[q].id, says |-> "nothing", from |-> data]
        /\ crossed' = (crossed \/ \E p \in Request : Restoring(p))
  /\ UNCHANGED <<staged, known, data, forward, files, jobs, running, working, stuck, survived,
                 applied, trouble>>

----------------------------------------------------------------------------
(* runRestore *)

\* pauseWork stops the watchers and takes no more jobs; a queue that is stopped
\* already needs no draining.
Pause(q) ==
  /\ At(q, "pause")
  /\ \/ /\ working' = FALSE /\ UNCHANGED <<stuck, trouble>>
        /\ asks' = [asks EXCEPT ![q].step = IF working THEN "drain" ELSE "prepare",
                                ![q].paused = ~working]
     \/ /\ Trouble /\ Caught(q, "unchanged")
        /\ working' \in {working, FALSE} /\ stuck' = TRUE
  /\ UNCHANGED <<state, staged, known, data, forward, files, jobs, running, crossed, survived, applied>>

\* After 30 seconds it no longer waits, and what runs goes back to the queue as
\* well.
Drain(q) ==
  /\ At(q, "drain")
  /\ asks' = [asks EXCEPT ![q].step = "prepare", ![q].paused = TRUE]
  /\ \/ running = {} /\ UNCHANGED <<jobs, survived, trouble>>
     \/ /\ running # {} /\ Trouble
        /\ jobs' = jobs \cup running /\ survived' = TRUE
  /\ UNCHANGED <<state, staged, known, data, forward, files, running, working, stuck, crossed, applied>>

\* restoreBackup opens the file and checks it.
Prepare(q) ==
  /\ At(q, "prepare") /\ ShowPhase(q)
  /\ \/ asks[q].id \in staged /\ Go(q, "files") /\ UNCHANGED trouble
     \/ asks[q].id \notin staged /\ Caught(q, "unchanged") /\ UNCHANGED trouble
     \/ Trouble /\ Caught(q, "unchanged")
  /\ UNCHANGED <<staged, known, data, forward, files, jobs, running, working, stuck, crossed,
                 survived, applied>>

\* The directories are made.
MakeRoom(q) ==
  /\ At(q, "files") /\ ShowPhase(q)
  /\ \/ Go(q, IF asks[q].id \in WithFiles THEN "copy" ELSE "load") /\ UNCHANGED trouble
     \/ Trouble /\ Caught(q, "unchanged")
  /\ UNCHANGED <<staged, known, data, forward, files, jobs, running, working, stuck, crossed,
                 survived, applied>>

\* One file after another is renamed over what lies at its path; the last leaves
\* those of this backup only, unless another restore puts its own there as well.
\* What a failure or a death leaves half done is not put back.
PutFiles(q) ==
  /\ At(q, "copy")
  /\ \/ files' = files \cup {asks[q].id} /\ UNCHANGED <<asks, trouble>>
     \/ /\ Go(q, "load") /\ UNCHANGED trouble
        /\ \/ files' = {asks[q].id}
           \/ crossed /\ files' = files \cup {asks[q].id}
     \/ Trouble /\ Caught(q, "unchanged") /\ UNCHANGED files
  /\ UNCHANGED <<state, staged, known, data, forward, jobs, running, working, stuck, crossed,
                 survived, applied>>

\* Mutant: the schema is replaced before the transaction begins.
LoadInPieces(q) ==
  /\ At(q, "load") /\ ShowPhase(q)
  /\ data' = asks[q].id /\ forward' = FALSE
  /\ \/ Go(q, "upgrade") /\ UNCHANGED trouble
     \/ Trouble /\ Caught(q, "unchanged")
  /\ UNCHANGED <<staged, known, files, jobs, running, working, stuck, crossed, survived, applied>>

\* The transaction that replaces the database.
Load(q) ==
  /\ At(q, "load") /\ ShowPhase(q)
  /\ \/ data' = asks[q].id /\ forward' = FALSE /\ Go(q, "upgrade") /\ UNCHANGED trouble
     \/ Trouble /\ Caught(q, "unchanged") /\ UNCHANGED <<data, forward>>
  /\ UNCHANGED <<staged, known, files, jobs, running, working, stuck, crossed, survived, applied>>

\* Should bringing it forward fail, runRestore does not learn that the database
\* was replaced, and the jobs queued for the one before are kept.
Upgrade(q) ==
  /\ At(q, "upgrade") /\ ShowPhase(q)
  /\ \/ /\ forward' = TRUE /\ UNCHANGED <<survived, trouble>>
        /\ asks' = [asks EXCEPT ![q].step = "previews", ![q].restored = TRUE]
     \/ /\ Trouble /\ Caught(q, "changed") /\ UNCHANGED forward
        /\ survived' = (survived \/ ~(jobs \subseteq {data}))
  /\ UNCHANGED <<staged, known, data, files, jobs, running, working, stuck, crossed, applied>>

\* markMissingPreviews
Previews(q) ==
  /\ At(q, "previews")
  /\ \/ Go(q, "resume") /\ UNCHANGED trouble
     \/ Trouble /\ Caught(q, "changed")
  /\ UNCHANGED <<state, staged, known, data, forward, files, jobs, running, working, stuck, crossed,
                 survived, applied>>

\* discardPending is best effort, queue by queue.
Discard ==
  \/ jobs' = {} /\ UNCHANGED <<survived, trouble>>
  \/ Trouble /\ survived' = (survived \/ ~(jobs \subseteq {data})) /\ UNCHANGED jobs

\* resumeWork
Resume(q) ==
  /\ At(q, "resume")
  /\ \/ /\ Discard /\ working' = TRUE
        /\ asks' = [asks EXCEPT ![q].step = "finish", ![q].paused = FALSE]
     \/ Trouble /\ Caught(q, "changed") /\ UNCHANGED <<jobs, survived, working>>
  /\ UNCHANGED <<state, staged, known, data, forward, files, running, stuck, crossed, applied>>

\* The thumbnails are queued, the restore recorded and the upload removed.
Finish(q) ==
  /\ At(q, "finish")
  /\ \/ /\ jobs' = jobs \cup {data} /\ Rest(q) /\ staged' = staged \ {asks[q].id}
        /\ state' = [state EXCEPT !.status = "done", !.id = asks[q].id, !.says = "nothing"]
        /\ UNCHANGED trouble
     \/ Trouble /\ Caught(q, "changed") /\ UNCHANGED <<state, staged, jobs>>
  /\ UNCHANGED <<known, data, forward, files, running, working, stuck, crossed, survived, applied>>

Recover(q) ==
  /\ At(q, "recover") /\ Go(q, "report")
  /\ \/ /\ working' = TRUE /\ UNCHANGED stuck
        /\ IF asks[q].restored THEN Discard ELSE UNCHANGED <<jobs, survived, trouble>>
     \/ Trouble /\ stuck' = TRUE /\ UNCHANGED <<jobs, survived, working>>
  /\ UNCHANGED <<state, staged, known, data, forward, files, running, crossed, applied>>

\* describeFailure
Report(q) ==
  /\ At(q, "report") /\ Rest(q)
  /\ state' = [state EXCEPT !.status = "failed", !.id = asks[q].id, !.says = asks[q].says]
  /\ UNCHANGED <<staged, known, data, forward, files, jobs, running, working, stuck, crossed,
                 survived, applied, trouble>>

----------------------------------------------------------------------------
(* The worker and the queue meanwhile. *)

\* A page, a schedule or a handler asks for work on a row there is.
Enqueue ==
  /\ jobs' = jobs \cup {data}
  /\ UNCHANGED <<state, staged, known, data, forward, files, running, working, asks, stuck, crossed,
                 survived, applied, trouble>>

Take(d) ==
  /\ working /\ d \in jobs
  /\ jobs' = jobs \ {d} /\ running' = running \cup {d}
  /\ UNCHANGED <<state, staged, known, data, forward, files, working, asks, stuck, crossed, survived,
                 applied, trouble>>

Handled(d) ==
  /\ d \in running
  /\ running' = running \ {d}
  /\ UNCHANGED <<state, staged, known, data, forward, files, jobs, working, asks, stuck, crossed,
                 survived, applied, trouble>>

\* The worker dies and boots: loadState, and startWork.  What ran is tried again.
Crash ==
  /\ Trouble
  /\ asks' = [q \in Request |-> Idle]
  /\ state' = IF state.status = "restoring"
              THEN [state EXCEPT !.status = "failed", !.says = "interrupted"] ELSE state
  /\ jobs' = jobs \cup running /\ running' = {}
  /\ survived' = (survived \/ ~(jobs' \subseteq {data}))
  /\ working' = TRUE /\ stuck' = FALSE
  /\ UNCHANGED <<staged, known, data, forward, files, crossed, applied>>

\* The web container boots and migrates.
Migrate ==
  /\ ~forward /\ forward' = TRUE
  /\ UNCHANGED <<state, staged, known, data, files, jobs, running, working, asks, stuck, crossed,
                 survived, applied, trouble>>

Init ==
  /\ state = [status |-> "idle", id |-> 0, says |-> "nothing", from |-> 0]
  /\ staged = {} /\ known = 0 /\ data = 0 /\ forward = TRUE /\ files = {0}
  /\ jobs = {} /\ running = {} /\ working = TRUE
  /\ asks = [q \in Request |-> Idle]
  /\ stuck = FALSE /\ crossed = FALSE /\ survived = FALSE /\ applied = 0 /\ trouble = 0

Next ==
  \/ \E q \in Request :
       \/ Receiving(q) \/ Clear(q) \/ Receive(q) \/ Verify(q) \/ Pause(q) \/ Drain(q)
       \/ Prepare(q) \/ MakeRoom(q) \/ PutFiles(q) \/ Load(q) \/ Upgrade(q) \/ Previews(q)
       \/ Resume(q) \/ Finish(q) \/ Recover(q) \/ Report(q)
       \/ \E u \in Upload : Apply(q, u)
  \/ \E d \in Database : Take(d) \/ Handled(d)
  \/ Enqueue \/ Crash \/ Migrate

Spec == Init /\ [][Next]_vars

----------------------------------------------------------------------------

TypeOK ==
  /\ state \in [status : {"idle", "uploaded", "restoring", "done", "failed"}, id : Database,
                says : Says, from : Database]
  /\ staged \subseteq Upload /\ known \in Database /\ data \in Database
  /\ files \subseteq Database /\ jobs \subseteq Database /\ running \subseteq Database
  /\ asks \in [Request -> [step : Steps, id : Database, paused : BOOLEAN,
                           restored : BOOLEAN, says : Says]]
  /\ {forward, working, stuck, crossed, survived} \subseteq BOOLEAN
  /\ applied \in 0..MaxApply /\ trouble \in 0..MaxTrouble

\* "After a restore they name files and libraries from the database that was just
\* replaced": no handler works on a job of a database that has gone.  Except that
\* two restores can run at once; that the drain gives up after 30 seconds, that
\* discarding is best effort, that a worker which dies after the commit or cannot
\* bring the data forward discards nothing; and that handlers which could not be
\* stopped work on.
OldWorkIsDropped ==
  crossed \/ survived \/ stuck \/ running \subseteq {data}

\* "The reverse order could leave a restored database pointing at files that never
\* arrived": from the commit on, whatever fails after it, the files a backup
\* carries lie at their paths, all of them and no others.
FilesArriveFirst ==
  crossed \/ data = state.from \/ data \notin WithFiles \/ files = {data}

\* Whatever fails, and wherever: once no restore runs the handlers do, unless
\* they could not be stopped or started; and what is reported as done is the
\* backup, brought forward, with its files.  What is reported as a failure in which
\* "nothing was changed" left the database the restore began with: the database
\* only, for by then some or all of the files at paths both have may be the
\* backup's (see PutFiles), and they stay.
RestoreSettles ==
  ~crossed /\ (\A q \in Request : ~Restoring(q)) =>
    /\ working \/ stuck
    /\ state.status # "restoring"
    /\ state.status = "done" =>
         data = state.id /\ forward /\ (data \in WithFiles => files = {data})
    /\ state.status = "failed" /\ state.says = "unchanged" => data = state.from

\* A restore leaves no work of the old database behind, no new one without its
\* files, and on its status page the truth about the database.
RestoreIsClean == OldWorkIsDropped /\ FilesArriveFirst /\ RestoreSettles
=============================================================================
