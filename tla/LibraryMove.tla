----------------------------- MODULE LibraryMove -----------------------------
(***************************************************************************)
(* Carrying one model from library "src" to library "dst": the worker's    *)
(* job (apps/worker/src/jobs/move.ts), the service it calls                *)
(* (packages/core/src/services/move-service.ts), the file by file transfer *)
(* (packages/core/src/storage/move.ts), and the scans of both libraries,   *)
(* which no lock keeps out.                                                *)
(*                                                                         *)
(* The model keeps its path.  A scan is abstracted to what it does to that *)
(* one path, in the steps LibraryScan details: read the folder, load the   *)
(* exclusions, reconcile the row.                                          *)
(***************************************************************************)
EXTENDS Integers, FiniteSets

CONSTANTS
  File,        \* the files of the model
  OneVolume,   \* the files adoptFrom can rename across: no mount lies between
  MaxFault,    \* bound on storage operations that fail
  MaxCrash,    \* bound on deaths of the worker
  MaxTries,    \* 1 + retryLimit of the queue
  MaxRequest   \* bound on the times the user asks again

ASSUME MoveAssumption ==
  /\ IsFiniteSet(File) /\ File # {}
  /\ OneVolume \subseteq File
  /\ {MaxFault, MaxCrash, MaxRequest} \subseteq Nat /\ MaxTries \in Nat \ {0}

Lib == {"src", "dst"}
NoRow == [model |-> "none", missing |-> FALSE, live |-> {}]

VARIABLES
  disk,      \* [Lib -> [File -> what is at the model's path]]
  at,        \* [Lib -> the row of models that holds the path there]
  excluded,  \* the path is in the exclusions of "dst"
  scan,      \* [Lib -> the scan in progress]
  deadRun,   \* libraries with a scan_run left 'running' by a dead worker
  job,       \* where the move is
  toMove,    \* live files of the model not yet carried
  moved,     \* the files carried so far
  copying,   \* the files whose transfer has begun and not ended
  tries,     \* times the job was delivered
  outcome,   \* what the last delivery came to
  count      \* bounded outside events

jobVars == <<job, toMove, moved, copying, outcome>>
scanVars == <<scan, deadRun>>
vars == <<disk, at, excluded, scanVars, jobVars, tries, count>>

Original == at["src"].model = "original"   \* the row has not moved yet
Empty(lib) == \A f \in File : disk[lib][f] = "none"
Put(lib, f, state) == disk' = [disk EXCEPT ![lib][f] = state]
Bump(event) == count' = [count EXCEPT ![event] = @ + 1]

NoScan == [step |-> "idle", found |-> {}, skips |-> FALSE, claimed |-> FALSE]

----------------------------------------------------------------------------
(* The job. *)

EndJob(result) ==
  /\ job' = "idle" /\ outcome' = result
  /\ toMove' = {} /\ moved' = {} /\ copying' = {}

\* moveToLibrary: the user asks again after a move that did not happen.
RequestAgain ==
  /\ job = "idle" /\ Original
  /\ outcome \in {"refused", "declined", "stranded"}
  /\ count.request < MaxRequest /\ Bump("request")
  /\ outcome' = "queued" /\ tries' = 0
  /\ UNCHANGED <<disk, at, excluded, scanVars, job, toMove, moved, copying>>

\* The queue delivers the job, at first and again after a failure or a crash;
\* a model that has already arrived is left alone.  A MoveError is swallowed:
\* the job counts as done and is not retried.
Deliver ==
  /\ job = "idle" /\ outcome \in {"queued", "failed"}
  /\ tries < MaxTries /\ tries' = tries + 1
  /\ IF Original
     THEN job' = "checkScans" /\ UNCHANGED <<toMove, moved, copying, outcome>>
     ELSE EndJob("moved")
  /\ UNCHANGED <<disk, at, excluded, scanVars, count>>

Scanning == \E lib \in Lib : scan[lib].step # "idle"
RunsRunning == Scanning \/ deadRun # {}

CheckScans ==
  /\ job = "checkScans"
  /\ IF RunsRunning THEN EndJob("refused")
     ELSE job' = "checkFree" /\ UNCHANGED <<toMove, moved, copying, outcome>>
  /\ UNCHANGED <<disk, at, excluded, scanVars, tries, count>>

\* assertDestinationFree, then the live rows of model_files.
CheckFree ==
  /\ job = "checkFree"
  /\ IF at["dst"] # NoRow \/ ~Empty("dst") \/ at["src"].live = {}
     THEN EndJob("refused")
     ELSE /\ job' = "carry" /\ toMove' = at["src"].live
          /\ UNCHANGED <<moved, copying, outcome>>
  /\ UNCHANGED <<disk, at, excluded, scanVars, tries, count>>

Carried(f) ==
  /\ moved' = moved \cup {f} /\ toMove' = toMove \ {f}
  /\ copying' = copying \ {f}

\* One volume: the rename is a single step.
Rename(f) ==
  /\ job = "carry" /\ copying = {}
  /\ f \in toMove \cap OneVolume /\ disk["src"][f] = "whole" /\ disk["dst"][f] = "none"
  /\ disk' = [disk EXCEPT !["src"][f] = "none", !["dst"][f] = "whole"]
  /\ Carried(f)
  /\ UNCHANGED <<at, excluded, scanVars, job, outcome, tries, count>>

\* Two volumes: copy, then delete, and the copy takes time.
BeginCopy(f) ==
  /\ job = "carry" /\ copying = {}
  /\ f \in toMove \ OneVolume /\ disk["src"][f] = "whole" /\ disk["dst"][f] = "none"
  /\ Put("dst", f, "partial")
  /\ copying' = {f}
  /\ UNCHANGED <<at, excluded, scanVars, job, toMove, moved, outcome, tries, count>>

EndCopy(f) ==
  /\ job = "carry" /\ f \in copying /\ disk["dst"][f] = "partial"
  /\ Put("dst", f, "whole")
  /\ UNCHANGED <<at, excluded, scanVars, jobVars, tries, count>>

\* Mutant: the source goes before the copy is complete.
RemoveSourceEarly(f) ==
  /\ job = "carry" /\ f \in copying
  /\ Put("src", f, "none")
  /\ IF disk["dst"][f] = "whole" THEN Carried(f)
     ELSE UNCHANGED <<moved, toMove, copying>>
  /\ UNCHANGED <<at, excluded, scanVars, job, outcome, tries, count>>

RemoveSource(f) ==
  /\ job = "carry" /\ f \in copying /\ disk["dst"][f] = "whole"
  /\ Put("src", f, "none")
  /\ Carried(f)
  /\ UNCHANGED <<at, excluded, scanVars, job, outcome, tries, count>>

\* Any of these operations may fail; what it had written stays.
TransferFails ==
  /\ job = "carry" /\ toMove # {}
  /\ count.fault < MaxFault /\ Bump("fault")
  /\ job' = "rollback" /\ copying' = {}
  /\ UNCHANGED <<disk, at, excluded, scanVars, toMove, moved, outcome, tries>>

\* rollback: each file goes back the way it came, in one step, or by a copy and
\* the removal of what was copied; or it is left stranded and named in the error.
PutBack(f) ==
  /\ job = "rollback" /\ copying = {}
  /\ f \in moved \cap OneVolume /\ disk["src"][f] = "none"
  /\ disk' = [disk EXCEPT !["dst"][f] = "none", !["src"][f] = "whole"]
  /\ moved' = moved \ {f}
  /\ UNCHANGED <<at, excluded, scanVars, job, toMove, copying, outcome, tries, count>>

BeginCopyBack(f) ==
  /\ job = "rollback" /\ copying = {}
  /\ f \in moved \ OneVolume /\ disk["src"][f] = "none"
  /\ Put("src", f, "partial")
  /\ copying' = {f}
  /\ UNCHANGED <<at, excluded, scanVars, job, toMove, moved, outcome, tries, count>>

EndCopyBack(f) ==
  /\ job = "rollback" /\ f \in copying /\ disk["src"][f] = "partial"
  /\ Put("src", f, "whole")
  /\ UNCHANGED <<at, excluded, scanVars, jobVars, tries, count>>

RemoveArrived(f) ==
  /\ job = "rollback" /\ f \in copying /\ disk["src"][f] = "whole"
  /\ Put("dst", f, "none")
  /\ moved' = moved \ {f} /\ copying' = {}
  /\ UNCHANGED <<at, excluded, scanVars, job, toMove, outcome, tries, count>>

Strand(f) ==
  /\ job = "rollback" /\ f \in moved /\ copying \subseteq {f}
  /\ count.fault < MaxFault /\ Bump("fault")
  /\ outcome' = "stranded"
  /\ moved' = moved \ {f} /\ copying' = {}
  /\ UNCHANGED <<disk, at, excluded, scanVars, job, toMove, tries>>

Return(f) ==
  PutBack(f) \/ BeginCopyBack(f) \/ EndCopyBack(f) \/ RemoveArrived(f) \/ Strand(f)

Decline ==
  /\ job = "rollback" /\ moved = {}
  /\ EndJob(IF outcome = "stranded" THEN "stranded" ELSE "declined")
  /\ UNCHANGED <<disk, at, excluded, scanVars, tries, count>>

\* Mutant: last_seen_at is left as it was.
UpdateRowUnseen ==
  /\ job = "carry" /\ toMove = {}
  /\ IF at["dst"] = NoRow
     THEN /\ at' = [src |-> NoRow, dst |-> [at["src"] EXCEPT !.missing = FALSE]]
          /\ job' = "unexclude" /\ UNCHANGED <<scan, toMove, moved, copying, outcome>>
     ELSE EndJob("failed") /\ UNCHANGED <<at, scan>>
  /\ UNCHANGED <<disk, excluded, deadRun, tries, count>>

\* The row, in one statement.  It fails on the unique index when a scan has made
\* a row of the folder arriving there, and with it the whole job.
UpdateRow ==
  /\ job = "carry" /\ toMove = {}
  /\ IF at["dst"] = NoRow
     THEN /\ at' = [src |-> NoRow, dst |-> [at["src"] EXCEPT !.missing = FALSE]]
          /\ scan' = [scan EXCEPT !["dst"].claimed = scan["dst"].step # "idle"]
          /\ job' = "unexclude" /\ UNCHANGED <<toMove, moved, copying, outcome>>
     ELSE EndJob("failed") /\ UNCHANGED <<at, scan>>
  /\ UNCHANGED <<disk, excluded, deadRun, tries, count>>

\* Mutant: the exclusion at the destination outlives the move.
DropExclusionNever ==
  /\ job = "unexclude"
  /\ EndJob("moved")
  /\ UNCHANGED <<disk, at, excluded, scanVars, tries, count>>

DropExclusion ==
  /\ job = "unexclude"
  /\ excluded' = FALSE
  /\ EndJob("moved")
  /\ UNCHANGED <<disk, at, scanVars, tries, count>>

----------------------------------------------------------------------------
(* A scan of either library, as seen from the path of the model. *)

BeginScan(lib) ==
  /\ scan[lib].step = "idle"
  /\ scan' = [scan EXCEPT ![lib].step = "walk"]
  /\ UNCHANGED <<disk, at, excluded, deadRun, jobVars, tries, count>>

WalkPath(lib) ==
  /\ scan[lib].step = "walk"
  /\ scan' = [scan EXCEPT ![lib].step = "load",
                          ![lib].found = {f \in File : disk[lib][f] # "none"}]
  /\ UNCHANGED <<disk, at, excluded, deadRun, jobVars, tries, count>>

LoadExclusions(lib) ==
  /\ scan[lib].step = "load"
  /\ scan' = [scan EXCEPT ![lib].step = "reconcile",
                          ![lib].skips = lib = "dst" /\ excluded]
  /\ UNCHANGED <<disk, at, excluded, deadRun, jobVars, tries, count>>

\* The folder makes a row or refreshes the one there; a row it did not make or
\* refresh goes missing unless last_seen_at is younger than the scan.
Reconcile(lib) ==
  /\ scan[lib].step = "reconcile"
  /\ LET s == scan[lib]
         row == at[lib]
         here == s.found # {} /\ ~s.skips
     IN at' = [at EXCEPT ![lib] =
          IF here THEN [model |-> IF row = NoRow THEN "lookalike" ELSE row.model,
                        missing |-> FALSE, live |-> s.found]
          ELSE IF row = NoRow THEN row
          ELSE [row EXCEPT !.live = {}, !.missing = row.missing \/ ~s.claimed]]
  /\ scan' = [scan EXCEPT ![lib] = NoScan]
  /\ UNCHANGED <<disk, excluded, deadRun, jobVars, tries, count>>

\* The worker dies: the job is delivered again, the scan_runs of the scans it
\* ran keep the status 'running'.
Crash ==
  /\ job # "idle" \/ Scanning
  /\ count.crash < MaxCrash /\ Bump("crash")
  /\ deadRun' = deadRun \cup {lib \in Lib : scan[lib].step # "idle"}
  /\ scan' = [lib \in Lib |-> NoScan]
  /\ IF job = "idle" THEN UNCHANGED jobVars ELSE EndJob("failed")
  /\ UNCHANGED <<disk, at, excluded, tries>>

----------------------------------------------------------------------------
Init ==
  /\ disk = [src |-> [f \in File |-> "whole"], dst |-> [f \in File |-> "none"]]
  /\ at = [src |-> [model |-> "original", missing |-> FALSE, live |-> File],
           dst |-> NoRow]
  /\ excluded \in BOOLEAN
  /\ scan = [lib \in Lib |-> NoScan] /\ deadRun = {}
  /\ job = "idle" /\ outcome = "queued"
  /\ toMove = {} /\ moved = {} /\ copying = {}
  /\ tries = 0 /\ count = [fault |-> 0, crash |-> 0, request |-> 0]

JobStep ==
  \/ Deliver \/ CheckScans \/ CheckFree
  \/ \E f \in File : Rename(f) \/ BeginCopy(f) \/ EndCopy(f) \/ RemoveSource(f)
                     \/ Return(f)
  \/ Decline \/ UpdateRow \/ DropExclusion

ScanStep(lib) ==
  BeginScan(lib) \/ WalkPath(lib) \/ LoadExclusions(lib) \/ Reconcile(lib)

Next ==
  \/ JobStep \/ TransferFails \/ RequestAgain
  \/ \E lib \in Lib : ScanStep(lib)
  \/ Crash

Spec == Init /\ [][Next]_vars

\* The worker works its queue off, and the move itself sends a scan of each
\* library that the schedule repeats.
FairSpec == Spec /\ WF_vars(JobStep) /\ \A lib \in Lib : WF_vars(ScanStep(lib))

----------------------------------------------------------------------------
(* Properties. *)

TypeOK ==
  /\ disk \in [Lib -> [File -> {"none", "partial", "whole"}]]
  /\ at \in [Lib -> [model : {"none", "original", "lookalike"},
                     missing : BOOLEAN, live : SUBSET File]]
  /\ excluded \in BOOLEAN
  /\ scan \in [Lib -> [step : {"idle", "walk", "load", "reconcile"},
                       found : SUBSET File, skips : BOOLEAN, claimed : BOOLEAN]]
  /\ deadRun \subseteq Lib
  /\ job \in {"idle", "checkScans", "checkFree", "carry", "rollback", "unexclude"}
  /\ toMove \subseteq File /\ moved \subseteq File /\ copying \subseteq File
  /\ tries \in 0..MaxTries
  /\ outcome \in {"queued", "failed", "refused", "declined", "stranded", "moved"}
  /\ count \in [{"fault", "crash", "request"} -> Nat]

\* Whatever fails or dies and however often the job is delivered again, every
\* file of the model is whole in one of the libraries (storage/move.ts: "every
\* failure leaves either the original or both, and never neither").
NeverNeither ==
  \A f \in File : \E lib \in Lib : disk[lib][f] = "whole"

Undisturbed == count.fault = 0 /\ count.crash = 0

\* While storage works and the worker lives, the row never points at files that
\* are not there yet, whichever scans run beside the move ("the row changes only
\* once they have all arrived").
RowMovesLast ==
  at["dst"].model = "original" /\ Undisturbed =>
    \A f \in File : disk["dst"][f] = "whole"

\* Files and row: no file is ever lost, and a move nothing disturbed does not
\* name one before it has arrived.
RowHasItsFiles == NeverNeither /\ RowMovesLast

\* A scan that ran while the files were in flight does not hide the model that
\* has arrived: a moved row goes missing only in a scan that began after the
\* update and loaded the old exclusion before the move dropped it.
ArrivedIsNotHidden ==
  [][(at["dst"].model = "original" /\ ~at["dst"].missing /\ at'["dst"].missing) =>
       scan["dst"].skips]_vars

Settled ==
  /\ at["dst"] = [model |-> "original", missing |-> FALSE, live |-> File]
  /\ at["src"] # NoRow => at["src"].missing

\* After a move nothing disturbed the scans to come leave exactly the moved row,
\* live with all its files, whatever lookalike or missing mark a scan in flight
\* had left behind.
CleanMoveSettles == <>[](outcome = "moved" /\ Undisturbed => Settled)

\* The same of every move the job reports as done without a failed transfer, a
\* worker that died on the way included (jobs/move.ts: a model "already in the
\* destination, nothing to do").
MoveSettles == <>[](outcome = "moved" /\ count.fault = 0 => Settled)
=============================================================================
