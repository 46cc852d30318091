-------------------------- MODULE LibraryMoveProofs --------------------------
(***************************************************************************)
(* Proofs about LibraryMove for any number of files, faults, crashes and   *)
(* retries.                                                                *)
(***************************************************************************)
EXTENDS LibraryMove, TLAPS

DiskTypeOK == disk \in [Lib -> [File -> {"none", "partial", "whole"}]]

\* What is inductive about the files: those somewhere whole stay so, because a
\* file is taken from the source only where the destination has all of it.
FilesInv == DiskTypeOK /\ NeverNeither

\* Changing what is at one path of one library changes nothing else.
LEMMA PutFile ==
  ASSUME DiskTypeOK, NEW lib \in Lib, NEW f \in File,
         NEW state \in {"none", "partial", "whole"}, Put(lib, f, state)
  PROVE  /\ DiskTypeOK'
         /\ disk'[lib][f] = state
         /\ \A g \in File \ {f} : disk'[lib][g] = disk[lib][g]
         /\ \A other \in Lib \ {lib} : disk'[other] = disk[other]
  BY DEF DiskTypeOK, Put

\* A file that changes hands in one step does so in both libraries.
LEMMA SwapFile ==
  ASSUME FilesInv, NEW from \in Lib, NEW to \in Lib, from # to, NEW f \in File,
         disk' = [disk EXCEPT ![from][f] = "none", ![to][f] = "whole"]
  PROVE  FilesInv'
<1> DEFINE left == [disk[from] EXCEPT ![f] = "none"]
           right == [disk[to] EXCEPT ![f] = "whole"]
<1>0. /\ disk[from] \in [File -> {"none", "partial", "whole"}]
      /\ disk[to] \in [File -> {"none", "partial", "whole"}]
  BY DEF FilesInv, DiskTypeOK
<1>a. disk' = [[disk EXCEPT ![from] = left] EXCEPT ![to] = right]
  BY DEF FilesInv, DiskTypeOK
<1> HIDE DEF left, right
<1>1. disk' = [lib \in Lib |->
         IF lib = from THEN left ELSE IF lib = to THEN right ELSE disk[lib]]
  BY <1>a DEF FilesInv, DiskTypeOK
<1>t. /\ left \in [File -> {"none", "partial", "whole"}]
      /\ right \in [File -> {"none", "partial", "whole"}]
      /\ right[f] = "whole"
      /\ \A g \in File \ {f} : left[g] = disk[from][g] /\ right[g] = disk[to][g]
  BY <1>0 DEF left, right
<1>2. DiskTypeOK'
  BY <1>1, <1>t DEF FilesInv, DiskTypeOK
<1>3. disk'[to][f] = "whole"
  BY <1>1, <1>t
<1>4. \A g \in File \ {f}, lib \in Lib : disk'[lib][g] = disk[lib][g]
  BY <1>1, <1>t
<1> QED
  BY <1>2, <1>3, <1>4 DEF FilesInv, NeverNeither

\* Every step keeps the files.
LEMMA FilesStep == FilesInv /\ [Next]_vars => FilesInv'
<1> SUFFICES ASSUME FilesInv, [Next]_vars PROVE FilesInv'
  OBVIOUS
<1>1. CASE UNCHANGED disk
  BY <1>1 DEF FilesInv, DiskTypeOK, NeverNeither
<1>2. ASSUME NEW f \in File, Rename(f) PROVE FilesInv'
  BY <1>2, SwapFile DEF Rename, Lib
<1>3. ASSUME NEW f \in File, BeginCopy(f) PROVE FilesInv'
  \* The destination had no file there, so the source keeps the whole one.
  <2>1. Put("dst", f, "partial") /\ disk["dst"][f] = "none"
    BY <1>3 DEF BeginCopy
  <2> QED
    BY <2>1, PutFile DEF FilesInv, NeverNeither, Lib
<1>4. ASSUME NEW f \in File, EndCopy(f) PROVE FilesInv'
  <2>1. Put("dst", f, "whole")
    BY <1>4 DEF EndCopy
  <2> QED
    BY <2>1, PutFile DEF FilesInv, NeverNeither, Lib
<1>5. ASSUME NEW f \in File, RemoveSource(f) PROVE FilesInv'
  \* The copy was whole before the source went.
  <2>1. Put("src", f, "none") /\ disk["dst"][f] = "whole"
    BY <1>5 DEF RemoveSource
  <2> QED
    BY <2>1, PutFile DEF FilesInv, NeverNeither, Lib
<1>6. ASSUME NEW f \in File, Return(f) PROVE FilesInv'
  <2>1. CASE PutBack(f)
    BY <2>1, SwapFile DEF PutBack, Lib
  <2>2. CASE BeginCopyBack(f)
    BY <2>2, PutFile DEF BeginCopyBack, FilesInv, NeverNeither, Lib
  <2>3. CASE EndCopyBack(f)
    BY <2>3, PutFile DEF EndCopyBack, FilesInv, NeverNeither, Lib
  <2>4. CASE RemoveArrived(f)
    \* What went back was whole before the rest of it went.
    BY <2>4, PutFile DEF RemoveArrived, FilesInv, NeverNeither, Lib
  <2>5. CASE Strand(f)
    BY <1>1, <2>5 DEF Strand
  <2> QED
    BY <1>6, <2>1, <2>2, <2>3, <2>4, <2>5 DEF Return
<1>7. ASSUME NEW lib \in Lib, ScanStep(lib) PROVE UNCHANGED disk
  BY <1>7 DEF ScanStep, BeginScan, WalkPath, LoadExclusions, Reconcile
<1>8. Deliver \/ CheckScans \/ CheckFree \/ Decline \/ UpdateRow \/ DropExclusion
        \/ TransferFails \/ RequestAgain \/ Crash \/ UNCHANGED vars => UNCHANGED disk
  BY DEF Deliver, CheckScans, CheckFree, Decline, UpdateRow, DropExclusion,
         TransferFails, RequestAgain, Crash, vars
<1> QED
  BY <1>1, <1>2, <1>3, <1>4, <1>5, <1>6, <1>7, <1>8 DEF Next, JobStep

\* However many transfers fail and workers die, and however often the job is
\* delivered, each file of the model is whole in one library or the other.
THEOREM FilesAreNeverLost == Spec => []NeverNeither
<1>1. Init => FilesInv
  BY DEF Init, FilesInv, DiskTypeOK, NeverNeither, Lib
<1>2. FilesInv => NeverNeither
  BY DEF FilesInv
<1> QED
  BY <1>1, <1>2, FilesStep, PTL DEF Spec

----------------------------------------------------------------------------
(* Types. *)

Row == [model : {"none", "original", "lookalike"}, missing : BOOLEAN, live : SUBSET File]
Scan == [step : {"idle", "walk", "load", "reconcile"},
         found : SUBSET File, skips : BOOLEAN, claimed : BOOLEAN]

\* The parts of TypeOK that belong together.
JobTypeOK ==
  /\ job \in {"idle", "checkScans", "checkFree", "carry", "rollback", "unexclude"}
  /\ toMove \subseteq File /\ moved \subseteq File /\ copying \subseteq File
  /\ outcome \in {"queued", "failed", "refused", "declined", "stranded", "moved"}
  /\ tries \in 0..MaxTries
RowTypeOK == at \in [Lib -> Row] /\ excluded \in BOOLEAN
ScanTypeOK == scan \in [Lib -> Scan] /\ deadRun \subseteq Lib
CountTypeOK == count \in [{"fault", "crash", "request"} -> Nat]

\* What both libraries have.
LEMMA Pair == ASSUME NEW S, NEW a \in S, NEW b \in S
              PROVE  [src |-> a, dst |-> b] \in [Lib -> S]
  BY DEF Lib

\* The types, part by part.
LEMMA TypeParts == TypeOK <=> DiskTypeOK /\ JobTypeOK /\ RowTypeOK /\ ScanTypeOK /\ CountTypeOK
  BY DEF TypeOK, DiskTypeOK, JobTypeOK, RowTypeOK, ScanTypeOK, CountTypeOK, Row, Scan

\* The same after a step.
LEMMA TypePartsNext ==
  ASSUME DiskTypeOK', JobTypeOK', RowTypeOK', ScanTypeOK', CountTypeOK' PROVE TypeOK'
  BY DEF TypeOK, DiskTypeOK, JobTypeOK, RowTypeOK, ScanTypeOK, CountTypeOK, Row, Scan

\* An event is counted, the others are not.
LEMMA Counted ==
  ASSUME CountTypeOK, NEW event \in {"fault", "crash", "request"}, Bump(event)
  PROVE  /\ CountTypeOK' /\ count'[event] = count[event] + 1
         /\ \A e \in {"fault", "crash", "request"} \ {event} : count'[e] = count[e]
  BY DEF CountTypeOK, Bump

\* A scan moves on in its own library only.
LEMMA ScanKeepsTypes ==
  ASSUME TypeOK, NEW lib \in Lib, ScanStep(lib)
  PROVE  RowTypeOK' /\ ScanTypeOK'
<1>0. /\ at[lib] \in Row /\ scan[lib] \in Scan /\ excluded \in BOOLEAN /\ deadRun \subseteq Lib
      /\ at \in [Lib -> Row] /\ scan \in [Lib -> Scan]
  BY TypeParts DEF RowTypeOK, ScanTypeOK
<1>1. CASE BeginScan(lib)
  <2>1. [scan[lib] EXCEPT !.step = "walk"] \in Scan
    BY <1>0 DEF Scan
  <2>2. scan' \in [Lib -> Scan]
    BY <1>0, <1>1, <2>1 DEF BeginScan
  <2> QED
    BY <1>0, <1>1, <2>2 DEF BeginScan, RowTypeOK, ScanTypeOK
<1>2. CASE WalkPath(lib)
  <2> DEFINE seen == {f \in File : disk[lib][f] # "none"}
  <2>1. seen \in SUBSET File
    OBVIOUS
  <2>2. scan' = [scan EXCEPT ![lib].step = "load", ![lib].found = seen]
    BY <1>2 DEF WalkPath
  <2> HIDE DEF seen
  <2>3. [scan[lib] EXCEPT !.step = "load", !.found = seen] \in Scan
    BY <1>0, <2>1 DEF Scan
  <2>4. scan' \in [Lib -> Scan]
    BY <1>0, <2>2, <2>3
  <2> QED
    BY <1>0, <1>2, <2>4 DEF WalkPath, RowTypeOK, ScanTypeOK
<1>3. CASE LoadExclusions(lib)
  <2> DEFINE skip == lib = "dst" /\ excluded
  <2>1. skip \in BOOLEAN
    OBVIOUS
  <2>2. scan' = [scan EXCEPT ![lib].step = "reconcile", ![lib].skips = skip]
    BY <1>3 DEF LoadExclusions
  <2> HIDE DEF skip
  <2>3. [scan[lib] EXCEPT !.step = "reconcile", !.skips = skip] \in Scan
    BY <1>0, <2>1 DEF Scan
  <2>4. scan' \in [Lib -> Scan]
    BY <1>0, <2>2, <2>3
  <2> QED
    BY <1>0, <1>3, <2>4 DEF LoadExclusions, RowTypeOK, ScanTypeOK
<1>4. CASE Reconcile(lib)
  <2> DEFINE s == scan[lib]
             here == s.found # {} /\ ~s.skips
             row == IF here THEN [model |-> IF at[lib] = NoRow THEN "lookalike" ELSE at[lib].model,
                                  missing |-> FALSE, live |-> s.found]
                    ELSE IF at[lib] = NoRow THEN at[lib]
                    ELSE [at[lib] EXCEPT !.live = {}, !.missing = at[lib].missing \/ ~s.claimed]
  <2>1. at' = [at EXCEPT ![lib] = row] /\ scan' = [scan EXCEPT ![lib] = NoScan]
    BY <1>4 DEF Reconcile
  <2>2. row \in Row
    <3>1. [model |-> IF at[lib] = NoRow THEN "lookalike" ELSE at[lib].model,
           missing |-> FALSE, live |-> s.found] \in Row
      BY <1>0 DEF Row, Scan
    <3>2. (at[lib].missing \/ ~s.claimed) \in BOOLEAN
      OBVIOUS
    <3>3. [at[lib] EXCEPT !.live = {}, !.missing = at[lib].missing \/ ~s.claimed] \in Row
      BY <1>0, <3>2 DEF Row
    <3> QED
      BY <1>0, <3>1, <3>3
  <2>3. NoScan \in Scan
    BY DEF NoScan, Scan
  <2> HIDE DEF row
  <2> QED
    <3>1. at' \in [Lib -> Row] /\ scan' \in [Lib -> Scan]
      BY <1>0, <2>1, <2>2, <2>3
    <3> QED
      BY <1>0, <1>4, <3>1 DEF Reconcile, RowTypeOK, ScanTypeOK
<1> QED
  BY <1>1, <1>2, <1>3, <1>4 DEF ScanStep

\* The row arrives with the files it had, and a scan in progress has seen it.
LEMMA UpdateRowKeepsTypes == ASSUME TypeOK, UpdateRow PROVE TypeOK'
<1>0. /\ at \in [Lib -> Row] /\ scan \in [Lib -> Scan] /\ excluded \in BOOLEAN
      /\ deadRun \subseteq Lib /\ JobTypeOK /\ DiskTypeOK /\ CountTypeOK
  BY TypeParts DEF RowTypeOK, ScanTypeOK
<1>1. JobTypeOK'
  BY <1>0 DEF UpdateRow, EndJob, JobTypeOK
<1>2. at' \in [Lib -> Row]
  <2>1. NoRow \in Row /\ [at["src"] EXCEPT !.missing = FALSE] \in Row
    BY <1>0 DEF NoRow, Row, Lib
  <2>2. CASE at' = at
    BY <1>0, <2>2
  <2>3. CASE at' = [src |-> NoRow, dst |-> [at["src"] EXCEPT !.missing = FALSE]]
    BY <2>1, <2>3, Pair
  <2> QED
    BY <2>2, <2>3 DEF UpdateRow
<1>3. scan' \in [Lib -> Scan]
  <2> DEFINE busy == scan["dst"].step # "idle"
  <2>1. busy \in BOOLEAN
    OBVIOUS
  <2>2. scan' = scan \/ scan' = [scan EXCEPT !["dst"].claimed = busy]
    BY DEF UpdateRow
  <2> HIDE DEF busy
  <2>3. [scan["dst"] EXCEPT !.claimed = busy] \in Scan
    BY <1>0, <2>1 DEF Scan, Lib
  <2> QED
    BY <1>0, <2>2, <2>3 DEF Lib
<1>4. DiskTypeOK' /\ CountTypeOK' /\ excluded' \in BOOLEAN /\ deadRun' \subseteq Lib
  BY <1>0 DEF UpdateRow, DiskTypeOK, CountTypeOK
<1> QED
  BY <1>1, <1>2, <1>3, <1>4, TypePartsNext DEF RowTypeOK, ScanTypeOK

\* A worker that dies takes its scans and its job with it.
LEMMA CrashKeepsTypes == ASSUME TypeOK, Crash PROVE TypeOK'
<1>0. /\ JobTypeOK /\ DiskTypeOK /\ CountTypeOK /\ RowTypeOK /\ ScanTypeOK
  BY TypeParts
<1>1. JobTypeOK'
  BY <1>0 DEF Crash, EndJob, jobVars, JobTypeOK
<1>2. CountTypeOK'
  BY <1>0, Counted DEF Crash
<1>3. ScanTypeOK'
  <2>1. NoScan \in Scan
    BY DEF NoScan, Scan
  <2> QED
    BY <1>0, <2>1 DEF Crash, ScanTypeOK
<1>4. DiskTypeOK' /\ RowTypeOK'
  BY <1>0 DEF Crash, DiskTypeOK, RowTypeOK
<1> QED
  BY <1>1, <1>2, <1>3, <1>4, TypePartsNext

\* What is at a path stays one of three things.
LEMMA DiskKeepsType == ASSUME TypeOK, [Next]_vars PROVE DiskTypeOK'
<1>0. DiskTypeOK
  BY TypeParts
<1>1. ASSUME NEW lib \in Lib, NEW f \in File, NEW state \in {"none", "partial", "whole"},
             Put(lib, f, state)
      PROVE  DiskTypeOK'
  BY <1>0, <1>1 DEF DiskTypeOK, Put
<1>2. ASSUME NEW from \in Lib, NEW to \in Lib, NEW f \in File,
             disk' = [disk EXCEPT ![from][f] = "none", ![to][f] = "whole"]
      PROVE  DiskTypeOK'
  BY <1>0, <1>2 DEF DiskTypeOK
<1>3. CASE UNCHANGED disk
  BY <1>0, <1>3 DEF DiskTypeOK
<1>4. ASSUME NEW f \in File,
             Rename(f) \/ BeginCopy(f) \/ EndCopy(f) \/ RemoveSource(f) \/ Return(f)
      PROVE  DiskTypeOK'
  BY <1>1, <1>2, <1>3, <1>4 DEF Rename, BeginCopy, EndCopy, RemoveSource,
             Return, PutBack, BeginCopyBack, EndCopyBack, RemoveArrived, Strand, Lib
<1>5. ASSUME NEW lib \in Lib, ScanStep(lib) PROVE UNCHANGED disk
  BY <1>5 DEF ScanStep, BeginScan, WalkPath, LoadExclusions, Reconcile
<1>6. Deliver \/ CheckScans \/ CheckFree \/ Decline \/ UpdateRow \/ DropExclusion
        \/ TransferFails \/ RequestAgain \/ Crash \/ UNCHANGED vars => UNCHANGED disk
  BY DEF Deliver, CheckScans, CheckFree, Decline, UpdateRow, DropExclusion,
         TransferFails, RequestAgain, Crash, vars
<1> QED
  BY <1>3, <1>4, <1>5, <1>6 DEF Next, JobStep

\* Every step keeps the types.
LEMMA TypeStep == TypeOK /\ [Next]_vars => TypeOK'
<1> SUFFICES ASSUME TypeOK, [Next]_vars PROVE TypeOK'
  OBVIOUS
<1>0. /\ JobTypeOK /\ CountTypeOK /\ RowTypeOK /\ ScanTypeOK /\ DiskTypeOK'
  BY TypeParts, DiskKeepsType
<1>1. CASE Deliver \/ CheckScans \/ CheckFree \/ Decline \/ DropExclusion
  <2>1. JobTypeOK'
    <3>1. \A r \in {"refused", "declined", "stranded", "moved"} :
            EndJob(r) /\ tries' \in 0..MaxTries => JobTypeOK'
      BY DEF EndJob, JobTypeOK
    <3>2. at["src"].live \subseteq File
      BY <1>0 DEF RowTypeOK, Row, Lib
    <3>3. CASE Deliver
      BY <1>0, <3>1, <3>3, MoveAssumption DEF Deliver, JobTypeOK
    <3>4. CASE CheckScans \/ CheckFree \/ Decline \/ DropExclusion
      BY <1>0, <3>1, <3>2, <3>4 DEF CheckScans, CheckFree, Decline, DropExclusion, JobTypeOK
    <3> QED
      BY <1>1, <3>3, <3>4
  <2>2. CountTypeOK' /\ RowTypeOK' /\ ScanTypeOK'
    BY <1>0, <1>1 DEF Deliver, CheckScans, CheckFree, Decline, DropExclusion, scanVars,
                      CountTypeOK, RowTypeOK, ScanTypeOK
  <2> QED
    BY <1>0, <2>1, <2>2, TypePartsNext
<1>2. ASSUME NEW f \in File,
             Rename(f) \/ BeginCopy(f) \/ EndCopy(f) \/ RemoveSource(f)
      PROVE  TypeOK'
  <2>1. JobTypeOK'
    BY <1>0, <1>2 DEF Rename, BeginCopy, EndCopy, RemoveSource, Carried, jobVars, JobTypeOK
  <2>2. CountTypeOK' /\ RowTypeOK' /\ ScanTypeOK'
    BY <1>0, <1>2 DEF Rename, BeginCopy, EndCopy, RemoveSource, scanVars,
                      CountTypeOK, RowTypeOK, ScanTypeOK
  <2> QED
    BY <1>0, <2>1, <2>2, TypePartsNext
<1>3. ASSUME NEW f \in File, Return(f) PROVE TypeOK'
  <2>1. JobTypeOK'
    BY <1>0, <1>3 DEF Return, PutBack, BeginCopyBack,
                      EndCopyBack, RemoveArrived, Strand, jobVars, JobTypeOK
  <2>2. CountTypeOK'
    <3>1. CASE UNCHANGED count
      BY <1>0, <3>1 DEF CountTypeOK
    <3>2. CASE Bump("fault")
      BY <1>0, <3>2, Counted
    <3> QED
      BY <1>3, <3>1, <3>2 DEF Return, PutBack, BeginCopyBack,
                      EndCopyBack, RemoveArrived, Strand
  <2>3. RowTypeOK' /\ ScanTypeOK'
    BY <1>0, <1>3 DEF Return, PutBack, BeginCopyBack,
                      EndCopyBack, RemoveArrived, Strand, scanVars, RowTypeOK, ScanTypeOK
  <2> QED
    BY <1>0, <2>1, <2>2, <2>3, TypePartsNext
<1>4. CASE TransferFails \/ RequestAgain
  <2>1. JobTypeOK'
    BY <1>0, <1>4, MoveAssumption DEF TransferFails, RequestAgain, JobTypeOK
  <2>2. CountTypeOK'
    BY <1>0, <1>4, Counted DEF TransferFails, RequestAgain
  <2>3. RowTypeOK' /\ ScanTypeOK'
    BY <1>0, <1>4 DEF TransferFails, RequestAgain, scanVars, RowTypeOK, ScanTypeOK
  <2> QED
    BY <1>0, <2>1, <2>2, <2>3, TypePartsNext
<1>5. ASSUME NEW lib \in Lib, ScanStep(lib) PROVE TypeOK'
  <2>1. JobTypeOK' /\ CountTypeOK'
    BY <1>0, <1>5 DEF ScanStep, BeginScan, WalkPath, LoadExclusions, Reconcile, jobVars,
                      JobTypeOK, CountTypeOK
  <2> QED
    BY <1>0, <1>5, <2>1, ScanKeepsTypes, TypePartsNext
<1>6. CASE UNCHANGED vars
  BY <1>0, <1>6, TypePartsNext DEF vars, jobVars, scanVars, JobTypeOK, CountTypeOK, RowTypeOK, ScanTypeOK
<1> QED
  BY <1>1, <1>2, <1>3, <1>4, <1>5, <1>6, UpdateRowKeepsTypes, CrashKeepsTypes DEF Next, JobStep

\* The types hold at first.
LEMMA InitTypes == Init => TypeOK
<1> SUFFICES ASSUME Init PROVE TypeOK
  OBVIOUS
<1>1. NoRow \in Row /\ [model |-> "original", missing |-> FALSE, live |-> File] \in Row
  BY DEF NoRow, Row
<1>2. RowTypeOK
  BY <1>1, Pair DEF Init, RowTypeOK
<1>3. NoScan \in Scan
  BY DEF NoScan, Scan
<1>4. ScanTypeOK
  BY <1>3 DEF Init, ScanTypeOK
<1>5. DiskTypeOK
  BY DEF Init, DiskTypeOK, Lib
<1>6. JobTypeOK /\ CountTypeOK
  BY MoveAssumption DEF Init, JobTypeOK, CountTypeOK
<1> QED
  BY <1>2, <1>4, <1>5, <1>6, TypeParts

\* Every variable of a move has its type.
THEOREM MoveIsTyped == Spec => []TypeOK
  BY InitTypes, TypeStep, PTL DEF Spec

----------------------------------------------------------------------------
(* The row moves last. *)

Arrived == \A f \in File : disk["dst"][f] = "whole"

\* Before the transfer begins nothing has left, and no scan has seen otherwise.
Untouched ==
  /\ job \in {"idle", "checkScans", "checkFree"}
  /\ \A f \in File : disk["src"][f] = "whole"
  /\ at["src"].live = File
  /\ ~scan["src"].skips
  /\ scan["src"].step = "reconcile" => scan["src"].found = File
  /\ scan["src"].step = "load" => scan["src"].found = File

\* While it lasts a file is yet to be moved or has arrived.
Carrying ==
  /\ job = "carry"
  /\ \A f \in File : f \in toMove \/ disk["dst"][f] = "whole"

\* An undisturbed move goes through these phases, and rolls nothing back.
MoveInv ==
  /\ TypeOK
  /\ Undisturbed =>
       /\ job # "rollback"
       /\ Arrived \/ (at["dst"].model # "original" /\ (Untouched \/ Carrying))

\* What is undisturbed after a step was so before it, and the step no fault and no crash.
LEMMA StaysUndisturbed ==
  ASSUME TypeOK, [Next]_vars, Undisturbed' PROVE Undisturbed /\ UNCHANGED <<count.fault, count.crash>>
<1>0. CountTypeOK
  BY TypeParts
<1>1. CASE Bump("request")
  BY <1>0, <1>1, Counted DEF Undisturbed
<1>2. CASE Bump("fault") \/ Bump("crash")
  BY <1>0, <1>2, Counted DEF Undisturbed, CountTypeOK
<1>3. CASE UNCHANGED count
  BY <1>3 DEF Undisturbed
<1>4. ASSUME NEW lib \in Lib, ScanStep(lib) PROVE UNCHANGED count
  BY <1>4 DEF ScanStep, BeginScan, WalkPath, LoadExclusions, Reconcile
<1>5. ASSUME NEW f \in File,
             Rename(f) \/ BeginCopy(f) \/ EndCopy(f) \/ RemoveSource(f) \/ Return(f)
      PROVE  UNCHANGED count \/ Bump("fault")
  BY <1>5 DEF Rename, BeginCopy, EndCopy, RemoveSource,
             Return, PutBack, BeginCopyBack, EndCopyBack, RemoveArrived, Strand
<1>6. CASE Deliver \/ CheckScans \/ CheckFree \/ Decline \/ UpdateRow \/ DropExclusion \/ UNCHANGED vars
  BY <1>3, <1>6 DEF Deliver, CheckScans, CheckFree, Decline, UpdateRow, DropExclusion, vars
<1>7. CASE TransferFails \/ RequestAgain \/ Crash
  BY <1>1, <1>2, <1>7 DEF TransferFails, RequestAgain, Crash
<1> QED
  BY <1>1, <1>2, <1>3, <1>4, <1>5, <1>6, <1>7 DEF Next, JobStep

\* What has arrived stays, unless it is rolled back.
LEMMA ArrivedStays ==
  ASSUME TypeOK, job # "rollback", Arrived, [Next]_vars PROVE Arrived'
<1>0. DiskTypeOK
  BY TypeParts
<1>1. CASE UNCHANGED disk
  BY <1>1 DEF Arrived
<1>2. ASSUME NEW f \in File,
             Rename(f) \/ BeginCopy(f) \/ EndCopy(f) \/ RemoveSource(f) \/ Return(f)
      PROVE  Arrived'
  <2>1. RemoveSource(f)
    BY <1>2 DEF Rename, BeginCopy, EndCopy, Return, PutBack, BeginCopyBack,
                      EndCopyBack, RemoveArrived, Strand, Arrived
  <2>2. disk' = [disk EXCEPT !["src"][f] = "none"]
    BY <2>1 DEF RemoveSource, Put
  <2>3. disk'["dst"] = disk["dst"]
    BY <1>0, <2>2 DEF DiskTypeOK, Lib
  <2> QED
    BY <2>3 DEF Arrived
<1>3. ASSUME NEW lib \in Lib, ScanStep(lib) PROVE UNCHANGED disk
  BY <1>3 DEF ScanStep, BeginScan, WalkPath, LoadExclusions, Reconcile
<1>4. Deliver \/ CheckScans \/ CheckFree \/ Decline \/ UpdateRow \/ DropExclusion
        \/ TransferFails \/ RequestAgain \/ Crash \/ UNCHANGED vars => UNCHANGED disk
  BY DEF Deliver, CheckScans, CheckFree, Decline, UpdateRow, DropExclusion,
         TransferFails, RequestAgain, Crash, vars
<1> QED
  BY <1>1, <1>2, <1>3, <1>4 DEF Next, JobStep

\* Scans before the transfer find every file, and leave the row as it is.
LEMMA ScanKeepsUntouched ==
  ASSUME TypeOK, Untouched, NEW lib \in Lib, ScanStep(lib) PROVE Untouched'
<1>0. /\ scan \in [Lib -> Scan] /\ at \in [Lib -> Row] /\ scan["src"] \in Scan
  BY TypeParts DEF ScanTypeOK, RowTypeOK, Lib
<1>1. job' = job /\ disk' = disk
  BY DEF ScanStep, BeginScan, WalkPath, LoadExclusions, Reconcile, jobVars
<1>2. CASE lib = "dst"
  <2>1. scan'["src"] = scan["src"] /\ at'["src"] = at["src"]
    BY <1>0, <1>2 DEF ScanStep, BeginScan, WalkPath, LoadExclusions, Reconcile, Lib
  <2> QED
    BY <1>1, <2>1 DEF Untouched
<1>3. CASE lib = "src"
  <2>1. CASE BeginScan("src")
    BY <1>0, <1>1, <2>1 DEF BeginScan, Untouched, Scan, Lib
  <2>2. CASE WalkPath("src")
    <3>1. {f \in File : disk["src"][f] # "none"} = File
      BY DEF Untouched
    <3> QED
      BY <1>0, <1>1, <2>2, <3>1 DEF WalkPath, Untouched, Scan, Lib
  <2>3. CASE LoadExclusions("src")
    <3> DEFINE skip == "src" = "dst" /\ excluded
    <3>1. ~skip
      OBVIOUS
    <3>2. scan' = [scan EXCEPT !["src"].step = "reconcile", !["src"].skips = skip]
      BY <2>3 DEF LoadExclusions
    <3> HIDE DEF skip
    <3>3. /\ ~scan'["src"].skips /\ scan'["src"].step = "reconcile"
          /\ scan'["src"].found = scan["src"].found
      BY <1>0, <3>1, <3>2 DEF Scan, Lib
    <3> QED
      BY <1>1, <2>3, <3>3 DEF LoadExclusions, Untouched
  <2>4. CASE Reconcile("src")
    <3>1. scan["src"].found = File /\ ~scan["src"].skips
      BY <2>4 DEF Reconcile, Untouched
    <3>2. scan'["src"] = NoScan
      BY <1>0, <2>4 DEF Reconcile, Lib
    <3>3. at' = [at EXCEPT !["src"] = [model |-> IF at["src"] = NoRow THEN "lookalike"
                                                ELSE at["src"].model,
                                       missing |-> FALSE, live |-> File]]
      BY <2>4, <3>1, MoveAssumption DEF Reconcile
    <3>4. at'["src"].live = File
      BY <1>0, <3>3 DEF Lib
    <3> QED
      BY <1>1, <3>2, <3>4 DEF Untouched, NoScan
  <2> QED
    BY <1>3, <2>1, <2>2, <2>3, <2>4 DEF ScanStep
<1> QED
  BY <1>2, <1>3 DEF Lib

\* A scan never makes the row at the destination the moved one.
LEMMA ScanKeepsModel ==
  ASSUME TypeOK, NEW lib \in Lib, ScanStep(lib), at["dst"].model # "original"
  PROVE  at'["dst"].model # "original"
<1>0. at \in [Lib -> Row] /\ at["dst"] \in Row
  BY TypeParts DEF RowTypeOK, Lib
<1>1. CASE UNCHANGED at
  BY <1>1
<1>2. CASE Reconcile(lib) /\ lib = "src"
  BY <1>0, <1>2 DEF Reconcile, Lib
<1>3. CASE Reconcile(lib) /\ lib = "dst"
  <2> DEFINE s == scan["dst"]
             gone == at["dst"].missing \/ ~s.claimed
             made == [model |-> IF at["dst"] = NoRow THEN "lookalike" ELSE at["dst"].model,
                      missing |-> FALSE, live |-> s.found]
             left == [at["dst"] EXCEPT !.live = {}, !.missing = gone]
  <2>1. at'["dst"] \in {made, at["dst"], left}
    BY <1>0, <1>3 DEF Reconcile, Lib
  <2>2. left.model = at["dst"].model
    BY <1>0 DEF Row
  <2> QED
    <3>1. made.model # "original"
      OBVIOUS
    <3> QED
      BY <2>1, <2>2, <3>1
<1> QED
  BY <1>1, <1>2, <1>3 DEF ScanStep, BeginScan, WalkPath, LoadExclusions, Lib

\* The steps that may carry an undisturbed move from one phase to the next.
LEMMA PhaseStep ==
  ASSUME MoveInv, [Next]_vars, Undisturbed, Undisturbed', ~Arrived
  PROVE  Arrived' \/ (at'["dst"].model # "original" /\ (Untouched' \/ Carrying'))
<1>0. /\ DiskTypeOK /\ CountTypeOK /\ toMove \subseteq File
      /\ at["dst"].model # "original" /\ (Untouched \/ Carrying)
      /\ job \notin {"rollback", "unexclude"}
  BY TypeParts DEF MoveInv, JobTypeOK, Untouched, Carrying
<1>1. ASSUME NEW lib \in Lib, ScanStep(lib)
      PROVE  at'["dst"].model # "original" /\ (Untouched' \/ Carrying')
  <2>1. UNCHANGED <<job, toMove, disk>>
    BY <1>1 DEF ScanStep, BeginScan, WalkPath, LoadExclusions, Reconcile, jobVars
  <2>2. Carrying => Carrying'
    BY <2>1 DEF Carrying
  <2> QED
    BY <1>0, <1>1, <2>2, ScanKeepsUntouched, ScanKeepsModel DEF MoveInv
<1>2. CASE UNCHANGED vars \/ RequestAgain
  BY <1>0, <1>2 DEF vars, jobVars, scanVars, RequestAgain, Untouched, Carrying
<1>3. CASE Deliver \/ CheckScans
  BY <1>0, <1>3 DEF Deliver, CheckScans, EndJob, scanVars, Untouched, Carrying
<1>4. CASE CheckFree
  BY <1>0, <1>4 DEF CheckFree, EndJob, scanVars, Untouched, Carrying
<1>5. CASE Decline \/ DropExclusion
  BY <1>0, <1>5 DEF Decline, DropExclusion
<1>6. ASSUME NEW f \in File, Rename(f) \/ BeginCopy(f) \/ EndCopy(f) \/ RemoveSource(f)
      PROVE  at'["dst"].model # "original" /\ Carrying'
  <2>1. Carrying /\ UNCHANGED <<at, job>>
    BY <1>0, <1>6 DEF Untouched, Rename, BeginCopy, EndCopy, RemoveSource, jobVars
  <2>2. ASSUME NEW g \in File, disk["dst"][g] = "whole" PROVE disk'["dst"][g] = "whole"
    BY <1>0, <1>6, <2>2 DEF DiskTypeOK, Rename, BeginCopy, EndCopy, RemoveSource, Put, Lib
  <2>3. toMove \ {f} \subseteq toMove'
    BY <1>6 DEF Rename, BeginCopy, EndCopy, RemoveSource, Carried, jobVars
  <2>4. f \in toMove' \/ disk'["dst"][f] = "whole"
    <3>1. CASE Rename(f)
      BY <1>0, <3>1 DEF DiskTypeOK, Rename, Lib
    <3>2. CASE BeginCopy(f)
      BY <3>2 DEF BeginCopy
    <3>3. CASE EndCopy(f)
      BY <1>0, <3>3, PutFile DEF EndCopy, Lib
    <3>4. CASE RemoveSource(f)
      BY <2>2, <3>4 DEF RemoveSource
    <3> QED
      BY <1>6, <3>1, <3>2, <3>3, <3>4
  <2> QED
    BY <1>0, <2>1, <2>2, <2>3, <2>4 DEF Carrying
<1>7. ASSUME NEW f \in File, Return(f) PROVE FALSE
  BY <1>0, <1>7 DEF Return, PutBack, BeginCopyBack,
                      EndCopyBack, RemoveArrived, Strand
<1>8. CASE UpdateRow
  \* Nothing is left to carry: everything has arrived.
  BY <1>0, <1>8 DEF UpdateRow, Untouched, Carrying, Arrived
<1>9. CASE TransferFails \/ Crash
  <2>1. Bump("fault") \/ Bump("crash")
    BY <1>9 DEF TransferFails, Crash
  <2> QED
    BY <1>0, <2>1, Counted DEF Undisturbed
<1> QED
  BY <1>1, <1>2, <1>3, <1>4, <1>5, <1>6, <1>7, <1>8, <1>9 DEF Next, JobStep

\* Every step of every actor keeps the invariant of the move.
LEMMA MoveStep == MoveInv /\ [Next]_vars => MoveInv'
<1> SUFFICES ASSUME MoveInv, [Next]_vars PROVE MoveInv'
  OBVIOUS
<1>1. TypeOK'
  BY TypeStep DEF MoveInv
<1> SUFFICES ASSUME Undisturbed'
             PROVE  /\ job' # "rollback"
                    /\ Arrived' \/ (at'["dst"].model # "original" /\ (Untouched' \/ Carrying'))
  BY <1>1 DEF MoveInv
<1>2. Undisturbed /\ count.fault' = count.fault
  BY StaysUndisturbed DEF MoveInv
<1>3. job' # "rollback"
  <2>1. ~TransferFails
    BY <1>2, TypeParts, Counted DEF MoveInv, TransferFails, CountTypeOK
  <2>2. ASSUME NEW lib \in Lib, ScanStep(lib) PROVE job' = job
    BY <2>2 DEF ScanStep, BeginScan, WalkPath, LoadExclusions, Reconcile, jobVars
  <2>3. ASSUME NEW f \in File,
               Rename(f) \/ BeginCopy(f) \/ EndCopy(f) \/ RemoveSource(f) \/ Return(f)
        PROVE  job' = job
    BY <2>3 DEF Rename, BeginCopy, EndCopy, RemoveSource,
             Return, PutBack, BeginCopyBack, EndCopyBack, RemoveArrived, Strand, jobVars
  <2>4. Deliver \/ CheckScans \/ CheckFree \/ Decline \/ UpdateRow \/ DropExclusion
          \/ RequestAgain \/ Crash \/ UNCHANGED vars => job' = job \/ job' # "rollback"
    BY DEF Deliver, CheckScans, CheckFree, Decline, UpdateRow, DropExclusion, RequestAgain,
           Crash, EndJob, jobVars, vars
  <2> QED
    BY <1>2, <2>1, <2>2, <2>3, <2>4 DEF MoveInv, Next, JobStep
<1>4. CASE Arrived
  <2>1. TypeOK /\ job # "rollback"
    BY <1>2 DEF MoveInv
  <2>2. [Next]_vars
    OBVIOUS
  <2>3. Arrived'
    BY <1>4, <2>1, <2>2, ArrivedStays
  <2> QED
    BY <1>3, <2>3
<1>5. CASE ~Arrived
  BY <1>2, <1>3, <1>5, PhaseStep
<1> QED
  BY <1>4, <1>5, <1>3

\* For any files and whichever scans run beside it, the row of an undisturbed move
\* points at the destination only when every file is whole there.
THEOREM TheRowMovesLast == Spec => []RowMovesLast
<1>1. Init => MoveInv
  BY InitTypes DEF Init, MoveInv, Untouched, NoRow, NoScan, Lib
<1>2. MoveInv => RowMovesLast
  BY DEF MoveInv, RowMovesLast, Arrived
<1> QED
  BY <1>1, <1>2, MoveStep, PTL DEF Spec

\* Both at once, for any files, faults, crashes and scans.
THEOREM TheRowHasItsFiles == Spec => []RowHasItsFiles
BY FilesAreNeverLost, TheRowMovesLast, PTL DEF RowHasItsFiles

----------------------------------------------------------------------------
(* What has arrived is not hidden. *)

\* Before anything is carried nothing has been; what has been carried is there,
\* and there is something to carry.
CarriedIsThere ==
  /\ job \in {"idle", "checkScans", "checkFree"} => moved = {}
  /\ job = "carry" =>
       moved \cup toMove # {} /\ \A f \in moved : disk["dst"][f] = "whole"

\* Once the row has moved the job is over but for the exclusion, the folder is not
\* empty, and a scan that did not see it is one the row was claimed from.
ArrivedIsSeen ==
  at["dst"].model = "original" =>
    /\ at["src"].model # "original"
    /\ job \in {"idle", "unexclude"}
    /\ ~Empty("dst")
    /\ scan["dst"].step \in {"load", "reconcile"} =>
         scan["dst"].claimed \/ scan["dst"].found # {}

SeenInv == TypeOK /\ CarriedIsThere /\ ArrivedIsSeen

\* A file that is carried joins those that are there.
LEMMA CarryingStep == SeenInv /\ [Next]_vars => CarriedIsThere'
<1> SUFFICES ASSUME SeenInv, [Next]_vars PROVE CarriedIsThere'
  OBVIOUS
<1>0. DiskTypeOK /\ JobTypeOK /\ RowTypeOK /\ CarriedIsThere
  BY TypeParts DEF SeenInv
<1>1. ASSUME NEW r, EndJob(r) PROVE CarriedIsThere'
  BY <1>1 DEF EndJob, CarriedIsThere
<1>2. CASE UNCHANGED <<disk, job, moved, toMove>>
  BY <1>0, <1>2 DEF CarriedIsThere
<1>3. CASE Deliver \/ CheckScans \/ Decline \/ DropExclusion \/ RequestAgain \/ UNCHANGED vars
  <2>1. job' = "checkScans" /\ UNCHANGED moved /\ job = "idle" => CarriedIsThere'
    BY <1>0 DEF CarriedIsThere
  <2>2. job' = "checkFree" /\ UNCHANGED moved /\ job = "checkScans" => CarriedIsThere'
    BY <1>0 DEF CarriedIsThere
  <2> QED
    BY <1>1, <1>2, <1>3, <2>1, <2>2
    DEF Deliver, CheckScans, Decline, DropExclusion, RequestAgain, vars, jobVars
<1>4. CASE CheckFree
  <2>1. CASE job' = "carry" /\ toMove' = at["src"].live /\ at["src"].live # {} /\ UNCHANGED moved
    BY <1>0, <1>4, <2>1 DEF CheckFree, CarriedIsThere
  <2> QED
    BY <1>1, <1>4, <2>1 DEF CheckFree
<1>5. ASSUME NEW f \in File, Rename(f) PROVE CarriedIsThere'
  <2>1. disk'["dst"][f] = "whole" /\ \A g \in File \ {f} : disk'["dst"][g] = disk["dst"][g]
    BY <1>0, <1>5 DEF Rename, DiskTypeOK, Lib
  <2> QED
    BY <1>0, <1>5, <2>1 DEF Rename, Carried, CarriedIsThere, JobTypeOK
<1>6. ASSUME NEW f \in File, BeginCopy(f) PROVE CarriedIsThere'
  <2>1. f \notin moved
    BY <1>0, <1>6 DEF BeginCopy, CarriedIsThere
  <2>2. \A g \in File \ {f} : disk'["dst"][g] = disk["dst"][g]
    BY <1>0, <1>6 DEF BeginCopy, Put, DiskTypeOK, Lib
  <2> QED
    BY <1>0, <1>6, <2>1, <2>2 DEF BeginCopy, CarriedIsThere, JobTypeOK
<1>7. ASSUME NEW f \in File, EndCopy(f) PROVE CarriedIsThere'
  <2>1. disk'["dst"][f] = "whole" /\ \A g \in File \ {f} : disk'["dst"][g] = disk["dst"][g]
    BY <1>0, <1>7 DEF EndCopy, Put, DiskTypeOK, Lib
  <2> QED
    BY <1>0, <1>7, <2>1 DEF EndCopy, CarriedIsThere, JobTypeOK, jobVars
<1>8. ASSUME NEW f \in File, RemoveSource(f) PROVE CarriedIsThere'
  <2>1. disk'["dst"] = disk["dst"]
    BY <1>0, <1>8 DEF RemoveSource, Put, DiskTypeOK, Lib
  <2> QED
    BY <1>0, <1>8, <2>1 DEF RemoveSource, Carried, CarriedIsThere, JobTypeOK
<1>9. CASE TransferFails \/ \E f \in File : Return(f)
  BY <1>9 DEF TransferFails, Return, PutBack, BeginCopyBack,
                      EndCopyBack, RemoveArrived, Strand, jobVars, CarriedIsThere
<1>10. CASE UpdateRow
  <2>1. job' = "unexclude" => CarriedIsThere'
    BY DEF CarriedIsThere
  <2> QED
    BY <1>1, <1>10, <2>1 DEF UpdateRow
<1>11. ASSUME NEW lib \in Lib, ScanStep(lib) PROVE UNCHANGED <<disk, job, moved, toMove>>
  BY <1>11 DEF ScanStep, BeginScan, WalkPath, LoadExclusions, Reconcile, jobVars
<1>12. CASE Crash
  BY <1>1, <1>2, <1>12 DEF Crash, jobVars
<1> QED
  BY <1>2, <1>3, <1>4, <1>5, <1>6, <1>7, <1>8, <1>9, <1>10, <1>11, <1>12 DEF Next, JobStep

\* A scan of the destination finds what has arrived, or has been told of it.
LEMMA ScanSees ==
  ASSUME SeenInv, NEW lib \in Lib, ScanStep(lib) PROVE ArrivedIsSeen'
<1>0. /\ at \in [Lib -> Row] /\ scan \in [Lib -> Scan] /\ ArrivedIsSeen
  BY TypeParts DEF SeenInv, RowTypeOK, ScanTypeOK
<1>1. UNCHANGED <<disk, job>>
  BY DEF ScanStep, BeginScan, WalkPath, LoadExclusions, Reconcile, jobVars
<1>2. at'["dst"].model = "original" => at["dst"].model = "original"
  <2>1. CASE UNCHANGED at
    BY <2>1
  <2>2. CASE Reconcile(lib)
    BY <1>0, <2>2 DEF Reconcile, NoRow, Row, Lib
  <2> QED
    BY <2>1, <2>2 DEF ScanStep, BeginScan, WalkPath, LoadExclusions
<1>3. at["src"].model # "original" => at'["src"].model # "original"
  <2>1. CASE UNCHANGED at
    BY <2>1
  <2>2. CASE Reconcile(lib)
    BY <1>0, <2>2 DEF Reconcile, NoRow, Row, Lib
  <2> QED
    BY <2>1, <2>2 DEF ScanStep, BeginScan, WalkPath, LoadExclusions
<1>4. ASSUME ~Empty("dst"),
             scan["dst"].step \in {"load", "reconcile"} =>
               scan["dst"].claimed \/ scan["dst"].found # {}
      PROVE  scan'["dst"].step \in {"load", "reconcile"} =>
               scan'["dst"].claimed \/ scan'["dst"].found # {}
  <2>1. CASE lib = "src"
    <3>1. scan'["dst"] = scan["dst"]
      BY <1>0, <2>1 DEF ScanStep, BeginScan, WalkPath, LoadExclusions, Reconcile, Lib
    <3> QED
      BY <1>4, <3>1
  <2>2. CASE lib = "dst"
    <3>1. CASE BeginScan("dst")
      BY <1>0, <3>1 DEF BeginScan, Scan, Lib
    <3>2. CASE WalkPath("dst")
      <4> DEFINE seen == {f \in File : disk["dst"][f] # "none"}
      <4>1. seen # {}
        BY <1>4 DEF Empty
      <4>2. scan' = [scan EXCEPT !["dst"].step = "load", !["dst"].found = seen]
        BY <3>2 DEF WalkPath
      <4> HIDE DEF seen
      <4>3. scan'["dst"].found = seen
        BY <1>0, <4>2 DEF Scan, Lib
      <4> QED
        BY <4>1, <4>3
    <3>3. CASE LoadExclusions("dst")
      <4> DEFINE skip == "dst" = "dst" /\ excluded
      <4>1. scan' = [scan EXCEPT !["dst"].step = "reconcile", !["dst"].skips = skip]
        BY <3>3 DEF LoadExclusions
      <4> HIDE DEF skip
      <4>2. scan'["dst"].claimed = scan["dst"].claimed /\ scan'["dst"].found = scan["dst"].found
        BY <1>0, <4>1 DEF Scan, Lib
      <4>3. scan["dst"].step = "load"
        BY <3>3 DEF LoadExclusions
      <4> QED
        BY <1>4, <4>2, <4>3
    <3>4. CASE Reconcile("dst")
      BY <1>0, <3>4 DEF Reconcile, NoScan, Lib
    <3> QED
      BY <2>2, <3>1, <3>2, <3>3, <3>4 DEF ScanStep
  <2> QED
    BY <2>1, <2>2 DEF Lib
<1> QED
  BY <1>0, <1>1, <1>2, <1>3, <1>4 DEF ArrivedIsSeen, Empty

\* The row moves to a folder that holds what was carried.
LEMMA SeenStep == SeenInv /\ [Next]_vars => SeenInv'
<1> SUFFICES ASSUME SeenInv, [Next]_vars PROVE SeenInv'
  OBVIOUS
<1>0. /\ DiskTypeOK /\ JobTypeOK /\ at \in [Lib -> Row] /\ scan \in [Lib -> Scan]
      /\ CarriedIsThere /\ ArrivedIsSeen
  BY TypeParts DEF SeenInv, RowTypeOK, ScanTypeOK
<1>1. TypeOK' /\ CarriedIsThere'
  BY TypeStep, CarryingStep DEF SeenInv
<1> SUFFICES ArrivedIsSeen'
  BY <1>1 DEF SeenInv
<1>2. ASSUME UNCHANGED <<at, disk, scan>>, job' \in {"idle", "unexclude"} \/ job' = job
      PROVE  ArrivedIsSeen'
  <2>1. Empty("dst")' <=> Empty("dst")
    BY <1>2 DEF Empty
  <2> QED
    BY <1>0, <1>2, <2>1 DEF ArrivedIsSeen
<1>3. CASE Deliver \/ CheckScans \/ CheckFree \/ Decline \/ DropExclusion \/ RequestAgain
           \/ TransferFails \/ UNCHANGED vars
  <2>1. UNCHANGED <<at, disk, scan>>
    BY <1>3 DEF Deliver, CheckScans, CheckFree, Decline, DropExclusion, RequestAgain,
                TransferFails, vars, scanVars
  <2>2. ASSUME job \notin {"idle", "unexclude"} \/ Original PROVE ArrivedIsSeen'
    BY <1>0, <2>1, <2>2 DEF ArrivedIsSeen, Original
  <2>3. Deliver => Original \/ job' = "idle"
    BY DEF Deliver, EndJob
  <2>4. CheckScans \/ CheckFree \/ Decline \/ TransferFails => job \notin {"idle", "unexclude"}
    BY DEF CheckScans, CheckFree, Decline, TransferFails
  <2>5. DropExclusion \/ UNCHANGED vars => job' = "idle" \/ job' = job
    BY DEF DropExclusion, EndJob, vars, jobVars
  <2>6. RequestAgain => Original
    BY DEF RequestAgain
  <2> QED
    BY <1>2, <1>3, <2>1, <2>2, <2>3, <2>4, <2>5, <2>6
<1>4. ASSUME NEW f \in File,
             Rename(f) \/ BeginCopy(f) \/ EndCopy(f) \/ RemoveSource(f) \/ Return(f)
      PROVE  ArrivedIsSeen'
  <2>1. job \in {"carry", "rollback"} /\ at' = at
    BY <1>4 DEF Rename, BeginCopy, EndCopy, RemoveSource,
             Return, PutBack, BeginCopyBack, EndCopyBack, RemoveArrived, Strand
  <2> QED
    BY <1>0, <2>1 DEF ArrivedIsSeen
<1>5. CASE UpdateRow
  <2>0. job = "carry" /\ toMove = {} /\ disk' = disk
    BY <1>5 DEF UpdateRow
  <2>1. ~Empty("dst")
    BY <1>0, <2>0 DEF CarriedIsThere, Empty, JobTypeOK
  <2>2. CASE at["dst"] = NoRow
    <3> DEFINE busy == scan["dst"].step # "idle"
    <3>1. /\ at'["src"] = NoRow /\ scan' = [scan EXCEPT !["dst"].claimed = busy]
          /\ job' = "unexclude"
      BY <1>5, <2>2 DEF UpdateRow
    <3>2. scan'["dst"].step = scan["dst"].step /\ scan'["dst"].claimed = busy
      <4> HIDE DEF busy
      <4> QED
        BY <1>0, <3>1 DEF Scan, Lib
    <3>3. scan'["dst"].step \in {"load", "reconcile"} => scan'["dst"].claimed
      BY <3>2
    <3>4. ~Empty("dst")'
      BY <2>0, <2>1 DEF Empty
    <3>5. at'["src"].model # "original"
      BY <3>1 DEF NoRow
    <3> QED
      BY <3>1, <3>3, <3>4, <3>5 DEF ArrivedIsSeen
  <2>3. CASE at["dst"] # NoRow
    <3>1. at' = at
      BY <1>5, <2>3 DEF UpdateRow
    <3>2. at["dst"].model # "original"
      BY <1>0, <2>0 DEF ArrivedIsSeen
    <3> QED
      BY <3>1, <3>2 DEF ArrivedIsSeen
  <2> QED
    BY <2>2, <2>3
<1>6. CASE \E lib \in Lib : ScanStep(lib)
  BY <1>6, ScanSees
<1>7. CASE Crash
  <2>1. scan'["dst"].step = "idle" /\ UNCHANGED <<at, disk>> /\ (job' = "idle" \/ job' = job)
    BY <1>7 DEF Crash, EndJob, NoScan, jobVars, Lib
  <2>2. Empty("dst")' <=> Empty("dst")
    BY <2>1 DEF Empty
  <2> QED
    BY <1>0, <2>1, <2>2 DEF ArrivedIsSeen
<1> QED
  BY <1>3, <1>4, <1>5, <1>6, <1>7 DEF Next, JobStep

\* A moved row goes missing only in a scan that skips its folder, for any files,
\* faults and crashes: not in one that walked before the files were there.
THEOREM TheArrivedIsNotHidden == Spec => ArrivedIsNotHidden
<1>1. Init => SeenInv
  BY InitTypes DEF Init, SeenInv, CarriedIsThere, ArrivedIsSeen, NoRow
<1>2. ASSUME SeenInv, [Next]_vars,
             at["dst"].model = "original", ~at["dst"].missing, at'["dst"].missing
      PROVE  scan["dst"].skips
  <2>0. at \in [Lib -> Row] /\ scan \in [Lib -> Scan] /\ ArrivedIsSeen
    BY <1>2, TypeParts DEF SeenInv, RowTypeOK, ScanTypeOK
  <2>1. job # "carry"
    BY <1>2, <2>0 DEF ArrivedIsSeen
  <2>2. at' # at
    BY <1>2
  <2>3. PICK lib \in Lib : Reconcile(lib)
    <3>1. Deliver \/ CheckScans \/ CheckFree \/ Decline \/ DropExclusion \/ RequestAgain
            \/ TransferFails \/ Crash \/ UNCHANGED vars => UNCHANGED at
      BY DEF Deliver, CheckScans, CheckFree, Decline, DropExclusion, RequestAgain, TransferFails,
             Crash, vars
    <3>2. \A f \in File : Rename(f) \/ BeginCopy(f) \/ EndCopy(f) \/ RemoveSource(f) \/ Return(f)
            => UNCHANGED at
      BY DEF Rename, BeginCopy, EndCopy, RemoveSource,
             Return, PutBack, BeginCopyBack, EndCopyBack, RemoveArrived, Strand
    <3>3. ~UpdateRow
      BY <2>1 DEF UpdateRow
    <3>4. \A lib \in Lib : BeginScan(lib) \/ WalkPath(lib) \/ LoadExclusions(lib) => UNCHANGED at
      BY DEF BeginScan, WalkPath, LoadExclusions
    <3> QED
      BY <1>2, <2>2, <3>1, <3>2, <3>3, <3>4 DEF Next, JobStep, ScanStep
  <2>4. lib = "dst"
    BY <1>2, <2>0, <2>3 DEF Reconcile, Lib
  <2>5. scan["dst"].step = "reconcile"
    BY <2>3, <2>4 DEF Reconcile
  <2>6. scan["dst"].claimed \/ scan["dst"].found # {}
    BY <1>2, <2>0, <2>5 DEF ArrivedIsSeen
  <2>7. ASSUME ~scan["dst"].skips PROVE FALSE
    <3>1. CASE scan["dst"].found # {}
      BY <1>2, <2>0, <2>3, <2>4, <2>7, <3>1 DEF Reconcile, Lib
    <3>2. CASE scan["dst"].found = {} /\ scan["dst"].claimed
      BY <1>2, <2>0, <2>3, <2>4, <2>7, <3>2 DEF Reconcile, Row, Lib
    <3> QED
      BY <2>6, <3>1, <3>2
  <2> QED
    BY <2>7
<1>3. SeenInv /\ [Next]_vars
      => [(at["dst"].model = "original" /\ ~at["dst"].missing /\ at'["dst"].missing) =>
             scan["dst"].skips]_vars
  BY <1>2
<1> QED
  BY <1>1, <1>3, SeenStep, PTL DEF Spec, ArrivedIsNotHidden
=============================================================================
