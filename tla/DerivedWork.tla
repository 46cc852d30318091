----------------------------- MODULE DerivedWork -----------------------------
(***************************************************************************)
(* What is derived from the files of one model: analysis, thumbnail and    *)
(* digest (worker/src/jobs/analyze.ts), handed out by scans (core/src/     *)
(* scan/scan-service.ts) and by a sweep (jobs/maintenance.ts) while the    *)
(* files change.  A digest may tell that a new row is an old one under     *)
(* another name; the two are folded into one.                              *)
(*                                                                         *)
(* Each kind of work is a queue of its own, of which the worker handles    *)
(* one job at a time.  No job here outlives the two hours it is given.     *)
(* A scan's walk and its updates are one step, which LibraryScan takes     *)
(* apart, and a handler reads its row and its file in one.                 *)
(***************************************************************************)
EXTENDS Integers, FiniteSets

CONSTANTS
  Path,        \* filenames in the model
  Content,     \* what a file may hold, all of one size
  Original, First,             \* the name and the content of the file there is at first
  Kind,        \* kinds of work that are done: "digest", and perhaps "analysis" and "thumb"
  Row,         \* rows that can come to be, as numbers, used in order
  None, Pending, Failed,
  MaxTrouble, MaxScan   \* bounds on the owner's acts, failed reads and crashes, all
                        \* told, and on scans

ASSUME DerivedAssumption ==
  /\ 1 \in Row /\ Row \subseteq Nat \ {0} /\ None \notin Path \cup Content
  /\ Original \in Path /\ First \in Content
  /\ {Pending, Failed} \cap Content = {} /\ Content \cap (Row \X Nat) = {}
  /\ "digest" \in Kind /\ Kind \subseteq {"analysis", "thumb", "digest"}
  /\ MaxTrouble \in Nat /\ MaxScan \in Nat

Shown == Kind \ {"digest"}
Stamp == 0..MaxTrouble
Keys == Content \cup Row \X Stamp

VARIABLES
  disk,        \* [Path -> what the file holds and when it was written, or NoFile]
  rows,        \* model_files; a thumbnail is what it shows
  store,       \* [Keys -> what the preview kept under that key shows, or None]
  jobs,        \* jobs that wait, a kind and a row each
  work,        \* [Kind -> the handler at work]
  handing,     \* a scan has yet to hand out work
  overtaken,   \* what a row was given by a handler that had read what was no longer
               \* so, and what it was given on the strength of that: a row and a kind
  spoiled,     \* keys of previews rendered so
  troubles, scans   \* how many there were

vars == <<disk, rows, store, jobs, work, handing, overtaken, spoiled, troubles, scans>>

NoFile == [content |-> None, stamp |-> 0]
Fresh(p) == [path |-> p, stamp |-> disk[p].stamp, digest |-> None, gone |-> FALSE,
             analysis |-> Pending, thumb |-> Pending]
NoRow == [path |-> None, stamp |-> 0, digest |-> None, gone |-> FALSE,
          analysis |-> Pending, thumb |-> Pending]
Folded == [NoRow EXCEPT !.gone = TRUE]
Free == [step |-> "free", row |-> 0, stamp |-> 0, got |-> None, late |-> FALSE, new |-> FALSE,
         old |-> 0]

OnDisk == {p \in Path : disk[p] # NoFile}
Exists(r) == rows[r].path # None
Live(r) == Exists(r) /\ ~rows[r].gone
Unborn == {r \in Row : rows[r] = NoRow}
At(k, step) == work[k].step = step
Finish(k) == work' = [work EXCEPT ![k] = Free]

Trouble == troubles < MaxTrouble /\ troubles' = troubles + 1 /\ UNCHANGED scans

----------------------------------------------------------------------------
(* The owner of the files.  A rename keeps the time of writing, and may put *)
(* one file in the place of another.                                        *)

Save(p, c) == disk' = [disk EXCEPT ![p] = [content |-> c, stamp |-> troubles + 1]]
Rename(p, q) == disk' = [disk EXCEPT ![q] = disk[p], ![p] = NoFile]
Delete(p) == disk' = [disk EXCEPT ![p] = NoFile]

Change ==
  /\ Trouble
  /\ \E p \in OnDisk :
       \/ \E c \in Content \ {disk[p].content} : Save(p, c)
       \/ Delete(p)
       \/ \E q \in Path \ OnDisk : Save(q, disk[p].content)
       \/ \E q \in Path \ {p} : Rename(p, q)
  /\ UNCHANGED <<rows, store, jobs, work, handing, overtaken, spoiled>>

----------------------------------------------------------------------------
(* scanLibrary, as far as it concerns the rows of one model. *)

Changed(r) == rows[r].stamp # disk[rows[r].path].stamp

\* Mutant: a changed file keeps its thumbnail.
RefreshedPartly(r) ==
  [rows[r] EXCEPT !.gone = FALSE, !.stamp = disk[rows[r].path].stamp,
                  !.digest = IF Changed(r) THEN None ELSE @,
                  !.analysis = IF Changed(r) THEN Pending ELSE @]

\* What a row holds of a file that has changed is forgotten.
Refreshed(r) == IF Changed(r) THEN Fresh(rows[r].path) ELSE [rows[r] EXCEPT !.gone = FALSE]

\* upsertModelRows and markMissing
Scan ==
  /\ ~handing /\ handing' = TRUE
  /\ scans < MaxScan /\ scans' = scans + 1
  /\ LET known == {r \in Row : rows[r].path \in OnDisk}
         new == OnDisk \ {rows[r].path : r \in known}
     IN \E born \in [new -> Unborn] :
          /\ \A p, q \in new : p # q => born[p] # born[q]
          /\ \A p \in new, r \in Unborn : r < born[p] => \E q \in new : born[q] = r
          /\ rows' = [r \in Row |->
               IF r \in known THEN Refreshed(r)
               ELSE IF Exists(r) THEN [rows[r] EXCEPT !.gone = TRUE]
               ELSE IF \E p \in new : born[p] = r THEN Fresh(CHOOSE p \in new : born[p] = r)
               ELSE rows[r]]
          /\ overtaken' = overtaken \ ({r \in known : Changed(r)} \X Kind)
  /\ UNCHANGED <<disk, store, jobs, work, spoiled, troubles>>

Lacks(r, k) == Live(r) /\ rows[r][k] = IF k = "digest" THEN None ELSE Pending

HandOff ==
  /\ handing /\ handing' = FALSE
  /\ jobs' = jobs \cup (Kind \X {r \in Row : \E k \in Kind : Lacks(r, k)})
  /\ UNCHANGED <<disk, rows, store, work, overtaken, spoiled, troubles, scans>>

\* Mutant: a file that has its digest is taken for done.
ReconcileUndigested ==
  /\ \E r \in Row, k \in Shown : Lacks(r, k) /\ Lacks(r, "digest")
  /\ jobs' = jobs \cup {j \in Shown \X Row : Lacks(j[2], j[1]) /\ Lacks(j[2], "digest")}
  /\ UNCHANGED <<disk, rows, store, work, handing, overtaken, spoiled, troubles, scans>>

\* handleMaintReconcile
Reconcile ==
  /\ \E r \in Row, k \in Shown : Lacks(r, k)
  /\ jobs' = jobs \cup {j \in Shown \X Row : Lacks(j[2], j[1])}
  /\ UNCHANGED <<disk, rows, store, work, handing, overtaken, spoiled, troubles, scans>>

----------------------------------------------------------------------------
(* handleFileAnalyze, handleFileThumbnail, handleFileDigest *)

Job(k, r) == At(k, "free") /\ <<k, r>> \in jobs /\ jobs' = jobs \ {<<k, r>>}

\* A job for a row that has gone, or is missing, does nothing.
Skip(k, r) ==
  /\ Job(k, r) /\ ~Live(r)
  /\ UNCHANGED <<disk, rows, store, work, handing, overtaken, spoiled, troubles, scans>>

\* previewKey: a preview is kept under the digest of what it shows, or under the
\* row and its time as long as there is none.
Key(r) == IF rows[r].digest = None THEN <<r, rows[r].stamp>> ELSE rows[r].digest

\* A thumbnail is rendered unless one is kept under the row's key.
Kept(k, r) == k = "thumb" /\ store[Key(r)] # None

\* loadFile, and the file as it is by now; a rendering is kept at once.
Read(k, r) ==
  /\ Job(k, r) /\ Live(r)
  /\ Kept(k, r) \/ rows[r].path \in OnDisk
  /\ LET c == disk[rows[r].path].content
         misled == <<r, "digest">> \in overtaken
         rendered == IF k = "thumb" /\ ~Kept(k, r) THEN {Key(r)} ELSE {}
     IN /\ work' = [work EXCEPT ![k] =
              [step |-> "write", row |-> r, stamp |-> rows[r].stamp, old |-> 0,
               new |-> rows[r].digest = None,
               got |-> IF Kept(k, r) THEN store[Key(r)] ELSE c,
               late |-> IF Kept(k, r) THEN misled \/ Key(r) \in spoiled ELSE Changed(r)]]
        /\ store' = [key \in Keys |-> IF key \in rendered THEN c ELSE store[key]]
        /\ spoiled' = IF misled \/ Changed(r) THEN spoiled \cup rendered ELSE spoiled
  /\ UNCHANGED <<disk, rows, handing, overtaken, troubles, scans>>

Update(k, r, value) ==
  rows' = IF Exists(r) THEN [rows EXCEPT ![r][k] = value] ELSE rows

\* recordFailure; a digest that fails is given up.
Fail(k, r) ==
  /\ Job(k, r) /\ Live(r) /\ ~Kept(k, r)
  /\ IF rows[r].path \in OnDisk THEN Trouble
     ELSE UNCHANGED <<troubles, scans>>
  /\ IF k = "digest" THEN UNCHANGED rows ELSE Update(k, r, Failed)
  /\ UNCHANGED <<disk, store, work, handing, overtaken, spoiled>>

Write(k) ==
  /\ At(k, "write")
  /\ LET w == work[k]
     IN /\ Update(k, w.row, w.got)
        /\ overtaken' = IF ~w.late /\ Exists(w.row) /\ rows[w.row].stamp = w.stamp
                        THEN overtaken \ {<<w.row, k>>} ELSE overtaken \cup {<<w.row, k>>}
        /\ IF k = "digest" /\ w.new
           THEN work' = [work EXCEPT ![k].step = "match"] ELSE Finish(k)
  /\ UNCHANGED <<disk, store, jobs, handing, spoiled, troubles, scans>>

----------------------------------------------------------------------------
(* resolveRename *)

\* Mutant: a row need not be missing to be taken for the old one.
RenamedOrCopied(d) == {r \in Row : Exists(r) /\ rows[r].digest = d}

Renamed(d) == {r \in Row : Exists(r) /\ rows[r].gone /\ rows[r].digest = d}

\* Of several rows none is taken.
Match(k) ==
  /\ At(k, "match")
  /\ LET candidates == Renamed(work[k].got)
     IN \/ (~\E old \in Row : candidates = {old}) /\ Finish(k)
        \/ \E old \in Row : /\ candidates = {old}
                            /\ work' = [work EXCEPT ![k].step = "fold", ![k].old = old]
  /\ UNCHANGED <<disk, rows, store, jobs, handing, overtaken, spoiled, troubles, scans>>

\* The transaction: the older takes the name, and what was loaded, of the newer,
\* which is deleted, whatever the two have become.
Fold(k) ==
  /\ At(k, "fold")
  /\ LET w == work[k]
     IN /\ rows' = [r \in Row |->
                IF r = w.row THEN Folded
                ELSE IF r = w.old
                THEN [rows[r] EXCEPT !.path = rows[w.row].path, !.stamp = w.stamp, !.gone = FALSE]
                ELSE rows[r]]
        /\ overtaken' = IF w.late \/ rows[w.old].digest # w.got \/ <<w.old, "digest">> \in overtaken
                        THEN overtaken \cup ({w.old} \X Kind) ELSE overtaken
  /\ Finish(k)
  /\ UNCHANGED <<disk, store, jobs, handing, spoiled, troubles, scans>>

----------------------------------------------------------------------------

\* The worker dies with what it does; a job is tried again, or given up.
Crash ==
  /\ Trouble
  /\ handing \/ \E k \in Kind : ~At(k, "free")
  /\ \E again \in SUBSET {<<k, work[k].row>> : k \in {k \in Kind : ~At(k, "free")}} :
       jobs' = jobs \cup again
  /\ work' = [k \in Kind |-> Free] /\ handing' = FALSE
  /\ UNCHANGED <<disk, rows, store, overtaken, spoiled>>

\* A scan has just put the one file there is in the index.
Init ==
  /\ disk = [[p \in Path |-> NoFile] EXCEPT ![Original].content = First]
  /\ rows = [r \in Row |-> IF r = 1 THEN [NoRow EXCEPT !.path = Original] ELSE NoRow]
  /\ store = [key \in Keys |-> None]
  /\ jobs = {} /\ work = [k \in Kind |-> Free] /\ handing = TRUE
  /\ overtaken = {} /\ spoiled = {} /\ troubles = 0 /\ scans = 0

Handle(k) ==
  \/ \E r \in Row : Skip(k, r) \/ Read(k, r) \/ Fail(k, r)
  \/ Write(k) \/ Match(k) \/ Fold(k)

Next ==
  \/ Change \/ Crash \/ Scan \/ HandOff \/ Reconcile
  \/ \E k \in Kind : \/ Write(k) \/ Match(k) \/ Fold(k)
                     \/ \E r \in Row : Skip(k, r) \/ Read(k, r) \/ Fail(k, r)

Spec == Init /\ [][Next]_vars

\* A worker works on what waits, and a scan goes on; the sweep comes round.
\* No scan need ever begin.
Fairness ==
  /\ WF_vars(HandOff) /\ WF_vars(Reconcile)
  /\ \A k \in Kind : WF_vars(Handle(k))

FairSpec == Spec /\ Fairness

----------------------------------------------------------------------------

TypeOK ==
  /\ disk \in [Path -> [content : Content \cup {None}, stamp : Stamp]]
  /\ rows \in [Row -> [path : Path \cup {None}, stamp : Stamp, gone : BOOLEAN,
                       digest : Content \cup {None},
                       analysis : Content \cup {Pending, Failed},
                       thumb : Content \cup {Pending, Failed}]]
  /\ store \in [Keys -> Content \cup {None}]
  /\ jobs \subseteq Kind \X Row
  /\ work \in [Kind -> [step : {"free", "write", "match", "fold"}, stamp : Stamp,
                        row : Row \cup {0}, old : Row \cup {0},
                        got : Content \cup {None}, late : BOOLEAN, new : BOOLEAN]]
  /\ handing \in BOOLEAN /\ overtaken \subseteq Row \X Kind /\ spoiled \subseteq Keys
  /\ troubles \in 0..MaxTrouble /\ scans \in 0..MaxScan

\* What a row says of a file that has not changed since it was scanned is true
\* of that file, over any edits, copies, renames, folds, failures and crashes.
\* What makes it false is a handler that read the file before or while it changed,
\* or looked for a missing row that has come back since, and wrote afterwards.  That
\* falsifies what it wrote and what goes on from there: a row folded by such a
\* digest, a preview kept from such a reading or under such a digest, and the
\* thumbnails taken from it.
DerivedIsCurrent ==
  \A r \in Row, k \in Kind :
    /\ Live(r) /\ rows[r].path \in OnDisk /\ ~Changed(r)
    /\ <<r, k>> \notin overtaken
    => rows[r][k] \in {disk[rows[r].path].content, None, Pending, Failed}

\* "A worker killed mid-render leaves a file pending forever otherwise": no
\* file that stays in the library stays without an analysis or a thumbnail, or
\* the record of a failure, though every job of it be given up.
WorkIsDone ==
  \A r \in Row, k \in Shown : Lacks(r, k) ~> ~Lacks(r, k)

\* A row whose digest is still to come holds what one missing row held.
Awaits(new, old) ==
  /\ Lacks(new, "digest") /\ <<"digest", new>> \in jobs /\ At("digest", "free")
  /\ OnDisk = {rows[new].path} /\ ~Changed(new)
  /\ Renamed(disk[rows[new].path].content) = {old}

\* "Reorganise their library without losing tags and thumbnails": a file that
\* was renamed is again the row it was, once no more changes or goes wrong.  Not
\* so when the missing row's own digest is at work: it looks for a row to fold
\* into, finds itself, and deletes it.
RenameIsFollowed ==
  \A new \in Row : \A old \in Row \ {new} :
    Awaits(new, old) /\ troubles = MaxTrouble ~> ~Exists(new) /\ Live(old)

=============================================================================
