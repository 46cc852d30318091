------------------------- MODULE LibraryScanProofs -------------------------
(***************************************************************************)
(* Proofs about LibraryScan for every library, any number of models and    *)
(* any grace period, about the history of its scans (ScanHistory), and     *)
(* about ModelTree for every tree, mode and depth.                         *)
(***************************************************************************)
EXTENDS ScanHistory, ModelTree, FiniteSetTheorems, TLAPS

\* Merging what was walked into the files of a row yields files again.
LEMMA MergeType ==
  ASSUME NEW old \in SUBSET File, NEW new \in SUBSET File
  PROVE  Merge(old, new) \in SUBSET File
  BY DEF Merge

\* What counts the live rows is a number.
LEMMA LiveRowsCounted == Cardinality(LiveRows) \in Nat
<1>1. IsFiniteSet(LiveRows)
  BY ScanAssumption, FS_Subset DEF LiveRows
<1> QED
  BY <1>1, FS_CardinalityType

\* A folder holds files whether it was read or not.
LEMMA ContentIsFiles == Content \cup {NoFolder} \subseteq SUBSET File
  BY ScanAssumption DEF NoFolder

\* A row whose columns change within their types is a row.
LEMMA RowUpdate ==
  ASSUME TableTypeOK, NEW i \in Id, Exists(i)
  PROVE  /\ models[i] \in Row
         /\ \A p \in Path : [models[i] EXCEPT !.path = p] \in Row
         /\ \A f \in SUBSET File : [models[i] EXCEPT !.files = f] \in Row
         /\ \A m \in Present..GraceDays : [models[i] EXCEPT !.missing = m] \in Row
  BY DEF TableTypeOK, Exists, Row

\* Writing some of a model's files keeps every row, where it is and its dates.
LEMMA PartOfFiles ==
  ASSUME TypeOK, UpsertPartOfFiles
  PROVE  /\ current[1] \in Id /\ current[2] \in Path /\ Exists(current[1])
         /\ models' \in [Id -> Row \cup {NoModel}]
         /\ \A j \in Id \ {current[1]} : models'[j] = models[j]
         /\ \A j \in Id : Exists(j) => /\ Exists(j)'
                                      /\ models'[j].path = models[j].path
                                      /\ models'[j].missing = models[j].missing
<1> DEFINE i == current[1]
           p == current[2]
<1>1. i \in Id /\ p \in Path /\ Exists(i)
  BY DEF UpsertPartOfFiles, TypeOK, ScanTypeOK
<1>2. PICK part \in SUBSET walked[p] :
        models' = [models EXCEPT ![i].files = Merge(@, part)]
  BY DEF UpsertPartOfFiles
<1>3. models \in [Id -> Row \cup {NoModel}] /\ models[i] \in Row
  BY <1>1, RowUpdate DEF TypeOK, TableTypeOK
<1> DEFINE files == Merge(models[i].files, part)
<1>4. files \in SUBSET File
  <2>1. walked[p] \in SUBSET File
    BY <1>1, ContentIsFiles DEF TypeOK, ScanTypeOK
  <2>2. models[i].files \in SUBSET File /\ part \in SUBSET File
    BY <1>3, <2>1 DEF Row
  <2> QED
    BY <2>2, MergeType
<1>5. [models[i] EXCEPT !.files = files] \in Row
  BY <1>1, <1>4, RowUpdate DEF TypeOK
<1> HIDE DEF files
<1>6. models' = [models EXCEPT ![i] = [models[i] EXCEPT !.files = files]]
  BY <1>1, <1>2, <1>3 DEF files
<1>7. models'[i] = [models[i] EXCEPT !.files = files]
  BY <1>1, <1>3, <1>6
<1>8. /\ models'[i] \in Row
      /\ models'[i].path = models[i].path /\ models'[i].missing = models[i].missing
  BY <1>3, <1>5, <1>7 DEF Row
<1>9. \A j \in Id \ {i} : models'[j] = models[j]
  BY <1>3, <1>6
<1>10. models' \in [Id -> Row \cup {NoModel}]
  BY <1>3, <1>5, <1>6
<1>11. models'[i] # NoModel
  BY <1>8, NoModelAssumption
<1> QED
  BY <1>1, <1>8, <1>9, <1>10, <1>11 DEF Exists

\* The first state has the types of its columns and locals.
LEMMA InitType == Init => TypeOK
<1> SUFFICES ASSUME Init PROVE TypeOK
  OBVIOUS
<1>1. DiskTypeOK
  BY DEF Init, DiskTypeOK
<1>2. TableTypeOK
  BY DEF Init, TableTypeOK
<1>3. ScanTypeOK
  BY DEF Init, ScanTypeOK
<1>4. EventTypeOK
  BY DEF Init, EventTypeOK
<1> QED
  BY <1>1, <1>2, <1>3, <1>4 DEF TypeOK

Outcome == {"succeeded", "failed", "running", "storage_unavailable",
            "empty_root", "mass_disappearance"}

\* Ending a scan resets its locals to values of their types.
LEMMA EndScanType ==
  ASSUME NEW result \in Outcome, EndScan(result)
  PROVE  ScanTypeOK'
  BY DEF ScanTypeOK, EndScan, Outcome

\* A scan's steps keep the types of its locals.
LEMMA ScanStepType ==
  ASSUME TypeOK, ScanStep
  PROVE  ScanTypeOK'
<1> USE DEF TypeOK
<1>1. CASE StartScan
  BY <1>1 DEF StartScan, ScanTypeOK, walkVars, foldVars, upsertVars
<1>2. CASE CheckHealth
  <2>1. CASE EndScan("storage_unavailable") \/ EndScan("empty_root")
    BY <2>1, EndScanType DEF Outcome
  <2>2. CASE /\ phase' = "walk" /\ known' = Cardinality(LiveRows)
             /\ UNCHANGED <<force, walkVars, foldVars, upsertVars, outcome>>
    BY <1>2, <2>2, LiveRowsCounted
    DEF CheckHealth, ScanTypeOK, walkVars, foldVars, upsertVars
  <2> QED
    BY <1>2, <2>1, <2>2 DEF CheckHealth
<1>3. ASSUME NEW p \in Path, WalkFolder(p) PROVE ScanTypeOK'
  BY <1>3 DEF WalkFolder, ScanTypeOK, DiskTypeOK, gateVars, foldVars, upsertVars
<1>4. CASE CheckDisappearance
  <2>1. CASE EndScan("mass_disappearance")
    BY <2>1, EndScanType DEF Outcome
  <2>2. CASE /\ phase' = "match" /\ excluded' = exclusions
             /\ UNCHANGED <<gateVars, walkVars, matches, upsertVars, outcome>>
    BY <1>4, <2>2
    DEF CheckDisappearance, ScanTypeOK, TableTypeOK, gateVars, walkVars, upsertVars
  <2> QED
    BY <1>4, <2>1, <2>2 DEF CheckDisappearance
<1>5. CASE MatchRenames
  <2> DEFINE Matched == {i \in Vanished : Recognisable(i) /\ Candidates(i) # {}}
  <2>1. PICK target \in [Matched -> Path] :
          matches' = {<<i, target[i]>> : i \in Matched}
    BY <1>5 DEF MatchRenames
  <2>2. Matched \subseteq Id
    BY DEF Vanished, WouldGoMissing, LiveRows
  <2>3. matches' \subseteq Id \X Path
    BY <2>1, <2>2
  <2> QED
    BY <1>5, <2>3 DEF MatchRenames, ScanTypeOK, gateVars, walkVars, upsertVars
<1>6. ASSUME NEW i \in Id, NEW p \in Path, FoldRename(i, p) PROVE ScanTypeOK'
  <2>1. CASE EndScan("failed")
    BY <2>1, EndScanType DEF Outcome
  <2>2. CASE /\ matches' = matches \ {<<i, p>>}
             /\ UNCHANGED <<phase, gateVars, walkVars, excluded, upsertVars,
                            outcome>>
    BY <2>2 DEF ScanTypeOK, gateVars, walkVars, upsertVars
  <2> QED
    BY <1>6, <2>1, <2>2 DEF FoldRename
<1>7. CASE BeginUpserts
  BY <1>7 DEF BeginUpserts, ScanTypeOK, gateVars, walkVars, foldVars, upsertVars
<1>8. ASSUME NEW p \in Path, NEW i \in Id, UpsertModel(p, i) PROVE ScanTypeOK'
  BY <1>8 DEF UpsertModel, ScanTypeOK, gateVars, walkVars, foldVars
<1>9. CASE UpsertFiles
  <2>1. CASE EndScan("failed")
    BY <2>1, EndScanType DEF Outcome
  <2>2. CASE /\ phase' = "upsert"
             /\ done' = done \cup {current[2]}
             /\ current' = Nowhere
             /\ UNCHANGED <<gateVars, walkVars, foldVars, touched, outcome>>
    <3>1. current \in Id \X Path
      BY <1>9 DEF UpsertFiles, ScanTypeOK
    <3> QED
      BY <2>2, <3>1 DEF ScanTypeOK, gateVars, walkVars, foldVars
  <2> QED
    BY <1>9, <2>1, <2>2 DEF UpsertFiles
<1>10. CASE MarkFilesMissing
  BY <1>10 DEF MarkFilesMissing, ScanTypeOK, gateVars, walkVars, foldVars, upsertVars
<1>11. CASE MarkModelsMissing
  BY <1>11 DEF MarkModelsMissing, ScanTypeOK, gateVars, walkVars, foldVars, upsertVars
<1>12. CASE FinishScan
  BY <1>12, EndScanType DEF FinishScan, Outcome
<1>13. CASE UpsertPartOfFiles
  BY <1>13
  DEF UpsertPartOfFiles, ScanTypeOK, scanVars, gateVars, walkVars, foldVars, upsertVars
<1> QED
  BY <1>1, <1>2, <1>3, <1>4, <1>5, <1>6, <1>7, <1>8, <1>9, <1>10, <1>11, <1>12,
     <1>13
  DEF ScanStep

\* A scan's steps write rows into the table, and nothing else.
LEMMA ScanStepTable ==
  ASSUME TypeOK, ScanStep
  PROVE  TableTypeOK'
<1> USE DEF TypeOK
<1>1. (UNCHANGED tableVars) => TableTypeOK'
  BY DEF tableVars, TableTypeOK
<1>2. (/\ UNCHANGED <<exclusions, removing>>
       /\ models' \in [Id -> Row \cup {NoModel}]) => TableTypeOK'
  BY DEF TableTypeOK
<1>3. models \in [Id -> Row \cup {NoModel}]
  BY DEF TableTypeOK
<1>4. ASSUME NEW i \in Id, NEW p \in Path, FoldRename(i, p) PROVE TableTypeOK'
  <2>1. CASE UNCHANGED models
    BY <1>2, <1>3, <1>4, <2>1 DEF FoldRename
  <2>2. CASE /\ Exists(i)
             /\ models' = [models EXCEPT ![i].path = p]
    <3>1. [models[i] EXCEPT !.path = p] \in Row
      BY <2>2, RowUpdate
    <3> QED
      BY <1>2, <1>3, <1>4, <2>2, <3>1 DEF FoldRename
  <2> QED
    BY <1>4, <2>1, <2>2 DEF FoldRename
<1>5. ASSUME NEW p \in Path, NEW i \in Id, UpsertModel(p, i) PROVE TableTypeOK'
  <2>1. CASE /\ i \in RowsAt(p)
             /\ models' = [models EXCEPT ![i].missing = Present]
    <3>1. [models[i] EXCEPT !.missing = Present] \in Row
      BY <2>1, RowUpdate, ScanAssumption DEF RowsAt, Rows, Present
    <3> QED
      BY <1>2, <1>3, <1>5, <2>1, <3>1 DEF UpsertModel
  <2>2. CASE models' = [models EXCEPT ![i] =
                          [path |-> p, files |-> {}, missing |-> Present]]
    <3>1. [path |-> p, files |-> {}, missing |-> Present] \in Row
      BY ScanAssumption DEF Row, Present
    <3> QED
      BY <1>2, <1>3, <1>5, <2>2, <3>1 DEF UpsertModel
  <2> QED
    BY <1>5, <2>1, <2>2 DEF UpsertModel
<1>6. CASE UpsertFiles
  <2>1. CASE UNCHANGED models
    BY <1>2, <1>3, <1>6, <2>1 DEF UpsertFiles
  <2> DEFINE i == current[1]
             p == current[2]
             files == Merge(models[i].files, walked[p])
  <2>2. CASE /\ Exists(i)
             /\ models' = [models EXCEPT ![i].files = files]
    <3>1. i \in Id /\ p \in Path
      BY <1>6 DEF UpsertFiles, ScanTypeOK
    <3>2. models[i].files \in SUBSET File
      BY <2>2, <3>1, RowUpdate DEF Row
    <3>3. walked[p] \in SUBSET File
      BY <3>1, ContentIsFiles DEF ScanTypeOK
    <3>4. [models[i] EXCEPT !.files = files] \in Row
      BY <2>2, <3>1, <3>2, <3>3, MergeType, RowUpdate
    <3> QED
      BY <1>2, <1>3, <1>6, <2>2, <3>1, <3>4 DEF UpsertFiles
  <2> QED
    BY <1>6, <2>1, <2>2 DEF UpsertFiles
<1>7. CASE MarkFilesMissing
  <2> DEFINE files(i) == IF i \in touched
                         THEN models[i].files \cap walked[models[i].path]
                         ELSE {}
  <2>1. ASSUME NEW i \in Id, Exists(i)
        PROVE  [models[i] EXCEPT !.files = files(i)] \in Row
    <3>1. files(i) \in SUBSET File
      BY <2>1, RowUpdate DEF Row
    <3> QED
      BY <2>1, <3>1, RowUpdate
  <2>2. models' \in [Id -> Row \cup {NoModel}]
    BY <1>7, <2>1 DEF MarkFilesMissing
  <2> QED
    BY <1>2, <1>7, <2>2 DEF MarkFilesMissing
<1>8. CASE MarkModelsMissing
  <2>1. ASSUME NEW i \in Id, Exists(i)
        PROVE  [models[i] EXCEPT !.missing = 0] \in Row
    BY <2>1, RowUpdate, ScanAssumption DEF Present
  <2>2. models' \in [Id -> Row \cup {NoModel}]
    BY <1>3, <1>8, <2>1 DEF MarkModelsMissing, Live
  <2> QED
    BY <1>2, <1>8, <2>2 DEF MarkModelsMissing
<1>9. CASE \/ StartScan \/ CheckHealth \/ CheckDisappearance \/ MatchRenames
           \/ BeginUpserts \/ FinishScan \/ \E p \in Path : WalkFolder(p)
  BY <1>1, <1>9
  DEF StartScan, CheckHealth, CheckDisappearance, MatchRenames, BeginUpserts,
      FinishScan, WalkFolder
<1>10. CASE UpsertPartOfFiles
  BY <1>2, <1>10, PartOfFiles DEF UpsertPartOfFiles
<1> QED
  BY <1>4, <1>5, <1>6, <1>7, <1>8, <1>9, <1>10 DEF ScanStep

\* No step of a scan touches the volume, the prune or the bounds.
LEMMA ScanStepOthers ==
  ASSUME ScanStep
  PROVE  UNCHANGED <<diskVars, pruning, count>>
  BY DEF ScanStep, StartScan, CheckHealth, WalkFolder, CheckDisappearance,
         MatchRenames, FoldRename, BeginUpserts, UpsertModel,
         UpsertPartOfFiles, UpsertFiles, MarkFilesMissing, MarkModelsMissing, FinishScan, tableVars

\* Counting an event keeps the counters numbers.
LEMMA BumpType ==
  ASSUME EventTypeOK, NEW event \in {"disk", "remove", "outage", "crash"},
         Bump(event)
  PROVE  count' \in [{"disk", "remove", "outage", "crash"} -> Nat]
<1>1. count[event] + 1 \in Nat
  BY DEF EventTypeOK
<1> QED
  BY <1>1 DEF EventTypeOK, Bump

\* Days pass within the grace period.
LEMMA PassDayType ==
  ASSUME TypeOK, PassDay
  PROVE  TypeOK'
<1> USE DEF TypeOK
<1>1. ASSUME NEW i \in Id, Ageing(i)
      PROVE  [models[i] EXCEPT !.missing = @ + 1] \in Row
  <2> DEFINE m == models[i].missing + 1
  <2>1. m \in Present..GraceDays
    BY <1>1, ScanAssumption DEF Ageing, Present
  <2>2. \A n \in Present..GraceDays : [models[i] EXCEPT !.missing = n] \in Row
    BY <1>1, RowUpdate DEF Ageing
  <2> HIDE DEF m
  <2>3. [models[i] EXCEPT !.missing = m] \in Row
    BY <2>1, <2>2
  <2> QED
    BY <2>3 DEF m
<1>2. models' \in [Id -> Row \cup {NoModel}]
  BY <1>1 DEF PassDay, TableTypeOK
<1>3. TableTypeOK'
  BY <1>2 DEF PassDay, TableTypeOK
<1>4. DiskTypeOK' /\ ScanTypeOK' /\ EventTypeOK'
  BY DEF PassDay, DiskTypeOK, ScanTypeOK, EventTypeOK, diskVars, scanVars,
         gateVars, walkVars, foldVars, upsertVars
<1> QED
  BY <1>3, <1>4

\* A prune turns rows into no rows.
LEMMA PruneStepType ==
  ASSUME TypeOK, PruneStep
  PROVE  TypeOK'
<1> USE DEF TypeOK
<1>1. CASE BeginPrune
  BY <1>1 DEF BeginPrune, TableTypeOK, DiskTypeOK, ScanTypeOK, EventTypeOK,
              diskVars, tableVars, scanVars, gateVars, walkVars, foldVars, upsertVars
<1>2. CASE FinishPrune
  <2>1. TableTypeOK'
    BY <1>2 DEF FinishPrune, TableTypeOK
  <2>2. DiskTypeOK' /\ ScanTypeOK' /\ EventTypeOK'
    BY <1>2 DEF FinishPrune, DiskTypeOK, ScanTypeOK, EventTypeOK,
                diskVars, scanVars, gateVars, walkVars, foldVars, upsertVars
  <2> QED
    BY <2>1, <2>2
<1> QED
  BY <1>1, <1>2 DEF PruneStep

\* The owner changes what is on the volume and what of it is reachable.
LEMMA OwnerStepType ==
  ASSUME TypeOK, OwnerStep
  PROVE  TypeOK'
<1> USE DEF TypeOK
<1>1. ASSUME NEW newDisk \in [Path -> Content \cup {NoFolder}], ChangeDisk(newDisk)
      PROVE  TypeOK'
  <2>1. DiskTypeOK' /\ TableTypeOK' /\ ScanTypeOK'
    BY <1>1 DEF ChangeDisk, DiskTypeOK, TableTypeOK, ScanTypeOK, tableVars,
                scanVars, gateVars, walkVars, foldVars, upsertVars
  <2>2. EventTypeOK'
    BY <1>1, BumpType DEF ChangeDisk, EventTypeOK
  <2> QED
    BY <2>1, <2>2
<1>2. ASSUME NEW p \in Path, NEW c \in Content \cup {NoFolder}, WriteFolder(p, c)
      PROVE  TypeOK'
  BY <1>1, <1>2 DEF WriteFolder, DiskTypeOK
<1>3. ASSUME NEW p \in Path, NEW q \in Path, RenameFolder(p, q)
      PROVE  TypeOK'
  BY <1>1, <1>3 DEF RenameFolder, DiskTypeOK
<1>4. CASE LoseVolume
  <2>1. hidden' \subseteq Path /\ reachable' \in BOOLEAN
    BY <1>4, ScanAssumption DEF LoseVolume, DiskTypeOK
  <2>2. DiskTypeOK'
    BY <1>4, <2>1 DEF LoseVolume, DiskTypeOK
  <2>3. TableTypeOK' /\ ScanTypeOK'
    BY <1>4 DEF LoseVolume, TableTypeOK, ScanTypeOK, tableVars, scanVars,
                gateVars, walkVars, foldVars, upsertVars
  <2>4. EventTypeOK'
    BY <1>4, BumpType DEF LoseVolume, EventTypeOK
  <2> QED
    BY <2>2, <2>3, <2>4
<1>5. CASE RestoreVolume
  BY <1>5 DEF RestoreVolume, DiskTypeOK, TableTypeOK, ScanTypeOK, EventTypeOK,
              tableVars, scanVars, gateVars, walkVars, foldVars, upsertVars
<1> QED
  BY <1>2, <1>3, <1>4, <1>5 DEF OwnerStep

\* The user moves paths in and out of the exclusions and rows out of the table.
LEMMA UserStepType ==
  ASSUME TypeOK, UserStep
  PROVE  TypeOK'
<1> USE DEF TypeOK
<1>1. UserStep => DiskTypeOK' /\ ScanTypeOK'
  BY DEF UserStep, RecordExclusion, DeleteModel, RestoreExclusion, DiskTypeOK,
         ScanTypeOK, diskVars, scanVars, gateVars, walkVars, foldVars, upsertVars
<1>2. ASSUME NEW i \in Id, RecordExclusion(i)
      PROVE  TableTypeOK' /\ EventTypeOK'
  <2>1. models[i].path \in Path
    BY <1>2, RowUpdate DEF RecordExclusion, Row
  <2> QED
    BY <1>2, <2>1, BumpType DEF RecordExclusion, TableTypeOK, EventTypeOK
<1>3. ASSUME NEW i \in Id, DeleteModel(i)
      PROVE  TableTypeOK' /\ EventTypeOK'
  BY <1>3 DEF DeleteModel, TableTypeOK, EventTypeOK
<1>4. ASSUME NEW p \in Path, RestoreExclusion(p)
      PROVE  TableTypeOK' /\ EventTypeOK'
  BY <1>4 DEF RestoreExclusion, TableTypeOK, EventTypeOK
<1> QED
  BY <1>1, <1>2, <1>3, <1>4 DEF UserStep

\* Every step keeps the types.
LEMMA NextType == TypeOK /\ [Next]_vars => TypeOK'
<1> SUFFICES ASSUME TypeOK, [Next]_vars PROVE TypeOK'
  OBVIOUS
<1>1. CASE ScanStep
  <2>1. DiskTypeOK' /\ EventTypeOK'
    BY <1>1, ScanStepOthers DEF TypeOK, DiskTypeOK, EventTypeOK, diskVars
  <2> QED
    BY <1>1, <2>1, ScanStepType, ScanStepTable DEF TypeOK
<1>2. CASE InterruptScan
  <2>1. ScanTypeOK'
    BY <1>2, EndScanType DEF InterruptScan, Outcome
  <2>2. DiskTypeOK' /\ TableTypeOK'
    BY <1>2 DEF InterruptScan, TypeOK, DiskTypeOK, TableTypeOK, diskVars, tableVars
  <2>3. EventTypeOK'
    BY <1>2, BumpType DEF InterruptScan, TypeOK, EventTypeOK
  <2> QED
    BY <2>1, <2>2, <2>3 DEF TypeOK
<1>3. CASE UNCHANGED vars
  BY <1>3 DEF TypeOK, vars, DiskTypeOK, TableTypeOK, ScanTypeOK, EventTypeOK,
              diskVars, tableVars, scanVars, gateVars, walkVars, foldVars, upsertVars
<1> QED
  BY <1>1, <1>2, <1>3, OwnerStepType, UserStepType, PassDayType, PruneStepType
  DEF Next

\* The tables and the locals of the scan hold values of their types in every
\* reachable state of every library.
THEOREM TypeCorrect == Spec => []TypeOK
<1> QED
  BY InitType, NextType, PTL DEF Spec

----------------------------------------------------------------------------
(* The index a scan leaves behind. *)

\* A row in the table keeps the types of its columns.
LEMMA RowColumns ==
  ASSUME TypeOK, NEW i \in Rows
  PROVE  /\ i \in Id
         /\ models[i] \in Row
         /\ models[i].path \in Path
  BY RowUpdate DEF TypeOK, Rows, Row

\* What the reconciliation relates survives everything that leaves the scan's
\* locals alone and creates, moves, refills or revives no row.
LEMMA OnlyFewerRows ==
  ASSUME ScanInv, TypeOK', UNCHANGED scanVars,
         \A i \in Id : Exists(i)' =>
            /\ Exists(i)
            /\ models'[i].path = models[i].path
            /\ models'[i].files = models[i].files
            /\ Live(i)' => Live(i)
  PROVE  ScanInv'
<1> USE DEF scanVars, gateVars, walkVars, foldVars, upsertVars
<1>a. Rows' \subseteq Rows /\ Rows \subseteq Id
  BY DEF Rows
<1>b. FoundPaths' = FoundPaths /\ Reconciling' = Reconciling
  BY DEF FoundPaths, Reconciling
<1>c. LiveRows' \subseteq LiveRows
  <2>1. \A i \in Id : Live(i)' => Live(i)
    BY DEF Live
  <2> QED
    BY <2>1 DEF LiveRows
<1>0. /\ Rows' \subseteq Rows /\ Rows \subseteq Id
      /\ FoundPaths' = FoundPaths
      /\ Reconciling' = Reconciling
      /\ LiveRows' \subseteq LiveRows
  BY <1>a, <1>b, <1>c
<1>1. UniquePaths'
  BY <1>0 DEF ScanInv, UniquePaths, Rows
<1>2. LocalsMatch'
  <2>1. phase = "files" => current[1] \in Id
    BY DEF ScanInv, TypeOK, ScanTypeOK
  <2>2. \A j \in Rows' : j \in Rows /\ models'[j].path = models[j].path
    BY <1>0 DEF Rows
  <2>3. RowsAt(current[2])' \subseteq RowsAt(current[2])
    BY <2>2 DEF RowsAt
  <2> HIDE DEF scanVars
  <2>4. UNCHANGED <<phase, walked, excluded, done, touched, current>>
    BY DEF scanVars
  <2>5. phase = "files" /\ Exists(current[1])' =>
          Exists(current[1]) /\ models'[current[1]].path = models[current[1]].path
    BY <2>1, <2>4
  <2> QED
    BY <1>0, <2>3, <2>4, <2>5 DEF ScanInv, LocalsMatch
<1>3. TouchedMatch'
  BY <1>0 DEF ScanInv, TouchedMatch, Rows
<1>4. MarkedMatch'
  BY <1>0 DEF ScanInv, MarkedMatch, Rows
<1> QED
  BY <1>1, <1>2, <1>3, <1>4 DEF ScanInv

\* A scan that ends, well or badly, leaves nothing to relate.
LEMMA EndScanInv ==
  ASSUME ScanInv, TypeOK', NEW result, EndScan(result), UNCHANGED models
  PROVE  ScanInv'
<1>1. UniquePaths'
  BY DEF ScanInv, UniquePaths, Rows, Exists
<1>2. phase' = "idle" /\ done' = {} /\ touched' = {}
  BY DEF EndScan
<1>3. LocalsMatch' /\ TouchedMatch' /\ MarkedMatch'
  BY <1>2 DEF LocalsMatch, TouchedMatch, MarkedMatch, Reconciling
<1> QED
  BY <1>1, <1>3 DEF ScanInv

\* Up to the upserts nothing is touched, so only the table's paths matter.
LEMMA BeforeUpserts ==
  ASSUME ScanInv, TypeOK', UNCHANGED <<models, done, touched>>,
         phase \notin {"files", "mark", "finish"}, done = {}, touched = {},
         phase' \notin {"files", "mark", "finish"}
  PROVE  ScanInv'
<1>1. UniquePaths'
  BY DEF ScanInv, UniquePaths, Rows, Exists
<1>2. LocalsMatch' /\ TouchedMatch' /\ MarkedMatch'
  BY DEF LocalsMatch, TouchedMatch, MarkedMatch
<1> QED
  BY <1>1, <1>2 DEF ScanInv

\* A folded rename puts a row on a path nobody holds.
LEMMA FoldRenameInv ==
  ASSUME ScanInv, TypeOK', NEW i \in Id, NEW p \in Path, FoldRename(i, p)
  PROVE  ScanInv'
<1>0. phase = "fold" /\ done = {} /\ touched = {}
  BY DEF FoldRename, ScanInv, LocalsMatch, Reconciling
<1>1. CASE EndScan("failed") /\ UNCHANGED models
  BY <1>1, EndScanInv
<1>2. CASE UNCHANGED models /\ UNCHANGED <<phase, done, touched>>
  BY <1>0, <1>2, BeforeUpserts
<1>3. CASE /\ Exists(i) /\ RowsAt(p) \subseteq {i}
           /\ models' = [models EXCEPT ![i].path = p]
           /\ UNCHANGED <<phase, done, touched>>
  <2>0. models \in [Id -> Row \cup {NoModel}] /\ models[i] \in Row
    BY <1>3, RowUpdate DEF ScanInv, TypeOK, TableTypeOK
  <2>1. \A j \in Id \ {i} : models'[j] = models[j]
    BY <1>3, <2>0
  <2>2. models'[i].path = p
    BY <1>3, <2>0 DEF Row
  <2>3. \A j \in Rows' \ {i} : j \in Rows /\ models'[j].path = models[j].path
    BY <2>1 DEF Rows, Exists
  <2>4. \A j \in Rows' \ {i} : models'[j].path # p
    BY <1>3, <2>3 DEF RowsAt
  <2>5. UniquePaths'
    BY <2>2, <2>3, <2>4 DEF UniquePaths, ScanInv
  <2>6. LocalsMatch' /\ TouchedMatch' /\ MarkedMatch'
    BY <1>0, <1>3 DEF LocalsMatch, TouchedMatch, MarkedMatch
  <2> QED
    BY <2>5, <2>6 DEF ScanInv
<1>4. FoldRename(i, p) =>
        \/ EndScan("failed") /\ UNCHANGED models
        \/ UNCHANGED models /\ UNCHANGED <<phase, done, touched>>
        \/ /\ Exists(i) /\ RowsAt(p) \subseteq {i}
           /\ models' = [models EXCEPT ![i].path = p]
           /\ UNCHANGED <<phase, done, touched>>
  BY Zenon DEF FoldRename, upsertVars
<1> QED
  BY <1>1, <1>2, <1>3, <1>4

\* The first half of an upsert touches the one row of its folder.
LEMMA UpsertModelInv ==
  ASSUME ScanInv, TypeOK', NEW p \in Path, NEW i \in Id, UpsertModel(p, i)
  PROVE  ScanInv'
<1> DEFINE fresh == [path |-> p, files |-> {}, missing |-> Present]
<1>0. /\ phase = "upsert" /\ phase' = "files"
      /\ p \in FoundPaths \ excluded /\ p \notin done
      /\ touched' = touched \cup {i} /\ current' = <<i, p>>
      /\ UNCHANGED <<walked, excluded, done>>
  BY DEF UpsertModel, ToUpsert, walkVars, foldVars
<1>1. models \in [Id -> Row \cup {NoModel}]
  BY DEF ScanInv, TypeOK, TableTypeOK
<1>2. /\ \A j \in Id \ {i} : models'[j] = models[j]
      /\ Exists(i)' /\ models'[i].path = p
  <2>1. CASE i \in RowsAt(p) /\ models' = [models EXCEPT ![i].missing = Present]
    <3>1. models[i] \in Row /\ models[i].path = p
      BY <2>1, RowUpdate DEF RowsAt, Rows, ScanInv, TypeOK
    <3>2. [models[i] EXCEPT !.missing = Present].path = p
      BY <3>1 DEF Row
    <3>3. [models[i] EXCEPT !.missing = Present] \in Row
      BY <2>1, RowUpdate, ScanAssumption DEF RowsAt, Rows, Present, ScanInv, TypeOK
    <3>4. models'[i] = [models[i] EXCEPT !.missing = Present]
      BY <1>1, <2>1
    <3> QED
      BY <1>1, <2>1, <3>2, <3>3, <3>4, NoModelAssumption DEF Exists
  <2>2. CASE models' = [models EXCEPT ![i] = fresh]
    <3>1. fresh \in Row
      BY ScanAssumption DEF Row, Present
    <3> QED
      BY <1>1, <2>2, <3>1, NoModelAssumption DEF Exists
  <2> QED
    BY <2>1, <2>2 DEF UpsertModel
<1>3. RowsAt(p) \subseteq {i}
  BY DEF UpsertModel, RowsAt, ScanInv, UniquePaths
<1>4. \A j \in Rows' \ {i} :
        j \in Rows /\ models'[j] = models[j] /\ models'[j].path # p
  BY <1>2, <1>3 DEF Rows, Exists, RowsAt
<1>5. UniquePaths'
  BY <1>2, <1>4 DEF ScanInv, UniquePaths
<1>6. FoundPaths' = FoundPaths
  BY <1>0 DEF FoundPaths
<1>7. LocalsMatch'
  <2>1. RowsAt(p)' \subseteq {i}
    BY <1>4 DEF RowsAt
  <2> QED
    BY <1>0, <1>2, <1>6, <2>1 DEF ScanInv, LocalsMatch, Reconciling, RowsAt
<1>8. TouchedMatch'
  <2>1. \A j \in Rows' \ {i} : j \in touched =>
          models[j].path \in done /\ walked[models[j].path] \subseteq models[j].files
    BY <1>0, <1>4 DEF ScanInv, TouchedMatch
  <2>2. \A j \in Rows' \ {i} : models'[j].path \in done => j \in touched
    BY <1>4 DEF ScanInv, TouchedMatch
  <2> QED
    BY <1>0, <1>2, <1>4, <2>1, <2>2 DEF TouchedMatch
<1>9. MarkedMatch'
  BY <1>0 DEF MarkedMatch
<1> QED
  BY <1>5, <1>7, <1>8, <1>9 DEF ScanInv

\* The second half gives it the files of the folder.
LEMMA UpsertFilesInv ==
  ASSUME ScanInv, TypeOK', UpsertFiles
  PROVE  ScanInv'
<1>1. CASE EndScan("failed") /\ UNCHANGED models
  BY <1>1, EndScanInv
<1> DEFINE i == current[1]
           p == current[2]
<1>2. CASE /\ Exists(i)
           /\ models' = [models EXCEPT ![i].files = Merge(@, walked[p])]
           /\ phase' = "upsert" /\ done' = done \cup {p}
           /\ UNCHANGED <<walked, excluded, touched>>
  <2>0. phase = "files" /\ i \in Id /\ p \in Path /\ current = <<i, p>>
    BY DEF UpsertFiles, ScanInv, TypeOK, ScanTypeOK
  <2>1. models \in [Id -> Row \cup {NoModel}] /\ models[i] \in Row
    BY <1>2, <2>0, RowUpdate DEF ScanInv, TypeOK, TableTypeOK
  <2>2. models[i].path = p /\ p \in FoundPaths \ excluded
    BY <1>2, <2>0 DEF ScanInv, LocalsMatch
  <2>3. /\ \A j \in Id \ {i} : models'[j] = models[j]
        /\ models'[i].path = p
        /\ models'[i].files = Merge(models[i].files, walked[p])
    <3>1. models'[i] = [models[i] EXCEPT !.files = Merge(models[i].files, walked[p])]
      BY <1>2, <2>0, <2>1
    <3> QED
      BY <1>2, <2>0, <2>1, <2>2, <3>1 DEF Row
  <2>4. walked[p] \subseteq models'[i].files
    BY <2>3 DEF Merge
  <2>5. i \in Rows /\ \A j \in Rows' \ {i} :
          j \in Rows /\ models'[j] = models[j] /\ models[j].path # p
    BY <1>2, <2>0, <2>2, <2>3 DEF Rows, Exists, ScanInv, UniquePaths
  <2>6. UniquePaths'
    BY <2>3, <2>5 DEF ScanInv, UniquePaths
  <2>7. FoundPaths' = FoundPaths
    BY <1>2 DEF FoundPaths
  <2>8. LocalsMatch'
    BY <1>2, <2>0, <2>2, <2>7 DEF ScanInv, LocalsMatch, Reconciling
  <2>9. i \in touched
    BY <2>0 DEF ScanInv, LocalsMatch
  <2>10. \A j \in Rows' \ {i} : j \in touched =>
           models[j].path \in done /\ walked[models[j].path] \subseteq models[j].files
    BY <2>0, <2>5 DEF ScanInv, TouchedMatch
  <2>11. TouchedMatch'
    BY <1>2, <2>3, <2>4, <2>5, <2>9, <2>10 DEF ScanInv, TouchedMatch
  <2>12. MarkedMatch'
    BY <1>2 DEF MarkedMatch
  <2> QED
    BY <2>6, <2>8, <2>11, <2>12 DEF ScanInv
<1>3. CASE /\ ~Exists(i) /\ UNCHANGED models
           /\ phase' = "upsert" /\ done' = done \cup {p}
           /\ UNCHANGED <<walked, excluded, touched>>
  <2>0. phase = "files" /\ i \in Id /\ p \in Path /\ current = <<i, p>>
    BY DEF UpsertFiles, ScanInv, TypeOK, ScanTypeOK
  <2>1. Rows' = Rows /\ i \notin Rows /\ FoundPaths' = FoundPaths
    BY <1>3 DEF Rows, Exists, FoundPaths
  <2>2. p \in FoundPaths \ excluded
    BY <2>0 DEF ScanInv, LocalsMatch
  <2>3. UniquePaths'
    BY <1>3, <2>1 DEF ScanInv, UniquePaths
  <2>4. LocalsMatch'
    BY <1>3, <2>0, <2>1, <2>2 DEF ScanInv, LocalsMatch, Reconciling
  <2>5. \A j \in Rows \cap touched :
          models[j].path \in done /\ walked[models[j].path] \subseteq models[j].files
    BY <2>0, <2>1 DEF ScanInv, TouchedMatch
  <2>6. \A j \in Rows : models[j].path = p => j \in touched
    BY <2>0, <2>1 DEF ScanInv, LocalsMatch, RowsAt
  <2>7. TouchedMatch'
    BY <1>3, <2>1, <2>5, <2>6 DEF ScanInv, TouchedMatch
  <2>8. MarkedMatch'
    BY <1>3 DEF MarkedMatch
  <2> QED
    BY <2>3, <2>4, <2>7, <2>8 DEF ScanInv
<1>4. UpsertFiles =>
        \/ EndScan("failed") /\ UNCHANGED models
        \/ /\ ~Exists(i) /\ UNCHANGED models
           /\ phase' = "upsert" /\ done' = done \cup {p}
           /\ UNCHANGED <<walked, excluded, touched>>
        \/ /\ Exists(i)
           /\ models' = [models EXCEPT ![i].files = Merge(@, walked[p])]
           /\ phase' = "upsert" /\ done' = done \cup {p}
           /\ UNCHANGED <<walked, excluded, touched>>
  BY Zenon DEF UpsertFiles, walkVars, foldVars
<1> QED
  BY <1>1, <1>2, <1>3, <1>4

\* Until then some of them may be there.
LEMMA UpsertPartInv ==
  ASSUME ScanInv, TypeOK', UpsertPartOfFiles
  PROVE  ScanInv'
<1> DEFINE i == current[1]
<1>0. TypeOK
  BY DEF ScanInv
<1>1. /\ phase = "files" /\ i \in Id /\ Exists(i) /\ current = <<i, current[2]>>
      /\ UNCHANGED <<phase, walked, excluded, done, touched, current>>
  BY DEF UpsertPartOfFiles, TypeOK, ScanInv, ScanTypeOK, scanVars, walkVars, foldVars,
         upsertVars
<1>2. /\ \A j \in Id \ {i} : models'[j] = models[j]
      /\ \A j \in Id : Exists(j) => models'[j].path = models[j].path /\ Exists(j)'
  BY <1>0, PartOfFiles
<1>3. Rows' = Rows
  BY <1>1, <1>2 DEF Rows, Exists
<1>4. \A j \in Rows : models'[j].path = models[j].path
  BY <1>2 DEF Rows
<1>5. UniquePaths'
  BY <1>3, <1>4 DEF ScanInv, UniquePaths
<1>6. models[i].path = current[2]
  BY <1>1 DEF ScanInv, LocalsMatch
<1>7. LocalsMatch'
  <2>1. models'[i].path = current[2]
    BY <1>1, <1>2, <1>6
  <2>2. FoundPaths' = FoundPaths
    BY <1>1 DEF FoundPaths
  <2>3. {j \in Rows' : models'[j].path = current[2]} = {j \in Rows : models[j].path = current[2]}
    BY <1>3, <1>4
  <2>4. RowsAt(current[2])' \subseteq {i}
    BY <1>1, <2>3 DEF RowsAt, ScanInv, LocalsMatch
  <2> QED
    BY <1>1, <2>1, <2>2, <2>4 DEF ScanInv, LocalsMatch, Reconciling
<1>8. TouchedMatch'
  <2>1. ASSUME NEW j \in Rows' \cap touched'
        PROVE  \/ /\ models'[j].path \in done'
                  /\ walked'[models'[j].path] \subseteq models'[j].files
               \/ phase' = "files" /\ current' = <<j, models'[j].path>>
    <3>1. CASE j = i
      BY <1>1, <1>2, <1>6, <3>1
    <3>2. CASE j # i
      <4>1. j \in Rows \cap touched /\ models'[j] = models[j]
        BY <1>1, <1>2, <1>3, <2>1, <3>2 DEF Rows
      <4> QED
        BY <1>1, <4>1 DEF ScanInv, TouchedMatch
    <3> QED
      BY <3>1, <3>2
  <2>2. \A j \in Rows' : models'[j].path \in done' => j \in touched'
    BY <1>1, <1>3, <1>4 DEF ScanInv, TouchedMatch
  <2> QED
    BY <2>1, <2>2 DEF TouchedMatch
<1>9. MarkedMatch'
  BY <1>1 DEF MarkedMatch
<1> QED
  BY <1>5, <1>7, <1>8, <1>9 DEF ScanInv

\* Marking files missing leaves the touched rows exactly what was walked.
LEMMA MarkFilesInv ==
  ASSUME ScanInv, TypeOK', MarkFilesMissing
  PROVE  ScanInv'
<1> DEFINE files(i) == IF i \in touched
                       THEN models[i].files \cap walked[models[i].path]
                       ELSE {}
<1>0. /\ phase = "upsert" /\ phase' = "mark" /\ ToUpsert = {}
      /\ UNCHANGED <<walked, excluded, done, touched, current>>
  BY DEF MarkFilesMissing, walkVars, foldVars, upsertVars
<1>1. \A i \in Rows' :
        /\ i \in Rows
        /\ models'[i].path = models[i].path
        /\ models'[i].files = files(i)
  <2> TAKE i \in Rows'
  <2>1. i \in Id /\ Exists(i)' /\ models'[i] = IF ~Exists(i) THEN NoModel
                              ELSE [models[i] EXCEPT !.files = files(i)]
    BY DEF MarkFilesMissing, Rows
  <2>2. Exists(i)
    BY <2>1 DEF Exists
  <2>3. models[i] \in Row
    BY <2>1, <2>2, RowUpdate DEF ScanInv, TypeOK
  <2> QED
    BY <2>1, <2>2, <2>3 DEF Row, Rows
<1>2. FoundPaths' = FoundPaths
  BY <1>0 DEF FoundPaths
<1>3. UniquePaths'
  BY <1>1 DEF ScanInv, UniquePaths
<1>4. LocalsMatch'
  BY <1>0, <1>2 DEF ScanInv, LocalsMatch, Reconciling
<1>5. \A i \in Rows' \cap touched :
        /\ models[i].path \in done
        /\ models'[i].files = walked[models[i].path]
  BY <1>0, <1>1 DEF ScanInv, TouchedMatch
<1>6. TouchedMatch'
  <2>1. \A i \in Rows' \cap touched :
          models'[i].path \in done /\ walked[models'[i].path] \subseteq models'[i].files
    BY <1>1, <1>5
  <2>2. \A i \in Rows' : models'[i].path \in done => i \in touched
    BY <1>1 DEF ScanInv, TouchedMatch
  <2> QED
    BY <1>0, <2>1, <2>2 DEF TouchedMatch
<1>7. MarkedMatch'
  <2>1. done = FoundPaths \ excluded
    BY <1>0 DEF ToUpsert, ScanInv, LocalsMatch
  <2> QED
    BY <1>0, <1>1, <1>2, <1>5, <2>1 DEF MarkedMatch
<1> QED
  BY <1>3, <1>4, <1>6, <1>7 DEF ScanInv

\* Marking models missing leaves only touched rows live.
LEMMA MarkModelsInv ==
  ASSUME ScanInv, TypeOK', MarkModelsMissing
  PROVE  ScanInv'
<1>0. /\ phase = "mark" /\ phase' = "finish"
      /\ UNCHANGED <<walked, excluded, done, touched, current>>
  BY DEF MarkModelsMissing, walkVars, foldVars, upsertVars
<1>1. \A i \in Rows' :
        /\ i \in Rows
        /\ models'[i].path = models[i].path
        /\ models'[i].files = models[i].files
        /\ i \notin touched => models'[i].missing # Present
  <2> TAKE i \in Rows'
  <2>1. i \in Id /\ Exists(i)' /\ models'[i] = IF Live(i) /\ i \notin touched
                              THEN [models[i] EXCEPT !.missing = 0]
                              ELSE models[i]
    BY DEF MarkModelsMissing, Rows
  <2>2. Exists(i)
    BY <2>1 DEF Exists, Live
  <2>3. models[i] \in Row
    BY <2>1, <2>2, RowUpdate DEF ScanInv, TypeOK
  <2> QED
    BY <2>1, <2>2, <2>3 DEF Row, Rows, Live, Present
<1>2. FoundPaths' = FoundPaths
  BY <1>0 DEF FoundPaths
<1>3. UniquePaths'
  BY <1>1 DEF ScanInv, UniquePaths
<1>4. LocalsMatch'
  BY <1>0, <1>2 DEF ScanInv, LocalsMatch, Reconciling
<1>5. TouchedMatch'
  BY <1>0, <1>1 DEF ScanInv, TouchedMatch
<1>6. MarkedMatch'
  <2>1. \A i \in LiveRows' : i \in Rows' /\ models'[i].missing = Present
    BY DEF LiveRows, Live, Rows
  <2>2. LiveRows' \subseteq touched
    BY <1>1, <2>1
  <2> QED
    BY <1>0, <1>1, <1>2, <2>2 DEF ScanInv, MarkedMatch
<1> QED
  BY <1>3, <1>4, <1>5, <1>6 DEF ScanInv

\* Every step of a scan keeps the relation.
LEMMA ScanStepInv ==
  ASSUME ScanInv, TypeOK', ScanStep
  PROVE  ScanInv'
<1>1. CASE StartScan \/ MatchRenames \/ BeginUpserts \/ \E p \in Path : WalkFolder(p)
  BY <1>1, BeforeUpserts
  DEF StartScan, MatchRenames, BeginUpserts, WalkFolder, ScanInv, LocalsMatch,
      Reconciling, tableVars, upsertVars
<1>2. CASE CheckHealth
  <2>1. CASE EndScan("storage_unavailable") \/ EndScan("empty_root")
    BY <1>2, <2>1, EndScanInv DEF CheckHealth, tableVars
  <2>2. CASE phase' = "walk" /\ UNCHANGED upsertVars
    BY <1>2, <2>2, BeforeUpserts
    DEF CheckHealth, ScanInv, LocalsMatch, Reconciling, tableVars, upsertVars
  <2> QED
    BY <1>2, <2>1, <2>2 DEF CheckHealth, upsertVars
<1>3. CASE CheckDisappearance
  <2>1. CASE EndScan("mass_disappearance")
    BY <1>3, <2>1, EndScanInv DEF CheckDisappearance, tableVars
  <2>2. CASE phase' = "match" /\ UNCHANGED upsertVars
    BY <1>3, <2>2, BeforeUpserts
    DEF CheckDisappearance, ScanInv, LocalsMatch, Reconciling, tableVars, upsertVars
  <2> QED
    BY <1>3, <2>1, <2>2 DEF CheckDisappearance
<1>4. CASE FinishScan
  BY <1>4, EndScanInv DEF FinishScan, tableVars
<1> QED
  BY <1>1, <1>2, <1>3, <1>4, FoldRenameInv, UpsertModelInv, UpsertPartInv,
     UpsertFilesInv, MarkFilesInv, MarkModelsInv
  DEF ScanStep

\* So does every step beside it: the owner, the user, the days and the prune.
LEMMA OtherStepInv ==
  ASSUME ScanInv, TypeOK',
         OwnerStep \/ UserStep \/ PassDay \/ PruneStep \/ UNCHANGED vars
  PROVE  ScanInv'
<1>0. models \in [Id -> Row \cup {NoModel}]
  BY DEF ScanInv, TypeOK, TableTypeOK
<1>1. CASE UNCHANGED models /\ UNCHANGED scanVars
  BY <1>1, OnlyFewerRows DEF Exists, Live
<1>2. ASSUME NEW i \in Id, DeleteModel(i) PROVE ScanInv'
  <2>1. \A j \in Id : models'[j] = IF j = i THEN NoModel ELSE models[j]
    BY <1>0, <1>2 DEF DeleteModel
  <2>2. \A j \in Id : Exists(j)' => Exists(j) /\ models'[j] = models[j]
    BY <2>1 DEF Exists
  <2> QED
    BY <1>2, <2>2, OnlyFewerRows DEF DeleteModel, Live
<1>3. CASE FinishPrune
  <2>1. \A j \in Id : Exists(j)' => Exists(j) /\ models'[j] = models[j]
    BY <1>0, <1>3 DEF FinishPrune, Exists
  <2> QED
    BY <1>3, <2>1, OnlyFewerRows DEF FinishPrune, Live
<1>4. CASE PassDay
  <2>1. \A j \in Id : Exists(j)' =>
          /\ Exists(j)
          /\ models'[j].path = models[j].path
          /\ models'[j].files = models[j].files
          /\ Live(j)' => Live(j)
    <3> SUFFICES ASSUME NEW j \in Id, Exists(j)'
                 PROVE  /\ Exists(j)
                        /\ models'[j].path = models[j].path
                        /\ models'[j].files = models[j].files
                        /\ Live(j)' => Live(j)
      OBVIOUS
    <3>1. models'[j] = IF Ageing(j) THEN [models[j] EXCEPT !.missing = @ + 1]
                       ELSE models[j]
      BY <1>4 DEF PassDay
    <3>2. Exists(j)
      BY <3>1 DEF Exists, Ageing
    <3>3. models[j] \in Row
      BY <3>2, RowUpdate DEF ScanInv, TypeOK
    <3>4. CASE Ageing(j)
      <4>1. models'[j].missing = models[j].missing + 1 /\ models[j].missing \in 0..(GraceDays - 1)
        BY <3>1, <3>3, <3>4 DEF Row, Ageing
      <4>2. ~Live(j)'
        BY <4>1, ScanAssumption DEF Live, Present
      <4> QED
        BY <3>1, <3>2, <3>3, <3>4, <4>2 DEF Row
    <3>5. CASE ~Ageing(j)
      BY <3>1, <3>2, <3>5 DEF Live
    <3> QED
      BY <3>4, <3>5
  <2> QED
    BY <1>4, <2>1, OnlyFewerRows DEF PassDay
<1> QED
  BY <1>1, <1>2, <1>3, <1>4
  DEF OwnerStep, WriteFolder, RenameFolder, ChangeDisk, LoseVolume, RestoreVolume,
      UserStep, RecordExclusion, RestoreExclusion, PruneStep, BeginPrune, vars,
      tableVars

\* The relation is inductive ...
LEMMA NextInv == ScanInv /\ [Next]_vars => ScanInv'
<1> SUFFICES ASSUME ScanInv, [Next]_vars PROVE ScanInv'
  OBVIOUS
<1>1. TypeOK'
  BY NextType DEF ScanInv
<1>2. CASE InterruptScan
  BY <1>1, <1>2, EndScanInv DEF InterruptScan, tableVars
<1> QED
  BY <1>1, <1>2, ScanStepInv, OtherStepInv DEF Next

\* ... and holds of the empty table.
LEMMA InitInv == Init => ScanInv
<1> SUFFICES ASSUME Init PROVE ScanInv
  OBVIOUS
<1>1. Rows = {}
  BY DEF Init, Rows, Exists
<1>2. phase = "idle" /\ done = {} /\ touched = {}
  BY DEF Init
<1>3. UniquePaths /\ LocalsMatch /\ TouchedMatch /\ MarkedMatch
  BY <1>1, <1>2 DEF UniquePaths, LocalsMatch, TouchedMatch, MarkedMatch, Reconciling
<1> QED
  BY <1>3, InitType DEF ScanInv

\* The relation between the scan's locals and the table holds throughout.
THEOREM ScanInvariant == Spec => []ScanInv
  BY InitInv, NextInv, PTL DEF Spec

\* Whatever a scan raced with, when it is about to report success the live rows
\* are the folders it walked and was not told to leave out, file by file.
THEOREM IndexIsWhatWasWalked == Spec => []IndexMatchesWalk
<1>1. ScanInv => IndexMatchesWalk
  <2> SUFFICES ASSUME ScanInv, phase = "finish", NEW i \in LiveRows
               PROVE  /\ models[i].path \in FoundPaths \ excluded
                      /\ models[i].files = walked[models[i].path]
    BY DEF IndexMatchesWalk
  <2>1. i \in Rows \cap touched
    BY DEF ScanInv, MarkedMatch, LiveRows, Live, Rows
  <2> QED
    BY <2>1 DEF ScanInv, TouchedMatch, MarkedMatch
<1> QED
  BY <1>1, ScanInvariant, PTL

----------------------------------------------------------------------------
(* What a step may never do to a row. *)

\* No step of a scan deletes a row, and only the last statement of markMissing
\* takes a live row away: one whose folder this scan did not meet.
LEMMA ScanStepRow ==
  ASSUME ScanInv, TypeOK', ScanStep, NEW i \in Id, Exists(i)
  PROVE  /\ Exists(i)'
         /\ Live(i) /\ ~Live(i)' => MarkModelsMissing /\ i \notin touched
<1> DEFINE Kept == /\ Exists(i)'
                   /\ Live(i) /\ ~Live(i)' => MarkModelsMissing /\ i \notin touched
<1>0. models \in [Id -> Row \cup {NoModel}] /\ models[i] \in Row
  BY RowUpdate DEF ScanInv, TypeOK, TableTypeOK
<1>1. CASE UNCHANGED models
  BY <1>1 DEF Exists, Live
<1>2. ASSUME models'[i] \in Row, models'[i].missing = models[i].missing
      PROVE  Kept
  BY <1>2, NoModelAssumption DEF Exists, Live
<1>3. ASSUME NEW j \in Id, NEW p \in Path, FoldRename(j, p) PROVE Kept
  <2>1. CASE models' = [models EXCEPT ![j].path = p]
    <3>1. models'[i] = IF i = j THEN [models[i] EXCEPT !.path = p] ELSE models[i]
      BY <1>0, <2>1
    <3>2. [models[i] EXCEPT !.path = p] \in Row
      BY RowUpdate DEF ScanInv, TypeOK
    <3>3. [models[i] EXCEPT !.path = p].missing = models[i].missing
      BY <1>0 DEF Row
    <3> QED
      BY <1>0, <1>2, <3>1, <3>2, <3>3
  <2> QED
    BY <1>1, <1>3, <2>1 DEF FoldRename
<1>4. ASSUME NEW p \in Path, NEW j \in Id, UpsertModel(p, j) PROVE Kept
  <2>1. CASE models' = [models EXCEPT ![j].missing = Present]
    <3>1. models'[i] = IF i = j THEN [models[i] EXCEPT !.missing = Present] ELSE models[i]
      BY <1>0, <2>1
    <3>2. [models[i] EXCEPT !.missing = Present] \in Row
      BY RowUpdate, ScanAssumption DEF ScanInv, TypeOK, Present
    <3>3. [models[i] EXCEPT !.missing = Present].missing = Present
      BY <1>0 DEF Row
    <3> QED
      BY <1>0, <3>1, <3>2, <3>3, NoModelAssumption DEF Exists, Live
  <2>2. CASE /\ ~Exists(j)
             /\ models' = [models EXCEPT ![j] =
                             [path |-> p, files |-> {}, missing |-> Present]]
    <3>1. models'[i] = models[i]
      BY <1>0, <2>2
    <3> QED
      BY <1>0, <1>2, <3>1
  <2> QED
    BY <1>4, <2>1, <2>2 DEF UpsertModel
<1>5. CASE UpsertFiles
  <2> DEFINE j == current[1]
             files == Merge(models[j].files, walked[current[2]])
  <2>1. CASE models' = [models EXCEPT ![j].files = files]
    <3>1. models'[i] = IF i = j THEN [models[i] EXCEPT !.files = files] ELSE models[i]
      BY <1>0, <2>1
    <3>2. models'[i] \in Row
      <4>1. models'[i] \in Row \cup {NoModel}
        BY DEF TypeOK, TableTypeOK
      <4>2. j \in Id /\ current[2] \in Path
        BY <1>5 DEF UpsertFiles, ScanInv, TypeOK, ScanTypeOK
      <4>3. walked[current[2]] \in SUBSET File
        BY <4>2, ContentIsFiles DEF ScanInv, TypeOK, ScanTypeOK
      <4>4. i = j => files \in SUBSET File
        BY <1>0, <4>3, MergeType DEF Row
      <4>5. i = j => [models[i] EXCEPT !.files = files] \in Row
        BY <4>4, RowUpdate DEF ScanInv, TypeOK
      <4> QED
        BY <1>0, <3>1, <4>5
    <3>3. models'[i].missing = models[i].missing
      BY <1>0, <3>1 DEF Row
    <3> QED
      BY <1>2, <3>2, <3>3
  <2> QED
    BY <1>1, <1>5, <2>1 DEF UpsertFiles
<1>6. CASE MarkFilesMissing
  <2> DEFINE files == IF i \in touched THEN models[i].files \cap walked[models[i].path]
                      ELSE {}
  <2>1. models'[i] = [models[i] EXCEPT !.files = files]
    BY <1>6 DEF MarkFilesMissing
  <2>2. files \in SUBSET File
    BY <1>0 DEF Row
  <2>3. [models[i] EXCEPT !.files = files] \in Row
    BY <2>2, RowUpdate DEF ScanInv, TypeOK
  <2>4. [models[i] EXCEPT !.files = files].missing = models[i].missing
    BY <1>0 DEF Row
  <2> QED
    BY <1>2, <2>1, <2>3, <2>4
<1>7. CASE MarkModelsMissing
  <2>1. models'[i] = IF Live(i) /\ i \notin touched
                     THEN [models[i] EXCEPT !.missing = 0] ELSE models[i]
    BY <1>7 DEF MarkModelsMissing
  <2>2. [models[i] EXCEPT !.missing = 0] \in Row
    BY RowUpdate, ScanAssumption DEF ScanInv, TypeOK, Present
  <2>3. Exists(i)'
    BY <1>0, <2>1, <2>2, NoModelAssumption DEF Exists
  <2>4. Live(i) /\ i \in touched => Live(i)'
    BY <2>1, <2>3 DEF Live
  <2> QED
    BY <1>7, <2>3, <2>4
<1>8. CASE \/ StartScan \/ CheckHealth \/ CheckDisappearance \/ MatchRenames
           \/ BeginUpserts \/ FinishScan \/ \E p \in Path : WalkFolder(p)
  BY <1>1, <1>8
  DEF StartScan, CheckHealth, CheckDisappearance, MatchRenames, BeginUpserts,
      FinishScan, WalkFolder, tableVars
<1>9. CASE UpsertPartOfFiles
  BY <1>0, <1>9, PartOfFiles DEF ScanInv, Live
<1> QED
  BY <1>3, <1>4, <1>5, <1>6, <1>7, <1>8, <1>9 DEF ScanStep

\* A row leaves the table by a removal, or by the prune once it has expired.
LEMMA NextKeepsRows ==
  ASSUME ScanInv, [Next]_vars, NEW i \in Id, Exists(i), ~Exists(i)'
  PROVE  i \in removing \/ models[i].missing = GraceDays
<1>0. TypeOK'
  BY NextType DEF ScanInv
<1>1. models \in [Id -> Row \cup {NoModel}]
  BY DEF ScanInv, TypeOK, TableTypeOK
<1>2. CASE UNCHANGED models
  BY <1>2 DEF Exists
<1>3. CASE ScanStep
  BY <1>0, <1>3, ScanStepRow
<1>4. ASSUME NEW j \in Id, DeleteModel(j) PROVE i \in removing
  BY <1>1, <1>4 DEF DeleteModel, Exists
<1>5. CASE PassDay
  <2>1. Ageing(i)
    BY <1>5 DEF PassDay, Exists
  <2> DEFINE m == models[i].missing + 1
  <2>2. m \in Present..GraceDays
    BY <2>1, ScanAssumption DEF Ageing, Present
  <2>3. \A n \in Present..GraceDays : [models[i] EXCEPT !.missing = n] \in Row
    BY RowUpdate DEF ScanInv, TypeOK
  <2>4. models'[i] = [models[i] EXCEPT !.missing = m]
    BY <1>5, <2>1 DEF PassDay
  <2> HIDE DEF m
  <2>5. models'[i] \in Row
    BY <2>2, <2>3, <2>4
  <2> QED
    BY <2>5, NoModelAssumption DEF Exists
<1>6. CASE FinishPrune
  BY <1>6 DEF FinishPrune, Expired, Exists
<1>7. CASE InterruptScan
  BY <1>2, <1>7 DEF InterruptScan, tableVars
<1> QED
  BY <1>2, <1>3, <1>4, <1>5, <1>6, <1>7
  DEF Next, OwnerStep, WriteFolder, RenameFolder, ChangeDisk, LoseVolume,
      RestoreVolume, UserStep, RecordExclusion, RestoreExclusion, PruneStep,
      BeginPrune, vars, tableVars

\* A live row that stays in the table goes missing only in markMissing.
LEMMA NextKeepsLive ==
  ASSUME ScanInv, [Next]_vars, NEW i \in Id, Live(i), Exists(i)', ~Live(i)'
  PROVE  MarkModelsMissing /\ i \notin touched
<1>0. TypeOK' /\ Exists(i)
  BY NextType DEF ScanInv, Live
<1>1. models \in [Id -> Row \cup {NoModel}]
  BY DEF ScanInv, TypeOK, TableTypeOK
<1>2. CASE models'[i] = models[i]
  BY <1>2 DEF Exists, Live
<1>3. CASE ScanStep
  BY <1>0, <1>3, ScanStepRow
<1>4. ASSUME NEW j \in Id, DeleteModel(j) PROVE models'[i] = models[i]
  BY <1>1, <1>4 DEF DeleteModel, Exists
<1>5. CASE PassDay
  BY <1>2, <1>5 DEF PassDay, Ageing, Live, Present
<1>6. CASE FinishPrune
  BY <1>2, <1>6 DEF FinishPrune, Exists
<1>7. CASE InterruptScan
  BY <1>2, <1>7 DEF InterruptScan, tableVars
<1> QED
  BY <1>2, <1>3, <1>4, <1>5, <1>6, <1>7
  DEF Next, OwnerStep, WriteFolder, RenameFolder, ChangeDisk, LoseVolume,
      RestoreVolume, UserStep, RecordExclusion, RestoreExclusion, PruneStep,
      BeginPrune, vars, tableVars

\* Metadata dies by the user's hand or after the whole grace period, for any
\* grace period and however scans, crashes and outages fall between the days.
THEOREM GracePeriodKept == Spec => KeptForGracePeriod
<1>1. ScanInv /\ [Next]_vars =>
        [\A i \in Id : (Exists(i) /\ ~Exists(i)') =>
           i \in removing \/ models[i].missing = GraceDays]_vars
  BY NextKeepsRows
<1> QED
  BY <1>1, ScanInvariant, PTL DEF Spec, KeptForGracePeriod

\* A row goes missing only when the scan did not find its folder, or the user
\* had excluded it.
THEOREM OnlyGoneGoesMissing == Spec => MissingMeansGone
<1>1. ASSUME ScanInv, [Next]_vars, NEW i \in Id, Live(i), Exists(i)', ~Live(i)'
      PROVE  models[i].path \notin FoundPaths \ excluded
  <2>1. phase = "mark" /\ i \notin touched
    BY <1>1, NextKeepsLive DEF MarkModelsMissing
  <2>2. i \in Rows
    BY <1>1 DEF Rows, Live
  <2> QED
    BY <1>1, <2>1, <2>2 DEF ScanInv, MarkedMatch, TouchedMatch
<1>2. ScanInv /\ [Next]_vars =>
        [\A i \in Id : (Live(i) /\ Exists(i)' /\ ~Live(i)') =>
           models[i].path \notin FoundPaths \ excluded]_vars
  BY <1>1
<1> QED
  BY <1>2, ScanInvariant, PTL DEF Spec, MissingMeansGone

----------------------------------------------------------------------------
(* The threshold. *)

Guarding == phase \in {"match", "fold", "upsert", "files", "mark"}

\* What would go missing stays within the threshold the guard has tested, since
\* renames are folded, and rows revived, onto folders that were found.
GuardHeld ==
  /\ matches # {} => phase = "fold"
  /\ \A m \in matches : m[2] \in FoundPaths
  /\ Guarding => ~TooManyGone

\* A set with fewer elements does not exceed what a larger one does not.
LEMMA FewerIsLess ==
  ASSUME NEW S, IsFiniteSet(S), NEW T \in SUBSET S, NEW limit \in Nat,
         ~(Cardinality(S) * 100 > limit)
  PROVE  ~(Cardinality(T) * 100 > limit)
<1>1. /\ Cardinality(T) <= Cardinality(S) /\ Cardinality(S) \in Nat /\ Cardinality(T) \in Nat
  BY FS_Subset, FS_CardinalityType
<1> QED
  BY <1>1

\* The rows at stake are finitely many, and the threshold is a number.
LEMMA StakesAreFinite == TypeOK => IsFiniteSet(WouldGoMissing) /\ ThresholdPercent * known \in Nat
<1> SUFFICES ASSUME TypeOK PROVE IsFiniteSet(WouldGoMissing) /\ ThresholdPercent * known \in Nat
  OBVIOUS
<1>1. IsFiniteSet(WouldGoMissing)
  BY ScanAssumption, FS_Subset DEF WouldGoMissing, LiveRows
<1>2. ThresholdPercent \in Nat /\ known \in Nat
  BY ScanAssumption DEF TypeOK, ScanTypeOK
<1>3. \A a, b \in Nat : a * b \in Nat
  OBVIOUS
<1> QED
  BY <1>1, <1>2, <1>3

\* Between the guard and the mark a scan's options and its walk stay.
LEMMA GuardingKeeps ==
  ASSUME [Next]_vars, Guarding, Guarding'
  PROVE  UNCHANGED <<walked, force, known>>
<1> USE DEF Guarding
<1>1. \A r : ~EndScan(r)
  BY DEF EndScan
<1>2. CASE ScanStep
  BY <1>1, <1>2
  DEF ScanStep, StartScan, CheckHealth, WalkFolder, CheckDisappearance, MatchRenames, FoldRename,
      BeginUpserts, UpsertModel, UpsertPartOfFiles, UpsertFiles, MarkFilesMissing,
      MarkModelsMissing, FinishScan, scanVars, gateVars, walkVars
<1>3. CASE InterruptScan
  BY <1>1, <1>3 DEF InterruptScan
<1>4. CASE OwnerStep \/ UserStep \/ PassDay \/ PruneStep \/ UNCHANGED vars
  BY <1>4
  DEF OwnerStep, WriteFolder, RenameFolder, ChangeDisk, LoseVolume, RestoreVolume, UserStep,
      RecordExclusion, DeleteModel, RestoreExclusion, PassDay, PruneStep, BeginPrune, FinishPrune,
      vars, scanVars, gateVars, walkVars
<1> QED
  BY <1>2, <1>3, <1>4 DEF Next

\* A scan puts rows only where it has found a folder.
LEMMA ScanOnlySaves ==
  ASSUME ScanInv, GuardHeld, ScanStep, Guarding, Guarding', walked' = walked,
         NEW i \in Id, Live(i)', models'[i].path \notin FoundPaths
  PROVE  Live(i) /\ models[i].path = models'[i].path
<1> DEFINE Same == Live(i) /\ models[i].path = models'[i].path
<1>0. models \in [Id -> Row \cup {NoModel}]
  BY DEF ScanInv, TypeOK, TableTypeOK
<1>1. CASE models'[i] = models[i]
  BY <1>1 DEF Live, Exists
<1>2. ASSUME NEW j \in Id, NEW p \in Path, FoldRename(j, p) PROVE Same
  <2>1. p \in FoundPaths
    BY <1>2 DEF FoldRename, GuardHeld
  <2>2. ASSUME Exists(j), models' = [models EXCEPT ![j].path = p] PROVE Same
    <3>1. i = j => models'[i].path = p
      <4>1. models[j] \in Row
        BY <1>0, <2>2 DEF Exists
      <4> QED
        BY <1>0, <2>2, <4>1 DEF Row
    <3>2. i # j
      BY <2>1, <3>1
    <3> QED
      BY <1>0, <1>1, <2>2, <3>2
  <2> QED
    BY <1>1, <1>2, <2>2 DEF FoldRename
<1>3. ASSUME NEW p \in Path, NEW j \in Id, UpsertModel(p, j) PROVE Same
  <2>1. p \in FoundPaths
    BY <1>3 DEF UpsertModel, ToUpsert
  <2>2. i = j => models'[i].path = p
    <3>1. CASE j \in RowsAt(p) /\ models' = [models EXCEPT ![j].missing = Present]
      <4>1. models[j] \in Row /\ models[j].path = p
        BY <1>0, <3>1 DEF RowsAt, Rows, Exists
      <4> QED
        BY <1>0, <3>1, <4>1 DEF Row
    <3>2. CASE models' = [models EXCEPT ![j] = [path |-> p, files |-> {}, missing |-> Present]]
      BY <1>0, <3>2
    <3> QED
      BY <1>3, <3>1, <3>2 DEF UpsertModel
  <2>3. i # j
    BY <2>1, <2>2
  <2> QED
    BY <1>0, <1>1, <1>3, <2>3 DEF UpsertModel
<1>4. CASE UpsertFiles
  <2> DEFINE j == current[1]
             files == Merge(models[j].files, walked[current[2]])
  <2>1. ASSUME Exists(j), models' = [models EXCEPT ![j].files = files] PROVE Same
    <3>1. j \in Id
      BY <1>4 DEF UpsertFiles, ScanInv, TypeOK, ScanTypeOK
    <3>2. models[j] \in Row
      BY <1>0, <2>1, <3>1 DEF Exists
    <3> HIDE DEF files
    <3>3. i = j => models'[i].path = models[i].path /\ models'[i].missing = models[i].missing
      BY <1>0, <2>1, <3>1, <3>2 DEF Row
    <3>4. i # j => models'[i] = models[i]
      BY <1>0, <2>1
    <3> QED
      BY <1>1, <2>1, <3>3, <3>4 DEF Live
  <2> QED
    BY <1>1, <1>4, <2>1 DEF UpsertFiles
<1>5. CASE MarkFilesMissing
  <2> DEFINE files == IF i \in touched THEN models[i].files \cap walked[models[i].path] ELSE {}
  <2>1. Exists(i)
    BY <1>5 DEF MarkFilesMissing, Live, Exists
  <2>2. models'[i] = [models[i] EXCEPT !.files = files]
    BY <1>5, <2>1 DEF MarkFilesMissing
  <2> HIDE DEF files
  <2>3. models[i] \in Row
    BY <1>0, <2>1 DEF Exists
  <2>4. models'[i].path = models[i].path /\ models'[i].missing = models[i].missing
    BY <2>2, <2>3 DEF Row
  <2> QED
    BY <2>1, <2>4 DEF Live
<1>6. CASE MarkModelsMissing \/ StartScan \/ CheckHealth \/ CheckDisappearance \/ FinishScan
             \/ \E p \in Path : WalkFolder(p)
  BY <1>6 DEF MarkModelsMissing, StartScan, CheckHealth, CheckDisappearance, FinishScan, WalkFolder,
              EndScan, Guarding
<1>7. CASE MatchRenames \/ BeginUpserts
  BY <1>1, <1>7 DEF MatchRenames, BeginUpserts, tableVars
<1>8. CASE UpsertPartOfFiles
  <2>1. Exists(i) => Same
    BY <1>8, PartOfFiles DEF ScanInv, Live
  <2>2. ~Exists(i) => models'[i] = models[i]
    BY <1>8, PartOfFiles DEF ScanInv
  <2> QED
    BY <1>1, <2>1, <2>2
<1> QED
  BY <1>2, <1>3, <1>4, <1>5, <1>6, <1>7, <1>8 DEF ScanStep

\* Nobody else revives a row or moves it.
LEMMA OthersOnlySave ==
  ASSUME ScanInv, InterruptScan \/ OwnerStep \/ UserStep \/ PassDay \/ PruneStep \/ UNCHANGED vars,
         NEW i \in Id, Live(i)'
  PROVE  Live(i) /\ models[i].path = models'[i].path
<1>0. models \in [Id -> Row \cup {NoModel}]
  BY DEF ScanInv, TypeOK, TableTypeOK
<1>1. CASE models'[i] = models[i]
  BY <1>1 DEF Live, Exists
<1>2. ASSUME NEW j \in Id, DeleteModel(j) PROVE models'[i] = models[i]
  BY <1>0, <1>2 DEF DeleteModel, Live, Exists
<1>3. CASE FinishPrune
  BY <1>1, <1>3 DEF FinishPrune, Live, Exists
<1>4. CASE PassDay
  <2>1. models'[i] = IF Ageing(i) THEN [models[i] EXCEPT !.missing = @ + 1] ELSE models[i]
    BY <1>4 DEF PassDay
  <2>2. ~Ageing(i)
    <3> SUFFICES ASSUME Ageing(i) PROVE FALSE
      OBVIOUS
    <3>1. models[i] \in Row /\ models[i].missing \in 0..(GraceDays - 1)
      BY <1>0 DEF Ageing, Exists
    <3>2. models'[i].missing = models[i].missing + 1
      BY <2>1, <3>1 DEF Row
    <3> QED
      BY <3>1, <3>2, ScanAssumption DEF Live, Present
  <2> QED
    BY <1>1, <2>1, <2>2
<1> QED
  BY <1>1, <1>2, <1>3, <1>4
  DEF InterruptScan, OwnerStep, WriteFolder, RenameFolder, ChangeDisk, LoseVolume, RestoreVolume,
      UserStep, RecordExclusion, RestoreExclusion, PruneStep, BeginPrune, vars, tableVars

\* What has passed the guard stays within it to the end.
LEMMA GuardStays ==
  ASSUME ScanInv, GuardHeld, [Next]_vars, Guarding, Guarding'
  PROVE  ~TooManyGone'
<1>1. UNCHANGED <<walked, force, known>>
  BY GuardingKeeps
<1>2. FoundPaths' = FoundPaths
  BY <1>1 DEF FoundPaths
<1>3. WouldGoMissing' \subseteq WouldGoMissing
  <2> SUFFICES ASSUME NEW i \in Id, Live(i)', models'[i].path \notin FoundPaths
               PROVE  Live(i) /\ models[i].path \notin FoundPaths
    BY <1>2 DEF WouldGoMissing, LiveRows
  <2> QED
    BY <1>1, ScanOnlySaves, OthersOnlySave DEF Next
<1>4. TypeOK
  BY DEF ScanInv
<1> DEFINE limit == ThresholdPercent * known
<1>5. IsFiniteSet(WouldGoMissing) /\ limit \in Nat
  BY <1>4, StakesAreFinite
<1>6. ~(~force /\ known >= MinModels /\ Cardinality(WouldGoMissing) * 100 > limit)
  BY DEF GuardHeld, TooManyGone
<1>7. TooManyGone' = (~force /\ known >= MinModels /\ Cardinality(WouldGoMissing') * 100 > limit)
  BY <1>1 DEF TooManyGone
<1> HIDE DEF limit
<1> QED
  BY <1>3, <1>5, <1>6, <1>7, FewerIsLess

\* The guard and the renames it lets through hold up.
LEMMA GuardStep == ScanInv /\ GuardHeld /\ [Next]_vars => GuardHeld'
<1> SUFFICES ASSUME ScanInv, GuardHeld, [Next]_vars PROVE GuardHeld'
  OBVIOUS
<1>1. Guarding' => ~TooManyGone'
  <2>1. CASE Guarding
    BY <2>1, GuardStays
  <2>2. CASE ~Guarding /\ Guarding'
    <3>1. CheckDisappearance /\ ~TooManyGone /\ UNCHANGED <<models, walked, force, known>>
      <4>1. \A r : ~EndScan(r)
        BY <2>2 DEF EndScan, Guarding
      <4>2. CASE ScanStep
        BY <2>2, <4>1, <4>2
        DEF ScanStep, StartScan, CheckHealth, WalkFolder, CheckDisappearance, MatchRenames,
            FoldRename, BeginUpserts, UpsertModel, UpsertPartOfFiles, UpsertFiles,
            MarkFilesMissing, MarkModelsMissing, FinishScan, Guarding, scanVars, gateVars, walkVars, tableVars
      <4>3. ~InterruptScan
        BY <4>1 DEF InterruptScan
      <4>4. OwnerStep \/ UserStep \/ PassDay \/ PruneStep \/ UNCHANGED vars => UNCHANGED phase
        BY DEF OwnerStep, WriteFolder, RenameFolder, ChangeDisk, LoseVolume, RestoreVolume, UserStep,
               RecordExclusion, DeleteModel, RestoreExclusion, PassDay, PruneStep, BeginPrune,
               FinishPrune, vars, scanVars
      <4> QED
        BY <2>2, <4>2, <4>3, <4>4 DEF Next, Guarding
    <3>2. WouldGoMissing' = WouldGoMissing
      BY <3>1 DEF WouldGoMissing, LiveRows, Live, Exists, FoundPaths
    <3> QED
      BY <3>1, <3>2 DEF TooManyGone
  <2> QED
    BY <2>1, <2>2
<1>2. (matches' # {} => phase' = "fold") /\ \A m \in matches' : m[2] \in FoundPaths'
  <2> DEFINE Kept == (matches' # {} => phase' = "fold") /\ \A m \in matches' : m[2] \in FoundPaths'
  <2>1. CASE matches' = {}
    BY <2>1
  <2>2. CASE matches' \subseteq matches /\ phase' = phase /\ walked' = walked
    BY <2>2 DEF GuardHeld, FoundPaths
  <2>3. CASE phase # "fold" /\ matches' = matches
    BY <2>3 DEF GuardHeld
  <2>4. CASE MatchRenames
    <3>1. \A m \in matches' : m[2] \in FoundPaths
      <4> DEFINE Matched == {i \in Vanished : Recognisable(i) /\ Candidates(i) # {}}
      <4>1. PICK target \in [Matched -> Path] :
              /\ \A i \in Matched : target[i] \in Candidates(i)
              /\ matches' = {<<i, target[i]>> : i \in Matched}
        BY <2>4 DEF MatchRenames
      <4> HIDE DEF Matched
      <4> QED
        BY <4>1 DEF Candidates, NewFolders
    <3> QED
      BY <2>4, <3>1 DEF MatchRenames, walkVars, FoundPaths
  <2>5. ASSUME NEW i \in Id, NEW p \in Path, FoldRename(i, p) PROVE Kept
    BY <2>1, <2>2, <2>5 DEF FoldRename, EndScan, walkVars
  <2>6. ASSUME NEW r, EndScan(r) PROVE Kept
    BY <2>1, <2>6 DEF EndScan
  <2>7. CASE BeginUpserts
    BY <2>1, <2>7 DEF BeginUpserts, foldVars
  <2>8. CASE StartScan \/ CheckHealth \/ CheckDisappearance \/ UpsertFiles \/ MarkFilesMissing
             \/ MarkModelsMissing \/ FinishScan \/ InterruptScan \/ UpsertPartOfFiles
             \/ \E p \in Path : WalkFolder(p) \/ \E i \in Id : UpsertModel(p, i)
    BY <2>3, <2>6, <2>8
    DEF StartScan, CheckHealth, CheckDisappearance, UpsertFiles, MarkFilesMissing,
        MarkModelsMissing, FinishScan, InterruptScan, WalkFolder, UpsertModel, foldVars,
        UpsertPartOfFiles, scanVars
  <2>9. CASE OwnerStep \/ UserStep \/ PassDay \/ PruneStep \/ UNCHANGED vars
    BY <2>2, <2>9
    DEF OwnerStep, WriteFolder, RenameFolder, ChangeDisk, LoseVolume, RestoreVolume, UserStep,
        RecordExclusion, DeleteModel, RestoreExclusion, PassDay, PruneStep, BeginPrune, FinishPrune,
        vars, scanVars, foldVars, walkVars
  <2> QED
    BY <2>4, <2>5, <2>7, <2>8, <2>9 DEF Next, ScanStep
<1> QED
  BY <1>1, <1>2 DEF GuardHeld

\* An unforced scan takes at most the threshold of the models it counted away,
\* those the user excluded apart, whatever happens between its guard and its mark.
THEOREM NoMassDisappearance == Spec => MassDisappearanceRefused
<1>1. Init => GuardHeld
  BY DEF Init, GuardHeld, Guarding
<1>2. ASSUME ScanInv, GuardHeld, MarkModelsMissing, ~force, known >= MinModels
      PROVE  LET lost == {i \in LiveRows : ~Live(i)' /\ models[i].path \notin excluded}
             IN Cardinality(lost) * 100 <= ThresholdPercent * known
  <2> DEFINE lost == {i \in LiveRows : ~Live(i)' /\ models[i].path \notin excluded}
             limit == ThresholdPercent * known
  <2>1. lost \subseteq WouldGoMissing
    <3> SUFFICES ASSUME NEW i \in lost PROVE models[i].path \notin FoundPaths
      BY DEF WouldGoMissing
    <3>1. i \in Rows /\ i \in Id /\ Live(i)
      BY DEF LiveRows, Live, Rows
    <3>2. i \notin touched
      BY <1>2, <3>1 DEF MarkModelsMissing, Live, Exists
    <3>3. phase = "mark"
      BY <1>2 DEF MarkModelsMissing
    <3> QED
      BY <1>2, <3>1, <3>2, <3>3 DEF ScanInv, TouchedMatch, MarkedMatch
  <2>2. IsFiniteSet(WouldGoMissing) /\ limit \in Nat
    BY <1>2, StakesAreFinite DEF ScanInv
  <2>3. ~(Cardinality(WouldGoMissing) * 100 > limit)
    BY <1>2 DEF MarkModelsMissing, GuardHeld, Guarding, TooManyGone
  <2>4. Cardinality(lost) \in Nat
    BY <2>1, <2>2, FS_Subset, FS_CardinalityType
  <2> HIDE DEF lost, limit
  <2>5. ~(Cardinality(lost) * 100 > limit)
    BY <2>1, <2>2, <2>3, FewerIsLess
  <2>6. Cardinality(lost) * 100 <= limit
    BY <2>2, <2>4, <2>5
  <2> QED
    BY <2>6 DEF lost, limit
<1>3. ScanInv /\ GuardHeld /\ [Next]_vars =>
        [(MarkModelsMissing /\ ~force /\ known >= MinModels) =>
           LET lost == {i \in LiveRows : ~Live(i)' /\ models[i].path \notin excluded}
           IN Cardinality(lost) * 100 <= ThresholdPercent * known]_vars
  BY <1>2
<1> QED
  BY <1>1, <1>3, GuardStep, ScanInvariant, PTL DEF Spec, MassDisappearanceRefused

----------------------------------------------------------------------------
(* What the prune leaves. *)

\* No step of a scan brings a row to the end of its grace period.
LEMMA ScanStepExpires ==
  ASSUME ScanInv, ScanStep, NEW i \in Id, Expired(i)'
  PROVE  Expired(i)
<1>0. models \in [Id -> Row \cup {NoModel}] /\ (Exists(i) => models[i] \in Row)
  BY DEF ScanInv, TypeOK, TableTypeOK, Exists
<1>1. CASE models'[i] = models[i]
  BY <1>1 DEF Expired, Exists
<1>2. CASE Exists(i) /\ models'[i].missing = models[i].missing
  BY <1>2 DEF Expired
<1>3. ASSUME models'[i].missing \in {Present, 0} PROVE FALSE
  BY <1>3, ScanAssumption DEF Expired, Present
<1>4. ASSUME NEW j \in Id, NEW p \in Path, FoldRename(j, p) PROVE Expired(i)
  <2>1. CASE Exists(j) /\ models' = [models EXCEPT ![j].path = p]
    <3>1. i = j => models'[i] = [models[i] EXCEPT !.path = p]
      BY <1>0, <2>1
    <3>2. i = j => Exists(i) /\ models'[i].missing = models[i].missing
      BY <1>0, <2>1, <3>1 DEF Row
    <3>3. i # j => models'[i] = models[i]
      BY <1>0, <2>1
    <3> QED
      BY <1>1, <1>2, <3>2, <3>3
  <2> QED
    BY <1>1, <1>4, <2>1 DEF FoldRename
<1>5. ASSUME NEW p \in Path, NEW j \in Id, UpsertModel(p, j) PROVE Expired(i)
  <2>1. i # j => models'[i] = models[i]
    BY <1>0, <1>5 DEF UpsertModel
  <2>2. CASE i = j
    <3>1. CASE i \in RowsAt(p) /\ models' = [models EXCEPT ![j].missing = Present]
      <4>1. models[i] \in Row /\ models'[i] = [models[i] EXCEPT !.missing = Present]
        BY <1>0, <2>2, <3>1 DEF RowsAt, Rows
      <4> QED
        BY <1>3, <4>1 DEF Row
    <3>2. CASE models' = [models EXCEPT ![j] = [path |-> p, files |-> {}, missing |-> Present]]
      BY <1>0, <1>3, <2>2, <3>2
    <3> QED
      BY <1>5, <2>2, <3>1, <3>2 DEF UpsertModel
  <2> QED
    BY <1>1, <2>1, <2>2
<1>6. CASE UpsertFiles
  <2> DEFINE j == current[1]
             files == Merge(models[j].files, walked[current[2]])
  <2>1. CASE Exists(j) /\ models' = [models EXCEPT ![j].files = files]
    <3>1. i = j => models'[i] = [models[i] EXCEPT !.files = files]
      BY <1>0, <2>1
    <3>2. i = j => Exists(i) /\ models'[i].missing = models[i].missing
      BY <1>0, <2>1, <3>1 DEF Row
    <3>3. i # j => models'[i] = models[i]
      BY <1>0, <2>1
    <3> QED
      BY <1>1, <1>2, <3>2, <3>3
  <2> QED
    BY <1>1, <1>6, <2>1 DEF UpsertFiles
<1>7. CASE MarkFilesMissing
  <2> DEFINE files == IF i \in touched THEN models[i].files \cap walked[models[i].path] ELSE {}
  <2>1. models'[i] = IF Exists(i) THEN [models[i] EXCEPT !.files = files] ELSE NoModel
    BY <1>7 DEF MarkFilesMissing
  <2>2. Exists(i) => models'[i].missing = models[i].missing
    BY <1>0, <2>1 DEF Row
  <2> QED
    BY <1>1, <1>2, <2>1, <2>2 DEF Exists
<1>8. CASE MarkModelsMissing
  <2>1. models'[i] = IF Live(i) /\ i \notin touched
                     THEN [models[i] EXCEPT !.missing = 0] ELSE models[i]
    BY <1>8 DEF MarkModelsMissing
  <2>2. Live(i) => [models[i] EXCEPT !.missing = 0].missing = 0
    BY <1>0 DEF Live, Row
  <2> QED
    BY <1>1, <1>3, <2>1, <2>2
<1>9. CASE \/ StartScan \/ CheckHealth \/ CheckDisappearance \/ MatchRenames
           \/ BeginUpserts \/ FinishScan \/ \E p \in Path : WalkFolder(p)
  BY <1>1, <1>9
  DEF StartScan, CheckHealth, CheckDisappearance, MatchRenames, BeginUpserts,
      FinishScan, WalkFolder, tableVars
<1>10. CASE UpsertPartOfFiles
  <2>1. Exists(i) => models'[i].missing = models[i].missing
    BY <1>10, PartOfFiles DEF ScanInv
  <2>2. ~Exists(i) => models'[i] = models[i]
    BY <1>10, PartOfFiles DEF ScanInv
  <2> QED
    BY <1>1, <1>2, <2>1, <2>2
<1> QED
  BY <1>4, <1>5, <1>6, <1>7, <1>8, <1>9, <1>10 DEF ScanStep

\* While the user removes nothing, no row waits for a removal; and a prune that
\* decided to delete has, if the library has rows at all, one that is not over.
Untouched == count.remove = 0

NoneLeaving == Untouched => removing = {}

OneStays ==
  (Untouched /\ pruning = "delete") => Rows = {} \/ \E i \in Id : Exists(i) /\ ~Expired(i)

Spares == NoneLeaving /\ OneStays

\* What leaves the rows alone, or brings none of them to its end, keeps a row
\* that stays.
LEMMA NoneEnds ==
  ASSUME OneStays, Untouched => Untouched', Untouched' => Untouched,
         pruning' = "delete" => pruning = "delete",
         \A i \in Id : Exists(i) => Exists(i)',
         \A i \in Id : Expired(i)' => Expired(i)
  PROVE  OneStays'
<1> SUFFICES ASSUME Untouched', pruning' = "delete", NEW j \in Rows'
             PROVE  \E i \in Id : Exists(i)' /\ ~Expired(i)'
  BY DEF OneStays, Rows
<1>1. j \in Id /\ Exists(j)'
  BY DEF Rows
<1>2. CASE Rows = {}
  <2>1. ~Expired(j)
    BY <1>1, <1>2 DEF Rows, Expired
  <2> QED
    BY <1>1, <2>1
<1>3. CASE \E i \in Id : Exists(i) /\ ~Expired(i)
  BY <1>3
<1> QED
  BY <1>2, <1>3 DEF OneStays

\* Only a removal counts as one.
LEMMA CountsRemovals ==
  ASSUME EventTypeOK, NEW event \in {"disk", "outage", "crash"}, Bump(event)
  PROVE  Untouched' = Untouched
  BY DEF EventTypeOK, Bump, Untouched

\* Every step keeps the library of a user who removes nothing a row.
LEMMA NextSpares ==
  ASSUME ScanInv, Spares, [Next]_vars
  PROVE  Spares'
<1>0. TypeOK /\ TypeOK' /\ EventTypeOK /\ TableTypeOK
  BY NextType DEF ScanInv, TypeOK
<1>1. CASE UNCHANGED <<models, removing, pruning>> /\ Untouched' = Untouched
  BY <1>1 DEF Spares, NoneLeaving, OneStays, Rows, Exists, Expired
<1>2. CASE ScanStep
  <2>1. Untouched' = Untouched /\ pruning' = pruning
    BY <1>2, ScanStepOthers DEF Untouched
  <2>2. removing' = removing
    BY <1>2 DEF ScanStep, StartScan, CheckHealth, WalkFolder, CheckDisappearance,
         MatchRenames, FoldRename, BeginUpserts, UpsertModel, UpsertPartOfFiles, UpsertFiles,
         MarkFilesMissing, MarkModelsMissing, FinishScan, tableVars
  <2>3. \A i \in Id : Exists(i) => Exists(i)'
    BY <1>0, <1>2, ScanStepRow
  <2>4. \A i \in Id : Expired(i)' => Expired(i)
    BY <1>2, ScanStepExpires
  <2>5. OneStays'
    BY <2>1, <2>3, <2>4, NoneEnds DEF Spares
  <2> QED
    BY <2>1, <2>2, <2>5 DEF Spares, NoneLeaving
<1>3. CASE InterruptScan
  BY <1>0, <1>1, <1>3, CountsRemovals DEF InterruptScan, tableVars
<1>4. CASE OwnerStep
  BY <1>0, <1>1, <1>4, CountsRemovals
  DEF OwnerStep, WriteFolder, RenameFolder, ChangeDisk, LoseVolume, RestoreVolume, tableVars,
      Untouched
<1>5. ASSUME NEW i \in Id, RecordExclusion(i) PROVE Spares'
  <2>1. count'.remove = count.remove + 1 /\ count.remove \in Nat
    BY <1>0, <1>5 DEF RecordExclusion, Bump, EventTypeOK
  <2> QED
    BY <2>1 DEF Spares, NoneLeaving, OneStays, Untouched
<1>6. ASSUME NEW i \in Id, DeleteModel(i) PROVE Spares'
  <2>1. ~Untouched /\ count' = count
    BY <1>6 DEF DeleteModel, Spares, NoneLeaving
  <2> QED
    BY <2>1 DEF Spares, NoneLeaving, OneStays, Untouched
<1>7. CASE \E p \in Path : RestoreExclusion(p)
  BY <1>1, <1>7 DEF RestoreExclusion, Untouched
<1>8. CASE PassDay
  BY <1>8 DEF PassDay, Spares, NoneLeaving, OneStays, Untouched
<1>9. CASE BeginPrune
  <2>1. UNCHANGED <<models, removing, count>>
    BY <1>9 DEF BeginPrune, tableVars
  <2>2. ASSUME pruning' = "delete", Rows # {} PROVE \E i \in Id : Exists(i) /\ ~Expired(i)
    <3>1. PICK i \in LiveRows : TRUE
      BY <1>9, <2>2 DEF BeginPrune, EntirelyMissing
    <3>2. i \in Id /\ Exists(i) /\ models[i].missing = Present
      BY <3>1 DEF LiveRows, Live
    <3> QED
      BY <3>2, ScanAssumption DEF Expired, Present
  <2>3. OneStays'
    BY <2>1, <2>2 DEF OneStays, Rows, Exists, Expired, Untouched
  <2> QED
    BY <2>1, <2>3 DEF Spares, NoneLeaving, Untouched
<1>10. CASE FinishPrune
  BY <1>10 DEF FinishPrune, Spares, NoneLeaving, OneStays, Untouched
<1>11. CASE UNCHANGED vars
  BY <1>1, <1>11 DEF vars, tableVars, Untouched
<1> QED
  BY <1>2, <1>3, <1>4, <1>5, <1>6, <1>7, <1>8, <1>9, <1>10, <1>11
  DEF Next, UserStep, PruneStep

\* However long the drive is away and whichever scan runs between the two
\* statements of the prune, a library whose user removed nothing keeps a row.
THEOREM LibraryKeepsARow == Spec => PruneNeverEmptiesLibrary
<1>1. Init => Spares
  BY DEF Init, Spares, NoneLeaving, OneStays
<1>2. ASSUME ScanInv, Spares, [Next]_vars, Rows # {}, Untouched
      PROVE  \E i \in Id : Exists(i)'
  <2>1. PICK i \in Id : Exists(i)
    BY <1>2 DEF Rows
  <2>2. CASE Exists(i)'
    BY <2>1, <2>2
  <2>3. CASE ~Exists(i)'
    <3>1. removing = {}
      BY <1>2 DEF Spares, NoneLeaving
    <3>2. i \notin removing /\ models[i].missing = GraceDays
      BY <1>2, <2>1, <2>3, <3>1, NextKeepsRows
    <3>3. pruning = "delete"
      <4> SUFFICES ASSUME pruning # "delete" PROVE Exists(i)'
        BY <2>3
      <4>0. TypeOK'
        BY <1>2, NextType DEF ScanInv
      <4>1. ~DeleteModel(i) /\ \A j \in Id : ~DeleteModel(j)
        BY <3>1 DEF DeleteModel
      <4>2. CASE ScanStep
        BY <1>2, <2>1, <4>0, <4>2, ScanStepRow
      <4>3. CASE PassDay
        BY <2>1, <3>2, <4>3, ScanAssumption DEF PassDay, Ageing, Exists
      <4>4. CASE FinishPrune
        BY <2>1, <4>4 DEF FinishPrune, Exists
      <4>5. CASE UNCHANGED models
        BY <2>1, <4>5 DEF Exists
      <4>6. CASE InterruptScan
        BY <4>5, <4>6 DEF InterruptScan, tableVars
      <4> QED
        BY <1>2, <4>1, <4>2, <4>3, <4>4, <4>5, <4>6
        DEF Next, OwnerStep, WriteFolder, RenameFolder, ChangeDisk, LoseVolume,
            RestoreVolume, UserStep, RecordExclusion, RestoreExclusion, PruneStep,
            BeginPrune, vars, tableVars
    <3>4. PICK j \in Id : Exists(j) /\ ~Expired(j)
      BY <1>2, <3>3 DEF Spares, OneStays
    <3>5. Exists(j)'
      BY <1>2, <3>1, <3>4, NextKeepsRows DEF Expired
    <3> QED
      BY <3>5
  <2> QED
    BY <2>2, <2>3
<1>3. ScanInv /\ Spares /\ [Next]_vars =>
        [(Rows # {} /\ count.remove = 0) => \E i \in Id : Exists(i)']_vars
  BY <1>2 DEF Untouched
<1>4. ScanInv /\ Spares /\ [Next]_vars => Spares'
  BY NextSpares
<1> QED
  BY <1>1, <1>3, <1>4, ScanInvariant, PTL DEF Spec, PruneNeverEmptiesLibrary


----------------------------------------------------------------------------
(* What several scans do to a library left alone, or to a folder renamed. *)

\* Where a scan leaves its locals: what it has still to read, and to fold.
Slate ==
  /\ phase \in {"idle", "health"} => unread = Path
  /\ phase \notin {"idle", "health", "walk"} => unread = {}
  /\ phase # "fold" => matches = {}

\* The rows a scan touched are live and those of the folders done.
TouchedLive ==
  /\ touched \subseteq LiveRows
  /\ \A p \in done : \E i \in touched : models[i].path = p

\* From the marks on no row it did not touch has a file.
MarkedEmpty ==
  phase \in {"mark", "finish"} => \A i \in Rows \ touched : models[i].files = {}

\* What a scan that nobody disturbs can rely on: besides those, that its walk is
\* the volume and its exclusions are the table.
WalkHolds ==
  /\ \A p \in Path \ unread : walked[p] = IF Visible(p) THEN disk[p] ELSE NoFolder
  /\ phase \notin {"idle", "health", "walk"} => excluded = exclusions
  /\ TouchedLive
  /\ MarkedEmpty

LiveOnDisk(i) == models[i].files = IF Live(i) THEN disk[models[i].path] ELSE {}

\* The index is the volume.
Suits ==
  /\ LivePaths = VisiblePaths \ exclusions
  /\ \A i \in Rows : LiveOnDisk(i)

\* The index is the volume but for row i, whose folder is now at q.
Awaits(i, q) ==
  /\ ~Reconciling
  /\ phase = "fold" => matches = {<<i, q>>}
  /\ i \in LiveRows
  /\ models[i].path \notin VisiblePaths \cup LooseFile
  /\ q \in VisiblePaths \ (exclusions \cup LooseFile)
  /\ models[i].files = disk[q]
  /\ {models[j].path : j \in LiveRows \ {i}} = VisiblePaths \ (exclusions \cup {q})
  /\ \A j \in Rows \ {i} : LiveOnDisk(j)

\* It is so again, with row i at q.
Arrived(i, q) ==
  Suits /\ matches = {} /\ i \in LiveRows /\ models[i].path = q

SettledSuits == since = "settled" => ~disturbed /\ Suits /\ matches = {}

RenamedArrives ==
  since = "renamed" =>
    /\ phase # "idle" => ~disturbed
    /\ rename \in Id \X Path
    /\ rename[2] \notin exclusions =>
         Awaits(rename[1], rename[2]) \/ Arrived(rename[1], rename[2])

HistoryInv == Slate /\ (~disturbed => WalkHolds) /\ SettledSuits /\ RenamedArrives

\* The history only watches.
LEMMA HistoryWatches == [Next_H]_historyVars => [Next]_vars
<1>1. ScanStep_H => Next
  BY DEF ScanStep_H, Next
<1>2. ASSUME NEW p \in Path, NEW q \in Path, RenameFolder_H(p, q) PROVE Next
  BY <1>2 DEF RenameFolder_H, Next, OwnerStep
<1>3. Other_H => Next
  BY DEF Other_H, Next, OwnerStep
<1> QED
  BY <1>1, <1>2, <1>3 DEF Next_H, Next, historyVars

\* Every step leaves the scan's locals where its next statement expects them.
LEMMA SlateStep ==
  ASSUME Slate, [Next]_vars
  PROVE  Slate'
<1>1. CASE UNCHANGED scanVars
  BY <1>1 DEF Slate, scanVars, walkVars, foldVars
<1>2. ASSUME NEW result, EndScan(result) PROVE Slate'
  BY <1>2 DEF Slate, EndScan
<1>3. CASE ScanStep
  <2>1. CASE StartScan \/ CheckHealth
    BY <1>2, <2>1 DEF StartScan, CheckHealth, Slate, walkVars, foldVars
  <2>2. CASE \E p \in Path : WalkFolder(p)
    BY <2>2 DEF WalkFolder, Slate, foldVars
  <2>3. CASE CheckDisappearance
    BY <1>2, <2>3 DEF CheckDisappearance, Slate, walkVars
  <2>4. CASE MatchRenames
    BY <2>4 DEF MatchRenames, Slate, walkVars
  <2>5. ASSUME NEW i \in Id, NEW p \in Path, FoldRename(i, p) PROVE Slate'
    BY <1>2, <2>5 DEF FoldRename, Slate, walkVars
  <2>6. CASE BeginUpserts
    BY <2>6 DEF BeginUpserts, Slate, walkVars, foldVars
  <2>7. ASSUME NEW p \in Path, NEW i \in Id, UpsertModel(p, i) PROVE Slate'
    BY <2>7 DEF UpsertModel, Slate, walkVars, foldVars
  <2>8. CASE UpsertFiles
    BY <1>2, <2>8 DEF UpsertFiles, Slate, walkVars, foldVars
  <2>9. CASE MarkFilesMissing \/ MarkModelsMissing
    BY <2>9 DEF MarkFilesMissing, MarkModelsMissing, Slate, walkVars, foldVars
  <2>10. CASE FinishScan
    BY <1>2, <2>10 DEF FinishScan
  <2>11. CASE UpsertPartOfFiles
    BY <1>1, <2>11 DEF UpsertPartOfFiles
  <2> QED
    BY <1>3, <2>1, <2>2, <2>3, <2>4, <2>5, <2>6, <2>7, <2>8, <2>9, <2>10, <2>11 DEF ScanStep
<1>4. CASE InterruptScan
  BY <1>2, <1>4 DEF InterruptScan
<1>5. CASE OwnerStep \/ UserStep \/ PassDay \/ PruneStep \/ UNCHANGED vars
  BY <1>1, <1>5
  DEF OwnerStep, WriteFolder, RenameFolder, ChangeDisk, LoseVolume, RestoreVolume,
      UserStep, RecordExclusion, DeleteModel, RestoreExclusion, PassDay, PruneStep,
      BeginPrune, FinishPrune, vars
<1> QED
  BY <1>3, <1>4, <1>5 DEF Next

\* A scan that has not begun relies on nothing yet, ...
LEMMA IdleHolds ==
  ASSUME ScanInv, Slate, phase = "idle"
  PROVE  WalkHolds
  BY DEF ScanInv, LocalsMatch, Reconciling, Slate, WalkHolds, TouchedLive, MarkedEmpty

\* ... and one that has ended on nothing any more.
LEMMA EndedHolds ==
  ASSUME NEW result, EndScan(result)
  PROVE  WalkHolds'
  BY DEF EndScan, WalkHolds, TouchedLive, MarkedEmpty

\* No row changes but in how long it is missing.
SameRows ==
  \A i \in Id :
    /\ (Exists(i)' <=> Exists(i)) /\ (Live(i)' <=> Live(i))
    /\ Exists(i) => models'[i].path = models[i].path /\ models'[i].files = models[i].files

\* Then the live rows and their paths are the same.
LEMMA SameIndex ==
  ASSUME SameRows
  PROVE  /\ Rows' = Rows /\ LiveRows' = LiveRows /\ LivePaths' = LivePaths
         /\ \A i \in LiveRows : models'[i].path = models[i].path
<1>1. Rows' = Rows /\ LiveRows' = LiveRows
  BY DEF SameRows, Rows, LiveRows
<1>2. \A i \in LiveRows : models'[i].path = models[i].path
  BY DEF SameRows, LiveRows, Live
<1> QED
  BY <1>1, <1>2 DEF LivePaths

\* What is visible depends on the volume alone.
LEMMA SameVolume ==
  ASSUME UNCHANGED diskVars
  PROVE  /\ VisiblePaths' = VisiblePaths
         /\ \A p \in Path : (Visible(p)' <=> Visible(p)) /\ disk'[p] = disk[p]
  BY DEF diskVars, VisiblePaths, Visible

\* A day only makes missing rows older.
LEMMA PassDayAges ==
  ASSUME ScanInv, PassDay
  PROVE  SameRows
<1> SUFFICES ASSUME NEW i \in Id
             PROVE  /\ (Exists(i)' <=> Exists(i)) /\ (Live(i)' <=> Live(i))
                    /\ Exists(i) => /\ models'[i].path = models[i].path
                                    /\ models'[i].files = models[i].files
  BY DEF SameRows
<1>1. CASE ~Ageing(i)
  BY <1>1 DEF PassDay, Exists, Live
<1>2. CASE Ageing(i)
  <2> DEFINE m == models[i].missing + 1
  <2>1. models[i] \in Row /\ Exists(i)
    BY <1>2, RowUpdate DEF Ageing, ScanInv, TypeOK
  <2>2. m \in 0..GraceDays /\ models[i].missing # Present
    BY <1>2, ScanAssumption DEF Ageing, Present
  <2>3. models'[i] = [models[i] EXCEPT !.missing = m]
    BY <1>2 DEF PassDay
  <2> HIDE DEF m
  <2>4. models'[i] \in Row
    BY <2>1, <2>2, <2>3, RowUpdate DEF ScanInv, TypeOK, Present
  <2>5. models'[i].missing = m
    BY <2>1, <2>3 DEF Row
  <2>6. ~Live(i) /\ ~Live(i)' /\ Exists(i)'
    BY <2>2, <2>4, <2>5, NoModelAssumption DEF Exists, Live, Present
  <2> QED
    BY <2>1, <2>3, <2>6 DEF Row
<1> QED
  BY <1>1, <1>2

\* A walk that is over has found the volume.
LEMMA WalkFound ==
  ASSUME WalkHolds, unread = {}
  PROVE  /\ FoundPaths = VisiblePaths
         /\ \A p \in VisiblePaths : walked[p] = disk[p] /\ disk[p] # {}
  BY DEF WalkHolds, FoundPaths, VisiblePaths, Visible, NoFolder

\* A row is written as the columns that change say.
LEMMA RowFiles ==
  ASSUME TypeOK, NEW i \in Rows, NEW f
  PROVE  /\ [models[i] EXCEPT !.files = f].path = models[i].path
         /\ [models[i] EXCEPT !.files = f].files = f
         /\ [models[i] EXCEPT !.files = f].missing = models[i].missing
         /\ f = models[i].files => [models[i] EXCEPT !.files = f] = models[i]
  BY RowColumns DEF Row

\* Each step of a scan that finds the index to be the volume leaves it alone.
LEMMA QuietStep ==
  ASSUME ScanInv, Slate, WalkHolds, Suits, matches = {}, ScanStep
  PROVE  UNCHANGED models /\ matches' = {}
<1> USE DEF NoFolder
<1>0. /\ models \in [Id -> Row \cup {NoModel}]
      /\ \A i \in LiveRows : i \in Id /\ i \in Rows /\ models[i] \in Row
                              /\ models[i].path \in VisiblePaths \ exclusions
                              /\ models[i].files = disk[models[i].path]
  BY RowColumns DEF ScanInv, TypeOK, TableTypeOK, LiveRows, Live, Rows, Suits,
                    LivePaths, LiveOnDisk
<1>1. CASE StartScan \/ (\E p \in Path : WalkFolder(p)) \/ BeginUpserts
  BY <1>1 DEF StartScan, WalkFolder, BeginUpserts, tableVars, foldVars
<1>2. CASE CheckHealth \/ CheckDisappearance \/ FinishScan
  BY <1>2 DEF CheckHealth, CheckDisappearance, FinishScan, EndScan, tableVars, foldVars
<1>3. CASE MatchRenames
  <2>1. phase = "match" /\ unread = {}
    BY <1>3 DEF MatchRenames, Slate
  <2>2. WouldGoMissing = {}
    BY <1>0, <2>1, WalkFound DEF WouldGoMissing
  <2>3. Vanished = {}
    BY <2>2 DEF Vanished
  <2> QED
    BY <1>3, <2>3 DEF MatchRenames, tableVars
<1>4. ASSUME NEW i \in Id, NEW p \in Path, FoldRename(i, p)
      PROVE  FALSE
  BY <1>4 DEF FoldRename
<1>5. ASSUME NEW p \in Path, NEW i \in Id, UpsertModel(p, i)
      PROVE  UNCHANGED models /\ matches' = {}
  <2>1. phase = "upsert" /\ unread = {} /\ excluded = exclusions
    BY <1>5 DEF UpsertModel, Slate, WalkHolds
  <2>2. p \in VisiblePaths \ exclusions
    BY <1>5, <2>1, WalkFound DEF UpsertModel, ToUpsert
  <2>3. PICK j \in LiveRows : models[j].path = p
    BY <2>2 DEF Suits, LivePaths
  <2>4. j \in RowsAt(p)
    BY <1>0, <2>3 DEF RowsAt
  <2>5. i \in RowsAt(p) /\ models' = [models EXCEPT ![i].missing = Present]
    BY <1>5, <2>4 DEF UpsertModel
  <2>6. i = j
    BY <2>4, <2>5 DEF RowsAt, ScanInv, UniquePaths
  <2>7. models[i].missing = Present /\ models[i] \in Row
    BY <1>0, <2>6 DEF LiveRows, Live
  <2>8. [models[i] EXCEPT !.missing = Present] = models[i]
    BY <2>7 DEF Row
  <2>9. models' = models
    BY <1>0, <2>5, <2>8
  <2> QED
    BY <1>5, <2>9 DEF UpsertModel, foldVars
<1>6. CASE UpsertFiles
  <2> DEFINE i == current[1]
             p == current[2]
  <2>1. /\ phase = "files" /\ unread = {} /\ i \in Id /\ p \in Path
        /\ i \in touched /\ i \in LiveRows
    BY <1>6 DEF UpsertFiles, Slate, ScanInv, TypeOK, ScanTypeOK, LocalsMatch, WalkHolds, TouchedLive
  <2>2. models[i].path = p /\ Exists(i) /\ p \in VisiblePaths
    BY <1>0, <2>1 DEF ScanInv, LocalsMatch, LiveRows, Live
  <2>3. models[i].files = walked[p]
    BY <1>0, <2>1, <2>2, WalkFound
  <2>4. Merge(models[i].files, walked[p]) = models[i].files
    BY <2>3 DEF Merge
  <2>5. [models[i] EXCEPT !.files = Merge(@, walked[p])] = models[i]
    BY <1>0, <2>1, <2>4, RowFiles DEF ScanInv
  <2>6. models' = [models EXCEPT ![i].files = Merge(@, walked[p])]
    BY <1>6, <2>2 DEF UpsertFiles
  <2>7. models' = models
    BY <1>0, <2>1, <2>5, <2>6
  <2>8. foldVars' = foldVars \/ EndScan("failed")
    BY <1>6 DEF UpsertFiles
  <2> QED
    BY <2>7, <2>8 DEF foldVars, EndScan
<1>7. CASE MarkFilesMissing
  <2>1. phase = "upsert" /\ unread = {} /\ ToUpsert = {} /\ excluded = exclusions
    BY <1>7 DEF MarkFilesMissing, Slate, WalkHolds
  <2>2. \A i \in LiveRows : i \in touched
    <3>1. \A i \in LiveRows : models[i].path \in done
      BY <1>0, <2>1, WalkFound DEF ToUpsert
    <3> QED
      BY <1>0, <3>1 DEF ScanInv, TouchedMatch
  <2> DEFINE f(i) == IF i \in touched THEN models[i].files \cap walked[models[i].path] ELSE {}
  <2>3. ASSUME NEW i \in Rows PROVE f(i) = models[i].files
    <3>1. CASE i \in touched
      <4>1. i \in LiveRows
        BY <3>1 DEF WalkHolds, TouchedLive
      <4> QED
        BY <1>0, <2>1, <3>1, <4>1, WalkFound
    <3>2. CASE i \notin touched
      <4>1. ~Live(i)
        BY <2>2, <3>2 DEF LiveRows, Rows
      <4> QED
        BY <3>2, <4>1 DEF Suits, LiveOnDisk
    <3> QED
      BY <3>1, <3>2
  <2>4. ASSUME NEW i \in Id PROVE models'[i] = models[i]
    <3>1. CASE ~Exists(i)
      BY <1>7, <3>1 DEF MarkFilesMissing, Exists
    <3>2. CASE Exists(i)
      <4>1. i \in Rows
        BY <3>2 DEF Rows
      <4>2. models'[i] = [models[i] EXCEPT !.files = f(i)]
        BY <1>7, <3>2 DEF MarkFilesMissing
      <4> HIDE DEF f
      <4> QED
        BY <2>3, <4>1, <4>2, RowFiles DEF ScanInv
    <3> QED
      BY <3>1, <3>2
  <2>5. models' = [i \in Id |-> models'[i]]
    BY <1>7 DEF MarkFilesMissing
  <2>6. models' = models
    BY <1>0, <2>4, <2>5
  <2> QED
    BY <1>7, <2>6 DEF MarkFilesMissing, foldVars
<1>8. CASE MarkModelsMissing
  <2>1. phase = "mark" /\ unread = {} /\ excluded = exclusions
    BY <1>8 DEF MarkModelsMissing, Slate, WalkHolds
  <2>2. \A i \in LiveRows : i \in touched
    BY <1>0, <2>1, WalkFound DEF ScanInv, TouchedMatch, MarkedMatch
  <2>3. \A i \in Id : Live(i) => i \in touched
    BY <2>2 DEF LiveRows
  <2>4. models' = [i \in Id |-> models[i]]
    BY <1>8, <2>3 DEF MarkModelsMissing
  <2>5. models' = models
    BY <1>0, <2>4
  <2> QED
    BY <1>8, <2>5 DEF MarkModelsMissing, foldVars
<1>9. CASE UpsertPartOfFiles
  <2> DEFINE i == current[1]
             p == current[2]
  <2>1. /\ phase = "files" /\ unread = {} /\ i \in Id /\ p \in Path
        /\ i \in touched /\ i \in LiveRows
    BY <1>9 DEF UpsertPartOfFiles, Slate, ScanInv, TypeOK, ScanTypeOK, LocalsMatch, WalkHolds,
                TouchedLive
  <2>2. models[i].path = p /\ Exists(i) /\ p \in VisiblePaths
    BY <1>0, <2>1 DEF ScanInv, LocalsMatch, LiveRows, Live
  <2>3. models[i].files = walked[p] /\ walked[p] \in Content
    BY <1>0, <2>1, <2>2, WalkFound DEF ScanInv, TypeOK, ScanTypeOK
  <2>4. \A f, g \in walked[p] : f[1] = g[1] => f = g
    BY <2>3, ScanAssumption
  <2>5. PICK part \in SUBSET walked[p] :
          models' = [models EXCEPT ![i].files = Merge(@, part)]
    BY <1>9 DEF UpsertPartOfFiles
  <2>6. Merge(models[i].files, part) = models[i].files
    BY <2>3, <2>4 DEF Merge
  <2>7. [models[i] EXCEPT !.files = Merge(@, part)] = models[i]
    BY <1>0, <2>1, <2>6, RowFiles DEF ScanInv
  <2>8. models' = models
    BY <1>0, <2>1, <2>5, <2>7
  <2> QED
    BY <1>9, <2>8 DEF UpsertPartOfFiles, scanVars, foldVars
<1> QED
  BY <1>1, <1>2, <1>3, <1>4, <1>5, <1>6, <1>7, <1>8, <1>9 DEF ScanStep

\* A scan that nobody disturbed leaves an index that is the volume.
LEMMA FinishSuits ==
  ASSUME ScanInv, Slate, WalkHolds, phase = "finish"
  PROVE  Suits
<1>1. /\ unread = {} /\ excluded = exclusions /\ done = FoundPaths \ excluded
      /\ LiveRows = touched
  BY DEF Slate, WalkHolds, TouchedLive, ScanInv, MarkedMatch
<1>2. /\ FoundPaths = VisiblePaths
      /\ \A p \in VisiblePaths : walked[p] = disk[p]
  BY <1>1, WalkFound
<1>3. \A i \in LiveRows : i \in Rows /\ models[i].path \in done
                           /\ models[i].files = walked[models[i].path]
  BY <1>1 DEF ScanInv, MarkedMatch, TouchedMatch, LiveRows, Live, Rows
<1>4. LivePaths = VisiblePaths \ exclusions
  BY <1>1, <1>2, <1>3 DEF LivePaths, WalkHolds, TouchedLive
<1>5. ASSUME NEW i \in Rows PROVE LiveOnDisk(i)
  <2>1. CASE Live(i)
    BY <1>1, <1>2, <1>3, <2>1 DEF LiveOnDisk, LiveRows, Rows
  <2>2. CASE ~Live(i)
    BY <1>1, <2>2 DEF LiveOnDisk, LiveRows, WalkHolds, MarkedEmpty
  <2> QED
    BY <2>1, <2>2
<1> QED
  BY <1>4, <1>5 DEF Suits

\* The rows a scan touched stay live and at their paths to its end.
LEMMA TouchedLiveStep ==
  ASSUME ScanInv, TypeOK', TouchedLive, ScanStep
  PROVE  TouchedLive'
<1>0. models \in [Id -> Row \cup {NoModel}] /\ touched \subseteq Rows /\ touched \subseteq Id
  BY DEF ScanInv, TypeOK, TableTypeOK, TouchedLive, LiveRows, Live, Rows
<1>1. CASE touched' = {} /\ done' = {}
  BY <1>1 DEF TouchedLive
<1>2. CASE UNCHANGED <<models, touched, done>>
  BY <1>2 DEF TouchedLive, LiveRows, Live, Exists
<1>3. ASSUME ~MarkModelsMissing, NEW i \in touched PROVE i \in LiveRows'
  BY <1>0, <1>3, ScanStepRow DEF TouchedLive, LiveRows, Rows
<1>4. CASE StartScan \/ MatchRenames \/ BeginUpserts \/ \E p \in Path : WalkFolder(p)
  BY <1>2, <1>4 DEF StartScan, MatchRenames, BeginUpserts, WalkFolder, upsertVars, tableVars
<1>5. CASE CheckHealth \/ CheckDisappearance \/ FinishScan
  BY <1>1, <1>2, <1>5
  DEF CheckHealth, CheckDisappearance, FinishScan, EndScan, upsertVars, tableVars
<1>6. ASSUME NEW i \in Id, NEW p \in Path, FoldRename(i, p) PROVE TouchedLive'
  <2>1. touched = {} /\ done = {}
    BY <1>6 DEF FoldRename, ScanInv, LocalsMatch, Reconciling
  <2> QED
    BY <1>1, <1>6, <2>1 DEF FoldRename, EndScan, upsertVars
<1>7. ASSUME NEW p \in Path, NEW i \in Id, UpsertModel(p, i) PROVE TouchedLive'
  <2>1. touched' = touched \cup {i} /\ done' = done /\ phase = "upsert"
    BY <1>7 DEF UpsertModel
  <2>2. models'[i].missing = Present
    <3>1. CASE i \in RowsAt(p) /\ models' = [models EXCEPT ![i].missing = Present]
      <4>1. models[i] \in Row
        BY <3>1, RowColumns DEF RowsAt, ScanInv
      <4> QED
        BY <1>0, <3>1, <4>1 DEF Row
    <3>2. CASE models' = [models EXCEPT ![i] = [path |-> p, files |-> {}, missing |-> Present]]
      BY <1>0, <3>2
    <3> QED
      BY <1>7, <3>1, <3>2 DEF UpsertModel
  <2>3. Exists(i)'
    <3>1. CASE i \in RowsAt(p)
      BY <3>1, ScanStepRow DEF RowsAt, Rows
    <3>2. CASE models' = [models EXCEPT ![i] = [path |-> p, files |-> {}, missing |-> Present]]
      <4>1. [path |-> p, files |-> {}, missing |-> Present] \in Row
        BY ScanAssumption DEF Row, Present
      <4> QED
        BY <1>0, <3>2, <4>1, NoModelAssumption DEF Exists
    <3> QED
      BY <1>7, <3>1, <3>2 DEF UpsertModel
  <2>4. i \in LiveRows'
    BY <2>2, <2>3 DEF LiveRows, Live
  <2>5. ASSUME NEW j \in touched PROVE models'[j].path = models[j].path
    <3>1. CASE i \in RowsAt(p) /\ models' = [models EXCEPT ![i].missing = Present]
      <4>1. models[i] \in Row
        BY <3>1, RowColumns DEF RowsAt, ScanInv
      <4> QED
        BY <1>0, <3>1, <4>1 DEF Row
    <3>2. CASE ~Exists(i) /\ models' = [models EXCEPT ![i] = [path |-> p, files |-> {}, missing |-> Present]]
      BY <1>0, <3>2 DEF Rows
    <3> QED
      BY <1>7, <3>1, <3>2 DEF UpsertModel
  <2>6. ~MarkModelsMissing
    BY <2>1 DEF MarkModelsMissing
  <2>7. touched' \subseteq LiveRows'
    BY <1>3, <2>1, <2>4, <2>6
  <2>8. \A d \in done' : \E j \in touched' : models'[j].path = d
    BY <2>1, <2>5 DEF TouchedLive
  <2> QED
    BY <2>7, <2>8 DEF TouchedLive
<1>8. CASE UpsertFiles
  <2> DEFINE i == current[1]
             p == current[2]
  <2>1. CASE EndScan("failed")
    BY <1>1, <2>1 DEF EndScan
  <2>2. CASE /\ Exists(i)
             /\ models' = [models EXCEPT ![i].files = Merge(@, walked[p])]
             /\ done' = done \cup {p} /\ touched' = touched
    <3>1. i \in Id /\ i \in touched /\ phase = "files" /\ i \in Rows
      BY <1>8, <2>2 DEF UpsertFiles, ScanInv, TypeOK, ScanTypeOK, LocalsMatch, Rows
    <3>2. models[i].path = p
      BY <2>2, <3>1 DEF ScanInv, LocalsMatch
    <3>3. models'[i] = [models[i] EXCEPT !.files = Merge(@, walked[p])]
      BY <1>0, <2>2, <3>1
    <3>4. models'[i].path = p
      BY <3>1, <3>2, <3>3, RowFiles DEF ScanInv
    <3>5. \A j \in touched : models'[j].path = models[j].path
      BY <1>0, <2>2, <3>2, <3>4
    <3>6. ~MarkModelsMissing
      BY <3>1 DEF MarkModelsMissing
    <3>7. touched' \subseteq LiveRows'
      BY <1>3, <2>2, <3>6
    <3>8. \A d \in done' : \E j \in touched' : models'[j].path = d
      BY <2>2, <3>1, <3>4, <3>5 DEF TouchedLive
    <3> QED
      BY <3>7, <3>8 DEF TouchedLive
  <2>3. \/ EndScan("failed")
        \/ ~Exists(i)
        \/ /\ Exists(i)
           /\ models' = [models EXCEPT ![i].files = Merge(@, walked[p])]
           /\ done' = done \cup {p} /\ touched' = touched
    BY <1>8, Zenon DEF UpsertFiles
  <2>4. Exists(i)
    BY <1>0, <1>8 DEF UpsertFiles, ScanInv, LocalsMatch, Rows
  <2> QED
    BY <2>1, <2>2, <2>3, <2>4
<1>9. CASE MarkFilesMissing \/ MarkModelsMissing
  <2>1. touched' = touched /\ done' = done
    BY <1>9 DEF MarkFilesMissing, MarkModelsMissing, upsertVars
  <2>2. ASSUME NEW i \in touched PROVE i \in LiveRows' /\ models'[i].path = models[i].path
    <3>1. CASE MarkFilesMissing
      <4> DEFINE f == models[i].files \cap walked[models[i].path]
      <4>1. models'[i] = [models[i] EXCEPT !.files = f]
        BY <1>0, <2>2, <3>1 DEF MarkFilesMissing, Rows
      <4>2. ~MarkModelsMissing
        BY <3>1 DEF MarkFilesMissing, MarkModelsMissing
      <4> HIDE DEF f
      <4> QED
        BY <1>0, <1>3, <2>2, <4>1, <4>2, RowFiles DEF ScanInv
    <3>2. CASE MarkModelsMissing
      <4>1. models'[i] = models[i]
        BY <1>0, <2>2, <3>2 DEF MarkModelsMissing
      <4> QED
        BY <1>0, <2>2, <4>1 DEF TouchedLive, LiveRows, Live, Exists
    <3> QED
      BY <1>9, <3>1, <3>2
  <2> QED
    BY <2>1, <2>2 DEF TouchedLive
<1>10. CASE UpsertPartOfFiles
  <2>1. touched' = touched /\ done' = done /\ phase = "files"
    BY <1>10 DEF UpsertPartOfFiles, scanVars, upsertVars
  <2>2. ~MarkModelsMissing
    BY <2>1 DEF MarkModelsMissing
  <2>3. \A j \in touched : models'[j].path = models[j].path
    BY <1>0, <1>10, PartOfFiles DEF ScanInv, Rows
  <2>4. touched' \subseteq LiveRows'
    BY <1>3, <2>1, <2>2
  <2> QED
    BY <2>1, <2>3, <2>4 DEF TouchedLive
<1> QED
  BY <1>4, <1>5, <1>6, <1>7, <1>8, <1>9, <1>10 DEF ScanStep

\* The marks leave files to touched rows only.
LEMMA MarkedEmptyStep ==
  ASSUME ScanInv, TypeOK', MarkedEmpty, ScanStep
  PROVE  MarkedEmpty'
<1>1. CASE phase' \notin {"mark", "finish"}
  BY <1>1 DEF MarkedEmpty
<1>2. CASE MarkFilesMissing
  <2> SUFFICES ASSUME NEW i \in Rows', i \notin touched'
               PROVE  models'[i].files = {}
    BY DEF MarkedEmpty
  <2>1. i \in Id /\ Exists(i)' /\ i \notin touched
    BY <1>2 DEF MarkFilesMissing, upsertVars, Rows
  <2>2. Exists(i) /\ models'[i] = [models[i] EXCEPT !.files = {}]
    BY <1>2, <2>1 DEF MarkFilesMissing, Exists
  <2>3. i \in Rows
    BY <2>1, <2>2 DEF Rows
  <2> QED
    BY <2>2, <2>3, RowFiles DEF ScanInv
<1>3. CASE MarkModelsMissing
  <2> SUFFICES ASSUME NEW i \in Rows', i \notin touched'
               PROVE  models'[i].files = {}
    BY DEF MarkedEmpty
  <2>1. i \in Id /\ Exists(i)' /\ i \notin touched /\ phase = "mark"
    BY <1>3 DEF MarkModelsMissing, upsertVars, Rows
  <2>2. models'[i] = IF Live(i) /\ i \notin touched THEN [models[i] EXCEPT !.missing = 0]
                     ELSE models[i]
    BY <1>3, <2>1 DEF MarkModelsMissing
  <2>3. Exists(i) /\ i \in Rows
    BY <2>1, <2>2 DEF Exists, Live, Rows
  <2>4. models[i] \in Row /\ models[i].files = {}
    BY <2>1, <2>3, RowColumns DEF ScanInv, MarkedEmpty
  <2> QED
    BY <2>2, <2>4 DEF Row
<1>4. CASE ~(MarkFilesMissing \/ MarkModelsMissing)
  BY <1>1, <1>4
  DEF ScanStep, StartScan, CheckHealth, WalkFolder, CheckDisappearance, MatchRenames,
      FoldRename, BeginUpserts, UpsertModel, UpsertPartOfFiles, UpsertFiles, FinishScan,
      EndScan, scanVars
<1> QED
  BY <1>2, <1>3, <1>4

\* No step of a scan excludes or restores a path.
LEMMA ScanSparesExclusions ==
  ASSUME ScanStep
  PROVE  UNCHANGED exclusions
  BY DEF ScanStep, StartScan, CheckHealth, WalkFolder, CheckDisappearance, MatchRenames,
         FoldRename, BeginUpserts, UpsertModel, UpsertPartOfFiles, UpsertFiles, MarkFilesMissing,
         MarkModelsMissing, FinishScan, tableVars

\* A scan that nobody disturbs keeps what it relies on.
LEMMA WalkHoldsStep ==
  ASSUME ScanInv, TypeOK', Slate, WalkHolds, ScanStep
  PROVE  WalkHolds'
<1>0. /\ UNCHANGED <<diskVars, exclusions>>
      /\ \A p \in Path : (Visible(p)' <=> Visible(p)) /\ disk'[p] = disk[p]
  BY ScanStepOthers, ScanSparesExclusions, SameVolume
<1>1. TouchedLive' /\ MarkedEmpty'
  BY TouchedLiveStep, MarkedEmptyStep DEF WalkHolds
<1> DEFINE Read == \A p \in Path \ unread :
                     walked[p] = IF Visible(p) THEN disk[p] ELSE NoFolder
           Told == phase \notin {"idle", "health", "walk"} => excluded = exclusions
<1>2. CASE UNCHANGED walkVars /\ excluded' = excluded /\ phase \notin {"idle", "health", "walk"}
  BY <1>0, <1>1, <1>2 DEF WalkHolds, walkVars
<1>3. ASSUME NEW result, EndScan(result) PROVE WalkHolds'
  BY <1>3, EndedHolds
<1>4. CASE StartScan
  BY <1>0, <1>1, <1>4 DEF StartScan, walkVars, WalkHolds
<1>5. CASE CheckHealth
  BY <1>0, <1>1, <1>3, <1>5 DEF CheckHealth, walkVars, WalkHolds
<1>6. ASSUME NEW q \in Path, WalkFolder(q) PROVE WalkHolds'
  <2>1. walked' = [walked EXCEPT ![q] = IF Visible(q) THEN disk[q] ELSE NoFolder]
    BY <1>6 DEF WalkFolder
  <2>2. walked \in [Path -> Content \cup {NoFolder}]
    BY DEF ScanInv, TypeOK, ScanTypeOK
  <2>3. unread' = unread \ {q} /\ phase' = "walk"
    BY <1>6 DEF WalkFolder
  <2>4. Read'
    BY <1>0, <2>1, <2>2, <2>3 DEF WalkHolds
  <2> QED
    BY <1>1, <2>3, <2>4 DEF WalkHolds
<1>7. CASE CheckDisappearance
  <2>1. CASE phase' = "match" /\ excluded' = exclusions /\ UNCHANGED walkVars
    BY <1>0, <1>1, <2>1 DEF WalkHolds, walkVars
  <2> QED
    BY <1>3, <1>7, <2>1 DEF CheckDisappearance, walkVars
<1>8. CASE MatchRenames \/ BeginUpserts \/ MarkFilesMissing \/ MarkModelsMissing
  BY <1>2, <1>8
  DEF MatchRenames, BeginUpserts, MarkFilesMissing, MarkModelsMissing, foldVars
<1>9. ASSUME NEW i \in Id, NEW p \in Path, FoldRename(i, p) PROVE WalkHolds'
  BY <1>2, <1>3, <1>9 DEF FoldRename
<1>10. ASSUME NEW p \in Path, NEW i \in Id, UpsertModel(p, i) PROVE WalkHolds'
  BY <1>2, <1>10 DEF UpsertModel, foldVars
<1>11. CASE UpsertFiles
  BY <1>2, <1>3, <1>11 DEF UpsertFiles, foldVars
<1>12. CASE FinishScan
  BY <1>3, <1>12 DEF FinishScan
<1>13. CASE UpsertPartOfFiles
  BY <1>2, <1>13 DEF UpsertPartOfFiles, scanVars, foldVars
<1> QED
  BY <1>4, <1>5, <1>6, <1>7, <1>8, <1>9, <1>10, <1>11, <1>12, <1>13 DEF ScanStep

\* A table nobody writes has the same rows.
LEMMA SameModels ==
  ASSUME UNCHANGED models
  PROVE  SameRows
  BY DEF SameRows, Exists, Live

\* What touches neither the rows nor the volume nor the exclusions leaves the
\* index as right, ...
LEMMA StillSuits ==
  ASSUME SameRows, UNCHANGED <<diskVars, exclusions>>
  PROVE  /\ \A i \in Rows : LiveOnDisk(i) => LiveOnDisk(i)'
         /\ Suits => Suits'
<1>0. /\ Rows' = Rows /\ LivePaths' = LivePaths
      /\ VisiblePaths' = VisiblePaths /\ disk' = disk
  BY SameIndex, SameVolume DEF diskVars
<1>1. \A i \in Rows : /\ models'[i].path = models[i].path
                      /\ models'[i].files = models[i].files
                      /\ Live(i)' <=> Live(i)
  BY DEF SameRows, Rows
<1>2. \A i \in Rows : LiveOnDisk(i) => LiveOnDisk(i)'
  BY <1>0, <1>1 DEF LiveOnDisk
<1> QED
  BY <1>0, <1>2 DEF Suits

\* ... or as much behind, while the rename is not folded.
LEMMA StillAwaits ==
  ASSUME SameRows, UNCHANGED <<diskVars, exclusions>>, NEW i, NEW q, Awaits(i, q),
         ~Reconciling', phase' = "fold" => matches' = {<<i, q>>}
  PROVE  Awaits(i, q)'
<1>0. /\ Rows' = Rows /\ LiveRows' = LiveRows
      /\ \A j \in LiveRows : models'[j].path = models[j].path
      /\ VisiblePaths' = VisiblePaths /\ disk' = disk
  BY SameIndex, SameVolume DEF diskVars
<1>1. i \in LiveRows /\ i \in Rows
  BY DEF Awaits, LiveRows, Live, Rows
<1>2. models'[i].path = models[i].path /\ models'[i].files = models[i].files
  BY <1>1 DEF SameRows, Rows
<1>3. {models'[j].path : j \in LiveRows' \ {i}} = {models[j].path : j \in LiveRows \ {i}}
  BY <1>0
<1>4. \A j \in Rows \ {i} : LiveOnDisk(j) => LiveOnDisk(j)'
  BY StillSuits
<1> QED
  BY <1>0, <1>1, <1>2, <1>3, <1>4 DEF Awaits

\* A scan finds the folder that was renamed, knows its row by the files, and
\* gives the row the new path; until then nothing happens to it.
LEMMA AwaitsStep ==
  ASSUME ScanInv, Slate, WalkHolds, NEW i, NEW q, Awaits(i, q), ScanStep
  PROVE  Awaits(i, q)' \/ Arrived(i, q)'
<1> USE DEF NoFolder
<1>0. /\ models \in [Id -> Row \cup {NoModel}]
      /\ LiveRows \subseteq Id /\ i \in Id /\ q \in Path /\ models[i] \in Row
      /\ \A j \in LiveRows : j \in Rows /\ models[j].path \in Path
      /\ models[i].path # q
  BY RowColumns DEF ScanInv, TypeOK, TableTypeOK, LiveRows, Live, Rows, Awaits, VisiblePaths
<1>1. UNCHANGED <<diskVars, exclusions>> /\ VisiblePaths' = VisiblePaths
  BY ScanStepOthers, ScanSparesExclusions, SameVolume
<1>2. ASSUME UNCHANGED models, ~Reconciling', phase' = "fold" => matches' = {<<i, q>>}
      PROVE  Awaits(i, q)'
  BY <1>1, <1>2, SameModels, StillAwaits
<1>3. CASE StartScan \/ CheckHealth \/ CheckDisappearance \/ \E p \in Path : WalkFolder(p)
  BY <1>2, <1>3
  DEF StartScan, CheckHealth, CheckDisappearance, WalkFolder, EndScan, Reconciling, tableVars
<1>4. CASE MatchRenames
  <2>1. phase = "match" /\ unread = {} /\ excluded = exclusions
    BY <1>4 DEF MatchRenames, Slate, WalkHolds
  <2>2. /\ FoundPaths = VisiblePaths
        /\ \A p \in VisiblePaths : walked[p] = disk[p] /\ disk[p] # {}
    BY <2>1, WalkFound
  <2>3. \A j \in LiveRows \ {i} : models[j].path \in VisiblePaths \ (exclusions \cup {q})
    BY DEF Awaits
  <2>4. Vanished = {i}
    BY <1>0, <2>2, <2>3 DEF Vanished, WouldGoMissing, Awaits
  <2>5. Recognisable(i)
    BY <2>2, <2>4 DEF Recognisable, Awaits
  <2>6. NewFolders = {q}
    <3>1. LivePaths = {models[j].path : j \in LiveRows \ {i}} \cup {models[i].path}
      BY DEF LivePaths, Awaits
    <3>2. LivePaths = (VisiblePaths \ (exclusions \cup {q})) \cup {models[i].path}
      BY <3>1 DEF Awaits
    <3> QED
      BY <1>0, <2>1, <2>2, <3>2 DEF NewFolders, Awaits
  <2>7. Candidates(i) = {q}
    BY <2>2, <2>6 DEF Candidates, Awaits
  <2> DEFINE Matched == {j \in Vanished : Recognisable(j) /\ Candidates(j) # {}}
  <2>8. Matched = {i}
    BY <2>4, <2>5, <2>7
  <2>9. PICK target \in [Matched -> Path] :
          /\ \A j \in Matched : target[j] \in Candidates(j)
          /\ matches' = {<<j, target[j]>> : j \in Matched}
    BY <1>4 DEF MatchRenames
  <2> HIDE DEF Matched
  <2>10. matches' = {<<i, q>>}
    BY <2>7, <2>8, <2>9
  <2> QED
    BY <1>2, <1>4, <2>10 DEF MatchRenames, Reconciling, tableVars
<1>5. ASSUME NEW j \in Id, NEW p \in Path, FoldRename(j, p)
      PROVE  Awaits(i, q)' \/ Arrived(i, q)'
  <2>1. phase = "fold" /\ matches = {<<i, q>>} /\ j = i /\ p = q /\ Exists(i)
    BY <1>5 DEF FoldRename, Awaits, LiveRows, Live
  <2>2. CASE EndScan("failed") /\ UNCHANGED models
    BY <1>2, <2>2 DEF EndScan, Reconciling
  <2>3. CASE /\ models' = [models EXCEPT ![i].path = q]
             /\ matches' = matches \ {<<i, q>>}
    <3>1. /\ \A k \in Id \ {i} : models'[k] = models[k]
          /\ models'[i] = [models[i] EXCEPT !.path = q]
      BY <1>0, <2>3
    <3>2. /\ models'[i].path = q /\ models'[i].files = models[i].files
          /\ models'[i].missing = models[i].missing /\ models'[i] \in Row
      BY <1>0, <3>1 DEF Row
    <3>3. Exists(i)' /\ (Live(i)' <=> Live(i))
      BY <2>1, <3>2, NoModelAssumption DEF Exists, Live
    <3>4. \A k \in Id \ {i} : (Exists(k)' <=> Exists(k)) /\ (Live(k)' <=> Live(k))
      BY <3>1 DEF Exists, Live
    <3>5. Rows' = Rows /\ LiveRows' = LiveRows /\ i \in LiveRows
      BY <1>0, <2>1, <3>3, <3>4 DEF Rows, LiveRows, Awaits
    <3>6. LivePaths' = {models[k].path : k \in LiveRows \ {i}} \cup {q}
      <4>1. LivePaths' = {models'[k].path : k \in LiveRows}
        BY <3>5 DEF LivePaths
      <4>2. \A k \in LiveRows \ {i} : models'[k].path = models[k].path
        BY <1>0, <3>1
      <4> QED
        BY <3>2, <3>5, <4>1, <4>2
    <3>7. LivePaths' = VisiblePaths' \ exclusions'
      BY <1>1, <3>6 DEF Awaits
    <3>8. ASSUME NEW k \in Rows' PROVE LiveOnDisk(k)'
      <4>1. CASE k = i
        BY <1>1, <3>2, <3>5, <4>1 DEF LiveOnDisk, Awaits, LiveRows, diskVars
      <4>2. CASE k # i
        <5>1. k \in Id /\ k \in Rows /\ models'[k] = models[k] /\ (Live(k)' <=> Live(k))
          BY <3>1, <3>4, <3>5, <4>2 DEF Rows
        <5> QED
          BY <1>1, <4>2, <5>1 DEF LiveOnDisk, Awaits, diskVars
      <4> QED
        BY <4>1, <4>2
    <3>9. matches' = {}
      BY <2>1, <2>3
    <3> QED
      BY <3>2, <3>5, <3>7, <3>8, <3>9 DEF Arrived, Suits
  <2>4. \/ EndScan("failed") /\ UNCHANGED models
        \/ models' = [models EXCEPT ![i].path = q] /\ matches' = matches \ {<<i, q>>}
    BY <1>5, <2>1 DEF FoldRename
  <2> QED
    BY <2>2, <2>3, <2>4
<1>6. CASE BeginUpserts
  BY <1>6 DEF BeginUpserts, Awaits
<1>7. ASSUME Reconciling PROVE FALSE
  BY <1>7 DEF Awaits
<1> QED
  BY <1>3, <1>4, <1>5, <1>6, <1>7
  DEF ScanStep, UpsertModel, UpsertPartOfFiles, UpsertFiles, MarkFilesMissing, MarkModelsMissing,
      FinishScan, Reconciling

\* The rename of a folder of a settled library leaves its row to be found.
LEMMA RenameAwaits ==
  ASSUME ScanInv, Suits, phase = "idle", NEW p \in Path, NEW q \in Path,
         RenameFolder(p, q), p \notin LooseFile, RowsAt(p) \cap LiveRows # {},
         q \notin hidden, q \notin exclusions, NEW i \in RowsAt(p)
  PROVE  Awaits(i, q)'
<1> USE DEF NoFolder
<1>0. /\ phase' = "idle" /\ UNCHANGED <<models, exclusions, reachable, hidden>>
      /\ disk' = [disk EXCEPT ![p] = {}, ![q] = disk[p]]
      /\ disk[p] # {} /\ disk[q] = {} /\ p # q
      /\ q \notin LooseFile
      /\ disk \in [Path -> Content \cup {{}}]
  BY DEF RenameFolder, ChangeDisk, scanVars, tableVars, ScanInv, TypeOK, DiskTypeOK
<1>1. i \in LiveRows /\ models[i].path = p /\ i \in Rows
  BY DEF RowsAt, LiveRows, Live, Rows, ScanInv, UniquePaths
<1>2. Rows' = Rows /\ LiveRows' = LiveRows
  BY <1>0 DEF Rows, LiveRows, Exists, Live
<1>3. p \in VisiblePaths /\ Visible(p) /\ p \notin exclusions
  BY <1>1 DEF Suits, LivePaths, VisiblePaths
<1>4. VisiblePaths' = (VisiblePaths \ {p}) \cup {q}
  <2>1. disk'[p] = {} /\ disk'[q] = disk[p] /\ \A r \in Path \ {p, q} : disk'[r] = disk[r]
    BY <1>0
  <2> QED
    BY <1>0, <1>3, <2>1 DEF VisiblePaths, Visible
<1>5. q \notin VisiblePaths
  BY <1>0 DEF VisiblePaths, Visible
<1>6. \A j \in LiveRows \ {i} : /\ j \in Rows /\ models[j].path # p
                                  /\ models[j].path \in VisiblePaths \ exclusions
  BY <1>1 DEF LiveRows, Live, Rows, ScanInv, UniquePaths, Suits, LivePaths
<1>7. {models[j].path : j \in LiveRows \ {i}} = LivePaths \ {p}
  BY <1>1, <1>6 DEF LivePaths
<1>8. {models[j].path : j \in LiveRows \ {i}} = VisiblePaths' \ (exclusions \cup {q})
  BY <1>4, <1>5, <1>7 DEF Suits
<1>9. models[i].files = disk[p]
  BY <1>1 DEF Suits, LiveOnDisk, LiveRows
<1>10. ASSUME NEW j \in Rows \ {i} PROVE LiveOnDisk(j)'
  <2>1. LiveOnDisk(j) /\ (Live(j)' <=> Live(j)) /\ j \in Id
    BY <1>0 DEF Suits, Live, Exists, Rows
  <2>2. CASE Live(j)
    <3>1. models[j].path \in VisiblePaths /\ models[j].path \in Path \ {p, q}
      BY <1>5, <1>6, <2>1, <2>2 DEF LiveRows, VisiblePaths
    <3>2. disk'[models[j].path] = disk[models[j].path]
      BY <1>0, <3>1
    <3> QED
      BY <1>0, <2>1, <2>2, <3>2 DEF LiveOnDisk
  <2>3. CASE ~Live(j)
    BY <1>0, <2>1, <2>3 DEF LiveOnDisk
  <2> QED
    BY <2>2, <2>3
<1>11. models[i].files = disk'[q]
  BY <1>0, <1>9
<1>12. p \notin VisiblePaths' /\ q \in VisiblePaths'
  BY <1>0, <1>4
<1> QED
  BY <1>0, <1>1, <1>2, <1>8, <1>10, <1>11, <1>12 DEF Awaits, Reconciling

\* A day and whatever else leaves rows, volume and scan alone keep what a scan
\* relies on.
LEMMA HoldsStay ==
  ASSUME SameRows, UNCHANGED <<diskVars, exclusions, scanVars>>, WalkHolds, ScanInv
  PROVE  WalkHolds'
<1>0. /\ Rows' = Rows /\ LiveRows' = LiveRows
      /\ \A i \in Rows : models'[i].path = models[i].path /\ models'[i].files = models[i].files
      /\ \A p \in Path : (Visible(p)' <=> Visible(p)) /\ disk'[p] = disk[p]
  BY SameIndex, SameVolume DEF SameRows, Rows
<1>1. UNCHANGED <<phase, unread, walked, excluded, done, touched>>
  BY DEF scanVars, walkVars, foldVars, upsertVars
<1>2. touched \subseteq Rows
  BY DEF WalkHolds, TouchedLive, LiveRows, Live, Rows
<1>3. TouchedLive'
  BY <1>0, <1>1, <1>2 DEF WalkHolds, TouchedLive
<1>4. MarkedEmpty'
  BY <1>0, <1>1 DEF WalkHolds, MarkedEmpty
<1> QED
  BY <1>0, <1>1, <1>3, <1>4 DEF WalkHolds

\* The history is right at first ...
LEMMA InitHistory == Init_H => HistoryInv
<1> SUFFICES ASSUME Init_H PROVE HistoryInv
  OBVIOUS
<1>1. Slate /\ WalkHolds
  BY DEF Init_H, Init, Slate, WalkHolds, TouchedLive, MarkedEmpty
<1> QED
  BY <1>1 DEF Init_H, HistoryInv, SettledSuits, RenamedArrives

\* ... after each step of a scan ...
LEMMA ScanHistoryStep ==
  ASSUME ScanInv, TypeOK', HistoryInv, ScanStep_H, Slate'
  PROVE  HistoryInv'
<1>1. ~disturbed' => WalkHolds
  BY IdleHolds DEF ScanStep_H, HistoryInv
<1>2. UNCHANGED <<diskVars, exclusions>>
  BY ScanStepOthers, ScanSparesExclusions DEF ScanStep_H, InterruptScan, tableVars
<1>3. ~disturbed' => WalkHolds'
  BY <1>1, WalkHoldsStep, EndedHolds DEF ScanStep_H, InterruptScan, HistoryInv
<1>4. ASSUME ~disturbed', Suits, matches = {}
      PROVE  Suits' /\ matches' = {} /\ UNCHANGED models
  <2>1. UNCHANGED models /\ matches' = {}
    BY <1>1, <1>4, QuietStep DEF ScanStep_H, InterruptScan, EndScan, tableVars, HistoryInv
  <2> QED
    BY <1>2, <1>4, <2>1, SameModels, StillSuits
<1>5. ~disturbed => ~disturbed'
  BY DEF ScanStep_H
<1>6. CASE outcome' = "succeeded" /\ phase = "finish" /\ ~disturbed
  <2>1. since' = "settled"
    BY <1>6 DEF ScanStep_H
  <2>2. Suits /\ matches = {}
    BY <1>6, FinishSuits DEF HistoryInv, Slate
  <2>3. Suits' /\ matches' = {} /\ ~disturbed'
    BY <1>4, <1>5, <1>6, <2>2
  <2> QED
    BY <1>3, <2>1, <2>3 DEF HistoryInv, SettledSuits, RenamedArrives
<1>7. CASE ~(outcome' = "succeeded" /\ phase = "finish" /\ ~disturbed)
  <2>1. since' = since /\ (since = "renamed" => rename' = rename)
    BY <1>7 DEF ScanStep_H
  <2>2. SettledSuits'
    BY <1>4, <1>5, <2>1 DEF HistoryInv, SettledSuits
  <2>3. RenamedArrives'
    <3> SUFFICES ASSUME since = "renamed"
                 PROVE  /\ ~disturbed'
                        /\ rename \in Id \X Path
                        /\ rename[2] \notin exclusions =>
                             \/ Awaits(rename[1], rename[2])'
                             \/ Arrived(rename[1], rename[2])'
      BY <1>2, <2>1 DEF RenamedArrives
    <3>1. ~disturbed' /\ rename \in Id \X Path
      BY DEF HistoryInv, RenamedArrives, ScanStep_H
    <3>2. ASSUME Arrived(rename[1], rename[2]) PROVE Arrived(rename[1], rename[2])'
      <4>1. Suits' /\ matches' = {} /\ UNCHANGED models
        BY <1>4, <3>1, <3>2 DEF Arrived
      <4> QED
        BY <2>1, <3>2, <4>1 DEF Arrived, LiveRows, Live, Exists
    <3>3. ASSUME Awaits(rename[1], rename[2])
          PROVE  Awaits(rename[1], rename[2])' \/ Arrived(rename[1], rename[2])'
      <4>1. CASE ScanStep
        BY <1>1, <2>1, <3>1, <3>3, <4>1, AwaitsStep DEF HistoryInv
      <4>2. CASE InterruptScan
        BY <1>2, <2>1, <3>3, <4>2, SameModels, StillAwaits
        DEF InterruptScan, EndScan, Reconciling, tableVars
      <4> QED
        BY <4>1, <4>2 DEF ScanStep_H
    <3> QED
      BY <3>1, <3>2, <3>3 DEF HistoryInv, RenamedArrives
  <2> QED
    BY <1>3, <2>2, <2>3 DEF HistoryInv
<1> QED
  BY <1>6, <1>7

\* ... after the rename of a folder ...
LEMMA RenameHistoryStep ==
  ASSUME ScanInv, HistoryInv, NEW p \in Path, NEW q \in Path, RenameFolder_H(p, q), Slate'
  PROVE  HistoryInv'
<1>1. disturbed' /\ UNCHANGED <<phase, exclusions>>
  BY DEF RenameFolder_H, RenameFolder, ChangeDisk, tableVars, scanVars
<1>2. CASE since' = "changed"
  BY <1>1, <1>2 DEF HistoryInv, SettledSuits, RenamedArrives
<1>3. CASE /\ since = "settled" /\ phase = "idle" /\ p \notin LooseFile
           /\ RowsAt(p) \cap LiveRows # {} /\ q \notin hidden
           /\ since' = "renamed" /\ \E i \in RowsAt(p) : rename' = <<i, q>>
  <2>1. PICK i \in RowsAt(p) : rename' = <<i, q>>
    BY <1>3
  <2>2. Suits /\ RenameFolder(p, q)
    BY <1>3 DEF HistoryInv, SettledSuits, RenameFolder_H
  <2>3. q \notin exclusions => Awaits(i, q)'
    BY <1>3, <2>2, RenameAwaits
  <2>4. i \in Id
    BY DEF RowsAt, Rows
  <2>5. /\ rename' \in Id \X Path
        /\ (rename[2] \notin exclusions => Awaits(rename[1], rename[2]))'
    <3>1. rename'[1] = i /\ rename'[2] = q
      BY <2>1
    <3> QED
      BY <1>1, <2>1, <2>3, <2>4, <3>1
  <2> QED
    BY <1>1, <1>3, <2>5 DEF HistoryInv, SettledSuits, RenamedArrives
<1> QED
  BY <1>2, <1>3 DEF RenameFolder_H

\* ... and after a day, which only makes missing rows older.
LEMMA DayHistoryStep ==
  ASSUME ScanInv, HistoryInv, PassDay \/ UNCHANGED vars,
         UNCHANGED <<since, rename, disturbed>>, Slate'
  PROVE  HistoryInv'
<1>1. SameRows
  BY PassDayAges, SameModels DEF vars, tableVars
<1>2. UNCHANGED <<diskVars, exclusions, scanVars>>
  BY DEF PassDay, vars, tableVars
<1>3. UNCHANGED <<phase, matches>>
  BY <1>2 DEF scanVars, foldVars
<1>4. (~disturbed => WalkHolds)'
  BY <1>1, <1>2, HoldsStay DEF HistoryInv
<1>5. SettledSuits'
  BY <1>1, <1>2, <1>3, StillSuits DEF HistoryInv, SettledSuits
<1>6. ASSUME NEW i, NEW q, Arrived(i, q) PROVE Arrived(i, q)'
  <2>1. Suits' /\ i \in LiveRows' /\ models'[i].path = models[i].path
    BY <1>1, <1>2, <1>6, SameIndex, StillSuits DEF Arrived
  <2> QED
    BY <1>3, <1>6, <2>1 DEF Arrived
<1>7. ASSUME NEW i, NEW q, Awaits(i, q) PROVE Awaits(i, q)'
  <2>1. ~Reconciling' /\ (phase' = "fold" => matches' = {<<i, q>>})
    BY <1>3, <1>7 DEF Awaits, Reconciling
  <2> QED
    BY <1>1, <1>2, <1>7, <2>1, StillAwaits
<1>8. RenamedArrives'
  BY <1>2, <1>3, <1>6, <1>7 DEF HistoryInv, RenamedArrives
<1> QED
  BY <1>4, <1>5, <1>8 DEF HistoryInv

\* What happened since a scan last settled the library says how the index
\* stands to the volume, at every moment of the scans that follow.
THEOREM HistoryTells == Spec_H => [](ScanInv /\ HistoryInv)
<1>1. Init_H => ScanInv /\ HistoryInv
  BY InitInv, InitHistory DEF Init_H
<1>2. ScanInv /\ HistoryInv /\ [Next_H]_historyVars => (ScanInv /\ HistoryInv)'
  <2> SUFFICES ASSUME ScanInv, HistoryInv, [Next_H]_historyVars
               PROVE  ScanInv' /\ HistoryInv'
    OBVIOUS
  <2>1. [Next]_vars
    BY HistoryWatches
  <2>2. ScanInv' /\ TypeOK' /\ Slate'
    BY <2>1, NextInv, NextType, SlateStep DEF ScanInv, HistoryInv
  <2>3. CASE ScanStep_H
    BY <2>2, <2>3, ScanHistoryStep
  <2>4. ASSUME NEW p \in Path, NEW q \in Path, RenameFolder_H(p, q) PROVE HistoryInv'
    BY <2>2, <2>4, RenameHistoryStep
  <2>5. CASE Other_H
    BY <2>2, <2>5 DEF Other_H, HistoryInv, SettledSuits, RenamedArrives
  <2>6. CASE (PassDay /\ UNCHANGED <<since, rename, disturbed>>) \/ UNCHANGED historyVars
    BY <2>2, <2>6, DayHistoryStep DEF historyVars
  <2> QED
    BY <2>2, <2>3, <2>4, <2>5, <2>6 DEF Next_H
<1> QED
  BY <1>1, <1>2, PTL DEF Spec_H

\* A rescan of a library nobody touched writes no row, however many folders it
\* has and whatever the rows that went missing earlier say.
THEOREM RescanIsQuiet == Spec_H => QuietRescan
<1>1. ScanInv /\ HistoryInv => ((since = "settled" /\ ScanStep_H) => UNCHANGED models)
  <2> SUFFICES ASSUME ScanInv, HistoryInv, since = "settled", ScanStep_H
               PROVE  UNCHANGED models
    OBVIOUS
  <2>1. WalkHolds /\ Slate /\ Suits /\ matches = {}
    BY DEF HistoryInv, SettledSuits
  <2> QED
    BY <2>1, QuietStep DEF ScanStep_H, InterruptScan, tableVars
<1>2. ScanInv /\ HistoryInv /\ [Next_H]_historyVars =>
        [(since = "settled" /\ ScanStep_H) => UNCHANGED models]_historyVars
  BY <1>1
<1> QED
  BY <1>2, HistoryTells, PTL DEF Spec_H, QuietRescan

\* A folder renamed between two scans is the same row when the next scan
\* succeeds, among any number of folders that look like it.
THEOREM ARenameKeepsItsRow == Spec_H => RenameKeepsTheRow
<1> DEFINE Kept == (/\ since = "renamed" /\ phase = "finish" /\ outcome' = "succeeded"
                    /\ ~disturbed /\ rename[2] \notin excluded) =>
                     /\ Live(rename[1])
                     /\ models[rename[1]].path = rename[2]
                     /\ LivePaths = VisiblePaths \ excluded
<1>1. ScanInv /\ HistoryInv => Kept
  <2> SUFFICES ASSUME ScanInv, HistoryInv, since = "renamed", phase = "finish", ~disturbed,
                      rename[2] \notin excluded
               PROVE  /\ Live(rename[1])
                      /\ models[rename[1]].path = rename[2]
                      /\ LivePaths = VisiblePaths \ excluded
    OBVIOUS
  <2>1. excluded = exclusions
    BY DEF HistoryInv, WalkHolds
  <2>2. Arrived(rename[1], rename[2])
    BY <2>1 DEF HistoryInv, RenamedArrives, Awaits, Reconciling
  <2> QED
    BY <2>1, <2>2 DEF Arrived, Suits, LiveRows
<1>2. ScanInv /\ HistoryInv /\ [Next_H]_historyVars => [Kept]_historyVars
  BY <1>1
<1> QED
  BY <1>2, HistoryTells, PTL DEF Spec_H, RenameKeepsTheRow

----------------------------------------------------------------------------
(* Which directories the walk of the grouping gets to. *)

\* A set of numbers that has all below each of its own ends somewhere.
LEMMA InitialPart ==
  ASSUME NEW n \in Nat, NEW S \in SUBSET (0..n), \A i \in S : 0..i \subseteq S
  PROVE  \E c \in 0..(n + 1) : \A i \in 0..n : i \in S <=> i < c
<1> DEFINE c == Cardinality(S)
<1>1. IsFiniteSet(0..n) /\ Cardinality(0..n) = n + 1
  BY FS_Interval
<1>2. IsFiniteSet(S) /\ c \in Nat /\ c <= n + 1
  BY <1>1, FS_Subset, FS_CardinalityType
<1>3. ASSUME NEW i \in S PROVE i < c
  <2>1. i \in Nat /\ Cardinality(0..i) = i + 1
    BY FS_Interval
  <2>2. Cardinality(0..i) <= c
    BY <1>2, FS_Subset
  <2> QED
    BY <1>2, <2>1, <2>2
<1>4. ASSUME NEW i \in 0..n, i \notin S PROVE c <= i
  <2>1. S \subseteq 0..(i - 1)
    <3> SUFFICES ASSUME NEW j \in S, j >= i PROVE FALSE
      OBVIOUS
    <3>1. i \in 0..j
      OBVIOUS
    <3> QED
      BY <1>4, <3>1
  <2>2. IsFiniteSet(0..(i - 1)) /\ Cardinality(0..(i - 1)) = i
    BY FS_Interval
  <2> QED
    BY <2>1, <2>2, FS_Subset
<1> HIDE DEF c
<1>5. \A i \in 0..n : i \in S <=> i < c
  BY <1>2, <1>3, <1>4
<1> QED
  BY <1>2, <1>5

\* The first n names of a directory.
Upto(d, n) == SubSeq(d, 1, n)

\* A directory is a sequence of names, and all of itself.
LEMMA DirIsPath ==
  ASSUME NEW d \in Dir
  PROVE  d \in Seq(STRING) /\ Len(d) \in Nat /\ Upto(d, Len(d)) = d
<1>1. d \in Seq(STRING)
  BY GroupingAssumption
<1> QED
  BY <1>1 DEF Upto

\* What lies above a directory is one.
LEMMA UptoIsDir ==
  ASSUME NEW d \in Dir, NEW n \in 0..Len(d)
  PROVE  /\ Upto(d, n) \in Dir
         /\ Len(Upto(d, n)) = n
         /\ \A i \in 1..n : Upto(d, n)[i] = d[i]
         /\ \A m \in 0..n : Upto(Upto(d, n), m) = Upto(d, m)
         /\ IsPrefix(Upto(d, n), d)
<1>1. Upto(d, n) \in Dir
  BY GroupingAssumption DEF Upto
<1>2. d \in Seq(STRING) /\ Len(d) \in Nat
  BY DirIsPath
<1>3. Len(Upto(d, n)) = n /\ \A i \in 1..n : Upto(d, n)[i] = d[i]
  BY <1>2 DEF Upto
<1>4. ASSUME NEW m \in 0..n PROVE Upto(Upto(d, n), m) = Upto(d, m)
  BY <1>2, <1>3 DEF Upto
<1>5. IsPrefix(Upto(d, n), d)
  BY <1>2, <1>3, <1>4 DEF IsPrefix, Upto
<1> QED
  BY <1>1, <1>3, <1>4, <1>5

\* A prefix of a directory is the names it begins with.
LEMMA PrefixIsUpto ==
  ASSUME NEW c \in Dir, NEW d \in Dir, IsPrefix(c, d)
  PROVE  Len(c) \in 0..Len(d) /\ c = Upto(d, Len(c))
<1>1. /\ c \in Seq(STRING) /\ Len(c) \in Nat /\ SubSeq(c, 1, Len(c)) = c
      /\ d \in Seq(STRING) /\ Len(d) \in Nat
  BY DirIsPath DEF Upto
<1> QED
  BY <1>1 DEF IsPrefix, Upto

\* The names from one directory down to another, one by one.
LEMMA InOwnDirs ==
  ASSUME NEW x \in Dir, NEW d \in Dir
  PROVE  d \in OwnDirs[x] <=> /\ IsPrefix(x, d)
                              /\ \A i \in (Len(x) + 1)..Len(d) : d[i] \in Common
  BY DEF OwnDirs, NamesBelow

\* The same of the folders that are not common.
LEMMA InRealDirs ==
  ASSUME NEW x \in Dir, NEW d \in Dir
  PROVE  d \in RealDirs[x] <=> /\ IsPrefix(x, d)
                               /\ \A i \in (Len(x) + 1)..Len(d) : d[i] \notin Common
  BY DEF RealDirs, NamesBelow

\* The files of some directories are the indexed ones that lie in them.
LEMMA InFiles ==
  ASSUME NEW t, NEW D, NEW d, NEW k
  PROVE  <<d, k>> \in FilesIn(t, D) <=> d \in D /\ k \in t[d] /\ k \in Indexed
  BY DEF FilesIn

\* No name on the way to it is common.
Plain(d) == \A i \in 1..Len(d) : d[i] \notin Common

\* The walk gets to a directory through those above it, each a child of the last.
LEMMA VisitedDir ==
  ASSUME NEW d \in Visited(tree, mode)
  PROVE  /\ d \in Dir /\ Plain(d)
         /\ \A n \in 0..(Len(d) - 1) : Descends(tree, mode, Upto(d, n))
<1>1. /\ d \in Dir
      /\ \A i \in 1..Len(d) : /\ Descends(tree, mode, Upto(d, i - 1))
                              /\ Upto(d, i) \in Children(tree, Upto(d, i - 1))
  BY DEF Visited, Upto
<1>2. Len(d) \in Nat
  BY <1>1, DirIsPath
<1>3. ASSUME NEW i \in 1..Len(d) PROVE d[i] \notin Common
  <2>1. Upto(d, i) \in Dir /\ Len(Upto(d, i)) = i /\ Upto(d, i)[i] = d[i]
    BY <1>1, <1>2, UptoIsDir
  <2>2. Upto(d, i - 1) \in Dir /\ Len(Upto(d, i - 1)) = i - 1
    BY <1>1, <1>2, UptoIsDir
  <2>3. Upto(d, i) \in RealDirs[Upto(d, i - 1)]
    BY <1>1 DEF Children
  <2> QED
    BY <1>2, <2>1, <2>2, <2>3, InRealDirs
<1>4. ASSUME NEW n \in 0..(Len(d) - 1) PROVE Descends(tree, mode, Upto(d, n))
  <2>1. n + 1 \in 1..Len(d) /\ (n + 1) - 1 = n
    BY <1>2
  <2> QED
    BY <1>1, <2>1
<1> QED
  BY <1>1, <1>3, <1>4 DEF Plain

\* A mesh lies in common folders below a directory of no common name, which is
\* the model or, where the model is everything beneath it, lies in the model.
Below(x, e, d) == IsPrefix(x, e) /\ Plain(e) /\ d \in OwnDirs[e]

\* A model owns a mesh through the directory in which the common names begin.
LEMMA OwnerBelow ==
  ASSUME NEW x \in Visited(tree, mode), NEW d \in Dir,
         <<d, "mesh">> \in FilesOf(tree, mode, x)
  PROVE  \E e \in Dir : Below(x, e, d) /\ (x # e => Collapses(tree, mode, x))
<1>1. x \in Dir /\ Plain(x) /\ IsPrefix(x, x) /\ Len(x) \in Nat
  BY VisitedDir, DirIsPath DEF IsPrefix
<1>2. CASE ~Collapses(tree, mode, x)
  BY <1>1, <1>2, InFiles DEF FilesOf, OwnFiles, Below
<1>3. CASE Collapses(tree, mode, x)
  <2>1. PICK e \in RealDirs[x] : d \in OwnDirs[e]
    BY <1>3, InFiles DEF FilesOf, WholeFiles
  <2>2. e \in Dir
    BY <1>1, <2>1 DEF RealDirs
  <2>3. IsPrefix(x, e) /\ \A i \in (Len(x) + 1)..Len(e) : e[i] \notin Common
    BY <1>1, <2>1, <2>2, InRealDirs
  <2>4. Len(e) \in Nat /\ x = Upto(e, Len(x)) /\ Len(x) \in 0..Len(e)
    BY <1>1, <2>2, <2>3, PrefixIsUpto, DirIsPath
  <2>5. \A i \in 1..Len(x) : x[i] = e[i]
    BY <2>2, <2>4, UptoIsDir
  <2>6. Plain(e)
    BY <1>1, <2>3, <2>4, <2>5 DEF Plain
  <2> QED
    BY <1>3, <2>1, <2>2, <2>3, <2>6 DEF Below
<1> QED
  BY <1>2, <1>3

\* That directory is the only one.
LEMMA OneBelow ==
  ASSUME NEW x \in Dir, NEW y \in Dir, NEW e \in Dir, NEW f \in Dir, NEW d \in Dir,
         Below(x, e, d), Below(y, f, d)
  PROVE  e = f
<1>1. ASSUME NEW a \in Dir, NEW b \in Dir, Plain(a), Plain(b),
             d \in OwnDirs[a], d \in OwnDirs[b], Len(a) <= Len(b)
      PROVE  a = b
  <2>1. /\ IsPrefix(a, d) /\ \A i \in (Len(a) + 1)..Len(d) : d[i] \in Common
        /\ IsPrefix(b, d)
    BY <1>1, InOwnDirs
  <2>2. /\ Len(a) \in Nat /\ Len(b) \in 0..Len(d) /\ Len(d) \in Nat
        /\ a = Upto(d, Len(a)) /\ b = Upto(d, Len(b))
    BY <2>1, PrefixIsUpto, DirIsPath
  <2>3. Len(b) > 0 => b[Len(b)] = d[Len(b)]
    BY <2>2, UptoIsDir
  <2>4. ~(Len(a) < Len(b))
    BY <1>1, <2>1, <2>2, <2>3 DEF Plain
  <2> QED
    BY <1>1, <2>2, <2>4
<1>2. Len(e) \in Nat /\ Len(f) \in Nat
  BY DirIsPath
<1> QED
  BY <1>1, <1>2 DEF Below

\* Of two that the walk gets to, one above the other, it went on from the upper.
LEMMA UpperDescends ==
  ASSUME NEW x \in Visited(tree, mode), NEW y \in Visited(tree, mode), NEW e \in Dir,
         IsPrefix(x, e), IsPrefix(y, e), Len(x) < Len(y)
  PROVE  ~Collapses(tree, mode, x) /\ x # e
<1>1. x \in Dir /\ y \in Dir
  BY VisitedDir
<1>2. /\ Len(x) \in Nat /\ Len(y) \in 0..Len(e) /\ Len(e) \in Nat
      /\ x = Upto(e, Len(x)) /\ y = Upto(e, Len(y))
  BY <1>1, PrefixIsUpto, DirIsPath
<1>3. x = Upto(y, Len(x))
  BY <1>2, UptoIsDir
<1>4. Descends(tree, mode, x)
  BY <1>2, <1>3, VisitedDir
<1> QED
  BY <1>2, <1>4 DEF Descends, Collapses, IsPinned

\* Two models with the same mesh are one.
LEMMA OneOwner ==
  ASSUME NEW d \in Dir, NEW m \in groupModels(tree, mode), NEW n \in groupModels(tree, mode),
         <<d, "mesh">> \in m.files, <<d, "mesh">> \in n.files
  PROVE  m = n
<1> DEFINE FolderOf(x) == [path |-> x,
                           kind |-> IF IsPackage(tree, x) THEN "package" ELSE "folder",
                           files |-> FilesOf(tree, mode, x)]
           LooseIn(x) == [path |-> Append(x, "mesh"), kind |-> "file", files |-> {<<x, "mesh">>}]
<1>1. ASSUME NEW g \in groupModels(tree, mode), <<d, "mesh">> \in g.files
      PROVE  \/ \E x \in Visited(tree, mode) :
                  /\ IsModel(tree, mode, x) /\ g = FolderOf(x)
                  /\ <<d, "mesh">> \in FilesOf(tree, mode, x)
             \/ /\ d \in Visited(tree, mode) /\ HasLooseFiles(tree, mode, d)
                /\ g = LooseIn(d)
  BY <1>1 DEF groupModels, FolderModels, LooseModels
<1>2. ASSUME NEW x \in Visited(tree, mode), NEW y \in Visited(tree, mode),
             <<d, "mesh">> \in FilesOf(tree, mode, x), <<d, "mesh">> \in FilesOf(tree, mode, y)
      PROVE  x = y
  <2>1. PICK e \in Dir : Below(x, e, d) /\ (x # e => Collapses(tree, mode, x))
    BY <1>2, OwnerBelow
  <2>2. PICK f \in Dir : Below(y, f, d) /\ (y # f => Collapses(tree, mode, y))
    BY <1>2, OwnerBelow
  <2>3. x \in Dir /\ y \in Dir
    BY VisitedDir
  <2>4. e = f
    BY <2>1, <2>2, <2>3, OneBelow
  <2>5. IsPrefix(x, e) /\ IsPrefix(y, e)
    BY <2>1, <2>2, <2>4 DEF Below
  <2>6. ~(Len(x) < Len(y)) /\ ~(Len(y) < Len(x))
    BY <2>1, <2>2, <2>4, <2>5, UpperDescends
  <2>7. Len(x) \in Nat /\ Len(y) \in Nat /\ x = Upto(e, Len(x)) /\ y = Upto(e, Len(y))
    BY <2>3, <2>5, PrefixIsUpto, DirIsPath
  <2> QED
    BY <2>6, <2>7
<1>3. ASSUME NEW x \in Visited(tree, mode), IsModel(tree, mode, x),
             <<d, "mesh">> \in FilesOf(tree, mode, x),
             d \in Visited(tree, mode), HasLooseFiles(tree, mode, d)
      PROVE  FALSE
  <2>1. PICK e \in Dir : Below(x, e, d) /\ (x # e => Collapses(tree, mode, x))
    BY <1>3, OwnerBelow
  <2>2. x \in Dir /\ Plain(d)
    BY <1>3, VisitedDir
  <2>3. IsPrefix(d, d) /\ d \in OwnDirs[d]
    <3>1. Len(d) \in Nat
      BY DirIsPath
    <3>2. IsPrefix(d, d)
      BY <3>1 DEF IsPrefix
    <3> QED
      BY <3>1, <3>2, InOwnDirs
  <2>4. e = d
    BY <2>1, <2>2, <2>3, OneBelow DEF Below
  <2>5. IsPrefix(x, d)
    BY <2>1, <2>4 DEF Below
  <2>6. ~(Len(x) < Len(d))
    BY <1>3, <2>1, <2>3, <2>4, <2>5, UpperDescends
  <2>7. x = d
    BY <2>2, <2>5, <2>6, PrefixIsUpto, DirIsPath
  <2> QED
    BY <1>3, <2>7 DEF IsModel, HasLooseFiles, Collapses, IsPackage, IsPinned
<1> HIDE DEF FolderOf, LooseIn
<1> QED
  BY <1>1, <1>2, <1>3

\* The walk goes on from a directory it gets to and descends from to a child.
LEMMA VisitsChild ==
  ASSUME NEW e \in Dir, NEW j \in 0..(Len(e) - 1), Upto(e, j) \in Visited(tree, mode),
         Descends(tree, mode, Upto(e, j)), Upto(e, j + 1) \in Children(tree, Upto(e, j))
  PROVE  Upto(e, j + 1) \in Visited(tree, mode)
<1> DEFINE c == Upto(e, j + 1)
<1>0. Len(e) \in Nat /\ j + 1 \in 0..Len(e) /\ j \in Nat
  BY DirIsPath
<1>1. c \in Dir /\ Len(c) = j + 1 /\ \A m \in 0..(j + 1) : Upto(c, m) = Upto(e, m)
  BY <1>0, UptoIsDir
<1>2. Len(Upto(e, j)) = j /\ \A m \in 0..j : Upto(Upto(e, j), m) = Upto(e, m)
  BY <1>0, UptoIsDir
<1>3. \A i \in 1..j : /\ Descends(tree, mode, Upto(e, i - 1))
                      /\ Upto(e, i) \in Children(tree, Upto(e, i - 1))
  <2> SUFFICES ASSUME NEW i \in 1..j
               PROVE  /\ Descends(tree, mode, Upto(e, i - 1))
                      /\ Upto(e, i) \in Children(tree, Upto(e, i - 1))
    OBVIOUS
  <2>1. /\ Descends(tree, mode, Upto(Upto(e, j), i - 1))
        /\ Upto(Upto(e, j), i) \in Children(tree, Upto(Upto(e, j), i - 1))
    BY <1>2 DEF Visited, Upto
  <2> QED
    BY <1>0, <1>2, <2>1
<1>4. ASSUME NEW i \in 1..Len(c)
      PROVE  Descends(tree, mode, Upto(c, i - 1)) /\ Upto(c, i) \in Children(tree, Upto(c, i - 1))
  <2>1. Upto(c, i - 1) = Upto(e, i - 1) /\ Upto(c, i) = Upto(e, i)
    BY <1>0, <1>1
  <2>2. CASE i \in 1..j
    BY <1>3, <2>1, <2>2
  <2>3. CASE i = j + 1
    <3>1. i - 1 = j
      BY <1>0, <2>3
    <3> QED
      BY <2>1, <2>3, <3>1
  <2> QED
    BY <1>0, <1>1, <2>2, <2>3
<1>5. c \in Visited(tree, mode)
  <2> HIDE DEF c
  <2> QED
    BY <1>1, <1>4 DEF Visited, Upto
<1> QED
  BY <1>5

\* It gets to a directory through all above it.
LEMMA VisitedAbove ==
  ASSUME NEW d \in Visited(tree, mode), NEW m \in 0..Len(d)
  PROVE  Upto(d, m) \in Visited(tree, mode)
<1> DEFINE c == Upto(d, m)
<1>0. d \in Dir /\ Len(d) \in Nat /\ m \in Nat
  BY VisitedDir, DirIsPath
<1>1. c \in Dir /\ Len(c) = m /\ \A n \in 0..m : Upto(c, n) = Upto(d, n)
  BY <1>0, UptoIsDir
<1>2. \A i \in 1..Len(d) : /\ Descends(tree, mode, Upto(d, i - 1))
                           /\ Upto(d, i) \in Children(tree, Upto(d, i - 1))
  BY DEF Visited, Upto
<1>3. ASSUME NEW i \in 1..Len(c)
      PROVE  Descends(tree, mode, Upto(c, i - 1)) /\ Upto(c, i) \in Children(tree, Upto(c, i - 1))
  <2>1. Upto(c, i - 1) = Upto(d, i - 1) /\ Upto(c, i) = Upto(d, i) /\ i \in 1..Len(d)
    BY <1>0, <1>1
  <2> QED
    BY <1>2, <2>1
<1> HIDE DEF c
<1>4. c \in Visited(tree, mode)
  BY <1>1, <1>3 DEF Visited, Upto
<1> QED
  BY <1>4 DEF c

\* The names on the way to a directory that does not drop out are common from
\* some place on, and none is before.
LEMMA CommonTail ==
  ASSUME NEW d \in Dir, ~DropsOut(d)
  PROVE  \E k \in 0..Len(d) : Plain(Upto(d, k)) /\ d \in OwnDirs[Upto(d, k)]
<1> DEFINE S == {k \in 0..Len(d) : \A i \in 1..k : d[i] \notin Common}
<1>0. Len(d) \in Nat
  BY DirIsPath
<1>1. S \in SUBSET (0..Len(d)) /\ 0 \in S /\ \A k \in S : 0..k \subseteq S
  BY <1>0
<1>2. PICK c \in 0..(Len(d) + 1) : \A k \in 0..Len(d) : k \in S <=> k < c
  <2> HIDE DEF S
  <2> QED
    BY <1>0, <1>1, InitialPart
<1>3. c # 0
  BY <1>0, <1>1, <1>2
<1> DEFINE k == c - 1
<1>4. k \in 0..Len(d) /\ k \in S
  BY <1>0, <1>2, <1>3
<1>5. ASSUME NEW j \in (k + 1)..Len(d) PROVE d[j] \in Common
  <2>1. k + 1 \in 0..Len(d) /\ k + 1 \notin S
    BY <1>0, <1>2, <1>4
  <2>2. d[k + 1] \in Common
    BY <1>0, <1>4, <2>1
  <2> QED
    BY <1>0, <1>4, <2>2 DEF DropsOut
<1> HIDE DEF k
<1>6. /\ Upto(d, k) \in Dir /\ Len(Upto(d, k)) = k /\ IsPrefix(Upto(d, k), d)
      /\ \A i \in 1..k : Upto(d, k)[i] = d[i]
  BY <1>4, UptoIsDir
<1>7. Plain(Upto(d, k))
  BY <1>4, <1>6 DEF Plain
<1>8. d \in OwnDirs[Upto(d, k)]
  BY <1>5, <1>6, InOwnDirs
<1> QED
  BY <1>4, <1>7, <1>8

\* A mesh that does not drop out is in a model.
LEMMA SomeOwner ==
  ASSUME mode \in Mode, NEW d \in Dir, "mesh" \in tree[d], ~DropsOut(d)
  PROVE  \E m \in groupModels(tree, mode) : <<d, "mesh">> \in m.files
<1> DEFINE Owned == \E m \in groupModels(tree, mode) : <<d, "mesh">> \in m.files
<1>1. PICK k \in 0..Len(d) : Plain(Upto(d, k)) /\ d \in OwnDirs[Upto(d, k)]
  BY CommonTail
<1> DEFINE e == Upto(d, k)
<1>2. /\ e \in Dir /\ Len(e) = k /\ k \in Nat /\ Len(d) \in Nat /\ IsPrefix(e, d)
      /\ \A i \in 1..k : e[i] = d[i]
      /\ \A m \in 0..k : Upto(e, m) = Upto(d, m)
  BY UptoIsDir, DirIsPath
<1>3. Plain(e) /\ d \in OwnDirs[e] /\ Upto(e, k) = e
  BY <1>1, <1>2, DirIsPath
<1>4. \A j \in 0..k : /\ Upto(e, j) \in Dir /\ Len(Upto(e, j)) = j
                      /\ IsPrefix(Upto(e, j), e) /\ IsPrefix(Upto(e, j), d)
                      /\ \A m \in 0..j : Upto(Upto(e, j), m) = Upto(e, m)
  <2> SUFFICES ASSUME NEW j \in 0..k
               PROVE  /\ Upto(e, j) \in Dir /\ Len(Upto(e, j)) = j
                      /\ IsPrefix(Upto(e, j), e) /\ IsPrefix(Upto(e, j), d)
                      /\ \A m \in 0..j : Upto(Upto(e, j), m) = Upto(e, m)
    OBVIOUS
  <2>1. j \in 0..Len(d) /\ Upto(e, j) = Upto(d, j)
    BY <1>2
  <2> HIDE DEF e
  <2> QED
    BY <1>2, <2>1, UptoIsDir
<1> HIDE DEF e
<1>5. ASSUME NEW j \in 0..k PROVE e \in RealDirs[Upto(e, j)]
  BY <1>2, <1>3, <1>4, <1>5, InRealDirs DEF Plain
<1>6. HasMeshes(tree, e)
  BY <1>3 DEF HasMeshes
<1>7. ASSUME NEW j \in 0..(k - 1) PROVE Upto(e, j + 1) \in Children(tree, Upto(e, j))
  <2> DEFINE x == Upto(e, j)
             y == Upto(e, j + 1)
  <2>0. j \in 0..k /\ j + 1 \in 0..k /\ j \in Nat
    BY <1>2
  <2>1. /\ x \in Dir /\ y \in Dir /\ Len(x) = j /\ Len(y) = j + 1 /\ x = Upto(y, j)
        /\ y[j + 1] = e[j + 1]
    <3>1. y[j + 1] = e[j + 1]
      BY <1>2, <2>0, UptoIsDir
    <3> QED
      BY <1>4, <2>0, <3>1
  <2>2. IsPrefix(x, y)
    BY <2>0, <2>1, UptoIsDir
  <2>3. e[j + 1] \notin Common
    BY <1>2, <1>3, <2>0 DEF Plain
  <2>4. y \in RealDirs[x]
    <3> HIDE DEF x, y
    <3> QED
      BY <2>0, <2>1, <2>2, <2>3, InRealDirs
  <2>5. SubtreeHasMeshes(tree, y)
    BY <1>5, <1>6, <2>0 DEF SubtreeHasMeshes
  <2> QED
    BY <2>1, <2>4, <2>5 DEF Children
<1>8. ASSUME NEW j \in 0..k, Upto(e, j) \in Visited(tree, mode), Collapses(tree, mode, Upto(e, j))
      PROVE  Owned
  <2> DEFINE x == Upto(e, j)
             m == [path |-> x, kind |-> IF IsPackage(tree, x) THEN "package" ELSE "folder",
                   files |-> FilesOf(tree, mode, x)]
  <2>1. <<d, "mesh">> \in WholeFiles(tree, x)
    BY <1>3, <1>5, InFiles DEF WholeFiles, Indexed
  <2>2. m \in groupModels(tree, mode)
    BY <1>8, <2>1 DEF groupModels, FolderModels, IsModel
  <2>3. m.files = WholeFiles(tree, x)
    BY <1>8 DEF FilesOf
  <2> QED
    BY <2>1, <2>2, <2>3
<1>9. ASSUME NEW j \in 0..k, Upto(e, j) \in Visited(tree, mode), mode = "flat", j > Depth
      PROVE  FALSE
  <2> DEFINE x == Upto(e, j)
             y == Upto(e, j - 1)
  <2>0. j \in 1..k /\ j - 1 \in 0..k /\ Depth \in Nat
    BY <1>2, <1>9, GroupingAssumption
  <2>1. y = Upto(x, j - 1) /\ Len(x) = j /\ y \in Dir /\ Len(y) = j - 1 /\ IsPrefix(y, d)
    <3>1. j - 1 \in 0..j
      BY <2>0
    <3>2. Len(x) = j /\ Upto(x, j - 1) = y
      BY <1>4, <3>1
    <3> QED
      BY <1>4, <2>0, <3>2
  <2>2. Descends(tree, mode, y)
    BY <1>9, <2>0, <2>1, VisitedDir
  <2>3. IsPackage(tree, y) /\ Len(y) >= Depth
    BY <1>9, <2>0, <2>1, <2>2 DEF Descends
  <2>4. d \notin OwnDirs[y]
    <3>1. d[j] \notin Common /\ j \in (Len(y) + 1)..Len(d)
      BY <1>2, <1>3, <2>0, <2>1 DEF Plain
    <3> QED
      BY <2>1, <3>1, InOwnDirs
  <2> QED
    BY <1>9, <2>1, <2>3, <2>4 DEF DropsOut
<1>10. \A j \in 0..k : j > 0 => Upto(e, j) # Root
  BY <1>4 DEF Root
<1>11. ASSUME e \in Visited(tree, mode) PROVE Owned
  <2> DEFINE m == [path |-> e, kind |-> IF IsPackage(tree, e) THEN "package" ELSE "folder",
                   files |-> FilesOf(tree, mode, e)]
             l == [path |-> Append(d, "mesh"), kind |-> "file", files |-> {<<d, "mesh">>}]
  <2>1. ASSUME IsModel(tree, mode, e), ~Collapses(tree, mode, e) PROVE Owned
    <3>1. m \in groupModels(tree, mode) /\ m.files = OwnFiles(tree, e)
      BY <1>11, <2>1 DEF groupModels, FolderModels, FilesOf
    <3>2. <<d, "mesh">> \in OwnFiles(tree, e)
      BY <1>3, InFiles DEF OwnFiles, Indexed
    <3> QED
      BY <3>1, <3>2
  <2>2. ASSUME d = e, HasLooseFiles(tree, mode, d) PROVE Owned
    <3>1. l \in groupModels(tree, mode)
      BY <1>11, <2>2 DEF groupModels, LooseModels
    <3> QED
      BY <3>1
  <2>3. CASE Collapses(tree, mode, e)
    <3>1. k \in 0..k
      BY <1>2
    <3> QED
      BY <1>3, <1>8, <1>11, <2>3, <3>1
  <2>4. CASE IsPackage(tree, e)
    BY <2>1, <2>4 DEF IsModel, Collapses, IsPinned
  <2>5. CASE e = Root
    <3>1. d = e
      BY <1>2, <1>3, <2>5 DEF DropsOut, IsBare
    <3> QED
      BY <2>2, <2>5, <3>1 DEF HasLooseFiles
  <2>6. CASE e # Root /\ mode # "flat" /\ ~Collapses(tree, mode, e)
    BY <1>6, <2>1, <2>6 DEF IsModel
  <2>7. CASE e # Root /\ mode = "flat" /\ ~Collapses(tree, mode, e) /\ ~IsPackage(tree, e)
    <3>1. k # Depth /\ ~IsPinned(tree, e)
      BY <1>2, <2>7 DEF Collapses
    <3>2. ~(k > Depth)
      <4>1. k \in 0..k
        BY <1>2
      <4> QED
        BY <1>3, <1>9, <1>11, <2>7, <4>1
    <3>3. Len(e) < Depth
      BY <1>2, <3>1, <3>2, GroupingAssumption
    <3>4. ASSUME NEW c \in Dir, IsPrefix(c, e) PROVE ~IsPinned(tree, c)
      <4>1. Len(c) \in 0..k /\ c = Upto(e, Len(c))
        BY <1>2, <3>4, PrefixIsUpto
      <4>2. CASE Len(c) = k
        BY <1>3, <3>1, <4>1, <4>2
      <4>3. CASE Len(c) \in 0..(k - 1)
        <5>1. Descends(tree, mode, c)
          BY <1>2, <1>11, <4>1, <4>3, VisitedDir
        <5> QED
          BY <5>1 DEF Descends, Collapses, IsPinned
      <4> QED
        BY <1>2, <4>1, <4>2, <4>3
    <3>5. IsBare(e)
      BY <2>7, <3>3, <3>4 DEF IsBare
    <3>6. d = e
      BY <1>2, <1>3, <3>5 DEF DropsOut
    <3> QED
      BY <2>2, <2>7, <3>1, <3>3, <3>6 DEF HasLooseFiles
  <2> QED
    BY <2>3, <2>4, <2>5, <2>6, <2>7
<1> DEFINE J == {j \in 0..k : Upto(e, j) \in Visited(tree, mode)}
<1>12. J \in SUBSET (0..k) /\ \A j \in J : 0..j \subseteq J
  <2> SUFFICES ASSUME NEW j \in J, NEW m \in 0..j PROVE m \in J
    OBVIOUS
  <2>1. m \in 0..k /\ m \in 0..Len(Upto(e, j)) /\ Upto(Upto(e, j), m) = Upto(e, m)
    BY <1>2, <1>4
  <2> QED
    BY <2>1, VisitedAbove
<1>13. 0 \in J
  <2>1. 0 \in 0..k /\ Upto(e, 0) \in Dir /\ Len(Upto(e, 0)) = 0
    BY <1>2, <1>4
  <2>2. Upto(e, 0) \in Visited(tree, mode)
    BY <2>1 DEF Visited
  <2> QED
    BY <2>1, <2>2
<1>14. PICK n \in 0..(k + 1) : \A j \in 0..k : j \in J <=> j < n
  <2> HIDE DEF J
  <2> QED
    BY <1>2, <1>12, InitialPart
<1>15. n # 0
  BY <1>2, <1>13, <1>14
<1> DEFINE j == n - 1
<1>16. j \in 0..k /\ Upto(e, j) \in Visited(tree, mode)
  BY <1>2, <1>14, <1>15
<1>17. CASE j = k
  BY <1>3, <1>11, <1>16, <1>17
<1>18. CASE j # k
  <2>1. j \in 0..(k - 1) /\ j + 1 \in 0..k /\ j + 1 \notin J
    BY <1>2, <1>14, <1>15, <1>18
  <2>2. Upto(e, j + 1) \notin Visited(tree, mode)
    BY <2>1
  <2> HIDE DEF j, J
  <2>3. ~Descends(tree, mode, Upto(e, j))
    BY <1>2, <1>7, <1>16, <2>1, <2>2, VisitsChild
  <2>4. CASE Collapses(tree, mode, Upto(e, j))
    BY <1>8, <1>16, <2>4
  <2>5. CASE ~Collapses(tree, mode, Upto(e, j))
    <3>1. mode = "flat" /\ ~(Len(Upto(e, j)) < Depth) /\ ~IsPackage(tree, Upto(e, j))
      BY <2>3, <2>5 DEF Descends
    <3>2. j >= Depth /\ Depth >= 1 /\ Depth \in Nat /\ j \in Nat
      BY <1>4, <1>16, <3>1, GroupingAssumption
    <3>3. Upto(e, j) # Root /\ Len(Upto(e, j)) = j
      BY <1>4, <1>10, <1>16, <3>2
    <3>4. j # Depth
      BY <2>5, <3>1, <3>3 DEF Collapses
    <3> QED
      BY <1>9, <1>16, <3>1, <3>2, <3>4
  <2> QED
    BY <2>4, <2>5
<1> QED
  BY <1>17, <1>18

----------------------------------------------------------------------------
(* What the grouping promises of every tree the volume can hold. *)

\* Every directory holds kinds of file.
TreeTyped == tree \in [Dir -> SUBSET Kind] /\ mode \in Mode

\* Whoever writes to the volume leaves it a tree.
LEMMA TreeStaysTyped == TreeSpec => []TreeTyped
<1>1. TreeInit => TreeTyped
  <2> SUFFICES ASSUME TreeInit PROVE TreeTyped
    OBVIOUS
  <2>1. PICK file \in [1..MaxFile -> Dir \X Kind] :
          tree = [d \in Dir |-> {k \in Kind : \E i \in 1..MaxFile : file[i] = <<d, k>>}]
    BY DEF TreeInit
  <2> QED
    BY <2>1 DEF TreeInit, TreeTyped
<1>2. TreeTyped /\ [TreeNext]_treeVars => TreeTyped'
  <2> SUFFICES ASSUME TreeTyped, [TreeNext]_treeVars PROVE TreeTyped'
    OBVIOUS
  <2>1. ASSUME NEW d \in Dir, NEW k \in Kind, Put(d, k) \/ Take(d, k) PROVE TreeTyped'
    BY <2>1 DEF Put, Take, TreeTyped
  <2>2. CASE WriteSidecar
    BY <2>2 DEF WriteSidecar, TreeTyped, Kind
  <2>3. CASE UNCHANGED <<tree, mode>>
    BY <2>3 DEF TreeTyped
  <2> QED
    BY <2>1, <2>2, <2>3
    DEF TreeNext, ReadTree, Upsert, MarkRowsMissing, Look, LeaveSidecar, treeVars
<1> QED
  BY <1>1, <1>2, PTL DEF TreeSpec

\* In every mode and at any depth, with sidecars and packages anywhere, a mesh is
\* in no two models, and it is in one unless the three rules leave it out.
THEOREM MeshesHaveOneModel == TreeSpec => []EveryMeshHasOneModel
<1>1. TreeTyped => EveryMeshHasOneModel
  <2> SUFFICES ASSUME TreeTyped, NEW d \in Dir, "mesh" \in tree[d]
               PROVE  LET owners == {m \in groupModels(tree, mode) : <<d, "mesh">> \in m.files}
                      IN Cardinality(owners) <= 1 /\ (~DropsOut(d) => owners # {})
    BY DEF EveryMeshHasOneModel, TreeTyped
  <2> DEFINE owners == {m \in groupModels(tree, mode) : <<d, "mesh">> \in m.files}
  <2>1. \A m, n \in owners : m = n
    BY OneOwner
  <2>2. ~DropsOut(d) => owners # {}
    BY SomeOwner DEF TreeTyped
  <2> HIDE DEF owners
  <2>3. owners = {} \/ \E m : owners = {m}
    BY <2>1
  <2>4. Cardinality(owners) <= 1
    <3>1. CASE owners = {}
      <4>1. Cardinality(owners) = 0
        BY <3>1, FS_EmptySet
      <4> QED
        BY <4>1
    <3>2. ASSUME NEW m, owners = {m} PROVE Cardinality(owners) <= 1
      <4>1. Cardinality({m}) = 1
        BY FS_Singleton
      <4> QED
        BY <3>2, <4>1
    <3> QED
      BY <2>3, <3>1, <3>2
  <2> QED
    BY <2>2, <2>4 DEF owners
<1> QED
  BY <1>1, TreeStaysTyped, PTL

\* A mesh or an image put anywhere takes no model away and no file from one,
\* except in top_level mode.
THEOREM AddingKeepsModels == TreeSpec => AddingTakesNothing
<1>1. ASSUME TreeTyped, mode # "top_level", NEW d \in Dir, NEW k \in Indexed, Put(d, k),
             NEW m \in groupModels(tree, mode)
      PROVE  \E n \in groupModels(tree, mode)' :
               n.path = m.path /\ n.kind = m.kind /\ m.files \subseteq n.files
  <2> DEFINE t == tree'
  <2>1. mode' = mode /\ t = [tree EXCEPT ![d] = @ \cup {k}]
    BY <1>1 DEF Put
  <2>2. \A e \in Dir : tree[e] \subseteq t[e] /\ ("package" \in t[e] <=> "package" \in tree[e])
                       /\ ("sidecar" \in t[e] <=> "sidecar" \in tree[e])
    BY <1>1, <2>1 DEF TreeTyped, Indexed
  <2> HIDE DEF t
  <2>3. \A e \in Dir : /\ IsPackage(t, e) <=> IsPackage(tree, e)
                       /\ IsPinned(t, e) <=> IsPinned(tree, e)
    BY <2>2 DEF IsPackage, IsPinned
  <2>4. \A e \in Dir : OwnDirs[e] \subseteq Dir /\ RealDirs[e] \subseteq Dir
    BY DEF OwnDirs, RealDirs
  <2>5. \A D \in SUBSET Dir : FilesIn(tree, D) \subseteq FilesIn(t, D)
    BY <2>2 DEF FilesIn
  <2>6. \A e \in Dir : HasMeshes(tree, e) => HasMeshes(t, e)
    BY <2>2, <2>4 DEF HasMeshes
  <2>7. \A e \in Dir : Children(tree, e) \subseteq Children(t, e)
    BY <2>4, <2>6 DEF Children, SubtreeHasMeshes
  <2>8. \A e \in Dir : /\ OwnFiles(tree, e) \subseteq OwnFiles(t, e)
                       /\ WholeFiles(tree, e) \subseteq WholeFiles(t, e)
    BY <2>4, <2>5 DEF OwnFiles, WholeFiles
  <2>9. \A e \in Dir : Collapses(t, mode, e) <=> Collapses(tree, mode, e)
    BY <1>1, <2>3 DEF Collapses
  <2>10. \A e \in Dir : Descends(t, mode, e) <=> Descends(tree, mode, e)
    BY <2>3, <2>9 DEF Descends
  <2>11. Visited(tree, mode) \subseteq Visited(t, mode)
    <3> SUFFICES ASSUME NEW e \in Visited(tree, mode), NEW i \in 1..Len(e)
                 PROVE  /\ Descends(t, mode, Upto(e, i - 1))
                        /\ Upto(e, i) \in Children(t, Upto(e, i - 1))
      BY DEF Visited, Upto
    <3>1. /\ e \in Dir
          /\ Descends(tree, mode, Upto(e, i - 1))
          /\ Upto(e, i) \in Children(tree, Upto(e, i - 1))
      BY DEF Visited, Upto
    <3>2. i - 1 \in 0..Len(e)
      BY <3>1, DirIsPath
    <3>3. Upto(e, i - 1) \in Dir
      BY <3>1, <3>2, UptoIsDir
    <3> QED
      BY <2>7, <2>10, <3>1, <3>3
  <2>12. \A e \in Dir : IsModel(tree, mode, e) => IsModel(t, mode, e)
    BY <2>3, <2>6, <2>8, <2>9 DEF IsModel
  <2>13. \A e \in Dir : FilesOf(tree, mode, e) \subseteq FilesOf(t, mode, e)
    BY <2>8, <2>9 DEF FilesOf
  <2>14. \A e \in Dir : HasLooseFiles(tree, mode, e) => HasLooseFiles(t, mode, e)
    BY <2>2, <2>3 DEF HasLooseFiles
  <2>15. groupModels(tree, mode)' = groupModels(t, mode)
    BY <2>1 DEF t
  <2>16. Visited(tree, mode) \subseteq Dir
    BY DEF Visited
  <2>17. CASE m \in FolderModels(tree, mode)
    <3>1. PICK e \in Visited(tree, mode) :
            /\ IsModel(tree, mode, e)
            /\ m = [path |-> e, kind |-> IF IsPackage(tree, e) THEN "package" ELSE "folder",
                    files |-> FilesOf(tree, mode, e)]
      BY <2>17 DEF FolderModels
    <3> DEFINE n == [path |-> e, kind |-> IF IsPackage(t, e) THEN "package" ELSE "folder",
                     files |-> FilesOf(t, mode, e)]
    <3>2. n \in groupModels(t, mode)
      BY <2>11, <2>12, <2>16, <3>1 DEF groupModels, FolderModels
    <3>3. n.path = m.path /\ n.kind = m.kind /\ m.files \subseteq n.files
      BY <2>3, <2>13, <2>16, <3>1
    <3> QED
      BY <2>15, <3>2, <3>3
  <2>18. CASE m \in LooseModels(tree, mode)
    <3>1. m \in LooseModels(t, mode)
      BY <2>11, <2>14, <2>16, <2>18 DEF LooseModels
    <3> QED
      BY <2>15, <3>1 DEF groupModels
  <2> QED
    BY <2>17, <2>18 DEF groupModels
<1>2. TreeTyped /\ [TreeNext]_treeVars =>
        [(tree' # tree /\ mode # "top_level" /\ \E d \in Dir, k \in Indexed : Put(d, k)) =>
           \A m \in groupModels(tree, mode) :
             \E n \in groupModels(tree, mode)' :
               n.path = m.path /\ n.kind = m.kind /\ m.files \subseteq n.files]_treeVars
  BY <1>1
<1> QED
  BY <1>2, TreeStaysTyped, PTL DEF TreeSpec, AddingTakesNothing

=============================================================================
