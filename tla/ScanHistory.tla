---------------------------- MODULE ScanHistory ----------------------------
(***************************************************************************)
(* LibraryScan with a history variable: what the owner and the user have   *)
(* done since a scan last succeeded on a volume nobody touched.  With it,  *)
(* the two promises of scan-service.ts that span several scans can be      *)
(* stated: a rescan of an unchanged library changes nothing, and a renamed *)
(* folder is still the same model.                                         *)
(***************************************************************************)
EXTENDS LibraryScan

VARIABLES
  since,      \* "settled", "renamed" (that and nothing else) or "changed"
  rename,     \* the row and new path of that rename
  disturbed   \* did anyone act since the scan in progress began

historyVars == <<vars, since, rename, disturbed>>

Init_H == Init /\ since = "changed" /\ rename = Nowhere /\ disturbed = FALSE

\* A scan begins with a clean slate, and settles the library by succeeding on
\* one that nobody touched meanwhile.
ScanStep_H ==
  /\ ScanStep \/ InterruptScan
  /\ disturbed' = (IF phase = "idle" THEN FALSE ELSE disturbed)
  /\ since' = IF outcome' = "succeeded" /\ phase = "finish" /\ ~disturbed
              THEN "settled"
              ELSE since
  /\ rename' = IF since' = "renamed" THEN rename ELSE Nowhere

\* The one change that is told apart: the folder of a settled library gets
\* another name, on the mounted part of the volume, while no scan is looking.
RenameFolder_H(p, q) ==
  /\ RenameFolder(p, q)
  /\ disturbed' = TRUE
  /\ IF since = "settled" /\ phase = "idle" /\ p \notin LooseFile
        /\ RowsAt(p) \cap LiveRows # {} /\ q \notin hidden
     THEN since' = "renamed" /\ \E i \in RowsAt(p) : rename' = <<i, q>>
     ELSE since' = "changed" /\ rename' = Nowhere

Other_H ==
  /\ \/ \E p \in Path, c \in Content \cup {NoFolder} : WriteFolder(p, c)
     \/ LoseVolume
     \/ RestoreVolume
     \/ UserStep
     \/ PruneStep
  /\ since' = "changed" /\ rename' = Nowhere
  /\ disturbed' = TRUE

Next_H ==
  \/ ScanStep_H
  \/ \E p, q \in Path : RenameFolder_H(p, q)
  \/ Other_H
  \/ PassDay /\ UNCHANGED <<since, rename, disturbed>>

Spec_H == Init_H /\ [][Next_H]_historyVars

----------------------------------------------------------------------------
\* Rescanning what has not changed writes nothing: no duplicate, no row marked
\* missing, no path or file list rewritten (scan-service.ts: "rescanning an
\* unchanged library must produce no writes and no duplicates").
QuietRescan ==
  [][(since = "settled" /\ ScanStep_H) => UNCHANGED models]_historyVars

\* A folder renamed between two scans is the same row afterwards, with all the
\* user attached to it, and no second row appears (scan-service.ts: "finds it
\* and treats it as the model it already is").  The exception is a folder that
\* lands where the user removed a model.
RenameKeepsTheRow ==
  [][(/\ since = "renamed" /\ phase = "finish" /\ outcome' = "succeeded"
      /\ ~disturbed /\ rename[2] \notin excluded) =>
       /\ Live(rename[1])
       /\ models[rename[1]].path = rename[2]
       /\ LivePaths = VisiblePaths \ excluded]_historyVars
=============================================================================
