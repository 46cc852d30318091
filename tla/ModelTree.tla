----------------------------- MODULE ModelTree -----------------------------
(***************************************************************************)
(* The folders of a library, the models a scan makes of them, and the      *)
(* sidecars that edits leave in them.                                      *)
(*                                                                         *)
(* A sidecar is metadata to whoever edits a model, and to the grouping a   *)
(* declaration that its folder is one model.  An edit is two steps: it     *)
(* looks for models nested in its own (hasNestedModel) and later writes    *)
(* the sidecar (syncSidecar, services/model-service.ts); a scan upserts    *)
(* one model after the other.  LibraryScan has the rest of a reading.      *)
(***************************************************************************)
EXTENDS Grouping

CONSTANTS
  Nobody,              \* no edit is under way
  MaxFile,             \* files on the volume at first
  MaxAct, MaxEdit, MaxScan   \* bounds: the owner's acts, edits and scans

VARIABLES
  tree,     \* [Dir -> the kinds of file in it]
  mode,     \* grouping_mode, given when the library is created
  rows,     \* models: path |-> [kind, missing]
  reading,  \* what the scan in progress has still to upsert, and has seen
  edit,     \* the edit between its look and its write
  acts      \* of acts, edits and scans

treeVars == <<tree, mode, rows, reading, edit, acts>>

NotReading == [active |-> FALSE, pending |-> {}, seen |-> {}]

LiveModels == {p \in DOMAIN rows : ~rows[p].missing}

Spend(event) == acts' = [acts EXCEPT ![event] = @ + 1]

----------------------------------------------------------------------------
(* The owner's hands, and whatever else writes to the volume. *)

Put(d, k) ==
  /\ acts.act < MaxAct /\ Spend("act")
  /\ k \notin tree[d]
  /\ tree' = [tree EXCEPT ![d] = @ \cup {k}]
  /\ UNCHANGED <<mode, rows, reading, edit>>

Take(d, k) ==
  /\ acts.act < MaxAct /\ Spend("act")
  /\ k \in tree[d]
  /\ tree' = [tree EXCEPT ![d] = @ \ {k}]
  /\ UNCHANGED <<mode, rows, reading, edit>>

----------------------------------------------------------------------------
(* A scan. *)

ReadTree ==
  /\ ~reading.active
  /\ acts.scan < MaxScan /\ Spend("scan")
  /\ reading' = [active |-> TRUE, pending |-> groupModels(tree, mode), seen |-> {}]
  /\ UNCHANGED <<tree, mode, rows, edit>>

\* A folder comes before the models nested in it.
Upsert(m) ==
  /\ m \in reading.pending
  /\ \A n \in reading.pending : ~IsStrictPrefix(n.path, m.path)
  /\ rows' = [p \in DOMAIN rows \cup {m.path} |->
                IF p = m.path THEN [kind |-> m.kind, missing |-> FALSE] ELSE rows[p]]
  /\ reading' = [reading EXCEPT !.pending = @ \ {m}, !.seen = @ \cup {m.path}]
  /\ UNCHANGED <<tree, mode, edit, acts>>

MarkRowsMissing ==
  /\ reading.active /\ reading.pending = {}
  /\ rows' = [p \in DOMAIN rows |->
                IF p \in reading.seen THEN rows[p] ELSE [rows[p] EXCEPT !.missing = TRUE]]
  /\ reading' = NotReading
  /\ UNCHANGED <<tree, mode, edit, acts>>

----------------------------------------------------------------------------
(* An edit of a model's metadata, where it reaches the volume. *)

hasNestedModel(p) == \E q \in LiveModels : IsStrictPrefix(p, q)

Look(p) ==
  /\ edit = Nobody
  /\ acts.edit < MaxEdit /\ Spend("edit")
  /\ p \in DOMAIN rows /\ rows[p].kind # "file"
  /\ rows[p].kind = "folder" => ~hasNestedModel(p)
  /\ edit' = [path |-> p, kind |-> rows[p].kind]
  /\ UNCHANGED <<tree, mode, rows, reading>>

WriteSidecar ==
  /\ edit # Nobody
  /\ tree' = [tree EXCEPT ![edit.path] =
                @ \cup {IF edit.kind = "package" THEN "package" ELSE "sidecar"}]
  /\ edit' = Nobody
  /\ UNCHANGED <<mode, rows, reading, acts>>

\* What is there says the same already, or cannot be written.
LeaveSidecar ==
  /\ edit # Nobody
  /\ edit' = Nobody
  /\ UNCHANGED <<tree, mode, rows, reading, acts>>

----------------------------------------------------------------------------
TreeInit ==
  /\ \E file \in [1..MaxFile -> Dir \X Kind] :
       tree = [d \in Dir |-> {k \in Kind : \E i \in 1..MaxFile : file[i] = <<d, k>>}]
  /\ mode \in Mode
  /\ rows = <<>>
  /\ reading = NotReading
  /\ edit = Nobody
  /\ acts = [act |-> 0, edit |-> 0, scan |-> 0]

TreeNext ==
  \/ \E d \in Dir, k \in Kind : Put(d, k) \/ Take(d, k)
  \/ ReadTree
  \/ \E m \in reading.pending : Upsert(m)
  \/ MarkRowsMissing
  \/ \E p \in DOMAIN rows : Look(p)
  \/ WriteSidecar \/ LeaveSidecar

TreeSpec == TreeInit /\ [][TreeNext]_treeVars

----------------------------------------------------------------------------
(* Properties. *)

\* The root, and in flat mode what lies above the depth, is no model: what a
\* common folder in it holds is not looked at.
IsBare(d) ==
  \/ d = Root
  \/ /\ mode = "flat" /\ Len(d) < Depth
     /\ ~IsPackage(tree, d)
     /\ \A e \in Dir : IsPrefix(e, d) => ~IsPinned(tree, e)

\* A folder with a name of its own inside a common one; a common one in a folder
\* that is no model; in flat mode what lies too deep below a package.
DropsOut(d) ==
  \/ \E i, j \in 1..Len(d) : i < j /\ d[i] \in Common /\ d[j] \notin Common
  \/ \E e \in Dir : IsBare(e) /\ d \in OwnDirs[e] \ {e}
  \/ /\ mode = "flat"
     /\ \E e \in Dir : /\ IsPrefix(e, d) /\ d \notin OwnDirs[e]
                     /\ IsPackage(tree, e) /\ Len(e) >= Depth

\* No mesh is in two models, and none drops out of the library but where the
\* three rules above say so (grouping.ts: the files below a sidecar "would then
\* belong to no model at all", "a worse outcome than any grouping choice").
EveryMeshHasOneModel ==
  \A d \in DOMAIN tree : "mesh" \in tree[d] =>
    LET owners == {m \in groupModels(tree, mode) : <<d, "mesh">> \in m.files}
    IN Cardinality(owners) <= 1 /\ (~DropsOut(d) => owners # {})

\* A file that is added anywhere takes no model away, and leaves each the files
\* it had or gives it more: the rows of the others, with all that is attached to them,
\* stay what they are.  In top_level mode a first mesh may make one model of a
\* folder of models, which is what the mode is for.
AddingTakesNothing ==
  [][(tree' # tree /\ mode # "top_level" /\ \E d \in Dir, k \in Indexed : Put(d, k)) =>
       \A m \in groupModels(tree, mode) :
         \E n \in groupModels(tree, mode)' :
           n.path = m.path /\ n.kind = m.kind /\ m.files \subseteq n.files]_treeVars

\* No edit merges a model that is in the library into the one edited (the
\* comment on syncSidecar: writing a sidecar above a nested model "would mean
\* that adding a tag silently merged the models underneath at the next scan").
EditsDoNotMerge ==
  [][WriteSidecar =>
       Paths(groupModels(tree, mode)) \cap LiveModels \subseteq Paths(groupModels(tree, mode)')]_treeVars
=============================================================================
