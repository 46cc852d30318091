------------------------------ MODULE Grouping ------------------------------
(***************************************************************************)
(* Which directories of a walked tree are models (library/grouping.ts).    *)
(*                                                                         *)
(* A directory is the sequence of the names that lead to it, the root of   *)
(* the library the empty one.  A tree gives each directory the kinds of    *)
(* file that lie in it; a directory without any is as good as absent.      *)
(* What the walker skips (library/walker.ts) is in no tree.                *)
(*                                                                         *)
(* The code walks down and emits; here each directory says what becomes of *)
(* it, and a model is one that the walk gets to.                           *)
(***************************************************************************)
EXTENDS Naturals, FiniteSets, SequencesExt

CONSTANTS
  Dir,      \* the directories there can be, with every directory above each
  Common,   \* COMMON_SUBFOLDERS: names of folders that are part of a model
  Depth     \* of the models in flat mode

ASSUME GroupingAssumption ==
  /\ Dir \subseteq Seq(STRING) /\ Common \subseteq STRING
  /\ \A d \in Dir : \A n \in 0..Len(d) : SubSeq(d, 1, n) \in Dir
  /\ Depth \in Nat \ {0}

Kind == {"mesh", "image", "sidecar", "package"}
Indexed == {"mesh", "image"}
Mode == {"deepest", "top_level", "flat"}
Root == <<>>

\* The names below d on the way to e.
NamesBelow(d, e) == {e[i] : i \in (Len(d) + 1)..Len(e)}

\* d and the common subfolders beneath it, as far down as all of them are.
OwnDirs == [d \in Dir |->
  {e \in Dir : IsPrefix(d, e) /\ NamesBelow(d, e) \subseteq Common}]

\* d and the other folders beneath it, as far down as none is common.
RealDirs == [d \in Dir |->
  {e \in Dir : IsPrefix(d, e) /\ NamesBelow(d, e) \cap Common = {}}]

FilesIn(tree, dirs) == UNION {{d} \X (tree[d] \cap Indexed) : d \in dirs}

OwnFiles(tree, d) == FilesIn(tree, OwnDirs[d])
WholeFiles(tree, d) == FilesIn(tree, UNION {OwnDirs[e] : e \in RealDirs[d]})

HasMeshes(tree, d) == \E e \in OwnDirs[d] : "mesh" \in tree[e]
SubtreeHasMeshes(tree, d) == \E e \in RealDirs[d] : HasMeshes(tree, e)

\* Candidate models one level down.
Children(tree, d) ==
  {e \in RealDirs[d] : Len(e) = Len(d) + 1 /\ SubtreeHasMeshes(tree, e)}

----------------------------------------------------------------------------
(* What becomes of a directory. *)

IsPackage(tree, d) == d # Root /\ "package" \in tree[d]
IsPinned(tree, d) == d # Root /\ "sidecar" \in tree[d] /\ ~IsPackage(tree, d)

\* Mutant: deepest collapses an ambiguous folder like top_level.
CollapsesWhenDeepest(tree, mode, d) ==
  \/ IsPinned(tree, d)
  \/ /\ d # Root /\ ~IsPackage(tree, d)
     /\ \/ mode = "flat" /\ Len(d) = Depth
        \/ mode # "flat" /\ HasMeshes(tree, d) /\ Children(tree, d) # {}

\* Everything beneath d is one model.
Collapses(tree, mode, d) ==
  \/ IsPinned(tree, d)
  \/ /\ d # Root /\ ~IsPackage(tree, d)
     /\ \/ mode = "flat" /\ Len(d) = Depth
        \/ mode = "top_level" /\ HasMeshes(tree, d) /\ Children(tree, d) # {}

Descends(tree, mode, d) ==
  \/ IsPackage(tree, d)
  \/ ~Collapses(tree, mode, d) /\ (mode = "flat" => Len(d) < Depth)

\* The walk gets to d from each directory above it.
Visited(tree, mode) ==
  {d \in Dir : \A i \in 1..Len(d) :
     LET above == SubSeq(d, 1, i - 1)
     IN Descends(tree, mode, above) /\ SubSeq(d, 1, i) \in Children(tree, above)}

IsModel(tree, mode, d) ==
  \/ IsPackage(tree, d)
  \/ Collapses(tree, mode, d) /\ WholeFiles(tree, d) # {}
  \/ /\ d # Root /\ mode # "flat"
     /\ ~Collapses(tree, mode, d) /\ HasMeshes(tree, d)

\* Mutant: a sidecar ends the descent and takes only the folder's own files.
FilesOfStopping(tree, mode, d) ==
  IF Collapses(tree, mode, d) /\ ~IsPinned(tree, d)
  THEN WholeFiles(tree, d)
  ELSE OwnFiles(tree, d)

FilesOf(tree, mode, d) ==
  IF Collapses(tree, mode, d) THEN WholeFiles(tree, d) ELSE OwnFiles(tree, d)

\* Meshes of their own, in a directory that is no model.
HasLooseFiles(tree, mode, d) ==
  /\ "mesh" \in tree[d]
  /\ \/ d = Root
     \/ /\ mode = "flat" /\ Len(d) < Depth
        /\ ~IsPackage(tree, d) /\ ~IsPinned(tree, d)

FolderModels(tree, mode) ==
  {[path |-> d,
    kind |-> IF IsPackage(tree, d) THEN "package" ELSE "folder",
    files |-> FilesOf(tree, mode, d)] :
     d \in {e \in Visited(tree, mode) : IsModel(tree, mode, e)}}

LooseModels(tree, mode) ==
  {[path |-> Append(d, "mesh"), kind |-> "file", files |-> {<<d, "mesh">>}] :
     d \in {e \in Visited(tree, mode) : HasLooseFiles(tree, mode, e)}}

groupModels(tree, mode) == FolderModels(tree, mode) \cup LooseModels(tree, mode)

Paths(found) == {m.path : m \in found}
=============================================================================
