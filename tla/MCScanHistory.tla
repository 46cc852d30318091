--------------------------- MODULE MCScanHistory ---------------------------
(***************************************************************************)
(* Two small libraries in one run: one whose volume drops off              *)
(* (LibraryScan) and one whose folders are renamed (ScanHistory).  Each    *)
(* behaviour is one of one of them, picked in its first state.             *)
(***************************************************************************)
EXTENDS ScanHistory, TLC

CONSTANTS p1, p2, p3, m1, m2, m3

VARIABLE scene   \* which of the two

OneSize == {1}
TwoFiles == {{<<"a.stl", 1>>, <<"b.stl", 1>>}}
AnyPart == SUBSET {p1, p2} \ {{}}

ScenesInit ==
  /\ Init_H
  /\ scene \in {"outages", "renames"}
  /\ scene = "outages" => disk[p3] = NoFolder

\* The third folder is there in one of the two only, ...
Outages ==
  /\ scene = "outages" /\ UNCHANGED scene
  /\ Next /\ UNCHANGED <<since, rename, disturbed>>
  /\ disk'[p3] = NoFolder

\* ... where nothing drops off and nobody dies.
Renames ==
  /\ scene = "renames" /\ UNCHANGED scene
  /\ Next_H
  /\ count'.outage = 0 /\ count'.crash = 0

ScenesNext == Outages \/ Renames

ScenesSpec == ScenesInit /\ [][ScenesNext]_<<scene, historyVars>>

Symmetry == Permutations(Id) \cup Permutations({p1, p2})
=============================================================================
