--------------------------- MODULE MCLibraryScan ---------------------------
(***************************************************************************)
(* Two small libraries in one run: one that is scanned while it changes    *)
(* (LibraryScan), one whose folders lie in each other (ModelTree).  Each   *)
(* behaviour is one of one of them, picked in its first state; the         *)
(* fairness is that of the first.                                          *)
(***************************************************************************)
EXTENDS LibraryScan, ModelTree

CONSTANTS p1, p2, m1, m2, MaxMishap

VARIABLE scene   \* which of the two

OneSize == {1}
TwoFiles == {{<<"a.stl", 1>>, <<"b.stl", 1>>}}
WholeVolume == {Path}

SmallTree == {<<>>, <<"stl">>, <<"A">>, <<"A", "stl">>, <<"A", "B">>,
              <<"A", "stl", "B">>, <<"A", "B", "C">>}

NoFolders ==
  /\ tree = <<>> /\ mode = "deepest" /\ rows = <<>>
  /\ reading = NotReading /\ edit = Nobody
  /\ acts = [act |-> 0, edit |-> 0, scan |-> 0]

ScenesInit ==
  \/ scene = "scanned" /\ Init /\ NoFolders
  \/ scene = "nested" /\ TreeInit /\ Init /\ disk = [p \in Path |-> NoFolder]

\* Besides what the owner does to the folders, at most MaxMishap removals,
\* outages and crashes in all.
Scanned ==
  /\ scene = "scanned" /\ Next /\ UNCHANGED <<scene, treeVars>>
  /\ count'.remove + count'.outage + count'.crash <= MaxMishap
Nested == scene = "nested" /\ TreeNext /\ UNCHANGED <<scene, vars>>

ScenesNext == Scanned \/ Nested

ScenesSpec == ScenesInit /\ [][ScenesNext]_<<scene, vars, treeVars>> /\ Fairness
=============================================================================
