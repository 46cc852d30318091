--------------------------- MODULE DerivedHistory ---------------------------
(***************************************************************************)
(* DerivedWork with a history variable: the digest each row had last.      *)
(***************************************************************************)
EXTENDS DerivedWork

VARIABLE was    \* [Row -> the last digest of the row, or None]

Init_H == Init /\ was = [r \in Row |-> None]

Next_H ==
  /\ Next
  /\ was' = [r \in Row |-> IF rows[r].digest # None THEN rows[r].digest ELSE was[r]]

Spec_H == Init_H /\ [][Next_H]_<<vars, was>>

----------------------------------------------------------------------------

\* analyze.ts: "Only a file that had no digest before is a candidate: one whose
\* content changed already had a digest, and re-matching it against something
\* 'missing' would misfile an edit as a rename."  The scan clears the digest of
\* a file that changed, so it comes to the handler with none.
EditIsNotARename ==
  [][\A old, new \in Row :
       rows[new].path # None /\ rows[old].path # rows[old].path' /\ rows[old].path' = rows[new].path
         => was[new] \in {None, rows[old].digest}]_<<vars, was>>

=============================================================================
