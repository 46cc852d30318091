-------------------------- MODULE MCFilamentLedger --------------------------
(* Two spools of one filament for FilamentLedger. *)
EXTENDS FilamentLedger
CONSTANTS pla, p1, p2, k1, t1, t2

OneFilament == [s \in Spool |-> pla]
=============================================================================
