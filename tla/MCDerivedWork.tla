---------------------------- MODULE MCDerivedWork ----------------------------
(* DerivedWork on two names and two contents, started by the first scan. *)
EXTENDS DerivedWork
=============================================================================
