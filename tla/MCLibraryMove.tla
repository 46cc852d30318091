---------------------------- MODULE MCLibraryMove ----------------------------
(* A model of two files, moved while scans, faults and crashes happen. *)
EXTENDS LibraryMove

CONSTANTS f1, f2
=============================================================================
