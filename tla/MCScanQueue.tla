----------------------------- MODULE MCScanQueue -----------------------------
(* Two libraries, listed in the order of their letters. *)
EXTENDS ScanQueue

CONSTANTS la, lb

ByLetter == [lib \in Library |-> IF lib = la THEN 1 ELSE 2]
=============================================================================
