--------------------------- MODULE MCSearchCache ---------------------------
(* A small instance of SearchCache for TLC. *)
EXTENDS SearchCache

CONSTANTS f1, f2, k1, k2

MCFields == {f1, f2}
MCCalls == {k1, k2}
=============================================================================
