-------------------------- MODULE MCCatalogHistory --------------------------
(* A small instance of CatalogHistory: manual adds and deletes suffice. *)
EXTENDS CatalogHistory, TLC

CONSTANTS b1, b2, b3, c1

MCBatches == {b1, b2, b3}
MCCodes == {c1}
MCFiles == {[codes |-> <<c1>>, headers |-> {}]}
MCSymmetry == Permutations(MCBatches)
=============================================================================
