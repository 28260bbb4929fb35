----------------------------- MODULE MCCatalog -----------------------------
(* Small instances of Catalog for TLC. *)
EXTENDS Catalog, TLC

CONSTANTS b1, b2, b3, c1, c2, x

MCBatches == {b1, b2, b3}
MCUploads == {b1, b2}
MCCodes == {c1, c2}
MCColumns == {x}

\* A file with an extra column for one item, one with both items, and one that
\* names an item twice.
MCFiles == { [codes |-> <<c1>>, headers |-> {x}],
             [codes |-> <<c1, c2>>, headers |-> {}],
             [codes |-> <<c1, c1>>, headers |-> {}] }

MCSymmetry == Permutations(MCUploads)
=============================================================================
