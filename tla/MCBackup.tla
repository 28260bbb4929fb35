------------------------------ MODULE MCBackup ------------------------------
(* A small instance of Backup, with the object store in it, for TLC. *)
EXTENDS Backup, TLC

CONSTANTS f1, u1, u2

MCFiles == {f1}
MCUploads == {u1, u2}

MCSymmetry == Permutations(MCUploads)
=============================================================================
