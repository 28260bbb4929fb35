---------------------------- MODULE MCUploadFlow ----------------------------
(* A small instance of UploadFlow for TLC. *)
EXTENDS UploadFlow

CONSTANTS b1, b2

MCBatches == {b1, b2}
=============================================================================
