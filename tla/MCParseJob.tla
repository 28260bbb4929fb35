----------------------------- MODULE MCParseJob -----------------------------
(* Small instances of ParseJob for TLC. *)
EXTENDS ParseJob, TLC

CONSTANTS w1, w2, q1

MCRuns == {w1, w2}
MCRetries == {q1}
=============================================================================
