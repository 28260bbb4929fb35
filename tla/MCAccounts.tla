----------------------------- MODULE MCAccounts -----------------------------
(* Small instances of Accounts for TLC. *)
EXTENDS Accounts

CONSTANTS u1, u2, t1, t2, q1

MCUsers == {u1, u2}
MCUpdates == {t1, t2}
\* One field at a time, to each of its values.
MCRequests == {[role |-> r, active |-> Same] : r \in Role} \cup
              {[role |-> Same, active |-> a] : a \in BOOLEAN}
=============================================================================
