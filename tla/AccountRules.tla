---------------------------- MODULE AccountRules ----------------------------
(***************************************************************************)
(* What the service for people and sessions promises, with every request   *)
(* served at one instant: no locks, no token versions, no waiting for      *)
(* bcrypt.  Accounts is shown to implement it.                             *)
(*                                                                         *)
(* A session is one that began with a sign-in and is still let in; it      *)
(* names the role and the password it was given for.                       *)
(***************************************************************************)
EXTENDS Naturals

CONSTANTS Users, Role

VARIABLES
  role,     \* of each account, "none" before it exists
  active,
  pw,       \* a password is how often it was replaced
  sessions  \* [user, role, pw]

vars == <<role, active, pw, sessions>>

Stewards == {u \in Users : role[u] = "steward" /\ active[u]}

Of(u) == {s \in sessions : s.user = u}

Init ==
  /\ role \in [Users -> Role \cup {"none"}]
  /\ active \in [Users -> BOOLEAN]
  /\ pw = [u \in Users |-> 0]
  /\ Stewards # {}
  /\ sessions = {}

Create(u, r) ==
  /\ role[u] = "none"
  /\ role' = [role EXCEPT ![u] = r]
  /\ active' = [active EXCEPT ![u] = TRUE]
  /\ UNCHANGED <<pw, sessions>>

\* A change of role or a deactivation ends the sessions of the account, and is
\* refused when it would take the last active steward away.
Update(u, r, a) ==
  /\ role[u] # "none"
  /\ u \in Stewards /\ (r # "steward" \/ ~a) => Stewards \ {u} # {}
  /\ role' = [role EXCEPT ![u] = r]
  /\ active' = [active EXCEPT ![u] = a]
  /\ sessions' = IF r # role[u] \/ ~a THEN sessions \ Of(u) ELSE sessions
  /\ UNCHANGED pw

\* A new password ends the sessions of the account.
SetPassword(u) ==
  /\ role[u] # "none"
  /\ pw' = [pw EXCEPT ![u] = @ + 1]
  /\ sessions' = sessions \ Of(u)
  /\ UNCHANGED <<role, active>>

\* A session is for what the account is at that instant.
SignIn(u) ==
  /\ role[u] # "none" /\ active[u]
  /\ sessions' = sessions \cup {[user |-> u, role |-> role[u], pw |-> pw[u]]}
  /\ UNCHANGED <<role, active, pw>>

SignOut(u) ==
  /\ sessions' = sessions \ Of(u)
  /\ UNCHANGED <<role, active, pw>>

Next ==
  \E u \in Users :
    \/ \E r \in Role : Create(u, r) \/ \E a \in BOOLEAN : Update(u, r, a)
    \/ SetPassword(u) \/ SignIn(u) \/ SignOut(u)

Spec == Init /\ [][Next]_vars
=============================================================================
