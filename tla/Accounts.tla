------------------------------ MODULE Accounts ------------------------------
(***************************************************************************)
(* People and sessions: UsersService, AuthService and JwtStrategy over the *)
(* table app_user.                                                         *)
(*                                                                         *)
(* A signed token carries the account's token version; a request is let in *)
(* while the account is active and the versions agree.  Signing in and     *)
(* changing one's password read the account, wait for bcrypt, and go on    *)
(* with what they read, so they are split at those points.  UsersService.  *)
(* update is split at its row locks: it locks the account it changes and,  *)
(* when that takes a steward away, every active steward; two such updates  *)
(* can wait for each other, and Postgres then aborts one.                  *)
(*                                                                         *)
(* Abstracted: a password is its generation (how often it was replaced);   *)
(* e-mail, names, company and branch are left out.  A request that was let *)
(* in acts on, whatever happens to its account before it reaches the       *)
(* database, so the actor of an update or a reset is not modelled.         *)
(*                                                                         *)
(* An operator whose comment begins with WRONG is a deliberately broken    *)
(* variant of the definition that follows it.                              *)
(***************************************************************************)
EXTENDS Naturals, FiniteSets

CONSTANTS
  Users,       \* account ids
  Updates,     \* updates that may be under way at once
  Logins,      \* sign-ins that may be under way at once
  Changes,     \* password changes that may be under way at once
  Idle,        \* a slot of the above that is not in use
  Same,        \* a field the request leaves out
  Requests,    \* what an update may ask for: [role, active]
  MaxVersion,  \* bound: token versions
  MaxTokens    \* bound: tokens at a time

ASSUME BoundsAssumption == MaxVersion \in Nat /\ MaxTokens \in Nat

Role == {"steward", "viewer"}   \* viewer: the roles other than steward
Versions == 0..MaxVersion

Token == [user : Users, ver : Versions, role : Role, pw : Versions,
          via : {"login", "change"}]

\* An update: the account, the request's fields, the rows it has locked, the
\* stewards it has yet to lock, and those it has found.
Update == [user : Users, role : Role \cup {Same}, active : BOOLEAN \cup {Same},
           locked : SUBSET Users, todo : SUBSET Users, found : SUBSET Users]

\* A password change: the account, the password that was proven or set, and
\* whether the new one is stored.
Change == [user : Users, pw : Versions, stored : BOOLEAN]

ASSUME RequestsAssumption ==
  Requests \subseteq [role : Role \cup {Same}, active : BOOLEAN \cup {Same}]

ASSUME SameAssumption == Same \notin Role /\ Same \notin BOOLEAN

VARIABLES
  role,     \* app_user.role, "none" before the account exists
  active,   \* is_active
  ver,      \* token_version
  pw,       \* password_hash, as a generation
  tokens,   \* tokens signed that have not run out
  update,   \* updates under way
  login,    \* sign-ins that have read the account
  change    \* password changes that have read the account

account == <<role, active, ver, pw>>
vars == <<role, active, ver, pw, tokens, update, login, change>>

\* A row is locked by one update at a time; an update has locked its account.
LocksExclude ==
  /\ \A t \in Updates : update[t] # Idle => update[t].user \in update[t].locked
  /\ \A s, t \in Updates :
       s # t /\ update[s] # Idle /\ update[t] # Idle =>
         update[s].locked \cap update[t].locked = {}

TypeOK ==
  /\ role \in [Users -> Role \cup {"none"}]
  /\ active \in [Users -> BOOLEAN]
  /\ ver \in [Users -> Versions]
  /\ pw \in [Users -> Versions]
  /\ tokens \subseteq Token
  /\ update \in [Updates -> Update \cup {Idle}]
  /\ login \in [Logins -> Token \cup {Idle}]
  /\ change \in [Changes -> Change \cup {Idle}]
  /\ LocksExclude

Stewards == {u \in Users : role[u] = "steward" /\ active[u]}

Init ==
  /\ role \in [Users -> Role \cup {"none"}]
  /\ active \in [Users -> BOOLEAN]
  /\ \A u \in Users : role[u] = "none" => ~active[u]
  /\ Stewards # {}
  /\ ver = [u \in Users |-> 0]
  /\ pw = [u \in Users |-> 0]
  /\ tokens = {}
  /\ update = [t \in Updates |-> Idle]
  /\ login = [q \in Logins |-> Idle]
  /\ change = [q \in Changes |-> Idle]

-----------------------------------------------------------------------------
\* An update other than t holds the row lock of u.
LockedByOther(t, u) == \E s \in Updates \ {t} : update[s] # Idle /\ u \in update[s].locked

\* WRONG (breaks TypeOK): the account is read without locking its row
NeverLocked(u) == FALSE

\* Who wants to write u has to wait.
Locked(u) == \E s \in Updates : update[s] # Idle /\ u \in update[s].locked

\* JwtStrategy.validate
Accepted(t) == role[t.user] # "none" /\ active[t.user] /\ t.ver = ver[t.user]

-----------------------------------------------------------------------------
(* UsersService.create and update.                                           *)

Create(u, r) ==
  /\ role[u] = "none"
  /\ role' = [role EXCEPT ![u] = r]
  /\ active' = [active EXCEPT ![u] = TRUE]
  /\ UNCHANGED <<ver, pw, tokens, update, login, change>>

NextRole(p) == IF p.role = Same THEN role[p.user] ELSE p.role
NextActive(p) == IF p.active = Same THEN active[p.user] ELSE p.active

\* WRONG (breaks AlwaysASteward): a change of role is not looked at
DropsStewardByDeactivation(p) == p.user \in Stewards /\ ~NextActive(p)

DropsSteward(p) ==
  p.user \in Stewards /\ (NextRole(p) # "steward" \/ ~NextActive(p))

\* WRONG (breaks LoginTokensAreCurrent): only a deactivation ends the sessions
EndsSessionsOnDeactivation(p) == p.active = FALSE

\* A deactivation, or a change of role, ends the sessions of the account.
EndsSessions(p) == p.active = FALSE \/ (p.role # Same /\ p.role # role[p.user])

\* The transaction locks and reads the account; when the change drops a
\* steward it goes on to lock all of them, as they are when that query starts.
BeginUpdate(t, u, r) ==
  LET p == [user |-> u, role |-> r.role, active |-> r.active,
            locked |-> {u}, todo |-> {}, found |-> {}]
  IN  /\ update[t] = Idle
      /\ role[u] # "none"
      /\ ~Locked(u)
      /\ EndsSessions(p) => ver[u] < MaxVersion
      /\ update' = [update EXCEPT ![t] =
                      IF DropsSteward(p) THEN [p EXCEPT !.todo = Stewards] ELSE p]
      /\ UNCHANGED <<role, active, ver, pw, tokens, login, change>>

\* WRONG (breaks AlwaysASteward): the stewards are counted without locking them
CountSteward(t, u) ==
  /\ update[t] # Idle
  /\ u \in update[t].todo
  /\ update' = [update EXCEPT ![t].todo = @ \ {u}, ![t].found = @ \cup {u}]
  /\ UNCHANGED <<role, active, ver, pw, tokens, login, change>>

\* One row of that query: once the lock is granted the row is looked at again,
\* and left out when it is no longer an active steward.
LockSteward(t, u) ==
  /\ update[t] # Idle
  /\ u \in update[t].todo
  /\ ~LockedByOther(t, u)
  /\ update' = [update EXCEPT ![t].todo = @ \ {u},
                              ![t].locked = @ \cup {u},
                              ![t].found = IF u \in Stewards THEN @ \cup {u} ELSE @]
  /\ UNCHANGED <<role, active, ver, pw, tokens, login, change>>

\* Updates that wait for each other: each has a row to lock, and somebody else
\* among them has locked it.
Deadlocked(ts) ==
  /\ \A t \in ts : update[t] # Idle
  /\ \A t \in ts :
       /\ update[t].todo # {}
       /\ \A u \in update[t].todo : \E s \in ts \ {t} : u \in update[s].locked

\* WRONG (breaks NoUpdateHangs): an update may only wait, never be aborted
KeepWaiting(t) == FALSE /\ UNCHANGED vars

\* Postgres notices, and aborts one of them.
AbortDeadlocked(t) ==
  /\ \E ts \in SUBSET Updates : t \in ts /\ Deadlocked(ts)
  /\ update' = [update EXCEPT ![t] = Idle]
  /\ UNCHANGED <<role, active, ver, pw, tokens, login, change>>

ReadyToSave(t) == update[t] # Idle /\ update[t].todo = {}

\* The last steward stays: the transaction is rolled back.
RefuseUpdate(t) ==
  /\ ReadyToSave(t)
  /\ DropsSteward(update[t])
  /\ update[t].found \ {update[t].user} = {}
  /\ update' = [update EXCEPT ![t] = Idle]
  /\ UNCHANGED <<role, active, ver, pw, tokens, login, change>>

SaveUpdate(t) ==
  LET p == update[t] IN
  /\ ReadyToSave(t)
  /\ DropsSteward(p) => p.found \ {p.user} # {}
  /\ role' = [role EXCEPT ![p.user] = NextRole(p)]
  /\ active' = [active EXCEPT ![p.user] = NextActive(p)]
  /\ ver' = [ver EXCEPT ![p.user] = IF EndsSessions(p) THEN @ + 1 ELSE @]
  /\ update' = [update EXCEPT ![t] = Idle]
  /\ UNCHANGED <<pw, tokens, login, change>>

-----------------------------------------------------------------------------
(* Passwords and sessions.                                                   *)

\* WRONG (breaks ImplementsRules): a new password leaves sessions alive
StorePasswordOnly(u) ==
  /\ role[u] # "none"
  /\ ~Locked(u)
  /\ pw[u] < MaxVersion
  /\ pw' = [pw EXCEPT ![u] = @ + 1]
  /\ UNCHANGED ver

\* The transaction of UsersService.resetPassword: it waits for the row lock.
StorePassword(u) ==
  /\ role[u] # "none"
  /\ ~Locked(u)
  /\ ver[u] < MaxVersion
  /\ pw' = [pw EXCEPT ![u] = @ + 1]
  /\ ver' = [ver EXCEPT ![u] = @ + 1]

ResetPassword(u) ==
  /\ StorePassword(u)
  /\ UNCHANGED <<role, active, tokens, update, login, change>>

\* login reads the account, and waits for bcrypt ...
BeginLogin(q, u) ==
  /\ login[q] = Idle
  /\ role[u] # "none"
  /\ active[u]
  /\ login' = [login EXCEPT ![q] = [user |-> u, ver |-> ver[u], role |-> role[u],
                                    pw |-> pw[u], via |-> "login"]]
  /\ UNCHANGED <<account, tokens, update, change>>

\* WRONG (breaks NoRevival): signs with the version the account has by now
SignFresh(q) ==
  /\ login[q] # Idle
  /\ Cardinality(tokens) < MaxTokens
  /\ tokens' = tokens \cup {[login[q] EXCEPT !.ver = ver[login[q].user]]}
  /\ login' = [login EXCEPT ![q] = Idle]
  /\ UNCHANGED <<account, update, change>>

\* ... and signs what it read (the password was right), or refuses.
SignLogin(q) ==
  /\ login[q] # Idle
  /\ Cardinality(tokens) < MaxTokens
  /\ tokens' = tokens \cup {login[q]}
  /\ login' = [login EXCEPT ![q] = Idle]
  /\ UNCHANGED <<account, update, change>>

RefuseLogin(q) ==
  /\ login[q] # Idle
  /\ login' = [login EXCEPT ![q] = Idle]
  /\ UNCHANGED <<account, tokens, update, change>>

\* changePassword reads the account and checks the current password ...
BeginChange(q, u) ==
  /\ change[q] = Idle
  /\ \E t \in tokens : t.user = u /\ Accepted(t)
  /\ change' = [change EXCEPT ![q] = [user |-> u, pw |-> pw[u], stored |-> FALSE]]
  /\ UNCHANGED <<account, tokens, update, login>>

\* ... stores the new one, whatever has happened to the account since ...
StoreChange(q) ==
  /\ change[q] # Idle
  /\ ~change[q].stored
  /\ StorePassword(change[q].user)
  /\ change' = [change EXCEPT ![q].stored = TRUE,
                              ![q].pw = pw[change[q].user] + 1]
  /\ UNCHANGED <<role, active, tokens, update, login>>

\* ... and reads the account again to sign a token for this session.
SignChange(q) ==
  /\ change[q] # Idle
  /\ change[q].stored
  /\ Cardinality(tokens) < MaxTokens
  /\ LET u == change[q].user IN
     tokens' = tokens \cup {[user |-> u, ver |-> ver[u], role |-> role[u],
                             pw |-> change[q].pw, via |-> "change"]}
  /\ change' = [change EXCEPT ![q] = Idle]
  /\ UNCHANGED <<account, update, login>>

RefuseChange(q) ==
  /\ change[q] # Idle
  /\ ~change[q].stored
  /\ change' = [change EXCEPT ![q] = Idle]
  /\ UNCHANGED <<account, tokens, update, login>>

\* logout increments the version in one statement, which waits for the row lock.
Logout(u) ==
  /\ \E t \in tokens : t.user = u /\ Accepted(t)
  /\ ~Locked(u)
  /\ ver[u] < MaxVersion
  /\ ver' = [ver EXCEPT ![u] = @ + 1]
  /\ UNCHANGED <<role, active, pw, tokens, update, login, change>>

\* A token runs out (JWT_EXPIRES_IN).
ExpireToken(t) ==
  /\ t \in tokens
  /\ tokens' = tokens \ {t}
  /\ UNCHANGED <<account, update, login, change>>

-----------------------------------------------------------------------------
UpdateStep(t) ==
  \/ \E u \in Users : LockSteward(t, u)
  \/ AbortDeadlocked(t) \/ RefuseUpdate(t) \/ SaveUpdate(t)

Next ==
  \/ \E u \in Users, r \in Role : Create(u, r)
  \/ \E t \in Updates, u \in Users, r \in Requests : BeginUpdate(t, u, r)
  \/ \E t \in Updates : UpdateStep(t)
  \/ \E u \in Users : ResetPassword(u) \/ Logout(u)
  \/ \E q \in Logins : SignLogin(q) \/ RefuseLogin(q) \/ \E u \in Users : BeginLogin(q, u)
  \/ \E q \in Changes : \/ StoreChange(q) \/ SignChange(q) \/ RefuseChange(q)
                        \/ \E u \in Users : BeginChange(q, u)
  \/ \E t \in tokens : ExpireToken(t)

Spec == Init /\ [][Next]_vars

\* A transaction that can go on does: SF on a lock, because Postgres queues
\* those who wait for a row.
FairSpec ==
  /\ Spec
  /\ \A t \in Updates : /\ \A u \in Users : SF_vars(LockSteward(t, u))
                        /\ WF_vars(AbortDeadlocked(t))
                        /\ WF_vars(RefuseUpdate(t) \/ SaveUpdate(t))

-----------------------------------------------------------------------------
(* Properties.                                                               *)

(***************************************************************************)
(* Somebody can always administer the system: whatever updates run at the  *)
(* same time, an active steward is left (UsersService.update).             *)
(***************************************************************************)
AlwaysASteward == Stewards # {}

(***************************************************************************)
(* A session that began with a sign-in is alive only under the password it *)
(* was given with and the role it names, even when the account changed     *)
(* while the sign-in was waiting for bcrypt (login, validate).             *)
(***************************************************************************)
LoginTokensAreCurrent ==
  \A t \in tokens : t.via = "login" /\ Accepted(t) =>
    t.pw = pw[t.user] /\ t.role = role[t.user]

(***************************************************************************)
(* A session that began with a sign-in and has ended stays ended: giving   *)
(* the account its access back does not bring it to life again, although   *)
(* only deactivation, not reactivation, raises the token version.          *)
(***************************************************************************)
NoRevival ==
  [][\A t \in tokens : t.via = "login" /\ ~Accepted(t) => ~Accepted(t)']_vars

(***************************************************************************)
(* Every update of an account is saved, refused or aborted: no two stewards*)
(* who demote each other at the same moment leave their requests hanging.  *)
(***************************************************************************)
NoUpdateHangs == \A t \in Updates : update[t] # Idle ~> update[t] = Idle

\* The sessions that began with a sign-in and are still let in.
LiveSessions ==
  {[user |-> t.user, role |-> t.role, pw |-> t.pw] :
     t \in {s \in tokens : s.via = "login" /\ Accepted(s)}}

Rules == INSTANCE AccountRules WITH sessions <- LiveSessions

(***************************************************************************)
(* Row locks, token versions and the waits for bcrypt do not show: people  *)
(* are changed as if each request was served at one instant, the last      *)
(* steward stays, and a sign-in gives a session for what the account is at *)
(* that instant, or a token that is refused from the start (AccountRules). *)
(***************************************************************************)
ImplementsRules == Rules!Spec

(***************************************************************************)
(* The claim that changing the password "bumps tokenVersion (so other      *)
(* sessions die)" (docs/ARCHITECTURE.md:311-312): no session lives on      *)
(* under a password that has been replaced since.  The code breaks it: the *)
(* token of a password change is signed with a version read afterwards,    *)
(* which may already be that of a later change or reset.                   *)
(***************************************************************************)
SessionsMatchPassword ==
  \A t \in tokens : Accepted(t) => t.pw = pw[t.user]
=============================================================================
