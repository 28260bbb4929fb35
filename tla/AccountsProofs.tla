--------------------------- MODULE AccountsProofs ---------------------------
(***************************************************************************)
(* What holds of Accounts for every set of people, updates, sign-ins and   *)
(* password changes: an active steward is always left, and the sessions    *)
(* that began with a sign-in follow the account.                           *)
(*                                                                         *)
(* The invariant says why.  What an update has counted stays counted: it   *)
(* has locked those rows, and locks exclude each other.  And a token whose *)
(* version is still the account's was signed for what the account is now,  *)
(* because whatever changes that raises the version too.  The same         *)
(* invariant makes every step a step of AccountRules or a stutter.         *)
(***************************************************************************)
EXTENDS Accounts, TLAPS

Busy(t) == update[t] # Idle

\* An account is not active before it exists, and passwords change no more
\* often than versions do.
AccountsInv == \A u \in Users :
  /\ role[u] = "none" => ~active[u]
  /\ pw[u] <= ver[u]

\* What an update relies on while it holds its locks.
UpdatesInv == \A t \in Updates : Busy(t) =>
  /\ role[update[t].user] # "none"
  /\ update[t].found \subseteq update[t].locked
  /\ update[t].found \subseteq Stewards
  /\ EndsSessions(update[t]) => ver[update[t].user] < MaxVersion

\* What a token that began with a sign-in says of its account.
Current(t) ==
  /\ role[t.user] # "none"
  /\ t.ver <= ver[t.user]
  /\ t.ver = ver[t.user] =>
       active[t.user] /\ pw[t.user] = t.pw /\ role[t.user] = t.role

SessionsInv ==
  /\ \A t \in tokens : t.via = "login" => Current(t)
  /\ \A q \in Logins : login[q] # Idle => login[q].via = "login" /\ Current(login[q])
  /\ \A q \in Changes : change[q] # Idle => role[change[q].user] # "none"

IInv == TypeOK /\ AccountsInv /\ UpdatesInv /\ SessionsInv /\ AlwaysASteward

LEMMA InitIInv == Init => IInv
  BY BoundsAssumption DEF Init, IInv, TypeOK, LocksExclude, Versions, AccountsInv,
     UpdatesInv, SessionsInv, AlwaysASteward, Busy

\* A step that leaves people and updates alone leaves what they say alone.
LEMMA OnlySessions ==
  ASSUME IInv, UNCHANGED <<role, active, ver, pw, update>>
  PROVE  AccountsInv' /\ UpdatesInv' /\ AlwaysASteward' /\ LocksExclude'
  BY DEF IInv, TypeOK, LocksExclude, AccountsInv, UpdatesInv, AlwaysASteward, Busy,
     Stewards, EndsSessions

\* The same for a step of an update that writes nothing yet.
LEMMA OnlyUpdates ==
  ASSUME IInv, UNCHANGED <<role, active, ver, pw, tokens, login, change>>
  PROVE  AccountsInv' /\ SessionsInv' /\ AlwaysASteward'
  BY DEF IInv, AccountsInv, SessionsInv, AlwaysASteward, Stewards, Current

\* An account that is there keeps its role unless somebody writes its row.
LEMMA CreateStep ==
  ASSUME IInv, NEW u \in Users, NEW r \in Role, Create(u, r)
  PROVE  IInv'
<1>1. TypeOK'
  BY DEF IInv, TypeOK, LocksExclude, Create, Role
<1>2. AccountsInv'
  BY DEF IInv, TypeOK, AccountsInv, Create, Role
<1>3. Stewards \subseteq Stewards'
  BY DEF IInv, TypeOK, Stewards, Create
<1>4. UpdatesInv'
  <2> SUFFICES ASSUME NEW t \in Updates, Busy(t)
      PROVE  /\ role'[update[t].user] # "none"
             /\ update[t].found \subseteq update[t].locked
             /\ update[t].found \subseteq Stewards'
             /\ EndsSessions(update[t])' => ver[update[t].user] < MaxVersion
    BY DEF UpdatesInv, Create, Busy, EndsSessions
  <2>1. update[t].user \in Users /\ update[t].user # u
    BY DEF IInv, TypeOK, Update, UpdatesInv, Busy, Create
  <2> QED
    BY <1>3, <2>1 DEF IInv, UpdatesInv, Create, EndsSessions, TypeOK
<1>5. SessionsInv'
  BY DEF IInv, TypeOK, SessionsInv, Current, Create, Token, Change
<1>6. AlwaysASteward'
  BY <1>3 DEF IInv, AlwaysASteward
<1> QED
  BY <1>1, <1>2, <1>4, <1>5, <1>6 DEF IInv

LEMMA BeginUpdateStep ==
  ASSUME IInv, NEW t \in Updates, NEW u \in Users, NEW r \in Requests, BeginUpdate(t, u, r)
  PROVE  IInv'
<1> DEFINE p == [user |-> u, role |-> r.role, active |-> r.active,
                 locked |-> {u}, todo |-> {}, found |-> {}]
           q == IF DropsSteward(p) THEN [p EXCEPT !.todo = Stewards] ELSE p
<1>1. /\ update' = [update EXCEPT ![t] = q]
      /\ UNCHANGED <<role, active, ver, pw, tokens, login, change>>
      /\ ~Locked(u) /\ role[u] # "none" /\ update[t] = Idle
      /\ EndsSessions(p) => ver[u] < MaxVersion
  BY DEF BeginUpdate
<1>2. /\ q \in Update
      /\ q.user = u /\ q.locked = {u} /\ q.found = {}
      /\ EndsSessions(q) = EndsSessions(p)
  BY RequestsAssumption DEF Update, Stewards, EndsSessions
<1> HIDE DEF p, q
<1>3. LocksExclude'
  BY <1>1, <1>2 DEF IInv, TypeOK, LocksExclude, Locked
<1>4. TypeOK'
  BY <1>1, <1>2, <1>3 DEF IInv, TypeOK
<1>5. UpdatesInv'
  BY <1>1, <1>2 DEF IInv, TypeOK, UpdatesInv, Busy, Stewards, EndsSessions
<1> QED
  BY <1>1, <1>4, <1>5, OnlyUpdates DEF IInv

LEMMA LockStewardStep ==
  ASSUME IInv, NEW t \in Updates, NEW u \in Users, LockSteward(t, u)
  PROVE  IInv'
<1> DEFINE q == [update[t] EXCEPT !.todo = @ \ {u}, !.locked = @ \cup {u},
                   !.found = IF u \in Stewards THEN @ \cup {u} ELSE @]
<1>1. update[t] \in Update /\ Busy(t)
  BY DEF IInv, TypeOK, LockSteward, Busy
<1>2. /\ update' = [update EXCEPT ![t] = q]
      /\ UNCHANGED <<role, active, ver, pw, tokens, login, change>>
      /\ ~LockedByOther(t, u)
  BY <1>1 DEF LockSteward, IInv, TypeOK, Update
<1>3. /\ q \in Update
      /\ q.user = update[t].user /\ q.locked = update[t].locked \cup {u}
      /\ q.found \subseteq update[t].found \cup (Stewards \cap {u})
      /\ EndsSessions(q) = EndsSessions(update[t])
  BY <1>1 DEF Update, EndsSessions
<1> HIDE DEF q
<1>4. LocksExclude'
  BY <1>1, <1>2, <1>3 DEF IInv, TypeOK, LocksExclude, LockedByOther, Busy
<1>5. TypeOK'
  BY <1>2, <1>3, <1>4 DEF IInv, TypeOK
<1>6. UpdatesInv'
  BY <1>1, <1>2, <1>3 DEF IInv, TypeOK, UpdatesInv, Busy, Stewards, EndsSessions
<1> QED
  BY <1>2, <1>5, <1>6, OnlyUpdates DEF IInv

\* An update that ends without a change.
LEMMA EndUpdateStep ==
  ASSUME IInv, NEW t \in Updates, update' = [update EXCEPT ![t] = Idle],
         UNCHANGED <<role, active, ver, pw, tokens, login, change>>
  PROVE  IInv'
<1>1. TypeOK'
  BY DEF IInv, TypeOK, LocksExclude
<1>2. UpdatesInv'
  BY DEF IInv, TypeOK, UpdatesInv, Busy, Stewards, EndsSessions
<1> QED
  BY <1>1, <1>2, OnlyUpdates DEF IInv

LEMMA SaveUpdateStep ==
  ASSUME IInv, NEW t \in Updates, SaveUpdate(t)
  PROVE  IInv'
<1> DEFINE p == update[t]
           u == p.user
<1>1. /\ p \in Update /\ Busy(t) /\ u \in Users /\ role[u] # "none"
      /\ u \in p.locked /\ p.found \subseteq Stewards /\ p.found \subseteq p.locked
      /\ EndsSessions(p) => ver[u] < MaxVersion
  BY DEF IInv, TypeOK, LocksExclude, UpdatesInv, SaveUpdate, ReadyToSave, Busy, Update
<1>2. NextRole(p) \in Role /\ NextActive(p) \in BOOLEAN
  BY <1>1 DEF IInv, TypeOK, NextRole, NextActive, Update
<1>3. /\ role' = [role EXCEPT ![u] = NextRole(p)]
      /\ active' = [active EXCEPT ![u] = NextActive(p)]
      /\ ver' = [ver EXCEPT ![u] = IF EndsSessions(p) THEN @ + 1 ELSE @]
      /\ update' = [update EXCEPT ![t] = Idle]
      /\ UNCHANGED <<pw, tokens, login, change>>
      /\ DropsSteward(p) => p.found \ {u} # {}
  BY DEF SaveUpdate
<1>4. /\ ver[u] \in Nat /\ ver'[u] \in Versions /\ ver[u] <= ver'[u]
      /\ EndsSessions(p) => ver[u] < ver'[u]
  BY <1>1, <1>3, BoundsAssumption DEF IInv, TypeOK, Versions
<1>5. ~EndsSessions(p) => NextRole(p) = role[u] /\ (active[u] => NextActive(p))
  BY <1>1 DEF EndsSessions, NextRole, NextActive, Update
<1> HIDE DEF p
<1>6. TypeOK'
  <2>1. LocksExclude'
    BY <1>3 DEF IInv, TypeOK, LocksExclude
  <2> QED
    BY <1>1, <1>2, <1>3, <1>4, <2>1 DEF IInv, TypeOK
<1>7. AccountsInv'
  BY <1>1, <1>2, <1>3, <1>4 DEF IInv, TypeOK, AccountsInv, Versions, Role
<1>8. \A v \in Users \ {u} : v \in Stewards => v \in Stewards'
  BY <1>1, <1>3 DEF IInv, TypeOK, Stewards
<1>9. UpdatesInv'
  <2> SUFFICES ASSUME NEW s \in Updates, Busy(s)'
      PROVE  /\ role'[update'[s].user] # "none"
             /\ update'[s].found \subseteq update'[s].locked
             /\ update'[s].found \subseteq Stewards'
             /\ EndsSessions(update[s])' => ver'[update'[s].user] < MaxVersion
    BY DEF UpdatesInv, EndsSessions
  <2>1. s # t /\ update'[s] = update[s] /\ Busy(s) /\ update[s] \in Update
    BY <1>3 DEF Busy, IInv, TypeOK
  <2>2. u \notin update[s].locked /\ update[s].user \in update[s].locked
    BY <1>1, <2>1 DEF IInv, TypeOK, LocksExclude, Busy, p
  <2>3. /\ update[s].user \in Users /\ update[s].user # u
        /\ role'[update[s].user] = role[update[s].user]
        /\ ver'[update[s].user] = ver[update[s].user]
    BY <1>3, <2>1, <2>2 DEF IInv, TypeOK, Update
  <2>4. update[s].found \subseteq Stewards'
    BY <1>8, <2>1, <2>2 DEF IInv, UpdatesInv, Stewards
  <2> QED
    BY <2>1, <2>3, <2>4 DEF IInv, UpdatesInv, EndsSessions
<1>10. SessionsInv'
  <2>1. ASSUME NEW k \in Token, Current(k)
        PROVE  Current(k)'
    <3>1. CASE k.user = u
      BY <1>1, <1>2, <1>3, <1>4, <1>5, <2>1, <3>1 DEF IInv, TypeOK, Current, Token, Versions, Role
    <3>2. CASE k.user # u
      BY <1>1, <1>3, <2>1, <3>2 DEF IInv, TypeOK, Current, Token
    <3> QED
      BY <3>1, <3>2
  <2>2. \A q \in Changes : change[q] # Idle => role'[change[q].user] # "none"
    BY <1>1, <1>2, <1>3 DEF IInv, TypeOK, SessionsInv, Change, Role
  <2> QED
    BY <1>3, <2>1, <2>2 DEF IInv, TypeOK, SessionsInv
<1>11. AlwaysASteward'
  <2>1. CASE DropsSteward(p)
    BY <1>1, <1>3, <1>8, <2>1 DEF Stewards, AlwaysASteward
  <2>2. CASE ~DropsSteward(p)
    <3>1. u \in Stewards => u \in Stewards'
      BY <1>1, <1>2, <1>3, <2>2 DEF DropsSteward, Stewards, IInv, TypeOK
    <3> QED
      BY <1>8, <3>1 DEF IInv, AlwaysASteward, Stewards
  <2> QED
    BY <2>1, <2>2
<1> QED
  BY <1>6, <1>7, <1>9, <1>10, <1>11 DEF IInv

\* A new password raises the version, so no token of the account is current.
LEMMA StorePasswordHolds ==
  ASSUME IInv, NEW u \in Users, StorePassword(u), UNCHANGED <<role, active, update>>
  PROVE  /\ ver' \in [Users -> Versions] /\ pw' \in [Users -> Versions] /\ pw'[u] = pw[u] + 1
         /\ AccountsInv' /\ UpdatesInv' /\ AlwaysASteward' /\ LocksExclude'
         /\ \A k \in Token : Current(k) => Current(k)'
<1>1. /\ ver' = [ver EXCEPT ![u] = @ + 1] /\ pw' = [pw EXCEPT ![u] = @ + 1]
      /\ ~Locked(u) /\ ver[u] < MaxVersion
      /\ ver \in [Users -> Versions] /\ pw \in [Users -> Versions] /\ pw[u] <= ver[u]
  BY DEF StorePassword, IInv, TypeOK, AccountsInv
<1>2. ver' \in [Users -> Versions] /\ pw' \in [Users -> Versions] /\ pw'[u] = pw[u] + 1
  BY <1>1, BoundsAssumption DEF Versions
<1>3. AccountsInv'
  BY <1>1, BoundsAssumption DEF IInv, AccountsInv, Versions
<1>4. \A t \in Updates : Busy(t) => update[t].user \in Users /\ update[t].user # u
  BY <1>1 DEF IInv, TypeOK, LocksExclude, Locked, Busy, Update
<1>5. UpdatesInv'
  BY <1>1, <1>4 DEF IInv, UpdatesInv, Busy, Stewards, EndsSessions
<1>6. AlwaysASteward' /\ LocksExclude'
  BY DEF IInv, TypeOK, LocksExclude, AlwaysASteward, Stewards
<1>7. \A k \in Token : Current(k) => Current(k)'
  BY <1>1, BoundsAssumption DEF Current, Token, Versions
<1> QED
  BY <1>2, <1>3, <1>5, <1>6, <1>7

LEMMA ResetPasswordStep ==
  ASSUME IInv, NEW u \in Users, ResetPassword(u)
  PROVE  IInv'
<1>1. StorePassword(u) /\ UNCHANGED <<role, active, tokens, update, login, change>>
  BY DEF ResetPassword
<1>2. TypeOK'
  BY <1>1, StorePasswordHolds DEF IInv, TypeOK
<1>3. SessionsInv'
  BY <1>1, StorePasswordHolds DEF IInv, TypeOK, SessionsInv
<1> QED
  BY <1>1, <1>2, <1>3, StorePasswordHolds DEF IInv

LEMMA LogoutStep ==
  ASSUME IInv, NEW u \in Users, Logout(u)
  PROVE  IInv'
<1>1. /\ ver' = [ver EXCEPT ![u] = @ + 1] /\ ~Locked(u) /\ ver[u] < MaxVersion
      /\ UNCHANGED <<role, active, pw, tokens, update, login, change>>
  BY DEF Logout
<1>2. TypeOK'
  BY <1>1, BoundsAssumption DEF IInv, TypeOK, LocksExclude, Versions
<1>3. AccountsInv'
  BY <1>1, BoundsAssumption DEF IInv, TypeOK, AccountsInv, Versions
<1>4. \A t \in Updates : Busy(t) => update[t].user \in Users /\ update[t].user # u
  BY <1>1 DEF IInv, TypeOK, LocksExclude, Locked, Busy, Update
<1>5. UpdatesInv'
  BY <1>1, <1>4 DEF IInv, TypeOK, UpdatesInv, Busy, Stewards, EndsSessions
<1>6. SessionsInv'
  BY <1>1, BoundsAssumption DEF IInv, TypeOK, SessionsInv, Current, Token, Versions
<1> QED
  BY <1>1, <1>2, <1>3, <1>5, <1>6 DEF IInv, AlwaysASteward, Stewards

LEMMA LoginSteps ==
  ASSUME IInv, NEW q \in Logins, NEW u \in Users,
         BeginLogin(q, u) \/ SignLogin(q) \/ RefuseLogin(q)
  PROVE  IInv'
<1>1. UNCHANGED <<role, active, ver, pw, update, change>>
  BY DEF BeginLogin, SignLogin, RefuseLogin, account
<1>2. CASE BeginLogin(q, u)
  <2> DEFINE k == [user |-> u, ver |-> ver[u], role |-> role[u], pw |-> pw[u], via |-> "login"]
  <2>1. /\ login' = [login EXCEPT ![q] = k] /\ tokens' = tokens
        /\ role[u] # "none" /\ active[u]
    BY <1>2 DEF BeginLogin
  <2>2. k \in Token /\ k.via = "login" /\ Current(k)
    BY <2>1 DEF IInv, TypeOK, Token, Current, Versions, Role
  <2> HIDE DEF k
  <2>3. TypeOK'
    BY <1>1, <2>1, <2>2, OnlySessions DEF IInv, TypeOK
  <2>4. SessionsInv'
    BY <1>1, <2>1, <2>2 DEF IInv, TypeOK, SessionsInv, Current
  <2> QED
    BY <1>1, <2>3, <2>4, OnlySessions DEF IInv
<1>3. CASE SignLogin(q)
  <2>1. /\ login[q] # Idle /\ tokens' = tokens \cup {login[q]}
        /\ login' = [login EXCEPT ![q] = Idle]
    BY <1>3 DEF SignLogin
  <2>2. TypeOK'
    BY <1>1, <2>1, OnlySessions DEF IInv, TypeOK
  <2>3. SessionsInv'
    BY <1>1, <2>1 DEF IInv, TypeOK, SessionsInv, Current
  <2> QED
    BY <1>1, <2>2, <2>3, OnlySessions DEF IInv
<1>4. CASE RefuseLogin(q)
  <2>1. TypeOK'
    BY <1>1, <1>4, OnlySessions DEF IInv, TypeOK, RefuseLogin
  <2>2. SessionsInv'
    BY <1>1, <1>4 DEF IInv, TypeOK, SessionsInv, Current, RefuseLogin
  <2> QED
    BY <1>1, <2>1, <2>2, OnlySessions DEF IInv
<1> QED
  BY <1>2, <1>3, <1>4

LEMMA ChangeSteps ==
  ASSUME IInv, NEW q \in Changes, NEW u \in Users,
         BeginChange(q, u) \/ StoreChange(q) \/ SignChange(q) \/ RefuseChange(q)
  PROVE  IInv'
<1>1. CASE BeginChange(q, u)
  <2>1. /\ change' = [change EXCEPT ![q] = [user |-> u, pw |-> pw[u], stored |-> FALSE]]
        /\ UNCHANGED <<role, active, ver, pw, update, tokens, login>> /\ role[u] # "none"
    BY <1>1 DEF BeginChange, account, Accepted
  <2>2. TypeOK'
    BY <2>1, OnlySessions DEF IInv, TypeOK, Change
  <2>3. SessionsInv'
    BY <2>1 DEF IInv, TypeOK, SessionsInv, Current
  <2> QED
    BY <2>1, <2>2, <2>3, OnlySessions DEF IInv
<1>2. CASE StoreChange(q)
  <2> DEFINE v == change[q].user
             c == [change[q] EXCEPT !.stored = TRUE, !.pw = pw[v] + 1]
  <2>1. /\ change[q] \in Change /\ v \in Users /\ StorePassword(v)
        /\ change' = [change EXCEPT ![q] = c] /\ role[v] # "none"
        /\ UNCHANGED <<role, active, tokens, update, login>>
    BY <1>2 DEF StoreChange, IInv, TypeOK, SessionsInv, Change
  <2>2. pw'[v] = pw[v] + 1 /\ pw'[v] \in Versions
    BY <2>1, StorePasswordHolds
  <2>3. c \in Change /\ c.user = v
    BY <2>1, <2>2 DEF Change
  <2> HIDE DEF c
  <2>4. TypeOK'
    BY <2>1, <2>3, StorePasswordHolds DEF IInv, TypeOK
  <2>5. SessionsInv'
    BY <2>1, <2>3, StorePasswordHolds DEF IInv, TypeOK, SessionsInv
  <2> QED
    BY <2>1, <2>4, <2>5, StorePasswordHolds DEF IInv
<1>3. CASE SignChange(q)
  <2> DEFINE v == change[q].user
             k == [user |-> v, ver |-> ver[v], role |-> role[v], pw |-> change[q].pw,
                   via |-> "change"]
  <2>1. /\ change[q] \in Change /\ v \in Users /\ role[v] # "none"
        /\ change' = [change EXCEPT ![q] = Idle] /\ tokens' = tokens \cup {k}
        /\ UNCHANGED <<role, active, ver, pw, update, login>>
    BY <1>3 DEF SignChange, IInv, TypeOK, SessionsInv, Change, account
  <2>2. k \in Token /\ k.via # "login"
    BY <2>1 DEF IInv, TypeOK, Token, Change, Role
  <2> HIDE DEF k
  <2>3. TypeOK'
    BY <2>1, <2>2, OnlySessions DEF IInv, TypeOK
  <2>4. SessionsInv'
    BY <2>1, <2>2 DEF IInv, TypeOK, SessionsInv, Current
  <2> QED
    BY <2>1, <2>3, <2>4, OnlySessions DEF IInv
<1>4. CASE RefuseChange(q)
  <2>1. /\ change' = [change EXCEPT ![q] = Idle]
        /\ UNCHANGED <<role, active, ver, pw, update, tokens, login>>
    BY <1>4 DEF RefuseChange, account
  <2>2. TypeOK'
    BY <2>1, OnlySessions DEF IInv, TypeOK
  <2>3. SessionsInv'
    BY <2>1 DEF IInv, TypeOK, SessionsInv, Current
  <2> QED
    BY <2>1, <2>2, <2>3, OnlySessions DEF IInv
<1> QED
  BY <1>1, <1>2, <1>3, <1>4

LEMMA ExpireTokenStep ==
  ASSUME IInv, NEW t \in tokens, ExpireToken(t)
  PROVE  IInv'
<1>1. tokens' = tokens \ {t} /\ UNCHANGED <<role, active, ver, pw, update, login, change>>
  BY DEF ExpireToken, account
<1>2. TypeOK'
  BY <1>1, OnlySessions DEF IInv, TypeOK
<1>3. SessionsInv'
  BY <1>1 DEF IInv, SessionsInv, Current
<1> QED
  BY <1>1, <1>2, <1>3, OnlySessions DEF IInv

LEMMA StutterStep ==
  ASSUME IInv, UNCHANGED vars
  PROVE  IInv'
<1>1. UNCHANGED <<role, active, ver, pw, tokens, update, login, change>>
  BY DEF vars
<1>2. TypeOK' /\ SessionsInv'
  BY <1>1 DEF IInv, TypeOK, LocksExclude, SessionsInv, Current
<1> QED
  BY <1>1, <1>2, OnlySessions DEF IInv

LEMMA NextIInv == IInv /\ [Next]_vars => IInv'
<1> SUFFICES ASSUME IInv, [Next]_vars PROVE IInv'
  OBVIOUS
<1>1. ASSUME NEW u \in Users, NEW r \in Role, Create(u, r) PROVE IInv'
  BY <1>1, CreateStep
<1>2. ASSUME NEW t \in Updates, NEW u \in Users, NEW r \in Requests, BeginUpdate(t, u, r)
      PROVE  IInv'
  BY <1>2, BeginUpdateStep
<1>3. ASSUME NEW t \in Updates, UpdateStep(t) PROVE IInv'
  <2>1. ASSUME NEW u \in Users, LockSteward(t, u) PROVE IInv'
    BY <2>1, LockStewardStep
  <2>2. CASE AbortDeadlocked(t) \/ RefuseUpdate(t)
    BY <2>2, EndUpdateStep DEF AbortDeadlocked, RefuseUpdate
  <2>3. CASE SaveUpdate(t)
    BY <2>3, SaveUpdateStep
  <2> QED
    BY <1>3, <2>1, <2>2, <2>3 DEF UpdateStep
<1>4. ASSUME NEW u \in Users, ResetPassword(u) \/ Logout(u) PROVE IInv'
  BY <1>4, ResetPasswordStep, LogoutStep
<1>5. ASSUME NEW q \in Logins,
             SignLogin(q) \/ RefuseLogin(q) \/ \E u \in Users : BeginLogin(q, u)
      PROVE  IInv'
  <2>1. PICK u \in Users : TRUE
    BY DEF IInv, AlwaysASteward, Stewards
  <2> QED
    BY <1>5, <2>1, LoginSteps
<1>6. ASSUME NEW q \in Changes,
             \/ StoreChange(q) \/ SignChange(q) \/ RefuseChange(q)
             \/ \E u \in Users : BeginChange(q, u)
      PROVE  IInv'
  <2>1. PICK u \in Users : TRUE
    BY DEF IInv, AlwaysASteward, Stewards
  <2> QED
    BY <1>6, <2>1, ChangeSteps
<1>7. ASSUME NEW t \in tokens, ExpireToken(t) PROVE IInv'
  BY <1>7, ExpireTokenStep
<1>8. CASE UNCHANGED vars
  BY <1>8, StutterStep
<1> QED
  BY <1>1, <1>2, <1>3, <1>4, <1>5, <1>6, <1>7, <1>8 DEF Next

\* What a sign-in's token says is current, or its version is behind.
LEMMA SessionsFollow == IInv => LoginTokensAreCurrent
  BY DEF IInv, SessionsInv, Current, LoginTokensAreCurrent, Accepted

LEMMA EndedStays ==
  ASSUME IInv, [Next]_vars, NEW t \in tokens, t.via = "login", ~Accepted(t)
  PROVE  ~Accepted(t)'
<1>1. t \in Token /\ t.user \in Users /\ t.ver < ver[t.user]
  BY DEF IInv, TypeOK, SessionsInv, Current, Accepted, Token, Versions
<1>2. ver[t.user] <= ver'[t.user]
  <2>1. ver[t.user] \in Nat
    BY <1>1 DEF IInv, TypeOK, Versions
  <2>2. ASSUME NEW s \in Updates, UpdateStep(s) PROVE ver[t.user] <= ver'[t.user]
    <3>1. CASE SaveUpdate(s)
      <4>1. ver' = [ver EXCEPT ![update[s].user] = IF EndsSessions(update[s]) THEN @ + 1 ELSE @]
        BY <3>1 DEF SaveUpdate
      <4> QED
        BY <1>1, <2>1, <4>1 DEF IInv, TypeOK
    <3>2. CASE ~SaveUpdate(s)
      <4>1. UNCHANGED ver
        BY <2>2, <3>2 DEF UpdateStep, LockSteward, AbortDeadlocked, RefuseUpdate
      <4> QED
        BY <2>1, <4>1
    <3> QED
      BY <3>1, <3>2
  <2>3. ASSUME NEW u \in Users, ResetPassword(u) \/ Logout(u) PROVE ver[t.user] <= ver'[t.user]
    BY <1>1, <2>1, <2>3 DEF IInv, TypeOK, ResetPassword, StorePassword, Logout
  <2>4. ASSUME NEW q \in Changes, StoreChange(q) PROVE ver[t.user] <= ver'[t.user]
    BY <1>1, <2>1, <2>4 DEF IInv, TypeOK, StoreChange, StorePassword
  <2>5. \/ \E s \in Updates : UpdateStep(s)
        \/ \E u \in Users : ResetPassword(u) \/ Logout(u)
        \/ \E q \in Changes : StoreChange(q)
        \/ UNCHANGED ver
    BY DEF Next, vars, Create, BeginUpdate, BeginLogin, SignLogin, RefuseLogin, BeginChange,
       SignChange, RefuseChange, ExpireToken, account
  <2> QED
    BY <2>1, <2>2, <2>3, <2>4, <2>5
<1>3. ver'[t.user] \in Nat /\ ver[t.user] \in Nat /\ t.ver \in Nat
  BY <1>1, NextIInv DEF IInv, TypeOK, Versions, Token
<1> QED
  BY <1>1, <1>2, <1>3 DEF Accepted

-----------------------------------------------------------------------------
(***************************************************************************)
(* Every field keeps its type, and no two updates hold one row lock.       *)
(***************************************************************************)
THEOREM TypeCorrect == Spec => []TypeOK
<1>1. IInv => TypeOK
  BY DEF IInv
<1> QED
  BY <1>1, InitIInv, NextIInv, PTL DEF Spec

(***************************************************************************)
(* However many stewards take each other's access away at the same moment  *)
(* (UsersService.update), one who can sign in is left.                     *)
(***************************************************************************)
THEOREM AStewardIsLeft == Spec => []AlwaysASteward
<1>1. IInv => AlwaysASteward
  BY DEF IInv
<1> QED
  BY <1>1, InitIInv, NextIInv, PTL DEF Spec

(***************************************************************************)
(* A session that began with a sign-in is let in only under the password   *)
(* and the role the sign-in found (login, JwtStrategy.validate).           *)
(***************************************************************************)
THEOREM LoginsFollowTheAccount == Spec => []LoginTokensAreCurrent
  BY InitIInv, NextIInv, SessionsFollow, PTL DEF Spec

(***************************************************************************)
(* Such a session does not come back once it has ended, whatever is done   *)
(* to the account afterwards.                                              *)
(***************************************************************************)
THEOREM EndedSessionsStayEnded == Spec => NoRevival
<1>1. IInv /\ [Next]_vars =>
        [\A t \in tokens : t.via = "login" /\ ~Accepted(t) => ~Accepted(t)']_vars
  BY EndedStays
<1> QED
  BY <1>1, InitIInv, NextIInv, PTL DEF Spec, NoRevival

-----------------------------------------------------------------------------
(***************************************************************************)
(* Accounts implements AccountRules.  A step that writes an account or a   *)
(* token is a step of the rules; all others are stutters.  The invariant   *)
(* does the work: what an update has counted is still a steward when it is *)
(* saved, and a token is let in only while the account is as it was when   *)
(* it was read.                                                            *)
(***************************************************************************)

Live == {t \in tokens : t.via = "login" /\ Accepted(t)}
Session(t) == [user |-> t.user, role |-> t.role, pw |-> t.pw]

\* A live session is for what its account is.
LEMMA LiveIsCurrent ==
  ASSUME IInv
  PROVE  /\ LiveSessions = {Session(t) : t \in Live}
         /\ \A t \in Live : /\ t \in Token /\ t.user \in Users /\ t.ver = ver[t.user]
                            /\ role[t.user] # "none" /\ active[t.user]
                            /\ t.role = role[t.user] /\ t.pw = pw[t.user]
  BY DEF IInv, TypeOK, SessionsInv, Current, LiveSessions, Live, Session, Accepted, Token

LEMMA RulesInit == Init => Rules!Init
  BY DEF Init, Rules!Init, Rules!Stewards, Stewards, LiveSessions

\* The token versions of nobody but u rise, so only the sessions of u end.
LEMMA SessionsEnd ==
  ASSUME IInv, NEW u \in Users, UNCHANGED tokens, ver'[u] \in Nat, ver'[u] > ver[u],
         \A v \in Users \ {u} : role'[v] = role[v] /\ active'[v] = active[v] /\ ver'[v] = ver[v]
  PROVE  LiveSessions' = LiveSessions \ Rules!Of(u)
<1>1. \A t \in tokens : t.via = "login" =>
        t \in Token /\ t.user \in Users /\ t.ver \in Nat /\ ver[t.user] \in Nat /\ t.ver <= ver[t.user]
  BY DEF IInv, TypeOK, SessionsInv, Current, Token, Versions
<1>2. Live' = {t \in Live : t.user # u}
  <2>1. ASSUME NEW t \in tokens, t.via = "login", t.user = u
        PROVE  ~Accepted(t)'
    <3>1. t.ver \in Nat /\ ver[u] \in Nat /\ t.ver <= ver[u]
      BY <1>1, <2>1
    <3>2. t.ver # ver'[u]
      BY <3>1
    <3> QED
      BY <2>1, <3>2 DEF Accepted
  <2>2. ASSUME NEW t \in tokens, t.via = "login", t.user # u
        PROVE  Accepted(t)' = Accepted(t)
    BY <1>1, <2>2 DEF Accepted
  <2> QED
    BY <2>1, <2>2 DEF Live
<1>3. LiveSessions' = {Session(t) : t \in Live'}
  BY DEF LiveSessions, Live, Session, Accepted
<1>4. LiveSessions = {Session(t) : t \in Live}
  BY LiveIsCurrent
<1>5. \A t \in Live : Session(t).user = t.user
  BY DEF Session
<1> QED
  BY <1>2, <1>3, <1>4, <1>5 DEF Rules!Of

\* Nobody is let in who was not, and nobody is thrown out.
LEMMA SessionsStay ==
  ASSUME \A t \in tokens : t.via = "login" => Accepted(t)' = Accepted(t), UNCHANGED tokens
  PROVE  LiveSessions' = LiveSessions
  BY DEF LiveSessions, Accepted

LEMMA CreateRule ==
  ASSUME IInv, NEW u \in Users, NEW r \in Role, Create(u, r)
  PROVE  Rules!Create(u, r)
<1>1. \A t \in tokens : t.via = "login" => Accepted(t)' = Accepted(t)
  BY DEF IInv, TypeOK, SessionsInv, Current, Create, Accepted, Token
<1> QED
  BY <1>1, SessionsStay DEF Create, Rules!Create

LEMMA SaveUpdateRule ==
  ASSUME IInv, NEW t \in Updates, SaveUpdate(t)
  PROVE  \E u \in Users, r \in Role, a \in BOOLEAN : Rules!Update(u, r, a)
<1> DEFINE p == update[t]
           u == p.user
           r == NextRole(p)
           a == NextActive(p)
<1>1. /\ p \in Update /\ u \in Users /\ role[u] # "none" /\ p.found \subseteq Stewards
      /\ ver[u] \in Nat
  BY DEF IInv, TypeOK, UpdatesInv, SaveUpdate, ReadyToSave, Busy, Update, Versions
<1>2. r \in Role /\ a \in BOOLEAN
  BY <1>1 DEF IInv, TypeOK, NextRole, NextActive, Update
<1>3. /\ role' = [role EXCEPT ![u] = r]
      /\ active' = [active EXCEPT ![u] = a]
      /\ ver' = [ver EXCEPT ![u] = IF EndsSessions(p) THEN @ + 1 ELSE @]
      /\ UNCHANGED <<pw, tokens>>
      /\ DropsSteward(p) => p.found \ {u} # {}
  BY DEF SaveUpdate
<1>4. u \in Stewards /\ (r # "steward" \/ ~a) => Stewards \ {u} # {}
  BY <1>1, <1>3 DEF DropsSteward
<1>5. LiveSessions' = IF r # role[u] \/ ~a THEN LiveSessions \ Rules!Of(u) ELSE LiveSessions
  <2>1. CASE EndsSessions(p)
    <3>1. r # role[u] \/ ~a
      BY <1>1, <2>1, SameAssumption DEF EndsSessions, NextRole, NextActive, Update
    <3>2. LiveSessions' = LiveSessions \ Rules!Of(u)
      BY <1>1, <1>3, <2>1, SessionsEnd DEF IInv, TypeOK
    <3> QED
      BY <3>1, <3>2
  <2>2. CASE ~EndsSessions(p)
    <3>1. r = role[u] /\ (active[u] => a)
      BY <1>1, <2>2 DEF EndsSessions, NextRole, NextActive, Update
    <3>2. \A k \in tokens : k.via = "login" => Accepted(k)' = Accepted(k)
      <4> SUFFICES ASSUME NEW k \in tokens, k.via = "login"
          PROVE  Accepted(k)' = Accepted(k)
        OBVIOUS
      <4>1. k \in Token /\ k.user \in Users /\ Current(k) /\ ver' = ver
        BY <1>1, <1>3, <2>2 DEF IInv, TypeOK, SessionsInv, Token
      <4>2. CASE k.user = u
        <5>1. Accepted(k)' <=> a /\ k.ver = ver[u]
          BY <1>1, <1>2, <1>3, <4>1, <4>2 DEF Accepted, IInv, TypeOK, Role
        <5>2. Accepted(k) <=> active[u] /\ k.ver = ver[u]
          BY <1>1, <4>2 DEF Accepted
        <5>3. k.ver = ver[u] => active[u]
          BY <4>1, <4>2 DEF Current
        <5> QED
          BY <3>1, <5>1, <5>2, <5>3 DEF Accepted
      <4>3. CASE k.user # u
        BY <1>1, <1>3, <4>1, <4>3 DEF Accepted, IInv, TypeOK
      <4> QED
        BY <4>2, <4>3
    <3>3. LiveSessions' = LiveSessions
      BY <1>3, <3>2, SessionsStay
    <3>4. ~a => Rules!Of(u) = {}
      BY <3>1, LiveIsCurrent DEF Rules!Of, Session
    <3> QED
      BY <3>1, <3>3, <3>4
  <2> QED
    BY <2>1, <2>2
<1>6. Rules!Update(u, r, a)
  BY <1>1, <1>3, <1>4, <1>5 DEF Rules!Update, Rules!Stewards, Stewards
<1> QED
  BY <1>1, <1>2, <1>6

LEMMA StorePasswordRule ==
  ASSUME IInv, NEW u \in Users, StorePassword(u), UNCHANGED <<role, active, tokens>>
  PROVE  Rules!SetPassword(u)
<1>1. /\ role[u] # "none" /\ pw' = [pw EXCEPT ![u] = @ + 1]
      /\ ver' = [ver EXCEPT ![u] = @ + 1]
  BY DEF StorePassword
<1>2. ver'[u] \in Nat /\ ver'[u] > ver[u] /\ \A v \in Users \ {u} : ver'[v] = ver[v]
  BY <1>1 DEF IInv, TypeOK, Versions
<1>3. LiveSessions' = LiveSessions \ Rules!Of(u)
  BY <1>2, SessionsEnd
<1> QED
  BY <1>1, <1>3 DEF Rules!SetPassword

LEMMA LogoutRule ==
  ASSUME IInv, NEW u \in Users, Logout(u)
  PROVE  Rules!SignOut(u)
<1>1. ver' = [ver EXCEPT ![u] = @ + 1] /\ UNCHANGED <<role, active, pw, tokens>>
  BY DEF Logout
<1>2. ver'[u] \in Nat /\ ver'[u] > ver[u] /\ \A v \in Users \ {u} : ver'[v] = ver[v]
  BY <1>1 DEF IInv, TypeOK, Versions
<1>3. LiveSessions' = LiveSessions \ Rules!Of(u)
  BY <1>1, <1>2, SessionsEnd
<1> QED
  BY <1>1, <1>3 DEF Rules!SignOut

\* A token that is signed late is that of a sign-in now, or refused for good.
LEMMA SignLoginRule ==
  ASSUME IInv, NEW q \in Logins, SignLogin(q)
  PROVE  (\E u \in Users : Rules!SignIn(u)) \/ UNCHANGED <<role, active, pw, LiveSessions>>
<1> DEFINE k == login[q]
<1>1. /\ tokens' = tokens \cup {k} /\ UNCHANGED <<role, active, ver, pw>>
      /\ k \in Token /\ k.user \in Users /\ k.via = "login" /\ Current(k)
  BY DEF SignLogin, account, IInv, TypeOK, SessionsInv, Token
<1>2. LiveSessions' = LiveSessions \cup (IF Accepted(k) THEN {Session(k)} ELSE {})
  BY <1>1 DEF LiveSessions, Session, Accepted
<1>3. CASE Accepted(k)
  <2>1. Session(k) = [user |-> k.user, role |-> role[k.user], pw |-> pw[k.user]]
    BY <1>1, <1>3 DEF Accepted, Current, Session
  <2>2. Rules!SignIn(k.user)
    BY <1>1, <1>2, <1>3, <2>1 DEF Rules!SignIn, Accepted
  <2> QED
    BY <1>1, <2>2
<1>4. CASE ~Accepted(k)
  BY <1>1, <1>2, <1>4
<1> QED
  BY <1>3, <1>4

\* The token of a password change is not one of a sign-in.
LEMMA SignChangeRule ==
  ASSUME IInv, NEW q \in Changes, SignChange(q)
  PROVE  UNCHANGED <<role, active, pw, LiveSessions>>
<1>1. PICK k : k.via = "change" /\ tokens' = tokens \cup {k} /\ UNCHANGED <<role, active, ver, pw>>
  BY DEF SignChange, account
<1> QED
  BY <1>1 DEF LiveSessions, Accepted

\* All live sessions of an account are alike, so one that runs out is signed
\* out, unless there is another.
LEMMA ExpireTokenRule ==
  ASSUME IInv, NEW t \in tokens, ExpireToken(t)
  PROVE  (\E u \in Users : Rules!SignOut(u)) \/ UNCHANGED <<role, active, pw, LiveSessions>>
<1>1. tokens' = tokens \ {t} /\ UNCHANGED <<role, active, ver, pw>>
  BY DEF ExpireToken, account
<1>2. Live' = Live \ {t} /\ LiveSessions' = {Session(k) : k \in Live'}
  BY <1>1 DEF Live, LiveSessions, Session, Accepted
<1>3. CASE LiveSessions' = LiveSessions
  BY <1>1, <1>3
<1>4. CASE LiveSessions' # LiveSessions
  <2>1. t \in Live /\ \A k \in Live \ {t} : Session(k) # Session(t)
    BY <1>2, <1>4, LiveIsCurrent
  <2>2. \A k \in Live : k.user = t.user => Session(k) = Session(t)
    BY <2>1, LiveIsCurrent DEF Session
  <2>3. LiveSessions' = LiveSessions \ Rules!Of(t.user)
    BY <1>2, <2>1, <2>2, LiveIsCurrent DEF Rules!Of, Session
  <2>4. t.user \in Users /\ Rules!SignOut(t.user)
    BY <1>1, <2>1, <2>3, LiveIsCurrent DEF Rules!SignOut
  <2> QED
    BY <2>4
<1> QED
  BY <1>3, <1>4

LEMMA NextRules == IInv /\ [Next]_vars => [Rules!Next]_(Rules!vars)
<1> SUFFICES ASSUME IInv, [Next]_vars PROVE Rules!Next \/ UNCHANGED <<role, active, pw, LiveSessions>>
  BY DEF Rules!vars
<1>1. ASSUME UNCHANGED <<role, active, ver, pw, tokens>>
      PROVE  UNCHANGED <<role, active, pw, LiveSessions>>
  BY <1>1, SessionsStay DEF Accepted
<1>2. ASSUME NEW u \in Users, NEW r \in Role, Create(u, r) PROVE Rules!Next
  BY <1>2, CreateRule DEF Rules!Next
<1>3. ASSUME NEW t \in Updates, UpdateStep(t) PROVE Rules!Next \/ UNCHANGED <<role, active, ver, pw, tokens>>
  <2>1. CASE SaveUpdate(t)
    BY <2>1, SaveUpdateRule DEF Rules!Next
  <2> QED
    BY <1>3, <2>1 DEF UpdateStep, LockSteward, AbortDeadlocked, RefuseUpdate
<1>4. ASSUME NEW u \in Users, ResetPassword(u) PROVE Rules!Next
  BY <1>4, StorePasswordRule DEF ResetPassword, Rules!Next
<1>5. ASSUME NEW u \in Users, Logout(u) PROVE Rules!Next
  BY <1>5, LogoutRule DEF Rules!Next
<1>6. ASSUME NEW q \in Logins, SignLogin(q)
      PROVE  Rules!Next \/ UNCHANGED <<role, active, pw, LiveSessions>>
  BY <1>6, SignLoginRule DEF Rules!Next
<1>7. ASSUME NEW q \in Changes, StoreChange(q) PROVE Rules!Next
  <2>1. change[q].user \in Users
    BY <1>7 DEF StoreChange, IInv, TypeOK, Change
  <2> QED
    BY <1>7, <2>1, StorePasswordRule DEF StoreChange, Rules!Next
<1>8. ASSUME NEW q \in Changes, SignChange(q) PROVE UNCHANGED <<role, active, pw, LiveSessions>>
  BY <1>8, SignChangeRule
<1>9. ASSUME NEW t \in tokens, ExpireToken(t)
      PROVE  Rules!Next \/ UNCHANGED <<role, active, pw, LiveSessions>>
  BY <1>9, ExpireTokenRule DEF Rules!Next
<1>10. \/ \E u \in Users, r \in Role : Create(u, r)
       \/ \E t \in Updates : UpdateStep(t)
       \/ \E u \in Users : ResetPassword(u) \/ Logout(u)
       \/ \E q \in Logins : SignLogin(q)
       \/ \E q \in Changes : StoreChange(q) \/ SignChange(q)
       \/ \E t \in tokens : ExpireToken(t)
       \/ UNCHANGED <<role, active, ver, pw, tokens>>
  BY DEF Next, vars, BeginUpdate, BeginLogin, RefuseLogin, BeginChange, RefuseChange, account
<1> QED
  BY <1>1, <1>2, <1>3, <1>4, <1>5, <1>6, <1>7, <1>8, <1>9, <1>10

(***************************************************************************)
(* UsersService, AuthService and JwtStrategy, with their row locks, token  *)
(* versions and waits for bcrypt, do what AccountRules says, as if every   *)
(* request was served at one instant.                                      *)
(***************************************************************************)
THEOREM ServesAtOneInstant == Spec => ImplementsRules
  BY RulesInit, InitIInv, NextIInv, NextRules, PTL DEF Spec, ImplementsRules, Rules!Spec
=============================================================================
