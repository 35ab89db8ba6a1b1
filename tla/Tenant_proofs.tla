----------------------------- MODULE Tenant_proofs -----------------------------
(***************************************************************************)
(* What holds of StoreAccess for any number of sessions, requests and      *)
(* passwords, and whatever the bounds are: types, the end of sessions, the *)
(* transitions of tenants, stores, members and roles, and the lock.        *)
(*                                                                         *)
(* What holds of Catalog for any rows and any number of overlapping        *)
(* requests: types, a category tree that only a race can bend into a       *)
(* cycle, and what is in use, which only a race can end. The two modules   *)
(* share no name.                                                          *)
(***************************************************************************)
EXTENDS StoreAccess, Catalog, FiniteSetTheorems, TLAPS

--------------------------------------------------------------------------------
(* Accounts: types.                                                        *)

\* TypeOK but for the targets of requests.
AccountRows ==
    /\ clock \in Nat /\ era \in Nat /\ ended \in Nat
    /\ tries \in Nat /\ overruns \in Nat /\ started \in Nat
    /\ user \in Users
    /\ session \in [Sessions -> SessionRows]
    /\ standing \in [Scopes -> Statuses]
    /\ request \in [Requests -> RequestRows]

Targeted == \A r \in Requests : request[r].to \in Targets(request[r].op)

LEMMA TypeOKParts == TypeOK <=> AccountRows /\ Targeted
BY DEF TypeOK, AccountRows, Targeted

\* A request that has ended, or begun, is a request.
LEMMA IdleRow == Idle \in RequestRows /\ Idle.op = "none" /\ Idle.to = "none"
BY StoreAccessAssumption
   DEF Idle, RequestRows, User, Users, Scopes, Statuses, StoreAccessAssumption

\* The steps that leave requests as they are, or put one in their place.
LEMMA OneRequest ==
    ASSUME AccountRows, Targeted, NEW r \in Requests, NEW q \in RequestRows,
           q.to \in Targets(q.op), request' = [request EXCEPT ![r] = q]
    PROVE  request' \in [Requests -> RequestRows] /\ Targeted'
<1>1. request' \in [Requests -> RequestRows]
  BY DEF AccountRows
<1>2. \A x \in Requests : request'[x] = IF x = r THEN q ELSE request[x]
  BY DEF AccountRows
<1>3. Targeted'
  BY <1>2 DEF Targeted
<1> QED
  BY <1>1, <1>3

\* A request whose statement revokes all sessions has the row of one.
RevokingRow(r, op) ==
    [request[r] EXCEPT !.op = op, !.number = era + 1,
                       !.doomed = {s \in Sessions : session[s].status = "active"}]

LEMMA RevokeAllRow ==
    ASSUME AccountRows, Targeted, NEW r \in Requests, NEW op \in {"replace", "disable", "revoke"},
           request[r].to \in Targets(op), RevokeAll(r, op)
    PROVE  /\ RevokingRow(r, op) \in RequestRows
           /\ RevokingRow(r, op).op = op /\ RevokingRow(r, op).to \in Targets(op)
           /\ request' = [request EXCEPT ![r] = RevokingRow(r, op)]
           /\ era' \in Nat
<1>1. RevokingRow(r, op) \in RequestRows
  <2> DEFINE doomed == {s \in Sessions : session[s].status = "active"}
  <2>1. doomed \in SUBSET Sessions /\ era + 1 \in Nat /\ request[r] \in RequestRows
    BY DEF AccountRows
  <2>2. RevokingRow(r, op) = [request[r] EXCEPT !.op = op, !.number = era + 1, !.doomed = doomed]
    BY DEF RevokingRow
  <2> HIDE DEF doomed
  <2> QED
    BY <2>1, <2>2 DEF RequestRows
<1>2. RevokingRow(r, op).op = op /\ RevokingRow(r, op).to = request[r].to
  BY DEF RevokingRow, AccountRows, RequestRows
<1> QED
  BY <1>1, <1>2 DEF RevokeAll, RevokingRow, AccountRows

LEMMA RevokeAllTyped ==
    ASSUME AccountRows, Targeted, NEW r \in Requests, NEW op \in {"replace", "disable", "revoke"},
           request[r].to \in Targets(op), RevokeAll(r, op), started' \in Nat,
           UNCHANGED <<clock, user, session, standing, ended, tries, overruns>>
    PROVE  AccountRows' /\ Targeted'
<1> DEFINE q == RevokingRow(r, op)
<1>1. q \in RequestRows /\ q.to \in Targets(q.op) /\ era' \in Nat
      /\ request' = [request EXCEPT ![r] = q]
  BY RevokeAllRow
<1> HIDE DEF q
<1> QED
  BY <1>1, OneRequest DEF AccountRows

\* A revocation of all sessions keeps their rows.
LEMMA RevokedTyped ==
    ASSUME AccountRows, NEW r \in Requests, Revoked(r)
    PROVE  session' \in [Sessions -> SessionRows] /\ ended' \in Nat
BY DEF AccountRows, Revoked, SessionRows, RequestRows

LEMMA LogInTyped ==
    ASSUME AccountRows, Targeted, NEW r \in Requests, LogIn(r)
    PROVE  AccountRows' /\ Targeted'
<1>1. ASSUME NEW password \in Passwords, BeginLogin(r, password) PROVE AccountRows' /\ Targeted'
  <2> DEFINE q == [Idle EXCEPT !.op = IF password = user.password THEN "login" ELSE "wrong",
                               !.at = clock, !.user = user]
  <2>1. q \in RequestRows /\ q.to \in Targets(q.op)
    BY IdleRow DEF RequestRows, AccountRows, Targets
  <2>2. request' = [request EXCEPT ![r] = q] /\ tries' \in Nat /\ started' \in Nat
    BY <1>1 DEF BeginLogin, Count, AccountRows
  <2>3. UNCHANGED <<clock, user, session, standing, era, ended, overruns>>
    BY <1>1 DEF BeginLogin
  <2> HIDE DEF q
  <2> QED
    BY <2>1, <2>2, <2>3, OneRequest DEF AccountRows
<1>2. ASSUME CommitWrong(r) PROVE AccountRows' /\ Targeted'
  <2>1. request' = [request EXCEPT ![r] = Idle]
    BY <1>2 DEF CommitWrong, End
  <2>2. user' \in Users /\ tries' \in Nat /\ overruns' \in Nat
    <3>1. request[r].user.failures + 1 \in Nat /\ request[r].at + Lockout \in Nat
      BY StoreAccessAssumption DEF AccountRows, Users, RequestRows, StoreAccessAssumption
    <3>2. user' \in Users
      <4> DEFINE n == request[r].user.failures + 1
                 t == IF TooMany(n) THEN request[r].at + Lockout ELSE user.until
      <4>1. n \in Nat /\ t \in Nat \cup {user.until}
        BY <3>1
      <4>2. user' = [user EXCEPT !.failures = n, !.until = t]
        BY <1>2, Zenon DEF CommitWrong
      <4> HIDE DEF n, t
      <4> QED
        BY <4>1, <4>2 DEF AccountRows, Users
    <3> QED
      BY <1>2, <3>2 DEF CommitWrong, AccountRows
  <2>3. UNCHANGED <<clock, session, standing, era, ended, started>>
    BY <1>2 DEF CommitWrong
  <2> QED
    BY <2>1, <2>2, <2>3, OneRequest, IdleRow DEF AccountRows, Targets
<1>3. ASSUME NEW s \in Sessions, CommitLogin(r, s) PROVE AccountRows' /\ Targeted'
  <2>1. request' = [request EXCEPT ![r] = Idle]
    BY <1>3 DEF CommitLogin, End
  <2>2. user' \in Users
    <3>1. Cleared(r) \in Users
      BY DEF Cleared, AccountRows, Users
    <3> QED
      BY <1>3, <3>1 DEF CommitLogin, AccountRows, Users, RequestRows
  <2>3. session' \in [Sessions -> SessionRows]
    BY <1>3, StoreAccessAssumption
       DEF CommitLogin, AccountRows, SessionRows, RequestRows, StoreAccessAssumption
  <2>4. tries' = 0 /\ overruns' = 0 /\ UNCHANGED <<clock, standing, era, ended, started>>
    BY <1>3 DEF CommitLogin
  <2> QED
    BY <2>1, <2>2, <2>3, <2>4, OneRequest, IdleRow DEF AccountRows, Targets
<1> QED
  BY <1>1, <1>2, <1>3 DEF LogIn

LEMMA ResolveTyped ==
    ASSUME AccountRows, Targeted, NEW r \in Requests, Resolve(r)
    PROVE  AccountRows' /\ Targeted'
<1>1. ASSUME NEW s \in Sessions, BeginExpire(r, s) \/ BeginResolve(r, s)
      PROVE  AccountRows' /\ Targeted'
  <2> PICK op \in {"expire", "resolve"} : request' = [request EXCEPT ![r] = [Idle EXCEPT !.op = op, !.to = s]]
    BY <1>1 DEF BeginExpire, BeginResolve, Continue
  <2> DEFINE q == [Idle EXCEPT !.op = op, !.to = s]
  <2>1. q \in RequestRows /\ q.to \in Targets(q.op)
    BY IdleRow DEF RequestRows, Targets
  <2>2. started' \in Nat /\ UNCHANGED <<clock, user, session, standing, era, ended, tries, overruns>>
    BY <1>1 DEF BeginExpire, BeginResolve, Count, AccountRows
  <2>3. request' = [request EXCEPT ![r] = q]
    OBVIOUS
  <2> HIDE DEF q
  <2> QED
    BY <2>1, <2>2, <2>3, OneRequest DEF AccountRows
<1>2. ASSUME CommitExpire(r) PROVE AccountRows' /\ Targeted'
  <2>1. request' = [request EXCEPT ![r] = Idle]
    BY <1>2 DEF CommitExpire, End
  <2>2. session' \in [Sessions -> SessionRows]
    BY <1>2 DEF CommitExpire, AccountRows, SessionRows
  <2>3. UNCHANGED <<clock, user, standing, era, ended, tries, overruns, started>>
    BY <1>2 DEF CommitExpire
  <2> QED
    BY <2>1, <2>2, <2>3, OneRequest, IdleRow DEF AccountRows, Targets
<1>3. ASSUME NEW op \in {"identity", "manage"}, CommitResolve(r, op) PROVE AccountRows' /\ Targeted'
  <2> DEFINE q == [Idle EXCEPT !.op = op, !.to = "none"]
  <2>1. q \in RequestRows /\ q.to \in Targets(q.op)
    BY IdleRow DEF RequestRows, Targets, Statuses
  <2>2. request' = [request EXCEPT ![r] = q]
    BY <1>3 DEF CommitResolve, Continue
  <2>3. UNCHANGED <<clock, user, session, standing, era, ended, tries, overruns, started>>
    BY <1>3 DEF CommitResolve, LastSeen
  <2> HIDE DEF q
  <2> QED
    BY <2>1, <2>2, <2>3, OneRequest DEF AccountRows
<1>4. ASSUME Leave(r) PROVE AccountRows' /\ Targeted'
  <2>1. request' = [request EXCEPT ![r] = Idle]
    BY <1>4 DEF Leave, End
  <2>2. UNCHANGED <<clock, user, session, standing, era, ended, tries, overruns, started>>
    BY <1>4 DEF Leave
  <2> QED
    BY <2>1, <2>2, OneRequest, IdleRow DEF AccountRows, Targets
<1>5. ASSUME BeginRevokeAll(r) PROVE AccountRows' /\ Targeted'
  <2>1. request[r].to \in Targets("revoke") /\ RevokeAll(r, "revoke") /\ started' \in Nat
    BY <1>5 DEF BeginRevokeAll, Count, AccountRows, Targeted, Targets
  <2>2. UNCHANGED <<clock, user, session, standing, ended, tries, overruns>>
    BY <1>5 DEF BeginRevokeAll
  <2> QED
    BY <2>1, <2>2, RevokeAllTyped
<1>6. ASSUME CommitRevokeAll(r) PROVE AccountRows' /\ Targeted'
  <2>1. request' = [request EXCEPT ![r] = Idle] /\ Revoked(r)
    BY <1>6 DEF CommitRevokeAll, End
  <2>2. UNCHANGED <<clock, user, standing, era, tries, overruns, started>>
    BY <1>6 DEF CommitRevokeAll
  <2> QED
    BY <2>1, <2>2, RevokedTyped, OneRequest, IdleRow DEF AccountRows, Targets
<1> QED
  BY <1>1, <1>2, <1>3, <1>4, <1>5, <1>6 DEF Resolve

LEMMA AdministerTyped ==
    ASSUME AccountRows, Targeted, NEW r \in Requests, Administer(r)
    PROVE  AccountRows' /\ Targeted'
<1>1. ASSUME NEW password \in Passwords, BeginChange(r, password) \/ BeginReset(r, password)
      PROVE  AccountRows' /\ Targeted'
  <2> DEFINE q == [Idle EXCEPT !.op = "password", !.to = password, !.user = user]
  <2>1. q \in RequestRows /\ q.to \in Targets(q.op)
    BY IdleRow DEF RequestRows, Targets, AccountRows
  <2>2. request' = [request EXCEPT ![r] = q]
    BY <1>1 DEF BeginChange, BeginReset, ReadUser
  <2>3. started' \in Nat /\ UNCHANGED <<clock, user, session, standing, era, ended, tries, overruns>>
    BY <1>1 DEF BeginChange, BeginReset, Count, AccountRows
  <2> HIDE DEF q
  <2> QED
    BY <2>1, <2>2, <2>3, OneRequest DEF AccountRows
<1>2. ASSUME CommitPassword(r) PROVE AccountRows' /\ Targeted'
  <2>1. request' = [request EXCEPT ![r] = Idle] /\ Revoked(r)
    BY <1>2 DEF CommitPassword, End
  <2>2. request[r].to \in Passwords
    BY <1>2 DEF CommitPassword, Targeted, Targets
  <2>3. user' \in Users
    <3>1. Cleared(r) \in Users
      BY DEF Cleared, AccountRows, Users
    <3> QED
      BY <1>2, <2>2, <3>1 DEF CommitPassword, Users
  <2>4. tries' = 0 /\ overruns' = 0 /\ UNCHANGED <<clock, standing, era, started>>
    BY <1>2 DEF CommitPassword
  <2> QED
    BY <2>1, <2>3, <2>4, RevokedTyped, OneRequest, IdleRow DEF AccountRows, Targets
<1>3. ASSUME NEW to \in {"active", "disabled"}, BeginEnable(r, to) PROVE AccountRows' /\ Targeted'
  <2> DEFINE q == [Idle EXCEPT !.op = "enable", !.to = to, !.user = user]
  <2>1. q \in RequestRows /\ q.to \in Targets(q.op)
    BY IdleRow DEF RequestRows, Targets, AccountRows, Statuses
  <2>2. request' = [request EXCEPT ![r] = q]
    BY <1>3 DEF BeginEnable, ReadUser
  <2>3. started' \in Nat /\ UNCHANGED <<clock, user, session, standing, era, ended, tries, overruns>>
    BY <1>3 DEF BeginEnable, Count, AccountRows
  <2> HIDE DEF q
  <2> QED
    BY <2>1, <2>2, <2>3, OneRequest DEF AccountRows
<1>4. ASSUME CommitEnable(r) PROVE AccountRows' /\ Targeted'
  <2>1. request' = [request EXCEPT ![r] = Idle]
    BY <1>4 DEF CommitEnable, End
  <2>2. request[r].to \in {"active", "disabled"}
    BY <1>4 DEF CommitEnable, Targeted, Targets
  <2>3. user' \in Users
    BY <1>4, <2>2 DEF CommitEnable, Users, AccountRows
  <2>4. session' \in [Sessions -> SessionRows] /\ ended' \in Nat
    BY <1>4, RevokedTyped DEF CommitEnable, AccountRows
  <2>5. UNCHANGED <<clock, standing, era, tries, overruns, started>>
    BY <1>4 DEF CommitEnable
  <2> QED
    BY <2>1, <2>3, <2>4, <2>5, OneRequest, IdleRow DEF AccountRows, Targets
<1>5. ASSUME RevokeForPassword(r) PROVE AccountRows' /\ Targeted'
  <2>1. request[r].to \in Targets("replace") /\ RevokeAll(r, "replace") /\ started' \in Nat
    BY <1>5 DEF RevokeForPassword, AccountRows, Targeted, Targets
  <2>2. UNCHANGED <<clock, user, session, standing, ended, tries, overruns>>
    BY <1>5 DEF RevokeForPassword
  <2> QED
    BY <2>1, <2>2, RevokeAllTyped
<1>6. ASSUME RevokeForDisable(r) PROVE AccountRows' /\ Targeted'
  <2>1. request[r].to \in Targets("disable") /\ RevokeAll(r, "disable") /\ started' \in Nat
    BY <1>6 DEF RevokeForDisable, AccountRows, Targeted, Targets
  <2>2. UNCHANGED <<clock, user, session, standing, ended, tries, overruns>>
    BY <1>6 DEF RevokeForDisable
  <2> QED
    BY <2>1, <2>2, RevokeAllTyped
<1> QED
  BY <1>1, <1>2, <1>3, <1>4, <1>5, <1>6 DEF Administer

\* Whatever r manages, it is a move or a publication that begins or is committed.
LEMMA ManageSteps ==
    ASSUME NEW r \in Requests, Manage(r)
    PROVE  \/ \E scope \in Scopes, to \in Statuses : BeginMove(r, scope, to)
           \/ CommitMove(r)
           \/ BeginTraining(r)
           \/ CommitTraining(r)
BY DEF Manage, MoveTenant, MoveStore, MoveMember, MoveRole, Scopes, Statuses

LEMMA ManageTyped ==
    ASSUME AccountRows, Targeted, NEW r \in Requests, Manage(r)
    PROVE  AccountRows' /\ Targeted'
<1>1. ASSUME NEW scope \in Scopes, NEW to \in Statuses, BeginMove(r, scope, to)
      PROVE  AccountRows' /\ Targeted'
  <2> DEFINE q == [Idle EXCEPT !.op = "move", !.scope = scope, !.to = to,
                               !.standing = standing]
  <2>1. q \in RequestRows /\ q.to \in Targets(q.op)
    BY IdleRow DEF RequestRows, Targets, AccountRows
  <2>2. request' = [request EXCEPT ![r] = q]
    BY <1>1 DEF BeginMove
  <2>3. started' \in Nat /\ UNCHANGED <<clock, user, session, standing, era, ended, tries, overruns>>
    BY <1>1 DEF BeginMove, Count, AccountRows
  <2> HIDE DEF q
  <2> QED
    BY <2>1, <2>2, <2>3, OneRequest DEF AccountRows
<1>2. ASSUME CommitMove(r) PROVE AccountRows' /\ Targeted'
  <2>1. request' = [request EXCEPT ![r] = Idle]
    BY <1>2 DEF CommitMove, End
  <2>2. request[r].to \in Statuses
    BY <1>2 DEF CommitMove, Targeted, Targets
  <2>3. standing' \in [Scopes -> Statuses]
    BY <1>2, <2>2 DEF CommitMove, AccountRows, Statuses
  <2>4. UNCHANGED <<clock, user, session, era, ended, tries, overruns, started>>
    BY <1>2 DEF CommitMove
  <2> QED
    BY <2>1, <2>3, <2>4, OneRequest, IdleRow DEF AccountRows, Targets
<1>3. ASSUME BeginTraining(r) PROVE AccountRows' /\ Targeted'
  <2> DEFINE q == [Idle EXCEPT !.op = "train", !.standing = standing]
  <2>1. q \in RequestRows /\ q.to \in Targets(q.op)
    BY IdleRow DEF RequestRows, Targets, AccountRows
  <2>2. request' = [request EXCEPT ![r] = q]
    BY <1>3 DEF BeginTraining
  <2>3. started' \in Nat /\ UNCHANGED <<clock, user, session, standing, era, ended, tries, overruns>>
    BY <1>3 DEF BeginTraining, Count, AccountRows
  <2> HIDE DEF q
  <2> QED
    BY <2>1, <2>2, <2>3, OneRequest DEF AccountRows
<1>4. ASSUME CommitTraining(r) PROVE AccountRows' /\ Targeted'
  <2>1. request' = [request EXCEPT ![r] = Idle]
    BY <1>4 DEF CommitTraining, End
  <2>2. standing' \in [Scopes -> Statuses]
    BY <1>4 DEF CommitTraining, AccountRows, Statuses
  <2>3. UNCHANGED <<clock, user, session, era, ended, tries, overruns, started>>
    BY <1>4 DEF CommitTraining
  <2> QED
    BY <2>1, <2>2, <2>3, OneRequest, IdleRow DEF AccountRows, Targets
<1> QED
  BY <1>1, <1>2, <1>3, <1>4, ManageSteps

LEMMA NextTyped ==
    ASSUME AccountRows, Targeted, [Next]_vars
    PROVE  AccountRows' /\ Targeted'
<1>1. ASSUME NEW s \in Sessions, RevokeSession(s) PROVE AccountRows' /\ Targeted'
  <2>1. session' \in [Sessions -> SessionRows] /\ started' \in Nat
    BY <1>1 DEF RevokeSession, Count, AccountRows, SessionRows
  <2> QED
    BY <1>1, <2>1 DEF RevokeSession, AccountRows, Targeted
<1>3. ASSUME Enrol PROVE AccountRows' /\ Targeted'
  <2>1. PICK to \in Statuses, role \in Statuses : AddMembership(to, role)
    BY <1>3 DEF Enrol, Statuses
  <2>2. started' \in Nat
    BY <2>1 DEF AddMembership, Count, AccountRows
  <2>3. standing' \in [Scopes -> Statuses]
    BY <2>1 DEF AddMembership, AccountRows
  <2> QED
    BY <2>1, <2>2, <2>3 DEF AddMembership, AccountRows, Targeted
<1>4. ASSUME DisableMembership PROVE AccountRows' /\ Targeted'
  <2>1. started' \in Nat
    BY <1>4 DEF DisableMembership, Count, AccountRows
  <2>2. "suspended" \in Statuses
    BY DEF Statuses
  <2>3. standing' \in [Scopes -> Statuses]
    BY <1>4, <2>2 DEF DisableMembership, AccountRows
  <2> QED
    BY <1>4, <2>1, <2>3 DEF DisableMembership, AccountRows, Targeted
<1>5. ASSUME Tick PROVE AccountRows' /\ Targeted'
  BY <1>5 DEF Tick, AccountRows, Targeted
<1>6. ASSUME UNCHANGED vars PROVE AccountRows' /\ Targeted'
  BY <1>6 DEF vars, AccountRows, Targeted
<1> QED
  BY <1>1, <1>3, <1>4, <1>5, <1>6, LogInTyped, ResolveTyped, AdministerTyped, ManageTyped
     DEF Next

LEMMA InitTyped == Init => AccountRows /\ Targeted
<1> SUFFICES ASSUME Init PROVE AccountRows /\ Targeted
  OBVIOUS
<1>1. user \in Users
  BY StoreAccessAssumption DEF Init, User, Users, StoreAccessAssumption
<1>2. session \in [Sessions -> SessionRows]
  BY DEF Init, NoSession, SessionRows
<1>3. standing \in [Scopes -> Statuses]
  BY DEF Init, Scopes, Statuses
<1>4. request \in [Requests -> RequestRows] /\ Targeted
  BY IdleRow DEF Init, Targeted, Targets
<1> QED
  BY <1>1, <1>2, <1>3, <1>4 DEF Init, AccountRows

\* Whatever requests overlap, every row keeps its shape, and every request is about what
\* its operation is about.
THEOREM AccessTypeCorrect == Spec => []TypeOK
<1>1. AccountRows /\ Targeted /\ [Next]_vars => AccountRows' /\ Targeted'
  BY NextTyped
<1> QED
  BY InitTyped, <1>1, TypeOKParts, PTL DEF Spec

--------------------------------------------------------------------------------
(* Requests                                                                *)

\* What a request may be about to do that neither moves a status nor revokes all
\* sessions, and what does the latter.
Plain == {"none", "login", "wrong", "expire", "resolve", "identity", "manage", "password",
          "enable", "train"}
Revoking == {"replace", "disable", "revoke"}

\* Becomes(r): r is as it was, is plain, begins a move or revokes all sessions.
Becomes(r) ==
    \/ request'[r] = request[r]
    \/ request'[r].op \in Plain
    \/ \E scope \in Scopes, to \in Statuses : BeginMove(r, scope, to)
    \/ \E op \in Revoking : RevokeAll(r, op)

LEMMA BecomesPlain ==
    ASSUME AccountRows, NEW q \in Requests, NEW new, new.op \in Plain,
           request' = [request EXCEPT ![q] = new],
           NEW r \in Requests
    PROVE  Becomes(r)
BY DEF AccountRows, Becomes

LEMMA NextRequest ==
    ASSUME AccountRows, [Next]_vars, NEW r \in Requests
    PROVE  Becomes(r)
<1>1. ASSUME request' = request PROVE Becomes(r)
  BY <1>1 DEF Becomes
<1>2. ASSUME NEW q \in Requests, End(q) PROVE Becomes(r)
  <2>1. Idle.op \in Plain /\ request' = [request EXCEPT ![q] = Idle]
    BY <1>2, IdleRow DEF End, Plain
  <2> QED
    BY <2>1, BecomesPlain
<1>3. ASSUME NEW q \in Requests, NEW op \in Revoking, RevokeAll(q, op) PROVE Becomes(r)
  <2>1. CASE q = r
    BY <1>3, <2>1 DEF Becomes
  <2>2. CASE q # r
    <3>1. request'[r] = request[r]
      BY <1>3, <2>2 DEF RevokeAll, AccountRows
    <3> QED
      BY <3>1 DEF Becomes
  <2> QED
    BY <2>1, <2>2
<1>4. ASSUME NEW q \in Requests, LogIn(q) PROVE Becomes(r)
  <2>1. ASSUME NEW password \in Passwords, BeginLogin(q, password)
        PROVE  Becomes(r)
    <3> DEFINE new == [Idle EXCEPT !.op = IF password = user.password THEN "login" ELSE "wrong",
                                   !.at = clock, !.user = user]
    <3>1. new.op \in Plain
      BY DEF Idle, Plain
    <3>2. request' = [request EXCEPT ![q] = new]
      BY <2>1 DEF BeginLogin
    <3> HIDE DEF new
    <3> QED
      BY <3>1, <3>2, BecomesPlain
  <2> QED
    BY <1>2, <1>4, <2>1 DEF LogIn, CommitWrong, CommitLogin
<1>5. ASSUME NEW q \in Requests, Resolve(q) PROVE Becomes(r)
  <2>1. ASSUME NEW op \in {"expire", "resolve", "identity", "manage"}, NEW to, Continue(q, op, to)
        PROVE  Becomes(r)
    <3> DEFINE new == [Idle EXCEPT !.op = op, !.to = to]
    <3>1. new.op \in Plain
      BY DEF Idle, Plain
    <3>2. request' = [request EXCEPT ![q] = new]
      BY <2>1 DEF Continue
    <3> HIDE DEF new
    <3> QED
      BY <3>1, <3>2, BecomesPlain
  <2>2. CASE BeginRevokeAll(q)
    BY <1>3, <2>2 DEF BeginRevokeAll, Revoking
  <2> QED
    BY <1>2, <1>5, <2>1, <2>2
       DEF Resolve, BeginExpire, BeginResolve, CommitExpire, CommitResolve, CommitRevokeAll, Leave
<1>6. ASSUME NEW q \in Requests, Administer(q) PROVE Becomes(r)
  <2>1. ASSUME NEW op \in {"password", "enable"}, NEW to, ReadUser(q, op, to)
        PROVE  Becomes(r)
    <3> DEFINE new == [Idle EXCEPT !.op = op, !.to = to, !.user = user]
    <3>1. new.op \in Plain
      BY DEF Idle, Plain
    <3>2. request' = [request EXCEPT ![q] = new]
      BY <2>1 DEF ReadUser
    <3> HIDE DEF new
    <3> QED
      BY <3>1, <3>2, BecomesPlain
  <2>2. CASE RevokeForPassword(q) \/ RevokeForDisable(q)
    BY <1>3, <2>2 DEF RevokeForPassword, RevokeForDisable, Revoking
  <2> QED
    BY <1>2, <1>6, <2>1, <2>2
       DEF Administer, BeginChange, BeginReset, CommitPassword, BeginEnable, CommitEnable
<1>7. ASSUME NEW q \in Requests, Manage(q) PROVE Becomes(r)
  <2>1. ASSUME NEW scope \in Scopes, NEW to \in Statuses, BeginMove(q, scope, to)
        PROVE  Becomes(r)
    <3>1. CASE q = r
      BY <2>1, <3>1 DEF Becomes
    <3>2. CASE q # r
      <4>1. request'[r] = request[r]
        BY <2>1, <3>2 DEF BeginMove, AccountRows
      <4> QED
        BY <4>1 DEF Becomes
    <3> QED
      BY <3>1, <3>2
  <2>2. ASSUME BeginTraining(q) PROVE Becomes(r)
    <3> DEFINE new == [Idle EXCEPT !.op = "train", !.standing = standing]
    <3>1. new.op \in Plain
      BY DEF Idle, Plain
    <3>2. request' = [request EXCEPT ![q] = new]
      BY <2>2 DEF BeginTraining
    <3> HIDE DEF new
    <3> QED
      BY <3>1, <3>2, BecomesPlain
  <2>3. CASE CommitMove(q) \/ CommitTraining(q)
    BY <1>2, <2>3 DEF CommitMove, CommitTraining
  <2> QED
    BY <1>7, <2>1, <2>2, <2>3, ManageSteps
<1>8. ASSUME \/ \E s \in Sessions : RevokeSession(s)
             \/ Enrol \/ DisableMembership \/ Tick
             \/ UNCHANGED vars
      PROVE  Becomes(r)
  BY <1>1, <1>8 DEF RevokeSession, Enrol, AddMembership, DisableMembership, Tick, vars
<1> QED
  BY <1>4, <1>5, <1>6, <1>7, <1>8 DEF Next

--------------------------------------------------------------------------------
(* Sessions                                                                *)

\* What the beginning of a login, of a move and of a publication leave alone.
LEMMA Frames ==
    ASSUME NEW r
    PROVE  /\ \A password : BeginLogin(r, password) => UNCHANGED <<session, standing, era, ended>>
           /\ CommitWrong(r) => UNCHANGED <<session, standing, era, ended>>
           /\ \A scope, to : BeginMove(r, scope, to) =>
                 UNCHANGED <<user, session, standing, era, ended, tries, overruns>>
           /\ BeginTraining(r) =>
                 UNCHANGED <<user, session, standing, era, ended, tries, overruns>>
           /\ CommitMove(r) => UNCHANGED <<user, session, era, ended, tries, overruns>>
           /\ CommitTraining(r) => UNCHANGED <<user, session, era, ended, tries, overruns>>
<1>1. \A password : BeginLogin(r, password) => UNCHANGED <<session, standing, era, ended>>
  BY DEF BeginLogin
<1>2. CommitWrong(r) => UNCHANGED <<session, standing, era, ended>>
  BY DEF CommitWrong
<1>3. \A scope, to : BeginMove(r, scope, to) =>
         UNCHANGED <<user, session, standing, era, ended, tries, overruns>>
  BY DEF BeginMove
<1>4. BeginTraining(r) => UNCHANGED <<user, session, standing, era, ended, tries, overruns>>
  BY DEF BeginTraining
<1>5. CommitMove(r) => UNCHANGED <<user, session, era, ended, tries, overruns>>
  BY DEF CommitMove
<1>6. CommitTraining(r) => UNCHANGED <<user, session, era, ended, tries, overruns>>
  BY DEF CommitTraining
<1> QED
  BY <1>1, <1>2, <1>3, <1>4, <1>5, <1>6

\* A request that is about to commit a revocation of all sessions dooms each that is
\* active from before its statement. No session is of an era that has not begun.
Doomed(r) ==
    /\ request[r].number <= era
    /\ \A s \in Sessions : session[s].status = "active" /\ session[s].era < request[r].number
                              => s \in request[r].doomed

EraInv ==
    /\ ended <= era
    /\ \A s \in Sessions : session[s].era <= era
    /\ \A r \in Requests : request[r].op \in Revoking => Doomed(r)
    /\ SessionsOfTheirEra

\* What a step does to sessions: it revokes all in a statement that is still to be
\* committed, it commits such a revocation, or at most it opens sessions and ends them.
Opened ==
    /\ era' = era /\ ended' = ended
    /\ \A s \in Sessions : \/ session'[s] = session[s]
                           \/ session'[s].era = session[s].era /\ session'[s].status # "active"
                           \/ session'[s].era = era

LEMMA NextSessions ==
    ASSUME AccountRows, [Next]_vars
    PROVE  \/ Opened /\ \A r \in Requests, op \in Revoking : ~RevokeAll(r, op)
           \/ \E r \in Requests, op \in Revoking : RevokeAll(r, op) /\ UNCHANGED <<session, ended>>
           \/ \E r \in Requests : /\ request[r].op \in Revoking /\ Revoked(r)
                                  /\ End(r) /\ era' = era
<1> DEFINE Goal ==
           \/ Opened /\ \A r \in Requests, op \in Revoking : ~RevokeAll(r, op)
           \/ \E r \in Requests, op \in Revoking : RevokeAll(r, op) /\ UNCHANGED <<session, ended>>
           \/ \E r \in Requests : /\ request[r].op \in Revoking /\ Revoked(r)
                                  /\ End(r) /\ era' = era
<1>1. ASSUME era' = era PROVE \A r \in Requests, op \in Revoking : ~RevokeAll(r, op)
  BY <1>1 DEF RevokeAll, AccountRows
<1>2. ASSUME UNCHANGED <<session, era, ended>> PROVE Goal
  BY <1>1, <1>2 DEF Opened
<1>3. ASSUME NEW r \in Requests, CommitPassword(r) \/ CommitRevokeAll(r) PROVE Goal
  BY <1>3 DEF CommitPassword, CommitRevokeAll, Revoking
<1>4. ASSUME NEW r \in Requests, CommitEnable(r) PROVE Goal
  BY <1>2, <1>4 DEF CommitEnable, Revoking
<1>5. ASSUME NEW r \in Requests, LogIn(r) PROVE Goal
  <2>1. ASSUME NEW t \in Sessions, CommitLogin(r, t) PROVE Goal
    BY <1>1, <2>1 DEF CommitLogin, Opened, AccountRows
  <2>2. ASSUME CommitWrong(r) \/ \E password \in Passwords : BeginLogin(r, password)
        PROVE  UNCHANGED <<session, era, ended>>
    BY <2>2, Frames
  <2> HIDE DEF Goal
  <2> QED
    BY <1>2, <1>5, <2>1, <2>2 DEF LogIn
<1>6. ASSUME NEW r \in Requests, Resolve(r) PROVE Goal
  <2>1. CASE CommitExpire(r)
    BY <1>1, <2>1 DEF CommitExpire, Opened, AccountRows, SessionRows
  <2>2. CASE BeginRevokeAll(r)
    BY <2>2 DEF BeginRevokeAll, Revoking
  <2> QED
    BY <1>2, <1>3, <1>6, <2>1, <2>2
       DEF Resolve, BeginExpire, BeginResolve, CommitResolve, LastSeen, Leave
<1>7. ASSUME NEW r \in Requests, Administer(r) PROVE Goal
  <2>1. CASE RevokeForPassword(r) \/ RevokeForDisable(r)
    BY <2>1 DEF RevokeForPassword, RevokeForDisable, Revoking
  <2> QED
    BY <1>2, <1>3, <1>4, <1>7, <2>1 DEF Administer, BeginChange, BeginReset, BeginEnable
<1>8. ASSUME NEW r \in Requests, Manage(r) PROVE Goal
  <2>1. UNCHANGED <<session, era, ended>>
    BY <1>8, ManageSteps, Frames
  <2> QED
    BY <1>2, <2>1
<1>9. ASSUME NEW t \in Sessions, RevokeSession(t) PROVE Goal
  BY <1>1, <1>9 DEF RevokeSession, Opened, AccountRows, SessionRows
<1>10. ASSUME Enrol \/ DisableMembership \/ Tick \/ UNCHANGED vars PROVE Goal
  BY <1>2, <1>10 DEF Enrol, AddMembership, DisableMembership, Tick, vars
<1> QED
  BY <1>5, <1>6, <1>7, <1>8, <1>9, <1>10 DEF Next

LEMMA NextEra ==
    ASSUME AccountRows, AccountRows', EraInv, [Next]_vars
    PROVE  EraInv'
<1>1. /\ era \in Nat /\ ended \in Nat /\ era' \in Nat /\ ended' \in Nat
      /\ \A s \in Sessions : session[s].era \in Nat /\ session'[s].era \in Nat
      /\ \A r \in Requests : request[r].number \in Nat /\ request'[r].number \in Nat
  BY DEF AccountRows, SessionRows, RequestRows
<1>2. ASSUME Opened, \A r \in Requests, op \in Revoking : ~RevokeAll(r, op) PROVE EraInv'
  <2>1. ASSUME NEW r \in Requests, request'[r].op \in Revoking PROVE request'[r] = request[r]
    <3>1. ~ \E scope \in Scopes, to \in Statuses : BeginMove(r, scope, to)
      <4> SUFFICES ASSUME NEW scope \in Scopes, NEW to \in Statuses, BeginMove(r, scope, to)
                   PROVE  FALSE
        OBVIOUS
      <4>1. request'[r] = [Idle EXCEPT !.op = "move", !.scope = scope, !.to = to,
                                       !.standing = standing]
        BY DEF BeginMove, AccountRows
      <4>2. request'[r].op = "move"
        BY <4>1 DEF Idle
      <4> QED
        BY <2>1, <4>2 DEF Revoking
    <3> QED
      BY <1>2, <2>1, <3>1, NextRequest DEF Becomes, Plain, Revoking
  <2>2. ASSUME NEW r \in Requests, request'[r].op \in Revoking PROVE Doomed(r)'
    <3>1. request'[r] = request[r] /\ Doomed(r)
      BY <2>1, <2>2 DEF EraInv
    <3> SUFFICES ASSUME NEW s \in Sessions, session'[s].status = "active",
                        session'[s].era < request'[r].number
                 PROVE  s \in request'[r].doomed
      BY <1>2, <3>1 DEF Doomed, Opened
    <3>2. session'[s] = session[s]
      BY <1>1, <1>2, <3>1 DEF Opened, Doomed
    <3> QED
      BY <3>1, <3>2 DEF Doomed
  <2>3. \A s \in Sessions : session'[s].era <= era'
    BY <1>1, <1>2 DEF Opened, EraInv
  <2>4. SessionsOfTheirEra'
    BY <1>1, <1>2 DEF Opened, EraInv, SessionsOfTheirEra
  <2> QED
    BY <1>2, <2>2, <2>3, <2>4 DEF EraInv, Opened
<1>3. ASSUME NEW r \in Requests, NEW op \in Revoking, RevokeAll(r, op), UNCHANGED <<session, ended>>
      PROVE  EraInv'
  <2>1. era' = era + 1 /\ \A x \in Requests \ {r} : request'[x] = request[x]
    BY <1>3 DEF RevokeAll, AccountRows
  <2>2. /\ request'[r].number = era + 1
        /\ request'[r].doomed = {s \in Sessions : session[s].status = "active"}
    <3>1. request'[r] = RevokingRow(r, op)
      BY <1>3 DEF RevokeAll, RevokingRow, AccountRows
    <3>2. request[r] \in RequestRows
      BY DEF AccountRows
    <3> QED
      BY <3>1, <3>2 DEF RevokingRow, RequestRows
  <2>3. Doomed(r)'
    BY <1>1, <1>3, <2>1, <2>2 DEF Doomed
  <2>4. ASSUME NEW x \in Requests \ {r}, request'[x].op \in Revoking PROVE Doomed(x)'
    BY <1>1, <1>3, <2>1, <2>4 DEF Doomed, EraInv
  <2>5. ended' <= era' /\ SessionsOfTheirEra' /\ \A s \in Sessions : session'[s].era <= era'
    BY <1>1, <1>3, <2>1 DEF EraInv, SessionsOfTheirEra
  <2> QED
    BY <2>3, <2>4, <2>5 DEF EraInv
<1>4. ASSUME NEW r \in Requests, request[r].op \in Revoking, Revoked(r), End(r), era' = era
      PROVE  EraInv'
  <2>1. /\ \A x \in Requests : request'[x].op \in Revoking => request'[x] = request[x]
        /\ Doomed(r)
    BY <1>4, IdleRow DEF End, AccountRows, EraInv, Revoking
  <2>2. \A s \in Sessions : /\ session'[s].era = session[s].era
                            /\ session'[s].status = "active" =>
                                  session[s].status = "active" /\ s \notin request[r].doomed
    BY <1>4 DEF Revoked, AccountRows, SessionRows
  <2>3. ended' = IF request[r].number > ended THEN request[r].number ELSE ended
    BY <1>4 DEF Revoked
  <2>4. ended' <= era' /\ \A s \in Sessions : session'[s].era <= era'
    BY <1>1, <1>4, <2>1, <2>2, <2>3 DEF EraInv, Doomed
  <2>5. SessionsOfTheirEra'
    BY <1>1, <2>1, <2>2, <2>3 DEF EraInv, Doomed, SessionsOfTheirEra
  <2>6. ASSUME NEW x \in Requests, request'[x].op \in Revoking PROVE Doomed(x)'
    BY <1>4, <2>1, <2>2, <2>6 DEF Doomed, EraInv
  <2> QED
    BY <2>4, <2>5, <2>6 DEF EraInv
<1> QED
  BY <1>2, <1>3, <1>4, NextSessions

\* For any number of sessions and of requests that overlap: once a revocation of all
\* sessions is committed, what is active was opened after its statement.
THEOREM SessionsOfTheirEraHolds == Spec => []SessionsOfTheirEra
<1>1. Init => EraInv
  BY IdleRow DEF Init, NoSession, EraInv, SessionsOfTheirEra, Revoking
<1>2. /\ AccountRows /\ Targeted /\ EraInv /\ [Next]_vars => AccountRows' /\ Targeted'
      /\ AccountRows /\ AccountRows' /\ EraInv /\ [Next]_vars => EraInv'
  BY NextTyped, NextEra
<1>3. EraInv => SessionsOfTheirEra
  BY DEF EraInv
<1> QED
  BY InitTyped, <1>1, <1>2, <1>3, PTL DEF Spec

--------------------------------------------------------------------------------
(* Transitions                                                             *)

\* A request that is about to move a status has found that it may.
Found(r) ==
    LET is == request[r].standing
        scope == request[r].scope
        to == request[r].to
    IN
    /\ scope \in Scopes
    /\ Allowed(scope, is[scope], to)
    /\ scope = "store" /\ to = "active" => is["tenant"] = "active"
    /\ scope = "role" => is["member"] \in {"active", "none"}

\* No membership and no role is archived.
MovesFound ==
    /\ \A r \in Requests : request[r].op = "move" => Found(r)
    /\ standing["member"] # "archived" /\ standing["role"] # "archived"

\* Nothing but BeginMove begins a move, and it looks.
LEMMA NextFound ==
    ASSUME AccountRows, MovesFound, [Next]_vars, NEW r \in Requests, request'[r].op = "move"
    PROVE  Found(r)'
<1>1. CASE request'[r] = request[r]
  BY <1>1 DEF MovesFound, Found
<1>2. ASSUME NEW scope \in Scopes, NEW to \in Statuses, BeginMove(r, scope, to)
      PROVE  Found(r)'
  <2>1. request'[r] = [Idle EXCEPT !.op = "move", !.scope = scope, !.to = to,
                                   !.standing = standing]
    BY <1>2 DEF BeginMove, AccountRows
  <2>2. /\ request'[r].scope = scope /\ request'[r].to = to
        /\ request'[r].standing = standing
    BY <2>1 DEF Idle
  <2> QED
    BY <1>2, <2>2 DEF BeginMove, Fits, Found
<1>3. ASSUME NEW op \in Revoking, RevokeAll(r, op) PROVE FALSE
  <2>1. request'[r].op = op
    BY <1>3 DEF RevokeAll, AccountRows, RequestRows
  <2> QED
    BY <2>1 DEF Revoking
<1> QED
  BY <1>1, <1>2, <1>3, NextRequest DEF Becomes, Plain

\* What MovesAreLegal says of one step.
LegalMove ==
    \A x \in Scopes : standing'[x] # standing[x] =>
       /\ standing[x] = "archived" => Outdated(x) \/ (x = "store" /\ Trained)
       /\ x = "store" /\ standing'[x] = "active" =>
             standing["tenant"] = "active" \/ Outdated("tenant") \/ Trained
       /\ x = "member" /\ standing[x] = "revoked" =>
             Outdated(x) \/ (standing'[x] = "suspended" /\ Operated)
       /\ x = "role" => standing["member"] \in {"active", "none"} \/ Outdated("member")

\* What a commit writes was allowed by what it had read. The operators' commands move
\* memberships only, and a training publication the store.
LEMMA NextLegal ==
    ASSUME AccountRows, MovesFound, [Next]_vars
    PROVE  LegalMove /\ standing'["member"] # "archived" /\ standing'["role"] # "archived"
<1> DEFINE Goal == LegalMove /\ standing'["member"] # "archived" /\ standing'["role"] # "archived"
<1>1. ASSUME NEW r \in Requests, CommitMove(r) PROVE Goal
  <2> DEFINE is == request[r].standing
             scope == request[r].scope
             new == {x \in {scope, "member"} : scope = "role" /\ is[x] = "none"}
  <2>1. request[r].op = "move" /\ request'[r].op = "none" /\ Found(r)
    BY <1>1 DEF CommitMove, End, AccountRows, Idle, MovesFound
  <2>2. \A x \in Scopes : Outdated(x) \/ is[x] = standing[x]
    BY <2>1 DEF Outdated
  <2>3. ASSUME NEW x \in Scopes, standing'[x] # standing[x]
        PROVE  \/ x = scope /\ standing'[x] = request[r].to
               \/ x = "member" /\ standing'[x] = "active" /\ scope = "role" /\ is[x] = "none"
    BY <1>1, <2>3 DEF CommitMove
  <2>4. ASSUME NEW x \in Scopes, standing'[x] # standing[x]
        PROVE  /\ standing[x] = "archived" => Outdated(x)
               /\ x = "store" /\ standing'[x] = "active" =>
                     standing["tenant"] = "active" \/ Outdated("tenant")
               /\ x = "member" /\ standing[x] = "revoked" => Outdated(x)
               /\ x = "role" => standing["member"] \in {"active", "none"} \/ Outdated("member")
    <3>1. CASE x = scope /\ standing'[x] = request[r].to
      BY <2>1, <2>2, <3>1 DEF Found, Allowed, Scopes
    <3>2. CASE x = "member" /\ scope = "role" /\ is[x] = "none"
      BY <2>1, <2>2, <3>2 DEF Scopes
    <3> QED
      BY <2>3, <2>4, <3>1, <3>2
  <2>5. LegalMove
    BY <2>4 DEF LegalMove
  <2>6. ASSUME NEW x \in {"member", "role"} PROVE standing'[x] # "archived"
    <3>1. x \in Scopes
      BY DEF Scopes
    <3>2. CASE standing'[x] = standing[x]
      BY <3>2 DEF MovesFound
    <3>3. CASE x = scope /\ standing'[x] = request[r].to
      BY <2>1, <3>3 DEF Found, Allowed
    <3> QED
      BY <2>3, <3>1, <3>2, <3>3
  <2> QED
    BY <2>5, <2>6
<1>2. ASSUME NEW r \in Requests, CommitTraining(r) PROVE Goal
  <2>1. Trained
    BY <1>2 DEF CommitTraining, End, AccountRows, Idle, Trained
  <2>2. \A x \in Scopes : standing'[x] # standing[x] => x = "store"
    BY <1>2 DEF CommitTraining, AccountRows
  <2> QED
    BY <2>1, <2>2 DEF LegalMove, MovesFound, Scopes
<1>3. ASSUME UNCHANGED standing PROVE Goal
  BY <1>3 DEF LegalMove, MovesFound
<1>4. ASSUME NEW r \in Requests, LogIn(r) PROVE Goal
  <2>1. ASSUME NEW s \in Sessions, CommitLogin(r, s) PROVE UNCHANGED standing
    BY <2>1 DEF CommitLogin
  <2>2. UNCHANGED standing
    BY <1>4, <2>1, Frames DEF LogIn
  <2> QED
    BY <1>3, <2>2
<1>5. ASSUME NEW r \in Requests, Resolve(r) PROVE Goal
  BY <1>3, <1>5
     DEF Resolve, BeginExpire, BeginResolve, CommitExpire, CommitResolve, BeginRevokeAll,
         CommitRevokeAll, Leave
<1>6. ASSUME NEW r \in Requests, Administer(r) PROVE Goal
  BY <1>3, <1>6
     DEF Administer, BeginChange, BeginReset, RevokeForPassword, CommitPassword, BeginEnable,
         RevokeForDisable, CommitEnable
<1>7. ASSUME NEW r \in Requests, Manage(r) PROVE Goal
  <2>1. ASSUME \/ \E scope \in Scopes, to \in Statuses : BeginMove(r, scope, to)
               \/ BeginTraining(r)
        PROVE  UNCHANGED standing
    BY <2>1, Frames
  <2> HIDE DEF Goal
  <2> QED
    BY <1>1, <1>2, <1>3, <1>7, <2>1, ManageSteps
<1>8. ASSUME Enrol PROVE Goal
  <2>1. PICK to \in {"invited", "active"}, role \in {"none", "active"} : AddMembership(to, role)
    BY <1>8 DEF Enrol
  <2>2. /\ standing["member"] = "none"
        /\ standing' = [standing EXCEPT !["member"] = to, !["role"] = role]
    BY <2>1 DEF AddMembership
  <2>3. \A x \in Scopes : standing'[x] = IF x = "role" THEN role
                                         ELSE IF x = "member" THEN to ELSE standing[x]
    BY <2>2 DEF AccountRows
  <2> QED
    BY <2>2, <2>3 DEF LegalMove, MovesFound, Scopes
<1>9. ASSUME DisableMembership PROVE Goal
  <2>1. \A x \in Scopes : standing'[x] = IF x = "member" THEN "suspended" ELSE standing[x]
    BY <1>9 DEF DisableMembership, AccountRows
  <2>2. Operated
    BY <1>9 DEF DisableMembership, Operated
  <2> QED
    BY <2>1, <2>2 DEF LegalMove, MovesFound, Scopes
<1>10. ASSUME (\E s \in Sessions : RevokeSession(s)) \/ Tick \/ UNCHANGED vars PROVE Goal
  BY <1>3, <1>10 DEF RevokeSession, Tick, vars
<1> QED
  BY <1>4, <1>5, <1>6, <1>7, <1>8, <1>9, <1>10 DEF Next

\* For any number of requests that overlap: a status that moves against the rules was
\* moved by another request since the one that moves it had read it, or it is a store
\* that a training publication puts into force, or a revoked member whom an operator
\* suspends.
THEOREM MovesAreLegalHolds == Spec => MovesAreLegal
<1>1. Init => MovesFound
  BY IdleRow DEF Init, MovesFound, Scopes
<1>2. AccountRows /\ Targeted /\ MovesFound /\ [Next]_vars => AccountRows' /\ Targeted' /\ MovesFound'
  BY NextTyped, NextFound, NextLegal DEF MovesFound
<1>3. AccountRows /\ MovesFound /\ [Next]_vars => [LegalMove]_vars
  BY NextLegal
<1>4. [][LegalMove]_vars <=> MovesAreLegal
  BY DEF LegalMove, MovesAreLegal
<1> QED
  BY InitTyped, <1>1, <1>2, <1>3, <1>4, PTL DEF Spec

--------------------------------------------------------------------------------
(* The lock                                                                *)

\* n tries are weighed as twice n, so that the bound is a product.
Product(n) == n * (n + 1)
Limit == Product(MaxFailures) + 2

\* How often the count n can still be raised before the try that locks.
TriesLeft(n) == IF n + 1 < MaxFailures THEN MaxFailures - 1 - n ELSE 0

\* Twice the tries that may still come before the lock when a try is under way, if a is
\* the room of the identity's count and b the room of the count that the try has read.
Ahead(a, b) == IF b <= a THEN Product(a) + 2 * b + 2 ELSE Product(b) + 2 * a + 2

\* A wrong password is about to be counted, on top of what the request has read.
Trying(r) == request[r].op = "wrong"
Read(r) == TriesLeft(request[r].user.failures)
Known == TriesLeft(user.failures)

\* However the tries under way come out, with those that may still follow they stay
\* within the limit.
TriesInv ==
    /\ 2 * tries <= Limit
    /\ (\A r \in Requests : ~Trying(r)) => 2 * tries + Ahead(Known, Known) + 2 <= Limit
    /\ \A r, s \in Requests : r # s /\ Trying(r) =>
          IF Trying(s)
          THEN Read(r) > 0 => 2 * tries + Ahead(Read(r) - 1, Read(s)) <= Limit
          ELSE 2 * tries + Ahead(Read(r), Known) <= Limit

LEMMA ProductFacts ==
    /\ Product(0) = 0
    /\ \A n \in Nat : Product(n) \in Nat /\ Product(n + 1) = Product(n) + 2 * n + 2
    /\ \A m, n \in Nat : m <= n => Product(m) <= Product(n)
<1>1. \A m, n \in Nat : m <= n => m * m <= n * n
  <2> SUFFICES ASSUME NEW m \in Nat, NEW n \in Nat, m <= n PROVE m * m <= n * n
    OBVIOUS
  <2>1. PICK d \in Nat : n = m + d
    BY n - m \in Nat /\ n = m + (n - m)
  <2>2. n * n = m * m + 2 * (m * d) + d * d /\ m * d \in Nat /\ d * d \in Nat /\ m * m \in Nat
    BY <2>1
  <2> QED
    BY <2>2
<1>2. \A n \in Nat : n * n \in Nat /\ Product(n) = n * n + n /\ Product(n) \in Nat
  BY DEF Product
<1>3. Product(0) = 0
  BY DEF Product
<1>4. ASSUME NEW n \in Nat PROVE Product(n + 1) = Product(n) + 2 * n + 2
  BY DEF Product
<1>5. ASSUME NEW m \in Nat, NEW n \in Nat, m <= n PROVE Product(m) <= Product(n)
  <2>1. m * m <= n * n /\ m * m \in Nat /\ n * n \in Nat
    BY <1>1, <1>2, <1>5
  <2>2. Product(m) = m * m + m /\ Product(n) = n * n + n
    BY <1>2
  <2> DEFINE k == m * m
             l == n * n
  <2>3. k <= l /\ k \in Nat /\ l \in Nat /\ Product(m) = k + m /\ Product(n) = l + n
    BY <2>1, <2>2
  <2> HIDE DEF k, l
  <2> QED
    BY <1>5, <2>3
<1> QED
  BY <1>2, <1>3, <1>4, <1>5

LEMMA RoomFacts ==
    ASSUME NEW n \in Nat
    PROVE  /\ TriesLeft(n) \in Nat /\ TriesLeft(n) <= MaxFailures - 1
           /\ n + 1 < MaxFailures => TriesLeft(n) > 0 /\ TriesLeft(n + 1) = TriesLeft(n) - 1
           /\ n + 1 >= MaxFailures => TriesLeft(n) = 0
BY StoreAccessAssumption DEF TriesLeft, StoreAccessAssumption

LEMMA AheadFacts ==
    ASSUME NEW a \in Nat, NEW b \in Nat
    PROVE  /\ Ahead(a, b) \in Nat /\ Ahead(a, b) >= 2
           /\ Ahead(a, b) = Ahead(b, a)
           /\ a > 0 => /\ Ahead(a - 1, b) + 2 <= Ahead(a, b)
                       /\ Ahead(a - 1, a - 1) + 2 <= Ahead(a, b)
           /\ a <= MaxFailures - 1 /\ b <= MaxFailures - 1 => Ahead(a, b) + 2 <= Limit
<1> DEFINE p == Product(a)
           q == Product(b)
<1>1. p \in Nat /\ q \in Nat /\ (a <= b => p <= q) /\ (b <= a => q <= p)
  BY ProductFacts
<1>2. Ahead(a, b) = IF b <= a THEN p + 2 * b + 2 ELSE q + 2 * a + 2
  BY DEF Ahead
<1>3. Ahead(b, a) = IF a <= b THEN q + 2 * a + 2 ELSE p + 2 * b + 2
  BY DEF Ahead
<1>4. a = b => p = q
  OBVIOUS
<1>5. ASSUME a > 0 PROVE /\ Ahead(a - 1, b) + 2 <= Ahead(a, b)
                         /\ Ahead(a - 1, a - 1) + 2 <= Ahead(a, b)
  <2> DEFINE o == Product(a - 1)
  <2>1. a - 1 \in Nat /\ (a - 1) + 1 = a
    BY <1>5
  <2>2. o \in Nat /\ Product((a - 1) + 1) = o + 2 * (a - 1) + 2
    BY <2>1, ProductFacts
  <2>3. p = o + 2 * a
    BY <2>1, <2>2
  <2>4. b <= a - 1 => q <= o
    BY <2>1, ProductFacts
  <2>5. Ahead(a - 1, b) = IF b <= a - 1 THEN o + 2 * b + 2 ELSE q + 2 * (a - 1) + 2
    BY DEF Ahead
  <2>6. Ahead(a - 1, a - 1) = o + 2 * (a - 1) + 2
    BY <2>1 DEF Ahead
  <2> HIDE DEF o, p, q
  <2> QED
    BY <1>1, <1>2, <1>4, <1>5, <2>2, <2>3, <2>4, <2>5, <2>6
<1>6. ASSUME a <= MaxFailures - 1, b <= MaxFailures - 1 PROVE Ahead(a, b) + 2 <= Limit
  <2> DEFINE m == MaxFailures - 1
             o == Product(m)
  <2>1. m \in Nat /\ MaxFailures = m + 1
    BY StoreAccessAssumption DEF StoreAccessAssumption
  <2> HIDE DEF m
  <2>2. a <= m /\ b <= m
    BY <1>6 DEF m
  <2>3. p <= o /\ q <= o /\ o \in Nat /\ Product(m + 1) = o + 2 * m + 2
    BY <2>1, <2>2, ProductFacts
  <2>4. Limit = o + 2 * m + 4
    BY <2>1, <2>3 DEF Limit
  <2> HIDE DEF o, p, q
  <2> QED
    BY <1>1, <1>2, <2>1, <2>2, <2>3, <2>4
<1> HIDE DEF p, q
<1> QED
  BY <1>1, <1>2, <1>3, <1>4, <1>5, <1>6

LEMMA LimitFacts == Limit \in Nat /\ Limit >= 4
<1>1. MaxFailures \in Nat /\ 1 <= MaxFailures /\ Product(0 + 1) = Product(0) + 2 * 0 + 2
  BY ProductFacts, StoreAccessAssumption DEF StoreAccessAssumption
<1>2. Product(1) = 2
  BY DEF Product
<1>3. Product(1) <= Product(MaxFailures) /\ Product(MaxFailures) \in Nat
  BY <1>1, ProductFacts
<1> QED
  BY <1>2, <1>3 DEF Limit

\* What a step means for the lock: nothing, a try begins, a try is counted, or the tries
\* are forgotten. A request that the step is not about is as it was.
Same(r) == (Trying(r)' <=> Trying(r)) /\ (Trying(r) => Read(r)' = Read(r))

Begun(r) ==
    /\ ~Trying(r) /\ Trying(r)' /\ Read(r)' = Known
    /\ tries' = tries + 1 /\ Known' = Known /\ overruns' = overruns

Counted(r) ==
    /\ Trying(r) /\ ~Trying(r)'
    /\ IF Read(r) > 0
       THEN /\ tries' = tries /\ Known' = Read(r) - 1
            /\ \/ Read(r) = Known /\ overruns' = overruns
               \/ overruns' = overruns + 1
       ELSE tries' = 0

Forgotten(r) == ~Trying(r) /\ ~Trying(r)' /\ tries' = 0

LEMMA NextTries ==
    ASSUME AccountRows, AccountRows', [Next]_vars
    PROVE  \/ /\ tries' = tries /\ overruns' = overruns /\ Known' = Known
              /\ \A r \in Requests : Same(r)
           \/ \E r \in Requests : /\ Begun(r) \/ Counted(r) \/ Forgotten(r)
                                  /\ \A x \in Requests \ {r} : Same(x)
<1> DEFINE Quiet == /\ tries' = tries /\ overruns' = overruns /\ Known' = Known
                    /\ \A r \in Requests : Same(r)
           Only(r) == \A x \in Requests \ {r} : request'[x] = request[x]
           Goal == \/ Quiet
                   \/ \E r \in Requests : /\ Begun(r) \/ Counted(r) \/ Forgotten(r)
                                          /\ \A x \in Requests \ {r} : Same(x)
<1>1. ASSUME NEW x, request'[x] = request[x] PROVE Same(x)
  BY <1>1 DEF Same, Trying, Read
<1>2. ASSUME NEW r \in Requests, NEW q, request' = [request EXCEPT ![r] = q]
      PROVE  request'[r] = q /\ \A x \in Requests \ {r} : request'[x] = request[x] /\ Same(x)
  BY <1>1, <1>2 DEF AccountRows
<1>3. ASSUME NEW r \in Requests, NEW q, request' = [request EXCEPT ![r] = q],
             ~Trying(r), q.op # "wrong", tries' = tries, overruns' = overruns,
             user'.failures = user.failures
      PROVE  Quiet
  BY <1>2, <1>3 DEF Same, Trying, Known
<1>4. ASSUME request' = request, tries' = tries, overruns' = overruns, user' = user PROVE Quiet
  BY <1>1, <1>4 DEF Known
<1>5. ASSUME NEW r \in Requests, ~Trying(r), request' = [request EXCEPT ![r] = Idle], tries' = 0
      PROVE  Goal
  <2>1. Forgotten(r)
    BY <1>2, <1>5, IdleRow DEF Forgotten, Trying
  <2> QED
    BY <1>2, <1>5, <2>1
<1>13. ASSUME NEW r \in Requests, NEW op \in Revoking, RevokeAll(r, op), ~Trying(r),
              UNCHANGED <<user, tries, overruns>>
       PROVE  Goal
  <2> DEFINE q == RevokingRow(r, op)
  <2>1. request' = [request EXCEPT ![r] = q]
    BY <1>13 DEF RevokeAll, RevokingRow, AccountRows
  <2>2. q.op = op /\ op # "wrong"
    BY DEF RevokingRow, AccountRows, RequestRows, Revoking
  <2>3. tries' = tries /\ overruns' = overruns /\ user'.failures = user.failures
    BY <1>13
  <2> HIDE DEF q
  <2> QED
    BY <1>3, <1>13, <2>1, <2>2, <2>3
<1>6. ASSUME NEW r \in Requests, NEW password \in Passwords, BeginLogin(r, password) PROVE Goal
  <2> DEFINE q == [Idle EXCEPT !.op = IF password = user.password THEN "login" ELSE "wrong",
                               !.at = clock, !.user = user]
  <2>1. q.op = (IF password = user.password THEN "login" ELSE "wrong") /\ q.user = user
    BY DEF Idle
  <2>2. /\ request' = [request EXCEPT ![r] = q] /\ ~Trying(r) /\ user' = user
        /\ tries' = IF password = user.password THEN tries ELSE tries + 1
        /\ overruns' = overruns
    BY <1>6 DEF BeginLogin, Trying
  <2> HIDE DEF q
  <2>3. CASE password = user.password
    BY <1>3, <2>1, <2>2, <2>3
  <2>4. CASE password # user.password
    <3>1. Begun(r)
      BY <1>2, <2>1, <2>2, <2>4 DEF Begun, Trying, Read, Known
    <3> QED
      BY <1>2, <2>2, <3>1
  <2> QED
    BY <2>3, <2>4
<1>7. ASSUME NEW r \in Requests, CommitWrong(r) PROVE Goal
  <2> DEFINE n == request[r].user.failures
  <2>1. n \in Nat /\ user'.failures = n + 1
    BY <1>7 DEF CommitWrong, AccountRows, Users, RequestRows
  <2>2. /\ tries' = IF n + 1 >= MaxFailures THEN 0 ELSE tries
        /\ n + 1 < MaxFailures => overruns' = IF user.failures # n THEN overruns + 1 ELSE overruns
    <3>1. n + 1 < MaxFailures => ~TooMany(n + 1)
      BY <2>1, StoreAccessAssumption DEF TooMany, StoreAccessAssumption
    <3> QED
      BY <1>7, <3>1 DEF CommitWrong, TooMany
  <2>3. request' = [request EXCEPT ![r] = Idle] /\ Trying(r)
    BY <1>7 DEF CommitWrong, End, Trying
  <2>4. ~Trying(r)'
    BY <1>2, <2>3, IdleRow DEF Trying
  <2>5. /\ Known' = TriesLeft(n + 1) /\ Read(r) = TriesLeft(n)
        /\ user.failures = n => Read(r) = Known
    BY <2>1 DEF Known, Read
  <2> HIDE DEF n
  <2>6. Counted(r)
    BY <2>1, <2>2, <2>3, <2>4, <2>5, RoomFacts, StoreAccessAssumption DEF Counted, StoreAccessAssumption
  <2> QED
    BY <1>2, <2>3, <2>6
<1>8. ASSUME NEW r \in Requests, LogIn(r) PROVE Goal
  <2>1. ASSUME NEW s \in Sessions, CommitLogin(r, s) PROVE Goal
    BY <1>5, <2>1 DEF CommitLogin, End, Trying
  <2> QED
    BY <1>6, <1>7, <1>8, <2>1 DEF LogIn
<1>9. ASSUME NEW r \in Requests, Resolve(r) PROVE Goal
  <2>1. tries' = tries /\ overruns' = overruns /\ user' = user /\ ~Trying(r)
    BY <1>9
       DEF Resolve, BeginExpire, BeginResolve, CommitExpire, CommitResolve, BeginRevokeAll,
           CommitRevokeAll, Leave, Trying
  <2>2. \/ request' = [request EXCEPT ![r] = Idle]
        \/ RevokeAll(r, "revoke")
        \/ \E op \in {"expire", "resolve", "identity", "manage"} : \E to : Continue(r, op, to)
    BY <1>9
       DEF Resolve, BeginExpire, BeginResolve, CommitExpire, CommitResolve, BeginRevokeAll,
           CommitRevokeAll, Leave, End
  <2>3. \A op, to : [Idle EXCEPT !.op = op, !.to = to].op = op
    BY DEF Idle
  <2>4. CASE request' = [request EXCEPT ![r] = Idle]
    BY <1>3, <2>1, <2>4, IdleRow
  <2>5. ASSUME NEW op \in {"expire", "resolve", "identity", "manage"}, NEW to, Continue(r, op, to)
        PROVE  Goal
    <3> DEFINE q == [Idle EXCEPT !.op = op, !.to = to]
    <3>1. request' = [request EXCEPT ![r] = q] /\ q.op # "wrong"
      BY <2>3, <2>5 DEF Continue
    <3> HIDE DEF q
    <3> QED
      BY <1>3, <2>1, <3>1
  <2>6. CASE RevokeAll(r, "revoke")
    BY <1>13, <2>1, <2>6 DEF Revoking
  <2> QED
    BY <2>2, <2>4, <2>5, <2>6
<1>10. ASSUME NEW r \in Requests, Administer(r) PROVE Goal
  <2>1. ASSUME CommitPassword(r) PROVE Goal
    BY <1>5, <2>1 DEF CommitPassword, End, Trying
  <2>2. ASSUME CommitEnable(r) PROVE Goal
    <3>1. request' = [request EXCEPT ![r] = Idle] /\ ~Trying(r) /\ tries' = tries
          /\ overruns' = overruns
      BY <2>2 DEF CommitEnable, End, Trying
    <3>2. user'.failures = user.failures
      BY <2>2 DEF CommitEnable, AccountRows, Users
    <3> QED
      BY <1>3, <3>1, <3>2, IdleRow
  <2>3. ASSUME NEW op \in {"password", "enable"}, NEW to, ReadUser(r, op, to), ~Trying(r),
               UNCHANGED <<user, tries, overruns>>
        PROVE  Goal
    <3> DEFINE q == [Idle EXCEPT !.op = op, !.to = to, !.user = user]
    <3>1. request' = [request EXCEPT ![r] = q] /\ q.op # "wrong"
      BY <2>3 DEF ReadUser, Idle
    <3> HIDE DEF q
    <3> QED
      BY <1>3, <2>3, <3>1
  <2>4. CASE RevokeForPassword(r) \/ RevokeForDisable(r)
    BY <1>13, <2>4 DEF RevokeForPassword, RevokeForDisable, Revoking, Trying
  <2>5. ASSUME NEW password \in Passwords, BeginChange(r, password) \/ BeginReset(r, password)
        PROVE  Goal
    BY <2>3, <2>5 DEF BeginChange, BeginReset, Trying
  <2>6. ASSUME NEW to \in {"active", "disabled"}, BeginEnable(r, to) PROVE Goal
    BY <2>3, <2>6 DEF BeginEnable, Trying
  <2> HIDE DEF Goal
  <2> QED
    BY <1>10, <2>1, <2>2, <2>4, <2>5, <2>6 DEF Administer
<1>11. ASSUME NEW r \in Requests, Manage(r) PROVE Goal
  <2>1. tries' = tries /\ overruns' = overruns /\ user' = user
    BY <1>11, ManageSteps, Frames
  <2>2. ASSUME CommitMove(r) \/ CommitTraining(r) PROVE Goal
    <3>1. request' = [request EXCEPT ![r] = Idle] /\ ~Trying(r)
      BY <2>2 DEF CommitMove, CommitTraining, End, Trying
    <3> QED
      BY <1>3, <2>1, <3>1, IdleRow
  <2>3. ASSUME NEW scope \in Scopes, NEW to, BeginMove(r, scope, to) PROVE Goal
    <3> DEFINE q == [Idle EXCEPT !.op = "move", !.scope = scope, !.to = to, !.standing = standing]
    <3>1. q.op # "wrong"
      BY DEF Idle
    <3>2. request' = [request EXCEPT ![r] = q] /\ ~Trying(r)
      BY <2>3 DEF BeginMove, Trying
    <3> HIDE DEF q
    <3>3. user'.failures = user.failures
      BY <2>1
    <3> QED
      BY <1>3, <2>1, <3>1, <3>2, <3>3
  <2>4. ASSUME BeginTraining(r) PROVE Goal
    <3> DEFINE q == [Idle EXCEPT !.op = "train", !.standing = standing]
    <3>1. q.op # "wrong"
      BY DEF Idle
    <3>2. request' = [request EXCEPT ![r] = q] /\ ~Trying(r)
      BY <2>4 DEF BeginTraining, Trying
    <3> HIDE DEF q
    <3>3. user'.failures = user.failures
      BY <2>1
    <3> QED
      BY <1>3, <2>1, <3>1, <3>2, <3>3
  <2> HIDE DEF Goal
  <2> QED
    BY <1>11, <2>2, <2>3, <2>4, ManageSteps
<1>12. ASSUME \/ \E s \in Sessions : RevokeSession(s)
              \/ Enrol \/ DisableMembership \/ Tick
              \/ UNCHANGED vars
       PROVE  Goal
  BY <1>4, <1>12
     DEF RevokeSession, Enrol, AddMembership, DisableMembership, Tick, vars
<1> QED
  BY <1>8, <1>9, <1>10, <1>11, <1>12 DEF Next

LEMMA Two ==
    ASSUME IsFiniteSet(Requests), Cardinality(Requests) = 2, NEW r \in Requests
    PROVE  \E s \in Requests : s # r /\ Requests = {r, s}
<1>1. Cardinality(Requests \ {r}) = 1 /\ IsFiniteSet(Requests \ {r})
  BY FS_RemoveElement
<1>2. PICK s : Requests \ {r} = {s}
  BY <1>1, FS_Singleton
<1> QED
  BY <1>2

\* TriesInv for two requests, by what each has read.
LEMMA TriesOfTwo ==
    ASSUME NEW r \in Requests, NEW s \in Requests, r # s, Requests = {r, s}
    PROVE  TriesInv <=>
             /\ 2 * tries <= Limit
             /\ ~Trying(r) /\ ~Trying(s) => 2 * tries + Ahead(Known, Known) + 2 <= Limit
             /\ Trying(r) /\ ~Trying(s) => 2 * tries + Ahead(Read(r), Known) <= Limit
             /\ ~Trying(r) /\ Trying(s) => 2 * tries + Ahead(Read(s), Known) <= Limit
             /\ Trying(r) /\ Trying(s) =>
                  /\ Read(r) > 0 => 2 * tries + Ahead(Read(r) - 1, Read(s)) <= Limit
                  /\ Read(s) > 0 => 2 * tries + Ahead(Read(s) - 1, Read(r)) <= Limit
<1>1. \A x \in Requests : x = r \/ x = s
  OBVIOUS
<1> QED
  BY <1>1 DEF TriesInv

LEMMA TriesInvStep ==
    ASSUME IsFiniteSet(Requests), Cardinality(Requests) = 2, AccountRows, AccountRows', TriesInv, [Next]_vars
    PROVE  TriesInv'
<1> DEFINE Small(n) == n \in Nat /\ n <= MaxFailures - 1
<1>1. /\ Small(Known) /\ Small(Known') /\ tries \in Nat /\ tries' \in Nat
      /\ \A r \in Requests : Small(Read(r)) /\ Small(Read(r)')
  BY RoomFacts DEF AccountRows, Users, RequestRows, Known, Read
<1>2. ASSUME tries' = tries, Known' = Known, \A r \in Requests : Same(r) PROVE TriesInv'
  BY <1>2 DEF TriesInv, Same
<1>3. ASSUME NEW r \in Requests, Begun(r) \/ Counted(r) \/ Forgotten(r),
             \A x \in Requests \ {r} : Same(x)
      PROVE  TriesInv'
  <2>1. PICK s \in Requests : s # r /\ Requests = {r, s}
    BY Two
  <2>2. Same(s) /\ Requests' = {r, s} /\ r' = r /\ s' = s
    BY <1>3, <2>1
  <2> DEFINE Parts ==
             /\ 2 * tries <= Limit
             /\ ~Trying(r) /\ ~Trying(s) => 2 * tries + Ahead(Known, Known) + 2 <= Limit
             /\ Trying(r) /\ ~Trying(s) => 2 * tries + Ahead(Read(r), Known) <= Limit
             /\ ~Trying(r) /\ Trying(s) => 2 * tries + Ahead(Read(s), Known) <= Limit
             /\ Trying(r) /\ Trying(s) =>
                  /\ Read(r) > 0 => 2 * tries + Ahead(Read(r) - 1, Read(s)) <= Limit
                  /\ Read(s) > 0 => 2 * tries + Ahead(Read(s) - 1, Read(r)) <= Limit
  <2>3. Parts
    BY <2>1, TriesOfTwo
  <2>4. Parts' => TriesInv'
    BY <2>1 DEF TriesInv
  <2>5. Small(Read(r)) /\ Small(Read(s)) /\ Small(Read(r)') /\ Small(Read(s)')
    BY <1>1
  <2>6. Limit \in Nat /\ Limit >= 4
    BY LimitFacts
  <2>7. Ahead(Known, Known) >= 2 /\ Ahead(Read(s), Known) >= 2 /\ Ahead(Read(r), Known) >= 2
        /\ Ahead(Known, Known) \in Nat /\ Ahead(Read(s), Known) \in Nat /\ Ahead(Read(r), Known) \in Nat
    BY <1>1, <2>5, AheadFacts
  <2>8. CASE Begun(r)
    <3>1. ~Trying(r) /\ Trying(r)' /\ Read(r)' = Known /\ tries' = tries + 1 /\ Known' = Known
      BY <2>8 DEF Begun
    <3>2. CASE ~Trying(s)
      <4>1. ~Trying(s)'
        BY <2>2, <3>2 DEF Same
      <4>2. 2 * tries + Ahead(Known, Known) + 2 <= Limit
        BY <2>3, <3>1, <3>2
      <4> QED
        BY <1>1, <2>4, <2>6, <2>7, <3>1, <4>1, <4>2
    <3>3. CASE Trying(s)
      <4>1. Trying(s)' /\ Read(s)' = Read(s)
        BY <2>2, <3>3 DEF Same
      <4>2. 2 * tries + Ahead(Read(s), Known) <= Limit
        BY <2>3, <3>1, <3>3
      <4>3. Known > 0 => Ahead(Known - 1, Read(s)) + 2 <= Ahead(Known, Read(s))
                         /\ Ahead(Known - 1, Read(s)) \in Nat
        BY <1>1, <2>5, AheadFacts
      <4>4. Read(s) > 0 => Ahead(Read(s) - 1, Known) + 2 <= Ahead(Read(s), Known)
                           /\ Ahead(Read(s) - 1, Known) \in Nat
        <5>1. Known \in Nat /\ Read(s) \in Nat /\ (Read(s) > 0 => Read(s) - 1 \in Nat)
          BY <1>1, <2>5
        <5> QED
          BY <5>1, AheadFacts
      <4>5. Ahead(Known, Read(s)) = Ahead(Read(s), Known)
        BY <1>1, <2>5, AheadFacts
      <4> QED
        BY <1>1, <2>4, <2>6, <2>7, <3>1, <4>1, <4>2, <4>3, <4>4, <4>5
    <3> QED
      BY <3>2, <3>3
  <2>9. ASSUME ~Trying(r)', tries' = 0 PROVE TriesInv'
    <3>1. Ahead(Known, Known)' + 2 <= Limit /\ Ahead(Known, Known)' \in Nat
      BY <1>1, AheadFacts
    <3>2. Ahead(Read(s), Known)' + 2 <= Limit /\ Ahead(Read(s), Known)' \in Nat
      BY <1>1, <2>5, AheadFacts
    <3> QED
      BY <2>4, <2>6, <2>9, <3>1, <3>2
  <2>10. CASE Counted(r) /\ Read(r) > 0
    <3>1. Trying(r) /\ ~Trying(r)' /\ tries' = tries /\ Known' = Read(r) - 1
      BY <2>10 DEF Counted
    <3>2. CASE ~Trying(s)
      <4>1. ~Trying(s)'
        BY <2>2, <3>2 DEF Same
      <4>2. 2 * tries + Ahead(Read(r), Known) <= Limit
        BY <2>3, <3>1, <3>2
      <4>3. Ahead(Read(r) - 1, Read(r) - 1) + 2 <= Ahead(Read(r), Known)
            /\ Ahead(Read(r) - 1, Read(r) - 1) \in Nat
        <5>1. Known \in Nat /\ Read(r) \in Nat /\ Read(r) > 0 /\ Read(r) - 1 \in Nat
          BY <1>1, <2>5, <2>10
        <5> QED
          BY <5>1, AheadFacts
      <4> QED
        BY <1>1, <2>3, <2>4, <2>6, <2>7, <3>1, <4>1, <4>2, <4>3
    <3>3. CASE Trying(s)
      <4>1. Trying(s)' /\ Read(s)' = Read(s)
        BY <2>2, <3>3 DEF Same
      <4>2. 2 * tries + Ahead(Read(r) - 1, Read(s)) <= Limit
        BY <2>3, <2>10, <3>1, <3>3
      <4>3. Ahead(Read(r) - 1, Read(s)) = Ahead(Read(s), Read(r) - 1)
        BY <2>5, <2>10, AheadFacts
      <4> QED
        BY <2>3, <2>4, <3>1, <4>1, <4>2, <4>3
    <3> QED
      BY <3>2, <3>3
  <2> QED
    BY <1>3, <2>5, <2>8, <2>9, <2>10 DEF Counted, Forgotten
<1> QED
  BY <1>2, <1>3, NextTries

\* Two requests at a time get no further than these many in all.
TriesOfTwoBounded == tries <= ((MaxFailures * (MaxFailures + 1)) \div 2) + 1

LEMMA TriesOfTwoHolds == Cardinality(Requests) = 2 => (Spec => []TriesOfTwoBounded)
<1> SUFFICES ASSUME Cardinality(Requests) = 2 PROVE Spec => []TriesOfTwoBounded
  OBVIOUS
<1>1. Init => TriesInv
  <2> SUFFICES ASSUME Init PROVE TriesInv
    OBVIOUS
  <2>1. tries = 0 /\ \A r \in Requests : ~Trying(r)
    BY IdleRow DEF Init, Trying
  <2>2. Known \in Nat /\ Known <= MaxFailures - 1
    BY RoomFacts, InitTyped DEF AccountRows, Users, Known
  <2>3. Ahead(Known, Known) + 2 <= Limit /\ Ahead(Known, Known) \in Nat
    BY <2>2, AheadFacts
  <2>4. Limit \in Nat
    BY LimitFacts
  <2> QED
    BY <2>1, <2>3, <2>4 DEF TriesInv
<1>2. AccountRows /\ Targeted /\ TriesInv /\ [Next]_vars => AccountRows' /\ Targeted' /\ TriesInv'
  BY NextTyped, TriesInvStep, StoreAccessAssumption DEF StoreAccessAssumption
<1>3. AccountRows /\ TriesInv => TriesOfTwoBounded
  <2> SUFFICES ASSUME AccountRows, TriesInv PROVE TriesOfTwoBounded
    OBVIOUS
  <2>1. 2 * tries <= Product(MaxFailures) + 2 /\ tries \in Nat /\ Product(MaxFailures) \in Nat
    BY ProductFacts, StoreAccessAssumption DEF TriesInv, Limit, AccountRows, StoreAccessAssumption
  <2>2. tries <= (Product(MaxFailures) \div 2) + 1
    BY <2>1
  <2> QED
    BY <2>2 DEF TriesOfTwoBounded, Product
<1> QED
  BY InitTyped, <1>1, <1>2, <1>3, PTL DEF Spec

\* However many requests there are: with the room that the identity's count leaves, the
\* tries stay within those that the counts lost so far and the tries under way account
\* for.
LockInv ==
    tries + Known <= (MaxFailures - 1) * (1 + overruns) + Cardinality(WrongOnes)

\* What another lost count allows.
LEMMA AllowanceFacts ==
    ASSUME NEW n \in Nat
    PROVE  /\ (MaxFailures - 1) * (1 + n) \in Nat
           /\ (MaxFailures - 1) * (1 + n) >= MaxFailures - 1
           /\ (MaxFailures - 1) * (1 + (n + 1)) = (MaxFailures - 1) * (1 + n) + (MaxFailures - 1)
<1> DEFINE m == MaxFailures - 1
<1>1. m \in Nat
  BY StoreAccessAssumption DEF StoreAccessAssumption
<1> HIDE DEF m
<1>2. m * n \in Nat /\ m * (1 + n) = m + m * n /\ m * (1 + (n + 1)) = m + m * n + m
  BY <1>1
<1> QED
  BY <1>1, <1>2 DEF m

LEMMA WrongOnesCounted ==
    /\ WrongOnes = {r \in Requests : Trying(r)}
    /\ IsFiniteSet(WrongOnes) /\ Cardinality(WrongOnes) \in Nat
<1>1. WrongOnes \subseteq Requests /\ IsFiniteSet(Requests)
  BY StoreAccessAssumption DEF WrongOnes, StoreAccessAssumption
<1> QED
  BY <1>1, FS_Subset, FS_CardinalityType DEF WrongOnes, Trying

LEMMA LockInvStep ==
    ASSUME AccountRows, AccountRows', LockInv, [Next]_vars
    PROVE  LockInv'
<1>1. /\ Known \in Nat /\ Known' \in Nat /\ Known' <= MaxFailures - 1
      /\ Known <= MaxFailures - 1
      /\ tries \in Nat /\ tries' \in Nat /\ overruns \in Nat /\ overruns' \in Nat
      /\ \A r \in Requests : Read(r) \in Nat /\ Read(r) <= MaxFailures - 1
  BY RoomFacts DEF AccountRows, Users, RequestRows, Known, Read
<1>2. PICK W, V : W = WrongOnes /\ V = WrongOnes'
  OBVIOUS
<1>3. /\ W = {r \in Requests : Trying(r)} /\ IsFiniteSet(W) /\ Cardinality(W) \in Nat
      /\ V = {r \in Requests : Trying(r)'} /\ IsFiniteSet(V) /\ Cardinality(V) \in Nat
  <2>1. (/\ WrongOnes = {r \in Requests : Trying(r)}
         /\ IsFiniteSet(WrongOnes) /\ Cardinality(WrongOnes) \in Nat)'
    BY WrongOnesCounted, PTL
  <2> QED
    BY <1>2, <2>1, WrongOnesCounted
<1> DEFINE room == (MaxFailures - 1) * (1 + overruns)
           next == (MaxFailures - 1) * (1 + overruns')
<1>4. /\ room \in Nat /\ next \in Nat /\ next >= MaxFailures - 1 /\ room >= MaxFailures - 1
      /\ overruns' = overruns => next = room
      /\ overruns' = overruns + 1 => next = room + (MaxFailures - 1)
  BY <1>1, AllowanceFacts
<1>5. tries + Known <= room + Cardinality(W)
  BY <1>2 DEF LockInv
<1> SUFFICES tries' + Known' <= next + Cardinality(V)
  BY <1>2 DEF LockInv
<1>6. MaxFailures \in Nat
  BY StoreAccessAssumption DEF StoreAccessAssumption
<1> HIDE DEF room, next
<1>7. ASSUME tries' = tries, overruns' = overruns, Known' = Known, \A r \in Requests : Same(r)
      PROVE  tries' + Known' <= next + Cardinality(V)
  <2>1. V = W
    BY <1>3, <1>7 DEF Same
  <2> QED
    BY <1>4, <1>5, <1>7, <2>1
<1>8. ASSUME NEW r \in Requests, Begun(r), \A x \in Requests \ {r} : Same(x)
      PROVE  tries' + Known' <= next + Cardinality(V)
  <2>1. V = W \cup {r} /\ r \notin W
    BY <1>3, <1>8 DEF Begun, Same
  <2>2. Cardinality(V) = Cardinality(W) + 1
    BY <1>3, <2>1, FS_AddElement
  <2> QED
    BY <1>1, <1>3, <1>4, <1>5, <1>8, <2>2 DEF Begun
<1>9. ASSUME tries' = 0 PROVE tries' + Known' <= next + Cardinality(V)
  BY <1>1, <1>3, <1>4, <1>6, <1>9
<1>10. ASSUME NEW r \in Requests, Counted(r), Read(r) > 0, \A x \in Requests \ {r} : Same(x)
       PROVE  tries' + Known' <= next + Cardinality(V)
  <2>1. V = W \ {r} /\ r \in W
    BY <1>3, <1>10 DEF Counted, Same
  <2>2. Cardinality(V) = Cardinality(W) - 1
    BY <1>3, <2>1, FS_RemoveElement
  <2>3. /\ tries' = tries /\ Known' = Read(r) - 1
        /\ \/ Read(r) = Known /\ overruns' = overruns
           \/ overruns' = overruns + 1
    BY <1>10 DEF Counted
  <2>4. Read(r) \in Nat /\ Read(r) <= MaxFailures - 1
    BY <1>1
  <2> QED
    BY <1>1, <1>3, <1>4, <1>5, <1>6, <1>10, <2>2, <2>3, <2>4
<1> QED
  BY <1>1, <1>7, <1>8, <1>9, <1>10, NextTries DEF Counted, Forgotten

\* For every number of failures that locks and any number of requests, however they
\* overlap and whatever other requests and operators do in between: beside the tries
\* under way, no more wrong passwords are tried before the lock than are allowed, and as
\* many again for each count that was written over another one. Two requests at a time
\* cannot turn the count back without end.
THEOREM TriesBoundedHolds == Spec => []TriesBounded
<1>1. Init => LockInv
  <2> SUFFICES ASSUME Init PROVE LockInv
    OBVIOUS
  <2>1. tries = 0 /\ overruns = 0
    BY DEF Init
  <2>2. Known \in Nat /\ Known <= MaxFailures - 1 /\ MaxFailures \in Nat
    BY RoomFacts, InitTyped, StoreAccessAssumption DEF AccountRows, Users, Known, StoreAccessAssumption
  <2>3. Cardinality(WrongOnes) \in Nat
    BY WrongOnesCounted
  <2> QED
    BY <2>1, <2>2, <2>3 DEF LockInv
<1>2. /\ AccountRows /\ Targeted /\ [Next]_vars => AccountRows' /\ Targeted'
      /\ AccountRows /\ AccountRows' /\ LockInv /\ [Next]_vars => LockInv'
  BY NextTyped, LockInvStep
<1>3. /\ AccountRows /\ LockInv =>
            tries <= (MaxFailures - 1) * (1 + overruns) + Cardinality(WrongOnes)
      /\ tries <= (MaxFailures - 1) * (1 + overruns) + Cardinality(WrongOnes)
            /\ (Cardinality(Requests) = 2 => TriesOfTwoBounded) => TriesBounded
  <2>1. ASSUME AccountRows, LockInv
        PROVE  tries <= (MaxFailures - 1) * (1 + overruns) + Cardinality(WrongOnes)
    <3>1. Known \in Nat /\ tries \in Nat /\ overruns \in Nat
      BY <2>1, RoomFacts DEF AccountRows, Users, Known
    <3>2. (MaxFailures - 1) * (1 + overruns) \in Nat /\ Cardinality(WrongOnes) \in Nat
      BY <3>1, AllowanceFacts, WrongOnesCounted
    <3> DEFINE room == (MaxFailures - 1) * (1 + overruns)
    <3>3. tries + Known <= room + Cardinality(WrongOnes)
      BY <2>1 DEF LockInv
    <3> HIDE DEF room
    <3>4. room \in Nat
      BY <3>2 DEF room
    <3>5. tries <= room + Cardinality(WrongOnes)
      BY <3>1, <3>2, <3>3, <3>4
    <3> QED
      BY <3>5 DEF room
  <2> QED
    BY <2>1 DEF TriesBounded, TriesOfTwoBounded
<1>4. Spec => [](Cardinality(Requests) = 2 => TriesOfTwoBounded)
  <2>1. CASE Cardinality(Requests) = 2
    BY <2>1, TriesOfTwoHolds, PTL
  <2>2. CASE Cardinality(Requests) # 2
    <3>1. Cardinality(Requests) = 2 => TriesOfTwoBounded
      BY <2>2
    <3> QED
      BY <3>1, PTL
  <2> QED
    BY <2>1, <2>2
<1> QED
  BY InitTyped, <1>1, <1>2, <1>3, <1>4, PTL DEF Spec

--------------------------------------------------------------------------------
(* The catalog: types.                                                     *)

\* Rows of different tables are different.
LEMMA TablesApart ==
    /\ Variants \cap Products = {} /\ Variants \cap Categories = {}
    /\ Categories \cap Products = {} /\ Categories \cap Skus = {}
    /\ Assets \cap Categories = {} /\ Assets \cap Tags = {}
    /\ Products \cap Skus = {} /\ Variants \cap Skus = {}
<1>1. /\ DOMAIN Tables = 1 .. 9
      /\ Tables[1] = Products /\ Tables[2] = Variants /\ Tables[3] = Skus
      /\ Tables[4] = Categories /\ Tables[6] = Tags /\ Tables[7] = Assets
  BY DEF Tables
<1>2. ASSUME NEW i \in 1 .. 9, NEW j \in 1 .. 9, i # j PROVE Tables[i] \cap Tables[j] = {}
  BY <1>1, <1>2, CatalogAssumption
<1> QED
  BY <1>1, <1>2

LEMMA VariantsApart ==
    Variants \cap (Brands \cup Tags \cup Attributes \cup Assets \cup Options) = {}
<1>1. /\ DOMAIN Tables = 1 .. 9
      /\ Tables[2] = Variants /\ Tables[5] = Brands /\ Tables[6] = Tags /\ Tables[7] = Assets
      /\ Tables[8] = Attributes /\ Tables[9] = Options
  BY DEF Tables
<1>2. ASSUME NEW i \in 1 .. 9, NEW j \in 1 .. 9, i # j PROVE Tables[i] \cap Tables[j] = {}
  BY <1>1, <1>2, CatalogAssumption
<1> QED
  BY <1>1, <1>2

\* The variables that hold rows have their types; what a category belongs to is one.
RowsTyped ==
    /\ status \in [Rows -> {"none", "live", "archived"}]
    /\ of \in [Rows -> Rows \cup {None}]
    /\ \A c \in Categories : of[c] \in Categories \cup {None}
    /\ enabled \in [Products -> [Attributes -> {"no", "plain", "defining"}]]
    /\ options \in [Variants -> SUBSET Options]
    /\ key \in [Variants -> SUBSET Options]
    /\ joins \subseteq Joins
    /\ primary \in [Products -> Assets \cup {None}]
    /\ offers \subseteq Offers

\* A call is on a row of the table that its operation is about.
CallTyped(c) ==
    /\ c \in Calls
    /\ c.rewritten => c.overtaken
    /\ c.op \in {"edit", "retire"} => c.on \in Rows
    /\ c.op = "move" => c.on \in Categories /\ c.with \in Categories \cup {None}
    /\ c.op \in {"plain", "defining", "disable"} => c.on \in Products /\ c.with \in Attributes
    /\ c.op = "variant" => c.on \in Variants /\ c.with \in Products
    /\ c.op = "replace" => c.on \in Variants

Busy == {r \in Editors : editor[r] # NoCall}

\* Operations carried out, and under way, are within the bound.
EditorsTyped ==
    /\ editor \in [Editors -> Calls]
    /\ \A r \in Editors : CallTyped(editor[r])
    /\ changes \in Nat
    /\ changes + Cardinality(Busy) <= MaxChanges

CatalogTypes == RowsTyped /\ EditorsTyped

LEMMA BusyCounted == IsFiniteSet(Busy) /\ Cardinality(Busy) \in Nat
<1>1. Busy \subseteq Editors
  BY DEF Busy
<1> QED
  BY <1>1, CatalogAssumption, FS_Subset, FS_CardinalityType

LEMMA CatalogTypesAreTypeOK == CatalogTypes => CatalogTypeOK
<1> SUFFICES ASSUME CatalogTypes PROVE CatalogTypeOK
  OBVIOUS
<1>1. changes \in 0 .. MaxChanges
  BY BusyCounted, CatalogAssumption DEF CatalogTypes, EditorsTyped
<1> QED
  BY <1>1 DEF CatalogTypes, RowsTyped, EditorsTyped, CatalogTypeOK

LEMMA NoCallTyped == CallTyped(NoCall) /\ NoCall.op = "idle" /\ ~NoCall.overtaken
  BY DEF NoCall, Call, CallTyped, Calls

\* A call that has been overtaken is a call, and is not the absence of one.
LEMMA OvertakenCall ==
    ASSUME NEW c, CallTyped(c)
    PROVE  LET late == [c EXCEPT !.overtaken = TRUE] IN
           CallTyped(late) /\ late.overtaken /\ late # NoCall /\ late.op = c.op
<1> DEFINE late == [c EXCEPT !.overtaken = TRUE]
<1>1. c \in Calls
  BY DEF CallTyped
<1>2. late \in Calls
  BY <1>1 DEF Calls
<1>3. /\ late.overtaken /\ late.op = c.op /\ late.on = c.on /\ late.with = c.with
      /\ late.rewritten = c.rewritten
  BY <1>1 DEF Calls
<1>4. late # NoCall
  BY <1>3, NoCallTyped
<1> HIDE DEF late
<1>5. CallTyped(late)
  BY <1>2, <1>3 DEF CallTyped
<1> QED  BY <1>3, <1>4, <1>5 DEF late

LEMMA OvertakenTyped ==
    ASSUME EditorsTyped
    PROVE  /\ Overtaken \in [Editors -> Calls]
           /\ \A r \in Editors : /\ CallTyped(Overtaken[r])
                                 /\ Overtaken[r] = NoCall <=> editor[r] = NoCall
                                 /\ Overtaken[r] = NoCall \/ Overtaken[r].overtaken
<1>1. ASSUME NEW r \in Editors
      PROVE  /\ CallTyped(Overtaken[r])
             /\ Overtaken[r] = NoCall <=> editor[r] = NoCall
             /\ Overtaken[r] = NoCall \/ Overtaken[r].overtaken
  <2>1. CASE editor[r] = NoCall
    BY <2>1, NoCallTyped DEF Overtaken
  <2>2. CASE editor[r] # NoCall
    <3>1. Overtaken[r] = [editor[r] EXCEPT !.overtaken = TRUE]
      BY <2>2 DEF Overtaken
    <3>2. CallTyped(editor[r])
      BY DEF EditorsTyped
    <3> QED  BY <2>2, <3>1, <3>2, OvertakenCall
  <2> QED  BY <2>1, <2>2
<1>2. DOMAIN Overtaken = Editors /\ Overtaken = [r \in Editors |-> Overtaken[r]]
  BY DEF Overtaken
<1>3. \A r \in Editors : Overtaken[r] \in Calls
  BY <1>1 DEF CallTyped
<1> HIDE DEF Overtaken
<1> QED  BY <1>1, <1>2, <1>3

--------------------------------------------------------------------------------
(* What the ways of beginning and ending do to the requests.               *)

\* Every request that is under way after the step has been overtaken.
AllOvertaken == \A r \in Editors : editor'[r] = NoCall \/ editor'[r].overtaken

LEMMA ApplyEffect ==
    ASSUME EditorsTyped, Apply
    PROVE  EditorsTyped' /\ AllOvertaken
<1>1. editor' = Overtaken
  BY DEF Apply
<1>2. Busy' = Busy
  BY <1>1, OvertakenTyped DEF Busy
<1>3. changes' \in Nat /\ changes' + Cardinality(Busy') <= MaxChanges
  <2>1. changes + Cardinality(Busy) < MaxChanges
    BY DEF Apply, Room, Busy
  <2>2. changes' = changes + 1
    BY DEF Apply
  <2> QED  BY <1>2, <2>1, <2>2, BusyCounted, CatalogAssumption DEF EditorsTyped
<1> QED
  BY <1>1, <1>3, OvertakenTyped DEF EditorsTyped, AllOvertaken

LEMMA CommitEffect ==
    ASSUME EditorsTyped, NEW r \in Editors, editor[r].op # "idle",
           changes' = changes + 1,
           editor' \in [Editors -> Calls],
           editor'[r] = NoCall,
           \A q \in Editors : q # r =>
              /\ CallTyped(editor'[q])
              /\ editor'[q] = NoCall <=> editor[q] = NoCall
              /\ editor'[q] = NoCall \/ editor'[q].overtaken
    PROVE  EditorsTyped' /\ AllOvertaken
<1>1. r \in Busy
  BY NoCallTyped DEF Busy
<1>2. Busy' = Busy \ {r}
  BY DEF Busy
<1>3. Cardinality(Busy') = Cardinality(Busy) - 1
  BY <1>1, <1>2, BusyCounted, FS_RemoveElement
<1>4. changes' \in Nat /\ changes' + Cardinality(Busy') <= MaxChanges
  BY <1>3, BusyCounted, CatalogAssumption DEF EditorsTyped
<1>5. \A q \in Editors : CallTyped(editor'[q])
  BY NoCallTyped
<1> QED
  BY <1>4, <1>5 DEF EditorsTyped, AllOvertaken

LEMMA CommitOneEffect ==
    ASSUME EditorsTyped, NEW r \in Editors, editor[r].op # "idle", Commit(r)
    PROVE  EditorsTyped' /\ AllOvertaken /\ editor'[r] = NoCall
<1>1. editor' = [Overtaken EXCEPT ![r] = NoCall] /\ changes' = changes + 1
  BY DEF Commit
<1>2. NoCall \in Calls
  BY NoCallTyped DEF CallTyped
<1>3. editor' \in [Editors -> Calls] /\ editor'[r] = NoCall
      /\ \A q \in Editors : q # r => editor'[q] = Overtaken[q]
  BY <1>1, <1>2, OvertakenTyped
<1> QED
  BY <1>1, <1>3, OvertakenTyped, CommitEffect

LEMMA StartEffect ==
    ASSUME EditorsTyped, NEW r \in Editors, NEW call, CallTyped(call), Start(r, call)
    PROVE  /\ EditorsTyped'
           /\ editor'[r] = call
           /\ \A q \in Editors : q # r => editor'[q] = editor[q]
<1>1. editor' = [editor EXCEPT ![r] = call] /\ changes' = changes /\ Room
  BY DEF Start
<1>2. call \in Calls
  BY DEF CallTyped
<1>3. /\ editor' \in [Editors -> Calls] /\ editor'[r] = call
      /\ \A q \in Editors : q # r => editor'[q] = editor[q]
  BY <1>1, <1>2 DEF EditorsTyped
<1>4. Busy' \subseteq Busy \cup {r}
  BY <1>3 DEF Busy
<1>5. Cardinality(Busy') <= Cardinality(Busy) + 1 /\ Cardinality(Busy') \in Nat
  <2>1. IsFiniteSet(Busy \cup {r}) /\ Cardinality(Busy \cup {r}) <= Cardinality(Busy) + 1
    <3>1. /\ IsFiniteSet(Busy \cup {r})
          /\ \/ Cardinality(Busy \cup {r}) = Cardinality(Busy)
             \/ Cardinality(Busy \cup {r}) = Cardinality(Busy) + 1
      BY BusyCounted, FS_AddElement, Zenon
    <3> QED  BY <3>1, BusyCounted
  <2> QED  BY <1>4, <2>1, BusyCounted, FS_Subset, FS_CardinalityType
<1>6. changes' + Cardinality(Busy') <= MaxChanges
  BY <1>1, <1>5, BusyCounted, CatalogAssumption DEF Room, Busy, EditorsTyped
<1>7. \A q \in Editors : CallTyped(editor'[q])
  BY <1>3 DEF EditorsTyped
<1> QED
  BY <1>1, <1>3, <1>6, <1>7 DEF EditorsTyped

\* A request that is busy takes another look, or gives up.
LEMMA LookEffect ==
    ASSUME EditorsTyped, NEW r \in Editors, editor[r].op # "idle",
           NEW call, CallTyped(call), editor' = [editor EXCEPT ![r] = call], changes' = changes
    PROVE  /\ EditorsTyped'
           /\ editor'[r] = call
           /\ \A q \in Editors : q # r => editor'[q] = editor[q]
<1>1. call \in Calls
  BY DEF CallTyped
<1>2. /\ editor' \in [Editors -> Calls] /\ editor'[r] = call
      /\ \A q \in Editors : q # r => editor'[q] = editor[q]
  BY <1>1 DEF EditorsTyped
<1>3. Busy' \subseteq Busy
  BY <1>2, NoCallTyped DEF Busy
<1>4. Cardinality(Busy') <= Cardinality(Busy) /\ Cardinality(Busy') \in Nat
  BY <1>3, BusyCounted, FS_Subset, FS_CardinalityType
<1>5. changes' + Cardinality(Busy') <= MaxChanges
  BY <1>4, BusyCounted, CatalogAssumption DEF EditorsTyped
<1>6. \A q \in Editors : CallTyped(editor'[q])
  BY <1>2 DEF EditorsTyped
<1> QED
  BY <1>2, <1>5, <1>6 DEF EditorsTyped

--------------------------------------------------------------------------------
(* Operations of one step.                                                 *)

LEMMA CreateRowTyped ==
    ASSUME CatalogTypes, CreateRow
    PROVE  CatalogTypes' /\ AllOvertaken
<1> USE DEF Born
<1>1. ASSUME Apply, RowsTyped' PROVE CatalogTypes' /\ AllOvertaken
  BY <1>1, ApplyEffect DEF CatalogTypes
<1>2. Products \subseteq Rows /\ Variants \subseteq Rows /\ Skus \subseteq Rows /\ Categories \subseteq Rows
  BY DEF Rows
<1>3. ASSUME NEW p \in Products, NEW v \in Variants, NEW k \in Skus, CreateProduct(p, v, k)
      PROVE CatalogTypes' /\ AllOvertaken
  <2>1. /\ status' \in [Rows -> {"none", "live", "archived"}]
        /\ of' \in [Rows -> Rows \cup {None}]
        /\ \A c \in Categories : of'[c] = of[c]
    BY <1>2, <1>3, TablesApart DEF CreateProduct, CatalogTypes, RowsTyped
  <2> QED
    BY <1>1, <1>3, <2>1 DEF CreateProduct, CatalogTypes, RowsTyped, matrix, shelf
<1>4. ASSUME NEW e \in Rows, Create(e) PROVE CatalogTypes' /\ AllOvertaken
  <2>1. status' \in [Rows -> {"none", "live", "archived"}]
    BY <1>4 DEF Create, CatalogTypes, RowsTyped
  <2> QED
    BY <1>1, <1>4, <2>1 DEF Create, CatalogTypes, RowsTyped, matrix, shelf
<1>5. ASSUME NEW c \in Categories, NEW p \in Categories \cup {None}, CreateCategory(c, p)
      PROVE CatalogTypes' /\ AllOvertaken
  <2>1. /\ status' \in [Rows -> {"none", "live", "archived"}]
        /\ of' \in [Rows -> Rows \cup {None}]
        /\ \A d \in Categories : of'[d] \in Categories \cup {None}
    BY <1>2, <1>5 DEF CreateCategory, CatalogTypes, RowsTyped
  <2> QED
    BY <1>1, <1>5, <2>1 DEF CreateCategory, CatalogTypes, RowsTyped, matrix, shelf
<1>6. ASSUME NEW k \in Skus, NEW v \in Variants, CreateSku(k, v) PROVE CatalogTypes' /\ AllOvertaken
  <2>1. /\ status' \in [Rows -> {"none", "live", "archived"}]
        /\ of' \in [Rows -> Rows \cup {None}]
        /\ \A d \in Categories : of'[d] = of[d]
    BY <1>2, <1>6, TablesApart DEF CreateSku, CatalogTypes, RowsTyped
  <2> QED
    BY <1>1, <1>6, <2>1 DEF CreateSku, CatalogTypes, RowsTyped, matrix, shelf
<1> QED
  BY <1>3, <1>4, <1>5, <1>6 DEF CreateRow, CreateLabel, CreateAttribute, CreateAsset, CreateOption

LEMMA ArrangeTyped ==
    ASSUME CatalogTypes, Arrange
    PROVE  CatalogTypes' /\ AllOvertaken
<1>1. ASSUME Apply, RowsTyped' PROVE CatalogTypes' /\ AllOvertaken
  BY <1>1, ApplyEffect DEF CatalogTypes
<1>2. ASSUME NEW p \in Products, NEW b \in Brands \cup {None}, AssignBrand(p, b)
      PROVE CatalogTypes' /\ AllOvertaken
  <2>1. /\ of' \in [Rows -> Rows \cup {None}]
        /\ \A d \in Categories : of'[d] = of[d]
    BY <1>2, TablesApart DEF AssignBrand, CatalogTypes, RowsTyped, Rows
  <2> QED
    BY <1>1, <1>2, <2>1 DEF AssignBrand, CatalogTypes, RowsTyped, matrix, shelf
<1>3. ASSUME NEW p \in Products, NEW e \in Categories \cup Tags, Relate(p, e)
      PROVE CatalogTypes' /\ AllOvertaken
  <2>1. joins' \subseteq Joins
    BY <1>3 DEF Relate, CatalogTypes, RowsTyped, Joins
  <2> QED
    BY <1>1, <1>3, <2>1 DEF Relate, CatalogTypes, RowsTyped, matrix, rows
<1>4. ASSUME NEW p \in Products, NEW m \in Assets, AttachMedia(p, m)
      PROVE CatalogTypes' /\ AllOvertaken
  <2>1. joins' \subseteq Joins /\ primary' \in [Products -> Assets \cup {None}]
    BY <1>4 DEF AttachMedia, CatalogTypes, RowsTyped, Joins
  <2> QED
    BY <1>1, <1>4, <2>1 DEF AttachMedia, CatalogTypes, RowsTyped, matrix, rows
<1>5. ASSUME NEW p \in Products, NEW m \in Assets, DetachMedia(p, m)
      PROVE CatalogTypes' /\ AllOvertaken
  <2>1. joins' \subseteq Joins /\ primary' \in [Products -> Assets \cup {None}]
    BY <1>5 DEF DetachMedia, CatalogTypes, RowsTyped, Joins
  <2> QED
    BY <1>1, <1>5, <2>1 DEF DetachMedia, CatalogTypes, RowsTyped, matrix, rows
<1>6. ASSUME NEW k \in Skus, Price(k) \/ Stock(k) PROVE CatalogTypes' /\ AllOvertaken
  <2>1. offers' \subseteq Offers
    BY <1>6 DEF Price, Stock, CatalogTypes, RowsTyped, Offers
  <2> QED
    BY <1>1, <1>6, <2>1 DEF Price, Stock, CatalogTypes, RowsTyped, matrix, rows
<1> QED
  BY <1>2, <1>3, <1>4, <1>5, <1>6 DEF Arrange

--------------------------------------------------------------------------------
(* Requests begin, look and write.                                         *)

LEMMA CallIsTyped ==
    ASSUME NEW op \in {"edit", "retire", "plain", "defining", "disable", "variant", "replace"},
           NEW on \in Rows, NEW with \in Rows \cup {None},
           NEW chosen \in SUBSET Options, NEW keyed \in SUBSET Options,
           NEW writes \in {"insert", "update", "nothing"},
           op \in {"plain", "defining", "disable"} => on \in Products /\ with \in Attributes,
           op = "variant" => on \in Variants /\ with \in Products,
           op = "replace" => on \in Variants
    PROVE  LET c == Call(op, on, with, chosen, keyed, writes) IN
           /\ CallTyped(c) /\ c.op = op /\ c.on = on /\ c.with = with /\ c.chosen = chosen
<1> DEFINE c == Call(op, on, with, chosen, keyed, writes)
<1>1. /\ c.op = op /\ c.on = on /\ c.with = with /\ c.chosen = chosen /\ c.rewritten = FALSE
  BY DEF Call
<1>2. c \in Calls
  BY DEF Call, Calls
<1> HIDE DEF c
<1>3. CallTyped(c)
  BY <1>1, <1>2 DEF CallTyped
<1> QED  BY <1>1, <1>3 DEF c

\* r has looked, and nobody else is concerned.
Looks(r, call) ==
    /\ CatalogTypes'
    /\ UNCHANGED <<rows, matrix, shelf>>
    /\ editor'[r] = call
    /\ \A q \in Editors : q # r => editor'[q] = editor[q]

LEMMA StartLooks ==
    ASSUME CatalogTypes, NEW r \in Editors, NEW call, CallTyped(call), Start(r, call)
    PROVE  Looks(r, call)
<1>1. UNCHANGED <<rows, matrix, shelf>>
  BY DEF Start
<1>2. RowsTyped'
  BY <1>1 DEF rows, matrix, shelf, RowsTyped, CatalogTypes
<1> QED
  BY <1>1, <1>2, StartEffect DEF Looks, CatalogTypes

LEMMA RefuseLooks ==
    ASSUME CatalogTypes, NEW r \in Editors, editor[r].op # "idle", Refuse(r)
    PROVE  Looks(r, NoCall)
<1>1. UNCHANGED <<rows, matrix, shelf>> /\ changes' = changes
  BY DEF Refuse
<1>2. RowsTyped'
  BY <1>1 DEF rows, matrix, shelf, RowsTyped, CatalogTypes
<1>3. editor' = [editor EXCEPT ![r] = NoCall]
  BY DEF Refuse
<1> QED
  BY <1>1, <1>2, <1>3, NoCallTyped, LookEffect DEF Looks, CatalogTypes

LEMMA ReparentLooks ==
    ASSUME CatalogTypes, NEW r \in Editors, NEW c \in Categories, NEW p \in Categories \cup {None},
           BeginReparent(r, c, p)
    PROVE  \E call : /\ Looks(r, call)
                     /\ call.op = "move" /\ call.on = c /\ call.with = p /\ call.seen = {}
                     /\ call.cursor = p /\ call.next = IF p = None THEN None ELSE of[p]
<1> DEFINE next == IF p = None THEN None ELSE of[p]
           writes == IF p = of[c] THEN "nothing" ELSE "update"
           call == [Call("move", c, p, {}, {}, writes) EXCEPT !.cursor = p, !.next = next]
<1>1. next \in Categories \cup {None} /\ c \in Rows /\ p \in Rows \cup {None}
  BY DEF CatalogTypes, RowsTyped, Rows
<1>2. Start(r, call)
  BY DEF BeginReparent
<1>3. writes \in {"insert", "update", "nothing"}
  OBVIOUS
<1> HIDE DEF next, writes
<1>4. call \in Calls
  BY <1>1, <1>3 DEF Call, Calls
<1>5. /\ call.op = "move" /\ call.on = c /\ call.with = p /\ call.seen = {} /\ call.rewritten = FALSE
      /\ call.cursor = p /\ call.next = next
  BY DEF Call
<1> HIDE DEF call
<1>6. CallTyped(call)
  BY <1>4, <1>5 DEF CallTyped
<1>7. Looks(r, call)
  BY <1>2, <1>6, StartLooks
<1> QED
  BY <1>5, <1>7 DEF next

LEMMA WalkLooks ==
    ASSUME CatalogTypes, NEW r \in Editors, Walk(r)
    PROVE  \E call : /\ Looks(r, call)
                     /\ call.op = "move" /\ call.on = editor[r].on /\ call.with = editor[r].with
                     /\ call.seen = editor[r].seen \cup {editor[r].cursor}
                     /\ call.cursor = editor[r].next
                     /\ call.next = IF editor[r].next = None THEN None ELSE of[editor[r].next]
                     /\ call.overtaken = editor[r].overtaken
<1> DEFINE c == editor[r]
           next == IF c.next = None THEN None ELSE of[c.next]
           call == [c EXCEPT !.cursor = c.next, !.next = next, !.seen = @ \cup {c.cursor}]
<1>1. c \in Calls /\ CallTyped(c) /\ c.op = "move" /\ c.cursor # None
  BY DEF CatalogTypes, EditorsTyped, Walk
<1>2. c.next \in Categories \cup {None} /\ c.cursor \in Categories /\ c.seen \subseteq Categories
  BY <1>1 DEF Calls
<1>3. next \in Categories \cup {None}
  BY <1>2 DEF CatalogTypes, RowsTyped
<1>4. editor' = [editor EXCEPT ![r] = call] /\ UNCHANGED <<rows, matrix, shelf, changes>>
  BY DEF Walk
<1> HIDE DEF next
<1>5. call \in Calls
  BY <1>1, <1>2, <1>3 DEF Calls
<1>6. /\ call.op = c.op /\ call.on = c.on /\ call.with = c.with /\ call.rewritten = c.rewritten
      /\ call.seen = c.seen \cup {c.cursor} /\ call.cursor = c.next /\ call.next = next
      /\ call.overtaken = c.overtaken
  BY <1>1 DEF Calls
<1> HIDE DEF call, c
<1>7. CallTyped(call)
  BY <1>1, <1>5, <1>6 DEF CallTyped
<1>8. RowsTyped'
  BY <1>4 DEF rows, matrix, shelf, RowsTyped, CatalogTypes
<1>9. Looks(r, call)
  BY <1>1, <1>4, <1>7, <1>8, LookEffect DEF Looks, CatalogTypes, c
<1> QED
  BY <1>1, <1>6, <1>9 DEF next, c

\* What a request that does not move a category has seen when it begins.
SeenBy(c) ==
    /\ c.op = "retire" => Unused(c.on)
    /\ c.op \in {"plain", "defining"} => Live(c.with)
    /\ c.op = "disable" =>
          \A v \in Variants : of[v] = c.on => \A o \in options[v] : AttributeOf[o] # c.with
    /\ c.op = "variant" => Choosable(c.with, c.chosen)
    /\ c.op = "replace" => Choosable(of[c.on], c.chosen)

\* Operations on a row that has been read.
Rewriting == {"edit", "retire", "replace"}

LEMMA BeginLooks ==
    ASSUME CatalogTypes, NEW r \in Editors, Begin(r),
           ~ \E c \in Categories, p \in Categories \cup {None} : BeginReparent(r, c, p)
    PROVE  \E call : /\ Looks(r, call) /\ SeenBy(call) /\ call.op # "move"
                     /\ call.op \in Rewriting => Live(call.on)
<1>1. ASSUME NEW op \in {"edit", "retire", "plain", "defining", "disable", "variant", "replace"},
             NEW on \in Rows, NEW with \in Rows \cup {None},
             NEW chosen \in SUBSET Options, NEW keyed \in SUBSET Options,
             NEW writes \in {"insert", "update", "nothing"},
             op \in {"plain", "defining", "disable"} => on \in Products /\ with \in Attributes,
             op = "variant" => on \in Variants /\ with \in Products,
             op = "replace" => on \in Variants, op \in Rewriting => Live(on),
             Start(r, Call(op, on, with, chosen, keyed, writes)),
             op = "retire" => Unused(on),
             op \in {"plain", "defining"} => Live(with),
             op = "disable" =>
                \A v \in Variants : of[v] = on => \A o \in options[v] : AttributeOf[o] # with,
             op = "variant" => Choosable(with, chosen),
             op = "replace" => Choosable(of[on], chosen)
      PROVE  \E call : /\ Looks(r, call) /\ SeenBy(call) /\ call.op # "move"
                       /\ call.op \in Rewriting => Live(call.on)
  <2> DEFINE call == Call(op, on, with, chosen, keyed, writes)
  <2>1. CallTyped(call) /\ call.op = op /\ call.on = on /\ call.with = with /\ call.chosen = chosen
    <3>1. /\ op \in {"plain", "defining", "disable"} => on \in Products /\ with \in Attributes
          /\ op = "variant" => on \in Variants /\ with \in Products
          /\ op = "replace" => on \in Variants
      BY <1>1
    <3>2. CallTyped(call) /\ call.op = op /\ call.on = on /\ call.with = with /\ call.chosen = chosen
      BY <3>1, CallIsTyped, SMTT(30)
    <3> QED  BY <3>2
  <2>2. Start(r, call)
    BY <1>1
  <2> HIDE DEF call
  <2>3. Looks(r, call)
    BY <2>1, <2>2, StartLooks
  <2>4. SeenBy(call)
    BY <1>1, <2>1 DEF SeenBy
  <2> QED  BY <1>1, <2>1, <2>3, <2>4
<1>2. /\ Products \subseteq Rows /\ Variants \subseteq Rows /\ Categories \subseteq Rows
      /\ Attributes \subseteq Rows /\ {} \in SUBSET Options
  BY DEF Rows
<1>3. ASSUME NEW e \in Rows, BeginEdit(r, e)
      PROVE  \E call : /\ Looks(r, call) /\ SeenBy(call) /\ call.op # "move"
                       /\ call.op \in Rewriting => Live(call.on)
  <2>1. Start(r, Call("edit", e, None, {}, {}, "update")) /\ Live(e)
    BY <1>3 DEF BeginEdit
  <2> QED  BY <1>1, <1>2, <2>1 DEF Rewriting
<1>4. ASSUME NEW e \in Rows, BeginRetire(r, e)
      PROVE  \E call : /\ Looks(r, call) /\ SeenBy(call) /\ call.op # "move"
                       /\ call.op \in Rewriting => Live(call.on)
  <2>1. Start(r, Call("retire", e, None, {}, {}, "update")) /\ Unused(e) /\ Live(e)
    BY <1>4 DEF BeginRetire
  <2> QED  BY <1>1, <1>2, <2>1 DEF Rewriting
<1>5. ASSUME NEW p \in Products, NEW a \in Attributes, BeginDetach(r, p, a)
      PROVE  \E call : /\ Looks(r, call) /\ SeenBy(call) /\ call.op # "move"
                       /\ call.op \in Rewriting => Live(call.on)
  <2>1. /\ Start(r, Call("disable", p, a, {}, {}, "update"))
        /\ \A v \in Variants : of[v] = p => \A o \in options[v] : AttributeOf[o] # a
    BY <1>5 DEF BeginDetach
  <2>2. p \in Rows /\ a \in Rows
    BY <1>2
  <2> QED  BY <1>1, <1>2, <2>1, <2>2 DEF Rewriting
<1>6. ASSUME NEW p \in Products, NEW a \in Attributes, NEW mode \in {"plain", "defining"},
             BeginAttach(r, p, a, mode)
      PROVE  \E call : /\ Looks(r, call) /\ SeenBy(call) /\ call.op # "move"
                       /\ call.op \in Rewriting => Live(call.on)
  <2> DEFINE writes == Write(enabled[p][a], mode)
  <2>1. Start(r, Call(mode, p, a, {}, {}, writes)) /\ Live(a)
    BY <1>6 DEF BeginAttach
  <2>2. writes \in {"insert", "update", "nothing"}
    BY DEF Write
  <2>3. p \in Rows /\ a \in Rows
    BY <1>2
  <2> HIDE DEF writes
  <2> QED  BY <1>1, <1>2, <2>1, <2>2, <2>3 DEF Rewriting
<1>7. ASSUME NEW v \in Variants, NEW chosen \in SUBSET Options, NEW p \in Products,
             BeginVariant(r, v, p, chosen)
      PROVE  \E call : /\ Looks(r, call) /\ SeenBy(call) /\ call.op # "move"
                       /\ call.op \in Rewriting => Live(call.on)
  <2> DEFINE keyed == Keyed(p, chosen)
  <2>1. Start(r, Call("variant", v, p, chosen, keyed, "insert")) /\ Choosable(p, chosen)
    BY <1>7 DEF BeginVariant
  <2>2. keyed \in SUBSET Options
    BY DEF Keyed
  <2>3. p \in Rows /\ v \in Rows
    BY <1>2
  <2> HIDE DEF keyed
  <2> QED  BY <1>1, <2>1, <2>2, <2>3 DEF Rewriting
<1>8. ASSUME NEW v \in Variants, NEW chosen \in SUBSET Options, BeginReplace(r, v, chosen)
      PROVE  \E call : /\ Looks(r, call) /\ SeenBy(call) /\ call.op # "move"
                       /\ call.op \in Rewriting => Live(call.on)
  <2> DEFINE keyed == Keyed(of[v], chosen)
             writes == IF keyed = key[v] THEN "nothing" ELSE "update"
  <2>1. Start(r, Call("replace", v, None, chosen, keyed, writes)) /\ Choosable(of[v], chosen) /\ Live(v)
    BY <1>8 DEF BeginReplace
  <2>2. keyed \in SUBSET Options /\ writes \in {"insert", "update", "nothing"} /\ v \in Rows
    BY <1>2 DEF Keyed
  <2> HIDE DEF keyed, writes
  <2> QED  BY <1>1, <2>1, <2>2
<1> QED
  BY <1>3, <1>4, <1>5, <1>6, <1>7, <1>8 DEF Begin

--------------------------------------------------------------------------------
(* Operations that are carried out in two steps.                           *)

Settles(r) == CatalogTypes' /\ AllOvertaken /\ editor'[r] = NoCall

LEMMA CommitSettles ==
    ASSUME CatalogTypes, NEW r \in Editors, editor[r].op # "idle", Commit(r), RowsTyped'
    PROVE  Settles(r)
  BY CommitOneEffect DEF CatalogTypes, Settles

LEMMA SaveStatusSettles ==
    ASSUME CatalogTypes, NEW r \in Editors, SaveStatus(r)
    PROVE  Settles(r)
<1>1. editor[r].op # "idle" /\ Commit(r) /\ editor[r].on \in Rows
  BY DEF SaveStatus, CatalogTypes, EditorsTyped, CallTyped
<1>2. status' \in [Rows -> {"none", "live", "archived"}]
  BY DEF SaveStatus, CatalogTypes, RowsTyped
<1>3. RowsTyped'
  BY <1>2 DEF SaveStatus, CatalogTypes, RowsTyped, matrix, shelf
<1> QED  BY <1>1, <1>3, CommitSettles

LEMMA SaveParentSettles ==
    ASSUME CatalogTypes, NEW r \in Editors, SaveParent(r)
    PROVE  Settles(r)
<1>1. /\ editor[r].op # "idle" /\ Commit(r) /\ editor[r].on \in Categories
      /\ editor[r].with \in Categories \cup {None}
  BY DEF SaveParent, CatalogTypes, EditorsTyped, CallTyped
<1>2. /\ of' \in [Rows -> Rows \cup {None}]
      /\ \A d \in Categories : of'[d] \in Categories \cup {None}
  BY <1>1 DEF SaveParent, CatalogTypes, RowsTyped, Rows
<1>3. RowsTyped'
  BY <1>2 DEF SaveParent, CatalogTypes, RowsTyped, matrix, shelf
<1> QED  BY <1>1, <1>3, CommitSettles

LEMMA SaveDisabledSettles ==
    ASSUME CatalogTypes, NEW r \in Editors, SaveDisabled(r)
    PROVE  Settles(r)
<1>1. /\ editor[r].op # "idle" /\ Commit(r) /\ editor[r].on \in Products
      /\ editor[r].with \in Attributes
  BY DEF SaveDisabled, CatalogTypes, EditorsTyped, CallTyped
<1>2. enabled' \in [Products -> [Attributes -> {"no", "plain", "defining"}]]
  BY <1>1 DEF SaveDisabled, CatalogTypes, RowsTyped
<1>3. RowsTyped'
  BY <1>2 DEF SaveDisabled, CatalogTypes, RowsTyped, rows, shelf
<1> QED  BY <1>1, <1>3, CommitSettles

\* A row of product attributes is saved, or the request fails.
LEMMA SaveEnabledSettles ==
    ASSUME CatalogTypes, NEW r \in Editors, SaveEnabled(r)
    PROVE  \/ Looks(r, NoCall)
           \/ /\ Settles(r)
              /\ UNCHANGED <<rows, options, key, shelf>>
              /\ \/ enabled' = enabled
                 \/ enabled' = [enabled EXCEPT ![editor[r].on][editor[r].with] = editor[r].op]
<1>1. /\ editor[r].op \in {"plain", "defining"} /\ editor[r].on \in Products
      /\ editor[r].with \in Attributes
  BY DEF SaveEnabled, CatalogTypes, EditorsTyped, CallTyped
<1>2. CASE Refuse(r)
  BY <1>1, <1>2, RefuseLooks
<1>3. CASE /\ enabled' = IF editor[r].writes = "nothing" THEN enabled
                         ELSE [enabled EXCEPT ![editor[r].on][editor[r].with] = editor[r].op]
           /\ Commit(r)
           /\ UNCHANGED <<rows, options, key, shelf>>
  <2>1. enabled' \in [Products -> [Attributes -> {"no", "plain", "defining"}]]
    BY <1>1, <1>3 DEF CatalogTypes, RowsTyped
  <2>2. RowsTyped'
    BY <1>3, <2>1 DEF CatalogTypes, RowsTyped, rows, shelf
  <2> QED  BY <1>1, <1>3, <2>2, CommitSettles
<1> QED
  BY <1>2, <1>3 DEF SaveEnabled

LEMMA SaveVariantSettles ==
    ASSUME CatalogTypes, NEW r \in Editors, SaveVariant(r)
    PROVE  \/ Looks(r, NoCall)
           \/ /\ Settles(r)
              /\ Unborn(editor[r].on)
              /\ \E s \in Born : status' = [status EXCEPT ![editor[r].on] = s]
              /\ of' = [of EXCEPT ![editor[r].on] = editor[r].with]
              /\ options' = [options EXCEPT ![editor[r].on] = editor[r].chosen]
              /\ UNCHANGED <<enabled, shelf>>
<1>1. /\ editor[r].op = "variant" /\ editor[r].on \in Variants /\ editor[r].with \in Products
      /\ editor[r].chosen \subseteq Options /\ editor[r].keyed \subseteq Options
  BY DEF SaveVariant, CatalogTypes, EditorsTyped, CallTyped, Calls
<1>2. CASE Refuse(r)
  BY <1>1, <1>2, RefuseLooks
<1>3. CASE ~ Refuse(r)
  <2>1. /\ Unborn(editor[r].on)
        /\ \E s \in Born : status' = [status EXCEPT ![editor[r].on] = s]
        /\ of' = [of EXCEPT ![editor[r].on] = editor[r].with]
        /\ options' = [options EXCEPT ![editor[r].on] = editor[r].chosen]
        /\ key' = [key EXCEPT ![editor[r].on] = editor[r].keyed]
        /\ Commit(r)
        /\ UNCHANGED <<enabled, shelf>>
    BY <1>3 DEF SaveVariant
  <2>2. /\ status' \in [Rows -> {"none", "live", "archived"}]
        /\ of' \in [Rows -> Rows \cup {None}]
        /\ \A d \in Categories : of'[d] = of[d]
    BY <1>1, <2>1, TablesApart DEF CatalogTypes, RowsTyped, Rows, Born
  <2>3. options' \in [Variants -> SUBSET Options] /\ key' \in [Variants -> SUBSET Options]
    BY <1>1, <2>1 DEF CatalogTypes, RowsTyped
  <2>4. RowsTyped'
    BY <2>1, <2>2, <2>3 DEF CatalogTypes, RowsTyped, shelf
  <2> QED  BY <1>1, <2>1, <2>4, CommitSettles
<1> QED
  BY <1>2, <1>3

LEMMA SaveOptionsSettles ==
    ASSUME CatalogTypes, NEW r \in Editors, SaveOptions(r)
    PROVE  \/ Looks(r, NoCall)
           \/ /\ Settles(r)
              /\ \E left : /\ ~editor[r].rewritten => left = {}
                           /\ options' = [options EXCEPT ![editor[r].on] = left \cup editor[r].chosen]
              /\ UNCHANGED <<rows, enabled, shelf>>
<1> DEFINE c == editor[r]
           left == IF c.rewritten THEN options[c.on] ELSE {}
           new == IF c.writes = "update" THEN c.keyed ELSE key[c.on]
<1>1. /\ c.op = "replace" /\ c.on \in Variants /\ c.chosen \subseteq Options /\ c.keyed \subseteq Options
  BY DEF SaveOptions, CatalogTypes, EditorsTyped, CallTyped, Calls
<1>2. CASE Refuse(r)
  BY <1>1, <1>2, RefuseLooks
<1>3. CASE ~ Refuse(r)
  <2> DEFINE after(q) == IF q = r THEN NoCall
                         ELSE IF editor[q].op = "replace" /\ editor[q].on = c.on
                              THEN [editor[q] EXCEPT !.overtaken = TRUE, !.rewritten = TRUE]
                              ELSE Overtaken[q]
  <2>1. /\ options' = [options EXCEPT ![c.on] = left \cup c.chosen]
        /\ key' = [key EXCEPT ![c.on] = new]
        /\ changes' = changes + 1
        /\ editor' = [q \in Editors |-> after(q)]
        /\ UNCHANGED <<rows, enabled, shelf>>
    BY <1>3 DEF SaveOptions
  <2>2. left \subseteq Options /\ new \subseteq Options /\ (~c.rewritten => left = {})
    BY <1>1 DEF CatalogTypes, RowsTyped
  <2>3. options' \in [Variants -> SUBSET Options] /\ key' \in [Variants -> SUBSET Options]
    <3> HIDE DEF left, new, c
    <3> QED  BY <1>1, <2>1, <2>2 DEF CatalogTypes, RowsTyped
  <2>4. RowsTyped'
    BY <2>1, <2>3 DEF CatalogTypes, RowsTyped, rows, shelf
  <2>5. ASSUME NEW q \in Editors, q # r
        PROVE  /\ CallTyped(after(q))
               /\ after(q) = NoCall <=> editor[q] = NoCall
               /\ after(q) = NoCall \/ after(q).overtaken
    <3>1. CASE editor[q].op = "replace" /\ editor[q].on = c.on
      <4> DEFINE late == [editor[q] EXCEPT !.overtaken = TRUE, !.rewritten = TRUE]
      <4>1. after(q) = late
        BY <2>5, <3>1
      <4>2. editor[q] \in Calls /\ CallTyped(editor[q])
        BY DEF CatalogTypes, EditorsTyped
      <4>3. late \in Calls
        BY <4>2 DEF Calls
      <4>4. late.overtaken /\ late.op = editor[q].op /\ late.on = editor[q].on /\ late.with = editor[q].with
        BY <4>2 DEF Calls
      <4> HIDE DEF late, after
      <4>5. CallTyped(late)
        BY <3>1, <4>2, <4>3, <4>4 DEF CallTyped
      <4>6. late # NoCall /\ editor[q] # NoCall
        BY <3>1, <4>4, NoCallTyped
      <4> QED  BY <4>1, <4>4, <4>5, <4>6
    <3>2. CASE ~(editor[q].op = "replace" /\ editor[q].on = c.on)
      <4>1. after(q) = Overtaken[q]
        BY <2>5, <3>2
      <4> HIDE DEF after
      <4> QED  BY <4>1, OvertakenTyped DEF CatalogTypes
    <3> QED  BY <3>1, <3>2
  <2>6. after(r) = NoCall
    OBVIOUS
  <2> HIDE DEF after
  <2>7. \A q \in Editors : after(q) \in Calls
    BY <2>5, <2>6, NoCallTyped DEF CallTyped
  <2>8. /\ editor' \in [Editors -> Calls] /\ editor'[r] = NoCall
        /\ \A q \in Editors : editor'[q] = after(q)
    BY <2>1, <2>6, <2>7
  <2>9. EditorsTyped' /\ AllOvertaken
    BY <1>1, <2>1, <2>5, <2>8, CommitEffect DEF CatalogTypes
  <2>10. Settles(r)
    BY <2>4, <2>8, <2>9 DEF Settles, CatalogTypes
  <2> HIDE DEF left, new
  <2> QED  BY <2>1, <2>2, <2>10
<1> QED
  BY <1>2, <1>3

--------------------------------------------------------------------------------
(* The steps of the catalog, by what they do to the requests.              *)

LEMMA ProceedKinds ==
    ASSUME CatalogTypes, NEW r \in Editors, Proceed(r)
    PROVE  \/ Looks(r, NoCall) \/ Walk(r)
           \/ /\ Settles(r)
              /\ \/ SaveStatus(r) \/ SaveParent(r) \/ SaveEnabled(r) \/ SaveDisabled(r)
                 \/ SaveVariant(r) \/ SaveOptions(r)
<1>1. CASE WalkEnds(r)
  BY <1>1, RefuseLooks DEF WalkEnds
<1>2. CASE ~ WalkEnds(r)
  BY <1>2, SaveStatusSettles, SaveParentSettles, SaveEnabledSettles, SaveDisabledSettles,
     SaveVariantSettles, SaveOptionsSettles
  DEF Proceed, Climb
<1> QED  BY <1>1, <1>2

LEMMA CatalogTypesInit == CatalogInit => CatalogTypes
<1> SUFFICES ASSUME CatalogInit PROVE CatalogTypes
  OBVIOUS
<1>1. PICK belongs \in Starts :
         /\ status = [e \in Rows |-> IF e \in DOMAIN belongs THEN "live" ELSE "none"]
         /\ of = [e \in Rows |-> IF e \in DOMAIN belongs THEN belongs[e] ELSE None]
  BY DEF CatalogInit
<1>2. /\ DOMAIN belongs \subseteq Rows
      /\ \A e \in DOMAIN belongs : belongs[e] \in DOMAIN belongs \cup {None}
      /\ \A c \in DOMAIN belongs \cap Categories : belongs[c] \in Categories \cup {None}
  BY CatalogAssumption
<1>3. /\ of \in [Rows -> Rows \cup {None}]
      /\ \A c \in Categories : of[c] \in Categories \cup {None}
  BY <1>1, <1>2 DEF Rows
<1>4. RowsTyped
  BY <1>1, <1>3 DEF CatalogInit, RowsTyped, Joins, Offers
<1>5. Busy = {} /\ editor = [r \in Editors |-> NoCall] /\ changes = 0
  BY DEF CatalogInit, Busy
<1>6. Cardinality(Busy) = 0
  BY <1>5, FS_EmptySet
<1>7. NoCall \in Calls
  BY NoCallTyped DEF CallTyped
<1>8. EditorsTyped
  BY <1>5, <1>6, <1>7, NoCallTyped, CatalogAssumption DEF EditorsTyped
<1> QED  BY <1>4, <1>8 DEF CatalogTypes

LEMMA CatalogTypesStep == CatalogTypes /\ [CatalogNext]_catalogVars => CatalogTypes'
<1> SUFFICES ASSUME CatalogTypes, [CatalogNext]_catalogVars PROVE CatalogTypes'
  OBVIOUS
<1>1. CASE CreateRow
  BY <1>1, CreateRowTyped
<1>2. CASE Arrange
  BY <1>2, ArrangeTyped
<1>3. ASSUME NEW r \in Editors, Begin(r) PROVE CatalogTypes'
  <2>1. CASE \E c \in Categories, p \in Categories \cup {None} : BeginReparent(r, c, p)
    BY <2>1, ReparentLooks DEF Looks
  <2>2. CASE ~ \E c \in Categories, p \in Categories \cup {None} : BeginReparent(r, c, p)
    BY <1>3, <2>2, BeginLooks DEF Looks
  <2> QED  BY <2>1, <2>2
<1>4. ASSUME NEW r \in Editors, Proceed(r) PROVE CatalogTypes'
  BY <1>4, ProceedKinds, WalkLooks DEF Looks, Settles
<1>5. CASE UNCHANGED catalogVars
  BY <1>5 DEF catalogVars, rows, matrix, shelf, CatalogTypes, RowsTyped, EditorsTyped, Busy
<1> QED
  BY <1>1, <1>2, <1>3, <1>4, <1>5 DEF CatalogNext

\* Every variable of the catalog holds what its declaration says, whatever operations of
\* catalog/service.py overlap.
THEOREM CatalogTypeCorrect == CatalogSpec => []CatalogTypeOK
<1>1. CatalogInit => CatalogTypes
  BY CatalogTypesInit
<1>2. CatalogTypes /\ [CatalogNext]_catalogVars => CatalogTypes'
  BY CatalogTypesStep
<1> QED
  BY <1>1, <1>2, CatalogTypesAreTypeOK, PTL DEF CatalogSpec

--------------------------------------------------------------------------------
(* What a request has seen still holds, unless it has been overtaken.      *)

\* The walk up from the new parent: it has not met the category that moves, and what it
\* has seen belongs to what it has seen, or to where it is.
ClimbedBy(c) ==
    c.op = "move" =>
        /\ c.on \notin c.seen
        /\ c.with \in c.seen \cup {c.cursor}
        /\ \A x \in c.seen : of[x] \in c.seen \cup {c.cursor}
        /\ c.next = IF c.cursor = None THEN None ELSE of[c.cursor]

SeenStillHolds ==
    \A r \in Editors : ~editor[r].overtaken => SeenBy(editor[r]) /\ ClimbedBy(editor[r])

LEMMA LooksKeepsSeen ==
    ASSUME SeenStillHolds, NEW r \in Editors, NEW call, Looks(r, call),
           ~call.overtaken => SeenBy(call) /\ ClimbedBy(call)
    PROVE  SeenStillHolds'
<1>1. status' = status /\ of' = of /\ enabled' = enabled /\ options' = options
  BY DEF Looks, rows, matrix
<1>2. ASSUME NEW q \in Editors, ~editor'[q].overtaken
      PROVE  (SeenBy(editor[q]) /\ ClimbedBy(editor[q]))'
  <2>1. PICK c : c = editor'[q]
    OBVIOUS
  <2>2. SeenBy(c) /\ ClimbedBy(c)
    <3>1. CASE q = r
      BY <1>2, <2>1, <3>1 DEF Looks
    <3>2. CASE q # r
      <4>1. c = editor[q]
        BY <2>1, <3>2 DEF Looks
      <4> QED  BY <1>2, <2>1, <4>1 DEF SeenStillHolds
    <3> QED  BY <3>1, <3>2
  <2>3. SeenBy(editor[q])'
    BY <1>1, <2>1, <2>2 DEF SeenBy, Unused, Live, Choosable
  <2>4. ClimbedBy(editor[q])'
    BY <1>1, <2>1, <2>2 DEF ClimbedBy
  <2> QED  BY <2>3, <2>4
<1> QED
  BY <1>2 DEF SeenStillHolds

LEMMA AllOvertakenKeepsSeen ==
    ASSUME AllOvertaken
    PROVE  SeenStillHolds'
<1>1. ASSUME NEW q \in Editors, ~editor'[q].overtaken
      PROVE  (SeenBy(editor[q]) /\ ClimbedBy(editor[q]))'
  <2>1. editor'[q].op = "idle"
    BY <1>1, NoCallTyped DEF AllOvertaken
  <2> QED  BY <2>1 DEF SeenBy, ClimbedBy
<1> QED
  BY <1>1 DEF SeenStillHolds

LEMMA NoCallSeen == SeenBy(NoCall) /\ ClimbedBy(NoCall)
  BY NoCallTyped DEF SeenBy, ClimbedBy

LEMMA SeenStep ==
    CatalogTypes /\ SeenStillHolds /\ [CatalogNext]_catalogVars => SeenStillHolds'
<1> SUFFICES ASSUME CatalogTypes, SeenStillHolds, [CatalogNext]_catalogVars PROVE SeenStillHolds'
  OBVIOUS
<1>1. CASE CreateRow \/ Arrange
  BY <1>1, CreateRowTyped, ArrangeTyped, AllOvertakenKeepsSeen
<1>2. ASSUME NEW r \in Editors, NEW c \in Categories, NEW p \in Categories \cup {None},
             BeginReparent(r, c, p)
      PROVE  SeenStillHolds'
  <2>1. PICK call : /\ Looks(r, call)
                    /\ call.op = "move" /\ call.on = c /\ call.with = p /\ call.seen = {}
                    /\ call.cursor = p /\ call.next = IF p = None THEN None ELSE of[p]
    BY <1>2, ReparentLooks
  <2>2. SeenBy(call) /\ ClimbedBy(call)
    BY <2>1 DEF SeenBy, ClimbedBy
  <2> QED  BY <2>1, <2>2, LooksKeepsSeen
<1>3. ASSUME NEW r \in Editors, Begin(r),
             ~ \E c \in Categories, p \in Categories \cup {None} : BeginReparent(r, c, p)
      PROVE  SeenStillHolds'
  <2>1. PICK call : Looks(r, call) /\ SeenBy(call) /\ call.op # "move"
    BY <1>3, BeginLooks
  <2>2. ClimbedBy(call)
    BY <2>1 DEF ClimbedBy
  <2> QED  BY <2>1, <2>2, LooksKeepsSeen
<1>4. ASSUME NEW r \in Editors, Walk(r) PROVE SeenStillHolds'
  <2> DEFINE c == editor[r]
  <2>1. PICK call : /\ Looks(r, call)
                    /\ call.op = "move" /\ call.on = c.on /\ call.with = c.with
                    /\ call.seen = c.seen \cup {c.cursor} /\ call.cursor = c.next
                    /\ call.next = IF c.next = None THEN None ELSE of[c.next]
                    /\ call.overtaken = c.overtaken
    BY <1>4, WalkLooks
  <2>2. c.op = "move" /\ c.cursor # None /\ c.cursor # c.on /\ c.cursor \notin c.seen
    BY <1>4 DEF Walk, Barred
  <2>3. ASSUME ~call.overtaken PROVE SeenBy(call) /\ ClimbedBy(call)
    <3>1. ClimbedBy(c)
      BY <2>1, <2>3 DEF SeenStillHolds
    <3> HIDE DEF c
    <3>2. c.on \notin call.seen /\ c.next = of[c.cursor] /\ c.with \in call.seen
      BY <2>1, <2>2, <3>1 DEF ClimbedBy
    <3>3. \A x \in call.seen : of[x] \in call.seen \cup {call.cursor}
      BY <2>1, <2>2, <3>1, <3>2 DEF ClimbedBy
    <3> QED  BY <2>1, <3>2, <3>3 DEF SeenBy, ClimbedBy
  <2> QED  BY <2>1, <2>3, LooksKeepsSeen
<1>5. ASSUME NEW r \in Editors, Proceed(r), ~ Walk(r) PROVE SeenStillHolds'
  BY <1>5, ProceedKinds, NoCallSeen, LooksKeepsSeen, AllOvertakenKeepsSeen DEF Settles
<1>6. CASE UNCHANGED catalogVars
  BY <1>6 DEF catalogVars, rows, matrix, SeenStillHolds, SeenBy, ClimbedBy, Unused, Live, Choosable
<1> QED
  BY <1>1, <1>2, <1>3, <1>4, <1>5, <1>6 DEF CatalogNext

--------------------------------------------------------------------------------
(* Rows stay.                                                              *)

\* Nothing belongs to a category before it is created, or will by a move; a variant has
\* options only once it is created.
NothingBeforeBirth ==
    /\ \A v \in Variants : Unborn(v) => options[v] = {}
    /\ \A c, d \in Categories : of[c] = d => ~Unborn(d)
    /\ \A r \in Editors :
          /\ editor[r].op = "move" /\ editor[r].with # None => ~Unborn(editor[r].with)
          /\ editor[r].op \in Rewriting => ~Unborn(editor[r].on)

LEMMA RowsStay ==
    ASSUME CatalogTypes, [CatalogNext]_catalogVars, NEW e \in Rows, ~Unborn(e)
    PROVE  ~Unborn(e)'
<1> USE DEF Unborn, Born
<1>0. status \in [Rows -> {"none", "live", "archived"}]
  BY DEF CatalogTypes, RowsTyped
<1>1. CASE CreateRow
  BY <1>0, <1>1 DEF CreateRow, CreateLabel, CreateAttribute, CreateAsset, CreateOption, CreateProduct, Create,
                    CreateCategory, CreateSku
<1>2. CASE Arrange
  BY <1>2 DEF Arrange, AssignBrand, Relate, AttachMedia, DetachMedia, Price, Stock, rows
<1>3. ASSUME NEW r \in Editors, Begin(r) PROVE ~Unborn(e)'
  <2>1. status' = status
    BY <1>3, BeginLooks, ReparentLooks DEF Looks, rows
  <2> QED  BY <2>1
<1>4. ASSUME NEW r \in Editors, Proceed(r) PROVE ~Unborn(e)'
  <2>1. CASE Looks(r, NoCall) \/ Walk(r)
    BY <2>1 DEF Looks, Walk, rows
  <2>2. CASE SaveStatus(r)
    BY <1>0, <2>2 DEF SaveStatus
  <2>3. CASE SaveParent(r) \/ SaveEnabled(r) \/ SaveDisabled(r) \/ SaveOptions(r)
    BY <2>3 DEF SaveParent, SaveEnabled, SaveDisabled, SaveOptions, Refuse, rows
  <2>4. CASE SaveVariant(r)
    BY <1>0, <2>4 DEF SaveVariant, Refuse, rows
  <2> QED  BY <1>4, <2>1, <2>2, <2>3, <2>4, ProceedKinds
<1>5. CASE UNCHANGED catalogVars
  BY <1>5 DEF catalogVars, rows
<1> QED
  BY <1>1, <1>2, <1>3, <1>4, <1>5 DEF CatalogNext

\* The parts of NothingBeforeBirth that a step may disturb.
LEMMA BirthKept ==
    ASSUME CatalogTypes, CatalogTypes', NothingBeforeBirth, [CatalogNext]_catalogVars,
           \A v \in Variants : Unborn(v)' => options'[v] = options[v],
           \A c \in Categories : of'[c] = of[c] \/ of'[c] = None \/ (of'[c] \in Rows /\ ~Unborn(of'[c])),
           \A r \in Editors :
              \/ editor'[r].op = editor[r].op /\ editor'[r].with = editor[r].with
                                              /\ editor'[r].on = editor[r].on
              \/ /\ editor'[r].op = "move" /\ editor'[r].with # None => ~Unborn(editor'[r].with)
                 /\ editor'[r].op \in Rewriting => ~Unborn(editor'[r].on)
    PROVE  NothingBeforeBirth'
<1>1. Variants \subseteq Rows /\ Categories \subseteq Rows /\ None \notin Rows
  BY CatalogAssumption DEF Rows
<1>2. ASSUME NEW v \in Variants, Unborn(v)' PROVE options'[v] = {}
  <2>1. Unborn(v)
    BY <1>1, <1>2, RowsStay
  <2> QED  BY <1>2, <2>1 DEF NothingBeforeBirth
<1>3. ASSUME NEW c \in Categories, NEW d \in Categories, of'[c] = d PROVE ~Unborn(d)'
  <2>1. ~Unborn(d)
    BY <1>1, <1>3 DEF NothingBeforeBirth
  <2> QED  BY <1>1, <2>1, RowsStay
<1>4. ASSUME NEW r \in Editors, editor'[r].op = "move", editor'[r].with # None
      PROVE  ~Unborn(editor[r].with)'
  <2>1. PICK w : w = editor'[r].with
    OBVIOUS
  <2>2. ~Unborn(w)
    BY <1>4, <2>1 DEF NothingBeforeBirth
  <2>3. w \in Rows
    BY <1>1, <1>4, <2>1 DEF CatalogTypes, EditorsTyped, CallTyped
  <2>4. ~Unborn(w)'
    BY <2>2, <2>3, RowsStay
  <2> QED  BY <2>1, <2>4 DEF Unborn
<1>5. ASSUME NEW r \in Editors, editor'[r].op \in Rewriting PROVE ~Unborn(editor[r].on)'
  <2>1. PICK w : w = editor'[r].on
    OBVIOUS
  <2>2. ~Unborn(w)
    BY <1>5, <2>1 DEF NothingBeforeBirth
  <2>3. w \in Rows
    BY <1>1, <1>5, <2>1 DEF CatalogTypes, EditorsTyped, CallTyped, Rewriting
  <2>4. ~Unborn(w)'
    BY <2>2, <2>3, RowsStay
  <2> QED  BY <2>1, <2>4 DEF Unborn
<1> QED
  BY <1>2, <1>3, <1>4, <1>5 DEF NothingBeforeBirth

\* What the parents of categories are after a step.
LEMMA ParentsAfter ==
    ASSUME CatalogTypes, [CatalogNext]_catalogVars
    PROVE  \/ \A c \in Categories : of'[c] = of[c]
           \/ \E c \in Categories, p \in Categories \cup {None} : CreateCategory(c, p)
           \/ \E r \in Editors : SaveParent(r)
<1>0. \A c \in Categories : c \notin Products /\ c \notin Variants /\ c \notin Skus /\ c \in Rows
  BY TablesApart DEF Rows
<1>1. CASE CreateRow
  <2>1. ASSUME NEW p \in Products, NEW v \in Variants, NEW k \in Skus, CreateProduct(p, v, k)
        PROVE  \A c \in Categories : of'[c] = of[c]
    BY <1>0, <2>1 DEF CreateProduct, CatalogTypes, RowsTyped
  <2>2. ASSUME NEW e \in Rows, Create(e) PROVE \A c \in Categories : of'[c] = of[c]
    BY <2>2 DEF Create
  <2>3. ASSUME NEW k \in Skus, NEW v \in Variants, CreateSku(k, v)
        PROVE  \A c \in Categories : of'[c] = of[c]
    BY <1>0, <2>3 DEF CreateSku, CatalogTypes, RowsTyped
  <2> QED
    BY <1>1, <2>1, <2>2, <2>3 DEF CreateRow, CreateLabel, CreateAttribute, CreateAsset, CreateOption
<1>2. CASE Arrange
  <2>1. ASSUME NEW p \in Products, NEW b, AssignBrand(p, b) PROVE \A c \in Categories : of'[c] = of[c]
    BY <1>0, <2>1 DEF AssignBrand, CatalogTypes, RowsTyped
  <2>2. CASE UNCHANGED rows
    BY <2>2 DEF rows
  <2> QED
    BY <1>2, <2>1, <2>2 DEF Arrange, Relate, AttachMedia, DetachMedia, Price, Stock
<1>3. ASSUME NEW r \in Editors, Begin(r) PROVE \A c \in Categories : of'[c] = of[c]
  BY <1>3, BeginLooks, ReparentLooks DEF Looks, rows
<1>4. ASSUME NEW r \in Editors, Proceed(r), ~SaveParent(r) PROVE \A c \in Categories : of'[c] = of[c]
  <2>1. CASE Looks(r, NoCall) \/ Walk(r)
    BY <2>1 DEF Looks, Walk, rows
  <2>2. CASE SaveStatus(r) \/ SaveEnabled(r) \/ SaveDisabled(r) \/ SaveOptions(r)
    BY <2>2 DEF SaveStatus, SaveEnabled, SaveDisabled, SaveOptions, Refuse, rows
  <2>3. CASE SaveVariant(r)
    <3>1. editor[r].on \in Variants
      BY <2>3 DEF SaveVariant, CatalogTypes, EditorsTyped, CallTyped
    <3>2. of' = of \/ of' = [of EXCEPT ![editor[r].on] = editor[r].with]
      BY <2>3 DEF SaveVariant, Refuse, rows
    <3> QED  BY <1>0, <3>1, <3>2 DEF CatalogTypes, RowsTyped
  <2> QED  BY <1>4, <2>1, <2>2, <2>3, ProceedKinds
<1>5. CASE UNCHANGED catalogVars
  BY <1>5 DEF catalogVars, rows
<1> QED
  BY <1>1, <1>2, <1>3, <1>4, <1>5 DEF CatalogNext

\* What the options of a variant are after a step.
LEMMA OptionsAfter ==
    ASSUME CatalogTypes, [CatalogNext]_catalogVars
    PROVE  \/ options' = options
           \/ \E r \in Editors : SaveVariant(r) \/ SaveOptions(r)
<1>1. CASE CreateRow \/ Arrange
  BY <1>1 DEF CreateRow, CreateProduct, CreateLabel, CreateAttribute, CreateAsset, CreateOption, Create,
              CreateCategory, CreateSku, Arrange, AssignBrand, Relate, AttachMedia, DetachMedia, Price,
              Stock, matrix
<1>2. ASSUME NEW r \in Editors, Begin(r) PROVE options' = options
  BY <1>2, BeginLooks, ReparentLooks DEF Looks, matrix
<1>3. ASSUME NEW r \in Editors, Proceed(r), ~SaveVariant(r), ~SaveOptions(r) PROVE options' = options
  BY <1>3, ProceedKinds DEF Looks, Walk, SaveStatus, SaveParent, SaveEnabled, SaveDisabled, Refuse, matrix
<1>4. CASE UNCHANGED catalogVars
  BY <1>4 DEF catalogVars, matrix
<1> QED
  BY <1>1, <1>2, <1>3, <1>4 DEF CatalogNext

\* What a request asks for does not change while it is under way.
LEMMA CallsAfter ==
    ASSUME CatalogTypes, [CatalogNext]_catalogVars, NEW q \in Editors
    PROVE  \/ editor'[q].op = editor[q].op /\ editor'[q].with = editor[q].with
                                           /\ editor'[q].on = editor[q].on
           \/ editor'[q] = NoCall
           \/ editor'[q].op = "move" /\ (editor'[q].with # None => Live(editor'[q].with))
           \/ editor'[q].op \notin Rewriting \cup {"move"}
           \/ editor'[q].op \in Rewriting /\ Live(editor'[q].on)
<1> DEFINE Kept(r) == editor'[r].op = editor[r].op /\ editor'[r].with = editor[r].with
                                                   /\ editor'[r].on = editor[r].on
<1>1. ASSUME NEW r \in Editors
      PROVE  \/ Overtaken[r] = NoCall
             \/ Overtaken[r].op = editor[r].op /\ Overtaken[r].with = editor[r].with
                                               /\ Overtaken[r].on = editor[r].on
  <2>1. editor[r] \in Calls
    BY DEF CatalogTypes, EditorsTyped
  <2> QED  BY <2>1 DEF Overtaken, Calls
<1>2. CASE CreateRow \/ Arrange
  <2>1. editor' = Overtaken
    BY <1>2 DEF CreateRow, CreateProduct, CreateLabel, CreateAttribute, CreateAsset, CreateOption, Create,
              CreateCategory, CreateSku, Arrange, AssignBrand, Relate, AttachMedia, DetachMedia, Price,
              Stock, Apply
  <2> QED  BY <1>1, <2>1
<1>3. ASSUME NEW r \in Editors, NEW call, Looks(r, call),
             \/ call.op = "move" /\ (call.with # None => Live(call.with))
             \/ call.op \notin Rewriting \cup {"move"}
             \/ call.op \in Rewriting /\ Live(call.on)
             \/ call.op = editor[r].op /\ call.with = editor[r].with /\ call.on = editor[r].on
      PROVE  \/ Kept(q) \/ editor'[q] = NoCall
             \/ editor'[q].op = "move" /\ (editor'[q].with # None => Live(editor'[q].with))
             \/ editor'[q].op \notin Rewriting \cup {"move"}
             \/ editor'[q].op \in Rewriting /\ Live(editor'[q].on)
  <2>1. CASE q = r
    BY <1>3, <2>1 DEF Looks
  <2>2. CASE q # r
    BY <1>3, <2>2 DEF Looks
  <2> QED  BY <2>1, <2>2
<1>4. ASSUME NEW r \in Editors, Begin(r)
      PROVE  \/ Kept(q) \/ editor'[q] = NoCall
             \/ editor'[q].op = "move" /\ (editor'[q].with # None => Live(editor'[q].with))
             \/ editor'[q].op \notin Rewriting \cup {"move"}
             \/ editor'[q].op \in Rewriting /\ Live(editor'[q].on)
  <2>1. ASSUME NEW c \in Categories, NEW p \in Categories \cup {None}, BeginReparent(r, c, p)
        PROVE  \E call : Looks(r, call) /\ call.op = "move" /\ (call.with # None => Live(call.with))
    <3>1. PICK call : Looks(r, call) /\ call.op = "move" /\ call.with = p
      BY <2>1, ReparentLooks
    <3>2. p # None => Live(p)
      BY <2>1 DEF BeginReparent
    <3> QED  BY <3>1, <3>2
  <2>2. CASE \E c \in Categories, p \in Categories \cup {None} : BeginReparent(r, c, p)
    BY <1>3, <2>1, <2>2
  <2>3. CASE ~ \E c \in Categories, p \in Categories \cup {None} : BeginReparent(r, c, p)
    <3>1. PICK call : /\ Looks(r, call) /\ call.op # "move"
                      /\ call.op \in Rewriting => Live(call.on)
      BY <1>4, <2>3, BeginLooks
    <3> QED  BY <1>3, <3>1
  <2> QED  BY <2>2, <2>3
<1>5. ASSUME NEW r \in Editors, Walk(r) PROVE Kept(q)
  <2>1. PICK call : /\ Looks(r, call) /\ call.op = "move" /\ call.on = editor[r].on
                    /\ call.with = editor[r].with
    BY <1>5, WalkLooks
  <2>2. editor[r].op = "move"
    BY <1>5 DEF Walk
  <2>3. CASE q = r
    BY <2>1, <2>2, <2>3 DEF Looks
  <2>4. CASE q # r
    BY <2>1, <2>4 DEF Looks
  <2> QED  BY <2>3, <2>4
<1>6. ASSUME NEW r \in Editors, Looks(r, NoCall) PROVE Kept(q) \/ editor'[q] = NoCall
  BY <1>6 DEF Looks
<1>7. ASSUME NEW r \in Editors, Commit(r) PROVE Kept(q) \/ editor'[q] = NoCall
  <2>1. CASE q = r
    BY <1>7, <2>1 DEF Commit, Overtaken
  <2>2. CASE q # r
    <3>1. editor'[q] = Overtaken[q]
      BY <1>7, <2>2 DEF Commit, Overtaken
    <3> QED  BY <1>1, <3>1
  <2> QED  BY <2>1, <2>2
<1>8. ASSUME NEW r \in Editors, SaveOptions(r) PROVE Kept(q) \/ editor'[q] = NoCall
  <2>0. editor[q] \in Calls
    BY DEF CatalogTypes, EditorsTyped
  <2>1. \/ editor'[q] = NoCall \/ editor'[q] = editor[q]
        \/ editor'[q] = [editor[q] EXCEPT !.overtaken = TRUE, !.rewritten = TRUE]
        \/ editor'[q] = Overtaken[q]
    BY <1>8 DEF SaveOptions, Refuse, CatalogTypes, EditorsTyped
  <2> QED  BY <1>1, <2>0, <2>1 DEF Calls
<1>9. ASSUME NEW r \in Editors, Proceed(r)
      PROVE  \/ Looks(r, NoCall) \/ Walk(r) \/ Commit(r) \/ SaveOptions(r)
  BY <1>9, ProceedKinds, RefuseLooks
  DEF SaveStatus, SaveParent, SaveEnabled, SaveDisabled, SaveVariant, CatalogTypes, EditorsTyped
<1>10. CASE UNCHANGED catalogVars
  BY <1>10 DEF catalogVars
<1> QED
  BY <1>2, <1>4, <1>5, <1>6, <1>7, <1>8, <1>9, <1>10 DEF CatalogNext

LEMMA BirthStep ==
    CatalogTypes /\ CatalogTypes' /\ NothingBeforeBirth /\ [CatalogNext]_catalogVars => NothingBeforeBirth'
<1> SUFFICES ASSUME CatalogTypes, CatalogTypes', NothingBeforeBirth, [CatalogNext]_catalogVars
             PROVE  NothingBeforeBirth'
  OBVIOUS
<1>0. \A e : Live(e) => ~Unborn(e)
  BY DEF Live, Unborn
<1>1. ASSUME NEW v \in Variants, Unborn(v)' PROVE options'[v] = options[v]
  <2>1. Unborn(v)
    BY <1>1, RowsStay DEF Rows
  <2>2. CASE options' = options
    BY <2>2
  <2>3. ASSUME NEW r \in Editors, SaveVariant(r) PROVE options'[v] = options[v]
    <3>1. CASE Looks(r, NoCall)
      BY <3>1 DEF Looks, matrix
    <3>2. CASE /\ \E s \in Born : status' = [status EXCEPT ![editor[r].on] = s]
               /\ options' = [options EXCEPT ![editor[r].on] = editor[r].chosen]
      <4>1. v # editor[r].on
        BY <1>1, <3>2 DEF Unborn, Born, CatalogTypes, RowsTyped, Rows
      <4> QED  BY <3>2, <4>1 DEF CatalogTypes, RowsTyped
    <3> QED  BY <2>3, <3>1, <3>2, SaveVariantSettles
  <2>4. ASSUME NEW r \in Editors, SaveOptions(r) PROVE options'[v] = options[v]
    <3>1. v # editor[r].on
      BY <2>1, <2>4 DEF SaveOptions, NothingBeforeBirth, Rewriting
    <3> QED  BY <2>4, <3>1, SaveOptionsSettles DEF Looks, matrix, CatalogTypes, RowsTyped
  <2> QED  BY <2>2, <2>3, <2>4, OptionsAfter
<1>2. ASSUME NEW c \in Categories
      PROVE  of'[c] = of[c] \/ of'[c] = None \/ (of'[c] \in Rows /\ ~Unborn(of'[c]))
  <2>1. ASSUME NEW d \in Categories, NEW p \in Categories \cup {None}, CreateCategory(d, p)
        PROVE  of'[c] = of[c] \/ of'[c] = None \/ (of'[c] \in Rows /\ ~Unborn(of'[c]))
    <3>1. of' = [of EXCEPT ![d] = p] /\ (p # None => p \in Rows /\ ~Unborn(p))
      BY <1>0, <2>1 DEF CreateCategory, Rows
    <3> QED  BY <3>1 DEF CatalogTypes, RowsTyped
  <2>2. ASSUME NEW r \in Editors, SaveParent(r)
        PROVE  of'[c] = of[c] \/ of'[c] = None \/ (of'[c] \in Rows /\ ~Unborn(of'[c]))
    <3>1. of' = of \/ of' = [of EXCEPT ![editor[r].on] = editor[r].with]
      BY <2>2 DEF SaveParent
    <3>2. editor[r].with # None => editor[r].with \in Rows /\ ~Unborn(editor[r].with)
      BY <2>2 DEF SaveParent, NothingBeforeBirth, CatalogTypes, EditorsTyped, CallTyped, Rows
    <3>3. c \in Rows /\ of \in [Rows -> Rows \cup {None}]
      BY DEF Rows, CatalogTypes, RowsTyped
    <3>4. of'[c] = of[c] \/ of'[c] = editor[r].with
      BY <3>1, <3>3
    <3>5. CASE of'[c] = of[c]
      BY <3>5
    <3>6. CASE of'[c] = editor[r].with
      <4>1. PICK w : w = editor[r].with
        OBVIOUS
      <4> QED  BY <3>2, <3>6, <4>1
    <3> QED  BY <3>4, <3>5, <3>6
  <2> QED  BY <2>1, <2>2, ParentsAfter
<1>3. ASSUME NEW r \in Editors
      PROVE  \/ editor'[r].op = editor[r].op /\ editor'[r].with = editor[r].with
                                             /\ editor'[r].on = editor[r].on
             \/ /\ editor'[r].op = "move" /\ editor'[r].with # None => ~Unborn(editor'[r].with)
                /\ editor'[r].op \in Rewriting => ~Unborn(editor'[r].on)
  BY <1>0, CallsAfter, NoCallTyped DEF Rewriting
<1> QED
  BY <1>1, <1>2, <1>3, BirthKept

--------------------------------------------------------------------------------
(* Cycles.                                                                 *)

LEMMA SameParents ==
    ASSUME Forest, \A c \in Categories : of'[c] = of[c]
    PROVE  Forest'
  BY DEF Forest

\* A category that is created cannot close a cycle: nothing belongs to it yet.
LEMMA CreatedUnderATree ==
    ASSUME CatalogTypes, NothingBeforeBirth, Forest,
           NEW c \in Categories, NEW p \in Categories \cup {None}, CreateCategory(c, p)
    PROVE  Forest'
<1> SUFFICES ASSUME NEW loop \in SUBSET Categories, loop # {}, \A d \in loop : of'[d] \in loop
             PROVE  FALSE
  BY DEF Forest
<1>1. of' = [of EXCEPT ![c] = p] /\ Unborn(c) /\ (p # None => Live(p))
  BY DEF CreateCategory
<1>2. of \in [Rows -> Rows \cup {None}] /\ c \in Rows /\ None \notin Categories
  BY CatalogAssumption DEF Rows, CatalogTypes, RowsTyped
<1>3. c \in loop
  <2>1. CASE c \notin loop
    <3>1. \A d \in loop : of[d] \in loop
      BY <1>1, <1>2, <2>1
    <3> QED  BY <3>1 DEF Forest
  <2> QED  BY <2>1
<1>4. of'[c] = p
  BY <1>1, <1>2
<1>5. p \in loop /\ p # c
  <2>1. p \in loop
    BY <1>3, <1>4
  <2>2. Live(p)
    BY <1>1, <1>2, <2>1
  <2> QED  BY <1>1, <2>1, <2>2 DEF Live, Unborn
<1>6. ASSUME NEW d \in loop \ {c} PROVE of[d] \in loop \ {c}
  <2>1. of[d] \in loop
    BY <1>1, <1>2, <1>6
  <2>2. of[d] # c
    BY <1>1 DEF NothingBeforeBirth
  <2> QED  BY <2>1, <2>2
<1> QED
  BY <1>5, <1>6 DEF Forest

\* Nor can a move whose walk reached the top of the tree as it still is.
LEMMA MovedWithinATree ==
    ASSUME CatalogTypes, SeenStillHolds, Forest, NEW r \in Editors, SaveParent(r), ~editor[r].overtaken
    PROVE  Forest'
<1> DEFINE on == editor[r].on
           with == editor[r].with
           seen == editor[r].seen
<1>1. /\ on \notin seen /\ with \in seen \cup {None} /\ \A x \in seen : of[x] \in seen \cup {None}
      /\ of' = of \/ of' = [of EXCEPT ![on] = with]
  BY DEF SaveParent, SeenStillHolds, ClimbedBy
<1> SUFFICES ASSUME NEW loop \in SUBSET Categories, loop # {}, \A d \in loop : of'[d] \in loop
             PROVE  FALSE
  BY DEF Forest
<1>2. of \in [Rows -> Rows \cup {None}] /\ on \in Rows /\ None \notin Categories
  BY CatalogAssumption DEF Rows, CatalogTypes, RowsTyped, EditorsTyped, CallTyped, SaveParent
<1> HIDE DEF on, with, seen
<1>3. CASE of' = of
  BY <1>3 DEF Forest
<1>4. CASE of' = [of EXCEPT ![on] = with]
  <2>1. on \in loop
    <3>1. CASE on \notin loop
      <4>1. \A d \in loop : of[d] \in loop
        BY <1>2, <1>4, <3>1
      <4> QED  BY <4>1 DEF Forest
    <3> QED  BY <3>1
  <2>2. with \in loop \cap seen
    <3>1. of'[on] = with
      BY <1>2, <1>4
    <3>2. with \in loop
      BY <2>1, <3>1
    <3> QED  BY <1>1, <1>2, <3>2
  <2>3. ASSUME NEW d \in loop \cap seen PROVE of[d] \in loop \cap seen
    <3>1. d # on
      BY <1>1
    <3>2. of[d] \in loop
      BY <1>2, <1>4, <3>1
    <3> QED  BY <1>1, <1>2, <3>2
  <2> QED
    BY <2>2, <2>3 DEF Forest
<1> QED  BY <1>1, <1>3, <1>4

\* A variant that has been created is one of a product.
VariantsOfProducts == \A v \in Variants : ~Unborn(v) => of[v] \in Products

\* What has become of a variant after a step: it is one of a product, or as it was.
LEMMA VariantsAfter ==
    ASSUME CatalogTypes, NothingBeforeBirth, [CatalogNext]_catalogVars, NEW v \in Variants
    PROVE  of'[v] \in Products \/ (of'[v] = of[v] /\ (Unborn(v) => Unborn(v)'))
<1> USE DEF Unborn
<1>0. /\ status \in [Rows -> {"none", "live", "archived"}] /\ of \in [Rows -> Rows \cup {None}]
      /\ v \in Rows /\ v \notin Products /\ v \notin Categories /\ v \notin Skus
  BY TablesApart DEF Rows, CatalogTypes, RowsTyped
<1>1. CASE CreateRow
  <2>1. ASSUME NEW p \in Products, NEW w \in Variants, NEW k \in Skus, CreateProduct(p, w, k)
        PROVE  of'[v] \in Products \/ (of'[v] = of[v] /\ (Unborn(v) => Unborn(v)'))
    BY <1>0, <2>1 DEF CreateProduct
  <2>2. ASSUME NEW e \in Rows, CreateLabel(e) \/ CreateAttribute(e) \/ CreateAsset(e) \/ CreateOption(e)
        PROVE  of'[v] = of[v] /\ (Unborn(v) => Unborn(v)')
    <3>1. Variants \cap (Brands \cup Tags \cup Attributes \cup Assets \cup Options) = {}
      BY VariantsApart
    <3>2. e # v /\ of' = of /\ \E s \in Born : status' = [status EXCEPT ![e] = s]
      BY <2>2, <3>1 DEF CreateLabel, CreateAttribute, CreateAsset, CreateOption, Create
    <3> QED  BY <1>0, <3>2
  <2>3. ASSUME NEW c \in Categories, NEW p, CreateCategory(c, p)
        PROVE  of'[v] = of[v] /\ (Unborn(v) => Unborn(v)')
    BY <1>0, <2>3 DEF CreateCategory
  <2>4. ASSUME NEW k \in Skus, NEW w \in Variants, CreateSku(k, w)
        PROVE  of'[v] = of[v] /\ (Unborn(v) => Unborn(v)')
    BY <1>0, <2>4 DEF CreateSku
  <2> QED  BY <1>1, <2>1, <2>2, <2>3, <2>4 DEF CreateRow
<1>2. CASE Arrange
  <2>1. ASSUME NEW p \in Products, NEW b, AssignBrand(p, b)
        PROVE  of'[v] = of[v] /\ (Unborn(v) => Unborn(v)')
    BY <1>0, <2>1 DEF AssignBrand
  <2>2. CASE UNCHANGED rows
    BY <2>2 DEF rows
  <2> QED
    BY <1>2, <2>1, <2>2 DEF Arrange, Relate, AttachMedia, DetachMedia, Price, Stock
<1>3. ASSUME NEW r \in Editors, Begin(r) PROVE of'[v] = of[v] /\ (Unborn(v) => Unborn(v)')
  BY <1>3, BeginLooks, ReparentLooks DEF Looks, rows
<1>4. ASSUME NEW r \in Editors, Proceed(r)
      PROVE  of'[v] \in Products \/ (of'[v] = of[v] /\ (Unborn(v) => Unborn(v)'))
  <2>1. CASE Looks(r, NoCall) \/ Walk(r)
    BY <2>1 DEF Looks, Walk, rows
  <2>2. CASE SaveStatus(r)
    <3>1. status[editor[r].on] # "none"
      BY <2>2 DEF SaveStatus, NothingBeforeBirth, Rewriting
    <3>2. of' = of /\ (v # editor[r].on => status'[v] = status[v])
      BY <1>0, <2>2 DEF SaveStatus
    <3> QED  BY <3>1, <3>2
  <2>3. CASE SaveParent(r)
    <3>1. /\ editor[r].on # v /\ status' = status
          /\ of' = of \/ of' = [of EXCEPT ![editor[r].on] = editor[r].with]
      BY <1>0, <2>3 DEF SaveParent, CatalogTypes, EditorsTyped, CallTyped
    <3> QED  BY <1>0, <3>1
  <2>4. CASE SaveEnabled(r) \/ SaveDisabled(r) \/ SaveOptions(r)
    BY <2>4 DEF SaveEnabled, SaveDisabled, SaveOptions, Refuse, rows
  <2>5. CASE SaveVariant(r)
    <3>1. editor[r].with \in Products
      BY <2>5 DEF SaveVariant, CatalogTypes, EditorsTyped, CallTyped
    <3>2. \/ status' = status /\ of' = of
          \/ /\ \E s \in Born : status' = [status EXCEPT ![editor[r].on] = s]
             /\ of' = [of EXCEPT ![editor[r].on] = editor[r].with]
      BY <2>5 DEF SaveVariant, Refuse, rows
    <3>3. CASE v = editor[r].on
      BY <1>0, <3>1, <3>2, <3>3
    <3>4. CASE v # editor[r].on
      BY <1>0, <3>2, <3>4
    <3> QED  BY <3>3, <3>4
  <2> QED  BY <1>4, <2>1, <2>2, <2>3, <2>4, <2>5, ProceedKinds
<1>5. CASE UNCHANGED catalogVars
  BY <1>5 DEF catalogVars, rows
<1> QED
  BY <1>1, <1>2, <1>3, <1>4, <1>5 DEF CatalogNext

LEMMA VariantsStep ==
    ASSUME CatalogTypes, NothingBeforeBirth, VariantsOfProducts, [CatalogNext]_catalogVars
    PROVE  VariantsOfProducts'
<1>1. ASSUME NEW v \in Variants, ~Unborn(v)' PROVE of'[v] \in Products
  BY <1>1, VariantsAfter DEF VariantsOfProducts
<1> QED  BY <1>1 DEF VariantsOfProducts

CatalogInv == CatalogTypes /\ NothingBeforeBirth /\ SeenStillHolds /\ VariantsOfProducts

\* A variant that has options is one of a product.
LEMMA OptionsOfProducts ==
    ASSUME CatalogInv, NEW v \in Variants, options[v] # {}
    PROVE  of[v] \in Products
  BY DEF CatalogInv, NothingBeforeBirth, VariantsOfProducts

LEMMA CatalogInvInit == CatalogInit => CatalogInv
<1> SUFFICES ASSUME CatalogInit PROVE CatalogInv
  OBVIOUS
<1>1. CatalogTypes
  BY CatalogTypesInit
<1>2. SeenStillHolds
  BY NoCallSeen DEF CatalogInit, SeenStillHolds
<1>3. PICK belongs \in Starts :
         /\ status = [e \in Rows |-> IF e \in DOMAIN belongs THEN "live" ELSE "none"]
         /\ of = [e \in Rows |-> IF e \in DOMAIN belongs THEN belongs[e] ELSE None]
  BY DEF CatalogInit
<1>4. /\ DOMAIN belongs \subseteq Rows /\ None \notin Rows
      /\ \A e \in DOMAIN belongs : belongs[e] \in DOMAIN belongs \cup {None}
      /\ \A v \in DOMAIN belongs \cap Variants : belongs[v] \in Products
  BY CatalogAssumption
<1>5. \A c, d \in Categories : of[c] = d => ~Unborn(d)
  BY <1>3, <1>4 DEF Unborn, Rows
<1>6. NothingBeforeBirth
  BY <1>5, NoCallTyped DEF CatalogInit, NothingBeforeBirth, Rewriting
<1>7. VariantsOfProducts
  BY <1>3, <1>4 DEF VariantsOfProducts, Unborn, Rows
<1> QED  BY <1>1, <1>2, <1>6, <1>7 DEF CatalogInv

LEMMA CatalogInvStep == CatalogInv /\ [CatalogNext]_catalogVars => CatalogInv'
  BY CatalogTypesStep, SeenStep, BirthStep, VariantsStep DEF CatalogInv

LEMMA ForestKept ==
    ASSUME CatalogInv, [CatalogNext]_catalogVars, Forest, ~ \E r \in Editors : Late(r)
    PROVE  Forest'
<1>1. ASSUME NEW r \in Editors, SaveParent(r) PROVE ~editor[r].overtaken
  <2>1. editor'[r] = NoCall
    BY <1>1, SaveParentSettles DEF Settles, CatalogInv
  <2> QED  BY <2>1 DEF Late
<1> QED
  BY <1>1, ParentsAfter, SameParents, CreatedUnderATree, MovedWithinATree DEF CatalogInv

\* A cycle of categories needs a race: whatever the tree looks like and whatever overlaps,
\* a move that is not overtaken between its walk and its write closes none, nor does the
\* creation of a category.
THEOREM CyclesNeedARaceHolds == CatalogSpec => CyclesNeedARace
<1>1. CatalogInit => CatalogInv
  BY CatalogInvInit
<1>2. CatalogInv /\ [CatalogNext]_catalogVars => CatalogInv'
  BY CatalogInvStep
<1>3. CatalogInv /\ [CatalogNext]_catalogVars
      => [Forest /\ ~Forest' => \E r \in Editors : Late(r)]_catalogVars
  BY ForestKept
<1> QED
  BY <1>1, <1>2, <1>3, PTL DEF CatalogSpec, CyclesNeedARace

--------------------------------------------------------------------------------
(* What is in use.                                                         *)

AttributesLive == \A p \in Products, a \in Attributes : enabled[p][a] # "no" => Live(a)

OptionsHeld ==
    \A v \in Variants : \A o \in options[v] : Live(o) /\ enabled[of[v]][AttributeOf[o]] # "no"

PrimaryJoined == \A p \in Products : primary[p] = None \/ <<p, primary[p]>> \in joins

\* Rows that lived still do, products keep their attributes and variants what they are of.
LEMMA NothingInUseEnds ==
    ASSUME CatalogTypes, UsesHold,
           \A e \in Attributes \cup Options : Live(e) => Live(e)',
           \A v \in Variants : options'[v] = options[v] /\ (options[v] # {} => of'[v] = of[v]),
           UNCHANGED <<enabled, joins, primary>>
    PROVE  UsesHold'
<1>1. AttributesLive'
  BY DEF UsesHold, AttributesLive
<1>2. OptionsHeld'
  <2>1. ASSUME NEW v \in Variants, NEW o \in options'[v]
        PROVE  Live(o)' /\ enabled'[of'[v]][AttributeOf[o]] # "no"
    <3>1. o \in options[v] /\ of'[v] = of[v] /\ o \in Options
      BY <2>1 DEF CatalogTypes, RowsTyped
    <3>2. Live(o) /\ enabled[of[v]][AttributeOf[o]] # "no"
      BY <3>1 DEF UsesHold
    <3> QED  BY <3>1, <3>2
  <2> QED  BY <2>1 DEF OptionsHeld
<1>3. PrimaryJoined'
  BY DEF UsesHold, PrimaryJoined
<1> QED  BY <1>1, <1>2, <1>3 DEF UsesHold, AttributesLive, OptionsHeld, PrimaryJoined

LEMMA CreateRowKeepsUses ==
    ASSUME CatalogTypes, NothingBeforeBirth, UsesHold, CreateRow
    PROVE  UsesHold'
<1> USE DEF Born
<1>0. /\ status \in [Rows -> {"none", "live", "archived"}] /\ of \in [Rows -> Rows \cup {None}]
      /\ Attributes \cup Options \subseteq Rows
      /\ Variants \subseteq Rows /\ Products \subseteq Rows /\ Skus \subseteq Rows /\ Categories \subseteq Rows
  BY DEF CatalogTypes, RowsTyped, Rows
<1>1. ASSUME NEW p \in Products, NEW v \in Variants, NEW k \in Skus, CreateProduct(p, v, k)
      PROVE UsesHold'
  <2>1. Unborn(p) /\ Unborn(v) /\ Unborn(k) /\ UNCHANGED <<matrix, shelf>>
        /\ (\E s \in Born : status' = [status EXCEPT ![p] = s, ![v] = s, ![k] = s])
        /\ of' = [of EXCEPT ![v] = p, ![k] = v]
    BY <1>1 DEF CreateProduct
  <2>2. \A e \in Attributes \cup Options : Live(e) => Live(e)'
    BY <1>0, <2>1 DEF Live, Unborn
  <2>3. options[v] = {}
    BY <2>1 DEF NothingBeforeBirth
  <2>4. ASSUME NEW w \in Variants, options[w] # {} PROVE of'[w] = of[w]
    <3>1. w # v /\ w # k
      BY <2>3, <2>4, TablesApart
    <3> QED  BY <1>0, <2>1, <3>1
  <2> QED  BY <2>1, <2>2, <2>4, NothingInUseEnds DEF matrix, shelf
<1>2. ASSUME NEW e \in Rows, Create(e) PROVE UsesHold'
  <2>1. Unborn(e) /\ of' = of /\ UNCHANGED <<matrix, shelf>>
        /\ \E s \in Born : status' = [status EXCEPT ![e] = s]
    BY <1>2 DEF Create
  <2>2. \A d \in Attributes \cup Options : Live(d) => Live(d)'
    BY <1>0, <2>1 DEF Live, Unborn
  <2> QED  BY <2>1, <2>2, NothingInUseEnds DEF matrix, shelf
<1>3. ASSUME NEW c \in Categories, NEW p \in Categories \cup {None}, CreateCategory(c, p)
      PROVE UsesHold'
  <2>1. Unborn(c) /\ of' = [of EXCEPT ![c] = p] /\ UNCHANGED <<matrix, shelf>>
        /\ \E s \in Born : status' = [status EXCEPT ![c] = s]
    BY <1>3 DEF CreateCategory
  <2>2. \A d \in Attributes \cup Options : Live(d) => Live(d)'
    BY <1>0, <2>1 DEF Live, Unborn
  <2>3. ASSUME NEW v \in Variants PROVE of'[v] = of[v]
    <3>1. v # c
      BY TablesApart
    <3> QED  BY <1>0, <2>1, <3>1
  <2> QED  BY <2>1, <2>2, <2>3, NothingInUseEnds DEF matrix, shelf
<1>4. ASSUME NEW k \in Skus, NEW v \in Variants, CreateSku(k, v) PROVE UsesHold'
  <2>1. Unborn(k) /\ of' = [of EXCEPT ![k] = v] /\ UNCHANGED <<matrix, shelf>>
        /\ \E s \in Born : status' = [status EXCEPT ![k] = s]
    BY <1>4 DEF CreateSku
  <2>2. \A d \in Attributes \cup Options : Live(d) => Live(d)'
    BY <1>0, <2>1 DEF Live, Unborn
  <2>3. ASSUME NEW w \in Variants PROVE of'[w] = of[w]
    <3>1. w # k
      BY TablesApart
    <3> QED  BY <1>0, <2>1, <3>1
  <2> QED  BY <2>1, <2>2, <2>3, NothingInUseEnds DEF matrix, shelf
<1> QED
  BY <1>1, <1>2, <1>3, <1>4 DEF CreateRow, CreateLabel, CreateAttribute, CreateAsset, CreateOption

LEMMA ArrangeKeepsUses ==
    ASSUME CatalogTypes, UsesHold, Arrange
    PROVE  UsesHold'
<1>0. of \in [Rows -> Rows \cup {None}] /\ Variants \subseteq Rows /\ Products \subseteq Rows
  BY DEF CatalogTypes, RowsTyped, Rows
<1>1. ASSUME NEW p \in Products, NEW b \in Brands \cup {None}, AssignBrand(p, b) PROVE UsesHold'
  <2>1. of' = [of EXCEPT ![p] = b] /\ status' = status /\ UNCHANGED <<matrix, shelf>>
    BY <1>1 DEF AssignBrand
  <2>2. ASSUME NEW v \in Variants PROVE of'[v] = of[v]
    <3>1. v # p
      BY TablesApart
    <3> QED  BY <1>0, <2>1, <3>1
  <2> QED  BY <2>1, <2>2, NothingInUseEnds DEF matrix, shelf, Live
<1>2. ASSUME UNCHANGED <<rows, matrix>>, PrimaryJoined' PROVE UsesHold'
  BY <1>2 DEF UsesHold, PrimaryJoined, rows, matrix, Live
<1>3. ASSUME NEW p \in Products, NEW e \in Categories \cup Tags, Relate(p, e) PROVE UsesHold'
  <2>1. /\ UNCHANGED <<rows, matrix, primary>>
        /\ joins' = joins \cup {<<p, e>>} \/ joins' = joins \ {<<p, e>>}
    BY <1>3 DEF Relate
  <2>2. e \notin Assets /\ e # None
    BY TablesApart, CatalogAssumption DEF Rows
  <2>3. \A q \in Products : primary[q] = None \/ <<q, primary[q]>> \in joins
    BY DEF UsesHold
  <2>4. \A q \in Products : primary[q] # e
    BY <2>2 DEF CatalogTypes, RowsTyped
  <2>5. PrimaryJoined'
    BY <2>1, <2>3, <2>4 DEF PrimaryJoined
  <2> QED  BY <1>2, <2>1, <2>5
<1>4. ASSUME NEW p \in Products, NEW m \in Assets, AttachMedia(p, m) PROVE UsesHold'
  <2>1. /\ UNCHANGED <<rows, matrix>> /\ joins' = joins \cup {<<p, m>>}
        /\ primary' \in {primary, [primary EXCEPT ![p] = m]}
    BY <1>4 DEF AttachMedia
  <2>2. \A q \in Products : primary[q] = None \/ <<q, primary[q]>> \in joins
    BY DEF UsesHold
  <2>3. \A q \in Products : primary'[q] = primary[q] \/ (q = p /\ primary'[q] = m)
    BY <2>1 DEF CatalogTypes, RowsTyped
  <2>4. PrimaryJoined'
    BY <2>1, <2>2, <2>3 DEF PrimaryJoined
  <2> QED  BY <1>2, <2>1, <2>4
<1>5. ASSUME NEW p \in Products, NEW m \in Assets, DetachMedia(p, m) PROVE UsesHold'
  <2>1. /\ UNCHANGED <<rows, matrix>> /\ joins' = joins \ {<<p, m>>}
        /\ primary' = [primary EXCEPT ![p] = IF @ = m THEN None ELSE @]
    BY <1>5 DEF DetachMedia
  <2>2. \A q \in Products : primary[q] = None \/ <<q, primary[q]>> \in joins
    BY DEF UsesHold
  <2>3. \A q \in Products : \/ primary'[q] = None
                            \/ primary'[q] = primary[q] /\ (q = p => primary[q] # m)
    BY <2>1 DEF CatalogTypes, RowsTyped
  <2>4. PrimaryJoined'
    BY <2>1, <2>2, <2>3 DEF PrimaryJoined
  <2> QED  BY <1>2, <2>1, <2>4
<1>6. ASSUME NEW k \in Skus, Price(k) \/ Stock(k) PROVE UsesHold'
  <2>1. UNCHANGED <<rows, matrix, joins, primary>>
    BY <1>6 DEF Price, Stock
  <2>2. PrimaryJoined'
    BY <2>1 DEF PrimaryJoined, UsesHold
  <2> QED  BY <1>2, <2>1, <2>2
<1> QED
  BY <1>1, <1>3, <1>4, <1>5, <1>6 DEF Arrange

LEMMA UndisturbedUses ==
    ASSUME UsesHold, UNCHANGED <<rows, matrix, shelf>>
    PROVE  UsesHold'
  BY DEF UsesHold, rows, matrix, shelf, Live

\* A request that has not been overtaken writes what it has seen to be possible.
LEMMA SavesKeepUses ==
    ASSUME CatalogInv, UsesHold, NEW r \in Editors, Proceed(r), ~Late(r)
    PROVE  UsesHold'
<1> DEFINE c == editor[r]
<1>0. /\ status \in [Rows -> {"none", "live", "archived"}] /\ of \in [Rows -> Rows \cup {None}]
      /\ enabled \in [Products -> [Attributes -> {"no", "plain", "defining"}]]
      /\ options \in [Variants -> SUBSET Options] /\ AttributeOf \in [Options -> Attributes]
      /\ Variants \subseteq Rows /\ Attributes \subseteq Rows /\ Options \subseteq Rows
  BY CatalogAssumption DEF CatalogInv, CatalogTypes, RowsTyped, Rows
<1>1. CASE Looks(r, NoCall) \/ Walk(r)
  BY <1>1, UndisturbedUses DEF Looks, Walk
<1>2. ASSUME Settles(r) PROVE ~c.overtaken /\ SeenBy(c) /\ CallTyped(c) /\ ~c.rewritten
  <2>1. ~c.overtaken
    BY <1>2 DEF Settles, Late
  <2> QED  BY <2>1 DEF CatalogInv, SeenStillHolds, CatalogTypes, EditorsTyped, CallTyped
<1>3. ASSUME Settles(r), SaveStatus(r) PROVE UsesHold'
  <2>1. /\ UNCHANGED <<of, matrix, shelf>>
        /\ status' = [status EXCEPT ![c.on] = IF c.op = "retire" THEN "archived" ELSE "live"]
    BY <1>3 DEF SaveStatus
  <2>2. CASE c.op # "retire"
    <3>1. \A e \in Attributes \cup Options : Live(e) => Live(e)'
      BY <1>0, <2>1, <2>2 DEF Live
    <3> QED  BY <2>1, <3>1, NothingInUseEnds DEF CatalogInv, matrix, shelf
  <2>3. CASE c.op = "retire"
    <3>1. Unused(c.on)
      BY <1>2, <1>3, <2>3 DEF SeenBy
    <3>2. \A e \in Rows : e # c.on => (Live(e) <=> Live(e)')
      BY <1>0, <2>1 DEF Live
    <3>3. \A p \in Products, a \in Attributes : enabled'[p][a] # "no" => Live(a)'
      BY <1>0, <2>1, <3>1, <3>2 DEF Unused, UsesHold, matrix
    <3>4. ASSUME NEW v \in Variants, NEW o \in options'[v]
          PROVE  Live(o)' /\ enabled'[of'[v]][AttributeOf[o]] # "no"
      <4>1. o \in options[v] /\ o \in Options /\ enabled' = enabled /\ of' = of
        BY <1>0, <2>1, <3>4 DEF matrix
      <4>2. o # c.on
        BY <3>1, <4>1 DEF Unused
      <4> QED  BY <1>0, <3>2, <4>1, <4>2 DEF UsesHold
    <3>5. PrimaryJoined'
      BY <2>1 DEF shelf, UsesHold, PrimaryJoined
    <3> QED  BY <3>3, <3>4, <3>5 DEF UsesHold, PrimaryJoined
  <2> QED  BY <2>2, <2>3
<1>4. ASSUME Settles(r), SaveParent(r) PROVE UsesHold'
  <2>1. /\ UNCHANGED <<status, matrix, shelf>>
        /\ of' = of \/ of' = [of EXCEPT ![c.on] = c.with]
        /\ c.on \in Categories
    BY <1>4 DEF SaveParent, CatalogInv, CatalogTypes, EditorsTyped, CallTyped
  <2>2. ASSUME NEW v \in Variants PROVE of'[v] = of[v]
    <3>1. v # c.on
      BY <2>1, TablesApart
    <3> HIDE DEF c
    <3> QED  BY <1>0, <2>1, <3>1
  <2> QED  BY <2>1, <2>2, NothingInUseEnds DEF CatalogInv, matrix, shelf, Live
<1>5. ASSUME Settles(r), SaveEnabled(r) PROVE UsesHold'
  <2>1. /\ UNCHANGED <<rows, options, key, shelf>>
        /\ enabled' = enabled \/ enabled' = [enabled EXCEPT ![c.on][c.with] = c.op]
        /\ c.on \in Products /\ c.with \in Attributes /\ Live(c.with) /\ c.op \in {"plain", "defining"}
    <3>1. c.op \in {"plain", "defining"}
      BY <1>5 DEF SaveEnabled
    <3>2. c.on \in Products /\ c.with \in Attributes /\ Live(c.with)
      BY <1>2, <1>5, <3>1 DEF CallTyped, SeenBy
    <3>3. ~ Looks(r, NoCall) => /\ UNCHANGED <<rows, options, key, shelf>>
                                /\ enabled' = enabled \/ enabled' = [enabled EXCEPT ![c.on][c.with] = c.op]
      BY <1>5, SaveEnabledSettles DEF CatalogInv
    <3> QED  BY <3>1, <3>2, <3>3 DEF Looks, matrix
  <2> HIDE DEF c
  <2>2. \A p \in Products, a \in Attributes : \/ enabled'[p][a] = enabled[p][a]
                                              \/ p = c.on /\ a = c.with /\ enabled'[p][a] # "no"
    BY <1>0, <2>1
  <2>3. \A e : Live(e)' <=> Live(e)
    BY <2>1 DEF rows, Live
  <2>4. \A p \in Products, a \in Attributes : enabled'[p][a] # "no" => Live(a)'
    BY <2>1, <2>2, <2>3 DEF UsesHold
  <2>5. ASSUME NEW v \in Variants, NEW o \in options'[v]
        PROVE  Live(o)' /\ enabled'[of'[v]][AttributeOf[o]] # "no"
    <3>1. o \in options[v] /\ o \in Options /\ of'[v] = of[v] /\ AttributeOf[o] \in Attributes
      BY <1>0, <2>1, <2>5 DEF rows
    <3>2. Live(o) /\ enabled[of[v]][AttributeOf[o]] # "no"
      BY <3>1 DEF UsesHold
    <3>3. CASE enabled' = enabled
      BY <2>3, <3>1, <3>2, <3>3
    <3>4. CASE enabled' # enabled
      <4>1. enabled' = [enabled EXCEPT ![c.on][c.with] = c.op]
        BY <2>1, <3>4
      <4>2. CASE of[v] = c.on
        BY <2>2, <2>1, <2>3, <3>1, <3>2, <4>2
      <4>3. CASE of[v] # c.on
        <5>1. enabled'[of[v]] = enabled[of[v]]
          BY <1>0, <3>1, <4>1, <4>3, OptionsOfProducts
        <5> QED  BY <2>3, <3>1, <3>2, <5>1
      <4> QED  BY <4>2, <4>3
    <3> QED  BY <3>3, <3>4
  <2>6. PrimaryJoined'
    BY <2>1 DEF shelf, UsesHold, PrimaryJoined
  <2> QED  BY <2>4, <2>5, <2>6 DEF UsesHold, PrimaryJoined
<1>6. ASSUME Settles(r), SaveDisabled(r) PROVE UsesHold'
  <2>1. /\ UNCHANGED <<rows, options, key, shelf>>
        /\ enabled' = [enabled EXCEPT ![c.on][c.with] = "no"]
        /\ c.on \in Products /\ c.with \in Attributes
        /\ \A v \in Variants : of[v] = c.on => \A o \in options[v] : AttributeOf[o] # c.with
    BY <1>2, <1>6 DEF SaveDisabled, CallTyped, SeenBy
  <2> HIDE DEF c
  <2>2. \A p \in Products, a \in Attributes :
           enabled'[p][a] = enabled[p][a] \/ (p = c.on /\ a = c.with /\ enabled'[p][a] = "no")
    BY <1>0, <2>1
  <2>3. \A e : Live(e)' <=> Live(e)
    BY <2>1 DEF rows, Live
  <2>4. \A p \in Products, a \in Attributes : enabled'[p][a] # "no" => Live(a)'
    BY <2>2, <2>3 DEF UsesHold
  <2>5. ASSUME NEW v \in Variants, NEW o \in options'[v]
        PROVE  Live(o)' /\ enabled'[of'[v]][AttributeOf[o]] # "no"
    <3>1. o \in options[v] /\ o \in Options /\ of'[v] = of[v] /\ AttributeOf[o] \in Attributes
      BY <1>0, <2>1, <2>5 DEF rows
    <3>2. Live(o) /\ enabled[of[v]][AttributeOf[o]] # "no" /\ of[v] \in Products
      BY <3>1, OptionsOfProducts DEF UsesHold
    <3>3. ~(of[v] = c.on /\ AttributeOf[o] = c.with)
      BY <2>1, <3>1
    <3> QED  BY <2>2, <2>3, <3>1, <3>2, <3>3
  <2>6. PrimaryJoined'
    BY <2>1 DEF shelf, UsesHold, PrimaryJoined
  <2> QED  BY <2>4, <2>5, <2>6 DEF UsesHold, PrimaryJoined
<1>7. ASSUME Settles(r), SaveVariant(r) PROVE UsesHold'
  <2>1. /\ c.op = "variant" /\ c.on \in Variants /\ c.with \in Products
        /\ Choosable(c.with, c.chosen) /\ c.chosen \in SUBSET Options
    BY <1>2, <1>7 DEF SaveVariant, CallTyped, SeenBy, Calls
  <2>2. \/ Looks(r, NoCall)
        \/ /\ Unborn(c.on)
           /\ \E s \in Born : status' = [status EXCEPT ![c.on] = s]
           /\ of' = [of EXCEPT ![c.on] = c.with]
           /\ options' = [options EXCEPT ![c.on] = c.chosen]
           /\ UNCHANGED <<enabled, shelf>>
    BY <1>7, SaveVariantSettles DEF CatalogInv
  <2> HIDE DEF c
  <2>3. CASE Looks(r, NoCall)
    BY <2>3, UndisturbedUses DEF Looks
  <2>4. CASE /\ Unborn(c.on)
             /\ \E s \in Born : status' = [status EXCEPT ![c.on] = s]
             /\ of' = [of EXCEPT ![c.on] = c.with]
             /\ options' = [options EXCEPT ![c.on] = c.chosen]
             /\ UNCHANGED <<enabled, shelf>>
    <3>1. \A e \in Rows : Live(e) => Live(e)'
      BY <1>0, <2>4 DEF Live, Unborn
    <3>2. \A p \in Products, a \in Attributes : enabled'[p][a] # "no" => Live(a)'
      BY <1>0, <2>4, <3>1 DEF UsesHold
    <3>3. ASSUME NEW v \in Variants, NEW o \in options'[v]
          PROVE  Live(o)' /\ enabled'[of'[v]][AttributeOf[o]] # "no"
      <4>1. CASE v = c.on
        <5>1. o \in c.chosen /\ of'[v] = c.with /\ o \in Rows
          BY <1>0, <2>1, <2>4, <3>3, <4>1
        <5>2. Live(o) /\ enabled[c.with][AttributeOf[o]] # "no"
          BY <2>1, <5>1 DEF Choosable
        <5> QED  BY <2>4, <3>1, <5>1, <5>2
      <4>2. CASE v # c.on
        <5>1. o \in options[v] /\ of'[v] = of[v] /\ o \in Rows
          BY <1>0, <2>4, <3>3, <4>2
        <5> QED  BY <2>4, <3>1, <5>1 DEF UsesHold
      <4> QED  BY <4>1, <4>2
    <3>4. PrimaryJoined'
      BY <2>4 DEF shelf, UsesHold, PrimaryJoined
    <3> QED  BY <3>2, <3>3, <3>4 DEF UsesHold, PrimaryJoined
  <2> QED  BY <2>2, <2>3, <2>4
<1>8. ASSUME Settles(r), SaveOptions(r) PROVE UsesHold'
  <2>1. c.on \in Variants /\ Choosable(of[c.on], c.chosen) /\ c.chosen \in SUBSET Options
    BY <1>2, <1>8 DEF SaveOptions, CallTyped, SeenBy, Calls
  <2>2. \/ Looks(r, NoCall)
        \/ /\ options' = [options EXCEPT ![c.on] = c.chosen]
           /\ UNCHANGED <<rows, enabled, shelf>>
    <3>1. CASE \E left : /\ ~c.rewritten => left = {}
                         /\ options' = [options EXCEPT ![c.on] = left \cup c.chosen]
      <4>1. PICK left : /\ ~c.rewritten => left = {}
                        /\ options' = [options EXCEPT ![c.on] = left \cup c.chosen]
        BY <3>1
      <4>2. left = {} /\ left \cup c.chosen = c.chosen
        BY <1>2, <1>8, <4>1
      <4>3. UNCHANGED <<rows, enabled, shelf>> \/ Looks(r, NoCall)
        BY <1>8, SaveOptionsSettles DEF CatalogInv
      <4> QED  BY <4>1, <4>2, <4>3
    <3> QED  BY <1>8, <3>1, SaveOptionsSettles DEF CatalogInv
  <2> HIDE DEF c
  <2>3. CASE Looks(r, NoCall)
    BY <2>3, UndisturbedUses DEF Looks
  <2>4. CASE options' = [options EXCEPT ![c.on] = c.chosen] /\ UNCHANGED <<rows, enabled, shelf>>
    <3>1. ASSUME NEW v \in Variants, NEW o \in options'[v]
          PROVE  Live(o) /\ enabled[of[v]][AttributeOf[o]] # "no"
      <4>1. o \in options[v] \/ (v = c.on /\ o \in c.chosen)
        BY <1>0, <2>1, <2>4, <3>1
      <4> QED  BY <2>1, <4>1 DEF UsesHold, Choosable
    <3>2. UNCHANGED <<status, of, enabled, joins, primary>>
      BY <2>4 DEF rows, shelf
    <3>3. \A p \in Products, a \in Attributes : enabled'[p][a] # "no" => Live(a)'
      BY <3>2 DEF UsesHold, Live
    <3>4. PrimaryJoined'
      BY <3>2 DEF UsesHold, PrimaryJoined
    <3> QED  BY <3>1, <3>2, <3>3, <3>4 DEF UsesHold, PrimaryJoined, Live
  <2> QED  BY <2>2, <2>3, <2>4
<1> QED
  BY <1>1, <1>3, <1>4, <1>5, <1>6, <1>7, <1>8, ProceedKinds DEF Proceed, Climb, CatalogInv

LEMMA UsesKept ==
    ASSUME CatalogInv, [CatalogNext]_catalogVars, UsesHold, ~ \E r \in Editors : Late(r)
    PROVE  UsesHold'
<1>1. CASE CreateRow \/ Arrange
  BY <1>1, CreateRowKeepsUses, ArrangeKeepsUses DEF CatalogInv
<1>2. ASSUME NEW r \in Editors, Begin(r) PROVE UsesHold'
  <2>1. UNCHANGED <<rows, matrix, shelf>>
    BY <1>2, BeginLooks, ReparentLooks DEF Looks, CatalogInv
  <2> QED  BY <2>1, UndisturbedUses
<1>3. ASSUME NEW r \in Editors, Proceed(r) PROVE UsesHold'
  BY <1>3, SavesKeepUses
<1>4. CASE UNCHANGED catalogVars
  BY <1>4, UndisturbedUses DEF catalogVars
<1> QED
  BY <1>1, <1>2, <1>3, <1>4 DEF CatalogNext

\* What is in use stays in use unless somebody is overtaken: whatever overlaps, an
\* operation that is carried out undisturbed archives no attribute or option that is in
\* use, takes none from a product whose variants have it, and gives a variant no option
\* that is archived or of an attribute its product does not have.
THEOREM UsesEndOnlyInARaceHolds == CatalogSpec => UsesEndOnlyInARace
<1>1. CatalogInit => CatalogInv
  BY CatalogInvInit
<1>2. CatalogInv /\ [CatalogNext]_catalogVars => CatalogInv'
  BY CatalogInvStep
<1>3. CatalogInv /\ [CatalogNext]_catalogVars
      => [UsesHold /\ ~UsesHold' => \E r \in Editors : Late(r)]_catalogVars
  BY UsesKept
<1> QED
  BY <1>1, <1>2, <1>3, PTL DEF CatalogSpec, UsesEndOnlyInARace
================================================================================
