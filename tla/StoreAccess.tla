------------------------------ MODULE StoreAccess ------------------------------
(***************************************************************************)
(* Who may act in a store: one identity with its sessions, and its         *)
(* standing in one tenant with one store.                                  *)
(*                                                                         *)
(*   authentication/service.py      passwords, lockout, sessions           *)
(*   tenant_management/context.py   what a request is authorized for       *)
(*   tenant_management/service.py   transitions of tenant, store, member   *)
(*   authz/access.py                roles                                  *)
(*   tools/manage_identities.py     the operators' commands                *)
(*   catalog_training.py            which puts its store into force        *)
(*                                                                         *)
(* Every operation reads rows without locking them and commits later, in   *)
(* a transaction at READ COMMITTED: it writes only the columns that it     *)
(* changes against what it has read, over whatever is there by then. An    *)
(* operation that is refused writes at most to the audit log.              *)
(***************************************************************************)
EXTENDS Naturals, FiniteSets

CONSTANTS
    Sessions,       \* sessions that may be opened
    Requests,       \* requests that may be under way together
    Passwords,
    First,          \* the password at the start
    MaxFailures,    \* login_max_failures
    Lockout,        \* login_lockout_minutes
    Lifetime,       \* session_ttl_minutes
    MaxTime,        \* bound: minutes
    MaxRequests     \* bound: requests in all

ASSUME StoreAccessAssumption ==
    /\ First \in Passwords
    /\ IsFiniteSet(Requests)
    /\ MaxFailures \in Nat \ {0} /\ Lockout \in Nat \ {0} /\ Lifetime \in Nat \ {0}
    /\ MaxTime \in Nat /\ MaxRequests \in Nat

VARIABLES
    clock,
    user,           \* the identity's row
    session,        \* session[s]: its row
    standing,       \* statuses of the tenant, the store, the membership and its role
    request,        \* request[r]: what r does and has read
    era,            \* how many statements to revoke all sessions there were
    ended,          \* the last one of them that has been committed
    tries,          \* wrong passwords since the last lock, login or new password
    overruns,       \* those whose count was written over another one than it was
                    \* made from
    started         \* requests that have begun

vars == <<clock, user, session, standing, request, era, ended, tries, overruns, started>>

Scopes == {"tenant", "store", "member", "role"}

\* outdated: the hash was made with parameters that are no longer the configured ones.
User(password) ==
    [status |-> "active", password |-> password, outdated |-> TRUE,
     failures |-> 0, until |-> 0]

\* era: when it was opened.
NoSession == [status |-> "none", until |-> 0, era |-> 0]

Idle == [op |-> "none", scope |-> "none", to |-> "none", at |-> 0,
         user |-> User(First), standing |-> [x \in Scopes |-> "none"],
         doomed |-> {}, number |-> 0]

Usable(s) ==
    /\ session[s].status = "active" /\ clock < session[s].until
    /\ user.status = "active"

\* A request begins, within the bound.
Count ==
    /\ started < MaxRequests
    /\ started' = started + 1

Continue(r, op, to) == request' = [request EXCEPT ![r] = [Idle EXCEPT !.op = op, !.to = to]]

\* It has read the identity.
ReadUser(r, op, to) ==
    request' = [request EXCEPT ![r] = [Idle EXCEPT !.op = op, !.to = to, !.user = user]]

End(r) == request' = [request EXCEPT ![r] = Idle]

--------------------------------------------------------------------------------
(* Logging in                                                              *)

\* authenticate_password(), up to the verification.
BeginLogin(r, password) ==
    /\ user.status = "active"
    /\ user.until <= clock
    /\ request[r].op = "none" /\ Count
    /\ request' = [request EXCEPT ![r] =
                      [Idle EXCEPT !.op = IF password = user.password THEN "login" ELSE "wrong",
                                   !.at = clock, !.user = user]]
    /\ tries' = IF password = user.password THEN tries ELSE tries + 1
    /\ UNCHANGED <<clock, user, session, standing, era, ended, overruns>>

\* Mutated form of TooMany: off by one.
TooManyLate(failures) == failures > MaxFailures

TooMany(failures) == failures >= MaxFailures

\* The count that was read is written, increased.
CommitWrong(r) ==
    /\ request[r].op = "wrong"
    /\ LET failures == request[r].user.failures + 1 IN
       /\ user' = [user EXCEPT !.failures = failures,
                               !.until = IF TooMany(failures) THEN request[r].at + Lockout
                                         ELSE @]
       /\ tries' = IF TooMany(failures) THEN 0 ELSE tries
       /\ overruns' = IF TooMany(failures) THEN 0
                      ELSE IF user.failures # request[r].user.failures THEN overruns + 1
                      ELSE overruns
    /\ End(r)
    /\ UNCHANGED <<clock, session, standing, era, ended, started>>

\* The count and the lock are cleared where they were read as set.
Cleared(r) ==
    [user EXCEPT !.failures = IF request[r].user.failures # 0 THEN 0 ELSE @,
                 !.until = IF request[r].user.until # 0 THEN 0 ELSE @]

\* A session is opened. The password is hashed anew if its hash is outdated.
CommitLogin(r, s) ==
    /\ request[r].op = "login"
    /\ session[s] = NoSession
    /\ session' = [session EXCEPT ![s] =
                      [status |-> "active", until |-> request[r].at + Lifetime, era |-> era]]
    /\ user' = IF request[r].user.outdated
               THEN [Cleared(r) EXCEPT !.password = request[r].user.password,
                                       !.outdated = FALSE]
               ELSE Cleared(r)
    /\ tries' = 0 /\ overruns' = 0
    /\ End(r)
    /\ UNCHANGED <<clock, standing, era, ended, started>>

--------------------------------------------------------------------------------
(* Sessions                                                                *)

\* resolve_session(): a session whose time is over is about to be marked.
BeginExpire(r, s) ==
    /\ session[s].status = "active"
    /\ session[s].until <= clock
    /\ request[r].op = "none" /\ Count
    /\ Continue(r, "expire", s)
    /\ UNCHANGED <<clock, user, session, standing, era, ended, tries, overruns>>

CommitExpire(r) ==
    /\ request[r].op = "expire"
    /\ session' = [session EXCEPT ![request[r].to].status = "expired"]
    /\ End(r)
    /\ UNCHANGED <<clock, user, standing, era, ended, tries, overruns, started>>

\* Mutated form of LastSeen: the row is saved as it was read.
LastSeenSaved(s) == [session EXCEPT ![s].status = "active"]

\* Only last_seen_at is written.
LastSeen(s) == session

\* resolve_session(): a request of the identity is under way, and will be authorized.
BeginResolve(r, s) ==
    /\ Usable(s)
    /\ request[r].op = "none" /\ Count
    /\ Continue(r, "resolve", s)
    /\ UNCHANGED <<clock, user, session, standing, era, ended, tries, overruns>>

CommitResolve(r, op) ==
    /\ request[r].op = "resolve"
    /\ session' = LastSeen(request[r].to)
    /\ Continue(r, op, "none")
    /\ UNCHANGED <<clock, user, standing, era, ended, tries, overruns, started>>

\* It is refused, or only reads.
Leave(r) ==
    /\ request[r].op \in {"identity", "manage"}
    /\ End(r)
    /\ UNCHANGED <<clock, user, session, standing, era, ended, tries, overruns, started>>

\* revoke_session(): conditional on the status, in one statement.
RevokeSession(s) ==
    /\ Count
    /\ session[s].status = "active"
    /\ session' = [session EXCEPT ![s].status = "revoked"]
    /\ UNCHANGED <<clock, user, standing, request, era, ended, tries, overruns>>

\* _revoke_sessions_in_transaction(): one statement, on every session that is
\* committed and active when it looks.
RevokeAll(r, op) ==
    /\ era' = era + 1
    /\ request' = [request EXCEPT ![r] =
                      [@ EXCEPT !.op = op, !.number = era + 1,
                                !.doomed = {s \in Sessions : session[s].status = "active"}]]

\* Its transaction is committed: those sessions are revoked that have not ended
\* otherwise. One that a login has opened since the statement is not among them.
Revoked(r) ==
    /\ session' = [s \in Sessions |->
                      IF s \in request[r].doomed /\ session[s].status = "active"
                      THEN [session[s] EXCEPT !.status = "revoked"] ELSE session[s]]
    /\ ended' = IF request[r].number > ended THEN request[r].number ELSE ended

\* revoke_all_user_sessions()
BeginRevokeAll(r) ==
    /\ request[r].op = "none" /\ Count
    /\ RevokeAll(r, "revoke")
    /\ UNCHANGED <<clock, user, session, standing, ended, tries, overruns>>

CommitRevokeAll(r) ==
    /\ request[r].op = "revoke"
    /\ Revoked(r)
    /\ End(r)
    /\ UNCHANGED <<clock, user, standing, era, tries, overruns, started>>

--------------------------------------------------------------------------------
(* The identity                                                            *)

\* change_password(), by a request that has been resolved: the current one is verified.
BeginChange(r, password) ==
    /\ request[r].op = "identity"
    /\ user.status = "active"
    /\ ReadUser(r, "password", password)
    /\ UNCHANGED <<clock, user, session, standing, era, ended, tries, overruns, started>>

\* set_password(), by an operator.
BeginReset(r, password) ==
    /\ request[r].op = "none" /\ Count
    /\ ReadUser(r, "password", password)
    /\ UNCHANGED <<clock, user, session, standing, era, ended, tries, overruns>>

\* The statement comes before the flush of the identity's row: the session has no
\* autoflush. (That of the operators' commands has; it admits fewer orders.)
RevokeForPassword(r) ==
    /\ request[r].op = "password"
    /\ RevokeAll(r, "replace")
    /\ UNCHANGED <<clock, user, session, standing, ended, tries, overruns, started>>

CommitPassword(r) ==
    /\ request[r].op = "replace"
    /\ user' = [Cleared(r) EXCEPT !.password = request[r].to, !.outdated = FALSE]
    /\ tries' = 0 /\ overruns' = 0
    /\ Revoked(r)
    /\ End(r)
    /\ UNCHANGED <<clock, standing, era, started>>

\* set_user_enabled(): a status that was read as it is to be is not written.
BeginEnable(r, to) ==
    /\ request[r].op = "none" /\ Count
    /\ ReadUser(r, "enable", to)
    /\ UNCHANGED <<clock, user, session, standing, era, ended, tries, overruns>>

RevokeForDisable(r) ==
    /\ request[r].op = "enable" /\ request[r].to = "disabled"
    /\ RevokeAll(r, "disable")
    /\ UNCHANGED <<clock, user, session, standing, ended, tries, overruns, started>>

CommitEnable(r) ==
    /\ \/ request[r].op = "enable" /\ request[r].to = "active" /\ UNCHANGED <<session, ended>>
       \/ request[r].op = "disable" /\ Revoked(r)
    /\ user' = [user EXCEPT !.status = IF request[r].user.status # request[r].to
                                       THEN request[r].to ELSE @]
    /\ End(r)
    /\ UNCHANGED <<clock, standing, era, tries, overruns, started>>

--------------------------------------------------------------------------------
(* The tenant, the store, the membership and its role                      *)

\* Mutated form of Allowed: whatever is not in force may come into force.
AllowedBack(scope, from, to) ==
    CASE scope = "tenant" -> to # from
      [] scope = "store" -> to \in {"active", "suspended", "archived"} /\ to # from
      [] scope = "member" -> from # "none" /\ to # from
      [] scope = "role" -> to # from

\* The statuses that one may become.
Allowed(scope, from, to) ==
    CASE scope \in {"tenant", "store"} ->
            \/ from = "active" /\ to \in {"suspended", "archived"}
            \/ from = "suspended" /\ to \in {"active", "archived"}
            \/ scope = "store" /\ from = "onboarding" /\ to \in {"active", "archived"}
      [] scope = "member" ->
            from \in {"invited", "active", "suspended"} \ {to}
            /\ to \in {"active", "suspended", "revoked"}
      [] scope = "role" ->
            \/ from \in {"none", "revoked"} /\ to = "active"
            \/ from = "active" /\ to = "revoked"

\* What a transition asks for beside: a store is active in an active tenant. A role is
\* given to or taken from an active member; who is none yet becomes one by it.
Fits(scope, to) ==
    /\ scope = "store" /\ to = "active" => standing["tenant"] = "active"
    /\ scope = "role" => \/ standing["member"] = "active"
                         \/ standing["member"] = "none" /\ to = "active"

\* resolve_authorized_context(), for an operation on what may be suspended.
Authorized == standing["member"] = "active" /\ standing["role"] = "active"

\* transition_tenant(), transition_store(), transition_membership(), _mutate(): by an
\* administrator of the platform, or by the member.
BeginMove(r, scope, to) ==
    /\ \/ request[r].op = "none" /\ Count
       \/ request[r].op = "manage" /\ Authorized /\ UNCHANGED started
    /\ Allowed(scope, standing[scope], to)
    /\ Fits(scope, to)
    /\ request' = [request EXCEPT ![r] =
                      [Idle EXCEPT !.op = "move", !.scope = scope, !.to = to,
                                   !.standing = standing]]
    /\ UNCHANGED <<clock, user, session, standing, era, ended, tries, overruns>>

\* Rows that are inserted for a role are unique.
CommitMove(r) ==
    /\ request[r].op = "move"
    /\ LET scope == request[r].scope
           new == {x \in {scope, "member"} : scope = "role" /\ request[r].standing[x] = "none"}
       IN
       standing' = IF \E x \in new : standing[x] # "none" THEN standing
                   ELSE [x \in Scopes |-> IF x = scope THEN request[r].to
                                          ELSE IF x \in new THEN "active" ELSE standing[x]]
    /\ End(r)
    /\ UNCHANGED <<clock, user, session, era, ended, tries, overruns, started>>

\* add_membership(), add_tenant_membership(): one membership per identity, by a unique
\* constraint. The roles and the stores, if any, are inserted with it.
AddMembership(to, role) ==
    /\ Count
    /\ standing["member"] = "none"
    /\ standing' = [standing EXCEPT !["member"] = to, !["role"] = role]
    /\ UNCHANGED <<clock, user, session, request, era, ended, tries, overruns>>

\* set_membership_enabled(), which an operator uses to disable: of any status.
DisableMembership ==
    /\ Count
    /\ standing["member"] \notin {"none", "suspended"}
    /\ standing' = [standing EXCEPT !["member"] = "suspended"]
    /\ UNCHANGED <<clock, user, session, request, era, ended, tries, overruns>>

\* publish_draft() of catalog_training: the draft's store comes into force, whatever
\* its status and its tenant's; a status that was read as active is not written.
BeginTraining(r) ==
    /\ request[r].op = "none" /\ Count
    /\ request' = [request EXCEPT ![r] = [Idle EXCEPT !.op = "train", !.standing = standing]]
    /\ UNCHANGED <<clock, user, session, standing, era, ended, tries, overruns>>

CommitTraining(r) ==
    /\ request[r].op = "train"
    /\ standing' = [standing EXCEPT !["store"] =
                       IF request[r].standing["store"] # "active" THEN "active" ELSE @]
    /\ End(r)
    /\ UNCHANGED <<clock, user, session, era, ended, tries, overruns, started>>

Tick ==
    /\ clock < MaxTime
    /\ clock' = clock + 1
    /\ UNCHANGED <<user, session, standing, request, era, ended, tries, overruns, started>>

--------------------------------------------------------------------------------
Init ==
    /\ clock = 0
    /\ user = User(First)
    /\ session = [s \in Sessions |-> NoSession]
    /\ standing \in {[x \in Scopes |-> CASE x = "store" -> "onboarding"
                                         [] x \in {"member", "role"} -> is
                                         [] OTHER -> "active"] : is \in {"none", "active"}}
    /\ request = [r \in Requests |-> Idle]
    /\ era = 0 /\ ended = 0
    /\ tries = 0 /\ overruns = 0
    /\ started = 0

LogIn(r) ==
    \/ \E password \in Passwords : BeginLogin(r, password)
    \/ CommitWrong(r)
    \/ \E s \in Sessions : CommitLogin(r, s)

Resolve(r) ==
    \/ \E s \in Sessions : BeginExpire(r, s) \/ BeginResolve(r, s)
    \/ CommitExpire(r)
    \/ BeginRevokeAll(r)
    \/ CommitRevokeAll(r)
    \/ \E op \in {"identity", "manage"} : CommitResolve(r, op)
    \/ Leave(r)

Administer(r) ==
    \/ \E password \in Passwords : BeginChange(r, password) \/ BeginReset(r, password)
    \/ RevokeForPassword(r)
    \/ CommitPassword(r)
    \/ \E to \in {"active", "disabled"} : BeginEnable(r, to)
    \/ RevokeForDisable(r)
    \/ CommitEnable(r)

MoveTenant(r) == \E to \in {"active", "suspended", "archived"} : BeginMove(r, "tenant", to)
MoveStore(r) == \E to \in {"active", "suspended", "archived"} : BeginMove(r, "store", to)
MoveMember(r) == \E to \in {"active", "suspended", "revoked"} : BeginMove(r, "member", to)
MoveRole(r) == \E to \in {"active", "revoked"} : BeginMove(r, "role", to)

Manage(r) ==
    \/ MoveTenant(r) \/ MoveStore(r) \/ MoveMember(r) \/ MoveRole(r)
    \/ CommitMove(r)
    \/ BeginTraining(r)
    \/ CommitTraining(r)

Enrol ==
    \E to \in {"invited", "active"}, role \in {"none", "active"} : AddMembership(to, role)

Next ==
    \/ \E r \in Requests : LogIn(r) \/ Resolve(r) \/ Administer(r) \/ Manage(r)
    \/ \E s \in Sessions : RevokeSession(s)
    \/ Enrol
    \/ DisableMembership
    \/ Tick

Spec == Init /\ [][Next]_vars

--------------------------------------------------------------------------------
(* Properties                                                              *)

Statuses ==
    {"none", "onboarding", "invited", "active", "suspended", "archived", "revoked", "disabled"}
Users ==
    [status : {"active", "disabled"}, password : Passwords, outdated : BOOLEAN,
     failures : Nat, until : Nat]
SessionRows == [status : {"none", "active", "expired", "revoked"}, until : Nat, era : Nat]

\* What a request has to be about, by what it does.
Targets(op) ==
    CASE op \in {"expire", "resolve"} -> Sessions
      [] op \in {"password", "replace"} -> Passwords
      [] op \in {"enable", "disable"} -> {"active", "disabled"}
      [] op = "move" -> Statuses
      [] OTHER -> {"none"}

RequestRows ==
    [op : {"none", "login", "wrong", "expire", "resolve", "identity", "manage", "password",
           "replace", "enable", "disable", "revoke", "move", "train"},
     scope : Scopes \cup {"none"}, to : Sessions \cup Passwords \cup Statuses, at : Nat,
     user : Users, standing : [Scopes -> Statuses],
     doomed : SUBSET Sessions, number : Nat]

\* Every variable holds what its declaration says.
TypeOK ==
    /\ clock \in Nat /\ era \in Nat /\ ended \in Nat
    /\ tries \in Nat /\ overruns \in Nat /\ started \in Nat
    /\ user \in Users
    /\ session \in [Sessions -> SessionRows]
    /\ standing \in [Scopes -> Statuses]
    /\ request \in [Requests -> RequestRows]
    /\ \A r \in Requests : request[r].to \in Targets(request[r].op)

\* Once a new password, the disabling of the identity or a revocation of all is
\* committed, every session that its statement saw has ended, and none of them comes
\* back, whatever their requests, other revocations and logins are still about to
\* write: a session that is active was opened after the last such statement.
SessionsOfTheirEra ==
    \A s \in Sessions : session[s].status = "active" => session[s].era >= ended

\* "Verify the current credential, replace it, and revoke every session"
\* (change_password): none is active once the new password is there.
EverySessionEnds ==
    [][\A r \in Requests : request[r].op = "replace" /\ request'[r].op = "none" =>
          \A s \in Sessions : session'[s].status # "active"]_vars

WrongOnes == {r \in Requests : request[r].op = "wrong"}

\* The lock takes effect. However many requests there are at a time, beside those
\* under way no more wrong passwords are tried than are allowed, and as many again
\* for each count that was written over another one than it was made from. Two
\* requests, which may so count the same try and turn the count back, get no
\* further than these many in all.
TriesBounded ==
    /\ tries <= (MaxFailures - 1) * (1 + overruns) + Cardinality(WrongOnes)
    /\ Cardinality(Requests) = 2 => tries <= ((MaxFailures * (MaxFailures + 1)) \div 2) + 1

\* What the request that commits now has read of x is no longer so.
Outdated(x) ==
    \E r \in Requests : /\ request[r].op = "move" /\ request'[r].op = "none"
                        /\ request[r].standing[x] # standing[x]

\* The step is the commit of a training publication; it is an operator's command.
Trained == \E r \in Requests : request[r].op = "train" /\ request'[r].op = "none"
Operated == UNCHANGED request

\* What is archived stays archived, a store comes into force in an active tenant only,
\* who is revoked stays revoked, and a role is given or taken at an active membership,
\* unless another request moved one of them between the reading and the writing. Two
\* ways lead past these rules, and no other: a training publication puts its store
\* into force, and an operator's command makes a revoked member a suspended one.
MovesAreLegal ==
    [][\A x \in Scopes : standing'[x] # standing[x] =>
          /\ standing[x] = "archived" => Outdated(x) \/ (x = "store" /\ Trained)
          /\ x = "store" /\ standing'[x] = "active" =>
                standing["tenant"] = "active" \/ Outdated("tenant") \/ Trained
          /\ x = "member" /\ standing[x] = "revoked" =>
                Outdated(x) \/ (standing'[x] = "suspended" /\ Operated)
          /\ x = "role" => standing["member"] \in {"active", "none"} \/ Outdated("member")
      ]_vars

\* A password is replaced by a new one that was asked for, and by nothing else.
PasswordChangeHolds ==
    [][user'.password # user.password =>
          \E r \in Requests : request[r].op = "replace" /\ request'[r].op = "none"
      ]_vars
================================================================================
