--------------------------- MODULE InstagramConnection ---------------------------
(***************************************************************************)
(* The connection of a store to an Instagram account: the owner who        *)
(* authorizes it at Meta, and the operator who manages it by hand.         *)
(*                                                                         *)
(*   instagram_onboarding/service.py, router.py   authorization requests   *)
(*                                                and their callbacks      *)
(*   instagram_onboarding/provider.py             the exchange with Meta   *)
(*   instagram_channel/service.py, router.py      management               *)
(*                                                                         *)
(* A store has one connection row, and an account one row, by unique       *)
(* constraints. Writes name the revision they have read; the callback      *)
(* reads the row long before it writes it.                                 *)
(***************************************************************************)
EXTENDS Naturals, FiniteSets

CONSTANTS
    Stores,
    Accounts,       \* Instagram accounts that owners may authorize
    Grants,         \* authorization requests (OAuth states)
    Requests,       \* callbacks being served
    None,           \* no store, account or token
    Typed,          \* a token that an operator has entered
    MaxRevision,    \* bound: changes of a connection
    MaxChanges      \* bound: changes of what an owner is entitled to

ASSUME ConnectionAssumption ==
    /\ None \notin Accounts \cup Stores
    /\ Typed \notin Accounts \cup {None}
    /\ MaxRevision \in Nat \ {0}
    /\ MaxChanges \in Nat

VARIABLES
    connection,     \* connection[s]: the row of store s
    grant,          \* grant[g]: the row of authorization request g
    request,        \* request[r]: what callback r is doing
    view,           \* view[s]: the row of s that the operator has on the screen
    standing,       \* standing[s]: what the owner of s has
    edited,         \* stores whose row an operator has entered data into
    exchanged,      \* exchanged[g]: codes handed to Meta for g
    changes         \* how much of MaxChanges is used up

vars == <<connection, grant, request, view, standing, edited, exchanged, changes>>

--------------------------------------------------------------------------------
(* The rows                                                                *)

Statuses == {"none", "pending", "active", "degraded", "disconnected", "revoked", "archived"}

\* token: the account it has been issued for.
Row(status, account, token, revision) ==
    [status |-> status, account |-> account, token |-> token, revision |-> revision]
NoRow == Row("none", None, None, 0)

\* validate_transition(): what each status may become.
Allowed ==
    [pending      |-> {"active", "disconnected", "revoked", "archived"},
     active       |-> {"degraded", "disconnected", "revoked", "archived"},
     degraded     |-> {"active", "disconnected", "revoked", "archived"},
     disconnected |-> {"active", "revoked", "archived"},
     revoked      |-> {"active", "archived"},
     archived     |-> {}]

\* An account identifier is unique among all rows.
Free(a, s) == \A t \in Stores \ {s} : connection[t].account # a

\* What an owner needs: a tenant and a store that are open, a membership, and a
\* plan with room for an account.
Needs == {"open", "member", "entitled"}

Grant(stage, store) == [stage |-> stage, store |-> store]
Unused == Grant("unused", None)

Call(stage, of, account, read) ==
    [stage |-> stage, of |-> of, account |-> account, read |-> read]
Idle == Call("idle", None, None, NoRow)
StoreOf(r) == grant[request[r].of].store

--------------------------------------------------------------------------------
(* Authorization                                                           *)

\* begin(): a state that can be used once is issued and the browser sent to Meta.
Begin(g, s) ==
    /\ grant[g] = Unused
    /\ standing[s] = Needs
    /\ grant' = [grant EXCEPT ![g] = Grant("issued", s)]
    /\ UNCHANGED <<connection, request, view, standing, edited, exchanged, changes>>

\* The state's time to live is over.
Expire(g) ==
    /\ grant[g].stage = "issued"
    /\ grant' = [grant EXCEPT ![g].stage = "expired"]
    /\ UNCHANGED <<connection, request, view, standing, edited, exchanged, changes>>

\* Mutated form of Usable: a consumed state is not refused.
UsableUnlessExpired(g) == grant[g].stage \in {"issued", "consumed"}

\* _consume_state() accepts the state.
Usable(g) == grant[g].stage = "issued"

\* The browser comes back, perhaps more than once: the state is consumed under a
\* lock on its row, and the code handed to Meta.
Consume(r, g) ==
    /\ request[r] = Idle
    /\ Usable(g)
    /\ grant' = [grant EXCEPT ![g].stage = "consumed"]
    /\ request' = [request EXCEPT ![r] = Call("exchanging", g, None, NoRow)]
    /\ exchanged' = [exchanged EXCEPT ![g] = @ + 1]
    /\ UNCHANGED <<connection, view, standing, edited, changes>>

\* Meta names the account and issues a token for it.
Exchange(r) ==
    /\ request[r].stage = "exchanging"
    /\ \E a \in Accounts :
          request' = [request EXCEPT ![r] = [@ EXCEPT !.stage = "checking", !.account = a]]
    /\ UNCHANGED <<connection, grant, view, standing, edited, exchanged, changes>>

\* Any of the calls to Meta fails or answers nothing of use: the state is spent.
ExchangeFails(r) ==
    /\ request[r].stage = "exchanging"
    /\ request' = [request EXCEPT ![r] = Idle]
    /\ UNCHANGED <<connection, grant, view, standing, edited, exchanged, changes>>

\* complete() looks again at what begin() has required.
CheckOwner(r) ==
    /\ request[r].stage = "checking"
    /\ request' =
          [request EXCEPT ![r] =
              IF standing[StoreOf(r)] = Needs THEN [@ EXCEPT !.stage = "loading"] ELSE Idle]
    /\ UNCHANGED <<connection, grant, view, standing, edited, exchanged, changes>>

\* _save_connection() reads the store's row; an archived one is not used again.
LoadConnection(r) ==
    LET read == connection[StoreOf(r)]
    IN
    /\ request[r].stage = "loading"
    /\ request' =
          [request EXCEPT ![r] =
              IF read.status = "archived" THEN Idle
              ELSE [@ EXCEPT !.stage = "saving", !.read = read]]
    /\ UNCHANGED <<connection, grant, view, standing, edited, exchanged, changes>>

\* Mutated form of Unmoved: no version column.
UnmovedAnyway(r) == TRUE

\* The INSERT finds no row of the store, the UPDATE the revision that was read.
Unmoved(r) == request[r].read.revision = connection[StoreOf(r)].revision

\* Only the columns that differ from what was read are written.
Column(read, new, now) == IF read = new THEN now ELSE new

\* A new row, or the new account and token over the row's.
Save(r) ==
    LET s == StoreOf(r)
        read == request[r].read
        a == request[r].account
    IN
    /\ request[r].stage = "saving"
    /\ connection[s].revision < MaxRevision
    /\ Unmoved(r)
    /\ Free(a, s)
    /\ connection' =
          [connection EXCEPT ![s] =
              Row(Column(read.status, "active", @.status), Column(read.account, a, @.account),
                  a, read.revision + 1)]
    /\ edited' = edited \ {s}
    /\ request' = [request EXCEPT ![r] = Idle]
    /\ UNCHANGED <<grant, view, standing, exchanged, changes>>

\* The row has moved, or another store has the account: nothing is saved.
SaveFails(r) ==
    /\ request[r].stage = "saving"
    /\ ~Unmoved(r) \/ ~Free(request[r].account, StoreOf(r))
    /\ request' = [request EXCEPT ![r] = Idle]
    /\ UNCHANGED <<connection, grant, view, standing, edited, exchanged, changes>>

\* The process dies; a state that was consumed stays so.
Crash(r) ==
    /\ request[r] # Idle
    /\ request' = [request EXCEPT ![r] = Idle]
    /\ UNCHANGED <<connection, grant, view, standing, edited, exchanged, changes>>

--------------------------------------------------------------------------------
(* Management: one transaction, with the revision that the operator sees   *)

\* The operator opens the page of the connection.
Look(s) ==
    /\ view' = [view EXCEPT ![s] = connection[s]]
    /\ UNCHANGED <<connection, grant, request, standing, edited, exchanged, changes>>

\* Mutated form of Current: expected_revision is not compared.
CurrentAnyway(s) == TRUE

\* _check_revision(), and the version of the UPDATE.
Current(s) == view[s].revision = connection[s].revision

\* _ensure_writable(), _ensure_mutable() and _check_revision().
Mutable(s) ==
    /\ "open" \in standing[s]
    /\ connection[s].status \notin {"none", "archived"}
    /\ Current(s)
    /\ connection[s].revision < MaxRevision

\* The row of s becomes row, with the next revision.
Store(s, row) ==
    /\ connection' = [connection EXCEPT ![s] = [row EXCEPT !.revision = connection[s].revision + 1]]
    /\ UNCHANGED <<grant, request, view, standing, exchanged, changes>>

\* create_connection(): the first row of the store, to be activated later.
Create(s, a) ==
    /\ "open" \in standing[s]
    /\ connection[s] = NoRow
    /\ Free(a, s)
    /\ Store(s, Row("pending", a, None, 0))
    /\ edited' = edited \cup {s}

\* update_connection(): here, another account; the token stays.
Update(s, a) ==
    /\ Mutable(s)
    /\ a # connection[s].account
    /\ Free(a, s)
    /\ Store(s, [connection[s] EXCEPT !.account = a])
    /\ edited' = edited \cup {s}

\* rotate_token(): whatever the operator has typed in.
RotateToken(s) ==
    /\ Mutable(s)
    /\ Store(s, [connection[s] EXCEPT !.token = Typed])
    /\ edited' = edited \cup {s}

\* activate(): needs a token.
Activate(s) ==
    /\ Mutable(s)
    /\ connection[s].token # None
    /\ "active" \in Allowed[connection[s].status]
    /\ Store(s, [connection[s] EXCEPT !.status = "active"])
    /\ UNCHANGED edited

\* disconnect() and archive().
Transition(s, target) ==
    /\ Mutable(s)
    /\ target \in Allowed[connection[s].status]
    /\ Store(s, [connection[s] EXCEPT !.status = target])
    /\ UNCHANGED edited

--------------------------------------------------------------------------------
(* What goes on elsewhere: plans end, members leave, stores are suspended  *)

ChangeStanding(s) ==
    /\ changes < MaxChanges
    /\ changes' = changes + 1
    /\ \E n \in Needs :
          standing' = [standing EXCEPT ![s] = IF n \in @ THEN @ \ {n} ELSE @ \cup {n}]
    /\ UNCHANGED <<connection, grant, request, view, edited, exchanged>>

--------------------------------------------------------------------------------
Init ==
    /\ connection = [s \in Stores |-> NoRow]
    /\ grant = [g \in Grants |-> Unused]
    /\ request = [r \in Requests |-> Idle]
    /\ view = [s \in Stores |-> NoRow]
    /\ standing = [s \in Stores |-> Needs]
    /\ edited = {}
    /\ exchanged = [g \in Grants |-> 0]
    /\ changes = 0

Authorize(g) == Expire(g) \/ \E s \in Stores : Begin(g, s)

Callback(r) ==
    \/ \E g \in Grants : Consume(r, g)
    \/ Exchange(r)
    \/ ExchangeFails(r)
    \/ CheckOwner(r)
    \/ LoadConnection(r)
    \/ Save(r)
    \/ SaveFails(r)
    \/ Crash(r)

\* The endpoints that take data, and those that take a decision.
Edit(s) == RotateToken(s) \/ \E a \in Accounts : Create(s, a) \/ Update(s, a)
Decide(s) ==
    \/ Activate(s)
    \/ Transition(s, "disconnected")
    \/ Transition(s, "archived")

Manage(s) == Look(s) \/ Edit(s) \/ Decide(s)

Next ==
    \/ \E g \in Grants : Authorize(g)
    \/ \E r \in Requests : Callback(r)
    \/ \E s \in Stores : Manage(s) \/ ChangeStanding(s)

Spec == Init /\ [][Next]_vars

--------------------------------------------------------------------------------
(* Properties                                                              *)

Rows ==
    [status : Statuses, account : Accounts \cup {None},
     token : Accounts \cup {None, Typed}, revision : 0 .. MaxRevision]
Stages == {"idle", "exchanging", "checking", "loading", "saving"}

\* Every variable holds what its declaration says.
TypeOK ==
    /\ connection \in [Stores -> Rows]
    /\ grant \in [Grants ->
          [stage : {"unused", "issued", "consumed", "expired"}, store : Stores \cup {None}]]
    /\ request \in [Requests ->
          [stage : Stages, of : Grants \cup {None}, account : Accounts \cup {None}, read : Rows]]
    /\ view \in [Stores -> Rows]
    /\ standing \in [Stores -> SUBSET Needs]
    /\ edited \in SUBSET Stores
    /\ exchanged \in [Grants -> Nat]
    /\ changes \in 0 .. MaxChanges

\* As long as nobody has entered data by hand, a token stays with the account it
\* was issued for, whatever callbacks race to write the row: the sender of
\* outbound messages takes both from it.
TokenOfAccount ==
    \A s \in Stores \ edited : connection[s].token = connection[s].account

\* A state opens one exchange with Meta, however often the browser comes back
\* and whichever processes serve it.
OneExchangePerGrant == \A g \in Grants : exchanged[g] <= 1

\* An archived connection is never changed again, not even by a callback that
\* has read it before.
ArchivedIsFinal ==
    [][\A s \in Stores :
          connection[s].status = "archived" => connection'[s] = connection[s]]_vars

\* An operator's change is made to the row that the operator has looked at, not
\* to one that a callback has written since.
DecidedAsSeen ==
    [][\A s \in Stores :
          connection[s] # NoRow /\ connection'[s] # connection[s] =>
              \/ view[s] = connection[s]
              \/ \E r \in Requests : Save(r) /\ StoreOf(r) = s]_vars
================================================================================
