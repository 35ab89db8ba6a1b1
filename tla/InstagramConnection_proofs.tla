----------------------- MODULE InstagramConnection_proofs -----------------------
(***************************************************************************)
(* What holds of the connections of any number of stores and accounts,     *)
(* whatever callbacks and operators interleave.                            *)
(*                                                                         *)
(* A row that a callback or an operator has read is as the row was at some *)
(* time: if it has the row's revision it is the row (ReadsArePast). All    *)
(* the properties of the rows follow from that.                            *)
(***************************************************************************)
EXTENDS InstagramConnection, TLAPS

\* What a state and a callback are for.
Bound ==
    /\ \A g \in Grants : grant[g].stage # "unused" => grant[g].store \in Stores
    /\ \A r \in Requests : request[r].stage # "idle" =>
          request[r].of \in Grants /\ grant[request[r].of].stage # "unused"
    /\ \A r \in Requests :
          request[r].stage \in {"checking", "loading", "saving"} => request[r].account \in Accounts

\* old is the row of s, or was.
Past(old, s) ==
    /\ old.revision <= connection[s].revision
    /\ old.revision = connection[s].revision => old = connection[s]

ReadsArePast ==
    /\ \A s \in Stores : Past(view[s], s)
    /\ \A s \in Stores : connection[s].revision = 0 => connection[s] = NoRow
    /\ \A r \in Requests : request[r].stage = "saving" =>
          Past(request[r].read, StoreOf(r)) /\ request[r].read.status # "archived"

UnusedNotExchanged ==
    \A g \in Grants :
       /\ exchanged[g] <= 1
       /\ grant[g].stage \in {"unused", "issued"} => exchanged[g] = 0

Inv == TypeOK /\ Bound /\ ReadsArePast /\ UnusedNotExchanged /\ TokenOfAccount

--------------------------------------------------------------------------------
(* Rows                                                                    *)

LEMMA NoRowRow == NoRow \in Rows /\ NoRow.status = "none" /\ NoRow.revision = 0
BY ConnectionAssumption DEF ConnectionAssumption, NoRow, Row, Rows, Statuses

\* The row of a store is written, and the callback that has written it, if any, ends.
LEMMA RowChanges ==
    ASSUME Inv, NEW s \in Stores, NEW new \in Rows,
           new.revision = connection[s].revision + 1,
           connection' = [connection EXCEPT ![s] = new],
           s \in edited' \/ new.token = new.account,
           edited' \in SUBSET Stores, edited \ {s} \subseteq edited',
           UNCHANGED <<grant, view, standing, exchanged, changes>>,
           NEW r, request' = request \/ request' = [request EXCEPT ![r] = Idle]
    PROVE  Inv'
<1>1. connection' \in [Stores -> Rows] /\ connection'[s] = new
      /\ \A t \in Stores \ {s} : connection'[t] = connection[t]
  BY DEF Inv, TypeOK
<1>2. \A q \in Requests : request'[q] = request[q] \/ request'[q] = Idle
  BY DEF Inv, TypeOK
<1>3. Idle.stage = "idle" /\ Idle \in [stage : Stages, of : Grants \cup {None},
                                       account : Accounts \cup {None}, read : Rows]
  BY NoRowRow DEF Idle, Call, Stages
<1>4. TypeOK'
  <2>1. request' \in [Requests -> [stage : Stages, of : Grants \cup {None},
                                   account : Accounts \cup {None}, read : Rows]]
    BY <1>3 DEF Inv, TypeOK
  <2> QED
    BY <1>1, <2>1 DEF Inv, TypeOK
<1>5. Bound'
  BY <1>2, <1>3 DEF Inv, Bound
<1>6. \A old \in Rows, t \in Stores : Past(old, t) => Past(old, t)'
  BY <1>1 DEF Past, Inv, TypeOK, Rows
<1>7. ReadsArePast'
  <2>1. \A t \in Stores : Past(view[t], t)' /\ (connection'[t].revision = 0 => connection'[t] = NoRow)
    BY <1>1, <1>6 DEF Inv, ReadsArePast, TypeOK, Rows
  <2>2. ASSUME NEW q \in Requests, request'[q].stage = "saving"
        PROVE  Past(request[q].read, StoreOf(q))' /\ request'[q].read.status # "archived"
    <3>1. request'[q] = request[q] /\ request[q].stage = "saving"
      BY <1>2, <1>3, <2>2
    <3>2. request[q].read \in Rows /\ StoreOf(q) \in Stores
      BY <3>1 DEF Inv, TypeOK, Bound, StoreOf
    <3>3. Past(request[q].read, StoreOf(q)) /\ request[q].read.status # "archived"
      BY <3>1 DEF Inv, ReadsArePast
    <3> QED
      BY <1>6, <3>1, <3>2, <3>3 DEF Past, StoreOf
  <2> QED
    BY <2>1, <2>2 DEF ReadsArePast
<1>8. UnusedNotExchanged' /\ TokenOfAccount'
  BY <1>1 DEF Inv, UnusedNotExchanged, TokenOfAccount
<1> QED
  BY <1>4, <1>5, <1>7, <1>8 DEF Inv

\* A callback goes on, with the row it has read if it is about to save.
LEMMA RequestMoves ==
    ASSUME Inv, NEW r \in Requests,
           NEW new \in [stage : Stages, of : Grants \cup {None},
                        account : Accounts \cup {None}, read : Rows],
           request' = [request EXCEPT ![r] = new],
           new.stage # "idle" => new.of = request[r].of /\ request[r].stage # "idle",
           new.stage \in {"checking", "loading", "saving"} => new.account \in Accounts,
           new.stage = "saving" =>
              new.read = connection[StoreOf(r)] /\ new.read.status # "archived",
           UNCHANGED <<connection, grant, view, standing, edited, exchanged, changes>>
    PROVE  Inv'
<1>1. request'[r] = new /\ \A q \in Requests \ {r} : request'[q] = request[q]
  BY DEF Inv, TypeOK
<1>2. TypeOK'
  BY DEF Inv, TypeOK
<1>3. Bound'
  BY <1>1 DEF Inv, Bound
<1>4. ReadsArePast'
  <2>1. ASSUME NEW q \in Requests, request'[q].stage = "saving"
        PROVE  Past(request[q].read, StoreOf(q))' /\ request'[q].read.status # "archived"
    <3>1. CASE q = r
      <4>1. new.read.revision \in Nat /\ new.read = connection[grant[new.of].store]
        BY <1>1, <2>1, <3>1 DEF Rows, StoreOf
      <4> QED
        BY <1>1, <2>1, <3>1, <4>1 DEF Past, StoreOf
    <3>2. CASE q # r
      BY <1>1, <2>1, <3>2 DEF Inv, ReadsArePast, Past, StoreOf
    <3> QED
      BY <3>1, <3>2
  <2> QED
    BY <2>1 DEF Inv, ReadsArePast, Past
<1>5. UnusedNotExchanged' /\ TokenOfAccount'
  BY DEF Inv, UnusedNotExchanged, TokenOfAccount
<1> QED
  BY <1>2, <1>3, <1>4, <1>5 DEF Inv

LEMMA RequestEnds ==
    ASSUME Inv, NEW r \in Requests, request' = [request EXCEPT ![r] = Idle],
           UNCHANGED <<connection, grant, view, standing, edited, exchanged, changes>>
    PROVE  Inv'
<1>1. Idle.stage = "idle" /\ Idle \in [stage : Stages, of : Grants \cup {None},
                                       account : Accounts \cup {None}, read : Rows]
  BY NoRowRow DEF Idle, Call, Stages
<1> HIDE DEF Idle
<1> QED
  BY <1>1, RequestMoves

--------------------------------------------------------------------------------
(* Authorization                                                           *)

LEMMA AuthorizeKeeps ==
    ASSUME Inv, NEW g \in Grants, Authorize(g)
    PROVE  Inv'
<1>1. PICK new \in [stage : {"issued", "expired"}, store : Stores] :
         /\ grant' = [grant EXCEPT ![g] = new]
         /\ grant[g].stage = "issued" => new.stage = "expired" /\ new.store = grant[g].store
         /\ grant[g].stage \in {"unused", "issued"}
  <2>1. ASSUME NEW s \in Stores, Begin(g, s)
        PROVE  /\ Grant("issued", s) \in [stage : {"issued", "expired"}, store : Stores]
               /\ grant' = [grant EXCEPT ![g] = Grant("issued", s)]
               /\ grant[g].stage = "unused"
    BY <2>1 DEF Begin, Grant, Unused
  <2>2. ASSUME Expire(g)
        PROVE  \E new \in [stage : {"issued", "expired"}, store : Stores] :
                  /\ grant' = [grant EXCEPT ![g] = new]
                  /\ new.stage = "expired" /\ new.store = grant[g].store
                  /\ grant[g].stage = "issued"
    <3> DEFINE new == [grant[g] EXCEPT !.stage = "expired"]
    <3>1. new \in [stage : {"issued", "expired"}, store : Stores]
          /\ new.stage = "expired" /\ new.store = grant[g].store
      BY <2>2 DEF Expire, Inv, TypeOK, Bound
    <3>2. grant' = [grant EXCEPT ![g] = new] /\ grant[g].stage = "issued"
      BY <2>2 DEF Expire
    <3> HIDE DEF new
    <3> QED
      BY <3>1, <3>2
  <2> QED
    BY <2>1, <2>2 DEF Authorize
<1>2. UNCHANGED <<connection, request, view, standing, edited, exchanged, changes>>
  BY DEF Authorize, Begin, Expire
<1>3. grant'[g] = new /\ \A h \in Grants \ {g} : grant'[h] = grant[h]
  BY <1>1 DEF Inv, TypeOK
<1>4. TypeOK'
  BY <1>1, <1>2 DEF Inv, TypeOK
<1>5. Bound'
  BY <1>1, <1>2, <1>3 DEF Inv, Bound
<1>6. ReadsArePast'
  <2>1. \A r \in Requests : request[r].stage = "saving" => StoreOf(r)' = StoreOf(r)
    BY <1>1, <1>2, <1>3 DEF Inv, Bound, StoreOf
  <2> QED
    BY <1>2, <2>1 DEF Inv, ReadsArePast, Past
<1>7. UnusedNotExchanged' /\ TokenOfAccount'
  BY <1>1, <1>2, <1>3 DEF Inv, UnusedNotExchanged, TokenOfAccount
<1> QED
  BY <1>4, <1>5, <1>6, <1>7 DEF Inv

LEMMA ConsumeKeeps ==
    ASSUME Inv, NEW r \in Requests, NEW g \in Grants, Consume(r, g)
    PROVE  Inv'
<1> DEFINE new == [grant[g] EXCEPT !.stage = "consumed"]
           call == Call("exchanging", g, None, NoRow)
<1>1. new \in [stage : {"consumed"}, store : Stores] /\ new.store = grant[g].store
  BY DEF Consume, Usable, Inv, TypeOK, Bound
<1>2. call.stage = "exchanging" /\ call.of = g
      /\ call \in [stage : Stages, of : Grants \cup {None},
                   account : Accounts \cup {None}, read : Rows]
  BY NoRowRow DEF Call, Stages
<1>3. /\ grant' = [grant EXCEPT ![g] = new] /\ request' = [request EXCEPT ![r] = call]
      /\ exchanged' = [exchanged EXCEPT ![g] = @ + 1] /\ grant[g].stage = "issued"
      /\ UNCHANGED <<connection, view, standing, edited, changes>>
  BY DEF Consume, Usable
<1> HIDE DEF new, call
<1>4. /\ grant'[g] = new /\ \A h \in Grants \ {g} : grant'[h] = grant[h]
      /\ request'[r] = call /\ \A q \in Requests \ {r} : request'[q] = request[q]
  BY <1>3 DEF Inv, TypeOK
<1>5. exchanged'[g] = 1 /\ \A h \in Grants \ {g} : exchanged'[h] = exchanged[h]
  BY <1>3 DEF Inv, TypeOK, UnusedNotExchanged
<1>6. TypeOK'
  BY <1>1, <1>2, <1>3 DEF Inv, TypeOK
<1>7. Bound'
  BY <1>1, <1>2, <1>4 DEF Inv, Bound
<1>8. ReadsArePast'
  <2>1. \A q \in Requests : request'[q].stage = "saving" =>
           request'[q] = request[q] /\ StoreOf(q)' = StoreOf(q)
    BY <1>1, <1>2, <1>4 DEF Inv, Bound, StoreOf
  <2> QED
    BY <1>3, <2>1 DEF Inv, ReadsArePast, Past
<1>9. UnusedNotExchanged' /\ TokenOfAccount'
  BY <1>1, <1>3, <1>4, <1>5 DEF Inv, UnusedNotExchanged, TokenOfAccount
<1> QED
  BY <1>6, <1>7, <1>8, <1>9 DEF Inv

\* A callback that has the latest row knows what it writes over.
LEMMA SaveWrites ==
    ASSUME Inv, NEW r \in Requests, Save(r)
    PROVE  /\ StoreOf(r) \in Stores /\ request[r].read = connection[StoreOf(r)]
           /\ connection[StoreOf(r)].status # "archived"
           /\ connection' = [connection EXCEPT ![StoreOf(r)] =
                                Row("active", request[r].account, request[r].account,
                                    connection[StoreOf(r)].revision + 1)]
<1>1. StoreOf(r) \in Stores
  BY DEF Save, Inv, Bound, StoreOf
<1>2. request[r].read = connection[StoreOf(r)] /\ request[r].read.status # "archived"
  BY <1>1 DEF Save, Unmoved, Inv, ReadsArePast, Past
<1> QED
  BY <1>1, <1>2 DEF Save, Column

LEMMA SaveKeeps ==
    ASSUME Inv, NEW r \in Requests, Save(r)
    PROVE  Inv'
<1> DEFINE s == StoreOf(r)
           new == Row("active", request[r].account, request[r].account,
                      connection[s].revision + 1)
<1>1. s \in Stores /\ connection' = [connection EXCEPT ![s] = new]
  BY SaveWrites
<1>2. new \in Rows /\ new.revision = connection[s].revision + 1 /\ new.token = new.account
  BY <1>1, ConnectionAssumption
     DEF Save, Row, Rows, Statuses, Inv, TypeOK, Bound, ConnectionAssumption
<1>3. request' = [request EXCEPT ![r] = Idle] /\ edited' = edited \ {s}
      /\ edited' \in SUBSET Stores
      /\ UNCHANGED <<grant, view, standing, exchanged, changes>>
  BY DEF Save, Inv, TypeOK
<1> HIDE DEF new, s
<1> QED
  BY <1>1, <1>2, <1>3, RowChanges

LEMMA CallbackKeeps ==
    ASSUME Inv, NEW r \in Requests, Callback(r)
    PROVE  Inv'
<1> DEFINE Calls == [stage : Stages, of : Grants \cup {None},
                     account : Accounts \cup {None}, read : Rows]
<1>1. request[r] \in Calls
  BY DEF Inv, TypeOK
<1>2. ASSUME ExchangeFails(r) \/ SaveFails(r) \/ Crash(r) PROVE Inv'
  BY <1>2, RequestEnds DEF ExchangeFails, SaveFails, Crash
<1>3. ASSUME NEW a \in Accounts, request[r].stage = "exchanging",
             request' = [request EXCEPT ![r] = [@ EXCEPT !.stage = "checking", !.account = a]],
             UNCHANGED <<connection, grant, view, standing, edited, exchanged, changes>>
      PROVE  Inv'
  <2> DEFINE new == [request[r] EXCEPT !.stage = "checking", !.account = a]
  <2>1. new \in Calls /\ new.stage = "checking" /\ new.account = a /\ new.of = request[r].of
    BY <1>1 DEF Stages
  <2>2. request' = [request EXCEPT ![r] = new]
    BY <1>3
  <2> HIDE DEF new
  <2> QED
    BY <1>3, <2>1, <2>2, RequestMoves
<1>4. ASSUME CheckOwner(r) PROVE Inv'
  <2> DEFINE new == [request[r] EXCEPT !.stage = "loading"]
  <2>1. new \in Calls /\ new.stage = "loading" /\ new.of = request[r].of
        /\ new.account = request[r].account
    BY <1>1 DEF Stages
  <2>2. request' = [request EXCEPT ![r] = new] \/ request' = [request EXCEPT ![r] = Idle]
    BY <1>4 DEF CheckOwner
  <2>3. request[r].account \in Accounts /\ request[r].stage # "idle"
    BY <1>4 DEF CheckOwner, Inv, Bound
  <2> HIDE DEF new
  <2> QED
    BY <1>4, <2>1, <2>2, <2>3, RequestMoves, RequestEnds DEF CheckOwner
<1>5. ASSUME LoadConnection(r) PROVE Inv'
  <2> DEFINE new == [request[r] EXCEPT !.stage = "saving", !.read = connection[StoreOf(r)]]
  <2>1. StoreOf(r) \in Stores /\ request[r].account \in Accounts /\ request[r].stage # "idle"
    BY <1>5 DEF LoadConnection, Inv, Bound, StoreOf
  <2>2. new \in Calls /\ new.stage = "saving" /\ new.of = request[r].of
        /\ new.account = request[r].account /\ new.read = connection[StoreOf(r)]
    BY <1>1, <2>1 DEF Stages, Inv, TypeOK
  <2>3. \/ request' = [request EXCEPT ![r] = Idle]
        \/ /\ request' = [request EXCEPT ![r] = new]
           /\ connection[StoreOf(r)].status # "archived"
    BY <1>5 DEF LoadConnection
  <2> HIDE DEF new
  <2> QED
    BY <1>5, <2>1, <2>2, <2>3, RequestMoves, RequestEnds DEF LoadConnection
<1> QED
  BY <1>2, <1>3, <1>4, <1>5, ConsumeKeeps, SaveKeeps DEF Callback, Exchange

--------------------------------------------------------------------------------
(* Management                                                              *)

LEMMA LookKeeps == ASSUME Inv, NEW s \in Stores, Look(s) PROVE Inv'
<1>1. view'[s] = connection[s] /\ \A t \in Stores \ {s} : view'[t] = view[t]
  BY DEF Look, Inv, TypeOK
<1>2. TypeOK'
  BY DEF Look, Inv, TypeOK
<1>3. ReadsArePast'
  <2>1. \A t \in Stores : connection[t].revision \in Nat
    BY DEF Inv, TypeOK, Rows
  <2> QED
    BY <1>1, <2>1 DEF Look, Inv, ReadsArePast, Past, StoreOf
<1>4. Bound' /\ UnusedNotExchanged' /\ TokenOfAccount'
  BY DEF Look, Inv, Bound, UnusedNotExchanged, TokenOfAccount
<1> QED
  BY <1>2, <1>3, <1>4 DEF Inv

\* A row that an operator writes.
LEMMA StoreKeeps ==
    ASSUME Inv, NEW s \in Stores, NEW row \in Rows, Store(s, row),
           connection[s].revision < MaxRevision,
           \/ edited' = edited \cup {s}
           \/ /\ edited' = edited
              /\ row.token = connection[s].token /\ row.account = connection[s].account
    PROVE  Inv'
<1> DEFINE new == [row EXCEPT !.revision = connection[s].revision + 1]
<1>1. new \in Rows /\ new.revision = connection[s].revision + 1
      /\ new.token = row.token /\ new.account = row.account
  BY ConnectionAssumption DEF Inv, TypeOK, Rows, ConnectionAssumption
<1>2. connection' = [connection EXCEPT ![s] = new] /\ request' = request
      /\ UNCHANGED <<grant, view, standing, exchanged, changes>>
  BY DEF Store
<1>3. edited' \in SUBSET Stores /\ edited \ {s} \subseteq edited'
  BY DEF Inv, TypeOK
<1>4. s \in edited' \/ new.token = new.account
  BY <1>1 DEF Inv, TokenOfAccount
<1> HIDE DEF new
<1> QED
  BY <1>1, <1>2, <1>3, <1>4, RowChanges

LEMMA ManageKeeps == ASSUME Inv, NEW s \in Stores, Manage(s) PROVE Inv'
<1>1. connection[s] \in Rows
  BY DEF Inv, TypeOK
<1>2. ASSUME NEW a \in Accounts, Create(s, a) PROVE Inv'
  <2>1. Row("pending", a, None, 0) \in Rows
    BY ConnectionAssumption DEF ConnectionAssumption, Row, Rows, Statuses
  <2>2. connection[s].revision < MaxRevision
    BY <1>2, NoRowRow, ConnectionAssumption DEF Create, ConnectionAssumption
  <2> QED
    BY <1>2, <2>1, <2>2, StoreKeeps DEF Create
<1>3. ASSUME NEW a \in Accounts, Update(s, a) PROVE Inv'
  <2>1. [connection[s] EXCEPT !.account = a] \in Rows
    BY <1>1 DEF Rows
  <2> QED
    BY <1>3, <2>1, StoreKeeps DEF Update, Mutable
<1>4. ASSUME RotateToken(s) PROVE Inv'
  <2>1. [connection[s] EXCEPT !.token = Typed] \in Rows
    BY <1>1 DEF Rows
  <2> QED
    BY <1>4, <2>1, StoreKeeps DEF RotateToken, Mutable
<1>5. ASSUME Decide(s) PROVE Inv'
  <2>1. PICK target \in {"active", "disconnected", "archived"} :
           Mutable(s) /\ Store(s, [connection[s] EXCEPT !.status = target]) /\ edited' = edited
    BY <1>5 DEF Decide, Activate, Transition
  <2> DEFINE row == [connection[s] EXCEPT !.status = target]
  <2>2. row \in Rows /\ row.token = connection[s].token /\ row.account = connection[s].account
    BY <1>1 DEF Rows, Statuses
  <2>3. Store(s, row)
    BY <2>1
  <2> HIDE DEF row
  <2> QED
    BY <2>1, <2>2, <2>3, StoreKeeps DEF Mutable
<1> QED
  BY <1>2, <1>3, <1>4, <1>5, LookKeeps DEF Manage, Edit

--------------------------------------------------------------------------------
(* The theorems                                                            *)

LEMMA InitInv == Init => Inv
<1> SUFFICES ASSUME Init PROVE Inv
  OBVIOUS
<1>1. Idle.stage = "idle" /\ Idle \in [stage : Stages, of : Grants \cup {None},
                                       account : Accounts \cup {None}, read : Rows]
  BY NoRowRow DEF Idle, Call, Stages
<1>2. Unused.stage = "unused" /\ Unused \in [stage : {"unused", "issued", "consumed", "expired"},
                                             store : Stores \cup {None}]
  BY DEF Unused, Grant
<1>3. NoRow.token = NoRow.account
  BY DEF NoRow, Row
<1>4. TypeOK
  BY <1>1, <1>2, NoRowRow, ConnectionAssumption DEF Init, TypeOK, ConnectionAssumption
<1>5. Bound /\ UnusedNotExchanged /\ TokenOfAccount
  BY <1>1, <1>2, <1>3 DEF Init, Bound, UnusedNotExchanged, TokenOfAccount
<1>6. ReadsArePast
  BY <1>1, NoRowRow DEF Init, ReadsArePast, Past
<1> QED
  BY <1>4, <1>5, <1>6 DEF Inv

LEMMA NextInv == Inv /\ [Next]_vars => Inv'
<1> SUFFICES ASSUME Inv, [Next]_vars PROVE Inv'
  OBVIOUS
<1>1. ASSUME NEW s \in Stores, ChangeStanding(s) PROVE Inv'
  <2>1. TypeOK'
    <3>1. standing' \in [Stores -> SUBSET Needs]
      BY <1>1 DEF ChangeStanding, Inv, TypeOK
    <3>2. changes' \in 0 .. MaxChanges
      BY <1>1, ConnectionAssumption DEF ChangeStanding, Inv, TypeOK, ConnectionAssumption
    <3> QED
      BY <1>1, <3>1, <3>2 DEF ChangeStanding, Inv, TypeOK
  <2> QED
    BY <1>1, <2>1
       DEF ChangeStanding, Inv, Bound, ReadsArePast, Past, StoreOf, UnusedNotExchanged, TokenOfAccount
<1>2. ASSUME UNCHANGED vars PROVE Inv'
  BY <1>2 DEF vars, Inv, TypeOK, Bound, ReadsArePast, Past, StoreOf, UnusedNotExchanged,
              TokenOfAccount
<1> QED
  BY <1>1, <1>2, AuthorizeKeeps, CallbackKeeps, ManageKeeps DEF Next

LEMMA SpecInv == Spec => []Inv
BY InitInv, NextInv, PTL DEF Spec

\* Every variable keeps its type.
THEOREM ConnectionTypeCorrect == Spec => []TypeOK
<1>1. Inv => TypeOK
  BY DEF Inv
<1> QED
  BY <1>1, SpecInv, PTL

\* A token that has not been typed in is that of the row's account, whatever callbacks race.
THEOREM TokenOfAccountHolds == Spec => []TokenOfAccount
<1>1. Inv => TokenOfAccount
  BY DEF Inv
<1> QED
  BY <1>1, SpecInv, PTL

\* A state is exchanged once at most, whichever processes its browsers come back to.
THEOREM OneExchangePerGrantHolds == Spec => []OneExchangePerGrant
<1>1. Inv => OneExchangePerGrant
  BY DEF Inv, UnusedNotExchanged, OneExchangePerGrant
<1> QED
  BY <1>1, SpecInv, PTL

\* What a step may do to the row of s.
LEMMA RowSteps ==
    ASSUME Inv, [Next]_vars, NEW s \in Stores, connection'[s] # connection[s]
    PROVE  /\ connection[s].status # "archived"
           /\ \/ connection[s] = NoRow
              \/ view[s] = connection[s]
              \/ \E r \in Requests : Save(r) /\ StoreOf(r) = s
<1>1. ASSUME NEW t \in Stores, Manage(t)
      PROVE  /\ connection[s].status # "archived"
             /\ connection[s] = NoRow \/ view[s] = connection[s]
  <2>1. ~Look(t)
    BY DEF Look
  <2>2. PICK row : Store(t, row) /\ (Mutable(t) \/ connection[t] = NoRow)
    BY <1>1, <2>1 DEF Manage, Edit, Decide, Create, Update, RotateToken, Activate, Transition
  <2>3. s = t
    BY <2>2 DEF Store, Inv, TypeOK
  <2> QED
    BY <2>2, <2>3, NoRowRow DEF Mutable, Current, Inv, ReadsArePast, Past
<1>2. ASSUME NEW r \in Requests, Callback(r)
      PROVE  connection[s].status # "archived" /\ Save(r) /\ StoreOf(r) = s
  <2>1. Save(r)
    BY <1>2 DEF Callback, Consume, Exchange, ExchangeFails, CheckOwner, LoadConnection,
                SaveFails, Crash
  <2>2. StoreOf(r) = s
    BY <2>1, SaveWrites DEF Inv, TypeOK
  <2> QED
    BY <2>1, <2>2, SaveWrites
<1>3. ~ \E g \in Grants : Authorize(g)
  BY DEF Authorize, Begin, Expire
<1>4. ~ \E t \in Stores : ChangeStanding(t)
  BY DEF ChangeStanding
<1>5. ~UNCHANGED vars
  BY DEF vars
<1> QED
  BY <1>1, <1>2, <1>3, <1>4, <1>5 DEF Next

\* An archived connection never changes, not even by a callback that read it before.
THEOREM ArchivedIsFinalHolds == Spec => ArchivedIsFinal
<1> DEFINE Final == \A s \in Stores :
                       connection[s].status = "archived" => connection'[s] = connection[s]
<1>1. Inv /\ [Next]_vars => [Final]_vars
  BY RowSteps
<1> HIDE DEF Final
<1>2. ArchivedIsFinal <=> [][Final]_vars
  BY DEF ArchivedIsFinal, Final
<1> QED
  BY <1>1, <1>2, SpecInv, PTL DEF Spec

\* What an operator changes is what is on the operator's screen.
THEOREM DecidedAsSeenHolds == Spec => DecidedAsSeen
<1> DEFINE Seen == \A s \in Stores :
                      connection[s] # NoRow /\ connection'[s] # connection[s] =>
                         \/ view[s] = connection[s]
                         \/ \E r \in Requests : Save(r) /\ StoreOf(r) = s
<1>1. Inv /\ [Next]_vars => [Seen]_vars
  BY RowSteps
<1> HIDE DEF Seen
<1>2. DecidedAsSeen <=> [][Seen]_vars
  BY DEF DecidedAsSeen, Seen
<1> QED
  BY <1>1, <1>2, SpecInv, PTL DEF Spec

================================================================================
