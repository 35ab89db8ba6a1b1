---------------------------- MODULE Commerce_proofs ----------------------------
(***************************************************************************)
(* Payment, for any number of orders and of overlapping requests: types,   *)
(* one transaction per order, no entitlement without the money, and the    *)
(* agreement of entitlement, payment and order.                            *)
(*                                                                         *)
(* Entitlements, for any number of plans, subscriptions and overlapping    *)
(* requests: types, what is paid for works, and the limit of rules. The    *)
(* two modules share no name.                                              *)
(***************************************************************************)
EXTENDS OrderPayment, Entitlements, FiniteSetTheorems, WellFoundedInduction, TLAPS

--------------------------------------------------------------------------------
(* Payment: types.                                                         *)

RequestRecord == [pc : Phases, order : Orders \cup {NoOrder}, revision : Nat,
                  receipt : Nat, answer : Answers]

\* TypeOK, with the set of a request's records named.
TypeInv ==
    /\ payment \in [Orders -> Payment]
    /\ order \in [Orders -> OrderStatuses]
    /\ subscribed \subseteq Orders
    /\ request \in [Requests -> RequestRecord]
    /\ \A r \in Requests : request[r].pc # "idle" => request[r].order \in Orders
    /\ \A r \in Requests : request[r].pc = "replied" => request[r].answer \in Replies
    /\ creations \in [Orders -> Nat]
    /\ transferred \subseteq Orders /\ claimed \subseteq Orders /\ overlapped \subseteq Orders
    /\ judged \in [Orders -> Nat]

LEMMA TypeInvIsTypeOK == TypeInv <=> TypeOK
  BY DEF TypeInv, TypeOK, RequestRecord

--------------------------------------------------------------------------------
(* What the three ways of writing a payment row do to it.                  *)

LEMMA IdleRecord == Idle \in RequestRecord /\ Idle.pc = "idle"
  BY DEF Idle, RequestRecord, Phases, Answers

LEMMA NoPaymentRow == NoPayment \in Payment
  BY DEF NoPayment, Payment, Providers, PaymentStatuses, OperationStates

\* A move changes the operation's state, and nothing of any other order.
LEMMA MoveEffect ==
    ASSUME payment \in [Orders -> Payment], NEW o \in Orders, NEW op \in OperationStates, Move(o, op)
    PROVE  /\ payment' \in [Orders -> Payment]
           /\ \A p \in Orders : p # o => payment'[p] = payment[p]
           /\ payment'[o].op = op
           /\ payment'[o].provider = payment[o].provider
           /\ payment'[o].status = payment[o].status
           /\ payment'[o].known = payment[o].known
           /\ payment'[o].receipt = payment[o].receipt
           /\ payment'[o].revision = payment[o].revision + 1
  BY DEF Move, Payment

\* An approval settles the row, marks the order as paid and entitles.
LEMMA ApprovedEffect ==
    ASSUME payment \in [Orders -> Payment], order \in [Orders -> OrderStatuses],
           NEW o \in Orders, NEW op \in OperationStates, Approved(o, op)
    PROVE  /\ payment' \in [Orders -> Payment]
           /\ order' \in [Orders -> OrderStatuses]
           /\ \A p \in Orders : p # o => payment'[p] = payment[p] /\ order'[p] = order[p]
           /\ payment'[o].op = op
           /\ payment'[o].provider = payment[o].provider
           /\ payment'[o].status = "approved"
           /\ payment'[o].known = payment[o].known
           /\ payment'[o].receipt = payment[o].receipt
           /\ payment'[o].revision = payment[o].revision + 1
           /\ order'[o] = "paid"
           /\ subscribed' = subscribed \cup {o}
<1>1. payment' = [payment EXCEPT ![o].status = "approved", ![o].op = op, ![o].revision = @ + 1]
  BY DEF Approved, Settled
<1>2. /\ payment' \in [Orders -> Payment]
      /\ \A p \in Orders : p # o => payment'[p] = payment[p]
      /\ payment'[o].op = op
      /\ payment'[o].provider = payment[o].provider
      /\ payment'[o].status = "approved"
      /\ payment'[o].known = payment[o].known
      /\ payment'[o].receipt = payment[o].receipt
      /\ payment'[o].revision = payment[o].revision + 1
  BY <1>1 DEF Payment, PaymentStatuses
<1>3. order' \in [Orders -> OrderStatuses] /\ order'[o] = "paid" /\ subscribed' = subscribed \cup {o}
      /\ \A p \in Orders : p # o => order'[p] = order[p]
  BY DEF Approved, OrderStatuses
<1> QED
  BY <1>2, <1>3

--------------------------------------------------------------------------------

LEMMA TypeInit == Init => TypeInv
<1> SUFFICES ASSUME Init PROVE TypeInv
  OBVIOUS
<1>1. payment \in [Orders -> Payment] /\ order \in [Orders -> OrderStatuses]
  BY NoPaymentRow DEF Init, OrderStatuses
<1>2. request \in [Requests -> RequestRecord] /\ \A r \in Requests : request[r].pc = "idle"
  BY IdleRecord DEF Init
<1>3. creations \in [Orders -> Nat] /\ judged \in [Orders -> Nat]
  BY DEF Init
<1> QED
  BY <1>1, <1>2, <1>3 DEF Init, TypeInv

LEMMA TypeStep == TypeInv /\ [Next]_vars => TypeInv'
<1> SUFFICES ASSUME TypeInv, [Next]_vars PROVE TypeInv'
  OBVIOUS
<1> USE DEF TypeInv, Untouched, Unjudged, AtGateway
<1>1. ASSUME NEW o \in Orders, CreateManual(o) PROVE TypeInv'
  BY <1>1 DEF CreateManual, NoPayment, Payment, Providers, PaymentStatuses, OperationStates
<1>2. ASSUME NEW o \in Orders, SubmitReceipt(o) PROVE TypeInv'
  BY <1>2 DEF SubmitReceipt, Payment, PaymentStatuses, OrderStatuses
<1>3. ASSUME NEW o \in Orders, Transfer(o) PROVE TypeInv'
  BY <1>3 DEF Transfer
<1>4. ASSUME NEW r \in Requests, NEW o \in Orders, NEW g \in Gateways, StartCreate(r, o, g)
      PROVE TypeInv'
  <2>1. payment' \in [Orders -> Payment]
    BY <1>4 DEF StartCreate, NoPayment, Payment, Gateways, Providers, PaymentStatuses,
       OperationStates
  <2> QED
    BY <1>4, <2>1, IdleRecord DEF StartCreate, Idle, RequestRecord, Phases
<1>5. ASSUME NEW r \in Requests, NEW o \in Orders, BeginVerify(r, o) PROVE TypeInv'
  <2>1. payment' \in [Orders -> Payment]
    BY <1>5, MoveEffect DEF BeginVerify, OperationStates
  <2> QED
    BY <1>5, <2>1 DEF BeginVerify, Idle, RequestRecord, Phases, Answers
<1>6. ASSUME NEW r \in Requests, NEW o \in Orders, BeginPayexa(r, o) PROVE TypeInv'
  BY <1>6 DEF BeginPayexa, Idle, RequestRecord, Phases, Answers
<1>7. ASSUME NEW r \in Requests, NEW o \in Orders, Review(r, o) PROVE TypeInv'
  BY <1>7 DEF Review, Idle, RequestRecord, Phases, Answers, Payment
<1>8. ASSUME NEW r \in Requests, CallCreate(r) PROVE TypeInv'
  BY <1>8 DEF CallCreate, At, RequestRecord, Phases
<1>9. ASSUME NEW r \in Requests, NEW a \in {"created", "mispriced", "unknown", "refused"},
             RecordCreate(r, a)
      PROVE TypeInv'
  BY <1>9, IdleRecord DEF RecordCreate, At, Finish, Payment, OperationStates
<1>10. ASSUME NEW r \in Requests, NEW a \in {"verifying", "unpaid", "mismatched", "error"}, Check(r, a)
       PROVE TypeInv'
  BY <1>10, IdleRecord DEF Check, At, Finish, RequestRecord, Phases
<1>11. ASSUME NEW r \in Requests, RecordCheck(r) PROVE TypeInv'
  <2>1. payment' \in [Orders -> Payment]
    BY <1>11, MoveEffect DEF RecordCheck, At, OperationStates
  <2> QED
    BY <1>11, <2>1, IdleRecord DEF RecordCheck, At, Finish
<1>12. ASSUME NEW r \in Requests, NEW a \in {"matching", "other", "error"}, Verify(r, a)
      PROVE TypeInv'
  BY <1>12, IdleRecord DEF Verify, At, Finish, RequestRecord, Phases, Answers
<1>13. ASSUME NEW r \in Requests, ConcludeVerify(r) PROVE TypeInv'
  <2>1. request[r].order \in Orders
    BY <1>13 DEF ConcludeVerify, At
  <2>2. payment' \in [Orders -> Payment] /\ order' \in [Orders -> OrderStatuses] /\ subscribed' \subseteq Orders
    BY <1>13, <2>1, MoveEffect, ApprovedEffect DEF ConcludeVerify, OperationStates
  <2> QED
    BY <1>13, <2>2, IdleRecord DEF ConcludeVerify, Finish
<1>14. ASSUME NEW r \in Requests, NEW a \in Replies, Reply(r, a) PROVE TypeInv'
  <2>1. a \in Answers /\ request[r].pc # "idle"
    BY <1>14 DEF Reply, At, Answers
  <2>2. request' = [request EXCEPT ![r].pc = "replied", ![r].answer = a]
    BY <1>14 DEF Reply
  <2>3. request' \in [Requests -> RequestRecord]
    <3>1. ASSUME NEW q \in RequestRecord
          PROVE [q EXCEPT !.pc = "replied", !.answer = a] \in RequestRecord
      BY <2>1 DEF RequestRecord, Phases
    <3> QED
      BY <2>2, <3>1
  <2>4. claimed' \subseteq Orders
    BY <1>14, <2>1 DEF Reply
  <2>5. /\ request'[r].order = request[r].order /\ request'[r].answer = a
        /\ \A q \in Requests : q # r => request'[q] = request[q]
    BY <2>2 DEF RequestRecord
  <2> QED
    BY <1>14, <2>1, <2>3, <2>4, <2>5 DEF Reply
<1>15. ASSUME NEW r \in Requests, ConcludePayexa(r) PROVE TypeInv'
  <2>1. request[r].order \in Orders
    BY <1>15 DEF ConcludePayexa, At
  <2>2. payment' \in [Orders -> Payment] /\ order' \in [Orders -> OrderStatuses] /\ subscribed' \subseteq Orders
    <3>1. request[r].answer \in Replies
      BY <1>15 DEF ConcludePayexa, At
    <3>2. CASE Success(request[r].order, request[r].answer)
      BY <1>15, <2>1, <3>2, ApprovedEffect DEF ConcludePayexa, OperationStates
    <3>3. CASE ~Success(request[r].order, request[r].answer)
      <4>1. PICK op \in OperationStates : Move(request[r].order, op) /\ Untouched
        BY <1>15, <3>1, <3>3 DEF ConcludePayexa, OperationStates, Replies
      <4> QED
        BY <2>1, <4>1, MoveEffect
    <3> QED
      BY <3>2, <3>3
  <2> QED
    BY <1>15, <2>2, IdleRecord DEF ConcludePayexa, Finish
<1>16. ASSUME NEW r \in Requests, Approve(r) PROVE TypeInv'
  <2>1. request[r].order \in Orders /\ request[r].receipt \in Nat
    BY <1>16 DEF Approve, At, RequestRecord
  <2>2. payment' \in [Orders -> Payment] /\ order' \in [Orders -> OrderStatuses] /\ subscribed' \subseteq Orders
    BY <1>16, <2>1, ApprovedEffect DEF Approve, Payment
  <2> QED
    BY <1>16, <2>1, <2>2, IdleRecord DEF Approve, Finish
<1>17. ASSUME NEW r \in Requests, StartReject(r) PROVE TypeInv'
  BY <1>17 DEF StartReject, At, RequestRecord, Phases
<1>18. ASSUME NEW r \in Requests, FinishReject(r) PROVE TypeInv'
  BY <1>18, IdleRecord DEF FinishReject, At, Finish, RequestRecord, Payment, PaymentStatuses,
     OrderStatuses
<1>19. ASSUME NEW r \in Requests, Abandon(r) PROVE TypeInv'
  BY <1>19, IdleRecord DEF Abandon, Finish
<1>20. CASE UNCHANGED vars
  BY <1>20 DEF vars
<1> QED
  BY <1>1, <1>2, <1>3, <1>4, <1>5, <1>6, <1>7, <1>8, <1>9, <1>10, <1>11, <1>12, <1>13, <1>14,
     <1>15, <1>16, <1>17, <1>18, <1>19, <1>20 DEF Next, CustomerStep, OpenRequest, RequestStep

\* Every reachable state of payment is well typed: no overlap of requests
\* leaves a status that no reader knows.
THEOREM PaymentTypeCorrect == Spec => []TypeOK
  BY TypeInit, TypeStep, TypeInvIsTypeOK, PTL DEF Spec

--------------------------------------------------------------------------------
(* Requests and the rows that they work on.                                *)

Opening(r) == request[r].pc \in {"creating", "called"}

AskingKPay(r) == request[r].pc \in {"checking", "unpaid", "mismatched", "verifying", "verified"}

Holding(r) == request[r].pc \in {"locked", "replied"}

Judging(r) == request[r].pc \in {"reviewing", "rejecting"}

\* One request opens an order's gateway payment, and one Payexa verification
\* has its row to itself.
Exclusive ==
    \A q, r \in Requests :
        q # r /\ request[q].order = request[r].order
            => ~(Opening(q) /\ Opening(r)) /\ ~(Holding(q) /\ Holding(r))

\* The row of a request is of the provider the request is about, and as far as
\* nobody else writes it, as the request has left it.
OpeningRow ==
    \A r \in Requests :
        LET p == payment[request[r].order] IN
        Opening(r) => /\ p.provider \in Gateways /\ p.status = "pending"
                      /\ p.op = "CREATE_IN_FLIGHT" /\ ~p.known

KPayRow ==
    \A r \in Requests :
        LET p == payment[request[r].order] IN
        AskingKPay(r) => p.provider = "kpay" /\ p.known

HeldRow ==
    \A r \in Requests :
        LET p == payment[request[r].order] IN
        Holding(r) => /\ p.provider = "payexa" /\ p.known
                      /\ p.op \notin {"PAID", "FAILED", "RECONCILIATION_REQUIRED"}

JudgedRow ==
    \A r \in Requests : Judging(r) => payment[request[r].order].provider = "manual"

Rows == Exclusive /\ OpeningRow /\ KPayRow /\ HeldRow /\ JudgedRow

\* However Payexa's answer is concluded, the row stays of its provider, and is
\* approved only by a first answer, over a pending payment and order.
LEMMA ConcludePayexaEffect ==
    ASSUME TypeInv, NEW r \in Requests, ConcludePayexa(r)
    PROVE  LET o == request[r].order IN
           /\ o \in Orders
           /\ \A p \in Orders : p # o => payment'[p] = payment[p] /\ order'[p] = order[p]
           /\ payment'[o].provider = payment[o].provider
           /\ payment'[o].known = payment[o].known
           /\ payment'[o].receipt = payment[o].receipt
           /\ payment'[o].revision = payment[o].revision + 1
           /\ \/ /\ Success(o, request[r].answer)
                 /\ payment'[o].status = "approved" /\ payment'[o].op = "PAID"
                 /\ order'[o] = "paid" /\ subscribed' = subscribed \cup {o}
              \/ /\ payment'[o].status = payment[o].status
                 /\ order' = order /\ subscribed' = subscribed
           /\ request' = [request EXCEPT ![r] = Idle]
<1> DEFINE o == request[r].order
<1>1. o \in Orders /\ request[r].answer \in Replies
  BY DEF ConcludePayexa, At, TypeInv
<1>2. request' = [request EXCEPT ![r] = Idle]
  BY DEF ConcludePayexa, Finish
<1>3. CASE Success(o, request[r].answer)
  <2>1. Approved(o, "PAID")
    BY <1>3 DEF ConcludePayexa
  <2> QED
    BY <1>1, <1>2, <1>3, <2>1, ApprovedEffect DEF TypeInv, OperationStates
<1>4. CASE ~Success(o, request[r].answer)
  <2>1. PICK op \in OperationStates : Move(o, op) /\ Untouched
    BY <1>1, <1>4 DEF ConcludePayexa, OperationStates, Replies
  <2> QED
    BY <1>1, <1>2, <2>1, MoveEffect DEF TypeInv, Untouched
<1> QED
  BY <1>3, <1>4

LEMMA RowsInit == Init => Rows
  BY DEF Init, Idle, Rows, Exclusive, OpeningRow, KPayRow, HeldRow, JudgedRow,
         Opening, AskingKPay, Holding, Judging

LEMMA RowsStep == TypeInv /\ Rows /\ [Next]_vars => Rows'
<1> SUFFICES ASSUME TypeInv, Rows, [Next]_vars PROVE Rows'
  OBVIOUS
<1> USE DEF TypeInv, RequestRecord, Untouched, Unjudged, AtGateway, Finish, At, Idle,
        Rows, Exclusive, OpeningRow, KPayRow, HeldRow, JudgedRow,
        Opening, AskingKPay, Holding, Judging
<1>1. ASSUME NEW o \in Orders, CreateManual(o) PROVE Rows'
  BY <1>1 DEF CreateManual, NoPayment, Gateways
<1>2. ASSUME NEW o \in Orders, SubmitReceipt(o) PROVE Rows'
  BY <1>2 DEF SubmitReceipt, Payment, Gateways
<1>3. ASSUME NEW o \in Orders, Transfer(o) PROVE Rows'
  BY <1>3 DEF Transfer
<1>4. ASSUME NEW r \in Requests, NEW o \in Orders, NEW g \in Gateways, StartCreate(r, o, g)
      PROVE Rows'
  <2>1. Exclusive'
    BY <1>4 DEF StartCreate, Gateways
  <2>2. OpeningRow' /\ KPayRow' /\ HeldRow' /\ JudgedRow'
    BY <1>4 DEF StartCreate, Gateways, NoPayment
  <2> QED
    BY <2>1, <2>2
<1>5. ASSUME NEW r \in Requests, NEW o \in Orders, BeginVerify(r, o) PROVE Rows'
  <2>1. Exclusive'
    BY <1>5 DEF BeginVerify
  <2>2. OpeningRow' /\ KPayRow' /\ HeldRow' /\ JudgedRow'
    BY <1>5, MoveEffect DEF BeginVerify, OperationStates
  <2> QED
    BY <2>1, <2>2
<1>6. ASSUME NEW r \in Requests, NEW o \in Orders, BeginPayexa(r, o) PROVE Rows'
  BY <1>6 DEF BeginPayexa, Locked
<1>7. ASSUME NEW r \in Requests, NEW o \in Orders, Review(r, o) PROVE Rows'
  BY <1>7 DEF Review
<1>8. ASSUME NEW r \in Requests, CallCreate(r) PROVE Rows'
  BY <1>8 DEF CallCreate
<1>9. ASSUME NEW r \in Requests, NEW a \in {"created", "mispriced", "unknown", "refused"}, RecordCreate(r, a)
      PROVE Rows'
  <2>1. Exclusive'
    BY <1>9 DEF RecordCreate
  <2>2. OpeningRow'
    BY <1>9 DEF RecordCreate, Gateways, Payment
  <2>3. KPayRow'
    BY <1>9 DEF RecordCreate, Gateways, Payment
  <2>4. HeldRow'
    BY <1>9 DEF RecordCreate, Gateways, Payment
  <2>5. JudgedRow'
    BY <1>9 DEF RecordCreate, Gateways, Payment
  <2> QED
    BY <2>1, <2>2, <2>3, <2>4, <2>5
<1>10. ASSUME NEW r \in Requests, NEW a \in {"verifying", "unpaid", "mismatched", "error"}, Check(r, a)
      PROVE Rows'
  BY <1>10 DEF Check
<1>11. ASSUME NEW r \in Requests, RecordCheck(r) PROVE Rows'
  <2>1. Exclusive'
    BY <1>11 DEF RecordCheck
  <2>2. OpeningRow'
    BY <1>11, MoveEffect DEF RecordCheck, OperationStates
  <2>3. KPayRow'
    BY <1>11, MoveEffect DEF RecordCheck, OperationStates
  <2>4. HeldRow'
    BY <1>11, MoveEffect DEF RecordCheck, OperationStates
  <2>5. JudgedRow'
    BY <1>11, MoveEffect DEF RecordCheck, OperationStates
  <2> QED
    BY <2>1, <2>2, <2>3, <2>4, <2>5
<1>12. ASSUME NEW r \in Requests, NEW a \in {"matching", "other", "error"}, Verify(r, a) PROVE Rows'
  <2>1. CASE a = "error"
    <3>1. request' = [request EXCEPT ![r] = Idle] /\ payment' = payment
      BY <1>12, <2>1 DEF Verify
    <3> QED
      BY <3>1
  <2>2. CASE a # "error"
    <3>1. request' = [request EXCEPT ![r].pc = "verified", ![r].answer = a]
      BY <1>12, <2>2 DEF Verify
    <3>2. /\ request'[r].pc = "verified" /\ request'[r].order = request[r].order
          /\ \A q \in Requests : q # r => request'[q] = request[q]
      BY <3>1
    <3>3. request[r].pc = "verifying" /\ payment' = payment
      BY <1>12 DEF Verify
    <3> QED
      BY <3>2, <3>3
  <2> QED
    BY <2>1, <2>2
<1>13. ASSUME NEW r \in Requests, ConcludeVerify(r) PROVE Rows'
  <2>1. Exclusive'
    BY <1>13 DEF ConcludeVerify
  <2>2. OpeningRow'
    BY <1>13, MoveEffect, ApprovedEffect DEF ConcludeVerify, OperationStates
  <2>3. KPayRow'
    BY <1>13, MoveEffect, ApprovedEffect DEF ConcludeVerify, OperationStates
  <2>4. HeldRow'
    BY <1>13, MoveEffect, ApprovedEffect DEF ConcludeVerify, OperationStates
  <2>5. JudgedRow'
    BY <1>13, MoveEffect, ApprovedEffect DEF ConcludeVerify, OperationStates
  <2> QED
    BY <2>1, <2>2, <2>3, <2>4, <2>5
<1>14. ASSUME NEW r \in Requests, NEW a \in Replies, Reply(r, a) PROVE Rows'
  <2>1. request' = [request EXCEPT ![r].pc = "replied", ![r].answer = a]
    BY <1>14 DEF Reply
  <2>2. /\ request'[r].pc = "replied" /\ request'[r].order = request[r].order
        /\ \A q \in Requests : q # r => request'[q] = request[q]
    BY <2>1
  <2>3. request[r].pc = "locked" /\ payment' = payment
    BY <1>14 DEF Reply
  <2> QED
    BY <2>2, <2>3
<1>15. ASSUME NEW r \in Requests, ConcludePayexa(r) PROVE Rows'
  <2>1. request[r].pc = "replied"
    BY <1>15 DEF ConcludePayexa
  <2>2. Exclusive'
    BY <1>15, ConcludePayexaEffect
  <2>3. OpeningRow' /\ KPayRow' /\ JudgedRow'
    BY <1>15, <2>1, ConcludePayexaEffect DEF Gateways
  <2>4. HeldRow'
    BY <1>15, <2>1, ConcludePayexaEffect
  <2> QED
    BY <2>2, <2>3, <2>4
<1>16. ASSUME NEW r \in Requests, Approve(r) PROVE Rows'
  <2>1. request[r].order \in Orders /\ request[r].pc = "reviewing"
    BY <1>16 DEF Approve
  <2>2. /\ payment'[request[r].order].provider = payment[request[r].order].provider
        /\ payment'[request[r].order].known = payment[request[r].order].known
        /\ \A p \in Orders : p # request[r].order => payment'[p] = payment[p]
    <3>1. Approved(request[r].order, payment[request[r].order].op)
      BY <1>16 DEF Approve
    <3>2. payment[request[r].order].op \in OperationStates
      BY <2>1 DEF Payment
    <3> QED
      BY <2>1, <3>1, <3>2, ApprovedEffect
  <2>3. request' = [request EXCEPT ![r] = Idle]
    BY <1>16 DEF Approve
  <2>4. Exclusive'
    BY <2>3
  <2>5. OpeningRow' /\ KPayRow' /\ HeldRow' /\ JudgedRow'
    BY <2>1, <2>2, <2>3 DEF Gateways
  <2> QED
    BY <2>4, <2>5
<1>17. ASSUME NEW r \in Requests, StartReject(r) PROVE Rows'
  BY <1>17 DEF StartReject
<1>18. ASSUME NEW r \in Requests, FinishReject(r) PROVE Rows'
  <2>1. Exclusive'
    BY <1>18 DEF FinishReject
  <2>2. OpeningRow' /\ KPayRow' /\ HeldRow' /\ JudgedRow'
    BY <1>18 DEF FinishReject, Payment, Gateways
  <2> QED
    BY <2>1, <2>2
<1>19. ASSUME NEW r \in Requests, Abandon(r) PROVE Rows'
  BY <1>19 DEF Abandon
<1>20. CASE UNCHANGED vars
  BY <1>20 DEF vars
<1> QED
  BY <1>1, <1>2, <1>3, <1>4, <1>5, <1>6, <1>7, <1>8, <1>9, <1>10, <1>11, <1>12, <1>13, <1>14,
     <1>15, <1>16, <1>17, <1>18, <1>19, <1>20 DEF Next, CustomerStep, OpenRequest, RequestStep

--------------------------------------------------------------------------------
(* A gateway is asked for one transaction per order.                       *)

\* A row that is not there has no history, and neither has a creation that is
\* still to be called.
Unopened == \A o \in Orders : payment[o].provider = "none" => payment[o] = NoPayment /\ creations[o] = 0

FirstCreation == \A r \in Requests : request[r].pc = "creating" => creations[request[r].order] = 0

Creations == Unopened /\ FirstCreation /\ OneTransactionPerOrder

LEMMA CreationsInit == Init => Creations
  BY DEF Init, Idle, Creations, Unopened, FirstCreation, OneTransactionPerOrder

\* But for the two ways to open a payment and the call of the gateway, no step
\* changes a provider or counts a creation, nor is about to.
LEMMA ProvidersKept ==
    ASSUME TypeInv, Rows, [Next]_vars
    PROVE  \/ \E o \in Orders : CreateManual(o)
           \/ \E r \in Requests, o \in Orders, g \in Gateways : StartCreate(r, o, g)
           \/ \E r \in Requests : CallCreate(r)
           \/ /\ creations' = creations
              /\ \A o \in Orders : payment'[o].provider = payment[o].provider
              /\ \A o \in Orders : payment[o].provider = "none" => payment'[o] = payment[o]
              /\ \A r \in Requests : request'[r].pc = "creating" => request'[r] = request[r]
<1> DEFINE Kept == /\ creations' = creations
                   /\ \A o \in Orders : payment'[o].provider = payment[o].provider
                   /\ \A o \in Orders : payment[o].provider = "none" => payment'[o] = payment[o]
                   /\ \A r \in Requests : request'[r].pc = "creating" => request'[r] = request[r]
<1> USE DEF TypeInv, RequestRecord, Untouched, Unjudged, AtGateway, Finish, At, Idle
<1>1. ASSUME NEW o \in Orders, SubmitReceipt(o) PROVE Kept
  BY <1>1 DEF SubmitReceipt, Payment
<1>2. ASSUME NEW o \in Orders, Transfer(o) PROVE Kept
  BY <1>2 DEF Transfer
<1>3. ASSUME NEW r \in Requests, NEW o \in Orders, BeginVerify(r, o) PROVE Kept
  BY <1>3, MoveEffect DEF BeginVerify, OperationStates
<1>4. ASSUME NEW r \in Requests, NEW o \in Orders, BeginPayexa(r, o) PROVE Kept
  BY <1>4 DEF BeginPayexa
<1>5. ASSUME NEW r \in Requests, NEW o \in Orders, Review(r, o) PROVE Kept
  BY <1>5 DEF Review
<1>6. ASSUME NEW r \in Requests, NEW a \in {"created", "mispriced", "unknown", "refused"}, RecordCreate(r, a)
      PROVE Kept
  BY <1>6 DEF RecordCreate, Gateways, Payment, Rows, OpeningRow, Opening
<1>7. ASSUME NEW r \in Requests, NEW a \in {"verifying", "unpaid", "mismatched", "error"}, Check(r, a)
      PROVE Kept
  BY <1>7 DEF Check
<1>8. ASSUME NEW r \in Requests, RecordCheck(r) PROVE Kept
  BY <1>8, MoveEffect DEF RecordCheck, OperationStates, Rows, KPayRow, AskingKPay
<1>9. ASSUME NEW r \in Requests, NEW a \in {"matching", "other", "error"}, Verify(r, a) PROVE Kept
  BY <1>9 DEF Verify
<1>10. ASSUME NEW r \in Requests, ConcludeVerify(r) PROVE Kept
  BY <1>10, MoveEffect, ApprovedEffect DEF ConcludeVerify, OperationStates, Rows, KPayRow,
     AskingKPay
<1>11. ASSUME NEW r \in Requests, NEW a \in Replies, Reply(r, a) PROVE Kept
  BY <1>11 DEF Reply
<1>12. ASSUME NEW r \in Requests, ConcludePayexa(r) PROVE Kept
  BY <1>12, ConcludePayexaEffect DEF ConcludePayexa, Rows, HeldRow, Holding
<1>13. ASSUME NEW r \in Requests, Approve(r) PROVE Kept
  BY <1>13, ApprovedEffect DEF Approve, Payment, Rows, JudgedRow, Judging
<1>14. ASSUME NEW r \in Requests, StartReject(r) PROVE Kept
  BY <1>14 DEF StartReject
<1>15. ASSUME NEW r \in Requests, FinishReject(r) PROVE Kept
  BY <1>15 DEF FinishReject, Payment, Rows, JudgedRow, Judging
<1>16. ASSUME NEW r \in Requests, Abandon(r) PROVE Kept
  BY <1>16 DEF Abandon
<1>17. CASE UNCHANGED vars
  BY <1>17 DEF vars
<1> HIDE DEF Kept
<1> QED
  BY <1>1, <1>2, <1>3, <1>4, <1>5, <1>6, <1>7, <1>8, <1>9, <1>10, <1>11, <1>12, <1>13, <1>14,
     <1>15, <1>16, <1>17 DEF Next, CustomerStep, OpenRequest, RequestStep, Kept

LEMMA CreationsStep == TypeInv /\ Rows /\ Creations /\ [Next]_vars => Creations'
<1> SUFFICES ASSUME TypeInv, Rows, Creations, [Next]_vars PROVE Creations'
  OBVIOUS
<1> USE DEF Creations, Unopened, FirstCreation, OneTransactionPerOrder
<1>1. ASSUME NEW o \in Orders, CreateManual(o) PROVE Creations'
  BY <1>1 DEF CreateManual, AtGateway, NoPayment, TypeInv
<1>2. ASSUME NEW r \in Requests, NEW o \in Orders, NEW g \in Gateways, StartCreate(r, o, g)
      PROVE Creations'
  BY <1>2 DEF StartCreate, AtGateway, NoPayment, Idle, Gateways, TypeInv
<1>3. ASSUME NEW r \in Requests, CallCreate(r) PROVE Creations'
  <2>1. request[r].pc = "creating" /\ request[r].order \in Orders /\ creations[request[r].order] = 0
    BY <1>3 DEF CallCreate, At, TypeInv
  <2>2. payment[request[r].order].provider # "none"
    BY <2>1 DEF Rows, OpeningRow, Opening, Gateways
  <2>3. \A q \in Requests : request'[q].pc = "creating"
            => request'[q] = request[q] /\ request[q].order # request[r].order
    BY <1>3, <2>1 DEF CallCreate, TypeInv, RequestRecord, Rows, Exclusive, Opening
  <2>4. /\ creations'[request[r].order] = 1
        /\ \A o \in Orders : o # request[r].order => creations'[o] = creations[o]
        /\ payment' = payment
    BY <1>3, <2>1 DEF CallCreate, TypeInv
  <2> QED
    BY <2>1, <2>2, <2>3, <2>4 DEF TypeInv, RequestRecord
<1>4. ASSUME /\ creations' = creations
             /\ \A o \in Orders : payment'[o].provider = payment[o].provider
             /\ \A o \in Orders : payment[o].provider = "none" => payment'[o] = payment[o]
             /\ \A r \in Requests : request'[r].pc = "creating" => request'[r] = request[r]
      PROVE Creations'
  BY <1>4 DEF TypeInv
<1> QED
  BY <1>1, <1>2, <1>3, <1>4, ProvidersKept

\* An order is taken to a gateway once: neither two requests at a time nor a
\* retry after an unknown outcome opens a second transaction for the customer.
THEOREM OneTransactionPerOrderHolds == Spec => []OneTransactionPerOrder
<1>1. Creations => OneTransactionPerOrder
  BY DEF Creations
<1> QED
  BY <1>1, TypeInit, TypeStep, RowsInit, RowsStep, CreationsInit, CreationsStep, PTL DEF Spec

--------------------------------------------------------------------------------
(* A step as the entitlement sees it.                                      *)

\* The step decides nothing: no status changes, no receipt, no order.
Quiet ==
    /\ \A o \in Orders : /\ payment'[o].provider = payment[o].provider
                         /\ payment'[o].status = payment[o].status
                         /\ payment'[o].receipt = payment[o].receipt
                         /\ payment[o].revision <= payment'[o].revision
    /\ UNCHANGED <<order, subscribed, judged, overlapped>>
    /\ transferred \subseteq transferred'

Opened(o) ==
    /\ payment[o].provider = "none" /\ payment'[o].status = "pending"
    /\ order[o] # "paid"
    /\ \A p \in Orders : p # o => payment'[p] = payment[p]
    /\ UNCHANGED <<order, subscribed, transferred, judged, overlapped>>

\* A gateway's answer, which request r carries, is taken as the payment.
GatewayApproves(r, o) ==
    /\ request[r].order = o
    /\ request[r].pc = "verified" \/ (request[r].pc = "replied" /\ request[r].answer = "200")
    /\ payment[o].provider \in Gateways /\ payment'[o].provider = payment[o].provider
    /\ payment[o].status = "pending" /\ order[o] = "pending"
    /\ payment'[o].status = "approved" /\ order'[o] = "paid" /\ subscribed' = subscribed \cup {o}
    /\ payment[o].revision <= payment'[o].revision
    /\ \A p \in Orders : p # o => payment'[p] = payment[p] /\ order'[p] = order[p]
    /\ UNCHANGED <<transferred, judged, overlapped>>

LEMMA StepKinds ==
    ASSUME TypeInv, Rows, [Next]_vars
    PROVE  \/ Quiet
           \/ \E o \in Orders : Opened(o) \/ SubmitReceipt(o)
           \/ \E r \in Requests, o \in Orders : GatewayApproves(r, o)
           \/ \E r \in Requests : Approve(r) \/ FinishReject(r)
<1> USE DEF TypeInv, RequestRecord, Payment, Untouched, Unjudged, AtGateway, At
<1>1. ASSUME NEW o \in Orders, CreateManual(o) PROVE Opened(o)
  BY <1>1 DEF CreateManual, Opened, NoPayment
<1>2. ASSUME NEW r \in Requests, NEW o \in Orders, NEW g \in Gateways, StartCreate(r, o, g)
      PROVE Opened(o)
  BY <1>2 DEF StartCreate, Opened, NoPayment
<1>3. ASSUME NEW o \in Orders, Transfer(o) PROVE Quiet
  BY <1>3 DEF Transfer, Quiet
<1>4. ASSUME NEW r \in Requests, NEW o \in Orders, BeginVerify(r, o) PROVE Quiet
  BY <1>4, MoveEffect DEF BeginVerify, Quiet, OperationStates
<1>5. ASSUME NEW r \in Requests, NEW o \in Orders, BeginPayexa(r, o) \/ Review(r, o) PROVE Quiet
  BY <1>5 DEF BeginPayexa, Review, Quiet
<1>6. ASSUME NEW r \in Requests, CallCreate(r) \/ StartReject(r) \/ Abandon(r) PROVE Quiet
  BY <1>6 DEF CallCreate, StartReject, Abandon, Quiet
<1>7. ASSUME NEW r \in Requests, NEW a \in {"created", "mispriced", "unknown", "refused"},
             RecordCreate(r, a)
      PROVE Quiet
  BY <1>7 DEF RecordCreate, Quiet
<1>8. ASSUME NEW r \in Requests, NEW a \in {"verifying", "unpaid", "mismatched", "error"}, Check(r, a)
      PROVE Quiet
  BY <1>8 DEF Check, Quiet
<1>9. ASSUME NEW r \in Requests, NEW a \in {"matching", "other", "error"}, Verify(r, a) PROVE Quiet
  BY <1>9 DEF Verify, Quiet
<1>10. ASSUME NEW r \in Requests, RecordCheck(r) PROVE Quiet
  <2>1. PICK op \in OperationStates : Move(request[r].order, op)
    BY <1>10 DEF RecordCheck, OperationStates
  <2>2. request[r].order \in Orders
    BY <1>10 DEF RecordCheck
  <2>3. UNCHANGED <<order, subscribed, transferred, judged, overlapped>>
    BY <1>10 DEF RecordCheck
  <2> QED
    BY <2>1, <2>2, <2>3, MoveEffect DEF Quiet
<1>11. ASSUME NEW r \in Requests, NEW a \in Replies, Reply(r, a) PROVE Quiet
  <2>1. UNCHANGED <<payment, order, subscribed, transferred, judged, overlapped>>
    BY <1>11 DEF Reply
  <2> QED
    BY <2>1 DEF Quiet
<1>12. ASSUME NEW r \in Requests, ConcludeVerify(r)
       PROVE Quiet \/ \E o \in Orders : GatewayApproves(r, o)
  <2> DEFINE o == request[r].order
  <2>1. /\ o \in Orders /\ request[r].pc = "verified"
        /\ UNCHANGED <<transferred, judged, overlapped>>
    BY <1>12 DEF ConcludeVerify
  <2>2. payment[o].provider = "kpay"
    BY <2>1 DEF Rows, KPayRow, AskingKPay
  <2>3. CASE UNCHANGED payment /\ Untouched
    BY <2>1, <2>3 DEF Quiet
  <2>4. CASE Move(o, "FAILED") /\ Untouched
    BY <2>1, <2>4, MoveEffect DEF Quiet, OperationStates
  <2>5. CASE payment[o].status = "pending" /\ order[o] = "pending" /\ Approved(o, "PAID")
    <3>1. GatewayApproves(r, o)
      <4>1. /\ payment'[o].provider = "kpay" /\ payment'[o].status = "approved"
            /\ payment'[o].revision = payment[o].revision + 1
            /\ order'[o] = "paid" /\ subscribed' = subscribed \cup {o}
            /\ \A p \in Orders : p # o => payment'[p] = payment[p] /\ order'[p] = order[p]
        BY <2>1, <2>2, <2>5, ApprovedEffect DEF OperationStates
      <4>2. payment[o].revision <= payment'[o].revision
        BY <2>1, <4>1
      <4>3. payment[o].provider \in Gateways /\ payment'[o].provider = payment[o].provider
        BY <2>2, <4>1 DEF Gateways
      <4>4. payment[o].status = "pending" /\ order[o] = "pending"
        BY <2>5
      <4>5. UNCHANGED transferred /\ UNCHANGED judged /\ UNCHANGED overlapped
        BY <2>1
      <4> QED
        BY <2>1, <4>1, <4>2, <4>3, <4>4, <4>5 DEF GatewayApproves
    <3> QED
      BY <2>1, <3>1
  <2> QED
    BY <1>12, <2>3, <2>4, <2>5 DEF ConcludeVerify
<1>13. ASSUME NEW r \in Requests, ConcludePayexa(r)
       PROVE Quiet \/ \E o \in Orders : GatewayApproves(r, o)
  <2> DEFINE o == request[r].order
  <2>1. /\ o \in Orders /\ request[r].pc = "replied"
        /\ UNCHANGED <<transferred, judged, overlapped>>
    BY <1>13 DEF ConcludePayexa
  <2>2. payment[o].provider = "payexa"
    BY <2>1 DEF Rows, HeldRow, Holding
  <2>3. CASE Success(o, request[r].answer) /\ payment'[o].status = "approved"
             /\ order'[o] = "paid" /\ subscribed' = subscribed \cup {o}
    <3>1. GatewayApproves(r, o)
      BY <1>13, <2>1, <2>2, <2>3, ConcludePayexaEffect DEF GatewayApproves, Gateways, Success
    <3> QED
      BY <2>1, <3>1
  <2>4. CASE payment'[o].status = payment[o].status /\ order' = order /\ subscribed' = subscribed
    BY <1>13, <2>1, <2>4, ConcludePayexaEffect DEF Quiet
  <2> QED
    BY <1>13, <2>3, <2>4, ConcludePayexaEffect
<1>14. CASE UNCHANGED vars
  BY <1>14 DEF vars, Quiet
<1> QED
  BY <1>1, <1>2, <1>3, <1>4, <1>5, <1>6, <1>7, <1>8, <1>9, <1>10, <1>11, <1>12, <1>13, <1>14
     DEF Next, CustomerStep, OpenRequest, RequestStep

\* An administrator's approval and rejection of a receipt.
LEMMA ApproveEffect ==
    ASSUME TypeInv, Rows, NEW r \in Requests, Approve(r)
    PROVE  LET o == request[r].order IN
           /\ o \in Orders /\ payment[o].provider = "manual"
           /\ payment[o].status = "submitted" /\ payment[o].revision = request[r].revision
           /\ payment'[o].provider = "manual" /\ payment'[o].status = "approved"
           /\ payment'[o].receipt = payment[o].receipt
           /\ payment'[o].revision = payment[o].revision + 1
           /\ order'[o] = "paid" /\ subscribed' = subscribed \cup {o}
           /\ judged'[o] = request[r].receipt
           /\ \A p \in Orders : p # o => /\ payment'[p] = payment[p] /\ order'[p] = order[p]
                                         /\ judged'[p] = judged[p]
           /\ request' = [request EXCEPT ![r] = Idle]
           /\ UNCHANGED <<transferred, overlapped>>
<1> DEFINE o == request[r].order
<1>1. o \in Orders /\ request[r].pc = "reviewing" /\ Judgeable(r)
  BY DEF Approve, At, TypeInv
<1>2. payment[o].provider = "manual" /\ payment[o].op \in OperationStates
  BY <1>1 DEF Rows, JudgedRow, Judging, TypeInv, Payment
<1>3. Approved(o, payment[o].op)
  BY DEF Approve
<1>4. judged' = [judged EXCEPT ![o] = request[r].receipt]
  BY DEF Approve
<1>5. request' = [request EXCEPT ![r] = Idle] /\ UNCHANGED <<transferred, overlapped>>
  BY DEF Approve, Finish, AtGateway
<1> QED
  BY <1>1, <1>2, <1>3, <1>4, <1>5, ApprovedEffect DEF Judgeable, TypeInv

LEMMA RejectEffect ==
    ASSUME TypeInv, Rows, NEW r \in Requests, FinishReject(r)
    PROVE  LET o == request[r].order IN
           /\ o \in Orders /\ payment[o].provider = "manual"
           /\ Judgeable(r) => overlapped' = overlapped
           /\ ~Judgeable(r) => overlapped' = overlapped \cup {o}
           /\ payment'[o].provider = "manual" /\ payment'[o].status = "rejected"
           /\ payment'[o].receipt = payment[o].receipt
           /\ payment'[o].revision = request[r].revision + 1
           /\ order'[o] = "pending"
           /\ \A p \in Orders : p # o => payment'[p] = payment[p] /\ order'[p] = order[p]
           /\ request' = [request EXCEPT ![r] = Idle]
           /\ UNCHANGED <<subscribed, transferred, judged>>
<1> DEFINE o == request[r].order
<1>1. o \in Orders /\ request[r].pc = "rejecting"
  BY DEF FinishReject, At, TypeInv
<1>2. payment[o].provider = "manual"
  BY <1>1 DEF Rows, JudgedRow, Judging
<1>3. payment' = [payment EXCEPT ![o].status = "rejected", ![o].revision = request[r].revision + 1]
  BY DEF FinishReject
<1>4. order' = [order EXCEPT ![o] = "pending"]
  BY DEF FinishReject
<1>5. /\ Judgeable(r) => overlapped' = overlapped
      /\ ~Judgeable(r) => overlapped' = overlapped \cup {o}
      /\ request' = [request EXCEPT ![r] = Idle]
      /\ UNCHANGED <<subscribed, transferred, judged>>
  BY DEF FinishReject, Finish, AtGateway
<1>6. payment'[o].provider = "manual" /\ payment'[o].status = "rejected"
      /\ payment'[o].receipt = payment[o].receipt /\ payment'[o].revision = request[r].revision + 1
      /\ \A p \in Orders : p # o => payment'[p] = payment[p]
  BY <1>1, <1>2, <1>3 DEF TypeInv, Payment
<1>7. order'[o] = "pending" /\ \A p \in Orders : p # o => order'[p] = order[p]
  BY <1>1, <1>4 DEF TypeInv
<1> QED
  BY <1>1, <1>2, <1>5, <1>6, <1>7

LEMMA SubmitEffect ==
    ASSUME TypeInv, NEW o \in Orders, SubmitReceipt(o)
    PROVE  /\ payment[o].provider = "manual" /\ payment[o].status \in {"pending", "rejected"}
           /\ payment'[o].provider = "manual" /\ payment'[o].status = "submitted"
           /\ payment'[o].revision = payment[o].revision + 1
           /\ order'[o] = "payment_submitted"
           /\ \A p \in Orders : p # o => payment'[p] = payment[p] /\ order'[p] = order[p]
           /\ UNCHANGED <<subscribed, request, transferred, judged, overlapped>>
  BY DEF SubmitReceipt, TypeInv, Payment, Unjudged, AtGateway

--------------------------------------------------------------------------------
(* Entitlement, payment and order.                                         *)

OverlapIsManual == \A o \in overlapped : payment[o].provider = "manual"

Entitlement == OverlapIsManual /\ EntitledWhenApproved

LEMMA EntitlementInit == Init => Entitlement
  BY DEF Init, NoPayment, Entitlement, OverlapIsManual, EntitledWhenApproved

LEMMA EntitlementStep == TypeInv /\ Rows /\ Creations /\ Entitlement /\ [Next]_vars => Entitlement'
<1> SUFFICES ASSUME TypeInv, Rows, Creations, Entitlement, [Next]_vars PROVE Entitlement'
  OBVIOUS
<1> USE DEF Entitlement, OverlapIsManual, EntitledWhenApproved
<1>1. CASE Quiet
  BY <1>1 DEF Quiet, TypeInv
<1>2. ASSUME NEW o \in Orders, Opened(o) PROVE Entitlement'
  <2>1. payment[o].status = "none"
    BY <1>2 DEF Opened, Creations, Unopened, NoPayment
  <2> QED
    BY <1>2, <2>1 DEF Opened, TypeInv
<1>3. ASSUME NEW o \in Orders, SubmitReceipt(o) PROVE Entitlement'
  BY <1>3, SubmitEffect DEF TypeInv
<1>4. ASSUME NEW r \in Requests, NEW o \in Orders, GatewayApproves(r, o) PROVE Entitlement'
  BY <1>4 DEF GatewayApproves, Gateways, TypeInv
<1>5. ASSUME NEW r \in Requests, Approve(r) PROVE Entitlement'
  BY <1>5, ApproveEffect DEF TypeInv
<1>6. ASSUME NEW r \in Requests, FinishReject(r) PROVE Entitlement'
  <2>1. CASE Judgeable(r)
    <3>1. payment[request[r].order].status = "submitted"
      BY <2>1 DEF Judgeable
    <3> QED
      BY <1>6, <2>1, <3>1, RejectEffect DEF TypeInv
  <2>2. CASE ~Judgeable(r)
    BY <1>6, <2>2, RejectEffect DEF TypeInv
  <2> QED
    BY <2>1, <2>2
<1> QED
  BY <1>1, <1>2, <1>3, <1>4, <1>5, <1>6, StepKinds

\* The entitlement, the payment and the order agree, whatever requests of
\* customers, gateways and administrators overlap, unless a rejection was
\* written over a decision it had not seen.
THEOREM EntitledWhenApprovedHolds == Spec => []EntitledWhenApproved
<1>1. Entitlement => EntitledWhenApproved
  BY DEF Entitlement
<1> QED
  BY <1>1, TypeInit, TypeStep, RowsInit, RowsStep, CreationsInit, CreationsStep,
     EntitlementInit, EntitlementStep, PTL DEF Spec

--------------------------------------------------------------------------------
(* The gateway has the money.                                              *)

\* A request that goes on to approve a gateway payment has seen the money.
MoneySeen ==
    \A r \in Requests :
        /\ request[r].pc \in {"verifying", "verified"} => request[r].order \in transferred
        /\ request[r].pc = "replied" /\ request[r].answer = "200" => request[r].order \in transferred

Money == MoneySeen /\ GatewayEntitlementIsPaid

LEMMA MoneyInit == Init => Money
  BY DEF Init, Idle, Money, MoneySeen, GatewayEntitlementIsPaid

\* A request that records, concludes, decides or gives up is done.
LEMMA Finishes ==
    ASSUME TypeInv, NEW r \in Requests,
           \/ RecordCheck(r) \/ ConcludeVerify(r) \/ ConcludePayexa(r)
           \/ Approve(r) \/ FinishReject(r) \/ Abandon(r)
           \/ \E a \in {"created", "mispriced", "unknown", "refused"} : RecordCreate(r, a)
    PROVE  request'[r].pc = "idle" /\ \A q \in Requests : q # r => request'[q] = request[q]
<1>1. Finish(r)
  BY DEF RecordCreate, RecordCheck, ConcludeVerify, ConcludePayexa, Approve, FinishReject, Abandon
<1> QED
  BY <1>1 DEF Finish, Idle, TypeInv

\* A request that is opened for anything but a review starts with a call.
LEMMA Opens ==
    ASSUME TypeInv, NEW r \in Requests, NEW o \in Orders,
           \/ \E g \in Gateways : StartCreate(r, o, g)
           \/ BeginVerify(r, o) \/ BeginPayexa(r, o)
    PROVE  /\ request'[r].pc \in {"creating", "checking", "locked"}
           /\ \A q \in Requests : q # r => request'[q] = request[q]
<1>1. PICK pc \in {"creating", "checking", "locked"} :
          request' = [request EXCEPT ![r] = [Idle EXCEPT !.pc = pc, !.order = o]]
  BY DEF StartCreate, BeginVerify, BeginPayexa
<1> QED
  BY <1>1 DEF Idle, TypeInv

LEMMA MoneySeenStep == TypeInv /\ Rows /\ MoneySeen /\ [Next]_vars => MoneySeen'
<1> SUFFICES ASSUME TypeInv, Rows, MoneySeen, [Next]_vars PROVE MoneySeen'
  OBVIOUS
<1> DEFINE Paid(q) == request[q].pc \in {"verifying", "verified"}
                      \/ (request[q].pc = "replied" /\ request[q].answer = "200")
<1>1. transferred \subseteq transferred'
  BY StepKinds, SubmitEffect, ApproveEffect, RejectEffect DEF Quiet, Opened, GatewayApproves
<1>2. ASSUME NEW r \in Requests, NEW a \in {"verifying", "unpaid", "mismatched", "error"}, Check(r, a)
      PROVE MoneySeen'
  BY <1>1, <1>2 DEF Check, At, Finish, Idle, MoneySeen, TypeInv, RequestRecord
<1>3. ASSUME NEW r \in Requests, NEW a \in {"matching", "other", "error"}, Verify(r, a)
      PROVE MoneySeen'
  <2>1. request[r].pc = "verifying"
    BY <1>3 DEF Verify, At
  <2>2. /\ \/ request'[r].pc = "verified" /\ request'[r].order = request[r].order
           \/ request'[r] = Idle
        /\ \A q \in Requests : q # r => request'[q] = request[q]
    BY <1>3 DEF Verify, Finish, TypeInv, RequestRecord
  <2> QED
    BY <1>1, <2>1, <2>2 DEF Idle, MoneySeen
<1>4. ASSUME NEW r \in Requests, NEW a \in Replies, Reply(r, a) PROVE MoneySeen'
  <2>1. a = "200" => request[r].order \in transferred
    BY <1>4 DEF Reply
  <2>2. /\ request'[r].pc = "replied" /\ request'[r].order = request[r].order /\ request'[r].answer = a
        /\ \A q \in Requests : q # r => request'[q] = request[q]
    BY <1>4 DEF Reply, TypeInv, RequestRecord
  <2> QED
    BY <1>1, <2>1, <2>2 DEF MoneySeen
<1>5. ASSUME \A q \in Requests : request'[q] = request[q] \/ ~Paid(q)' PROVE MoneySeen'
  BY <1>1, <1>5 DEF MoneySeen
<1>6. ASSUME NEW o \in Orders, CustomerStep(o) PROVE UNCHANGED request
  BY <1>6 DEF CustomerStep, CreateManual, SubmitReceipt, Transfer
<1>7. ASSUME NEW r \in Requests, NEW o \in Orders, OpenRequest(r, o)
      PROVE \A q \in Requests : request'[q] = request[q] \/ ~Paid(q)'
  <2>1. CASE Review(r, o)
    BY <2>1 DEF Review, Idle, TypeInv
  <2>2. CASE ~Review(r, o)
    BY <1>7, <2>2, Opens DEF OpenRequest
  <2> QED
    BY <2>1, <2>2
<1>8. ASSUME NEW r \in Requests, CallCreate(r) \/ StartReject(r)
      PROVE \A q \in Requests : request'[q] = request[q] \/ ~Paid(q)'
  BY <1>8 DEF CallCreate, StartReject, TypeInv, RequestRecord
<1> QED
  BY <1>2, <1>3, <1>4, <1>5, <1>6, <1>7, <1>8, Finishes DEF Next, RequestStep, vars

LEMMA MoneyStep ==
    TypeInv /\ Rows /\ Creations /\ Entitlement /\ Money /\ [Next]_vars => Money'
<1> SUFFICES ASSUME TypeInv, Rows, Creations, Entitlement, Money, [Next]_vars PROVE Money'
  OBVIOUS
<1>1. MoneySeen'
  BY MoneySeenStep DEF Money
<1>2. GatewayEntitlementIsPaid'
  <2> USE DEF Money, GatewayEntitlementIsPaid
  <2>1. CASE Quiet
    BY <2>1 DEF Quiet, TypeInv
  <2>2. ASSUME NEW o \in Orders, Opened(o) PROVE GatewayEntitlementIsPaid'
    <3>1. payment[o].status = "none" /\ o \notin overlapped
      BY <2>2 DEF Opened, Creations, Unopened, NoPayment, Entitlement, OverlapIsManual
    <3>2. o \notin subscribed
      BY <3>1 DEF Entitlement, EntitledWhenApproved
    <3> QED
      BY <2>2, <3>2 DEF Opened, TypeInv
  <2>3. ASSUME NEW o \in Orders, SubmitReceipt(o) PROVE GatewayEntitlementIsPaid'
    BY <2>3, SubmitEffect DEF TypeInv
  <2>4. ASSUME NEW r \in Requests, NEW o \in Orders, GatewayApproves(r, o)
        PROVE GatewayEntitlementIsPaid'
    BY <2>4 DEF GatewayApproves, MoneySeen, TypeInv
  <2>5. ASSUME NEW r \in Requests, Approve(r) PROVE GatewayEntitlementIsPaid'
    BY <2>5, ApproveEffect DEF TypeInv, Gateways
  <2>6. ASSUME NEW r \in Requests, FinishReject(r) PROVE GatewayEntitlementIsPaid'
    BY <2>6, RejectEffect DEF TypeInv, Gateways
  <2> QED
    BY <2>1, <2>2, <2>3, <2>4, <2>5, <2>6, StepKinds
<1> QED
  BY <1>1, <1>2 DEF Money

\* A gateway payment entitles only after the gateway has the money.
THEOREM GatewayEntitlementIsPaidHolds == Spec => []GatewayEntitlementIsPaid
<1>1. Money => GatewayEntitlementIsPaid
  BY DEF Money
<1> QED
  BY <1>1, TypeInit, TypeStep, RowsInit, RowsStep, CreationsInit, CreationsStep,
     EntitlementInit, EntitlementStep, MoneyInit, MoneyStep, PTL DEF Spec

--------------------------------------------------------------------------------
(* A Payexa approval stays recorded as paid.                               *)

LEMMA PayexaStep ==
    TypeInv /\ Rows /\ PayexaApprovedIsPaid /\ [Next]_vars => PayexaApprovedIsPaid'
<1> SUFFICES ASSUME TypeInv, Rows, PayexaApprovedIsPaid, [Next]_vars PROVE PayexaApprovedIsPaid'
  OBVIOUS
<1> USE DEF PayexaApprovedIsPaid, TypeInv, Payment
<1>1. ASSUME NEW o \in Orders, CustomerStep(o) PROVE PayexaApprovedIsPaid'
  BY <1>1, SubmitEffect DEF CustomerStep, CreateManual, Transfer, NoPayment
<1>2. ASSUME NEW r \in Requests, NEW o \in Orders, NEW g \in Gateways, StartCreate(r, o, g)
      PROVE PayexaApprovedIsPaid'
  BY <1>2 DEF StartCreate, NoPayment
<1>3. ASSUME NEW r \in Requests, NEW o \in Orders, BeginVerify(r, o) PROVE PayexaApprovedIsPaid'
  BY <1>3, MoveEffect DEF BeginVerify, OperationStates
<1>4. ASSUME NEW r \in Requests, NEW a \in {"created", "mispriced", "unknown", "refused"},
             RecordCreate(r, a)
      PROVE PayexaApprovedIsPaid'
  BY <1>4 DEF RecordCreate, At, Rows, OpeningRow, Opening
<1>5. ASSUME NEW r \in Requests, RecordCheck(r) PROVE PayexaApprovedIsPaid'
  <2>1. PICK op \in OperationStates : Move(request[r].order, op)
    BY <1>5 DEF RecordCheck, OperationStates
  <2>2. request[r].order \in Orders /\ payment[request[r].order].provider = "kpay"
    BY <1>5 DEF RecordCheck, At, Rows, KPayRow, AskingKPay
  <2> QED
    BY <2>1, <2>2, MoveEffect
<1>6. ASSUME NEW r \in Requests, ConcludeVerify(r) PROVE PayexaApprovedIsPaid'
  <2>1. request[r].order \in Orders /\ payment[request[r].order].provider = "kpay"
    BY <1>6 DEF ConcludeVerify, At, Rows, KPayRow, AskingKPay
  <2>2. \/ UNCHANGED payment
        \/ Approved(request[r].order, "PAID")
        \/ Move(request[r].order, "FAILED")
    BY <1>6 DEF ConcludeVerify
  <2>3. \A p \in Orders : payment'[p] = payment[p] \/ payment'[p].provider = "kpay"
    BY <2>1, <2>2, MoveEffect, ApprovedEffect DEF OperationStates
  <2> QED
    BY <2>3
<1>7. ASSUME NEW r \in Requests, ConcludePayexa(r) PROVE PayexaApprovedIsPaid'
  <2>1. payment[request[r].order].provider = "payexa" /\ payment[request[r].order].op # "PAID"
    BY <1>7 DEF ConcludePayexa, At, Rows, HeldRow, Holding
  <2> QED
    BY <1>7, <2>1, ConcludePayexaEffect
<1>8. ASSUME NEW r \in Requests, Approve(r) PROVE PayexaApprovedIsPaid'
  BY <1>8, ApproveEffect
<1>9. ASSUME NEW r \in Requests, FinishReject(r) PROVE PayexaApprovedIsPaid'
  BY <1>9, RejectEffect
<1>10. ASSUME UNCHANGED payment PROVE PayexaApprovedIsPaid'
  BY <1>10
<1>11. ASSUME NEW r \in Requests, NEW o \in Orders, BeginPayexa(r, o) \/ Review(r, o)
       PROVE UNCHANGED payment
  BY <1>11 DEF BeginPayexa, Review
<1>12. ASSUME NEW r \in Requests,
              \/ CallCreate(r) \/ StartReject(r) \/ Abandon(r)
              \/ \E a \in {"verifying", "unpaid", "mismatched", "error"} : Check(r, a)
              \/ \E a \in {"matching", "other", "error"} : Verify(r, a)
              \/ \E a \in Replies : Reply(r, a)
       PROVE UNCHANGED payment
  BY <1>12 DEF CallCreate, StartReject, Abandon, Check, Verify, Reply
<1> QED
  BY <1>1, <1>2, <1>3, <1>4, <1>5, <1>6, <1>7, <1>8, <1>9, <1>10, <1>11, <1>12
     DEF Next, OpenRequest, RequestStep, vars

\* "Concurrent callbacks cannot race a 200 response against a 201 replay": a
\* Payexa payment that was approved stays recorded as paid.
THEOREM PayexaApprovedIsPaidHolds == Spec => []PayexaApprovedIsPaid
<1>1. Init => PayexaApprovedIsPaid
  BY DEF Init, NoPayment, PayexaApprovedIsPaid
<1> QED
  BY <1>1, TypeInit, TypeStep, RowsInit, RowsStep, PayexaStep, PTL DEF Spec

--------------------------------------------------------------------------------
(* An administrator approves what was seen.                                *)

\* A review that still carries the row's revision carries its receipt.
ReviewsCurrent ==
    \A r \in Requests :
        Judging(r) /\ request[r].order \notin overlapped =>
            /\ request[r].revision <= payment[request[r].order].revision
            /\ request[r].revision = payment[request[r].order].revision
                  => request[r].receipt = payment[request[r].order].receipt

Reviewed == ReviewsCurrent /\ ApprovedAsSeen

LEMMA ReviewedInit == Init => Reviewed
  BY DEF Init, Idle, NoPayment, Reviewed, ReviewsCurrent, ApprovedAsSeen, Judging

\* A review is of the row as it is when it is opened, and carries that on.
LEMMA ReviewsKept ==
    ASSUME TypeInv, [Next]_vars, NEW q \in Requests, Judging(q)'
    PROVE  /\ request'[q].order \in Orders
           /\ \/ /\ Judging(q) /\ request'[q].order = request[q].order
                 /\ request'[q].revision = request[q].revision /\ request'[q].receipt = request[q].receipt
              \/ /\ payment' = payment
                 /\ request'[q].revision = payment[request'[q].order].revision
                 /\ request'[q].receipt = payment[request'[q].order].receipt
<1> DEFINE Same == request'[q] = request[q]
<1> USE DEF TypeInv, RequestRecord, Judging, At, Finish, Idle
<1>1. ASSUME NEW o \in Orders, CustomerStep(o) PROVE Same
  BY <1>1 DEF CustomerStep, CreateManual, SubmitReceipt, Transfer
<1>2. ASSUME NEW r \in Requests, NEW o \in Orders,
             (\E g \in Gateways : StartCreate(r, o, g)) \/ BeginVerify(r, o) \/ BeginPayexa(r, o)
      PROVE Same
  BY <1>2, Opens
<1>3. ASSUME NEW r \in Requests,
             \/ RecordCheck(r) \/ ConcludeVerify(r) \/ ConcludePayexa(r)
             \/ Approve(r) \/ FinishReject(r) \/ Abandon(r)
             \/ \E a \in {"created", "mispriced", "unknown", "refused"} : RecordCreate(r, a)
      PROVE Same
  BY <1>3, Finishes
<1>4. ASSUME NEW r \in Requests, CallCreate(r) PROVE Same
  BY <1>4 DEF CallCreate
<1>5. ASSUME NEW r \in Requests, NEW a \in {"verifying", "unpaid", "mismatched", "error"}, Check(r, a)
      PROVE Same
  BY <1>5 DEF Check
<1>6. ASSUME NEW r \in Requests, NEW a \in {"matching", "other", "error"}, Verify(r, a) PROVE Same
  BY <1>6 DEF Verify
<1>7. ASSUME NEW r \in Requests, NEW a \in Replies, Reply(r, a) PROVE Same
  <2>1. /\ request'[r].pc = "replied"
        /\ \A p \in Requests : p # r => request'[p] = request[p]
    BY <1>7 DEF Reply
  <2> QED
    BY <2>1
<1>8. ASSUME NEW r \in Requests, StartReject(r)
      PROVE /\ Judging(q) /\ request'[q].order = request[q].order
            /\ request'[q].revision = request[q].revision /\ request'[q].receipt = request[q].receipt
  BY <1>8 DEF StartReject
<1>9. ASSUME NEW r \in Requests, NEW o \in Orders, Review(r, o)
      PROVE \/ Same
            \/ /\ payment' = payment /\ request'[q].order = o
               /\ request'[q].revision = payment[o].revision
               /\ request'[q].receipt = payment[o].receipt
  BY <1>9 DEF Review, Untouched
<1>10. ASSUME UNCHANGED vars PROVE Same
  BY <1>10 DEF vars
<1>11. Same => Judging(q) /\ request[q].order \in Orders
  OBVIOUS
<1> HIDE DEF Same
<1>12. \/ Same
       \/ \E r \in Requests : StartReject(r)
       \/ \E r \in Requests, o \in Orders : Review(r, o)
  <2>1. CASE \E r \in Requests : RequestStep(r)
    BY <2>1, <1>3, <1>4, <1>5, <1>6, <1>7, Zenon DEF RequestStep
  <2>2. CASE \E r \in Requests, o \in Orders : OpenRequest(r, o)
    BY <2>2, <1>2, Zenon DEF OpenRequest
  <2> QED
    BY <1>1, <1>10, <2>1, <2>2 DEF Next
<1> QED
  BY <1>8, <1>9, <1>11, <1>12 DEF Same

LEMMA ReviewsStep ==
    TypeInv /\ Rows /\ Creations /\ Reviewed /\ [Next]_vars => ReviewsCurrent'
<1> SUFFICES ASSUME TypeInv, Rows, Creations, Reviewed, [Next]_vars,
                    NEW q \in Requests, Judging(q)', request'[q].order \notin overlapped'
             PROVE  /\ request'[q].revision <= payment'[request'[q].order].revision
                    /\ request'[q].revision = payment'[request'[q].order].revision
                          => request'[q].receipt = payment'[request'[q].order].receipt
  BY DEF ReviewsCurrent
<1> DEFINE o == request'[q].order
<1>1. o \in Orders
  BY ReviewsKept
<1>2. CASE /\ payment' = payment
           /\ request'[q].revision = payment[o].revision
           /\ request'[q].receipt = payment[o].receipt
  BY <1>1, <1>2 DEF TypeInv, Payment
<1>3. CASE /\ Judging(q) /\ o = request[q].order
           /\ request'[q].revision = request[q].revision /\ request'[q].receipt = request[q].receipt
  <2>1. payment[o].provider = "manual"
    BY <1>3 DEF Rows, JudgedRow
  <2>2. o \notin overlapped => /\ request[q].revision <= payment[o].revision
                               /\ request[q].revision = payment[o].revision
                                     => request[q].receipt = payment[o].receipt
    BY <1>3 DEF Reviewed, ReviewsCurrent
  <2>3. payment[o].revision \in Nat /\ request[q].revision \in Nat
    BY <1>1 DEF TypeInv, Payment, RequestRecord
  <2> DEFINE Moved == \/ payment'[o] = payment[o]
                      \/ payment'[o].revision > payment[o].revision
                      \/ /\ payment'[o].revision = payment[o].revision
                         /\ payment'[o].receipt = payment[o].receipt
  <2>4. o \notin overlapped /\ Moved
    <3>1. CASE Quiet
      <4>1. payment'[o].revision \in Nat
        BY <1>1, TypeStep DEF TypeInv, Payment
      <4> QED
        BY <1>1, <2>3, <3>1, <4>1 DEF Quiet
    <3>2. ASSUME NEW p \in Orders, Opened(p) PROVE o \notin overlapped /\ Moved
      BY <1>1, <2>1, <3>2 DEF Opened
    <3>3. ASSUME NEW p \in Orders, SubmitReceipt(p) PROVE o \notin overlapped /\ Moved
      BY <1>1, <2>3, <3>3, SubmitEffect
    <3>4. ASSUME NEW r \in Requests, NEW p \in Orders, GatewayApproves(r, p) PROVE o \notin overlapped /\ Moved
      BY <1>1, <2>1, <3>4 DEF GatewayApproves, Gateways
    <3>5. ASSUME NEW r \in Requests, Approve(r) PROVE o \notin overlapped /\ Moved
      BY <1>1, <2>3, <3>5, ApproveEffect
    <3>6. ASSUME NEW r \in Requests, FinishReject(r) PROVE o \notin overlapped /\ Moved
      BY <1>1, <2>3, <3>6, RejectEffect DEF Judgeable
    <3> QED
      BY <3>1, <3>2, <3>3, <3>4, <3>5, <3>6, StepKinds
  <2> QED
    BY <1>1, <1>3, <2>2, <2>3, <2>4, TypeStep DEF TypeInv, Payment
<1> QED
  BY <1>2, <1>3, ReviewsKept

LEMMA ApprovedAsSeenStep ==
    TypeInv /\ Rows /\ Creations /\ Reviewed /\ [Next]_vars => ApprovedAsSeen'
<1> SUFFICES ASSUME TypeInv, Rows, Creations, Reviewed, [Next]_vars PROVE ApprovedAsSeen'
  OBVIOUS
<1> USE DEF Reviewed, ApprovedAsSeen
<1>1. CASE Quiet
  BY <1>1 DEF Quiet, TypeInv
<1>2. ASSUME NEW o \in Orders, Opened(o) PROVE ApprovedAsSeen'
  BY <1>2 DEF Opened, TypeInv
<1>3. ASSUME NEW o \in Orders, SubmitReceipt(o) PROVE ApprovedAsSeen'
  BY <1>3, SubmitEffect DEF TypeInv
<1>4. ASSUME NEW r \in Requests, NEW o \in Orders, GatewayApproves(r, o) PROVE ApprovedAsSeen'
  BY <1>4 DEF GatewayApproves, Gateways, TypeInv
<1>5. ASSUME NEW r \in Requests, Approve(r) PROVE ApprovedAsSeen'
  <2> DEFINE o == request[r].order
  <2>1. request[r].pc = "reviewing"
    BY <1>5 DEF Approve, At
  <2>2. o \notin overlapped /\ payment[o].revision = request[r].revision
            => request[r].receipt = payment[o].receipt
    BY <2>1 DEF ReviewsCurrent, Judging
  <2> QED
    BY <1>5, <2>2, ApproveEffect DEF TypeInv
<1>6. ASSUME NEW r \in Requests, FinishReject(r) PROVE ApprovedAsSeen'
  <2>1. overlapped \subseteq overlapped'
    BY <1>6, RejectEffect
  <2> QED
    BY <1>6, <2>1, RejectEffect DEF TypeInv
<1> QED
  BY <1>1, <1>2, <1>3, <1>4, <1>5, <1>6, StepKinds

\* What an administrator approved is the receipt that the administrator saw,
\* unless an overlapping rejection has turned the revision back.
THEOREM ApprovedAsSeenHolds == Spec => []ApprovedAsSeen
<1>1. TypeInv /\ Rows /\ Creations /\ Reviewed /\ [Next]_vars => Reviewed'
  BY ReviewsStep, ApprovedAsSeenStep DEF Reviewed
<1>2. Reviewed => ApprovedAsSeen
  BY DEF Reviewed
<1> QED
  BY <1>1, <1>2, TypeInit, TypeStep, RowsInit, RowsStep, CreationsInit, CreationsStep,
     ReviewedInit, PTL DEF Spec

--------------------------------------------------------------------------------
(* Entitlements: least and greatest numbers, and the newest row.           *)

\* A nonempty set of natural numbers has a least element.
LEMMA LeastOf ==
    ASSUME NEW T, T \subseteq Nat, T # {}
    PROVE  \E x \in T : \A y \in T : x <= y
<1>1. PICK x \in T : \A y \in T : ~ (<<y, x>> \in OpToRel(<, Nat))
  BY NatLessThanWellFounded, WFMin
<1>2. \A y \in T : ~ (y < x)
  BY <1>1 DEF OpToRel
<1> QED
  BY <1>2

\* A nonempty set of numbers that do not exceed some number has a greatest element.
LEMMA GreatestOf ==
    ASSUME NEW T, T \subseteq Nat, T # {}, NEW b \in Nat, \A x \in T : x <= b
    PROVE  \E x \in T : \A y \in T : y <= x
<1> DEFINE Gap == {b - x : x \in T}
<1>1. Gap \subseteq Nat /\ Gap # {}
  <2>1. ASSUME NEW x \in T PROVE b - x \in Nat
    <3>1. x \in Nat /\ x <= b
      OBVIOUS
    <3> QED  BY <3>1
  <2>2. PICK x : x \in T
    OBVIOUS
  <2>3. b - x \in Gap
    BY <2>2
  <2> QED  BY <2>1, <2>3
<1>2. PICK g \in Gap : \A h \in Gap : g <= h
  BY <1>1, LeastOf
<1>3. PICK x \in T : g = b - x
  OBVIOUS
<1>4. ASSUME NEW y \in T PROVE y <= x
  <2>1. b - y \in Gap
    OBVIOUS
  <2>2. b - x <= b - y
    BY <2>1, <1>2, <1>3
  <2>3. x \in Nat /\ y \in Nat
    OBVIOUS
  <2> QED  BY <2>2, <2>3
<1> QED  BY <1>4

\* Max() of a set of numbers is one of them and none is greater.
LEMMA MaxOf ==
    ASSUME NEW T, T \subseteq Nat, T # {}, NEW b \in Nat, \A x \in T : x <= b
    PROVE  Max(T) \in T /\ \A y \in T : y <= Max(T)
<1>1. \E x \in T : \A y \in T : x >= y
  BY GreatestOf
<1> QED  BY <1>1 DEF Max

\* The columns of a row.
LEMMA RowColumns ==
    ASSUME NEW w \in SubscriptionRows
    PROVE  /\ w.family \in Families /\ w.status \in {"active", "cancelled"}
           /\ w.from \in 0 .. MaxTime /\ w.limit \in Nat
  BY DEF SubscriptionRows

LEMMA RowsOfSequence ==
    ASSUME NEW s \in Seq(SubscriptionRows)
    PROVE  /\ DOMAIN s = 1 .. Len(s) /\ Len(s) \in Nat
           /\ \A i \in DOMAIN s : s[i] \in SubscriptionRows
  OBVIOUS

\* Rows are finitely many: some number is not exceeded by any of their limits.
LEMMA LimitsBounded ==
    ASSUME NEW s \in Seq(SubscriptionRows)
    PROVE  \E b \in Nat : \A i \in DOMAIN s : s[i].limit <= b
<1> DEFINE Bounded(n) == \E b \in Nat : \A i \in 1 .. n : s[i].limit <= b
           Bad == {n \in 0 .. Len(s) : ~ Bounded(n)}
<1>1. DOMAIN s = 1 .. Len(s) /\ Len(s) \in Nat /\ \A i \in 1 .. Len(s) : s[i].limit \in Nat
  BY RowsOfSequence, RowColumns
<1> HIDE DEF Bounded
<1>2. CASE Bad = {}
  <2>1. Bounded(Len(s))
    BY <1>1, <1>2
  <2> QED  BY <2>1, <1>1 DEF Bounded
<1>3. CASE Bad # {}
  <2>1. PICK n \in Bad : \A k \in Bad : n <= k
    <3>1. Bad \subseteq Nat
      BY <1>1
    <3> QED  BY <1>3, <3>1, LeastOf
  <2>2. n # 0
    <3>1. 1 .. 0 = {} /\ 0 \in Nat
      OBVIOUS
    <3>2. Bounded(0)
      BY <3>1 DEF Bounded
    <3> QED  BY <3>2
  <2>3. n - 1 \in 0 .. Len(s) /\ n \in 1 .. Len(s)
    BY <2>1, <2>2, <1>1
  <2>4. Bounded(n - 1)
    <3>1. ~ (n <= n - 1)
      BY <2>3
    <3> QED  BY <3>1, <2>1, <2>3
  <2>5. PICK b \in Nat : \A i \in 1 .. n - 1 : s[i].limit <= b
    BY <2>4 DEF Bounded
  <2>6. s[n].limit \in Nat
    BY <2>3, <1>1
  <2> DEFINE c == IF b <= s[n].limit THEN s[n].limit ELSE b
  <2>7. c \in Nat /\ \A i \in 1 .. n : s[i].limit <= c
    <3>1. c \in Nat /\ b <= c /\ s[n].limit <= c
      BY <2>6
    <3>2. ASSUME NEW i \in 1 .. n PROVE s[i].limit <= c
      <4>1. CASE i = n
        BY <4>1, <3>1
      <4>2. CASE i # n
        <5>1. i \in 1 .. n - 1 /\ i \in 1 .. Len(s)
          BY <4>2, <2>3
        <5> HIDE DEF c
        <5> QED  BY <5>1, <2>5, <3>1, <1>1
      <4> QED  BY <4>1, <4>2
    <3> QED  BY <3>1, <3>2
  <2>8. Bounded(n)
    BY <2>7 DEF Bounded
  <2> QED  BY <2>8, <2>1
<1> QED  BY <1>2, <1>3

\* Of rows, the newest is one of them.
LEMMA NewestIsOne ==
    ASSUME subscription \in Seq(SubscriptionRows), MaxTime \in Nat,
           NEW is, is \subseteq DOMAIN subscription, is # {}
    PROVE  Newest(is) \in is
<1>1. /\ DOMAIN subscription = 1 .. Len(subscription) /\ Len(subscription) \in Nat
      /\ \A i \in DOMAIN subscription : subscription[i].from \in 0 .. MaxTime
  <2>1. \A i \in DOMAIN subscription : subscription[i] \in SubscriptionRows
    BY RowsOfSequence
  <2> QED  BY <2>1, RowsOfSequence, RowColumns
<1> DEFINE Times == {subscription[i].from : i \in is}
<1>2. Times \subseteq Nat /\ Times # {} /\ \A t \in Times : t <= MaxTime
  BY <1>1
<1>3. PICK t \in Times : \A u \in Times : u <= t
  BY <1>2, GreatestOf
<1> DEFINE Latest == {i \in is : subscription[i].from = t}
<1>4. Latest \subseteq Nat /\ Latest # {} /\ \A i \in Latest : i <= Len(subscription)
  BY <1>1
<1>5. PICK i \in Latest : \A j \in Latest : j <= i
  BY <1>1, <1>4, GreatestOf
<1>6. ASSUME NEW j \in is
      PROVE  \/ subscription[j].from < subscription[i].from
             \/ subscription[j].from = subscription[i].from /\ j <= i
  <2>1. subscription[j].from <= t /\ subscription[i].from = t /\ subscription[j].from \in Nat /\ t \in Nat
    BY <1>1, <1>2, <1>3, <1>5
  <2>2. CASE subscription[j].from = t
    BY <2>2, <2>1, <1>5
  <2> QED  BY <2>1, <2>2
<1>7. \E k \in is : \A j \in is :
         \/ subscription[j].from < subscription[k].from
         \/ subscription[j].from = subscription[k].from /\ j <= k
  <2>1. i \in is
    BY <1>5
  <2> QED  BY <1>6, <2>1
<1> QED  BY <1>7 DEF Newest

--------------------------------------------------------------------------------
(* Effective subscriptions and the modules that they grant.                *)

LEMMA EffectiveIsCurrent ==
    ASSUME subscription \in Seq(SubscriptionRows), MaxTime \in Nat, NEW f,
           NEW i \in DOMAIN subscription, subscription[i].family = f, Current(i)
    PROVE  /\ EffectiveOf(f) \in DOMAIN subscription
           /\ subscription[EffectiveOf(f)].family = f
           /\ EffectiveOf(f) # 0
<1> DEFINE Candidates == {j \in OfFamily(f) : Current(j)}
<1>1. Candidates \subseteq DOMAIN subscription /\ i \in Candidates
  BY DEF OfFamily
<1>2. Newest(Candidates) \in Candidates
  BY <1>1, NewestIsOne
<1>3. EffectiveOf(f) \in Candidates
  BY <1>2 DEF EffectiveOf
<1>4. DOMAIN subscription = 1 .. Len(subscription) /\ Len(subscription) \in Nat
  BY RowsOfSequence
<1> QED  BY <1>3, <1>4 DEF OfFamily

LEMMA EffectiveTyped ==
    ASSUME subscription \in Seq(SubscriptionRows), MaxTime \in Nat, NEW f
    PROVE  /\ EffectiveOf(f) \in DOMAIN subscription \cup {0}
           /\ EffectiveOf(f) # 0 => subscription[EffectiveOf(f)].family = f
<1> DEFINE Candidates == {j \in OfFamily(f) : Current(j)}
<1>1. Candidates \subseteq DOMAIN subscription
  BY DEF OfFamily
<1>2. CASE Candidates = {}
  BY <1>2 DEF EffectiveOf, Newest
<1>3. CASE Candidates # {}
  <2>1. Newest(Candidates) \in Candidates
    BY <1>1, <1>3, NewestIsOne
  <2> QED  BY <2>1, <1>1 DEF EffectiveOf, OfFamily
<1> QED  BY <1>2, <1>3

\* A plan's modules come with what they depend on.
LEMMA CodesAreClosed ==
    ASSUME NEW f \in Families
    PROVE  CodesOf(f) \subseteq Codes /\ \A c \in CodesOf(f) : Needs(c) \subseteq CodesOf(f)
<1>1. CASE f = "AUTOMATION"
  BY <1>1 DEF CodesOf, Codes, Needs
<1>2. CASE f = "AI_ASSISTANT"
  BY <1>2 DEF CodesOf, Codes, Needs
<1>3. CASE f = "LEGACY_BUNDLE"
  BY <1>3 DEF CodesOf, Codes, Needs
<1> QED  BY <1>1, <1>2, <1>3 DEF Families

LEMMA GrantedTyped ==
    ASSUME subscription \in Seq(SubscriptionRows), MaxTime \in Nat
    PROVE  Granted \subseteq Codes
<1>1. ASSUME NEW i \in Effective PROVE CodesOf(subscription[i].family) \subseteq Codes
  <2>1. i \in DOMAIN subscription
    BY EffectiveTyped DEF Effective
  <2>2. subscription[i].family \in Families
    BY <2>1, RowsOfSequence, RowColumns
  <2> QED  BY <2>2, CodesAreClosed
<1> QED  BY <1>1 DEF Granted

--------------------------------------------------------------------------------
(* Types.                                                                  *)

ModuleRow == [status : {"active", "trial", "inactive"}, until : 0 .. Forever,
              by : {"subscription", "operator"}]

WriterRecord == [op : {"none", "activate", "grant", "reconcile", "switch", "rule"},
                 codes : SUBSET Codes,
                 seen : [Codes -> {"active", "trial", "inactive", "none"}],
                 grant : SubscriptionRows \cup {NoSubscription},
                 to : {"active", "trial", "inactive", "none"}]

WritersTyped ==
    /\ writer \in [Writers -> WriterRecord]
    /\ \A r \in Writers : writer[r].op = "switch" => writer[r].to # "none"

\* EntitlementsTypeOK, with the sets of records named, and that a switch has somewhere
\* to switch to.
EntitlementsTypes ==
    /\ clock \in 0 .. MaxTime /\ started \in 0 .. MaxRequests /\ rules \in Nat
    /\ plan \in [Plans -> [terms : Terms, active : BOOLEAN]]
    /\ ordered \in Terms \cup {NoTerms}
    /\ subscription \in Seq(SubscriptionRows)
    /\ module \in [Codes -> ModuleRow]
    /\ standing \in {"active", "suspended", "archived"}
    /\ WritersTyped

LEMMA EntitlementsTypesAreTypeOK == EntitlementsTypes => EntitlementsTypeOK
  BY DEF EntitlementsTypes, WritersTyped, EntitlementsTypeOK, ModuleRow, WriterRecord

LEMMA AtRestRecord == AtRest \in WriterRecord /\ AtRest.op = "none"
  BY DEF AtRest, WriterRecord

LEMMA UntilTyped ==
    ASSUME clock \in 0 .. MaxTime, MaxTime \in Nat, NEW days \in Nat
    PROVE  Until(days) \in 0 .. Forever
<1>1. clock + days \in Nat /\ Forever \in Nat
  BY DEF Forever
<1>2. \E x \in {clock + days, Forever} : \A y \in {clock + days, Forever} : x <= y
  BY <1>1
<1>3. Until(days) \in {clock + days, Forever} /\ Until(days) <= Forever
  BY <1>2 DEF Until, Min
<1> QED  BY <1>1, <1>3

LEMMA StatusesTyped ==
    ASSUME module \in [Codes -> ModuleRow], NEW codes
    PROVE  StatusesOf(codes) \in [Codes -> {"active", "trial", "inactive", "none"}]
  BY DEF StatusesOf, ModuleRow

\* A request that has read what it needs.
LEMMA BeginTyped ==
    ASSUME EntitlementsTypes, NEW r \in Writers,
           NEW op \in {"activate", "grant", "reconcile", "switch", "rule"},
           NEW codes \in SUBSET Codes, NEW grant \in SubscriptionRows \cup {NoSubscription},
           NEW to \in {"active", "trial", "inactive", "none"},
           op = "switch" => to # "none",
           Begin(r, op, codes, grant, to), MaxRequests \in Nat
    PROVE  /\ WritersTyped'
           /\ started' \in 0 .. MaxRequests
           /\ writer[r] = AtRest
           /\ writer' = [writer EXCEPT ![r] = writer'[r]]
           /\ writer'[r].op = op
<1> DEFINE rec == [op |-> op, codes |-> codes, seen |-> StatusesOf(codes),
                   grant |-> grant, to |-> to]
<1>1. rec \in WriterRecord
  <2>1. StatusesOf(codes) \in [Codes -> {"active", "trial", "inactive", "none"}]
    BY StatusesTyped DEF EntitlementsTypes
  <2> QED  BY <2>1 DEF WriterRecord
<1>2. writer' = [writer EXCEPT ![r] = rec] /\ writer[r] = AtRest
  BY DEF Begin
<1>3. rec.op = op /\ rec.to = to
  OBVIOUS
<1>4. started' \in 0 .. MaxRequests
  BY DEF Begin, Count, EntitlementsTypes
<1> HIDE DEF rec
<1>5. writer' \in [Writers -> WriterRecord] /\ writer'[r] = rec
  BY <1>1, <1>2 DEF EntitlementsTypes, WritersTyped
<1>6. \A q \in Writers : q # r => writer'[q] = writer[q]
  BY <1>2 DEF EntitlementsTypes, WritersTyped
<1>7. ASSUME NEW q \in Writers, writer'[q].op = "switch" PROVE writer'[q].to # "none"
  <2>1. CASE q = r
    BY <2>1, <1>3, <1>5, <1>7
  <2>2. CASE q # r
    BY <2>2, <1>6, <1>7 DEF EntitlementsTypes, WritersTyped
  <2> QED  BY <2>1, <2>2
<1> QED  BY <1>2, <1>3, <1>4, <1>5, <1>7 DEF WritersTyped

LEMMA ProductIsPositive ==
    ASSUME NEW a \in Nat \ {0}, NEW b \in Nat \ {0}
    PROVE  a * b \in Nat \ {0}
  OBVIOUS

\* An operator's switch writes the columns that it has seen to differ.
LEMMA SwitchTyped ==
    ASSUME EntitlementsTypes, NEW r \in Writers, CommitSwitch(r)
    PROVE  module' \in [Codes -> ModuleRow]
<1> DEFINE to == writer[r].to
           until == IF to = "trial" THEN Until(TrialDays) ELSE 0
           row(c) == [Module(to, until, "operator")
                       EXCEPT !.status = IF writer[r].seen[c] # to THEN to ELSE module[c].status,
                              !.by = IF writer[r].seen[c] # to THEN "operator" ELSE module[c].by]
<1>1. until \in 0 .. Forever
  <2>1. Until(TrialDays) \in 0 .. Forever
    BY EntitlementsAssumption, UntilTyped DEF EntitlementsTypes
  <2> QED  BY <2>1, EntitlementsAssumption DEF Forever
<1>2. to \in {"active", "trial", "inactive"}
  BY DEF CommitSwitch, EntitlementsTypes, WritersTyped, WriterRecord
<1>3. ASSUME NEW c \in Codes PROVE row(c) \in ModuleRow
  <2>1. module[c].status \in {"active", "trial", "inactive"} /\ module[c].by \in {"subscription", "operator"}
    BY DEF EntitlementsTypes, ModuleRow
  <2> HIDE DEF to, until
  <2> QED  BY <1>1, <1>2, <2>1 DEF ModuleRow, Module
<1>4. module' = [c \in Codes |-> IF c \notin writer[r].codes THEN module[c] ELSE row(c)]
  BY DEF CommitSwitch
<1>5. module \in [Codes -> ModuleRow]
  BY DEF EntitlementsTypes
<1> HIDE DEF row
<1> QED
  BY <1>3, <1>4, <1>5

\* Only the status of a row changes when it is revoked.
LEMMA RevokedRows ==
    ASSUME subscription \in Seq(SubscriptionRows), NEW i \in DOMAIN subscription, Revoke(i)
    PROVE  /\ subscription' \in Seq(SubscriptionRows)
           /\ DOMAIN subscription' = DOMAIN subscription
           /\ \A j \in DOMAIN subscription : subscription'[j].limit = subscription[j].limit
<1> DEFINE row == [subscription[i] EXCEPT !.status = "cancelled"]
<1>1. subscription[i] \in SubscriptionRows
  BY RowsOfSequence
<1>2. row \in SubscriptionRows /\ row.limit = subscription[i].limit
  BY <1>1 DEF SubscriptionRows
<1>3. subscription' = [subscription EXCEPT ![i] = row]
  BY DEF Revoke
<1> HIDE DEF row
<1>4. subscription' \in Seq(SubscriptionRows)
  BY <1>2, <1>3
<1> QED  BY <1>2, <1>3, <1>4

LEMMA TypesInit == EntitlementsInit => EntitlementsTypes
<1> SUFFICES ASSUME EntitlementsInit PROVE EntitlementsTypes
  OBVIOUS
<1>1. plan \in [Plans -> [terms : Terms, active : BOOLEAN]]
  BY EntitlementsAssumption DEF EntitlementsInit
<1>2. module \in [Codes -> ModuleRow]
  BY EntitlementsAssumption DEF EntitlementsInit, ModuleRow, Module, Forever
<1>3. WritersTyped
  BY AtRestRecord DEF EntitlementsInit, WritersTyped
<1>4. subscription \in Seq(SubscriptionRows)
  BY EntitlementsAssumption DEF EntitlementsInit
<1>5. clock \in 0 .. MaxTime /\ started \in 0 .. MaxRequests /\ rules \in Nat
  BY EntitlementsAssumption DEF EntitlementsInit
<1> QED  BY <1>1, <1>2, <1>3, <1>4, <1>5 DEF EntitlementsInit, EntitlementsTypes

LEMMA TypesStep == EntitlementsTypes /\ [EntitlementsNext]_entitlementVars => EntitlementsTypes'
<1> SUFFICES ASSUME EntitlementsTypes, [EntitlementsNext]_entitlementVars PROVE EntitlementsTypes'
  OBVIOUS
<1> USE EntitlementsAssumption
<1>0. NoTerms \notin Terms /\ NoSubscription \notin SubscriptionRows
  BY DEF NoTerms, Terms, NoSubscription, SubscriptionRows, Subscription
<1>1. ASSUME NEW r \in Writers, BeginActivation(r) PROVE EntitlementsTypes'
  <2>1. ordered \in Terms
    BY <1>1 DEF BeginActivation, EntitlementsTypes
  <2>2. ordered.family \in Families /\ ordered.days \in Nat /\ ordered.limit \in Nat
    BY <2>1 DEF Terms
  <2> DEFINE row == Subscription(ordered.family, "PURCHASED", clock, Until(ordered.days), ordered.limit)
  <2>3. row \in SubscriptionRows
    <3>1. Until(ordered.days) \in 0 .. Forever
      BY <2>2, UntilTyped DEF EntitlementsTypes
    <3> QED  BY <2>2, <3>1 DEF EntitlementsTypes, SubscriptionRows, Subscription
  <2>4. Begin(r, "activate", CodesOf(ordered.family), row, "active")
    BY <1>1 DEF BeginActivation
  <2> HIDE DEF row
  <2>5. WritersTyped' /\ started' \in 0 .. MaxRequests
    BY <2>2, <2>3, <2>4, BeginTyped, CodesAreClosed
  <2> QED  BY <1>1, <2>5 DEF BeginActivation, EntitlementsTypes
<1>2. ASSUME NEW r \in Writers, NEW p \in Plans, NEW to \in clock + 1 .. Forever, BeginGrant(r, p, to)
      PROVE EntitlementsTypes'
  <2>1. plan[p].terms.family \in Families /\ plan[p].terms.limit \in Nat
    BY DEF EntitlementsTypes, Terms
  <2> DEFINE row == Subscription(plan[p].terms.family, "ADMIN_GRANT", clock, to, plan[p].terms.limit)
  <2>2. row \in SubscriptionRows
    <3>1. to \in 0 .. Forever
      BY DEF EntitlementsTypes, Forever
    <3> QED  BY <2>1, <3>1 DEF EntitlementsTypes, SubscriptionRows, Subscription
  <2>3. Begin(r, "grant", CodesOf(plan[p].terms.family), row, "active")
    BY <1>2 DEF BeginGrant
  <2> HIDE DEF row
  <2>4. WritersTyped' /\ started' \in 0 .. MaxRequests
    BY <2>1, <2>2, <2>3, BeginTyped, CodesAreClosed
  <2> QED  BY <1>2, <2>4 DEF BeginGrant, EntitlementsTypes
<1>3. ASSUME NEW r \in Writers, BeginReconcile(r) PROVE EntitlementsTypes'
  <2>1. Begin(r, "reconcile", Granted, NoSubscription, "active")
    BY <1>3 DEF BeginReconcile
  <2>2. Granted \subseteq Codes
    BY GrantedTyped DEF EntitlementsTypes
  <2>3. WritersTyped' /\ started' \in 0 .. MaxRequests
    BY <2>1, <2>2, BeginTyped
  <2> QED  BY <1>3, <2>3 DEF BeginReconcile, EntitlementsTypes
<1>4. ASSUME NEW r \in Writers, CommitModules(r) PROVE EntitlementsTypes'
  <2>1. module' \in [Codes -> ModuleRow]
    <3>1. ASSUME NEW c \in Codes PROVE Module("active", module[c].until, "subscription") \in ModuleRow
      BY DEF EntitlementsTypes, ModuleRow, Module
    <3> QED  BY <1>4, <3>1 DEF CommitModules, EntitlementsTypes
  <2>2. subscription' \in Seq(SubscriptionRows)
    <3>1. writer[r].grant \in SubscriptionRows \cup {NoSubscription}
      BY DEF EntitlementsTypes, WritersTyped, WriterRecord
    <3> QED  BY <1>4, <3>1 DEF CommitModules, EntitlementsTypes
  <2>3. WritersTyped'
    BY <1>4, AtRestRecord DEF CommitModules, EntitlementsTypes, WritersTyped
  <2> QED  BY <1>4, <2>1, <2>2, <2>3 DEF CommitModules, EntitlementsTypes
<1>5. ASSUME NEW r \in Writers, NEW c \in Codes, NEW to \in {"active", "trial", "inactive"},
             BeginSwitch(r, c, to)
      PROVE EntitlementsTypes'
  <2>1. Begin(r, "switch", {c}, NoSubscription, to)
    BY <1>5 DEF BeginSwitch
  <2>2. WritersTyped' /\ started' \in 0 .. MaxRequests
    BY <2>1, BeginTyped
  <2> QED  BY <1>5, <2>2 DEF BeginSwitch, EntitlementsTypes
<1>6. ASSUME NEW r \in Writers, CommitSwitch(r) PROVE EntitlementsTypes'
  <2>1. WritersTyped'
    BY <1>6, AtRestRecord DEF CommitSwitch, EntitlementsTypes, WritersTyped
  <2>2. module' \in [Codes -> ModuleRow]
    BY <1>6, SwitchTyped
  <2> QED  BY <1>6, <2>1, <2>2 DEF CommitSwitch, EntitlementsTypes
<1>7. ASSUME NEW r \in Writers, BeginRule(r) PROVE EntitlementsTypes'
  <2>1. Begin(r, "rule", {}, NoSubscription, "none")
    BY <1>7 DEF BeginRule
  <2>2. WritersTyped' /\ started' \in 0 .. MaxRequests
    BY <2>1, BeginTyped
  <2> QED  BY <1>7, <2>2 DEF BeginRule, EntitlementsTypes
<1>8. ASSUME NEW r \in Writers, CommitRule(r) PROVE EntitlementsTypes'
  <2>1. WritersTyped'
    BY <1>8, AtRestRecord DEF CommitRule, EntitlementsTypes, WritersTyped
  <2> QED  BY <1>8, <2>1 DEF CommitRule, EntitlementsTypes
<1>9. ASSUME NEW p \in Plans, NEW active \in BOOLEAN, NEW limit \in Limits, EditPlan(p, active, limit)
      PROVE EntitlementsTypes'
  <2>1. plan' \in [Plans -> [terms : Terms, active : BOOLEAN]]
    <3> DEFINE row == [plan[p] EXCEPT !.active = active, !.terms.limit = limit]
    <3>1. plan[p] \in [terms : Terms, active : BOOLEAN] /\ limit \in Nat
      BY DEF EntitlementsTypes
    <3>2. row \in [terms : Terms, active : BOOLEAN]
      BY <3>1 DEF Terms
    <3>3. plan' = [plan EXCEPT ![p] = row]
      BY <1>9 DEF EditPlan
    <3> HIDE DEF row
    <3> QED  BY <3>2, <3>3 DEF EntitlementsTypes
  <2>2. started' \in 0 .. MaxRequests
    BY <1>9 DEF EditPlan, Count, EntitlementsTypes
  <2> QED  BY <1>9, <2>1, <2>2 DEF EditPlan, EntitlementsTypes, WritersTyped
<1>10. ASSUME NEW p \in Plans, NEW months \in 1 .. MaxMonths, CreateOrder(p, months)
       PROVE EntitlementsTypes'
  <2>1. plan[p].terms \in Terms
    BY DEF EntitlementsTypes
  <2>2. plan[p].terms.days * months \in Nat \ {0}
    <3>1. plan[p].terms.days \in Nat \ {0} /\ months \in Nat \ {0}
      BY <2>1 DEF Terms
    <3> QED  BY <3>1, ProductIsPositive
  <2>3. ordered' \in Terms
    <3> DEFINE days == plan[p].terms.days * months
    <3>1. ordered' = [plan[p].terms EXCEPT !.days = days] /\ days \in Nat \ {0}
      BY <1>10, <2>2 DEF CreateOrder
    <3> HIDE DEF days
    <3> QED  BY <2>1, <3>1 DEF Terms
  <2>4. started' \in 0 .. MaxRequests
    BY <1>10 DEF CreateOrder, Count, EntitlementsTypes
  <2> QED  BY <1>10, <2>3, <2>4 DEF CreateOrder, EntitlementsTypes, WritersTyped
<1>11. ASSUME NEW i \in DOMAIN subscription, Revoke(i) PROVE EntitlementsTypes'
  <2>1. subscription' \in Seq(SubscriptionRows)
    BY <1>11, RevokedRows DEF EntitlementsTypes
  <2>2. started' \in 0 .. MaxRequests
    BY <1>11 DEF Revoke, Count, EntitlementsTypes
  <2> QED  BY <1>11, <2>1, <2>2 DEF Revoke, EntitlementsTypes, WritersTyped
<1>12. CASE DeleteRule
  BY <1>12 DEF DeleteRule, Count, EntitlementsTypes, WritersTyped
<1>13. CASE Tick
  BY <1>13 DEF Tick, EntitlementsTypes, WritersTyped
<1>14. ASSUME NEW to \in {"active", "suspended", "archived"}, ChangeStanding(to) PROVE EntitlementsTypes'
  BY <1>14 DEF ChangeStanding, Count, EntitlementsTypes, WritersTyped
<1>15. CASE UNCHANGED entitlementVars
  BY <1>15 DEF entitlementVars, EntitlementsTypes, WritersTyped
<1> QED
  BY <1>1, <1>2, <1>3, <1>4, <1>5, <1>6, <1>7, <1>8, <1>9, <1>10, <1>11, <1>12, <1>13, <1>14, <1>15
  DEF EntitlementsNext, Sell, Operate, Automate

\* Rows of subscriptions, modules and requests have the shape that the tables give them:
\* commerce/service.py and admin_modules.py write no other.
THEOREM EntitlementsTypeCorrect == EntitlementsSpec => []EntitlementsTypeOK
<1>1. EntitlementsInit => EntitlementsTypes
  BY TypesInit
<1>2. EntitlementsTypes /\ [EntitlementsNext]_entitlementVars => EntitlementsTypes'
  BY TypesStep
<1> QED
  BY <1>1, <1>2, EntitlementsTypesAreTypeOK, PTL DEF EntitlementsSpec

--------------------------------------------------------------------------------
(* What is paid for works.                                                 *)

\* A module that a subscription was the last to write is active.
SubscriptionsSwitchOn ==
    \A c \in Codes : module[c].by = "subscription" => module[c].status = "active"

LEMMA SwitchOnStep ==
    EntitlementsTypes /\ SubscriptionsSwitchOn /\ [EntitlementsNext]_entitlementVars
        => SubscriptionsSwitchOn'
<1> SUFFICES ASSUME EntitlementsTypes, SubscriptionsSwitchOn, [EntitlementsNext]_entitlementVars
             PROVE  SubscriptionsSwitchOn'
  OBVIOUS
<1>1. CASE module' = module
  BY <1>1 DEF SubscriptionsSwitchOn
<1>2. ASSUME NEW r \in Writers, CommitModules(r) PROVE SubscriptionsSwitchOn'
  <2>1. ASSUME NEW c \in Codes, module'[c].by = "subscription" PROVE module'[c].status = "active"
    <3>1. \/ module'[c] = module[c]
          \/ module'[c] = Module("active", module[c].until, "subscription")
      BY <1>2 DEF CommitModules
    <3> QED  BY <2>1, <3>1 DEF SubscriptionsSwitchOn, Module
  <2> QED  BY <2>1 DEF SubscriptionsSwitchOn
<1>3. ASSUME NEW r \in Writers, CommitSwitch(r) PROVE SubscriptionsSwitchOn'
  <2>1. ASSUME NEW c \in Codes, module'[c].by = "subscription" PROVE module'[c].status = "active"
    <3> DEFINE until == IF writer[r].to = "trial" THEN Until(TrialDays) ELSE 0
               base == Module(writer[r].to, until, "operator")
    <3>1. \/ module'[c] = module[c]
          \/ module'[c] = [base EXCEPT !.status = writer[r].to, !.by = "operator"]
          \/ module'[c] = [base EXCEPT !.status = module[c].status, !.by = module[c].by]
      BY <1>3 DEF CommitSwitch
    <3>2. DOMAIN base = {"status", "until", "by"}
      BY DEF Module
    <3> HIDE DEF base
    <3> QED  BY <2>1, <3>1, <3>2 DEF SubscriptionsSwitchOn
  <2> QED  BY <2>1 DEF SubscriptionsSwitchOn
<1>4. \/ module' = module
      \/ \E r \in Writers : CommitModules(r) \/ CommitSwitch(r)
  BY DEF EntitlementsNext, entitlementVars, Sell, Operate, Automate, BeginActivation, BeginGrant,
         BeginReconcile, BeginSwitch, BeginRule, CommitRule, EditPlan, CreateOrder, Revoke,
         DeleteRule, Tick, ChangeStanding
<1> QED
  BY <1>1, <1>2, <1>3, <1>4

LEMMA SwitchedOnMeansPaidForWorks ==
    ASSUME EntitlementsTypes, SubscriptionsSwitchOn
    PROVE  PaidForWorks
<1>1. ASSUME NEW i \in DOMAIN subscription, Current(i),
             NEW c \in CodesOf(subscription[i].family), standing # "suspended",
             \A d \in Needs(c) : module[d].by # "operator"
      PROVE  c \in Capabilities
  <2> DEFINE f == subscription[i].family
             k == EffectiveOf(f)
  <2>1. f \in Families
    BY RowsOfSequence, RowColumns DEF EntitlementsTypes
  <2>2. k \in DOMAIN subscription /\ subscription[k].family = f /\ k # 0
    BY <1>1, EffectiveIsCurrent, EntitlementsAssumption DEF EntitlementsTypes
  <2>3. k \in Effective
    BY <2>1, <2>2 DEF Effective
  <2>4. CodesOf(f) \subseteq Granted
    BY <2>2, <2>3 DEF Granted
  <2>5. Needs(c) \subseteq CodesOf(f) /\ Needs(c) \subseteq Codes
    BY <1>1, <2>1, CodesAreClosed
  <2>6. ASSUME NEW d \in Needs(c) PROVE SwitchedOn(d)
    <3>1. module[d].by = "subscription"
      BY <1>1, <2>5 DEF EntitlementsTypes, ModuleRow
    <3> QED  BY <3>1, <2>5 DEF SubscriptionsSwitchOn, SwitchedOn
  <2>7. Enabled(c)
    BY <1>1, <2>6 DEF Enabled
  <2>8. c \in Granted /\ Needs(c) \subseteq Granted
    BY <1>1, <2>4, <2>5
  <2> QED  BY <2>7, <2>8 DEF Capabilities
<1> QED
  BY <1>1 DEF PaidForWorks

\* Every module of a subscription that has begun and not ended is a capability of its store,
\* for any number of requests that overlap, plans and terms, unless the store is suspended
\* or an operator was the last to switch the module, or one that it depends on.
THEOREM PaidForWorksHolds == EntitlementsSpec => []PaidForWorks
<1>1. EntitlementsInit => EntitlementsTypes /\ SubscriptionsSwitchOn
  BY TypesInit DEF EntitlementsInit, SubscriptionsSwitchOn, Module
<1>2. /\ EntitlementsTypes /\ SubscriptionsSwitchOn
      /\ [EntitlementsNext]_entitlementVars
      => (EntitlementsTypes /\ SubscriptionsSwitchOn)'
  BY TypesStep, SwitchOnStep
<1>3. EntitlementsTypes /\ SubscriptionsSwitchOn => PaidForWorks
  BY SwitchedOnMeansPaidForWorks
<1> QED
  BY <1>1, <1>2, <1>3, PTL DEF EntitlementsSpec

--------------------------------------------------------------------------------
(* The limit of rules.                                                     *)

LargestLimit == Max({subscription[i].limit : i \in DOMAIN subscription} \cup {0})

\* Requests that have counted the rules and will insert one.
RuleWriters == {r \in Writers : writer[r].op = "rule"}

\* The rules, and those about to be inserted, exceed the largest limit by less than the
\* number of requests: the one that counted last found room.
RulesAccountedFor == rules + Cardinality(RuleWriters) <= LargestLimit + Cardinality(Writers) - 1

LEMMA LargestLimitIsOne ==
    ASSUME NEW s \in Seq(SubscriptionRows)
    PROVE  LET all == {s[i].limit : i \in DOMAIN s} \cup {0}
           IN  /\ all \subseteq Nat /\ Max(all) \in all /\ \A x \in all : x <= Max(all)
<1> DEFINE all == {s[i].limit : i \in DOMAIN s} \cup {0}
<1>1. all \subseteq Nat /\ 0 \in all
  BY RowsOfSequence, RowColumns
<1>2. PICK b \in Nat : \A i \in DOMAIN s : s[i].limit <= b
  BY LimitsBounded
<1>3. \A x \in all : x <= b
  BY <1>2
<1>4. Max(all) \in all /\ \A x \in all : x <= Max(all)
  <2> HIDE DEF all
  <2> QED  BY <1>1, <1>3, MaxOf
<1> QED  BY <1>1, <1>4

LEMMA LargestLimitTyped ==
    ASSUME subscription \in Seq(SubscriptionRows)
    PROVE  LargestLimit \in Nat /\ \A i \in DOMAIN subscription : subscription[i].limit <= LargestLimit
<1> DEFINE all == {subscription[i].limit : i \in DOMAIN subscription} \cup {0}
<1>1. all \subseteq Nat /\ Max(all) \in all /\ \A x \in all : x <= Max(all)
  BY LargestLimitIsOne
<1>2. LargestLimit = Max(all)
  BY DEF LargestLimit
<1>3. \A i \in DOMAIN subscription : subscription[i].limit \in all
  OBVIOUS
<1> HIDE DEF all
<1> QED  BY <1>1, <1>2, <1>3

\* Limits are never taken away from the table.
LEMMA LargestLimitGrows ==
    ASSUME subscription \in Seq(SubscriptionRows), subscription' \in Seq(SubscriptionRows),
           \A i \in DOMAIN subscription : i \in DOMAIN subscription' /\ subscription'[i].limit = subscription[i].limit
    PROVE  LargestLimit <= LargestLimit' /\ LargestLimit' \in Nat
<1> DEFINE all  == {subscription[i].limit : i \in DOMAIN subscription} \cup {0}
           all2 == {subscription'[i].limit : i \in DOMAIN subscription'} \cup {0}
<1>1. all \subseteq Nat /\ Max(all) \in all
  BY LargestLimitIsOne
<1>2. all2 \subseteq Nat /\ Max(all2) \in all2 /\ \A x \in all2 : x <= Max(all2)
  BY LargestLimitIsOne
<1>3. all \subseteq all2
  OBVIOUS
<1>4. LargestLimit = Max(all) /\ LargestLimit' = Max(all2)
  BY DEF LargestLimit
<1> HIDE DEF all, all2
<1> QED  BY <1>1, <1>2, <1>3, <1>4

LEMMA RuleWritersCounted ==
    /\ IsFiniteSet(RuleWriters) /\ IsFiniteSet(Writers)
    /\ Cardinality(RuleWriters) \in Nat /\ Cardinality(Writers) \in Nat
    /\ Cardinality(RuleWriters) <= Cardinality(Writers)
<1>1. RuleWriters \subseteq Writers
  BY DEF RuleWriters
<1> QED
  BY <1>1, EntitlementsAssumption, FS_Subset, FS_CardinalityType

LEMMA RulesInit == EntitlementsInit => RulesAccountedFor
<1> SUFFICES ASSUME EntitlementsInit PROVE RulesAccountedFor
  OBVIOUS
<1>1. RuleWriters = {} /\ rules = 0
  BY DEF EntitlementsInit, RuleWriters, AtRest
<1>2. Cardinality(RuleWriters) = 0
  BY <1>1, FS_EmptySet
<1>3. Cardinality(Writers) \in Nat /\ Cardinality(Writers) # 0
  BY RuleWritersCounted, EntitlementsAssumption, FS_EmptySet
<1>4. LargestLimit \in Nat
  BY LargestLimitTyped, TypesInit DEF EntitlementsTypes
<1> QED  BY <1>1, <1>2, <1>3, <1>4 DEF RulesAccountedFor

\* Nobody starts or ends counting, and there are no more rules than before.
LEMMA RulesUndisturbed ==
    ASSUME EntitlementsTypes, EntitlementsTypes', RulesAccountedFor, rules' <= rules,
           RuleWriters' \subseteq RuleWriters,
           \A i \in DOMAIN subscription : i \in DOMAIN subscription' /\ subscription'[i].limit = subscription[i].limit
    PROVE  RulesAccountedFor'
<1>1. LargestLimit \in Nat /\ LargestLimit' \in Nat /\ LargestLimit <= LargestLimit'
  BY LargestLimitTyped, LargestLimitGrows DEF EntitlementsTypes
<1>2. Cardinality(RuleWriters') <= Cardinality(RuleWriters) /\ Cardinality(RuleWriters') \in Nat
  BY RuleWritersCounted, FS_Subset, FS_CardinalityType
<1>3. Cardinality(RuleWriters) \in Nat /\ Cardinality(Writers) \in Nat
  BY RuleWritersCounted
<1>4. rules \in Nat /\ rules' \in Nat
  BY DEF EntitlementsTypes
<1> QED  BY <1>1, <1>2, <1>3, <1>4 DEF RulesAccountedFor

\* A request other than one that is to insert a rule begins or ends.
LEMMA NoRuleBegun ==
    ASSUME EntitlementsTypes, NEW r \in Writers,
           \A q \in Writers : q # r => writer'[q] = writer[q],
           writer'[r].op # "rule"
    PROVE  RuleWriters' \subseteq RuleWriters
  BY DEF RuleWriters

\* Rules are created only where a subscription that limits them is effective: modules
\* that a family has granted, or the legacy bundle.
LEMMA RuleLimited ==
    ASSUME subscription \in Seq(SubscriptionRows), NEW r, BeginRule(r)
    PROVE  Limiting \in DOMAIN subscription
<1>1. "instagram_automation" \in Granted
  BY DEF BeginRule, Capabilities
<1>2. PICK f \in Families : EffectiveOf(f) # 0
                            /\ "instagram_automation" \in CodesOf(subscription[EffectiveOf(f)].family)
  BY <1>1 DEF Granted, Effective
<1>3. EffectiveOf(f) \in DOMAIN subscription
  BY <1>2, EffectiveTyped, EntitlementsAssumption
<1>4. subscription[EffectiveOf(f)].family = f
  BY <1>2, EffectiveTyped, EntitlementsAssumption
<1>5. f # "AI_ASSISTANT"
  BY <1>2, <1>4 DEF CodesOf
<1>6. CASE f = "AUTOMATION"
  BY <1>2, <1>3, <1>6 DEF Limiting
<1>7. CASE f = "LEGACY_BUNDLE"
  <2>1. CASE EffectiveOf("AUTOMATION") # 0
    BY <2>1, EffectiveTyped, EntitlementsAssumption DEF Limiting
  <2>2. CASE EffectiveOf("AUTOMATION") = 0
    BY <2>2, <1>3, <1>7 DEF Limiting
  <2> QED  BY <2>1, <2>2
<1> QED  BY <1>5, <1>6, <1>7 DEF Families

LEMMA RulesStep ==
    EntitlementsTypes /\ EntitlementsTypes' /\ RulesAccountedFor /\ [EntitlementsNext]_entitlementVars
        => RulesAccountedFor'
<1> SUFFICES ASSUME EntitlementsTypes, EntitlementsTypes', RulesAccountedFor,
                    [EntitlementsNext]_entitlementVars
             PROVE  RulesAccountedFor'
  OBVIOUS
<1>0. rules \in Nat /\ \A q \in Writers : writer[q] \in WriterRecord
  BY DEF EntitlementsTypes, WritersTyped
<1>1. ASSUME NEW r \in Writers, NEW op, NEW codes, NEW grant, NEW to, Begin(r, op, codes, grant, to)
      PROVE  /\ writer'[r].op = op /\ writer[r] = AtRest
             /\ \A q \in Writers : q # r => writer'[q] = writer[q]
  BY <1>1 DEF Begin, EntitlementsTypes, WritersTyped
<1>2. ASSUME NEW r \in Writers, BeginActivation(r) PROVE RulesAccountedFor'
  <2>1. PICK codes, grant : Begin(r, "activate", codes, grant, "active")
    BY <1>2 DEF BeginActivation
  <2>2. RuleWriters' \subseteq RuleWriters
    BY <1>1, <2>1, NoRuleBegun
  <2> QED  BY <1>0, <1>2, <2>2, RulesUndisturbed DEF BeginActivation
<1>3. ASSUME NEW r \in Writers, NEW p \in Plans, NEW to \in clock + 1 .. Forever, BeginGrant(r, p, to)
      PROVE RulesAccountedFor'
  <2>1. PICK codes, grant : Begin(r, "grant", codes, grant, "active")
    BY <1>3 DEF BeginGrant
  <2>2. RuleWriters' \subseteq RuleWriters
    BY <1>1, <2>1, NoRuleBegun
  <2> QED  BY <1>0, <1>3, <2>2, RulesUndisturbed DEF BeginGrant
<1>4. ASSUME NEW r \in Writers, BeginReconcile(r) PROVE RulesAccountedFor'
  <2>1. Begin(r, "reconcile", Granted, NoSubscription, "active")
    BY <1>4 DEF BeginReconcile
  <2>2. RuleWriters' \subseteq RuleWriters
    BY <1>1, <2>1, NoRuleBegun
  <2> QED  BY <1>0, <1>4, <2>2, RulesUndisturbed DEF BeginReconcile
<1>5. ASSUME NEW r \in Writers, NEW c \in Codes, NEW to \in {"active", "trial", "inactive"},
             BeginSwitch(r, c, to)
      PROVE RulesAccountedFor'
  <2>1. Begin(r, "switch", {c}, NoSubscription, to)
    BY <1>5 DEF BeginSwitch
  <2>2. RuleWriters' \subseteq RuleWriters
    BY <1>1, <2>1, NoRuleBegun
  <2> QED  BY <1>0, <1>5, <2>2, RulesUndisturbed DEF BeginSwitch
<1>6. ASSUME NEW r \in Writers, CommitModules(r) PROVE RulesAccountedFor'
  <2>1. RuleWriters' \subseteq RuleWriters
    BY <1>6, AtRestRecord DEF CommitModules, RuleWriters, EntitlementsTypes, WritersTyped
  <2>2. \A i \in DOMAIN subscription :
           i \in DOMAIN subscription' /\ subscription'[i].limit = subscription[i].limit
    <3>1. CASE subscription' = subscription
      BY <3>1
    <3>2. CASE subscription' = Append(subscription, writer[r].grant)
      BY <3>2 DEF EntitlementsTypes
    <3> QED  BY <1>6, <3>1, <3>2 DEF CommitModules
  <2> QED  BY <1>0, <1>6, <2>1, <2>2, RulesUndisturbed DEF CommitModules
<1>7. ASSUME NEW r \in Writers, CommitSwitch(r) PROVE RulesAccountedFor'
  <2>1. RuleWriters' \subseteq RuleWriters
    BY <1>7, AtRestRecord DEF CommitSwitch, RuleWriters, EntitlementsTypes, WritersTyped
  <2>2. subscription' = subscription /\ rules' = rules
    BY <1>7 DEF CommitSwitch
  <2> QED  BY <1>0, <2>1, <2>2, RulesUndisturbed
<1>8. ASSUME NEW r \in Writers, BeginRule(r) PROVE RulesAccountedFor'
  <2>1. rules < subscription[Limiting].limit
    BY <1>8 DEF BeginRule, HasRoom
  <2>2. Limiting \in DOMAIN subscription
    BY <1>8, RuleLimited DEF EntitlementsTypes
  <2>3. subscription[Limiting].limit \in Nat /\ subscription[Limiting].limit <= LargestLimit /\ LargestLimit \in Nat
    BY <2>2, LargestLimitTyped, RowsOfSequence, RowColumns DEF EntitlementsTypes
  <2>4. rules' = rules /\ LargestLimit' = LargestLimit
    BY <1>8 DEF BeginRule, LargestLimit
  <2>5. Cardinality(RuleWriters') <= Cardinality(Writers) /\ Cardinality(RuleWriters') \in Nat
        /\ Cardinality(Writers) \in Nat
    <3>1. RuleWriters' \subseteq Writers
      BY DEF RuleWriters
    <3> QED  BY <3>1, EntitlementsAssumption, FS_Subset, FS_CardinalityType
  <2> QED  BY <1>0, <2>1, <2>3, <2>4, <2>5 DEF RulesAccountedFor
<1>9. ASSUME NEW r \in Writers, CommitRule(r) PROVE RulesAccountedFor'
  <2>1. r \in RuleWriters
    BY <1>9 DEF CommitRule, RuleWriters
  <2>2. RuleWriters' = RuleWriters \ {r}
    BY <1>9, AtRestRecord DEF CommitRule, RuleWriters, EntitlementsTypes, WritersTyped
  <2>3. Cardinality(RuleWriters') = Cardinality(RuleWriters) - 1
    BY <2>1, <2>2, RuleWritersCounted, FS_RemoveElement
  <2>4. rules' = rules + 1 /\ LargestLimit' = LargestLimit
    BY <1>9 DEF CommitRule, LargestLimit
  <2>5. LargestLimit \in Nat
    BY LargestLimitTyped DEF EntitlementsTypes
  <2> QED  BY <1>0, <2>3, <2>4, <2>5, RuleWritersCounted DEF RulesAccountedFor
<1>10. ASSUME NEW i \in DOMAIN subscription, Revoke(i) PROVE RulesAccountedFor'
  <2>1. RuleWriters' = RuleWriters /\ rules' = rules
    BY <1>10 DEF Revoke, RuleWriters
  <2> QED  BY <1>0, <1>10, <2>1, RevokedRows, RulesUndisturbed DEF EntitlementsTypes
<1>11. CASE DeleteRule
  <2>1. RuleWriters' = RuleWriters /\ rules' <= rules
    BY <1>0, <1>11 DEF DeleteRule, RuleWriters
  <2> QED  BY <1>11, <2>1, RulesUndisturbed DEF DeleteRule
<1>12. CASE UNCHANGED <<subscription, rules, writer>>
  <2>1. RuleWriters' = RuleWriters
    BY <1>12 DEF RuleWriters
  <2> QED  BY <1>0, <1>12, <2>1, RulesUndisturbed
<1>13. \/ \E r \in Writers : Sell(r) \/ Operate(r) \/ Automate(r)
       \/ \E i \in DOMAIN subscription : Revoke(i)
       \/ DeleteRule
       \/ UNCHANGED <<subscription, rules, writer>>
  BY DEF EntitlementsNext, EditPlan, CreateOrder, Tick, ChangeStanding, entitlementVars
<1> QED
  BY <1>2, <1>3, <1>4, <1>5, <1>6, <1>7, <1>8, <1>9, <1>10, <1>11, <1>12, <1>13
  DEF Sell, Operate, Automate

\* A store never has more rules than the largest limit it ever had, except for those that
\* requests in flight have slipped in together: fewer than there are requests, for ever.
THEOREM RulesBoundedHolds == EntitlementsSpec => []RulesBounded
<1>1. EntitlementsInit => EntitlementsTypes /\ RulesAccountedFor
  BY TypesInit, RulesInit
<1>2. EntitlementsTypes /\ RulesAccountedFor /\ [EntitlementsNext]_entitlementVars
      => (EntitlementsTypes /\ RulesAccountedFor)'
  BY TypesStep, RulesStep
<1>3. EntitlementsTypes /\ RulesAccountedFor => RulesBounded
  <2>1. ASSUME EntitlementsTypes, RulesAccountedFor PROVE RulesBounded
    <3>1. LargestLimit \in Nat /\ rules \in Nat
      BY <2>1, LargestLimitTyped DEF EntitlementsTypes
    <3>2. rules <= LargestLimit + Cardinality(Writers) - 1
      BY <2>1, <3>1, RuleWritersCounted DEF RulesAccountedFor
    <3> QED  BY <3>2 DEF RulesBounded, LargestLimit
  <2> QED  BY <2>1
<1> QED
  BY <1>1, <1>2, <1>3, PTL DEF EntitlementsSpec
================================================================================
