------------------------------ MODULE OrderPayment ------------------------------
(***************************************************************************)
(* Payment of a subscription order, and the entitlement it buys.           *)
(*                                                                         *)
(*   commerce/service.py          card transfers judged by administrators, *)
(*                                and the KPay gateway                     *)
(*   commerce/payexa_service.py   the Payexa gateway                       *)
(*                                                                         *)
(* An order has at most one payment row, of one provider.  A request is    *)
(* one HTTP request with a database session of its own: a customer opening *)
(* a gateway payment, the browser's callback that verifies it, or an       *)
(* administrator judging a receipt.  An action is one transaction, or one  *)
(* call of the gateway.                                                    *)
(***************************************************************************)
EXTENDS Naturals

CONSTANTS
    Orders,         \* orders of plans that are not free
    Requests,       \* requests in progress
    NoOrder,        \* what an idle request works on
    MaxRevision,    \* bound: the payment row's revision
    MaxReceipts     \* bound: receipts uploaded per order

ASSUME PaymentAssumption ==
    /\ NoOrder \notin Orders
    /\ MaxRevision \in Nat
    /\ MaxReceipts \in Nat

VARIABLES
    payment,        \* payment[o]: the order's payment row
    order,          \* order[o]: the order's status
    subscribed,     \* orders with a subscription, active from the moment it exists
    request,        \* request[r]: the local state of a request
    creations,      \* creations[o]: calls of the gateway that create a transaction
    transferred,    \* orders whose money the gateway has received
    claimed,        \* orders whose Payexa verification has been answered with 200
    judged,         \* judged[o]: the receipt that the approving administrator saw
    overlapped      \* orders with a rejection written over a row changed since it was read

vars == <<payment, order, subscribed, request, creations, transferred, claimed, judged, overlapped>>

Gateways == {"kpay", "payexa"}
Providers == {"none", "manual"} \cup Gateways
PaymentStatuses == {"none", "pending", "submitted", "approved", "rejected"}
OperationStates == {"unset", "CREATE_IN_FLIGHT", "CREATED", "CREATE_UNKNOWN",
                    "VERIFY_PENDING", "PAID", "FAILED", "RECONCILIATION_REQUIRED"}
OrderStatuses == {"pending", "payment_submitted", "paid"}
Phases == {"idle", "creating", "called", "checking", "unpaid", "mismatched",
           "verifying", "verified", "locked", "replied", "reviewing", "rejecting"}
Replies == {"200", "200 lost", "201", "409", "404", "error"}
Answers == {"none", "matching", "other"} \cup Replies

\* known: the gateway's identity of the transaction is recorded; receipt: the
\* version of the latest receipt, and whether there is one.
Payment == [provider : Providers, status : PaymentStatuses, op : OperationStates,
            known : BOOLEAN, revision : Nat, receipt : Nat]

NoPayment == [provider |-> "none", status |-> "none", op |-> "unset",
              known |-> FALSE, revision |-> 0, receipt |-> 0]

Idle == [pc |-> "idle", order |-> NoOrder, revision |-> 0, receipt |-> 0, answer |-> "none"]

\* A provider_operation_state is written and the revision counted up.
Move(o, op) == payment' = [payment EXCEPT ![o].op = op, ![o].revision = @ + 1]

Room(o) == payment[o].revision < MaxRevision

Finish(r) == request' = [request EXCEPT ![r] = Idle]

At(r, pc) == request[r].pc = pc

--------------------------------------------------------------------------------
(* Approval: the payment, the order and the entitlement in one transaction *)

Settled(o, op) ==
    [payment EXCEPT ![o].status = "approved", ![o].op = op, ![o].revision = @ + 1]

\* _activate_paid_subscription() finds the subscription of an earlier approval.
Approved(o, op) ==
    /\ payment' = Settled(o, op)
    /\ order' = [order EXCEPT ![o] = "paid"]
    /\ subscribed' = subscribed \cup {o}

Unjudged == UNCHANGED <<judged, overlapped>>

Untouched == UNCHANGED <<order, subscribed>>

AtGateway == UNCHANGED <<creations, transferred, claimed>>

--------------------------------------------------------------------------------
(* Opening a payment                                                       *)

CreateManual(o) ==
    /\ payment[o].provider = "none"
    /\ order[o] # "paid"
    /\ payment' = [payment EXCEPT ![o] = [NoPayment EXCEPT !.provider = "manual", !.status = "pending",
                                                           !.revision = 1]]
    /\ Untouched /\ Unjudged /\ AtGateway /\ UNCHANGED request

\* Mutated form of StartCreate: the row is written once the gateway has answered.
StartCreateLate(r, o, gateway) ==
    /\ request[r] = Idle
    /\ payment[o].provider = "none"
    /\ order[o] = "pending"
    /\ request' = [request EXCEPT ![r] = [Idle EXCEPT !.pc = "creating", !.order = o]]
    /\ Untouched /\ Unjudged /\ AtGateway /\ UNCHANGED payment

\* The order is locked, the row inserted as CREATE_IN_FLIGHT and committed before
\* the gateway is called; a request that finds a row returns it.
StartCreate(r, o, gateway) ==
    /\ request[r] = Idle
    /\ payment[o].provider = "none"
    /\ order[o] = "pending"
    /\ payment' = [payment EXCEPT ![o] = [NoPayment EXCEPT !.provider = gateway, !.status = "pending",
                                              !.op = "CREATE_IN_FLIGHT", !.revision = 1]]
    /\ request' = [request EXCEPT ![r] = [Idle EXCEPT !.pc = "creating", !.order = o]]
    /\ Untouched /\ Unjudged /\ AtGateway

CallCreate(r) ==
    /\ At(r, "creating")
    /\ request' = [request EXCEPT ![r].pc = "called"]
    /\ creations' = [creations EXCEPT ![request[r].order] = @ + 1]
    /\ Untouched /\ Unjudged /\ UNCHANGED <<payment, transferred, claimed>>

\* The gateway created the transaction, created it for another amount (KPay
\* says so, and the identity is kept), refused, or nobody knows: a timeout, an
\* answer that does not parse, or an identity that another payment has already.
RecordCreate(r, outcome) ==
    LET o == request[r].order IN
    /\ At(r, "called")
    /\ outcome = "mispriced" => payment[o].provider = "kpay"
    /\ Room(o)
    /\ payment' = [payment EXCEPT
           ![o].op = CASE outcome = "created" -> "CREATED"
                       [] outcome = "unknown" -> "CREATE_UNKNOWN"
                       [] outcome \in {"refused", "mispriced"} -> "FAILED",
           ![o].known = outcome \in {"created", "mispriced"},
           ![o].revision = @ + 1]
    /\ Finish(r)
    /\ Untouched /\ Unjudged /\ AtGateway

--------------------------------------------------------------------------------
(* verify_kpay_payment(): the gateway is called with no transaction open   *)

BeginVerify(r, o) ==
    /\ request[r] = Idle
    /\ payment[o].provider = "kpay" /\ payment[o].known
    /\ ~(payment[o].status = "approved" /\ payment[o].op = "PAID")
    /\ Room(o)
    /\ Move(o, "VERIFY_PENDING")
    /\ request' = [request EXCEPT ![r] = [Idle EXCEPT !.pc = "checking", !.order = o]]
    /\ Untouched /\ Unjudged /\ AtGateway

\* check_transaction(): paid or not at this moment, a different authority, or no answer.
Check(r, answer) ==
    /\ At(r, "checking")
    /\ answer = "verifying" => request[r].order \in transferred
    /\ answer = "unpaid" => request[r].order \notin transferred
    /\ IF answer = "error" THEN Finish(r) ELSE request' = [request EXCEPT ![r].pc = answer]
    /\ Untouched /\ Unjudged /\ AtGateway /\ UNCHANGED payment

\* What the check said is written over the row as it is by now.
RecordCheck(r) ==
    LET o == request[r].order IN
    /\ At(r, "unpaid") \/ At(r, "mismatched")
    /\ Room(o)
    /\ Move(o, IF At(r, "unpaid") THEN "VERIFY_PENDING" ELSE "FAILED")
    /\ Finish(r)
    /\ Untouched /\ Unjudged /\ AtGateway

\* verify_transaction(): the amount and the identity match the order's, or not.
Verify(r, answer) ==
    /\ At(r, "verifying")
    /\ IF answer = "error" THEN Finish(r)
                           ELSE request' = [request EXCEPT ![r].pc = "verified", ![r].answer = answer]
    /\ Untouched /\ Unjudged /\ AtGateway /\ UNCHANGED payment

ConcludeVerify(r) ==
    LET o == request[r].order
        concluded == payment[o].status = "approved" /\ payment[o].op = "PAID"
        matches == /\ order[o] = "pending" /\ payment[o].status = "pending"
                   /\ request[r].answer = "matching"
    IN
    /\ At(r, "verified")
    /\ Room(o)
    /\ IF concluded THEN UNCHANGED payment /\ Untouched
       ELSE IF matches THEN Approved(o, "PAID")
       ELSE Move(o, "FAILED") /\ Untouched
    /\ Finish(r)
    /\ Unjudged /\ AtGateway

--------------------------------------------------------------------------------
(* PayexaService.verify(): the row stays locked while Payexa is called     *)

\* Mutated form of Locked: the lock does not outlive the read.
LockedBriefly(o) == FALSE

Locked(o) == \E r \in Requests : request[r].pc \in {"locked", "replied"} /\ request[r].order = o

BeginPayexa(r, o) ==
    /\ request[r] = Idle
    /\ payment[o].provider = "payexa" /\ payment[o].known
    /\ payment[o].op \notin {"PAID", "FAILED", "RECONCILIATION_REQUIRED"}
    /\ ~Locked(o)
    /\ request' = [request EXCEPT ![r] = [Idle EXCEPT !.pc = "locked", !.order = o]]
    /\ Untouched /\ Unjudged /\ AtGateway /\ UNCHANGED payment

\* 200 the first time Payexa verifies a paid transaction and 201 from then on,
\* 409 before it is paid, 400 or 404 for one it does not know; any of them may
\* get lost on the way.
Reply(r, answer) ==
    LET o == request[r].order IN
    /\ At(r, "locked")
    /\ answer \in {"200", "200 lost"} => o \in transferred \ claimed
    /\ answer = "201" => o \in claimed
    /\ answer = "409" => o \notin transferred
    /\ answer = "404" => o \notin transferred
    /\ claimed' = IF answer \in {"200", "200 lost"} THEN claimed \cup {o} ELSE claimed
    /\ request' = [request EXCEPT ![r].pc = "replied", ![r].answer = answer]
    /\ Untouched /\ Unjudged /\ UNCHANGED <<payment, creations, transferred>>

\* Mutated form of Success: a transaction that is not settled yet passes.
SuccessUnsettled(o, answer) == answer \in {"200", "409"} /\ order[o] = "pending"

Success(o, answer) == answer = "200" /\ order[o] = "pending" /\ payment[o].status = "pending"

ConcludePayexa(r) ==
    LET o == request[r].order
        answer == request[r].answer
    IN
    /\ At(r, "replied")
    /\ Room(o)
    /\ IF Success(o, answer) THEN Approved(o, "PAID")
       ELSE /\ Move(o, CASE answer \in {"200", "201"} -> "RECONCILIATION_REQUIRED"
                         [] answer = "404" -> "FAILED"
                         [] answer \in {"409", "200 lost", "error"} -> "VERIFY_PENDING")
            /\ Untouched
    /\ Finish(r)
    /\ Unjudged /\ AtGateway

--------------------------------------------------------------------------------
(* The card transfer: receipts, and administrators who judge them          *)

\* submit_receipt() locks the row.
SubmitReceipt(o) ==
    /\ payment[o].provider = "manual"
    /\ payment[o].status \in {"pending", "rejected"}
    /\ payment[o].receipt < MaxReceipts
    /\ Room(o)
    /\ payment' = [payment EXCEPT ![o].status = "submitted", ![o].receipt = @ + 1, ![o].revision = @ + 1]
    /\ order' = [order EXCEPT ![o] = "payment_submitted"]
    /\ Unjudged /\ AtGateway /\ UNCHANGED <<subscribed, request>>

\* An administrator looks at a payment; the decision will carry its revision.
Review(r, o) ==
    /\ request[r] = Idle
    /\ payment[o].provider = "manual"
    /\ request' = [request EXCEPT ![r] = [Idle EXCEPT !.pc = "reviewing", !.order = o,
                       !.revision = payment[o].revision, !.receipt = payment[o].receipt]]
    /\ Untouched /\ Unjudged /\ AtGateway /\ UNCHANGED payment

\* Mutated form of Judgeable: the revision is not compared.
JudgeableAny(r) == payment[request[r].order].status = "submitted"

\* Mutated form of Judgeable: whatever its status, an unchanged payment is judged.
JudgeableAgain(r) == payment[request[r].order].revision = request[r].revision

Judgeable(r) ==
    /\ payment[request[r].order].revision = request[r].revision
    /\ payment[request[r].order].status = "submitted"

\* approve() locks the row and judges it in one transaction.
Approve(r) ==
    LET o == request[r].order IN
    /\ At(r, "reviewing")
    /\ Judgeable(r)
    /\ Room(o)
    /\ Approved(o, payment[o].op)
    /\ judged' = [judged EXCEPT ![o] = request[r].receipt]
    /\ Finish(r)
    /\ AtGateway /\ UNCHANGED overlapped

\* reject() reads the row without a lock...
StartReject(r) ==
    /\ At(r, "reviewing")
    /\ Judgeable(r)
    /\ request' = [request EXCEPT ![r].pc = "rejecting"]
    /\ Untouched /\ Unjudged /\ AtGateway /\ UNCHANGED payment

\* ... and writes it with no further check, with the revision it read plus one.
FinishReject(r) ==
    LET o == request[r].order IN
    /\ At(r, "rejecting")
    /\ request[r].revision < MaxRevision
    /\ overlapped' = IF Judgeable(r) THEN overlapped ELSE overlapped \cup {o}
    /\ payment' = [payment EXCEPT ![o].status = "rejected", ![o].revision = request[r].revision + 1]
    /\ order' = [order EXCEPT ![o] = "pending"]
    /\ Finish(r)
    /\ AtGateway /\ UNCHANGED <<subscribed, judged>>

--------------------------------------------------------------------------------

\* A refused decision, a lost connection or a process that dies: what was not
\* committed is rolled back.
Abandon(r) ==
    /\ request[r] # Idle
    /\ Finish(r)
    /\ Untouched /\ Unjudged /\ AtGateway /\ UNCHANGED payment

\* The customer pays at the gateway, whose page is known once the identity is.
Transfer(o) ==
    /\ payment[o].known
    /\ transferred' = transferred \cup {o}
    /\ Untouched /\ Unjudged /\ UNCHANGED <<payment, request, creations, claimed>>

Init ==
    /\ payment = [o \in Orders |-> NoPayment]
    /\ order = [o \in Orders |-> "pending"]
    /\ subscribed = {}
    /\ request = [r \in Requests |-> Idle]
    /\ creations = [o \in Orders |-> 0]
    /\ transferred = {}
    /\ claimed = {}
    /\ judged = [o \in Orders |-> 0]
    /\ overlapped = {}

CustomerStep(o) == CreateManual(o) \/ SubmitReceipt(o) \/ Transfer(o)

OpenRequest(r, o) ==
    \/ \E g \in Gateways : StartCreate(r, o, g)
    \/ BeginVerify(r, o)
    \/ BeginPayexa(r, o)
    \/ Review(r, o)

RequestStep(r) ==
    \/ CallCreate(r)
    \/ \E a \in {"created", "mispriced", "unknown", "refused"} : RecordCreate(r, a)
    \/ \E a \in {"verifying", "unpaid", "mismatched", "error"} : Check(r, a)
    \/ RecordCheck(r)
    \/ \E a \in {"matching", "other", "error"} : Verify(r, a)
    \/ ConcludeVerify(r)
    \/ \E a \in Replies : Reply(r, a)
    \/ ConcludePayexa(r)
    \/ Approve(r)
    \/ StartReject(r)
    \/ FinishReject(r)
    \/ Abandon(r)

Next ==
    \/ \E o \in Orders : CustomerStep(o)
    \/ \E r \in Requests : RequestStep(r) \/ \E o \in Orders : OpenRequest(r, o)

Spec == Init /\ [][Next]_vars

--------------------------------------------------------------------------------
(* Properties                                                              *)

TypeOK ==
    /\ payment \in [Orders -> Payment]
    /\ order \in [Orders -> OrderStatuses]
    /\ subscribed \subseteq Orders
    /\ request \in [Requests -> [pc : Phases, order : Orders \cup {NoOrder}, revision : Nat,
                                 receipt : Nat, answer : Answers]]
    /\ \A r \in Requests : request[r].pc # "idle" => request[r].order \in Orders
    /\ \A r \in Requests : request[r].pc = "replied" => request[r].answer \in Replies
    /\ creations \in [Orders -> Nat]
    /\ transferred \subseteq Orders /\ claimed \subseteq Orders /\ overlapped \subseteq Orders
    /\ judged \in [Orders -> Nat]

\* The entitlement, the payment and the order agree, whatever requests of
\* customers, gateways and administrators overlap, unless a rejection was
\* written over a decision it had not seen.
EntitledWhenApproved ==
    \A o \in Orders \ overlapped :
        /\ o \in subscribed <=> payment[o].status = "approved"
        /\ o \in subscribed <=> order[o] = "paid"

\* A gateway payment entitles only after the gateway has the money.
GatewayEntitlementIsPaid ==
    \A o \in subscribed : payment[o].provider \in Gateways => o \in transferred

\* "Concurrent callbacks cannot race a 200 response against a 201 replay": a
\* Payexa payment that was approved stays recorded as paid.
PayexaApprovedIsPaid ==
    \A o \in Orders :
        payment[o].provider = "payexa" /\ payment[o].status = "approved" => payment[o].op = "PAID"

\* An order is taken to a gateway once: neither two requests at a time nor a
\* retry after an unknown outcome opens a second transaction for the customer.
OneTransactionPerOrder == \A o \in Orders : creations[o] <= 1

\* What an administrator approved is the receipt that the administrator saw,
\* unless an overlapping rejection has turned the revision back.
ApprovedAsSeen ==
    \A o \in Orders \ overlapped :
        payment[o].provider = "manual" /\ payment[o].status = "approved"
            => judged[o] = payment[o].receipt

\* "Entitlement source created from an approved order": an entitlement bought by
\* card transfer stands on an approved payment.
EntitledIsApproved ==
    \A o \in subscribed : payment[o].status = "approved"

\* "VERIFY_PENDING is intentionally durable and safe to retry; no entitlement
\* has changed."
PendingIsUnentitled ==
    \A o \in subscribed : payment[o].op # "VERIFY_PENDING"
================================================================================
