---------------------------- MODULE OutboundDelivery ----------------------------
(***************************************************************************)
(* Delivery of one persisted outbound text through Meta, and the explicit  *)
(* reconciliation of the sends whose outcome nobody knows.                 *)
(*                                                                         *)
(*   application/services/instagram_outbound_delivery.py        (deliver)  *)
(*   application/services/instagram_outbound_reconciliation.py  (reconcile,*)
(*                                                               retry)    *)
(*   application/outbound/delivery_state.py                  (the marker)  *)
(*                                                                         *)
(* A worker is one request thread with its own database session.  It reads *)
(* the message row without a lock, commits a marker, calls Meta with no    *)
(* transaction open, and commits the outcome, computed from the row it     *)
(* read and not from the row as it now is.  An operator decides on, and    *)
(* retries, what is left pending; those transactions lock the row.         *)
(***************************************************************************)
EXTENDS Naturals, FiniteSets

CONSTANTS
    Messages,       \* outbound messages
    Workers,        \* request threads
    NoMessage,      \* what an idle worker works on
    MaxDenials,     \* bound: CONFIRM_NOT_SENT decisions per message
    MaxAttempts     \* bound: attempt markers per message

ASSUME DeliveryAssumption ==
    /\ NoMessage \notin Messages
    /\ IsFiniteSet(Workers)
    /\ MaxDenials \in Nat
    /\ MaxAttempts \in Nat

VARIABLES
    row,        \* row[m]: the committed delivery metadata of message m
    issued,     \* issued[m]: attempt ids handed out for m, which are 1..issued[m]
    lapsed,     \* lapsed[m]: the attempts 1..lapsed[m] began RETRY_CLAIM_LEASE ago
    denials,    \* denials[m]: audit entries with decision CONFIRM_NOT_SENT
    vouched,    \* messages with an audit entry with decision CONFIRM_SENT
    called,     \* called[m]: attempts whose request was handed to the transport
    accepted,   \* accepted[m]: attempts Meta accepted, a copy for the customer each
    refused,    \* refused[m]: attempts Meta definitely did not accept
    crowd,      \* crowd[m]: the most first deliveries of m that were at once
                \* between their read of the row and their marker (history)
    worker      \* worker[w]: the local state of a request thread

vars == <<row, issued, lapsed, denials, vouched, called, accepted, refused, crowd, worker>>

Statuses == {"none", "pending", "sent", "failed"}
Certainties == {"unset", "NOT_SENT_CONFIRMED", "SENT_CONFIRMED",
                "FAILED_CONFIRMED", "DELIVERY_AMBIGUOUS"}
ReconciliationStatuses == {"unset", "NOT_REQUIRED", "REQUIRED", "IN_PROGRESS", "RESOLVED"}
Decisions == {"CONFIRM_SENT", "CONFIRM_NOT_SENT", "LEAVE_UNRESOLVED"}
Outcomes == {"none", "accepted", "ambiguous", "busy", "refused", "not_invoked"}

Row == [status : Statuses, certainty : Certainties, recon : ReconciliationStatuses,
        safe : BOOLEAN, attempt : Nat, pid : BOOLEAN]   \* pid: a provider message id is recorded

Untouched == [status |-> "none", certainty |-> "unset", recon |-> "unset",
              safe |-> FALSE, attempt |-> 0, pid |-> FALSE]

Legacy(status) == [Untouched EXCEPT !.status = status, !.pid = (status = "sent")]

Idle == [pc |-> "idle", msg |-> NoMessage, row |-> Untouched, claim |-> 0, outcome |-> "none"]

--------------------------------------------------------------------------------
(* The metadata, read and rewritten.                                       *)

EffectiveCertainty(r) ==
    IF r.certainty # "unset" THEN r.certainty
    ELSE CASE r.status = "pending" -> "DELIVERY_AMBIGUOUS"
           [] r.status = "sent"    -> "SENT_CONFIRMED"
           [] r.status = "failed"  -> "FAILED_CONFIRMED"
           [] r.status = "none"    -> "unset"

AlreadyDelivered(r) == r.status = "sent" /\ (r.certainty = "SENT_CONFIRMED" \/ r.pid)

AttemptMarker(r, a, recon) ==
    [r EXCEPT !.status = "pending", !.certainty = "DELIVERY_AMBIGUOUS",
              !.recon = recon, !.safe = FALSE, !.attempt = a]

\* Mutated form of OutcomeStatus: a timeout counts as a delivery.
OutcomeStatusHopeful(outcome) == IF outcome \in {"accepted", "ambiguous"} THEN "sent" ELSE "failed"

\* The delivery status an outcome leads to: "busy" is 429 or 5xx, "refused" any
\* other error reply, "not_invoked" a credential failure before the call.
OutcomeStatus(outcome) ==
    IF outcome = "accepted" THEN "sent" ELSE IF outcome = "ambiguous" THEN "pending" ELSE "failed"

FailureCertainty(outcome) ==
    IF outcome = "not_invoked" THEN "NOT_SENT_CONFIRMED" ELSE "FAILED_CONFIRMED"

OutcomeCertainty(outcome) ==
    IF outcome = "accepted" THEN "SENT_CONFIRMED"
    ELSE IF outcome = "ambiguous" THEN "DELIVERY_AMBIGUOUS" ELSE FailureCertainty(outcome)

\* What is written over r, the metadata this worker carries, after its attempt.
DeliveryMetadata(r, outcome) ==
    [r EXCEPT !.status = OutcomeStatus(outcome),
              !.certainty = OutcomeCertainty(outcome),
              !.recon = IF outcome = "ambiguous" THEN "REQUIRED" ELSE "NOT_REQUIRED",
              !.safe = outcome \in {"busy", "not_invoked"},
              !.pid = (outcome = "accepted") \/ @]

\* Mutated form of ActiveRetryClaim: a claim never lapses.
ActiveRetryClaimForever(m) == row[m].recon = "IN_PROGRESS"

ActiveRetryClaim(m) == row[m].recon = "IN_PROGRESS" /\ row[m].attempt > lapsed[m]

\* Mutated form of RetryEligible: the failures the system classified as safe
\* need no decision.
RetryEligibleUnresolved(r) ==
    /\ EffectiveCertainty(r) \in {"NOT_SENT_CONFIRMED", "FAILED_CONFIRMED"}
    /\ r.safe
    /\ r.status # "sent"

RetryEligible(r) ==
    /\ EffectiveCertainty(r) = "NOT_SENT_CONFIRMED"
    /\ r.safe
    /\ r.recon = "RESOLVED"
    /\ r.status # "sent"

\* Mutated form of ClaimedRetry: any pending row passes for this claim's.
ClaimedRetryAny(r, claim) ==
    /\ r.status = "pending"
    /\ r.certainty = "DELIVERY_AMBIGUOUS"

ClaimedRetry(r, claim) ==
    /\ r.status = "pending"
    /\ r.attempt = claim
    /\ r.certainty = "DELIVERY_AMBIGUOUS"

--------------------------------------------------------------------------------
(* deliver(), one worker at a time                                         *)

\* The first deliveries of m that have read its row and not marked it yet.
Starting(w, m) == worker[w].pc = "loaded" /\ worker[w].claim = 0 /\ worker[w].msg = m

Starters(m) == {w \in Workers : Starting(w, m)}

\* The row is read without a lock and passes every check of a first delivery.
\* The refusals (already delivered, pending, failed, no recipient) write
\* nothing and leave the worker idle.  Nothing keeps a second worker from the
\* same read: the flows of two events of one conversation, with a processing
\* record each, may have found the same reply to deliver.
Load(w, m) ==
    LET together == Cardinality(Starters(m)) + 1 IN
    /\ worker[w].pc = "idle"
    /\ ~AlreadyDelivered(row[m])
    /\ row[m].status \notin {"pending", "failed"}
    /\ worker' = [worker EXCEPT ![w] = [Idle EXCEPT !.pc = "loaded", !.msg = m, !.row = row[m]]]
    /\ crowd' = [crowd EXCEPT ![m] = IF together > @ THEN together ELSE @]
    /\ UNCHANGED <<row, issued, lapsed, denials, vouched, called, accepted, refused>>

\* The same read, made by the thread whose retry claim has just been committed:
\* it goes on only if the row still carries its claim.
ResumeClaim(w) ==
    LET m == worker[w].msg IN
    /\ worker[w].pc = "claimed"
    /\ worker' = IF ClaimedRetry(row[m], worker[w].claim)
                   THEN [worker EXCEPT ![w].pc = "loaded", ![w].row = row[m]]
                   ELSE [worker EXCEPT ![w] = Idle]
    /\ UNCHANGED <<row, issued, lapsed, denials, vouched, called, accepted, refused, crowd>>

\* No single active connection with credentials: a failure that is certain.
NoConnection(w) ==
    LET m == worker[w].msg IN
    /\ worker[w].pc = "loaded"
    /\ row' = [row EXCEPT ![m] = DeliveryMetadata(worker[w].row, "not_invoked")]
    /\ worker' = [worker EXCEPT ![w] = Idle]
    /\ UNCHANGED <<issued, lapsed, denials, vouched, called, accepted, refused, crowd>>

\* Mutated form of Mark: the marker is flushed and left uncommitted during the call.
MarkUncommitted(w) ==
    LET m == worker[w].msg
        a == issued[m] + 1
    IN
    /\ worker[w].pc = "loaded"
    /\ worker[w].claim = 0
    /\ issued[m] < MaxAttempts
    /\ issued' = [issued EXCEPT ![m] = a]
    /\ worker' = [worker EXCEPT ![w].pc = "ready",
                                ![w].row = AttemptMarker(worker[w].row, a, "REQUIRED")]
    /\ UNCHANGED <<row, lapsed, denials, vouched, called, accepted, refused, crowd>>

\* A first delivery writes its marker over whatever the row holds by now, and
\* before_provider_call() commits it.
Mark(w) ==
    LET m == worker[w].msg
        a == issued[m] + 1
        marked == AttemptMarker(worker[w].row, a, "REQUIRED")
    IN
    /\ worker[w].pc = "loaded"
    /\ worker[w].claim = 0
    /\ issued[m] < MaxAttempts
    /\ issued' = [issued EXCEPT ![m] = a]
    /\ row' = [row EXCEPT ![m] = marked]
    /\ worker' = [worker EXCEPT ![w].pc = "ready", ![w].row = marked]
    /\ UNCHANGED <<lapsed, denials, vouched, called, accepted, refused, crowd>>

\* A retry's marker was committed with its claim.
KeepClaim(w) ==
    /\ worker[w].pc = "loaded"
    /\ worker[w].claim # 0
    /\ worker' = [worker EXCEPT ![w].pc = "ready"]
    /\ UNCHANGED <<row, issued, lapsed, denials, vouched, called, accepted, refused, crowd>>

\* The token does not decrypt, or the sender cannot be built.
NotInvoked(w) ==
    /\ worker[w].pc = "ready"
    /\ worker' = [worker EXCEPT ![w].pc = "answered", ![w].outcome = "not_invoked"]
    /\ UNCHANGED <<row, issued, lapsed, denials, vouched, called, accepted, refused, crowd>>

Call(w) ==
    LET m == worker[w].msg IN
    /\ worker[w].pc = "ready"
    /\ called' = [called EXCEPT ![m] = @ \cup {worker[w].row.attempt}]
    /\ worker' = [worker EXCEPT ![w].pc = "calling"]
    /\ UNCHANGED <<row, issued, lapsed, denials, vouched, accepted, refused, crowd>>

\* What the sender returns or raises.  A definite refusal (4xx, or sending
\* switched off) means Meta has no copy and never will; a timeout, an unusable
\* reply or an overloaded server says nothing either way.
Answer(w, outcome) ==
    LET m == worker[w].msg
        a == worker[w].row.attempt
    IN
    /\ worker[w].pc = "calling"
    /\ outcome = "accepted" => a \in accepted[m]
    /\ outcome = "refused" => a \notin accepted[m]
    /\ refused' = IF outcome = "refused" THEN [refused EXCEPT ![m] = @ \cup {a}] ELSE refused
    /\ worker' = [worker EXCEPT ![w].pc = "answered", ![w].outcome = outcome]
    /\ UNCHANGED <<row, issued, lapsed, denials, vouched, called, accepted, crowd>>

\* The outcome is written over the whole metadata and committed by the caller.
Record(w) ==
    LET m == worker[w].msg IN
    /\ worker[w].pc = "answered"
    /\ row' = [row EXCEPT ![m] = DeliveryMetadata(worker[w].row, worker[w].outcome)]
    /\ worker' = [worker EXCEPT ![w] = Idle]
    /\ UNCHANGED <<issued, lapsed, denials, vouched, called, accepted, refused, crowd>>

\* The process dies, or the commit of the step it is in fails and is rolled back.
Crash(w) ==
    /\ worker[w].pc # "idle"
    /\ worker' = [worker EXCEPT ![w] = Idle]
    /\ UNCHANGED <<row, issued, lapsed, denials, vouched, called, accepted, refused, crowd>>

--------------------------------------------------------------------------------
(* The operator: reconcile() and retry(), each under the row's lock        *)

Reconciled(r, decision) ==
    CASE decision = "CONFIRM_SENT" ->
            [r EXCEPT !.status = "sent", !.certainty = "SENT_CONFIRMED",
                      !.recon = "RESOLVED", !.safe = FALSE]
      [] decision = "CONFIRM_NOT_SENT" ->
            [r EXCEPT !.status = "failed", !.certainty = "NOT_SENT_CONFIRMED",
                      !.recon = "RESOLVED", !.safe = TRUE]
      [] decision = "LEAVE_UNRESOLVED" ->
            [r EXCEPT !.status = "pending", !.certainty = "DELIVERY_AMBIGUOUS",
                      !.recon = "REQUIRED", !.safe = FALSE]

Reconcile(m, decision) ==
    LET prior == EffectiveCertainty(row[m]) IN
    /\ ~ActiveRetryClaim(m)
    /\ prior = "SENT_CONFIRMED" => decision = "CONFIRM_SENT"
    /\ decision = "LEAVE_UNRESOLVED" => prior \in {"DELIVERY_AMBIGUOUS", "unset"}
    /\ decision = "CONFIRM_NOT_SENT" => denials[m] < MaxDenials
    /\ row' = [row EXCEPT ![m] = Reconciled(row[m], decision)]
    /\ denials' = IF decision = "CONFIRM_NOT_SENT"
                    THEN [denials EXCEPT ![m] = @ + 1] ELSE denials
    /\ vouched' = IF decision = "CONFIRM_SENT" THEN vouched \cup {m} ELSE vouched
    /\ UNCHANGED <<issued, lapsed, called, accepted, refused, crowd, worker>>

Retry(w, m) ==
    LET a == issued[m] + 1 IN
    /\ worker[w].pc = "idle"
    /\ RetryEligible(row[m])
    /\ issued[m] < MaxAttempts
    /\ issued' = [issued EXCEPT ![m] = a]
    /\ row' = [row EXCEPT ![m] = AttemptMarker(row[m], a, "IN_PROGRESS")]
    /\ worker' = [worker EXCEPT ![w] = [Idle EXCEPT !.pc = "claimed", !.msg = m, !.claim = a]]
    /\ UNCHANGED <<lapsed, denials, vouched, called, accepted, refused, crowd>>

--------------------------------------------------------------------------------
(* Meta and the clock                                                      *)

\* Meta accepts a request it was handed, perhaps after the client gave up on it.
ProviderAccepts(m, a) ==
    /\ a \in called[m] \ (accepted[m] \cup refused[m])
    /\ accepted' = [accepted EXCEPT ![m] = @ \cup {a}]
    /\ UNCHANGED <<row, issued, lapsed, denials, vouched, called, refused, crowd, worker>>

\* Five minutes have passed since the oldest attempt that was still fresh.
LeaseLapses(m) ==
    /\ lapsed[m] < issued[m]
    /\ lapsed' = [lapsed EXCEPT ![m] = @ + 1]
    /\ UNCHANGED <<row, issued, denials, vouched, called, accepted, refused, crowd, worker>>

--------------------------------------------------------------------------------

\* A row is new, or was left by a release that recorded no certainty; the call
\* of a legacy row is attempt 1, with no id in the metadata.
Init ==
    /\ row \in [Messages -> {Untouched, Legacy("pending"), Legacy("sent"), Legacy("failed")}]
    /\ issued = [m \in Messages |-> IF row[m].status = "none" THEN 0 ELSE 1]
    /\ called = [m \in Messages |-> 1 .. issued[m]]
    /\ accepted \in [Messages -> SUBSET {1}]
    /\ \A m \in Messages :
          /\ row[m].status \in {"none", "failed"} => accepted[m] = {}
          /\ row[m].status = "sent" => accepted[m] = {1}
    /\ refused = [m \in Messages |-> IF row[m].status = "failed" THEN {1} ELSE {}]
    /\ lapsed = [m \in Messages |-> 0]
    /\ denials = [m \in Messages |-> 0]
    /\ vouched = {}
    /\ crowd = [m \in Messages |-> 0]
    /\ worker = [w \in Workers |-> Idle]

WorkerStep(w) ==
    \/ \E m \in Messages : Load(w, m)
    \/ ResumeClaim(w)
    \/ NoConnection(w)
    \/ Mark(w)
    \/ KeepClaim(w)
    \/ NotInvoked(w)
    \/ Call(w)
    \/ \E o \in {"accepted", "ambiguous", "busy", "refused"} : Answer(w, o)
    \/ Record(w)
    \/ Crash(w)
    \/ \E m \in Messages : Retry(w, m)

MessageStep(m) ==
    \/ \E d \in Decisions : Reconcile(m, d)
    \/ \E a \in called[m] : ProviderAccepts(m, a)
    \/ LeaseLapses(m)

Next ==
    \/ \E w \in Workers : WorkerStep(w)
    \/ \E m \in Messages : MessageStep(m)

Spec == Init /\ [][Next]_vars

\* Only the clock is fair: nothing obliges a worker to live, Meta to answer
\* or an operator to decide.
FairSpec == Spec /\ \A m \in Messages : WF_vars(LeaseLapses(m))

--------------------------------------------------------------------------------
(* Properties                                                              *)

TypeOK ==
    /\ row \in [Messages -> Row]
    /\ issued \in [Messages -> Nat]
    /\ lapsed \in [Messages -> Nat]
    /\ denials \in [Messages -> Nat]
    /\ vouched \subseteq Messages
    /\ called \in [Messages -> SUBSET Nat]
    /\ accepted \in [Messages -> SUBSET Nat]
    /\ refused \in [Messages -> SUBSET Nat]
    /\ crowd \in [Messages -> Nat]
    /\ worker \in [Workers -> [pc : {"idle", "claimed", "loaded", "ready", "calling", "answered"},
                               msg : Messages \cup {NoMessage}, row : Row,
                               claim : Nat, outcome : Outcomes]]
    /\ \A w \in Workers : worker[w].pc # "idle" => worker[w].msg \in Messages

\* The copies that nobody asked for: one, or as many as there were first
\* deliveries that began together.
Allowance(m) == IF crowd[m] > 1 THEN crowd[m] ELSE 1

\* However workers, crashes, late answers of Meta and operators interleave, the
\* customer gets no copy of a message beyond the first, except one for each time
\* a person stated that it had not been sent, and one for each further delivery
\* that had read the row before the first of them marked it.  A delivery that
\* is restarted, repeated or retried later adds none.
CopiesAccountedFor ==
    \A m \in Messages : Cardinality(accepted[m]) <= denials[m] + Allowance(m)

\* The attempt a worker has taken, once it is marked or claimed.
AttemptOf(w) == IF worker[w].pc \in {"ready", "calling", "answered"} THEN worker[w].row.attempt
                                                                    ELSE worker[w].claim

\* An attempt id has one owner, and its owner has not called Meta before the
\* call it is about to make: a lapsed claim that was taken up by a second
\* retry is never also sent by the first.
OneSendOwner ==
    \A w \in Workers :
        worker[w].pc # "idle" /\ AttemptOf(w) # 0 =>
          /\ \A v \in Workers \ {w} :
                worker[v].pc # "idle" /\ worker[v].msg = worker[w].msg => AttemptOf(v) # AttemptOf(w)
          /\ worker[w].pc = "ready" => AttemptOf(w) \notin called[worker[w].msg]

\* What makes OneSendOwner and CopiesAccountedFor inductive: every request
\* carries an attempt that was issued, an attempt taken has not been called
\* before its owner calls it, and no other worker works under it.
RequestsIssued ==
    \A m \in Messages : accepted[m] \subseteq called[m] /\ called[m] \subseteq 1 .. issued[m]

AttemptsTaken ==
    \A w \in Workers :
        /\ worker[w].pc \in {"claimed", "ready", "calling", "answered"} => AttemptOf(w) # 0
        /\ worker[w].pc = "loaded" /\ worker[w].claim # 0 => worker[w].row.attempt = worker[w].claim
        /\ worker[w].pc # "idle" /\ AttemptOf(w) # 0 =>
              /\ AttemptOf(w) \in 1 .. issued[worker[w].msg]
              /\ worker[w].pc \in {"claimed", "loaded", "ready"} =>
                    AttemptOf(w) \notin called[worker[w].msg]

AttemptsDistinct ==
    \A v, w \in Workers :
        /\ v # w /\ worker[v].pc # "idle" /\ worker[w].pc # "idle"
        /\ worker[v].msg = worker[w].msg /\ AttemptOf(w) # 0
        => AttemptOf(v) # AttemptOf(w)

Ownership == RequestsIssued /\ AttemptsTaken /\ AttemptsDistinct

\* What makes CopiesAccountedFor inductive: attempts that were issued, and those
\* that may still be, are covered by the allowance and the decisions made.
PermitsBalance ==
    \A m \in Messages :
        issued[m] + Cardinality(Starters(m)) + (IF RetryEligible(row[m]) THEN 1 ELSE 0)
            <= denials[m] + Allowance(m)

CrowdCounted == \A m \in Messages : Cardinality(Starters(m)) <= crowd[m]

Fresh == \A m \in Messages : row[m].status = "none" => row[m] = Untouched /\ issued[m] = 0

SentIsFinal == \A m \in Messages : row[m].status = "sent" => AlreadyDelivered(row[m])

Accounts == PermitsBalance /\ CrowdCounted /\ Fresh /\ SentIsFinal

\* No request leaves while the row still looks undelivered, so that whatever
\* dies after the call, no later worker takes the message for a new one.
IntentIsDurable ==
    \A m \in Messages : called[m] # {} => row[m].status # "none"

\* A message recorded as sent was accepted by Meta, or a person vouched for it.
SentIsBacked ==
    \A m \in Messages : row[m].status = "sent" => accepted[m] # {} \/ m \in vouched

\* What the row says of the attempt it names is so: Meta has it, or a person
\* said so; nobody handed it to Meta; Meta refused it.
RecordOfAttempt ==
    \A m \in Messages :
        /\ row[m].certainty = "SENT_CONFIRMED" => row[m].attempt \in accepted[m] \/ m \in vouched
        /\ row[m].certainty = "NOT_SENT_CONFIRMED" /\ row[m].recon # "RESOLVED"
              => row[m].attempt \notin called[m]
        /\ row[m].certainty = "FAILED_CONFIRMED" /\ ~row[m].safe => row[m].attempt \in refused[m]

\* Until deliveries begin together or a person denies a message, the system
\* never records that the customer certainly got nothing when there is, or may
\* yet be, a copy.
Undisturbed(m) == denials[m] = 0 /\ crowd[m] <= 1

NeverDeniesACopy ==
    \A m \in Messages :
        row[m].certainty = "NOT_SENT_CONFIRMED" /\ Undisturbed(m) => called[m] = {}

\* What a message's row says of its delivery is so, for the workers, the operators
\* and the customers who rely on it, wherever a process dies, whatever gets lost
\* and whoever writes over whom.
RecordIsTrue == IntentIsDurable /\ SentIsBacked /\ RecordOfAttempt /\ NeverDeniesACopy

\* A retry claim whose worker died does not keep operators out for good.
ClaimReleased ==
    \A m \in Messages : ActiveRetryClaim(m) ~> ~ActiveRetryClaim(m)

\* Delivery implements the permit protocol: a decision CONFIRM_NOT_SENT and a
\* delivery that begins beside another grant a permit, a copy accepted by Meta
\* uses one, everything else is a stutter.
Permits == INSTANCE SendPermits WITH
    permits <- [m \in Messages |-> denials[m] + Allowance(m)],
    copies  <- [m \in Messages |-> Cardinality(accepted[m])]

ImplementsPermits == Permits!PermitsSpec

\* "sent delivery cannot be reopened" (reconcile's refusal, and "recorded
\* success is idempotent" in the channel's document): once a message that Meta
\* accepted is committed as SENT_CONFIRMED, no step takes it back.
DeliveredNeverReopened ==
    [][\A m \in Messages :
          row[m].certainty = "SENT_CONFIRMED" /\ accepted[m] # {}
             => row'[m].certainty = "SENT_CONFIRMED"]_vars

\* "must not risk a second customer-facing message" (deliver()'s refusal of a
\* pending row): no copy but the first and those a person asked for.
NoSecondCopy == \A m \in Messages : Cardinality(accepted[m]) <= 1 + denials[m]
================================================================================
