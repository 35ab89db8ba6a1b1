---------------------------- MODULE WebhookIngestion ----------------------------
(***************************************************************************)
(* Ingestion of Meta's webhook deliveries, and the processing records that *)
(* let a redelivery resume what an earlier request left undone.            *)
(*                                                                         *)
(*   instagram_channel/service.py   InstagramWebhookIngestionService       *)
(*   instagram_channel/router.py    receive_instagram_webhook              *)
(*   application/instagram/inbound_message.py                              *)
(*                                                                         *)
(* A worker is one request: it persists a delivery's events in a first     *)
(* transaction, runs the automation or AI flow of each event, concludes    *)
(* each event in a transaction of its own and answers Meta, who sends a    *)
(* delivery again until it has seen a 200.                                 *)
(***************************************************************************)
EXTENDS Naturals, FiniteSets, Sequences, SequencesExt

CONSTANTS
    Deliveries,     \* webhook payloads, told apart by provider key or body hash
    Carries,        \* Carries[d]: the sequence of events in the payload of d
    Malformed,      \* deliveries whose payload does not parse
    Unsupported,    \* events with nothing to answer: echoes, unknown kinds, empty texts
    MessageOf,      \* MessageOf[e]: the provider message that event e reports
    Workers,        \* requests in progress
    Nobody,         \* no delivery, no event
    MaxFaults       \* bound: crashes, failing flows, timeouts and needless repeats

\* What parse_instagram_webhook() finds in the payloads, by idempotency key.
Events == UNION {ToSet(Carries[d]) : d \in Deliveries}

\* What classify_incoming_message() finds in the events, by message key.
ProviderMessages == {MessageOf[e] : e \in Events}

ASSUME IngestionAssumption ==
    /\ \A d \in Deliveries : Carries[d] \in Seq(Events)
    /\ Nobody \notin Deliveries \cup Events
    /\ Malformed \subseteq Deliveries
    /\ Unsupported \subseteq Events
    /\ MaxFaults \in Nat

VARIABLES
    delivery,   \* delivery[d]: processing_status of the delivery row, "none" before it
    owner,      \* owner[e]: the delivery whose ingestion created the event's row
    record,     \* record[e]: status of the event's processing record
    author,     \* author[p]: the event whose inbound message p became, if any
    lapsed,     \* deliveries whose pending records started _PROCESSING_LEASE ago
    worker,     \* worker[w]: the local state of a request
    owed,       \* deliveries Meta is about to send (again)
    handled,    \* events whose flow has run to its end
    overrun,    \* deliveries that lapsed while a worker was still at them
    faults      \* how much of MaxFaults is used up

vars == <<delivery, owner, record, author, lapsed, worker, owed, handled, overrun, faults>>

DeliveryStatuses == {"none", "accepted", "processed", "ignored", "failed"}
RecordStatuses == {"none", "pending", "processed", "ignored", "failed"}
Unfinished == {"pending", "failed"}
Terminal == {"processed", "ignored"}

Idle == [delivery |-> Nobody, items |-> {}, all |-> {}, waiting |-> FALSE]

\* The events whose rows refer to the row of d.
OwnEvents(d) == {e \in Events : owner[e] = d}

\* f comes before e in the payload of d.
Earlier(d, f, e) ==
    \E i \in DOMAIN Carries[d] : Carries[d][i] = f /\ \A j \in 1 .. i : Carries[d][j] # e

\* What Meta does with a status code: only a 200 makes it stop.
Answer(d, ok) == owed' = IF ok THEN owed \ {d} ELSE owed \cup {d}

At(d) == {w \in Workers : worker[w].delivery = d}

--------------------------------------------------------------------------------
(* ingest_for_ai(): one transaction                                        *)

\* The payload's new events; one that a delivery has brought already is skipped.
Fresh(d) == {e \in ToSet(Carries[d]) : owner[e] = Nobody}

\* find_message_reference(): an earlier event has become this message.
Known(p) == author[p] # Nobody

\* Mutated form of BecomeMessages: a message that exists already is answered again.
BecomeMessagesAgain(d) == Fresh(d) \ Unsupported

\* The fresh events that become inbound messages: those with content whose
\* provider message is not known yet, nor reported earlier in this payload.
BecomeMessages(d) ==
    {e \in Fresh(d) \ Unsupported :
        /\ ~Known(MessageOf[e])
        /\ \A f \in Fresh(d) \ Unsupported : Earlier(d, f, e) => MessageOf[f] # MessageOf[e]}

\* The payload does not parse: a failed receipt, and a 400.
IngestMalformed(d) ==
    /\ d \in owed
    /\ d \in Malformed
    /\ delivery[d] = "none"
    /\ delivery' = [delivery EXCEPT ![d] = "failed"]
    /\ UNCHANGED <<owner, record, author, lapsed, worker, owed, handled, overrun, faults>>

\* No single routable connection: an ignored receipt, and a 200.
IngestUnrouted(d) ==
    /\ d \in owed
    /\ d \notin Malformed
    /\ delivery[d] = "none"
    /\ delivery' = [delivery EXCEPT ![d] = "ignored"]
    /\ Answer(d, TRUE)
    /\ UNCHANGED <<owner, record, author, lapsed, worker, handled, overrun, faults>>

\* _processing_record(): the record that is inserted with an event.
NewRecord(e, messages) == IF e \in messages THEN "pending" ELSE "ignored"

\* The events are persisted; in an inactive tenant or store none becomes a message.
IngestRouted(w, d, active) ==
    LET fresh == Fresh(d)
        messages == IF active THEN BecomeMessages(d) ELSE {}
    IN
    /\ worker[w] = Idle
    /\ d \in owed
    /\ d \notin Malformed
    /\ delivery[d] = "none"
    /\ owner' = [e \in Events |-> IF e \in fresh THEN d ELSE owner[e]]
    /\ record' = [e \in Events |->
                    IF e \in fresh THEN NewRecord(e, messages) ELSE record[e]]
    /\ author' = [p \in ProviderMessages |->
                    IF \E e \in messages : MessageOf[e] = p
                      THEN CHOOSE e \in messages : MessageOf[e] = p ELSE author[p]]
    /\ delivery' = [delivery EXCEPT ![d] = IF fresh = {} THEN "processed" ELSE "accepted"]
    /\ worker' = [worker EXCEPT ![w] =
                    [delivery |-> d, items |-> fresh, all |-> fresh, waiting |-> TRUE]]
    /\ owed' = owed \ {d}
    /\ UNCHANGED <<lapsed, handled, overrun, faults>>

--------------------------------------------------------------------------------
(* _handle_duplicate(): the delivery has a row already                     *)

\* Mutated form of Resumable: pending work is resumed whatever its lease.
ResumableAnyway(d) == {e \in OwnEvents(d) : record[e] \in Unfinished}

\* Mutated form of Resumable: a failure consumes the redelivery.
ResumableLapsed(d) == {e \in OwnEvents(d) : record[e] = "pending" /\ d \in lapsed}

\* Records of one delivery are started and restarted together, so that their
\* leases lapse together.
Resumable(d) ==
    {e \in OwnEvents(d) : record[e] = "failed" \/ (record[e] = "pending" /\ d \in lapsed)}

\* _resume_flow_item(), for each of them.
Resume(w, d) ==
    /\ worker[w] = Idle
    /\ d \in owed
    /\ delivery[d] # "none"
    /\ Resumable(d) # {}
    /\ record' = [e \in Events |-> IF e \in Resumable(d) THEN "pending" ELSE record[e]]
    /\ lapsed' = lapsed \ {d}
    /\ delivery' = [delivery EXCEPT ![d] = "accepted"]
    /\ worker' = [worker EXCEPT ![w] =
                    [delivery |-> d, items |-> Resumable(d), all |-> Resumable(d),
                     waiting |-> TRUE]]
    /\ owed' = owed \ {d}
    /\ UNCHANGED <<owner, author, handled, overrun, faults>>

\* Nothing to resume: 500 while some record is being worked on, 400 for a payload
\* that did not parse, and 200 when all is concluded.
AnswerDuplicate(d) ==
    /\ d \in owed
    /\ delivery[d] # "none"
    /\ Resumable(d) = {}
    /\ Answer(d, /\ \A e \in OwnEvents(d) : record[e] # "pending"
                 /\ d \notin Malformed)
    /\ UNCHANGED <<delivery, owner, record, author, lapsed, worker, handled, overrun, faults>>

--------------------------------------------------------------------------------
(* The request's loop over its flow items, in the order of the payload     *)

\* _complete_delivery_if_terminal(): the session does not flush on its own
\* (autoflush=False), so that the count sees the committed records, with the one
\* that this transaction has just set to processed still pending.
Concluded(d) == \A e \in OwnEvents(d) : record[e] \notin Unfinished

\* The flow of the next item ends, well or with a failure of its own that it
\* keeps to itself, and complete_flow_item() commits.
CompleteItem(w, e) ==
    LET d == worker[w].delivery IN
    /\ e \in worker[w].items
    /\ \A f \in worker[w].items : ~Earlier(d, f, e)
    /\ record' = [record EXCEPT ![e] = IF @ = "pending" THEN "processed" ELSE @]
    /\ delivery' = IF Concluded(d) THEN [delivery EXCEPT ![d] = "processed"] ELSE delivery
    /\ worker' = [worker EXCEPT ![w].items = @ \ {e}]
    /\ handled' = handled \cup {e}
    /\ UNCHANGED <<owner, author, lapsed, owed, overrun, faults>>

\* Mutated form of FailedRecords: what others have concluded fails too.
FailedRecordsAll(w) == worker[w].all

FailedRecords(w) == {e \in worker[w].all : record[e] = "pending"}

\* An exception leaves the loop: fail_ingestion() marks what is not concluded,
\* whoever is working on it by now, and Meta gets a 500.
FailIngestion(w) ==
    LET d == worker[w].delivery IN
    /\ worker[w].items # {}
    /\ faults < MaxFaults
    /\ faults' = faults + 1
    /\ record' = [e \in Events |-> IF e \in FailedRecords(w) THEN "failed" ELSE record[e]]
    /\ delivery' = [delivery EXCEPT ![d] = "failed"]
    /\ worker' = [worker EXCEPT ![w] = Idle]
    /\ IF worker[w].waiting THEN Answer(d, FALSE) ELSE UNCHANGED owed
    /\ UNCHANGED <<owner, author, lapsed, handled, overrun>>

\* Every item is done: 200, if Meta is still there to hear it.
Acknowledge(w) ==
    /\ worker[w] # Idle
    /\ worker[w].items = {}
    /\ worker' = [worker EXCEPT ![w] = Idle]
    /\ UNCHANGED <<delivery, owner, record, author, lapsed, owed, handled, overrun, faults>>

\* The process dies.
Crash(w) ==
    LET d == worker[w].delivery IN
    /\ worker[w] # Idle
    /\ faults < MaxFaults
    /\ faults' = faults + 1
    /\ worker' = [worker EXCEPT ![w] = Idle]
    /\ IF worker[w].waiting THEN Answer(d, FALSE) ELSE UNCHANGED owed
    /\ UNCHANGED <<delivery, owner, record, author, lapsed, handled, overrun>>

--------------------------------------------------------------------------------
(* Meta and the clock                                                      *)

\* Meta gives up on a slow request, which goes on, and will send again.
GiveUp(w) ==
    /\ worker[w].waiting
    /\ faults < MaxFaults
    /\ faults' = faults + 1
    /\ worker' = [worker EXCEPT ![w].waiting = FALSE]
    /\ Answer(worker[w].delivery, FALSE)
    /\ UNCHANGED <<delivery, owner, record, author, lapsed, handled, overrun>>

\* Meta sends a delivery twice for no reason.
Repeat(d) ==
    /\ d \notin owed
    /\ faults < MaxFaults
    /\ faults' = faults + 1
    /\ owed' = owed \cup {d}
    /\ UNCHANGED <<delivery, owner, record, author, lapsed, worker, handled, overrun>>

LeaseLapses(d) ==
    /\ d \notin lapsed
    /\ \E e \in OwnEvents(d) : record[e] = "pending"
    /\ lapsed' = lapsed \cup {d}
    /\ overrun' = IF At(d) # {} THEN overrun \cup {d} ELSE overrun
    /\ UNCHANGED <<delivery, owner, record, author, worker, owed, handled, faults>>

--------------------------------------------------------------------------------

Init ==
    /\ delivery = [d \in Deliveries |-> "none"]
    /\ owner = [e \in Events |-> Nobody]
    /\ record = [e \in Events |-> "none"]
    /\ author = [p \in ProviderMessages |-> Nobody]
    /\ lapsed = {}
    /\ worker = [w \in Workers |-> Idle]
    /\ owed = Deliveries
    /\ handled = {}
    /\ overrun = {}
    /\ faults = 0

\* Meta's request for d reaches a free worker.
Receive(d) ==
    \/ IngestMalformed(d)
    \/ IngestUnrouted(d)
    \/ \E w \in Workers : \E active \in BOOLEAN : IngestRouted(w, d, active)
    \/ \E w \in Workers : Resume(w, d)
    \/ AnswerDuplicate(d)

WorkOn(w) == Acknowledge(w) \/ \E e \in Events : CompleteItem(w, e)

Next ==
    \/ \E d \in Deliveries : Receive(d) \/ Repeat(d) \/ LeaseLapses(d)
    \/ \E w \in Workers : WorkOn(w) \/ FailIngestion(w) \/ Crash(w) \/ GiveUp(w)

Spec == Init /\ [][Next]_vars

\* Meta keeps sending what it owes, a request that is not cut short runs to its
\* end (every call it makes has a timeout), and time passes.
FairSpec ==
    /\ Spec
    /\ \A d \in Deliveries : WF_vars(Receive(d)) /\ WF_vars(LeaseLapses(d))
    /\ \A w \in Workers : WF_vars(WorkOn(w))

--------------------------------------------------------------------------------
(* Properties                                                              *)

TypeOK ==
    /\ delivery \in [Deliveries -> DeliveryStatuses]
    /\ owner \in [Events -> Deliveries \cup {Nobody}]
    /\ record \in [Events -> RecordStatuses]
    /\ author \in [ProviderMessages -> Events \cup {Nobody}]
    /\ lapsed \subseteq Deliveries /\ owed \subseteq Deliveries /\ overrun \subseteq Deliveries
    /\ worker \in [Workers -> [delivery : Deliveries \cup {Nobody}, items : SUBSET Events,
                               all : SUBSET Events, waiting : BOOLEAN]]
    /\ handled \subseteq Events
    /\ faults \in 0 .. MaxFaults

\* "Processed and ignored work remains terminal": no late failure of another
\* request, and no redelivery, reopens a concluded event.
ConcludedIsFinal ==
    [][\A e \in Events : record[e] \in Terminal => record'[e] = record[e]]_vars

\* A delivery is marked processed only when every event it brought is concluded.
ProcessedIsComplete ==
    \A d \in Deliveries :
        delivery[d] = "processed" => \A e \in OwnEvents(d) : record[e] \in Terminal

\* "Active pending processing is protected against concurrent duplicate
\* execution": two requests work on one event only if the lease ran out under
\* one of them.
OneFlowUnlessOverrun ==
    \A v, w \in Workers :
        v # w /\ worker[v].items \cap worker[w].items # {}
            => worker[v].delivery \in overrun

\* A provider message is answered through one event only, whichever deliveries
\* and events repeat it.
OneFlowPerMessage ==
    \A e \in Events : record[e] \in {"pending", "failed", "processed"} => author[MessageOf[e]] = e

\* The rows of deliveries, events and messages agree, whatever overlaps and fails.
RecordsAgree == ProcessedIsComplete /\ OneFlowPerMessage

\* Once Meta has stopped sending a delivery, the flow of every message that it
\* brought has run: a 200 never hides a message that nobody looked at.
AcknowledgedIsHandled ==
    \A d \in Deliveries :
        delivery[d] # "none" /\ d \notin owed /\ (\A w \in At(d) : ~worker[w].waiting)
            => \A e \in OwnEvents(d) : record[e] = "ignored" \/ e \in handled

\* A persisted message is handled in the end, through crashes, failing flows
\* and timeouts.
EveryMessageHandled == \A e \in Events : record[e] = "pending" ~> e \in handled

\* What the replay test asserts after a 200: when every event of a delivery has
\* been processed, and the request that processed them is answered, the delivery
\* is processed too.
DeliveryConcluded ==
    [][\A w \in Workers :
          /\ Acknowledge(w) /\ worker[w].all # {}
          /\ \A e \in OwnEvents(worker[w].delivery) : record[e] \in Terminal
          => delivery[worker[w].delivery] = "processed"]_vars
================================================================================
