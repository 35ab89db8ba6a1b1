----------------------------- MODULE ConversationTurn -----------------------------
(***************************************************************************)
(* Who speaks next in a customer's conversation: the flows that webhook    *)
(* requests run for its messages (a deterministic rule first, the language *)
(* model otherwise) and the operator who takes a conversation over.        *)
(*                                                                         *)
(*   application/integrations/instagram_ai_flow.py  the flow of a message  *)
(*   application/services/ai_response_orchestrator.py  the model's turn    *)
(*   ai_assistant/service.py               the store's quota               *)
(*   automation_rules/runtime.py           the rule's turn                 *)
(*   application/services/inbox_service.py the operator's turn             *)
(*   application/services/conversation_service.py   what they all write    *)
(*                                                                         *)
(* A write to a conversation row names the revision it has read (the       *)
(* row's version_id_col) and fails when another transaction has moved it;  *)
(* a write that reads and commits at once is one step here.                *)
(***************************************************************************)
EXTENDS Naturals, FiniteSets

CONSTANTS
    Conversations,
    Messages,           \* the customers' messages, all of them texts
    Senders,            \* who may send what: functions from Messages to Conversations
    Workers,            \* requests in progress, of Meta or of an operator
    Nobody,             \* no message
    Matches,            \* which messages the enabled rules may match: sets of messages
    Limits,             \* what a plan's ai_request_limit may be
    MaxFaults,          \* bound: crashes and failures of the model
    MaxInterventions    \* bound: take-overs, and replies, of operators per conversation

ASSUME TurnAssumption ==
    /\ Senders \subseteq [Messages -> Conversations]
    /\ Nobody \notin Messages
    /\ Matches \subseteq SUBSET Messages
    /\ Limits \subseteq Nat
    /\ MaxFaults \in Nat
    /\ MaxInterventions \in Nat
    /\ IsFiniteSet(Messages)

VARIABLES
    conversationOf, \* conversationOf[m]: the conversation m belongs to
    status,         \* status[c]
    revision,       \* revision[c]: the version of the conversation's row
    counted,        \* counted[c]: message_count
    thread,         \* the persisted messages, in either direction
    sentAt,         \* sentAt[m]: when the customer sent m, 0 before
    clock,          \* clock[c]: the latest time at which something was said in c
    flow,           \* flow[w]: what request w is doing
    ended,          \* messages whose processing record is concluded
    excused,        \* those concluded by a pause, the quota or a failure of the model
    matched,        \* messages that an enabled rule matches
    limit,          \* the ai_request_limit of the store's plan
    interventions,  \* interventions[c]: the take-overs of c so far
    faults          \* how much of MaxFaults is used up

rows == <<status, revision, counted, thread, clock>>
given == <<conversationOf, matched, limit>>
vars == <<rows, given, sentAt, flow, ended, excused, interventions, faults>>

--------------------------------------------------------------------------------
(* The thread of a conversation                                            *)

\* A message by author: the customer's own "to", or a reply to it.
Entry(author, to, at) == [author |-> author, to |-> to, at |-> at]
NoEntry == Entry("nobody", Nobody, 0)
Authors == {"customer", "automation", "assistant", "human"}
Machines == {"automation", "assistant"}
Entries == [author : Authors, to : Messages, at : Nat]

ThreadOf(c) == {e \in thread : conversationOf[e.to] = c}
Replies(author, m) == {e \in thread : e.author = author /\ e.to = m}
Persisted(m) == Replies("customer", m) # {}
Requests == {e \in thread : e.author = "assistant"}

\* history[-1] of those among entries: messages are read in the order of occurred_at.
Last(entries) == CHOOSE e \in entries : \A f \in entries : f.at <= e.at

\* The customer's latest message in c.
Latest(c) == Last({e \in ThreadOf(c) : e.author = "customer"}).to

\* The conversation's row and history as a transaction reads them.
Snapshot(c) ==
    [revision |-> revision[c], status |-> status[c], counted |-> counted[c],
     latest |-> Latest(c), author |-> Last(ThreadOf(c)).author]
NothingRead ==
    [revision |-> 0, status |-> "open", counted |-> 0, latest |-> Nobody, author |-> "nobody"]

Flow(stage, of, seen, reply) == [stage |-> stage, of |-> of, seen |-> seen, reply |-> reply]
Idle == Flow("idle", Nobody, NothingRead, NoEntry)
At(w) == conversationOf[flow[w].of]

\* Mutated form of Current: no version column.
CurrentAnyway(w) == TRUE

\* The UPDATE finds the revision that the flow has read.
Current(w) == flow[w].seen.revision = revision[At(w)]

\* append_message(): the entry, the row's counter and its revision.
Append(c, e, count, bumps) ==
    /\ thread' = thread \cup {e}
    /\ counted' = [counted EXCEPT ![c] = count + 1]
    /\ revision' = [revision EXCEPT ![c] = @ + bumps]

\* Request w is over; the message whose flow it was, if any, is concluded.
Conclude(w) ==
    /\ flow' = [flow EXCEPT ![w] = Idle]
    /\ ended' = ended \cup ({flow[w].of} \ {Nobody})

Fault ==
    /\ faults < MaxFaults
    /\ faults' = faults + 1

--------------------------------------------------------------------------------
(* The customer, and the ingestion of what the customer said               *)

Send(m) ==
    LET c == conversationOf[m]
    IN
    /\ sentAt[m] = 0
    /\ clock' = [clock EXCEPT ![c] = @ + 1]
    /\ sentAt' = [sentAt EXCEPT ![m] = clock[c] + 1]
    /\ UNCHANGED <<status, revision, counted, thread, flow, ended, excused,  given, interventions, faults>>

\* Messages may arrive in another order than they were sent; the time a message
\* carries is the provider's.
Persist(m) ==
    LET c == conversationOf[m]
    IN
    /\ sentAt[m] > 0
    /\ ~Persisted(m)
    /\ Append(c, Entry("customer", m, sentAt[m]), counted[c], 1)
    /\ UNCHANGED <<status, sentAt, clock, flow, ended, excused,  given, interventions, faults>>

--------------------------------------------------------------------------------
(* The beginning of a flow: take-over, rule, model                         *)

\* Requests of Meta work on what is not concluded; a repeated delivery whose
\* lease has lapsed may put a second one on the same message.
CanBegin(w, m) ==
    /\ flow[w] = Idle
    /\ Persisted(m)
    /\ m \notin ended

\* process(), is_ai_paused(): nothing is said while a human has the conversation.
SkipPaused(w, m) ==
    /\ CanBegin(w, m)
    /\ status[conversationOf[m]] = "human_active"
    /\ ended' = ended \cup {m}
    /\ excused' = excused \cup {m}
    /\ UNCHANGED <<rows, sentAt, flow, given, interventions, faults>>

\* A rule matches; its reply to this message is not there yet.
MatchRule(w, m) ==
    /\ CanBegin(w, m)
    /\ m \in matched
    /\ status[conversationOf[m]] # "human_active"
    /\ Replies("automation", m) = {}
    /\ flow' = [flow EXCEPT ![w] = Flow("automating", m, Snapshot(conversationOf[m]), NoEntry)]
    /\ UNCHANGED <<rows, sentAt, ended, excused, given, interventions, faults>>

\* An earlier run has left the rule's reply: it is found by its key.
ReuseRuleReply(w, m) ==
    /\ CanBegin(w, m)
    /\ m \in matched
    /\ status[conversationOf[m]] # "human_active"
    /\ \E e \in Replies("automation", m) :
          flow' = [flow EXCEPT ![w] = Flow("delivering", m, NothingRead, e)]
    /\ UNCHANGED <<rows, sentAt, ended, excused, given, interventions, faults>>

\* Mutated form of AnswersTo: any reply of the assistant will do.
AnswersToAnything(m) ==
    {e \in ThreadOf(conversationOf[m]) : e.author = "assistant"}

\* What generate_response() takes for its reply to the customer's latest message.
AnswersTo(m) == Replies("assistant", m)

\* The customer's latest message has its reply: nothing is generated.
ReuseAnswer(w, m) ==
    /\ CanBegin(w, m)
    /\ m \notin matched
    /\ status[conversationOf[m]] # "human_active"
    /\ \E e \in AnswersTo(Latest(conversationOf[m])) :
          flow' = [flow EXCEPT ![w] = Flow("delivering", m, NothingRead, e)]
    /\ UNCHANGED <<rows, sentAt, ended, excused, given, interventions, faults>>

\* The conversation and its history are read; the quota comes next.
ReadHistory(w, m) ==
    /\ CanBegin(w, m)
    /\ m \notin matched
    /\ status[conversationOf[m]] # "human_active"
    /\ AnswersTo(Latest(conversationOf[m])) = {}
    /\ flow' = [flow EXCEPT ![w] = Flow("asking", m, Snapshot(conversationOf[m]), NoEntry)]
    /\ UNCHANGED <<rows, sentAt, ended, excused, given, interventions, faults>>

--------------------------------------------------------------------------------
(* The rule's turn                                                         *)

AutomationReplies(w) ==
    LET c == At(w)
        e == Entry("automation", flow[w].of, clock[c] + 1)
    IN
    /\ flow[w].stage = "automating"
    /\ Current(w)
    /\ Append(c, e, flow[w].seen.counted, 1)
    /\ clock' = [clock EXCEPT ![c] = @ + 1]
    /\ flow' = [flow EXCEPT ![w] = Flow("delivering", flow[w].of, NothingRead, e)]
    /\ UNCHANGED <<status, sentAt, ended, excused, given, interventions, faults>>

\* The stale write fails the whole request, and Meta repeats it.
AutomationConflict(w) ==
    /\ flow[w].stage = "automating"
    /\ ~Current(w)
    /\ flow' = [flow EXCEPT ![w] = Idle]
    /\ UNCHANGED <<rows, sentAt, ended, excused, given, interventions, faults>>

--------------------------------------------------------------------------------
(* The model's turn: one transaction from the history to the reply         *)

\* Mutated form of QuotaUnlocked: the usage is counted without a lock.
QuotaUnlockedAnyway == TRUE

\* The lock on the store's subscription rows is held from the count of the
\* requests to the end of the transaction.
QuotaUnlocked == \A v \in Workers : flow[v].stage # "thinking"

QuotaLeft == Cardinality(Requests) < limit

QuotaExhausted(w) ==
    /\ flow[w].stage = "asking"
    /\ QuotaUnlocked
    /\ ~QuotaLeft
    /\ Conclude(w)
    /\ excused' = excused \cup {flow[w].of}
    /\ UNCHANGED <<rows, sentAt, given, interventions, faults>>

\* _latest_customer_message(): the history does not end with the customer.
NothingToAnswer(w) ==
    /\ flow[w].stage = "asking"
    /\ QuotaUnlocked
    /\ QuotaLeft
    /\ flow[w].seen.author # "customer"
    /\ Conclude(w)
    /\ UNCHANGED <<rows, sentAt, excused, given, interventions, faults>>

\* Mutated form of CallModel: whoever has the last word, it is answered.
CallModelUnasked(w) ==
    /\ flow[w].stage = "asking"
    /\ QuotaUnlocked
    /\ QuotaLeft
    /\ flow' = [flow EXCEPT ![w] = [@ EXCEPT !.stage = "thinking"]]
    /\ UNCHANGED <<rows, sentAt, ended, excused, given, interventions, faults>>

CallModel(w) ==
    /\ flow[w].stage = "asking"
    /\ QuotaUnlocked
    /\ QuotaLeft
    /\ flow[w].seen.author = "customer"
    /\ flow' = [flow EXCEPT ![w] = [@ EXCEPT !.stage = "thinking"]]
    /\ UNCHANGED <<rows, sentAt, ended, excused, given, interventions, faults>>

AfterReply(s) == IF s = "open" THEN "waiting_for_customer" ELSE s

\* The reply is appended and, in an open conversation, the status changed: two
\* writes of one transaction, each with its revision.
ModelReplies(w) ==
    LET c == At(w)
        read == flow[w].seen
        e == Entry("assistant", read.latest, clock[c] + 1)
    IN
    /\ flow[w].stage = "thinking"
    /\ Current(w)
    /\ Append(c, e, read.counted, IF read.status = "open" THEN 2 ELSE 1)
    /\ status' = [status EXCEPT ![c] = IF read.status = "open" THEN AfterReply("open") ELSE @]
    /\ clock' = [clock EXCEPT ![c] = @ + 1]
    /\ flow' = [flow EXCEPT ![w] = Flow("delivering", flow[w].of, NothingRead, e)]
    /\ UNCHANGED <<sentAt, ended, excused, given, interventions, faults>>

\* Mutated form of ModelConflict: the failed transaction is not rolled back.
ModelConflictStuck(w) == flow[w].stage = "thinking" /\ ~Current(w) /\ UNCHANGED vars

\* The stale write is an unexpected failure of the flow, which is concluded.
ModelConflict(w) ==
    /\ flow[w].stage = "thinking"
    /\ ~Current(w)
    /\ Conclude(w)
    /\ UNCHANGED <<rows, sentAt, excused, given, interventions, faults>>

\* The provider fails or answers nothing: rollback, and the flow is concluded.
ModelFails(w) ==
    /\ flow[w].stage = "thinking"
    /\ Fault
    /\ Conclude(w)
    /\ excused' = excused \cup {flow[w].of}
    /\ UNCHANGED <<rows, sentAt, given, interventions>>

--------------------------------------------------------------------------------
(* Delivery: its outcome changes no conversation, see OutboundDelivery     *)

\* The reply is handed over, delivered or not; the conversation is not looked at again.
Deliver(w) ==
    /\ flow[w].stage = "delivering"
    /\ Conclude(w)
    /\ UNCHANGED <<rows, sentAt, excused, given, interventions, faults>>

\* The process dies; its transaction, and the lock with it, are gone.
Crash(w) ==
    /\ flow[w].stage # "idle"
    /\ Fault
    /\ flow' = [flow EXCEPT ![w] = Idle]
    /\ UNCHANGED <<rows, sentAt, ended, excused, given, interventions>>

--------------------------------------------------------------------------------
(* The operator                                                            *)

Intervene(c) ==
    /\ interventions[c] < MaxInterventions
    /\ interventions' = [interventions EXCEPT ![c] = @ + 1]

\* A conversation exists from its first message on.
TakeOver(c) ==
    /\ Intervene(c)
    /\ ThreadOf(c) # {}
    /\ status[c] # "human_active"
    /\ status' = [status EXCEPT ![c] = "human_active"]
    /\ revision' = [revision EXCEPT ![c] = @ + 1]
    /\ UNCHANGED <<counted, thread, sentAt, clock, flow, ended, excused,  given, faults>>

ResumeAI(c) ==
    /\ status[c] = "human_active"
    /\ status' = [status EXCEPT ![c] = "open"]
    /\ revision' = [revision EXCEPT ![c] = @ + 1]
    /\ UNCHANGED <<counted, thread, sentAt, clock, flow, ended, excused,  given, interventions, faults>>

\* A reply to the customer's latest message, committed before its delivery.
SendManualReply(w, c) ==
    LET e == Entry("human", Latest(c), clock[c] + 1)
    IN
    /\ flow[w] = Idle
    /\ status[c] = "human_active"
    /\ \E m \in Messages : Persisted(m) /\ conversationOf[m] = c
    /\ Cardinality({f \in ThreadOf(c) : f.author = "human"}) < MaxInterventions
    /\ Append(c, e, counted[c], 1)
    /\ clock' = [clock EXCEPT ![c] = @ + 1]
    /\ flow' = [flow EXCEPT ![w] = Flow("delivering", Nobody, NothingRead, e)]
    /\ UNCHANGED <<status, sentAt, ended, excused, given, interventions, faults>>

--------------------------------------------------------------------------------
Init ==
    /\ status = [c \in Conversations |-> "open"]
    /\ revision = [c \in Conversations |-> 1]
    /\ counted = [c \in Conversations |-> 0]
    /\ thread = {}
    /\ sentAt = [m \in Messages |-> 0]
    /\ clock = [c \in Conversations |-> 0]
    /\ flow = [w \in Workers |-> Idle]
    /\ ended = {}
    /\ excused = {}
    /\ conversationOf \in Senders
    /\ matched \in Matches
    /\ limit \in Limits
    /\ interventions = [c \in Conversations |-> 0]
    /\ faults = 0

Begin(w, m) ==
    \/ SkipPaused(w, m)
    \/ MatchRule(w, m)
    \/ ReuseRuleReply(w, m)
    \/ ReuseAnswer(w, m)
    \/ ReadHistory(w, m)

Proceed(w) ==
    \/ AutomationReplies(w)
    \/ AutomationConflict(w)
    \/ QuotaExhausted(w)
    \/ NothingToAnswer(w)
    \/ CallModel(w)
    \/ ModelReplies(w)
    \/ ModelConflict(w)
    \/ Deliver(w)

Fail(w) ==
    \/ ModelFails(w)
    \/ Crash(w)

Operate(c) ==
    \/ TakeOver(c)
    \/ ResumeAI(c)
    \/ \E w \in Workers : SendManualReply(w, c)

Next ==
    \/ \E m \in Messages : Send(m) \/ Persist(m) \/ \E w \in Workers : Begin(w, m)
    \/ \E w \in Workers : Proceed(w) \/ Fail(w)
    \/ \E c \in Conversations : Operate(c)

Spec == Init /\ [][Next]_vars

\* Meta repeats a delivery until it is acknowledged, and requests run to their end.
FairSpec ==
    /\ Spec
    /\ \A m \in Messages : WF_vars(\E w \in Workers : Begin(w, m))
    /\ \A w \in Workers : WF_vars(Proceed(w))

--------------------------------------------------------------------------------
(* Properties                                                              *)

Statuses == {"open", "waiting_for_customer", "human_active"}
Reads ==
    [revision : Nat, status : Statuses, counted : Nat,
     latest : Messages \cup {Nobody}, author : Authors \cup {"nobody"}]
Stages == {"idle", "automating", "asking", "thinking", "delivering"}
Flows ==
    [stage : Stages, of : Messages \cup {Nobody}, seen : Reads, reply : Entries \cup {NoEntry}]

\* Every variable holds what its declaration says.
TypeOK ==
    /\ status \in [Conversations -> Statuses]
    /\ revision \in [Conversations -> Nat]
    /\ counted \in [Conversations -> Nat]
    /\ conversationOf \in [Messages -> Conversations]
    /\ thread \in SUBSET Entries
    /\ sentAt \in [Messages -> Nat]
    /\ clock \in [Conversations -> Nat]
    /\ flow \in [Workers -> Flows]
    /\ ended \subseteq Messages
    /\ excused \subseteq Messages
    /\ matched \subseteq Messages
    /\ limit \in Limits
    /\ interventions \in [Conversations -> 0 .. MaxInterventions]
    /\ faults \in 0 .. MaxFaults

\* However many flows race for it, a message has at most one reply of the
\* assistant and at most one of a rule: generate_response() and the rule runtime
\* look for an earlier reply in a history that may be stale when they write.
OneReplyPerMessage ==
    \A e, f \in thread :
        e.author \in Machines /\ e.author = f.author /\ e.to = f.to => e = f

\* The row's message_count, incremented from a value read before the call to the
\* model, never loses a message that somebody else has appended meanwhile.
CountMatchesThread ==
    \A c \in Conversations : counted[c] = Cardinality(ThreadOf(c))

\* The store's hard cap: the replies generated never exceed the plan's limit, in
\* all conversations together and with any number of requests at the model.
QuotaRespected == Cardinality(Requests) <= limit

\* When every message sent in a conversation has run its flow, nobody intervened
\* and no flow was cut short by a pause, the quota or a failure, the customer
\* does not have the last word: flows that lose a race leave a winner behind.
CustomerNotLeftWaiting ==
    \A c \in Conversations :
        LET said == {m \in Messages : conversationOf[m] = c /\ sentAt[m] > 0}
        IN
        /\ said # {}
        /\ said \subseteq ended \ excused
        /\ interventions[c] = 0
        => Last(ThreadOf(c)).author # "customer"

\* While a human has the conversation, no machine adds to it or gives it back: a
\* flow that read it before the take-over cannot write any more.
MachinesYield ==
    [][\A c \in Conversations :
          status[c] = "human_active" =>
            /\ \A e \in thread' \ thread :
                  e.author \in Machines => conversationOf[e.to] # c
            /\ status'[c] = "human_active" \/ ResumeAI(c)]_vars

\* The turns of a conversation, as TurnTaking has them.
LineOf(e) == [author |-> e.author, to |-> e.to]
Holder(c) == IF status[c] = "human_active" THEN "human" ELSE "machines"
Said(c) == {LineOf(e) : e \in ThreadOf(c)}
LastLine(c) == LineOf(IF ThreadOf(c) = {} THEN NoEntry ELSE Last(ThreadOf(c)))

Turns == INSTANCE TurnTaking WITH
    holder <- [c \in Conversations |-> Holder(c)],
    said   <- [c \in Conversations |-> Said(c)],
    last   <- [c \in Conversations |-> LastLine(c)],
    budget <- limit - Cardinality(Requests)

\* Flows, operators and customers take turns: whatever races, what is written to a
\* thread or a status is a turn of TurnTaking, and the rest is none of its business.
ImplementsTurns == Turns!TurnSpec

\* No message stays in progress: conflicts, the lock on the quota and crashes
\* let every flow come to its end.
EveryFlowEnds == \A m \in Messages : Persisted(m) ~> m \in ended

\* "Operator takeover prevents unsanctioned AI delivery immediately"
\* (docs/blueprint/AI-Commerce-Platform-Blueprint.md:1859): what a machine has
\* written is not handed to Instagram while a human has the conversation.
TakeoverStopsDelivery ==
    [][\A w \in Workers :
          Deliver(w) /\ flow[w].reply.author \in Machines
            => status[conversationOf[flow[w].reply.to]] # "human_active"]_vars

\* "Exact deterministic automation matches perform ZERO LLM, PromptBuilder,
\* knowledge retrieval, or AI usage" (DECISIONS.md): no generated reply answers a
\* message that a rule matches.
MatchesUseNoModel == \A e \in Requests : e.to \notin matched
================================================================================
