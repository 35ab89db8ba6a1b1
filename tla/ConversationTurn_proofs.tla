------------------------- MODULE ConversationTurn_proofs -------------------------
(***************************************************************************)
(* The safety of ConversationTurn for any number of conversations,         *)
(* messages and requests, and their refinement of TurnTaking. Everything   *)
(* rests on one fact: a flow whose revision is still the row's has read    *)
(* what is still true (Snapshots, Attentive).                              *)
(***************************************************************************)
EXTENDS ConversationTurn, FiniteSetTheorems, WellFoundedInduction, TLAPS

Reading == {"automating", "asking", "thinking"}

\* What a flow f has read is what the row and the thread of c still say.
UpToDate(f, c) ==
    /\ f.seen.status = status[c]
    /\ f.seen.counted = counted[c]
    /\ f.stage = "automating" => Replies("automation", f.of) = {}
    /\ f.stage # "automating" => Replies("assistant", f.seen.latest) = {}

\* A flow between its read and its write.
ReadOK(f) ==
    /\ f.of \in Messages
    /\ f.seen.revision <= revision[conversationOf[f.of]]
    /\ f.seen.status # "human_active"
    /\ f.stage # "automating" =>
          /\ f.seen.latest \in Messages
          /\ conversationOf[f.seen.latest] = conversationOf[f.of]
    /\ f.seen.revision = revision[conversationOf[f.of]] => UpToDate(f, conversationOf[f.of])

Snapshots == \A w \in Workers : flow[w].stage \in Reading => ReadOK(flow[w])

\* Nothing is said later than the clock of its conversation.
Timely ==
    /\ \A e \in thread : e.at <= clock[conversationOf[e.to]]
    /\ \A m \in Messages : sentAt[m] <= clock[conversationOf[m]]

\* At most one flow is past the quota, and there is a request left for it.
OneAtTheModel ==
    \A v \in Workers : flow[v].stage = "thinking" =>
        /\ QuotaLeft
        /\ \A w \in Workers : flow[w].stage = "thinking" => v = w

IInv ==
    /\ TypeOK
    /\ IsFiniteSet(thread)
    /\ Timely
    /\ Snapshots
    /\ OneAtTheModel
    /\ CountMatchesThread
    /\ QuotaRespected
    /\ OneReplyPerMessage

--------------------------------------------------------------------------------
(* The last of some entries                                                *)

\* A nonempty set of natural numbers has a least element.
LEMMA LeastExists ==
    ASSUME NEW T, T \subseteq Nat, T # {}
    PROVE  \E x \in T : \A y \in T : x <= y
<1>1. PICK x \in T : \A y \in T : ~ (<<y, x>> \in OpToRel(<, Nat))
  BY NatLessThanWellFounded, WFMin
<1>2. \A y \in T : ~ (y < x)
  BY <1>1 DEF OpToRel
<1> QED
  BY <1>2

\* Entries that are not later than some time include a last one.
LEMMA LastOf ==
    ASSUME NEW S \in SUBSET Entries, S # {}, NEW B \in Nat, \A e \in S : e.at <= B
    PROVE  Last(S) \in S /\ \A e \in S : e.at <= Last(S).at
<1> DEFINE T == {B - e.at : e \in S}
<1>1. \A e \in S : e.at \in Nat
  BY DEF Entries
<1>2. T \subseteq Nat /\ T # {}
  BY <1>1
<1>3. PICK x \in T : \A y \in T : x <= y
  <2> HIDE DEF T
  <2> QED
    BY <1>2, LeastExists
<1>4. PICK e \in S : x = B - e.at
  BY <1>3
<1>5. ASSUME NEW f \in S PROVE f.at <= e.at
  <2>1. B - f.at \in T
    OBVIOUS
  <2>2. x <= B - f.at
    <3> HIDE DEF T
    <3> QED
      BY <1>3, <2>1
  <2>3. e.at \in Nat /\ f.at \in Nat /\ e.at <= B
    BY <1>1
  <2> QED
    BY <1>4, <2>2, <2>3
<1> QED
  BY <1>4, <1>5 DEF Last

\* What a transaction reads in a conversation that has a message.
LEMMA SnapshotOf ==
    ASSUME TypeOK, Timely, NEW m \in Messages, Persisted(m)
    PROVE  /\ Latest(conversationOf[m]) \in Messages
           /\ conversationOf[Latest(conversationOf[m])] = conversationOf[m]
           /\ Snapshot(conversationOf[m]) \in Reads
<1> DEFINE c == conversationOf[m]
           mine == {e \in ThreadOf(c) : e.author = "customer"}
<1>1. c \in Conversations /\ clock[c] \in Nat
  BY DEF TypeOK
<1>2. PICK e \in thread : e.author = "customer" /\ e.to = m
  BY DEF Persisted, Replies
<1>3. e \in mine /\ mine \subseteq ThreadOf(c) /\ ThreadOf(c) \subseteq Entries
  BY <1>2 DEF ThreadOf, TypeOK
<1>4. \A f \in ThreadOf(c) : f.at <= clock[c] /\ conversationOf[f.to] = c
  BY DEF ThreadOf, Timely
<1>5. Last(mine) \in mine
  <2> HIDE DEF mine, c
  <2> QED
    BY <1>1, <1>3, <1>4, LastOf
<1>6. Last(ThreadOf(c)) \in ThreadOf(c)
  <2> HIDE DEF mine, c
  <2> QED
    BY <1>1, <1>3, <1>4, LastOf
<1>7. Latest(c) \in Messages /\ conversationOf[Latest(c)] = c
  BY <1>3, <1>4, <1>5 DEF Latest, Entries
<1>8. Last(ThreadOf(c)).author \in Authors
  BY <1>3, <1>6 DEF Entries
<1>9. revision[c] \in Nat /\ status[c] \in Statuses /\ counted[c] \in Nat
  BY <1>1 DEF TypeOK
<1>10. Snapshot(c) \in Reads
  <2> HIDE DEF c
  <2> QED
    BY <1>7, <1>8, <1>9 DEF Snapshot, Reads
<1> QED
  BY <1>7, <1>10

--------------------------------------------------------------------------------
(* Type correctness                                                        *)

\* Flows are built from parts of the right type.
LEMMA FlowType ==
    ASSUME NEW stage \in Stages, NEW of \in Messages \cup {Nobody}, NEW seen \in Reads,
           NEW reply \in Entries \cup {NoEntry}
    PROVE  /\ Flow(stage, of, seen, reply) \in Flows
           /\ Flow(stage, of, seen, reply).stage = stage
           /\ Flow(stage, of, seen, reply).of = of
           /\ Flow(stage, of, seen, reply).seen = seen
           /\ Flow(stage, of, seen, reply).reply = reply
BY DEF Flow, Flows

LEMMA NothingReadType == NothingRead \in Reads
BY DEF NothingRead, Reads, Statuses

LEMMA IdleType == Idle \in Flows /\ Idle.stage = "idle"
BY FlowType, NothingReadType DEF Idle, Stages

LEMMA EntryType ==
    ASSUME NEW author \in Authors, NEW to \in Messages, NEW at \in Nat
    PROVE  /\ Entry(author, to, at) \in Entries
           /\ Entry(author, to, at).author = author
           /\ Entry(author, to, at).to = to
           /\ Entry(author, to, at).at = at
BY DEF Entry, Entries

\* What an append leaves in the rows it writes.
LEMMA AppendType ==
    ASSUME TypeOK, NEW c \in Conversations, NEW e \in Entries, NEW count \in Nat,
           NEW bumps \in Nat, Append(c, e, count, bumps)
    PROVE  /\ thread' \in SUBSET Entries
           /\ counted' \in [Conversations -> Nat]
           /\ revision' \in [Conversations -> Nat]
           /\ revision'[c] = revision[c] + bumps
           /\ \A d \in Conversations \ {c} : revision'[d] = revision[d] /\ counted'[d] = counted[d]
           /\ counted'[c] = count + 1
<1>1. revision \in [Conversations -> Nat] /\ counted \in [Conversations -> Nat]
  BY DEF TypeOK
<1>2. revision[c] + bumps \in Nat /\ count + 1 \in Nat
  BY <1>1
<1>3. thread \in SUBSET Entries
  BY DEF TypeOK
<1> QED
  BY <1>1, <1>2, <1>3 DEF Append

\* A step keeps every variable in its type.
LEMMA TypeStep ==
    ASSUME TypeOK, Timely, Snapshots, [Next]_vars
    PROVE  TypeOK'
<1> USE TurnAssumption
<1>1. ASSUME NEW m \in Messages, Send(m) PROVE TypeOK'
  BY <1>1 DEF Send, TypeOK, given
<1>2. ASSUME NEW m \in Messages, Persist(m) PROVE TypeOK'
  <2> DEFINE c == conversationOf[m]
             e == Entry("customer", m, sentAt[m])
  <2>1. c \in Conversations /\ e \in Entries /\ counted[c] \in Nat
    BY EntryType DEF TypeOK, Authors
  <2>2. Append(c, e, counted[c], 1)
    BY <1>2 DEF Persist
  <2>3. /\ thread' \in SUBSET Entries
        /\ counted' \in [Conversations -> Nat]
        /\ revision' \in [Conversations -> Nat]
    <3> HIDE DEF c, e
    <3> QED
      BY <2>1, <2>2, AppendType
  <2> QED
    BY <1>2, <2>3 DEF Persist, TypeOK, given
<1>3. ASSUME NEW w \in Workers, NEW m \in Messages, Begin(w, m) PROVE TypeOK'
  <2>1. Persisted(m)
    BY <1>3 DEF Begin, SkipPaused, MatchRule, ReuseRuleReply, ReuseAnswer, ReadHistory, CanBegin
  <2>2. Snapshot(conversationOf[m]) \in Reads
    BY <2>1, SnapshotOf
  <2>3. NoEntry \in Entries \cup {NoEntry} /\ NothingRead \in Reads
    BY NothingReadType
  <2>4. CASE SkipPaused(w, m)
    BY <2>4 DEF SkipPaused, TypeOK, rows, given
  <2>5. CASE MatchRule(w, m)
    <3>1. Flow("automating", m, Snapshot(conversationOf[m]), NoEntry) \in Flows
      BY <2>2, <2>3, FlowType DEF Stages
    <3> QED
      BY <2>5, <3>1 DEF MatchRule, TypeOK, rows, given
  <2>6. CASE ReuseRuleReply(w, m)
    <3>1. PICK e \in Replies("automation", m) :
              flow' = [flow EXCEPT ![w] = Flow("delivering", m, NothingRead, e)]
      BY <2>6 DEF ReuseRuleReply
    <3>2. e \in Entries
      BY DEF Replies, TypeOK
    <3>3. Flow("delivering", m, NothingRead, e) \in Flows
      BY <2>3, <3>2, FlowType DEF Stages
    <3> QED
      BY <2>6, <3>1, <3>3 DEF ReuseRuleReply, TypeOK, rows, given
  <2>7. CASE ReuseAnswer(w, m)
    <3>1. PICK e \in AnswersTo(Latest(conversationOf[m])) :
              flow' = [flow EXCEPT ![w] = Flow("delivering", m, NothingRead, e)]
      BY <2>7 DEF ReuseAnswer
    <3>2. e \in Entries
      BY DEF AnswersTo, Replies, TypeOK
    <3>3. Flow("delivering", m, NothingRead, e) \in Flows
      BY <2>3, <3>2, FlowType DEF Stages
    <3> QED
      BY <2>7, <3>1, <3>3 DEF ReuseAnswer, TypeOK, rows, given
  <2>8. CASE ReadHistory(w, m)
    <3>1. Flow("asking", m, Snapshot(conversationOf[m]), NoEntry) \in Flows
      BY <2>2, <2>3, FlowType DEF Stages
    <3> QED
      BY <2>8, <3>1 DEF ReadHistory, TypeOK, rows, given
  <2> QED
    BY <1>3, <2>4, <2>5, <2>6, <2>7, <2>8 DEF Begin
<1>4. ASSUME NEW w \in Workers, Conclude(w), excused' \subseteq Messages,
             UNCHANGED <<rows, sentAt, given, interventions>>, faults' \in 0 .. MaxFaults
      PROVE  TypeOK'
  <2>1. flow[w].of \in Messages \cup {Nobody}
    BY DEF TypeOK, Flows
  <2>2. ended' \subseteq Messages
    BY <1>4, <2>1 DEF Conclude, TypeOK
  <2>3. flow' \in [Workers -> Flows]
    BY <1>4, IdleType DEF Conclude, TypeOK
  <2> QED
    BY <1>4, <2>2, <2>3 DEF TypeOK, rows, given
<1>5. faults \in 0 .. MaxFaults /\ (Fault => faults' \in 0 .. MaxFaults)
  BY DEF Fault, TypeOK
<1>6. ASSUME NEW w \in Workers, flow[w].stage \in Reading
      PROVE  /\ flow[w].of \in Messages
             /\ At(w) \in Conversations
             /\ clock[At(w)] + 1 \in Nat
             /\ flow[w].seen.counted \in Nat
  <2>1. flow[w].of \in Messages
    BY <1>6 DEF Snapshots, ReadOK
  <2>2. flow[w] \in Flows /\ conversationOf \in [Messages -> Conversations]
        /\ clock \in [Conversations -> Nat]
    BY DEF TypeOK
  <2> QED
    BY <2>1, <2>2 DEF At, Flows, Reads
<1>7. ASSUME NEW w \in Workers, Proceed(w) PROVE TypeOK'
  <2>1. CASE AutomationReplies(w)
    <3> DEFINE c == At(w)
               e == Entry("automation", flow[w].of, clock[c] + 1)
    <3>1. flow[w].stage \in Reading
      BY <2>1 DEF AutomationReplies, Reading
    <3>2. c \in Conversations /\ e \in Entries /\ flow[w].seen.counted \in Nat /\ flow[w].of \in Messages
      BY <1>6, <3>1, EntryType DEF Authors
    <3>3. /\ Append(c, e, flow[w].seen.counted, 1)
          /\ clock' = [clock EXCEPT ![c] = clock[c] + 1]
          /\ flow' = [flow EXCEPT ![w] = Flow("delivering", flow[w].of, NothingRead, e)]
          /\ UNCHANGED <<status, sentAt, ended, excused, given, interventions, faults>>
      BY <2>1 DEF AutomationReplies
    <3>4. clock[c] + 1 \in Nat
      BY <1>6, <3>1
    <3> HIDE DEF c, e
    <3>5. /\ thread' \in SUBSET Entries
          /\ counted' \in [Conversations -> Nat]
          /\ revision' \in [Conversations -> Nat]
      BY <3>2, <3>3, AppendType
    <3>6. Flow("delivering", flow[w].of, NothingRead, e) \in Flows
      BY <3>2, FlowType, NothingReadType DEF Stages
    <3> QED
      BY <3>3, <3>4, <3>5, <3>6 DEF TypeOK, given
  <2>2. CASE AutomationConflict(w)
    BY <2>2, IdleType DEF AutomationConflict, TypeOK, rows, given
  <2>3. CASE QuotaExhausted(w)
    <3>1. flow[w].of \in Messages
      BY <2>3, <1>6 DEF QuotaExhausted, Reading
    <3>2. excused' \subseteq Messages
      BY <2>3, <3>1 DEF QuotaExhausted, TypeOK
    <3> QED
      BY <2>3, <3>2, <1>4, <1>5 DEF QuotaExhausted
  <2>4. CASE NothingToAnswer(w)
    <3>1. excused' \subseteq Messages
      BY <2>4 DEF NothingToAnswer, TypeOK
    <3> QED
      BY <2>4, <3>1, <1>4, <1>5 DEF NothingToAnswer
  <2>5. CASE CallModel(w)
    <3>1. [flow[w] EXCEPT !.stage = "thinking"] \in Flows
      BY DEF TypeOK, Flows, Stages
    <3> QED
      BY <2>5, <3>1 DEF CallModel, TypeOK, rows, given
  <2>6. CASE ModelReplies(w)
    <3> DEFINE c == At(w)
               e == Entry("assistant", flow[w].seen.latest, clock[c] + 1)
               bumps == IF flow[w].seen.status = "open" THEN 2 ELSE 1
    <3>1. flow[w].stage \in Reading /\ flow[w].stage # "automating"
      BY <2>6 DEF ModelReplies, Reading
    <3>2. flow[w].seen.latest \in Messages
      BY <3>1 DEF Snapshots, ReadOK
    <3>3. c \in Conversations /\ e \in Entries /\ flow[w].seen.counted \in Nat
          /\ flow[w].of \in Messages /\ bumps \in Nat
      BY <1>6, <3>1, <3>2, EntryType DEF Authors
    <3>4. /\ Append(c, e, flow[w].seen.counted, bumps)
          /\ clock' = [clock EXCEPT ![c] = clock[c] + 1]
          /\ flow' = [flow EXCEPT ![w] = Flow("delivering", flow[w].of, NothingRead, e)]
          /\ UNCHANGED <<sentAt, ended, excused, given, interventions, faults>>
      BY <2>6 DEF ModelReplies
    <3>5. clock[c] + 1 \in Nat
      BY <1>6, <3>1
    <3>6. status' \in [Conversations -> Statuses]
      BY <2>6 DEF ModelReplies, AfterReply, TypeOK, Statuses
    <3> HIDE DEF c, e, bumps
    <3>7. /\ thread' \in SUBSET Entries
          /\ counted' \in [Conversations -> Nat]
          /\ revision' \in [Conversations -> Nat]
      BY <3>3, <3>4, AppendType
    <3>8. Flow("delivering", flow[w].of, NothingRead, e) \in Flows
      BY <3>3, FlowType, NothingReadType DEF Stages
    <3> QED
      BY <3>4, <3>5, <3>6, <3>7, <3>8 DEF TypeOK, given
  <2>7. CASE ModelConflict(w)
    <3>1. excused' \subseteq Messages
      BY <2>7 DEF ModelConflict, TypeOK
    <3> QED
      BY <2>7, <3>1, <1>4, <1>5 DEF ModelConflict
  <2>8. CASE Deliver(w)
    <3>1. excused' \subseteq Messages
      BY <2>8 DEF Deliver, TypeOK
    <3> QED
      BY <2>8, <3>1, <1>4, <1>5 DEF Deliver
  <2> QED
    BY <1>7, <2>1, <2>2, <2>3, <2>4, <2>5, <2>6, <2>7, <2>8 DEF Proceed
<1>8. ASSUME NEW w \in Workers, Fail(w) PROVE TypeOK'
  <2>1. CASE ModelFails(w)
    <3>1. flow[w].of \in Messages
      BY <2>1, <1>6 DEF ModelFails, Reading
    <3>2. excused' \subseteq Messages
      BY <2>1, <3>1 DEF ModelFails, TypeOK
    <3> QED
      BY <2>1, <3>2, <1>4, <1>5 DEF ModelFails
  <2>2. CASE Crash(w)
    <3>1. flow' \in [Workers -> Flows] /\ faults' \in 0 .. MaxFaults
      BY <2>2, <1>5, IdleType DEF Crash, TypeOK
    <3> QED
      BY <2>2, <3>1 DEF Crash, TypeOK, rows, given
  <2> QED
    BY <1>8, <2>1, <2>2 DEF Fail
<1>9. ASSUME NEW c \in Conversations, Operate(c) PROVE TypeOK'
  <2>1. CASE TakeOver(c)
    BY <2>1 DEF TakeOver, Intervene, TypeOK, Statuses, given
  <2>2. CASE ResumeAI(c)
    BY <2>2 DEF ResumeAI, TypeOK, Statuses, given
  <2>3. ASSUME NEW w \in Workers, SendManualReply(w, c) PROVE TypeOK'
    <3> DEFINE e == Entry("human", Latest(c), clock[c] + 1)
    <3>1. Latest(c) \in Messages
      BY <2>3, SnapshotOf DEF SendManualReply
    <3>2. e \in Entries /\ counted[c] \in Nat /\ clock[c] + 1 \in Nat
      BY <3>1, EntryType DEF TypeOK, Authors
    <3>3. /\ Append(c, e, counted[c], 1)
          /\ clock' = [clock EXCEPT ![c] = clock[c] + 1]
          /\ flow' = [flow EXCEPT ![w] = Flow("delivering", Nobody, NothingRead, e)]
          /\ UNCHANGED <<status, sentAt, ended, excused, given, interventions, faults>>
      BY <2>3 DEF SendManualReply
    <3> HIDE DEF e
    <3>4. /\ thread' \in SUBSET Entries
          /\ counted' \in [Conversations -> Nat]
          /\ revision' \in [Conversations -> Nat]
      BY <3>2, <3>3, AppendType
    <3>5. Flow("delivering", Nobody, NothingRead, e) \in Flows
      BY <3>2, FlowType, NothingReadType DEF Stages
    <3> QED
      BY <3>2, <3>3, <3>4, <3>5 DEF TypeOK, given
  <2> QED
    BY <1>9, <2>1, <2>2, <2>3 DEF Operate
<1>10. CASE UNCHANGED vars
  BY <1>10 DEF TypeOK, vars, rows, given
<1> QED
  BY <1>1, <1>2, <1>3, <1>7, <1>8, <1>9, <1>10 DEF Next

--------------------------------------------------------------------------------
(* What a step writes                                                      *)

\* A step that adds nothing to a thread; whoever changes a status says so in the revision.
Still ==
    /\ thread' = thread
    /\ counted' = counted
    /\ \A c \in Conversations :
          /\ revision'[c] >= revision[c]
          /\ revision'[c] = revision[c] => status'[c] = status[c]
          /\ clock'[c] >= clock[c]
    /\ \A m \in Messages : sentAt'[m] <= clock'[conversationOf[m]]

\* A step that adds e to the thread of c.
Grows(c, e) ==
    /\ e \in Entries /\ e \notin thread
    /\ conversationOf[e.to] = c
    /\ thread' = thread \cup {e}
    /\ counted' = [counted EXCEPT ![c] = counted[c] + 1]
    /\ revision'[c] > revision[c]
    /\ \A d \in Conversations \ {c} : revision'[d] = revision[d] /\ status'[d] = status[d]
    /\ \A d \in Conversations : clock'[d] >= clock[d]
    /\ sentAt' = sentAt
    /\ e.at <= clock'[c]
    /\ e.author \in Machines =>
          /\ status[c] # "human_active"
          /\ Replies(e.author, e.to) = {}
    /\ status[c] = "human_active" => status'[c] = "human_active"
    /\ e.author = "assistant" =>
          /\ QuotaLeft
          /\ \A v \in Workers : flow'[v].stage # "thinking"

LEMMA PersistGrows ==
    ASSUME TypeOK, Timely, NEW m \in Messages, Persist(m)
    PROVE  Grows(conversationOf[m], Entry("customer", m, sentAt[m]))
<1> DEFINE c == conversationOf[m]
           e == Entry("customer", m, sentAt[m])
<1>1. c \in Conversations /\ sentAt[m] \in Nat /\ counted[c] \in Nat /\ sentAt[m] <= clock[c]
      /\ revision[c] \in Nat
  BY DEF TypeOK, Timely
<1>2. e \in Entries /\ e.author = "customer" /\ e.to = m /\ e.at = sentAt[m]
  BY <1>1, EntryType DEF Authors
<1>3. e \notin thread
  BY <1>2 DEF Persist, Persisted, Replies
<1>4. /\ Append(c, e, counted[c], 1)
      /\ UNCHANGED <<status, sentAt, clock>>
  BY DEF Persist
<1>5. clock \in [Conversations -> Nat]
  BY DEF TypeOK
<1> HIDE DEF e
<1>6. /\ revision'[c] = revision[c] + 1
      /\ \A d \in Conversations \ {c} : revision'[d] = revision[d]
  BY <1>1, <1>2, <1>4, AppendType
<1>7. thread' = thread \cup {e} /\ counted' = [counted EXCEPT ![c] = counted[c] + 1]
  BY <1>4 DEF Append
<1> QED
  BY <1>1, <1>2, <1>3, <1>4, <1>5, <1>6, <1>7 DEF Grows, Machines, e

\* A new entry, later than the clock, is not in the thread.
LEMMA LaterIsNew ==
    ASSUME TypeOK, Timely, NEW c \in Conversations, NEW e \in Entries, conversationOf[e.to] = c,
           e.at = clock[c] + 1
    PROVE  e \notin thread
<1>1. clock[c] \in Nat
  BY DEF TypeOK
<1> QED
  BY <1>1 DEF Timely

LEMMA AutomationGrows ==
    ASSUME TypeOK, Timely, Snapshots, NEW w \in Workers, AutomationReplies(w)
    PROVE  Grows(At(w), Entry("automation", flow[w].of, clock[At(w)] + 1))
<1> DEFINE c == At(w)
           e == Entry("automation", flow[w].of, clock[c] + 1)
           f == flow[w]
<1>1. f.stage = "automating" /\ f.stage \in Reading /\ f.seen.revision = revision[c]
  BY DEF AutomationReplies, Reading, Current
<1>2. ReadOK(f)
  BY <1>1 DEF Snapshots
<1>3. f.of \in Messages /\ conversationOf[f.of] = c
  BY <1>2 DEF ReadOK, At
<1>4. UpToDate(f, c) /\ f.seen.status # "human_active"
  BY <1>1, <1>2, <1>3 DEF ReadOK
<1>5. c \in Conversations /\ clock[c] \in Nat /\ counted[c] \in Nat /\ revision[c] \in Nat
  BY <1>3 DEF TypeOK
<1>6. e \in Entries /\ e.author = "automation" /\ e.to = f.of /\ e.at = clock[c] + 1
  BY <1>3, <1>5, EntryType DEF Authors
<1>7. /\ Append(c, e, f.seen.counted, 1)
      /\ clock' = [clock EXCEPT ![c] = clock[c] + 1]
      /\ UNCHANGED <<status, sentAt>>
  BY DEF AutomationReplies
<1>8. f.seen.counted = counted[c] /\ status[c] # "human_active" /\ Replies("automation", f.of) = {}
  BY <1>1, <1>4 DEF UpToDate
<1>9. clock \in [Conversations -> Nat]
  BY DEF TypeOK
<1> HIDE DEF c, e, f
<1>10. /\ revision'[c] = revision[c] + 1
       /\ \A d \in Conversations \ {c} : revision'[d] = revision[d]
  BY <1>5, <1>6, <1>7, <1>8, AppendType
<1>11. thread' = thread \cup {e} /\ counted' = [counted EXCEPT ![c] = counted[c] + 1]
  BY <1>7, <1>8 DEF Append
<1>12. e \notin thread
  BY <1>3, <1>5, <1>6, LaterIsNew
<1>13. clock'[c] = clock[c] + 1 /\ \A d \in Conversations : clock'[d] >= clock[d]
  BY <1>5, <1>7, <1>9
<1>14. Grows(c, e)
  BY <1>3, <1>5, <1>6, <1>7, <1>8, <1>10, <1>11, <1>12, <1>13 DEF Grows
<1> QED
  BY <1>14 DEF c, e, f

LEMMA ModelGrows ==
    ASSUME TypeOK, Timely, Snapshots, OneAtTheModel, NEW w \in Workers, ModelReplies(w)
    PROVE  Grows(At(w), Entry("assistant", flow[w].seen.latest, clock[At(w)] + 1))
<1> DEFINE c == At(w)
           f == flow[w]
           e == Entry("assistant", f.seen.latest, clock[c] + 1)
           bumps == IF f.seen.status = "open" THEN 2 ELSE 1
<1>1. f.stage = "thinking" /\ f.stage \in Reading /\ f.stage # "automating"
      /\ f.seen.revision = revision[c]
  BY DEF ModelReplies, Reading, Current
<1>2. ReadOK(f)
  BY <1>1 DEF Snapshots
<1>3. f.of \in Messages /\ conversationOf[f.of] = c
      /\ f.seen.latest \in Messages /\ conversationOf[f.seen.latest] = c
  BY <1>1, <1>2 DEF ReadOK, At
<1>4. UpToDate(f, c) /\ f.seen.status # "human_active"
  BY <1>1, <1>2, <1>3 DEF ReadOK
<1>5. c \in Conversations /\ clock[c] \in Nat /\ counted[c] \in Nat /\ revision[c] \in Nat
      /\ bumps \in Nat /\ bumps > 0
  BY <1>3 DEF TypeOK
<1>6. e \in Entries /\ e.author = "assistant" /\ e.to = f.seen.latest /\ e.at = clock[c] + 1
  BY <1>3, <1>5, EntryType DEF Authors
<1>7. /\ Append(c, e, f.seen.counted, bumps)
      /\ clock' = [clock EXCEPT ![c] = clock[c] + 1]
      /\ flow' = [flow EXCEPT ![w] = Flow("delivering", f.of, NothingRead, e)]
      /\ sentAt' = sentAt
      /\ \A d \in Conversations \ {c} : status'[d] = status[d]
  BY DEF ModelReplies, TypeOK
<1>8. f.seen.counted = counted[c] /\ status[c] # "human_active"
      /\ Replies("assistant", f.seen.latest) = {}
  BY <1>1, <1>4 DEF UpToDate
<1>9. clock \in [Conversations -> Nat] /\ flow \in [Workers -> Flows]
  BY DEF TypeOK
<1>10. QuotaLeft /\ \A v \in Workers \ {w} : flow[v].stage # "thinking"
  BY <1>1 DEF OneAtTheModel
<1>11. Flow("delivering", f.of, NothingRead, e).stage = "delivering"
  BY DEF Flow
<1> HIDE DEF c, e, f, bumps
<1>12. \A v \in Workers : flow'[v].stage # "thinking"
  BY <1>7, <1>9, <1>10, <1>11
<1>13. /\ revision'[c] = revision[c] + bumps
       /\ \A d \in Conversations \ {c} : revision'[d] = revision[d]
  BY <1>5, <1>6, <1>7, <1>8, AppendType
<1>14. thread' = thread \cup {e} /\ counted' = [counted EXCEPT ![c] = counted[c] + 1]
  BY <1>7, <1>8 DEF Append
<1>15. e \notin thread
  BY <1>3, <1>5, <1>6, LaterIsNew
<1>16. clock'[c] = clock[c] + 1 /\ \A d \in Conversations : clock'[d] >= clock[d]
  BY <1>5, <1>7, <1>9
<1>17. Grows(c, e)
  BY <1>3, <1>5, <1>6, <1>7, <1>8, <1>10, <1>12, <1>13, <1>14, <1>15, <1>16 DEF Grows
<1> QED
  BY <1>17 DEF c, e, f

LEMMA ManualGrows ==
    ASSUME TypeOK, Timely, NEW w \in Workers, NEW c \in Conversations, SendManualReply(w, c)
    PROVE  Grows(c, Entry("human", Latest(c), clock[c] + 1))
<1> DEFINE e == Entry("human", Latest(c), clock[c] + 1)
<1>1. Latest(c) \in Messages /\ conversationOf[Latest(c)] = c
  BY SnapshotOf DEF SendManualReply
<1>2. clock[c] \in Nat /\ counted[c] \in Nat /\ revision[c] \in Nat /\ clock \in [Conversations -> Nat]
  BY DEF TypeOK
<1>3. e \in Entries /\ e.author = "human" /\ e.to = Latest(c) /\ e.at = clock[c] + 1
  BY <1>1, <1>2, EntryType DEF Authors
<1>4. /\ Append(c, e, counted[c], 1)
      /\ clock' = [clock EXCEPT ![c] = clock[c] + 1]
      /\ UNCHANGED <<status, sentAt>>
  BY DEF SendManualReply
<1> HIDE DEF e
<1>5. /\ revision'[c] = revision[c] + 1
      /\ \A d \in Conversations \ {c} : revision'[d] = revision[d]
  BY <1>2, <1>3, <1>4, AppendType
<1>6. thread' = thread \cup {e} /\ counted' = [counted EXCEPT ![c] = counted[c] + 1]
  BY <1>4 DEF Append
<1>7. e \notin thread
  BY <1>1, <1>2, <1>3, LaterIsNew
<1>8. clock'[c] = clock[c] + 1 /\ \A d \in Conversations : clock'[d] >= clock[d]
  BY <1>2, <1>4
<1>9. Grows(c, e)
  BY <1>1, <1>2, <1>3, <1>4, <1>5, <1>6, <1>7, <1>8 DEF Grows, Machines
<1> QED
  BY <1>9 DEF e

\* A step either adds nothing to a thread or adds one entry to one of them.
LEMMA StillOrGrows ==
    ASSUME TypeOK, Timely, Snapshots, OneAtTheModel, [Next]_vars
    PROVE  Still \/ \E c \in Conversations, e \in Entries : Grows(c, e)
<1>1. ASSUME UNCHANGED rows, sentAt' = sentAt PROVE Still
  BY <1>1 DEF Still, rows, TypeOK, Timely
<1>2. ASSUME NEW m \in Messages, Send(m) PROVE Still
  <2>1. clock' = [clock EXCEPT ![conversationOf[m]] = clock[conversationOf[m]] + 1]
        /\ sentAt' = [sentAt EXCEPT ![m] = clock[conversationOf[m]] + 1]
        /\ UNCHANGED <<status, revision, counted, thread>>
    BY <1>2 DEF Send
  <2>2. clock \in [Conversations -> Nat] /\ sentAt \in [Messages -> Nat]
        /\ conversationOf \in [Messages -> Conversations] /\ revision \in [Conversations -> Nat]
    BY DEF TypeOK
  <2>3. \A n \in Messages : sentAt[n] <= clock[conversationOf[n]]
    BY DEF Timely
  <2> QED
    BY <2>1, <2>2, <2>3 DEF Still
<1>3. ASSUME NEW m \in Messages, Persist(m)
      PROVE  \E c \in Conversations, e \in Entries : Grows(c, e)
  <2>1. conversationOf[m] \in Conversations
    BY DEF TypeOK
  <2> QED
    BY <1>3, <2>1, PersistGrows DEF Grows
<1>4. ASSUME NEW w \in Workers, NEW m \in Messages, Begin(w, m) PROVE Still
  BY <1>4, <1>1 DEF Begin, SkipPaused, MatchRule, ReuseRuleReply, ReuseAnswer, ReadHistory
<1>5. ASSUME NEW w \in Workers, flow[w].stage \in Reading PROVE At(w) \in Conversations
  BY <1>5 DEF Snapshots, ReadOK, At, TypeOK
<1>6. ASSUME NEW w \in Workers, AutomationReplies(w)
      PROVE  \E c \in Conversations, e \in Entries : Grows(c, e)
  <2>1. At(w) \in Conversations
    BY <1>5, <1>6 DEF AutomationReplies, Reading
  <2> QED
    BY <1>6, <2>1, AutomationGrows DEF Grows
<1>7. ASSUME NEW w \in Workers, ModelReplies(w)
      PROVE  \E c \in Conversations, e \in Entries : Grows(c, e)
  <2>1. At(w) \in Conversations
    BY <1>5, <1>7 DEF ModelReplies, Reading
  <2> QED
    BY <1>7, <2>1, ModelGrows DEF Grows
<1>8. ASSUME NEW w \in Workers, Proceed(w), ~AutomationReplies(w), ~ModelReplies(w) PROVE Still
  BY <1>8, <1>1 DEF Proceed, AutomationConflict, QuotaExhausted, NothingToAnswer, CallModel,
                    ModelConflict, Deliver
<1>9. ASSUME NEW w \in Workers, Fail(w) PROVE Still
  BY <1>9, <1>1 DEF Fail, ModelFails, Crash
<1>10. ASSUME NEW c \in Conversations, TakeOver(c) \/ ResumeAI(c) PROVE Still
  BY <1>10 DEF TakeOver, ResumeAI, Still, TypeOK, Timely
<1>11. ASSUME NEW c \in Conversations, NEW w \in Workers, SendManualReply(w, c)
       PROVE  \E d \in Conversations, e \in Entries : Grows(d, e)
  BY <1>11, ManualGrows DEF Grows
<1>12. CASE UNCHANGED vars
  BY <1>12, <1>1 DEF vars
<1> QED
  BY <1>2, <1>3, <1>4, <1>6, <1>7, <1>8, <1>9, <1>10, <1>11, <1>12 DEF Next, Proceed, Operate

\* Nobody changes whose conversation a message belongs to, nor the limit.
LEMMA Given == ASSUME [Next]_vars PROVE UNCHANGED given
BY DEF Next, vars, given, Send, Persist, Begin, SkipPaused, MatchRule, ReuseRuleReply, ReuseAnswer,
       ReadHistory, Proceed, AutomationReplies, AutomationConflict, QuotaExhausted, NothingToAnswer,
       CallModel, ModelReplies, ModelConflict, Deliver, Fail, ModelFails, Crash, Operate, TakeOver,
       ResumeAI, SendManualReply

--------------------------------------------------------------------------------
(* What flows have read                                                    *)

\* A flow that goes on reading what it has read is right about it after any step:
\* either the revision is the same, and so is all the rest, or it is not.
LEMMA ReadKept ==
    ASSUME TypeOK, TypeOK', Still \/ \E c \in Conversations, e \in Entries : Grows(c, e),
           NEW f \in Flows, f.stage \in Reading, ReadOK(f)
    PROVE  /\ f.seen.revision <= revision'[conversationOf[f.of]]
           /\ f.seen.revision = revision'[conversationOf[f.of]] =>
                 /\ f.seen.revision = revision[conversationOf[f.of]]
                 /\ f.seen.status = status'[conversationOf[f.of]]
                 /\ f.seen.counted = counted'[conversationOf[f.of]]
                 /\ f.stage = "automating" => {e \in thread' : e.author = "automation" /\ e.to = f.of} = {}
                 /\ f.stage # "automating" =>
                        {e \in thread' : e.author = "assistant" /\ e.to = f.seen.latest} = {}
<1> DEFINE c == conversationOf[f.of]
<1>1. f.of \in Messages /\ c \in Conversations /\ f.seen.revision <= revision[c]
  BY DEF ReadOK, TypeOK
<1>2. f.seen.revision = revision[c] => UpToDate(f, c)
  BY DEF ReadOK
<1>3. f.seen.revision \in Nat /\ revision \in [Conversations -> Nat] /\ counted \in [Conversations -> Nat]
  BY DEF Flows, Reads, TypeOK
<1>4. f.stage # "automating" => conversationOf[f.seen.latest] = c
  BY DEF ReadOK
<1>5. revision'[c] \in Nat
  BY <1>1 DEF TypeOK
<1>6. CASE Still
  <2>1. revision'[c] >= revision[c] /\ (revision'[c] = revision[c] => status'[c] = status[c])
        /\ thread' = thread /\ counted' = counted
    BY <1>1, <1>6 DEF Still
  <2> QED
    BY <1>1, <1>2, <1>3, <1>5, <2>1 DEF UpToDate, Replies
<1>7. ASSUME NEW d \in Conversations, NEW e \in Entries, Grows(d, e)
      PROVE  /\ f.seen.revision <= revision'[c]
             /\ f.seen.revision = revision'[c] =>
                   /\ f.seen.revision = revision[c] /\ c # d
  <2>1. revision'[c] = revision[c] \/ (c = d /\ revision'[c] > revision[c])
    BY <1>1, <1>7 DEF Grows
  <2>2. f.seen.revision \in Nat /\ revision[c] \in Nat /\ f.seen.revision <= revision[c]
    BY <1>1, <1>3
  <2>3. c = d => revision'[c] > revision[c]
    BY <1>7 DEF Grows
  <2> HIDE DEF c
  <2> QED
    BY <1>5, <2>1, <2>2, <2>3
<1>8. ASSUME NEW d \in Conversations, NEW e \in Entries, Grows(d, e), c # d
      PROVE  status'[c] = status[c] /\ counted'[c] = counted[c]
             /\ thread' = thread \cup {e} /\ conversationOf[e.to] # c
  BY <1>1, <1>3, <1>8 DEF Grows
<1>9. CASE \E d \in Conversations, e \in Entries : Grows(d, e)
  <2>1. PICK d \in Conversations, e \in Entries : Grows(d, e)
    BY <1>9
  <2> QED
    BY <1>1, <1>2, <1>4, <1>7, <1>8, <2>1 DEF UpToDate, Replies
<1> QED
  BY <1>6, <1>9

\* The history's facts for a flow that begins to read.
LEMMA FreshRead ==
    ASSUME TypeOK, Timely, NEW m \in Messages, NEW stage \in {"automating", "asking"}, Persisted(m),
           status[conversationOf[m]] # "human_active",
           stage = "automating" => Replies("automation", m) = {},
           stage = "asking" => Replies("assistant", Latest(conversationOf[m])) = {}
    PROVE  ReadOK(Flow(stage, m, Snapshot(conversationOf[m]), NoEntry))
<1> DEFINE c == conversationOf[m]
           f == Flow(stage, m, Snapshot(c), NoEntry)
<1>1. f.stage = stage /\ f.of = m /\ f.seen = Snapshot(c)
  BY DEF Flow
<1>2. Latest(c) \in Messages /\ conversationOf[Latest(c)] = c
  BY SnapshotOf
<1>3. /\ f.seen.revision = revision[c] /\ f.seen.status = status[c]
      /\ f.seen.counted = counted[c] /\ f.seen.latest = Latest(c)
  BY <1>1 DEF Snapshot
<1>4. revision[c] \in Nat
  BY DEF TypeOK
<1>5. UpToDate(f, c)
  BY <1>1, <1>3 DEF UpToDate
<1> HIDE DEF f
<1>6. ReadOK(f)
  BY <1>1, <1>2, <1>3, <1>4, <1>5 DEF ReadOK
<1> QED
  BY <1>6 DEF f

\* Where the flows that read come from.
LEMMA Readers ==
    ASSUME TypeOK, TypeOK', Timely, Snapshots, [Next]_vars, NEW w \in Workers,
           flow'[w].stage \in Reading
    PROVE  \/ flow'[w] = flow[w]
           \/ ReadOK(flow'[w]) /\ UNCHANGED <<rows, given>>
<1> DEFINE Goal == flow'[w] = flow[w] \/ (ReadOK(flow'[w]) /\ UNCHANGED <<rows, given>>)
<1>1. flow \in [Workers -> Flows]
  BY DEF TypeOK
<1>2. Idle.stage \notin Reading
  BY IdleType DEF Reading
<1>3. \A of, seen, reply : Flow("delivering", of, seen, reply).stage \notin Reading
  BY DEF Flow, Reading
<1>4. ASSUME NEW v \in Workers, flow' = [flow EXCEPT ![v] = Idle] PROVE Goal
  BY <1>1, <1>2, <1>4
<1>5. ASSUME NEW v \in Workers, NEW of, NEW seen, NEW reply,
             flow' = [flow EXCEPT ![v] = Flow("delivering", of, seen, reply)]
      PROVE  Goal
  BY <1>1, <1>3, <1>5
<1>6. ASSUME NEW m \in Messages, Send(m) \/ Persist(m) PROVE Goal
  BY <1>6 DEF Send, Persist
<1>7. ASSUME NEW v \in Workers, NEW m \in Messages, Begin(v, m) PROVE Goal
  <2>1. CASE SkipPaused(v, m)
    BY <2>1 DEF SkipPaused
  <2>2. CASE MatchRule(v, m)
    <3>1. ReadOK(Flow("automating", m, Snapshot(conversationOf[m]), NoEntry))
      BY <2>2, FreshRead DEF MatchRule, CanBegin
    <3> QED
      BY <1>1, <2>2, <3>1 DEF MatchRule
  <2>3. CASE ReuseRuleReply(v, m)
    BY <1>5, <2>3 DEF ReuseRuleReply
  <2>4. CASE ReuseAnswer(v, m)
    BY <1>5, <2>4 DEF ReuseAnswer
  <2>5. CASE ReadHistory(v, m)
    <3>1. ReadOK(Flow("asking", m, Snapshot(conversationOf[m]), NoEntry))
      BY <2>5, FreshRead DEF ReadHistory, CanBegin, AnswersTo
    <3> QED
      BY <1>1, <2>5, <3>1 DEF ReadHistory
  <2> QED
    BY <1>7, <2>1, <2>2, <2>3, <2>4, <2>5 DEF Begin
<1>8. ASSUME NEW v \in Workers, Proceed(v) PROVE Goal
  <2>1. CASE AutomationReplies(v)
    BY <1>5, <2>1 DEF AutomationReplies
  <2>2. CASE ModelReplies(v)
    BY <1>5, <2>2 DEF ModelReplies
  <2>3. CASE CallModel(v)
    <3> DEFINE f == flow[v]
               g == [f EXCEPT !.stage = "thinking"]
    <3>1. f.stage = "asking" /\ f.stage \in Reading /\ f.stage # "automating"
      BY <2>3 DEF CallModel, Reading
    <3>2. f \in Flows /\ ReadOK(f)
      BY <1>1, <3>1 DEF Snapshots
    <3>3. g.stage = "thinking" /\ g.of = f.of /\ g.seen = f.seen
      BY <3>2 DEF Flows
    <3>4. flow' = [flow EXCEPT ![v] = g] /\ UNCHANGED <<rows, given>>
      BY <2>3 DEF CallModel
    <3> HIDE DEF f, g
    <3>5. ReadOK(g)
      BY <3>1, <3>2, <3>3 DEF ReadOK, UpToDate
    <3> QED
      BY <1>1, <3>4, <3>5
  <2>4. CASE AutomationConflict(v) \/ QuotaExhausted(v) \/ NothingToAnswer(v) \/ ModelConflict(v)
             \/ Deliver(v)
    BY <1>4, <2>4 DEF AutomationConflict, QuotaExhausted, NothingToAnswer, ModelConflict, Deliver,
                      Conclude
  <2> QED
    BY <1>8, <2>1, <2>2, <2>3, <2>4 DEF Proceed
<1>9. ASSUME NEW v \in Workers, Fail(v) PROVE Goal
  BY <1>4, <1>9 DEF Fail, ModelFails, Crash, Conclude
<1>10. ASSUME NEW c \in Conversations, Operate(c) PROVE Goal
  <2>1. CASE TakeOver(c) \/ ResumeAI(c)
    BY <2>1 DEF TakeOver, ResumeAI
  <2>2. ASSUME NEW v \in Workers, SendManualReply(v, c) PROVE Goal
    BY <1>5, <2>2 DEF SendManualReply
  <2> QED
    BY <1>10, <2>1, <2>2 DEF Operate
<1>11. CASE UNCHANGED vars
  BY <1>11 DEF vars
<1> QED
  BY <1>6, <1>7, <1>8, <1>9, <1>10, <1>11 DEF Next

\* Snapshots is preserved.
LEMMA SnapshotsStep ==
    ASSUME TypeOK, TypeOK', Timely, Snapshots, OneAtTheModel, [Next]_vars
    PROVE  Snapshots'
<1>1. conversationOf' = conversationOf
  BY Given DEF given
<1>2. Still \/ \E c \in Conversations, e \in Entries : Grows(c, e)
  BY StillOrGrows
<1> SUFFICES ASSUME NEW w \in Workers, flow'[w].stage \in Reading PROVE ReadOK(flow[w])'
  BY DEF Snapshots
<1>3. CASE flow'[w] = flow[w]
  <2>1. flow[w] \in Flows /\ ReadOK(flow[w])
    BY <1>3 DEF TypeOK, Snapshots
  <2>2. /\ flow[w].seen.revision <= revision'[conversationOf[flow[w].of]]
        /\ flow[w].seen.revision = revision'[conversationOf[flow[w].of]] =>
              /\ flow[w].seen.status = status'[conversationOf[flow[w].of]]
              /\ flow[w].seen.counted = counted'[conversationOf[flow[w].of]]
              /\ flow[w].stage = "automating" =>
                    {e \in thread' : e.author = "automation" /\ e.to = flow[w].of} = {}
              /\ flow[w].stage # "automating" =>
                    {e \in thread' : e.author = "assistant" /\ e.to = flow[w].seen.latest} = {}
    BY <1>2, <1>3, <2>1, ReadKept
  <2> QED
    BY <1>1, <1>3, <2>1, <2>2 DEF ReadOK, UpToDate, Replies
<1>4. CASE ReadOK(flow'[w]) /\ UNCHANGED <<rows, given>>
  BY <1>4 DEF ReadOK, UpToDate, Replies, rows, given
<1> QED
  BY <1>3, <1>4, Readers

--------------------------------------------------------------------------------
(* The thread, its counter and the quota                                   *)

LEMMA TimelyStep ==
    ASSUME TypeOK, TypeOK', Timely, Still \/ \E c \in Conversations, e \in Entries : Grows(c, e),
           UNCHANGED given
    PROVE  Timely'
<1>1. conversationOf' = conversationOf /\ conversationOf \in [Messages -> Conversations]
  BY DEF given, TypeOK
<1>2. \A c \in Conversations : clock[c] \in Nat /\ clock'[c] \in Nat
  BY DEF TypeOK
<1>3. \A e \in thread : e.to \in Messages /\ e.at \in Nat
  BY DEF TypeOK, Entries
<1>4. \A m \in Messages : sentAt[m] \in Nat
  BY DEF TypeOK
<1>5. CASE Still
  BY <1>1, <1>2, <1>3, <1>5 DEF Still, Timely
<1>6. ASSUME NEW c \in Conversations, NEW e \in Entries, Grows(c, e) PROVE Timely'
  <2>1. \A d \in Conversations : clock[d] <= clock'[d]
    BY <1>2, <1>6 DEF Grows
  <2>2. \A x \in thread : x.at <= clock'[conversationOf[x.to]]
    BY <1>1, <1>2, <1>3, <2>1 DEF Timely
  <2>3. \A m \in Messages : sentAt[m] <= clock'[conversationOf[m]]
    BY <1>1, <1>2, <1>4, <2>1 DEF Timely
  <2> QED
    BY <1>1, <1>6, <2>2, <2>3 DEF Grows, Timely
<1> QED
  BY <1>5, <1>6

\* The counter of a row counts the entries of its thread.
LEMMA CountStep ==
    ASSUME TypeOK, IsFiniteSet(thread), CountMatchesThread, UNCHANGED given,
           Still \/ \E c \in Conversations, e \in Entries : Grows(c, e)
    PROVE  IsFiniteSet(thread)' /\ CountMatchesThread'
<1>1. conversationOf' = conversationOf
  BY DEF given
<1>2. CASE Still
  BY <1>1, <1>2 DEF Still, CountMatchesThread, ThreadOf
<1>3. ASSUME NEW c \in Conversations, NEW e \in Entries, Grows(c, e)
      PROVE  IsFiniteSet(thread)' /\ CountMatchesThread'
  <2>1. e \notin thread /\ thread' = thread \cup {e} /\ conversationOf[e.to] = c
        /\ counted' = [counted EXCEPT ![c] = counted[c] + 1]
    BY <1>3 DEF Grows
  <2>2. IsFiniteSet(thread)'
    BY <2>1, FS_AddElement
  <2>3. counted \in [Conversations -> Nat]
    BY DEF TypeOK
  <2>4. ASSUME NEW d \in Conversations PROVE counted'[d] = Cardinality(ThreadOf(d)')
    <3>1. IsFiniteSet(ThreadOf(d)) /\ counted[d] = Cardinality(ThreadOf(d))
      BY FS_Subset DEF ThreadOf, CountMatchesThread
    <3>2. CASE d = c
      <4>1. ThreadOf(d)' = ThreadOf(d) \cup {e} /\ e \notin ThreadOf(d)
        BY <1>1, <2>1, <3>2 DEF ThreadOf
      <4>2. Cardinality(ThreadOf(d) \cup {e}) = Cardinality(ThreadOf(d)) + 1
        BY <3>1, <4>1, FS_AddElement
      <4>3. counted'[d] = counted[d] + 1
        BY <2>1, <2>3, <3>2
      <4> QED
        BY <3>1, <4>1, <4>2, <4>3
    <3>3. CASE d # c
      <4>1. ThreadOf(d)' = ThreadOf(d)
        BY <1>1, <2>1, <3>3 DEF ThreadOf
      <4>2. counted'[d] = counted[d]
        BY <2>1, <2>3, <3>3
      <4> QED
        BY <3>1, <4>1, <4>2
    <3> QED
      BY <3>2, <3>3
  <2> QED
    BY <2>2, <2>4 DEF CountMatchesThread
<1> QED
  BY <1>2, <1>3

\* A flow comes to the model only through the quota.
LEMMA Thinkers ==
    ASSUME TypeOK, [Next]_vars, NEW w \in Workers, flow'[w].stage = "thinking"
    PROVE  \/ flow[w].stage = "thinking"
           \/ /\ QuotaUnlocked /\ QuotaLeft
              /\ UNCHANGED <<thread, limit>>
              /\ \A v \in Workers \ {w} : flow'[v] = flow[v]
<1> DEFINE Goal == \/ flow[w].stage = "thinking"
                   \/ /\ QuotaUnlocked /\ QuotaLeft
                      /\ UNCHANGED <<thread, limit>>
                      /\ \A v \in Workers \ {w} : flow'[v] = flow[v]
<1>1. flow \in [Workers -> Flows]
  BY DEF TypeOK
<1>2. ASSUME NEW v \in Workers, NEW g, flow' = [flow EXCEPT ![v] = g], g.stage # "thinking" PROVE Goal
  BY <1>1, <1>2
<1>3. Idle.stage # "thinking"
  BY IdleType
<1>4. \A stage, of, seen, reply : Flow(stage, of, seen, reply).stage = stage
  BY DEF Flow
<1>5. ASSUME NEW v \in Workers, CallModel(v) PROVE Goal
  BY <1>1, <1>5 DEF CallModel, rows, given
<1>6. ASSUME NEW v \in Workers, NEW m \in Messages, Begin(v, m) PROVE Goal
  BY <1>2, <1>4, <1>6 DEF Begin, SkipPaused, MatchRule, ReuseRuleReply, ReuseAnswer, ReadHistory
<1>7. ASSUME NEW v \in Workers, Proceed(v) PROVE Goal
  <2>1. CASE AutomationReplies(v) \/ ModelReplies(v)
    BY <1>2, <1>4, <2>1 DEF AutomationReplies, ModelReplies
  <2>2. CASE AutomationConflict(v) \/ QuotaExhausted(v) \/ NothingToAnswer(v) \/ ModelConflict(v)
             \/ Deliver(v)
    BY <1>2, <1>3, <2>2 DEF AutomationConflict, QuotaExhausted, NothingToAnswer, ModelConflict,
                            Deliver, Conclude
  <2> QED
    BY <1>5, <1>7, <2>1, <2>2 DEF Proceed
<1>8. ASSUME NEW v \in Workers, Fail(v) PROVE Goal
  BY <1>2, <1>3, <1>8 DEF Fail, ModelFails, Crash, Conclude
<1>9. ASSUME NEW c \in Conversations, Operate(c) PROVE Goal
  <2>1. CASE TakeOver(c) \/ ResumeAI(c)
    BY <2>1 DEF TakeOver, ResumeAI
  <2>2. ASSUME NEW v \in Workers, SendManualReply(v, c) PROVE Goal
    BY <1>2, <1>4, <2>2 DEF SendManualReply
  <2> QED
    BY <1>9, <2>1, <2>2 DEF Operate
<1>10. CASE UNCHANGED vars \/ \E m \in Messages : Send(m) \/ Persist(m)
  BY <1>10 DEF vars, Send, Persist
<1> QED
  BY <1>6, <1>7, <1>8, <1>9, <1>10 DEF Next

\* The lock on the quota: one flow at a time, and a request left for it.
LEMMA QuotaStep ==
    ASSUME TypeOK, TypeOK', IsFiniteSet(thread), OneAtTheModel, QuotaRespected, [Next]_vars,
           Still \/ \E c \in Conversations, e \in Entries : Grows(c, e)
    PROVE  QuotaRespected' /\ OneAtTheModel'
<1>1. limit' = limit /\ limit \in Nat
  BY Given, TurnAssumption DEF given, TypeOK
<1>2. IsFiniteSet(Requests) /\ Cardinality(Requests) \in Nat
  BY FS_Subset, FS_CardinalityType DEF Requests
<1>3. ASSUME Requests' = Requests PROVE QuotaRespected' /\ OneAtTheModel'
  <2>1. QuotaRespected' /\ QuotaLeft' = QuotaLeft
    BY <1>1, <1>3 DEF QuotaRespected, QuotaLeft
  <2>2. ASSUME NEW v \in Workers, flow'[v].stage = "thinking"
        PROVE  /\ QuotaLeft
               /\ \A w \in Workers : flow'[w].stage = "thinking" => v = w
    <3>1. CASE flow[v].stage = "thinking"
      <4>1. QuotaLeft /\ \A w \in Workers : flow[w].stage = "thinking" => v = w
        BY <3>1 DEF OneAtTheModel
      <4>2. ~QuotaUnlocked
        BY <3>1 DEF QuotaUnlocked
      <4> QED
        BY <4>1, <4>2, Thinkers
    <3>2. CASE flow[v].stage # "thinking"
      <4>1. QuotaUnlocked /\ QuotaLeft /\ \A w \in Workers \ {v} : flow'[w] = flow[w]
        BY <2>2, <3>2, Thinkers
      <4> QED
        BY <4>1 DEF QuotaUnlocked
    <3> QED
      BY <3>1, <3>2
  <2> QED
    BY <2>1, <2>2 DEF OneAtTheModel
<1>4. CASE Still
  BY <1>3, <1>4 DEF Still, Requests
<1>5. ASSUME NEW c \in Conversations, NEW e \in Entries, Grows(c, e)
      PROVE  QuotaRespected' /\ OneAtTheModel'
  <2>1. CASE e.author # "assistant"
    <3>1. Requests' = Requests
      BY <1>5, <2>1 DEF Grows, Requests
    <3> QED
      BY <1>3, <3>1
  <2>2. CASE e.author = "assistant"
    <3>1. QuotaLeft /\ \A v \in Workers : flow'[v].stage # "thinking"
      BY <1>5, <2>2 DEF Grows
    <3>2. Requests' = Requests \cup {e}
      BY <1>5, <2>2 DEF Grows, Requests
    <3>3. Cardinality(Requests') <= Cardinality(Requests) + 1
      <4>1. Cardinality(Requests \cup {e}) =
              IF e \in Requests THEN Cardinality(Requests) ELSE Cardinality(Requests) + 1
        BY <1>2, FS_AddElement
      <4> QED
        BY <1>2, <3>2, <4>1
    <3>4. QuotaRespected'
      <4>1. Cardinality(Requests) < limit
        BY <3>1 DEF QuotaLeft
      <4>2. Cardinality(Requests \cup {e}) \in Nat
        BY <1>2, FS_AddElement, FS_CardinalityType
      <4> QED
        BY <1>1, <1>2, <3>2, <3>3, <4>1, <4>2 DEF QuotaRespected
    <3> QED
      BY <3>1, <3>4 DEF OneAtTheModel
  <2> QED
    BY <2>1, <2>2
<1> QED
  BY <1>4, <1>5

\* No machine replies twice to a message.
LEMMA ReplyStep ==
    ASSUME OneReplyPerMessage, Still \/ \E c \in Conversations, e \in Entries : Grows(c, e)
    PROVE  OneReplyPerMessage'
<1>1. CASE Still
  BY <1>1 DEF Still, OneReplyPerMessage
<1>2. ASSUME NEW c \in Conversations, NEW e \in Entries, Grows(c, e) PROVE OneReplyPerMessage'
  <2>1. thread' = thread \cup {e}
        /\ (e.author \in Machines => {f \in thread : f.author = e.author /\ f.to = e.to} = {})
    BY <1>2 DEF Grows, Replies
  <2> QED
    BY <2>1 DEF OneReplyPerMessage
<1> QED
  BY <1>1, <1>2

--------------------------------------------------------------------------------
(* The invariant and the theorems                                          *)

LEMMA InitIInv == Init => IInv
<1> SUFFICES ASSUME Init PROVE IInv
  OBVIOUS
<1> USE TurnAssumption
<1>1. TypeOK
  <2>1. conversationOf \in [Messages -> Conversations] /\ matched \subseteq Messages
    BY DEF Init
  <2> QED
    BY <2>1, IdleType DEF Init, TypeOK, Statuses
<1>2. thread = {} /\ \A w \in Workers : flow[w].stage = "idle"
  BY IdleType DEF Init
<1>3. IsFiniteSet(thread) /\ Cardinality({}) = 0
  BY <1>2, FS_EmptySet
<1>4. Timely /\ Snapshots /\ OneAtTheModel /\ OneReplyPerMessage
  <2>1. \A m \in Messages : sentAt[m] = 0 /\ clock[conversationOf[m]] = 0
    BY <1>1 DEF Init, TypeOK
  <2> QED
    BY <1>2, <2>1 DEF Timely, Snapshots, OneAtTheModel, OneReplyPerMessage, Reading
<1>5. CountMatchesThread
  <2>1. \A c \in Conversations : ThreadOf(c) = {} /\ counted[c] = 0
    BY <1>2 DEF ThreadOf, Init
  <2> QED
    BY <1>3, <2>1 DEF CountMatchesThread
<1>6. QuotaRespected
  <2>1. Requests = {} /\ limit \in Nat
    BY <1>1, <1>2 DEF Requests, TypeOK
  <2> QED
    BY <1>3, <2>1 DEF QuotaRespected
<1> QED
  BY <1>1, <1>3, <1>4, <1>5, <1>6 DEF IInv

LEMMA IInvStep == IInv /\ [Next]_vars => IInv'
<1> SUFFICES ASSUME IInv, [Next]_vars PROVE IInv'
  OBVIOUS
<1>1. TypeOK /\ Timely /\ Snapshots /\ OneAtTheModel
  BY DEF IInv
<1>2. TypeOK'
  BY <1>1, TypeStep
<1>3. Still \/ \E c \in Conversations, e \in Entries : Grows(c, e)
  BY <1>1, StillOrGrows
<1>4. UNCHANGED given
  BY Given
<1>5. Timely'
  BY <1>1, <1>2, <1>3, <1>4, TimelyStep
<1>6. Snapshots'
  BY <1>1, <1>2, SnapshotsStep
<1>7. IsFiniteSet(thread)' /\ CountMatchesThread'
  BY <1>1, <1>3, <1>4, CountStep DEF IInv
<1>8. QuotaRespected' /\ OneAtTheModel'
  BY <1>1, <1>2, <1>3, QuotaStep DEF IInv
<1>9. OneReplyPerMessage'
  BY <1>3, ReplyStep DEF IInv
<1> QED
  BY <1>2, <1>5, <1>6, <1>7, <1>8, <1>9 DEF IInv

LEMMA IInvHolds == Spec => []IInv
BY InitIInv, IInvStep, PTL DEF Spec

\* Whatever requests and operators do, every variable stays in its type.
THEOREM TurnTypeCorrect == Spec => []TypeOK
<1>1. IInv => TypeOK
  BY DEF IInv
<1> QED
  BY <1>1, IInvHolds, PTL

\* However many flows race for a message, it gets at most one reply of each machine
\* (the version column of the conversation's row).
THEOREM OneReplyPerMessageHolds == Spec => []OneReplyPerMessage
<1>1. IInv => OneReplyPerMessage
  BY DEF IInv
<1> QED
  BY <1>1, IInvHolds, PTL

\* No increment of message_count is lost, though it starts from a value read long
\* before it is written.
THEOREM CountMatchesThreadHolds == Spec => []CountMatchesThread
<1>1. IInv => CountMatchesThread
  BY DEF IInv
<1> QED
  BY <1>1, IInvHolds, PTL

\* The hard cap on generated replies holds for any number of conversations and
\* requests of the store (AIRequestQuotaService's lock).
THEOREM QuotaRespectedHolds == Spec => []QuotaRespected
<1>1. IInv => QuotaRespected
  BY DEF IInv
<1> QED
  BY <1>1, IInvHolds, PTL

\* While a human has a conversation no machine adds to it, nor gives it back.
THEOREM MachinesYieldHolds == Spec => MachinesYield
<1> DEFINE Yield == \A c \in Conversations :
              status[c] = "human_active" =>
                /\ \A e \in thread' \ thread : e.author \in Machines => conversationOf[e.to] # c
                /\ status'[c] = "human_active" \/ ResumeAI(c)
<1>1. ASSUME IInv, [Next]_vars PROVE [Yield]_vars
  <2>1. TypeOK /\ Timely /\ Snapshots /\ OneAtTheModel
    BY <1>1 DEF IInv
  <2>2. Still \/ \E c \in Conversations, e \in Entries : Grows(c, e)
    BY <1>1, <2>1, StillOrGrows
  <2> SUFFICES ASSUME NEW c \in Conversations, status[c] = "human_active"
               PROVE  /\ \A e \in thread' \ thread : e.author \in Machines => conversationOf[e.to] # c
                      /\ status'[c] = "human_active" \/ ResumeAI(c)
    OBVIOUS
  <2>3. \A e \in thread' \ thread : e.author \in Machines => conversationOf[e.to] # c
    BY <2>2 DEF Still, Grows
  <2>4. status'[c] = "human_active" \/ ResumeAI(c)
    <3>1. CASE \E d \in Conversations, e \in Entries : Grows(d, e)
      BY <3>1 DEF Grows
    <3>2. ASSUME NEW d \in Conversations, TakeOver(d) \/ ResumeAI(d)
          PROVE  status'[c] = "human_active" \/ ResumeAI(c)
      BY <2>1, <3>2 DEF TakeOver, ResumeAI, TypeOK
    <3>3. ASSUME status' = status PROVE status'[c] = "human_active"
      BY <3>3
    <3>4. ASSUME NEW w \in Workers, ModelReplies(w)
          PROVE  \E d \in Conversations, e \in Entries : Grows(d, e)
      <4>1. At(w) \in Conversations
        BY <2>1, <3>4 DEF ModelReplies, Reading, Snapshots, ReadOK, At, TypeOK
      <4> QED
        BY <2>1, <3>4, <4>1, ModelGrows DEF Grows
    <3>5. ASSUME NEW w \in Workers, Proceed(w), ~ModelReplies(w) PROVE status' = status
      BY <3>5 DEF Proceed, AutomationReplies, AutomationConflict, QuotaExhausted, NothingToAnswer,
                  CallModel, ModelConflict, Deliver, rows
    <3>6. ASSUME NEW w \in Workers, Fail(w) PROVE status' = status
      BY <3>6 DEF Fail, ModelFails, Crash, rows
    <3>7. ASSUME NEW w \in Workers, NEW m \in Messages, Begin(w, m) PROVE status' = status
      BY <3>7 DEF Begin, SkipPaused, MatchRule, ReuseRuleReply, ReuseAnswer, ReadHistory, rows
    <3>8. ASSUME NEW m \in Messages, Send(m) \/ Persist(m) PROVE status' = status
      BY <3>8 DEF Send, Persist
    <3>9. ASSUME NEW w \in Workers, NEW d \in Conversations, SendManualReply(w, d) PROVE status' = status
      BY <3>9 DEF SendManualReply
    <3>10. ASSUME UNCHANGED vars PROVE status' = status
      BY <3>10 DEF vars, rows
    <3> QED
      BY <1>1, <3>1, <3>2, <3>3, <3>4, <3>5, <3>6, <3>7, <3>8, <3>9, <3>10 DEF Next, Operate
  <2> QED
    BY <2>3, <2>4
<1> QED
  BY <1>1, IInvHolds, PTL DEF Spec, MachinesYield

--------------------------------------------------------------------------------
(* Nobody is left waiting                                                  *)

\* A reply is later than what it replies to, which the customer has sent.
EntriesTimed ==
    \A e \in thread :
       /\ Persisted(e.to) /\ sentAt[e.to] > 0
       /\ e.author = "customer" => e.at = sentAt[e.to]
       /\ e.author # "customer" => e.at > sentAt[e.to]

\* Flows are run for messages that are there.
Begun ==
    /\ \A m \in ended : Persisted(m)
    /\ \A w \in Workers :
          /\ flow[w].of # Nobody => Persisted(flow[w].of)
          /\ flow[w].stage \in {"asking", "thinking"} => Persisted(flow[w].seen.latest)

Owned == \A c \in Conversations : status[c] = "human_active" => interventions[c] > 0

Unanswered(c) == ThreadOf(c) # {} /\ Last(ThreadOf(c)).author = "customer"

\* The flows of m, if it has any, are about to answer, or will not be what ends it.
Pending(m) ==
    /\ Persisted(m)
    /\ \/ m \in excused
       \/ /\ m \notin ended
          /\ Replies("automation", m) = {}
          /\ \A w \in Workers : flow[w].of = m =>
                /\ flow[w].stage \in Reading
                /\ flow[w].seen.revision = revision[conversationOf[m]]
                /\ flow[w].stage # "automating" => flow[w].seen.author = "customer"

\* Whoever has the last word has a message pending: the one that was persisted last.
Awaited ==
    \A c \in Conversations : interventions[c] = 0 /\ Unanswered(c) =>
       \E m \in Messages : conversationOf[m] = c /\ Pending(m)

WaitInv == EntriesTimed /\ Begun /\ Owned /\ Awaited

\* A step that adds a reply to the thread of c.
Speaks(c, e) ==
    /\ e.author # "customer"
    /\ e.at = clock[c] + 1
    /\ conversationOf[e.to] = c
    /\ Persisted(e.to)
    /\ thread' = thread \cup {e}
    /\ sentAt' = sentAt

\* The end of a thread that is not empty.
LEMMA LastSaid ==
    ASSUME TypeOK, Timely, NEW c \in Conversations, ThreadOf(c) # {}
    PROVE  /\ Last(ThreadOf(c)) \in ThreadOf(c)
           /\ \A e \in ThreadOf(c) : e.at <= Last(ThreadOf(c)).at
<1>1. ThreadOf(c) \in SUBSET Entries /\ clock[c] \in Nat
  BY DEF ThreadOf, TypeOK
<1>2. \A e \in ThreadOf(c) : e.at <= clock[c]
  BY DEF ThreadOf, Timely
<1> QED
  BY <1>1, <1>2, LastOf

\* The customer's latest message is in the thread, and later than his others.
LEMMA LatestSaid ==
    ASSUME TypeOK, Timely, NEW m \in Messages, Persisted(m)
    PROVE  \E e \in ThreadOf(conversationOf[m]) :
              /\ e.author = "customer" /\ e.to = Latest(conversationOf[m])
              /\ \A f \in ThreadOf(conversationOf[m]) : f.author = "customer" => f.at <= e.at
<1> DEFINE c == conversationOf[m]
           mine == {e \in ThreadOf(c) : e.author = "customer"}
<1>1. c \in Conversations /\ clock[c] \in Nat
  BY DEF TypeOK
<1>2. mine # {} /\ mine \in SUBSET Entries /\ \A f \in mine : f.at <= clock[c]
  BY DEF Persisted, Replies, ThreadOf, TypeOK, Timely
<1>3. Last(mine) \in mine /\ \A f \in mine : f.at <= Last(mine).at
  <2> HIDE DEF mine, c
  <2> QED
    BY <1>1, <1>2, LastOf
<1> QED
  BY <1>3 DEF Latest

LEMMA LatestPersisted ==
    ASSUME TypeOK, Timely, NEW m \in Messages, Persisted(m)
    PROVE  Persisted(Latest(conversationOf[m]))
BY LatestSaid DEF Persisted, Replies, ThreadOf

\* What a flow becomes.
LEMMA FlowSteps ==
    ASSUME TypeOK, [Next]_vars, NEW w \in Workers
    PROVE  \/ flow'[w] \in {flow[w], Idle}
           \/ \E e : flow'[w] = Flow("delivering", Nobody, NothingRead, e)
           \/ CallModel(w) /\ flow'[w] = [flow[w] EXCEPT !.stage = "thinking"]
           \/ \E m \in Messages :
                 \/ /\ MatchRule(w, m)
                    /\ flow'[w] = Flow("automating", m, Snapshot(conversationOf[m]), NoEntry)
                 \/ /\ ReadHistory(w, m)
                    /\ flow'[w] = Flow("asking", m, Snapshot(conversationOf[m]), NoEntry)
                 \/ /\ ReuseRuleReply(w, m) \/ ReuseAnswer(w, m)
                    /\ \E e : flow'[w] = Flow("delivering", m, NothingRead, e)
           \/ /\ AutomationReplies(w) \/ ModelReplies(w)
              /\ \E e : flow'[w] = Flow("delivering", flow[w].of, NothingRead, e)
<1>1. flow \in [Workers -> Flows]
  BY DEF TypeOK
<1>2. ASSUME NEW v \in Workers, NEW g, flow' = [flow EXCEPT ![v] = g]
      PROVE  flow'[w] = flow[w] \/ (v = w /\ flow'[w] = g)
  BY <1>1, <1>2
<1>3. ASSUME NEW v \in Workers, NEW m \in Messages, Begin(v, m), flow'[w] # flow[w]
      PROVE  \/ /\ MatchRule(w, m)
                /\ flow'[w] = Flow("automating", m, Snapshot(conversationOf[m]), NoEntry)
             \/ /\ ReadHistory(w, m)
                /\ flow'[w] = Flow("asking", m, Snapshot(conversationOf[m]), NoEntry)
             \/ /\ ReuseRuleReply(w, m) \/ ReuseAnswer(w, m)
                /\ \E e : flow'[w] = Flow("delivering", m, NothingRead, e)
  <2>1. CASE SkipPaused(v, m)
    BY <1>3, <2>1 DEF SkipPaused
  <2>2. CASE MatchRule(v, m)
    <3>1. flow' = [flow EXCEPT ![v] = Flow("automating", m, Snapshot(conversationOf[m]), NoEntry)]
      BY <2>2 DEF MatchRule
    <3> QED
      BY <1>2, <1>3, <2>2, <3>1
  <2>3. CASE ReadHistory(v, m)
    <3>1. flow' = [flow EXCEPT ![v] = Flow("asking", m, Snapshot(conversationOf[m]), NoEntry)]
      BY <2>3 DEF ReadHistory
    <3> QED
      BY <1>2, <1>3, <2>3, <3>1
  <2>4. CASE ReuseRuleReply(v, m) \/ ReuseAnswer(v, m)
    <3>1. PICK e : flow' = [flow EXCEPT ![v] = Flow("delivering", m, NothingRead, e)]
      BY <2>4 DEF ReuseRuleReply, ReuseAnswer
    <3> QED
      BY <1>2, <1>3, <2>4, <3>1
  <2> QED
    BY <1>3, <2>1, <2>2, <2>3, <2>4 DEF Begin
<1>4. ASSUME NEW v \in Workers, Proceed(v) \/ Fail(v), flow'[w] # flow[w]
      PROVE  \/ flow'[w] = Idle
             \/ CallModel(w) /\ flow'[w] = [flow[w] EXCEPT !.stage = "thinking"]
             \/ /\ AutomationReplies(w) \/ ModelReplies(w)
                /\ \E e : flow'[w] = Flow("delivering", flow[w].of, NothingRead, e)
  <2>1. CASE AutomationReplies(v) \/ ModelReplies(v)
    <3>1. PICK e : flow' = [flow EXCEPT ![v] = Flow("delivering", flow[v].of, NothingRead, e)]
      BY <2>1 DEF AutomationReplies, ModelReplies
    <3> QED
      BY <1>2, <1>4, <2>1, <3>1
  <2>2. CASE CallModel(v)
    <3>1. flow' = [flow EXCEPT ![v] = [flow[v] EXCEPT !.stage = "thinking"]]
      BY <2>2 DEF CallModel
    <3> QED
      BY <1>2, <1>4, <2>2, <3>1
  <2>3. CASE \/ AutomationConflict(v) \/ QuotaExhausted(v) \/ NothingToAnswer(v)
             \/ ModelConflict(v) \/ Deliver(v) \/ Fail(v)
    <3>1. flow' = [flow EXCEPT ![v] = Idle]
      BY <2>3 DEF AutomationConflict, QuotaExhausted, NothingToAnswer, ModelConflict, Deliver,
                  Fail, ModelFails, Crash, Conclude
    <3> QED
      BY <1>2, <1>4, <3>1
  <2> QED
    BY <1>4, <2>1, <2>2, <2>3 DEF Proceed
<1>5. ASSUME NEW c \in Conversations, Operate(c), flow'[w] # flow[w]
      PROVE  \E e : flow'[w] = Flow("delivering", Nobody, NothingRead, e)
  <2>1. PICK v \in Workers : SendManualReply(v, c)
    BY <1>5 DEF Operate, TakeOver, ResumeAI
  <2>2. PICK e : flow' = [flow EXCEPT ![v] = Flow("delivering", Nobody, NothingRead, e)]
    BY <2>1 DEF SendManualReply
  <2> QED
    BY <1>2, <1>5, <2>2
<1>6. CASE UNCHANGED vars \/ \E m \in Messages : Send(m) \/ Persist(m)
  BY <1>6 DEF vars, Send, Persist
<1> QED
  BY <1>3, <1>4, <1>5, <1>6 DEF Next

\* What each author says is said in the flow's conversation, and is later than the rest.
LEMMA AutomationSpeaks ==
    ASSUME TypeOK, Snapshots, Begun, NEW w \in Workers, AutomationReplies(w)
    PROVE  /\ At(w) \in Conversations
           /\ Entry("automation", flow[w].of, clock[At(w)] + 1) \in Entries
           /\ Speaks(At(w), Entry("automation", flow[w].of, clock[At(w)] + 1))
<1> DEFINE c == At(w)
           e == Entry("automation", flow[w].of, clock[c] + 1)
<1>1. ReadOK(flow[w])
  BY DEF AutomationReplies, Snapshots, Reading
<1>2. flow[w].of \in Messages /\ c \in Conversations /\ conversationOf[flow[w].of] = c
  BY <1>1 DEF ReadOK, At, TypeOK
<1>3. clock[c] \in Nat /\ Persisted(flow[w].of)
  BY <1>2, TurnAssumption DEF TypeOK, Begun, TurnAssumption
<1>4. e \in Entries /\ e.author = "automation" /\ e.to = flow[w].of /\ e.at = clock[c] + 1
  BY <1>2, <1>3, EntryType DEF Authors
<1>5. thread' = thread \cup {e} /\ sentAt' = sentAt
  BY DEF AutomationReplies, Append
<1>6. Speaks(c, e)
  <2> HIDE DEF c, e
  <2> QED
    BY <1>2, <1>3, <1>4, <1>5 DEF Speaks
<1> QED
  BY <1>2, <1>4, <1>6

LEMMA ModelSpeaks ==
    ASSUME TypeOK, Snapshots, Begun, NEW w \in Workers, ModelReplies(w)
    PROVE  /\ At(w) \in Conversations
           /\ Entry("assistant", flow[w].seen.latest, clock[At(w)] + 1) \in Entries
           /\ Speaks(At(w), Entry("assistant", flow[w].seen.latest, clock[At(w)] + 1))
<1> DEFINE c == At(w)
           to == flow[w].seen.latest
           e == Entry("assistant", to, clock[c] + 1)
<1>1. ReadOK(flow[w]) /\ flow[w].stage = "thinking"
  BY DEF ModelReplies, Snapshots, Reading
<1>2. to \in Messages /\ c \in Conversations /\ conversationOf[to] = c
  BY <1>1 DEF ReadOK, At, TypeOK
<1>3. clock[c] \in Nat /\ Persisted(to)
  BY <1>1, <1>2 DEF TypeOK, Begun
<1>4. e \in Entries /\ e.author = "assistant" /\ e.to = to /\ e.at = clock[c] + 1
  BY <1>2, <1>3, EntryType DEF Authors
<1>5. thread' = thread \cup {e} /\ sentAt' = sentAt
  BY DEF ModelReplies, Append
<1>6. Speaks(c, e)
  <2> HIDE DEF c, e, to
  <2> QED
    BY <1>2, <1>3, <1>4, <1>5 DEF Speaks
<1> QED
  BY <1>2, <1>4, <1>6

LEMMA ManualSpeaks ==
    ASSUME TypeOK, Timely, NEW w \in Workers, NEW c \in Conversations, SendManualReply(w, c)
    PROVE  /\ Entry("human", Latest(c), clock[c] + 1) \in Entries
           /\ Speaks(c, Entry("human", Latest(c), clock[c] + 1))
<1> DEFINE e == Entry("human", Latest(c), clock[c] + 1)
<1>1. Latest(c) \in Messages /\ conversationOf[Latest(c)] = c /\ Persisted(Latest(c))
  BY SnapshotOf, LatestPersisted DEF SendManualReply
<1>2. clock[c] \in Nat
  BY DEF TypeOK
<1>3. e \in Entries /\ e.author = "human" /\ e.to = Latest(c) /\ e.at = clock[c] + 1
  BY <1>1, <1>2, EntryType DEF Authors
<1>4. thread' = thread \cup {e} /\ sentAt' = sentAt
  BY DEF SendManualReply, Append
<1>5. Speaks(c, e)
  <2> HIDE DEF e
  <2> QED
    BY <1>1, <1>3, <1>4 DEF Speaks
<1> QED
  BY <1>3, <1>5

\* Who adds to a thread.
LEMMA ThreadSteps ==
    ASSUME TypeOK, Timely, Snapshots, Begun, [Next]_vars
    PROVE  \/ thread' = thread
           \/ \E m \in Messages : Persist(m)
           \/ \E c \in Conversations, e \in Entries : Speaks(c, e)
<1>1. ASSUME NEW w \in Workers, AutomationReplies(w)
      PROVE  \E c \in Conversations, e \in Entries : Speaks(c, e)
  BY <1>1, AutomationSpeaks
<1>2. ASSUME NEW w \in Workers, ModelReplies(w)
      PROVE  \E c \in Conversations, e \in Entries : Speaks(c, e)
  BY <1>2, ModelSpeaks
<1>3. ASSUME NEW w \in Workers, NEW c \in Conversations, SendManualReply(w, c)
      PROVE  \E e \in Entries : Speaks(c, e)
  BY <1>3, ManualSpeaks
<1>4. ASSUME NEW w \in Workers, Proceed(w) \/ Fail(w), ~AutomationReplies(w), ~ModelReplies(w)
      PROVE  thread' = thread
  BY <1>4 DEF Proceed, Fail, AutomationConflict, QuotaExhausted, NothingToAnswer, CallModel,
              ModelConflict, Deliver, ModelFails, Crash, rows
<1>5. ASSUME NEW w \in Workers, NEW m \in Messages, Begin(w, m) PROVE thread' = thread
  BY <1>5 DEF Begin, SkipPaused, MatchRule, ReuseRuleReply, ReuseAnswer, ReadHistory, rows
<1>6. ASSUME NEW c \in Conversations, TakeOver(c) \/ ResumeAI(c) PROVE thread' = thread
  BY <1>6 DEF TakeOver, ResumeAI
<1>7. ASSUME NEW m \in Messages, Send(m) PROVE thread' = thread
  BY <1>7 DEF Send
<1>8. CASE UNCHANGED vars
  BY <1>8 DEF vars, rows
<1> QED
  BY <1>1, <1>2, <1>3, <1>4, <1>5, <1>6, <1>7, <1>8 DEF Next, Operate

\* What has been sent and persisted stays.
LEMMA Stays ==
    ASSUME TypeOK, Timely, Snapshots, Begun, [Next]_vars
    PROVE  /\ \A m \in Messages : sentAt[m] > 0 => sentAt'[m] = sentAt[m]
           /\ thread \subseteq thread'
           /\ \A m : Persisted(m) => Persisted(m)'
           /\ conversationOf' = conversationOf
<1>1. thread \subseteq thread'
  BY ThreadSteps DEF Speaks, Persist, Append
<1>2. \A m \in Messages : sentAt[m] > 0 => sentAt'[m] = sentAt[m]
  <2>1. ASSUME NEW n \in Messages, Send(n), NEW m \in Messages, sentAt[m] > 0
        PROVE  sentAt'[m] = sentAt[m]
    BY <2>1 DEF Send, TypeOK
  <2>2. ASSUME sentAt' # sentAt PROVE \E n \in Messages : Send(n)
    BY <2>2 DEF Next, vars, Persist, Begin, SkipPaused, MatchRule, ReuseRuleReply, ReuseAnswer,
                ReadHistory, Proceed, AutomationReplies, AutomationConflict, QuotaExhausted,
                NothingToAnswer, CallModel, ModelReplies, ModelConflict, Deliver, Fail, ModelFails,
                Crash, Operate, TakeOver, ResumeAI, SendManualReply
  <2> QED
    BY <2>1, <2>2
<1> QED
  BY <1>1, <1>2, Given DEF Persisted, Replies, given

LEMMA EntriesTimedStep ==
    ASSUME TypeOK, Timely, Snapshots, Begun, EntriesTimed, [Next]_vars
    PROVE  EntriesTimed'
<1>1. \A e \in thread : e.to \in Messages
  BY DEF TypeOK, Entries
<1>2. ASSUME NEW e \in thread
      PROVE  /\ Persisted(e.to)' /\ sentAt'[e.to] > 0
             /\ e.author = "customer" => e.at = sentAt'[e.to]
             /\ e.author # "customer" => e.at > sentAt'[e.to]
  BY <1>1, Stays DEF EntriesTimed
<1>3. CASE thread' = thread
  BY <1>2, <1>3 DEF EntriesTimed
<1>4. ASSUME NEW m \in Messages, Persist(m) PROVE EntriesTimed'
  <2> DEFINE e == Entry("customer", m, sentAt[m])
  <2>1. e.author = "customer" /\ e.to = m /\ e.at = sentAt[m]
    BY DEF Entry
  <2>2. thread' = thread \cup {e} /\ sentAt' = sentAt /\ sentAt[m] > 0
    BY <1>4 DEF Persist, Append
  <2> HIDE DEF e
  <2>3. Persisted(m)'
    BY <2>1, <2>2 DEF Persisted, Replies
  <2> QED
    BY <1>2, <2>1, <2>2, <2>3 DEF EntriesTimed
<1>5. ASSUME NEW c \in Conversations, NEW e \in Entries, Speaks(c, e) PROVE EntriesTimed'
  <2>1. e.to \in Messages /\ clock[c] \in Nat /\ sentAt[e.to] \in Nat /\ sentAt[e.to] <= clock[c]
    BY <1>5 DEF Entries, TypeOK, Timely, Speaks
  <2>2. sentAt[e.to] > 0
    BY <1>5 DEF Speaks, Persisted, Replies, EntriesTimed
  <2>3. e.at > sentAt'[e.to] /\ sentAt'[e.to] > 0 /\ e.author # "customer"
    BY <1>5, <2>1, <2>2 DEF Speaks
  <2>4. Persisted(e.to)'
    BY <1>5, Stays DEF Speaks
  <2>5. thread' = thread \cup {e}
    BY <1>5 DEF Speaks
  <2> QED
    BY <1>2, <2>3, <2>4, <2>5 DEF EntriesTimed
<1> QED
  BY <1>3, <1>4, <1>5, ThreadSteps

\* Why a message is concluded.
LEMMA EndedSteps ==
    ASSUME TypeOK, [Next]_vars, NEW m \in ended' \ ended
    PROVE  \/ \E w \in Workers : SkipPaused(w, m)
           \/ \E w \in Workers :
                 /\ flow[w].of = m /\ m # Nobody
                 /\ \/ QuotaExhausted(w) \/ NothingToAnswer(w) \/ ModelConflict(w)
                    \/ Deliver(w) \/ ModelFails(w)
<1>1. ASSUME NEW w \in Workers, NEW n \in Messages, Begin(w, n) PROVE SkipPaused(w, m)
  BY <1>1 DEF Begin, SkipPaused, MatchRule, ReuseRuleReply, ReuseAnswer, ReadHistory
<1>2. ASSUME NEW w \in Workers, Conclude(w) PROVE flow[w].of = m /\ m # Nobody
  BY <1>2 DEF Conclude
<1>3. ASSUME NEW w \in Workers, Proceed(w) \/ Fail(w)
      PROVE  /\ flow[w].of = m /\ m # Nobody
             /\ \/ QuotaExhausted(w) \/ NothingToAnswer(w) \/ ModelConflict(w)
                \/ Deliver(w) \/ ModelFails(w)
  <2>1. \/ QuotaExhausted(w) \/ NothingToAnswer(w) \/ ModelConflict(w) \/ Deliver(w) \/ ModelFails(w)
    BY <1>3 DEF Proceed, Fail, AutomationReplies, AutomationConflict, CallModel, ModelReplies, Crash
  <2>2. Conclude(w)
    BY <2>1 DEF QuotaExhausted, NothingToAnswer, ModelConflict, Deliver, ModelFails
  <2> QED
    BY <1>2, <2>1, <2>2
<1>4. ASSUME \/ UNCHANGED vars \/ \E n \in Messages : Send(n) \/ Persist(n)
             \/ \E c \in Conversations : Operate(c)
      PROVE  FALSE
  BY <1>4 DEF vars, Send, Persist, Operate, TakeOver, ResumeAI, SendManualReply
<1> QED
  BY <1>1, <1>3, <1>4 DEF Next

LEMMA BegunStep ==
    ASSUME TypeOK, TypeOK', Timely, Snapshots, Begun, [Next]_vars
    PROVE  Begun'
<1>1. \A m : Persisted(m) => Persisted(m)'
  BY Stays
<1>2. ASSUME NEW m \in ended' PROVE Persisted(m)'
  <2>1. CASE m \in ended
    BY <1>1, <2>1 DEF Begun
  <2>2. CASE m \notin ended
    <3>1. Persisted(m)
      BY <1>2, <2>2, EndedSteps DEF Begun, SkipPaused, CanBegin
    <3> QED
      BY <1>1, <3>1
  <2> QED
    BY <2>1, <2>2
<1>3. ASSUME NEW w \in Workers
      PROVE  /\ flow'[w].of # Nobody => Persisted(flow'[w].of)
             /\ flow'[w].stage \in {"asking", "thinking"} => Persisted(flow'[w].seen.latest)
  <2>1. \A stage, of, seen, reply :
           /\ Flow(stage, of, seen, reply).stage = stage
           /\ Flow(stage, of, seen, reply).of = of
           /\ Flow(stage, of, seen, reply).seen = seen
    BY DEF Flow
  <2>2. CASE flow'[w] \in {flow[w], Idle}
    BY <2>1, <2>2 DEF Begun, Idle
  <2>3. CASE \E e : flow'[w] = Flow("delivering", Nobody, NothingRead, e)
    BY <2>1, <2>3
  <2>4. CASE CallModel(w) /\ flow'[w] = [flow[w] EXCEPT !.stage = "thinking"]
    <3>1. flow[w] \in Flows /\ flow[w].stage = "asking"
      BY <2>4 DEF TypeOK, CallModel
    <3>2. flow'[w].of = flow[w].of /\ flow'[w].seen = flow[w].seen
      BY <2>4, <3>1 DEF Flows
    <3> QED
      BY <3>1, <3>2 DEF Begun
  <2>5. ASSUME NEW m \in Messages, NEW stage, CanBegin(w, m),
               flow'[w] = Flow(stage, m, Snapshot(conversationOf[m]), NoEntry)
        PROVE  Persisted(flow'[w].of) /\ Persisted(flow'[w].seen.latest)
    <3>1. Persisted(m) /\ Persisted(Latest(conversationOf[m]))
      BY <2>5, LatestPersisted DEF CanBegin
    <3>2. flow'[w].of = m /\ flow'[w].seen.latest = Latest(conversationOf[m])
      BY <2>1, <2>5 DEF Snapshot
    <3> QED
      BY <3>1, <3>2
  <2>6. ASSUME NEW m \in Messages, CanBegin(w, m),
               \E e : flow'[w] = Flow("delivering", m, NothingRead, e)
        PROVE  Persisted(flow'[w].of) /\ flow'[w].stage = "delivering"
    BY <2>1, <2>6 DEF CanBegin
  <2>7. CASE \E e : flow'[w] = Flow("delivering", flow[w].of, NothingRead, e)
    BY <2>1, <2>7 DEF Begun
  <2> QED
    BY <2>2, <2>3, <2>4, <2>5, <2>6, <2>7, FlowSteps
       DEF MatchRule, ReadHistory, ReuseRuleReply, ReuseAnswer
<1>4. ASSUME NEW m, Persisted(m) PROVE Persisted(m)'
  BY <1>1, <1>4
<1> QED
  BY <1>2, <1>3, <1>4 DEF Begun

LEMMA InterventionsStay ==
    ASSUME TypeOK, TypeOK', [Next]_vars, NEW c \in Conversations
    PROVE  /\ interventions[c] \in Nat /\ interventions'[c] \in Nat
           /\ interventions'[c] >= interventions[c]
           /\ TakeOver(c) => interventions'[c] > 0
<1>1. interventions[c] \in Nat /\ interventions'[c] \in Nat
      /\ interventions \in [Conversations -> 0 .. MaxInterventions]
  BY TurnAssumption DEF TypeOK, TurnAssumption
<1>2. ASSUME NEW d \in Conversations, TakeOver(d)
      PROVE  interventions'[c] >= interventions[c] /\ (c = d => interventions'[c] > 0)
  <2>1. interventions' = [interventions EXCEPT ![d] = interventions[d] + 1]
    BY <1>2 DEF TakeOver, Intervene
  <2> QED
    BY <1>1, <2>1
<1>3. ASSUME interventions' # interventions PROVE \E d \in Conversations : TakeOver(d)
  BY <1>3 DEF Next, vars, Send, Persist, Begin, SkipPaused, MatchRule, ReuseRuleReply, ReuseAnswer,
              ReadHistory, Proceed, AutomationReplies, AutomationConflict, QuotaExhausted,
              NothingToAnswer, CallModel, ModelReplies, ModelConflict, Deliver, Fail, ModelFails,
              Crash, Operate, ResumeAI, SendManualReply
<1>4. CASE interventions' = interventions
  BY <1>1, <1>2, <1>4
<1> QED
  BY <1>1, <1>2, <1>3, <1>4

LEMMA OwnedStep == ASSUME TypeOK, TypeOK', Owned, [Next]_vars PROVE Owned'
<1> SUFFICES ASSUME NEW c \in Conversations, status'[c] = "human_active" PROVE interventions'[c] > 0
  BY DEF Owned
<1>1. status \in [Conversations -> Statuses]
  BY DEF TypeOK
<1>2. /\ interventions[c] \in Nat /\ interventions'[c] \in Nat
      /\ interventions'[c] >= interventions[c]
  BY InterventionsStay
<1>3. CASE status[c] = "human_active"
  BY <1>2, <1>3 DEF Owned
<1>4. CASE status[c] # "human_active"
  <2>1. ASSUME NEW w \in Workers, ModelReplies(w) PROVE status'[c] # "human_active"
    BY <1>1, <1>4, <2>1 DEF ModelReplies, AfterReply
  <2>2. ASSUME NEW d \in Conversations, TakeOver(d) PROVE interventions'[c] > 0
    BY <1>1, <1>4, <2>2, InterventionsStay DEF TakeOver
  <2>3. ASSUME NEW d \in Conversations, ResumeAI(d) PROVE status'[c] # "human_active"
    BY <1>1, <1>4, <2>3 DEF ResumeAI
  <2>4. ASSUME status' # status
        PROVE  \/ \E w \in Workers : ModelReplies(w)
               \/ \E d \in Conversations : TakeOver(d) \/ ResumeAI(d)
    BY <2>4 DEF Next, vars, rows, Send, Persist, Begin, SkipPaused, MatchRule, ReuseRuleReply,
                ReuseAnswer, ReadHistory, Proceed, AutomationReplies, AutomationConflict,
                QuotaExhausted, NothingToAnswer, CallModel, ModelConflict, Deliver, Fail, ModelFails,
                Crash, Operate, SendManualReply
  <2> QED
    BY <1>4, <2>1, <2>2, <2>3, <2>4
<1> QED
  BY <1>3, <1>4

\* Who replies has the last word.
LEMMA SpeechLasts ==
    ASSUME TypeOK, TypeOK', Timely, Timely', conversationOf' = conversationOf,
           NEW c \in Conversations, NEW e \in Entries, Speaks(c, e)
    PROVE  ThreadOf(c)' = ThreadOf(c) \cup {e} /\ Last(ThreadOf(c)') = e
<1> DEFINE S == ThreadOf(c)'
<1>1. S = ThreadOf(c) \cup {e}
  BY DEF Speaks, ThreadOf
<1>2. S \in SUBSET Entries /\ S # {} /\ clock'[c] \in Nat /\ clock[c] \in Nat
  BY <1>1 DEF ThreadOf, TypeOK
<1>3. \A f \in S : f.at <= clock'[c]
  BY DEF ThreadOf, Timely
<1>4. Last(S) \in S /\ \A f \in S : f.at <= Last(S).at
  <2> HIDE DEF S
  <2> QED
    BY <1>2, <1>3, LastOf
<1>5. \A f \in ThreadOf(c) : f.at \in Nat /\ f.at <= clock[c]
  BY DEF ThreadOf, Timely, TypeOK, Entries
<1>6. e.at = clock[c] + 1
  BY DEF Speaks
<1>7. Last(S) = e
  <2>1. e.at <= Last(S).at
    BY <1>1, <1>4
  <2>2. Last(S) \notin ThreadOf(c)
    BY <1>2, <1>5, <1>6, <2>1
  <2> QED
    BY <1>1, <1>4, <2>2
<1> QED
  BY <1>1, <1>7

\* After a reply the customer does not have the last word.
LEMMA SpeechAnswers ==
    ASSUME TypeOK, TypeOK', Timely, Timely', conversationOf' = conversationOf,
           NEW c \in Conversations, NEW e \in Entries, Speaks(c, e)
    PROVE  ~Unanswered(c)'
BY SpeechLasts DEF Unanswered, Speaks

\* Without an operator, the row of c moves only with its thread.
LEMMA RowKept ==
    ASSUME TypeOK, TypeOK', Timely, Snapshots, OneAtTheModel, Owned, [Next]_vars,
           NEW c \in Conversations, ThreadOf(c)' = ThreadOf(c), interventions'[c] = 0
    PROVE  revision'[c] = revision[c]
<1>1. ASSUME NEW d \in Conversations, NEW e \in Entries, Grows(d, e)
      PROVE  revision'[c] = revision[c]
  <2>1. e \in ThreadOf(d)' \ ThreadOf(d)
    BY <1>1, Given DEF Grows, ThreadOf, given
  <2> QED
    BY <1>1, <2>1 DEF Grows
<1>2. ASSUME NEW d \in Conversations, TakeOver(d) \/ ResumeAI(d)
      PROVE  revision'[c] = revision[c]
  <2>1. d # c
    BY <1>2, InterventionsStay DEF ResumeAI, Owned
  <2> QED
    BY <1>2, <2>1 DEF TakeOver, ResumeAI, TypeOK
<1>3. ASSUME NEW m \in Messages, Send(m) PROVE revision' = revision
  BY <1>3 DEF Send
<1>4. ASSUME NEW w \in Workers, NEW m \in Messages, Begin(w, m) PROVE revision' = revision
  BY <1>4 DEF Begin, SkipPaused, MatchRule, ReuseRuleReply, ReuseAnswer, ReadHistory, rows
<1>5. ASSUME NEW w \in Workers, Proceed(w) \/ Fail(w), ~AutomationReplies(w), ~ModelReplies(w)
      PROVE  revision' = revision
  BY <1>5 DEF Proceed, Fail, AutomationConflict, QuotaExhausted, NothingToAnswer, CallModel,
              ModelConflict, Deliver, ModelFails, Crash, rows
<1>6. ASSUME NEW w \in Workers, AutomationReplies(w) \/ ModelReplies(w)
      PROVE  revision'[c] = revision[c]
  <2>1. At(w) \in Conversations
    BY <1>6 DEF AutomationReplies, ModelReplies, Reading, Snapshots, ReadOK, At, TypeOK
  <2> QED
    BY <1>1, <1>6, <2>1, AutomationGrows, ModelGrows DEF Grows
<1>7. ASSUME NEW m \in Messages, Persist(m) PROVE revision'[c] = revision[c]
  <2>1. conversationOf[m] \in Conversations
    BY DEF TypeOK
  <2> QED
    BY <1>1, <1>7, <2>1, PersistGrows DEF Grows
<1>8. ASSUME NEW w \in Workers, NEW d \in Conversations, SendManualReply(w, d)
      PROVE  revision'[c] = revision[c]
  BY <1>1, <1>8, ManualGrows DEF Grows
<1>9. CASE UNCHANGED vars
  BY <1>9 DEF vars, rows
<1> QED
  BY <1>2, <1>3, <1>4, <1>5, <1>6, <1>7, <1>8, <1>9 DEF Next, Operate

\* The answer to the customer's latest message is later than all he said.
LEMMA NoAnswerYet ==
    ASSUME TypeOK, Timely, EntriesTimed, NEW m \in Messages, Persisted(m),
           Unanswered(conversationOf[m])
    PROVE  AnswersTo(Latest(conversationOf[m])) = {}
<1> SUFFICES ASSUME NEW e \in AnswersTo(Latest(conversationOf[m])) PROVE FALSE
  OBVIOUS
<1> DEFINE c == conversationOf[m]
           l == Last(ThreadOf(c))
<1>1. PICK k \in ThreadOf(c) :
         /\ k.author = "customer" /\ k.to = Latest(c)
         /\ \A f \in ThreadOf(c) : f.author = "customer" => f.at <= k.at
  BY LatestSaid
<1>2. e \in thread /\ e.author = "assistant" /\ e.to = k.to /\ e \in ThreadOf(c) /\ k \in thread
  BY <1>1 DEF AnswersTo, Replies, ThreadOf
<1>3. e.at > k.at
  BY <1>1, <1>2 DEF EntriesTimed
<1>4. l \in ThreadOf(c) /\ l.author = "customer" /\ \A f \in ThreadOf(c) : f.at <= l.at
  <2>1. c \in Conversations
    BY DEF TypeOK
  <2> QED
    BY <2>1, LastSaid DEF Unanswered
<1>5. e.at \in Nat /\ k.at \in Nat /\ l.at \in Nat
  BY <1>1, <1>2, <1>4 DEF ThreadOf, TypeOK, Entries
<1>6. e.at <= l.at /\ l.at <= k.at
  BY <1>1, <1>2, <1>4
<1> QED
  <2> HIDE DEF l
  <2> QED
    BY <1>3, <1>5, <1>6

\* A message stays pending for as long as nothing is said.
LEMMA PendingStep ==
    ASSUME IInv, TypeOK', EntriesTimed, Begun, Owned, [Next]_vars,
           NEW c \in Conversations, NEW m \in Messages, conversationOf[m] = c, Pending(m),
           Unanswered(c), ThreadOf(c)' = ThreadOf(c), interventions'[c] = 0
    PROVE  Pending(m)'
<1>1. TypeOK /\ Timely /\ Snapshots /\ OneAtTheModel
  BY DEF IInv
<1>2. Persisted(m) /\ Persisted(m)' /\ conversationOf' = conversationOf
  BY <1>1, Stays DEF Pending
<1>3. excused \subseteq excused'
  BY DEF Next, vars, Send, Persist, Begin, SkipPaused, MatchRule, ReuseRuleReply, ReuseAnswer,
         ReadHistory, Proceed, AutomationReplies, AutomationConflict, QuotaExhausted,
         NothingToAnswer, CallModel, ModelReplies, ModelConflict, Deliver, Fail, ModelFails,
         Crash, Operate, TakeOver, ResumeAI, SendManualReply
<1>4. CASE m \in excused
  BY <1>2, <1>3, <1>4 DEF Pending
<1>5. CASE m \notin excused
  <2>1. /\ m \notin ended /\ Replies("automation", m) = {} /\ m # Nobody
        /\ \A w \in Workers : flow[w].of = m =>
              /\ flow[w].stage \in Reading
              /\ flow[w].seen.revision = revision[c]
              /\ flow[w].stage # "automating" => flow[w].seen.author = "customer"
    BY <1>5, TurnAssumption DEF Pending, TurnAssumption
  <2>2. Replies("automation", m)' = {}
    BY <1>2, <2>1 DEF Replies, ThreadOf
  <2>3. revision'[c] = revision[c]
    BY <1>1, RowKept
  <2>4. m \notin ended' \/ m \in excused'
    <3> SUFFICES ASSUME m \in ended' \ ended PROVE m \in excused'
      BY <2>1
    <3>1. ASSUME NEW w \in Workers, SkipPaused(w, m) PROVE m \in excused'
      BY <3>1 DEF SkipPaused
    <3>2. ASSUME NEW w \in Workers, flow[w].of = m, QuotaExhausted(w) \/ ModelFails(w)
          PROVE  m \in excused'
      BY <3>2 DEF QuotaExhausted, ModelFails
    <3>3. ASSUME NEW w \in Workers, flow[w].of = m, NothingToAnswer(w) PROVE FALSE
      BY <2>1, <3>3 DEF NothingToAnswer
    <3>4. ASSUME NEW w \in Workers, flow[w].of = m, ModelConflict(w) PROVE FALSE
      BY <2>1, <3>4 DEF ModelConflict, Current, At
    <3>5. ASSUME NEW w \in Workers, flow[w].of = m, Deliver(w) PROVE FALSE
      BY <2>1, <3>5 DEF Deliver, Reading
    <3> QED
      BY <1>1, <3>1, <3>2, <3>3, <3>4, <3>5, EndedSteps
  <2>5. ASSUME NEW w \in Workers, flow'[w].of = m
        PROVE  /\ flow'[w].stage \in Reading
               /\ flow'[w].seen.revision = revision'[c]
               /\ flow'[w].stage # "automating" => flow'[w].seen.author = "customer"
    <3>1. \A stage, of, seen, reply :
             /\ Flow(stage, of, seen, reply).stage = stage
             /\ Flow(stage, of, seen, reply).of = of
             /\ Flow(stage, of, seen, reply).seen = seen
      BY DEF Flow
    <3>2. CASE flow'[w] = flow[w]
      BY <2>1, <2>3, <2>5, <3>2
    <3>3. CASE flow'[w] = Idle \/ \E e : flow'[w] = Flow("delivering", Nobody, NothingRead, e)
      BY <2>1, <2>5, <3>1, <3>3 DEF Idle
    <3>4. CASE CallModel(w) /\ flow'[w] = [flow[w] EXCEPT !.stage = "thinking"]
      <4>1. flow[w] \in Flows /\ flow[w].stage = "asking"
        BY <1>1, <3>4 DEF TypeOK, CallModel
      <4>2. flow'[w].of = flow[w].of /\ flow'[w].seen = flow[w].seen /\ flow'[w].stage = "thinking"
        BY <3>4, <4>1 DEF Flows
      <4> QED
        BY <2>1, <2>3, <2>5, <4>1, <4>2 DEF Reading
    <3>5. ASSUME NEW n \in Messages, MatchRule(w, n),
                 flow'[w] = Flow("automating", n, Snapshot(conversationOf[n]), NoEntry)
          PROVE  flow'[w].stage = "automating" /\ flow'[w].seen.revision = revision'[c]
      BY <2>3, <2>5, <3>1, <3>5 DEF Snapshot
    <3>6. ASSUME NEW n \in Messages, ReadHistory(w, n),
                 flow'[w] = Flow("asking", n, Snapshot(conversationOf[n]), NoEntry)
          PROVE  /\ flow'[w].stage = "asking" /\ flow'[w].seen.revision = revision'[c]
                 /\ flow'[w].seen.author = "customer"
      BY <2>3, <2>5, <3>1, <3>6 DEF Snapshot, Unanswered
    <3>7. ASSUME NEW n \in Messages, ReuseRuleReply(w, n) \/ ReuseAnswer(w, n),
                 \E e : flow'[w] = Flow("delivering", n, NothingRead, e)
          PROVE  FALSE
      <4>1. n = m
        BY <2>5, <3>1, <3>7
      <4>2. AnswersTo(Latest(c)) = {}
        BY <1>1, <1>2, NoAnswerYet
      <4> QED
        BY <2>1, <3>7, <4>1, <4>2 DEF ReuseRuleReply, ReuseAnswer
    <3>8. ASSUME AutomationReplies(w) \/ ModelReplies(w),
                 \E e : flow'[w] = Flow("delivering", flow[w].of, NothingRead, e)
          PROVE  FALSE
      <4>1. At(w) = c
        BY <2>5, <3>1, <3>8 DEF At
      <4>2. PICK e : Grows(c, e)
        BY <1>1, <3>8, <4>1, AutomationGrows, ModelGrows
      <4>3. e \in ThreadOf(c)' /\ e \notin ThreadOf(c)
        BY <1>2, <4>2 DEF Grows, ThreadOf
      <4> QED
        BY <4>3
    <3> QED
      BY <1>1, <3>2, <3>3, <3>4, <3>5, <3>6, <3>7, <3>8, FlowSteps DEF Reading
  <2> QED
    BY <1>2, <2>2, <2>4, <2>5 DEF Pending
<1> QED
  BY <1>4, <1>5

LEMMA AwaitedStep ==
    ASSUME IInv, IInv', EntriesTimed, Begun, Owned, Awaited, [Next]_vars
    PROVE  Awaited'
<1>1. /\ TypeOK /\ Timely /\ Snapshots /\ OneAtTheModel
      /\ TypeOK' /\ Timely' /\ conversationOf' = conversationOf
  BY Given DEF IInv, given
<1> SUFFICES ASSUME NEW c \in Conversations, interventions'[c] = 0, Unanswered(c)'
             PROVE  \E m \in Messages : conversationOf[m] = c /\ Pending(m)'
  BY <1>1 DEF Awaited
<1>2. interventions[c] = 0
  BY <1>1, InterventionsStay
<1>3. CASE ThreadOf(c)' = ThreadOf(c)
  <2>1. Unanswered(c)
    BY <1>3 DEF Unanswered
  <2>2. PICK m \in Messages : conversationOf[m] = c /\ Pending(m)
    BY <1>2, <2>1 DEF Awaited
  <2> QED
    BY <1>1, <1>3, <2>1, <2>2, PendingStep
<1>4. CASE ThreadOf(c)' # ThreadOf(c)
  <2>1. thread' # thread
    BY <1>1, <1>4 DEF ThreadOf
  <2>2. ASSUME NEW d \in Conversations, NEW e \in Entries, Speaks(d, e) PROVE FALSE
    <3>1. d = c
      BY <1>1, <1>4, <2>2 DEF Speaks, ThreadOf
    <3> QED
      BY <1>1, <2>2, <3>1, SpeechAnswers
  <2>3. ASSUME NEW m \in Messages, Persist(m) PROVE conversationOf[m] = c /\ Pending(m)'
    <3> DEFINE e == Entry("customer", m, sentAt[m])
    <3>1. e.author = "customer" /\ e.to = m
      BY DEF Entry
    <3>2. /\ thread' = thread \cup {e} /\ ended' = ended /\ flow' = flow
          /\ ~Persisted(m)
      BY <2>3 DEF Persist, Append
    <3> HIDE DEF e
    <3>3. conversationOf[m] = c
      BY <1>1, <1>4, <3>1, <3>2 DEF ThreadOf
    <3>4. Persisted(m)'
      BY <3>1, <3>2 DEF Persisted, Replies
    <3>5. m \notin ended' /\ \A w \in Workers : flow'[w].of # m
      BY <3>2, TurnAssumption DEF Begun, TurnAssumption
    <3>6. Replies("automation", m)' = {}
      BY <3>1, <3>2 DEF Replies, EntriesTimed
    <3> QED
      BY <3>3, <3>4, <3>5, <3>6 DEF Pending
  <2> QED
    BY <1>1, <2>1, <2>2, <2>3, ThreadSteps
<1> QED
  BY <1>3, <1>4

LEMMA InitWaitInv == Init => WaitInv
<1> SUFFICES ASSUME Init PROVE WaitInv
  OBVIOUS
<1>1. thread = {} /\ ended = {} /\ \A w \in Workers : flow[w].of = Nobody /\ flow[w].stage = "idle"
  BY DEF Init, Idle, Flow
<1>2. \A c \in Conversations : status[c] = "open"
  BY DEF Init
<1>3. \A c \in Conversations : ~Unanswered(c)
  BY <1>1 DEF Unanswered, ThreadOf
<1> QED
  BY <1>1, <1>2, <1>3 DEF WaitInv, EntriesTimed, Begun, Owned, Awaited

LEMMA WaitInvStep == IInv /\ IInv' /\ WaitInv /\ [Next]_vars => WaitInv'
<1> SUFFICES ASSUME IInv, IInv', WaitInv, [Next]_vars PROVE WaitInv'
  OBVIOUS
<1>1. /\ TypeOK /\ Timely /\ Snapshots /\ TypeOK'
      /\ EntriesTimed /\ Begun /\ Owned /\ Awaited
  BY DEF IInv, WaitInv
<1>2. EntriesTimed'
  BY <1>1, EntriesTimedStep
<1>3. Begun'
  BY <1>1, BegunStep
<1>4. Owned'
  BY <1>1, OwnedStep
<1>5. Awaited'
  BY <1>1, AwaitedStep
<1> QED
  BY <1>2, <1>3, <1>4, <1>5 DEF WaitInv

\* When all that was sent has run its flow, nobody intervened and nothing was cut short, the
\* customer does not have the last word: of the flows that race for a conversation, the one
\* for the message persisted last wins or finds an answer.
THEOREM CustomerNotLeftWaitingHolds == Spec => []CustomerNotLeftWaiting
<1>1. IInv /\ WaitInv => CustomerNotLeftWaiting
  <2> SUFFICES ASSUME IInv, WaitInv, NEW c \in Conversations, interventions[c] = 0,
                      NEW n \in Messages, conversationOf[n] = c, sentAt[n] > 0,
                      \A m \in Messages : conversationOf[m] = c /\ sentAt[m] > 0 => m \in ended \ excused,
                      Last(ThreadOf(c)).author = "customer"
               PROVE  FALSE
    BY DEF CustomerNotLeftWaiting
  <2>1. Persisted(n)
    BY DEF WaitInv, Begun
  <2>2. Unanswered(c)
    BY <2>1 DEF Unanswered, Persisted, Replies, ThreadOf
  <2>3. PICK m \in Messages : conversationOf[m] = c /\ Pending(m)
    BY <2>2 DEF WaitInv, Awaited
  <2>4. sentAt[m] > 0
    BY <2>3 DEF Pending, Persisted, Replies, WaitInv, EntriesTimed
  <2> QED
    BY <2>3, <2>4 DEF Pending
<1> QED
  BY <1>1, IInvHolds, InitWaitInv, WaitInvStep, PTL DEF Spec

--------------------------------------------------------------------------------
(* The turns                                                               *)

\* No two things are said in a conversation at the same time.
OneAtATime ==
    /\ \A m, n \in Messages :
          conversationOf[m] = conversationOf[n] /\ sentAt[m] = sentAt[n] /\ sentAt[m] > 0 => m = n
    /\ \A e \in thread, m \in Messages :
          e.author # "customer" /\ conversationOf[e.to] = conversationOf[m] => e.at # sentAt[m]
    /\ \A e, f \in thread :
          /\ e.author # "customer" /\ f.author # "customer"
          /\ conversationOf[e.to] = conversationOf[f.to] /\ e.at = f.at
          => e = f

\* What flow f of conversation c, if its revision is the row's, has read of the end of the thread.
Attends(f, c) ==
    f.seen.revision = revision[c] =>
       f.seen.latest = Latest(c) /\ f.seen.author = Last(ThreadOf(c)).author

\* A flow whose write will succeed knows the end of the thread, and the model is only called
\* when that is the customer's.
Attentive ==
    \A w \in Workers : flow[w].stage \in {"asking", "thinking"} =>
       /\ Attends(flow[w], At(w))
       /\ flow[w].stage = "thinking" => flow[w].seen.author = "customer"

TurnInv == OneAtATime /\ Attentive

\* Entries of a conversation are told apart by their times.
ToldApart ==
    \A c \in Conversations : \A e, f \in ThreadOf(c) : e.at = f.at => e = f

LEMMA Untied == TypeOK /\ EntriesTimed /\ OneAtATime => ToldApart
<1> SUFFICES ASSUME TypeOK, EntriesTimed, OneAtATime, NEW c \in Conversations,
                    NEW e \in ThreadOf(c), NEW f \in ThreadOf(c), e.at = f.at
             PROVE  e = f
  BY DEF ToldApart
<1>1. e \in thread /\ f \in thread /\ conversationOf[e.to] = c /\ conversationOf[f.to] = c
  BY DEF ThreadOf
<1>2. e \in Entries /\ f \in Entries /\ e.to \in Messages /\ f.to \in Messages
  BY <1>1 DEF TypeOK, Entries
<1>3. CASE e.author = "customer" /\ f.author = "customer"
  <2>1. sentAt[e.to] = sentAt[f.to] /\ sentAt[e.to] > 0
    BY <1>1, <1>3 DEF EntriesTimed
  <2>2. e.to = f.to
    BY <1>1, <1>2, <2>1 DEF OneAtATime
  <2> QED
    BY <1>2, <1>3, <2>2 DEF Entries
<1>4. CASE e.author = "customer" /\ f.author # "customer"
  BY <1>1, <1>2, <1>4 DEF EntriesTimed, OneAtATime
<1>5. CASE e.author # "customer" /\ f.author = "customer"
  BY <1>1, <1>2, <1>5 DEF EntriesTimed, OneAtATime
<1>6. CASE e.author # "customer" /\ f.author # "customer"
  BY <1>1, <1>6 DEF OneAtATime
<1> QED
  BY <1>3, <1>4, <1>5, <1>6

\* Sending is the only step that gives a message its time.
LEMMA SentSteps ==
    ASSUME [Next]_vars
    PROVE  sentAt' = sentAt \/ \E m \in Messages : Send(m)
BY DEF Next, vars, Persist, Begin, SkipPaused, MatchRule, ReuseRuleReply, ReuseAnswer,
       ReadHistory, Proceed, AutomationReplies, AutomationConflict, QuotaExhausted,
       NothingToAnswer, CallModel, ModelReplies, ModelConflict, Deliver, Fail, ModelFails,
       Crash, Operate, TakeOver, ResumeAI, SendManualReply

LEMMA OneAtATimeStep ==
    ASSUME TypeOK, Timely, Snapshots, Begun, EntriesTimed, OneAtATime, [Next]_vars
    PROVE  OneAtATime'
<1>1. conversationOf' = conversationOf
  BY Given DEF given
<1>2. \A e \in thread : e.to \in Messages /\ e.at \in Nat
  BY DEF TypeOK, Entries
<1>3. ASSUME NEW n \in Messages, Send(n) PROVE OneAtATime'
  <2> DEFINE c == conversationOf[n]
  <2>1. c \in Conversations /\ clock[c] \in Nat /\ sentAt \in [Messages -> Nat]
    BY DEF TypeOK
  <2>2. thread' = thread /\ sentAt' = [sentAt EXCEPT ![n] = clock[c] + 1]
    BY <1>3 DEF Send
  <2>3. \A m \in Messages : conversationOf[m] = c => sentAt[m] # clock[c] + 1
    BY <2>1 DEF Timely
  <2>4. \A e \in thread : conversationOf[e.to] = c => e.at # clock[c] + 1
    BY <1>2, <2>1 DEF Timely
  <2>5. sentAt'[n] = clock[c] + 1 /\ \A m \in Messages \ {n} : sentAt'[m] = sentAt[m]
    BY <2>1, <2>2
  <2> HIDE DEF c
  <2>6. ASSUME NEW m \in Messages, NEW k \in Messages, conversationOf[m] = conversationOf[k],
               sentAt'[m] = sentAt'[k], sentAt'[m] > 0
        PROVE  m = k
    BY <2>3, <2>5, <2>6 DEF OneAtATime, c
  <2>7. ASSUME NEW e \in thread, NEW m \in Messages, e.author # "customer",
               conversationOf[e.to] = conversationOf[m]
        PROVE  e.at # sentAt'[m]
    BY <2>4, <2>5, <2>7 DEF OneAtATime, c
  <2> QED
    BY <1>1, <2>2, <2>6, <2>7 DEF OneAtATime
<1>4. CASE sentAt' = sentAt /\ thread' = thread
  BY <1>1, <1>4 DEF OneAtATime
<1>5. ASSUME NEW m \in Messages, Persist(m) PROVE OneAtATime'
  <2>1. /\ thread' = thread \cup {Entry("customer", m, sentAt[m])} /\ sentAt' = sentAt
        /\ Entry("customer", m, sentAt[m]).author = "customer"
    BY <1>5 DEF Persist, Append, Entry
  <2> QED
    BY <1>1, <2>1 DEF OneAtATime
<1>6. ASSUME NEW c \in Conversations, NEW e \in Entries, Speaks(c, e) PROVE OneAtATime'
  <2>1. /\ e.at = clock[c] + 1 /\ conversationOf[e.to] = c
        /\ thread' = thread \cup {e} /\ sentAt' = sentAt /\ clock[c] \in Nat
    BY <1>6 DEF Speaks, TypeOK
  <2>2. \A m \in Messages : conversationOf[m] = c => sentAt[m] # e.at
    BY <2>1 DEF Timely, TypeOK
  <2>3. \A f \in thread : conversationOf[f.to] = c => f.at # e.at
    BY <1>2, <2>1 DEF Timely
  <2> QED
    BY <1>1, <2>1, <2>2, <2>3 DEF OneAtATime
<1> QED
  BY <1>3, <1>4, <1>5, <1>6, ThreadSteps, SentSteps

\* A flow whose revision is still the row's looks at the thread it has read.
LEMMA ThreadKept ==
    ASSUME TypeOK, TypeOK', Still \/ \E c \in Conversations, e \in Entries : Grows(c, e),
           conversationOf' = conversationOf,
           NEW f \in Flows, f.stage \in Reading, ReadOK(f),
           f.seen.revision = revision'[conversationOf[f.of]]
    PROVE  /\ f.seen.revision = revision[conversationOf[f.of]]
           /\ ThreadOf(conversationOf[f.of])' = ThreadOf(conversationOf[f.of])
<1> DEFINE c == conversationOf[f.of]
<1>1. c \in Conversations /\ revision[c] \in Nat /\ revision'[c] \in Nat /\ f.seen.revision <= revision[c]
      /\ f.seen.revision \in Nat
  BY DEF ReadOK, TypeOK, Flows, Reads
<1>2. CASE Still
  BY <1>1, <1>2 DEF Still, ThreadOf
<1>3. ASSUME NEW d \in Conversations, NEW e \in Entries, Grows(d, e)
      PROVE  revision'[c] = revision[c] /\ ThreadOf(c)' = ThreadOf(c)
  <2>1. c # d
    <3> SUFFICES ASSUME c = d PROVE FALSE
      OBVIOUS
    <3>1. revision'[c] > revision[c]
      BY <1>3 DEF Grows
    <3> HIDE DEF c
    <3> QED
      BY <1>1, <3>1 DEF c
  <2> QED
    BY <1>1, <1>3, <2>1 DEF Grows, ThreadOf
<1> QED
  BY <1>1, <1>2, <1>3

LEMMA AttentiveStep ==
    ASSUME IInv, IInv', Attentive, [Next]_vars
    PROVE  Attentive'
<1>1. TypeOK /\ TypeOK' /\ Timely /\ Snapshots /\ OneAtTheModel
  BY DEF IInv
<1>2. conversationOf' = conversationOf
  BY Given DEF given
<1>3. Still \/ \E c \in Conversations, e \in Entries : Grows(c, e)
  BY <1>1, StillOrGrows
<1>4. \A stage, of, seen, reply :
         /\ Flow(stage, of, seen, reply).stage = stage
         /\ Flow(stage, of, seen, reply).of = of
         /\ Flow(stage, of, seen, reply).seen = seen
  BY DEF Flow
<1> SUFFICES ASSUME NEW w \in Workers, flow'[w].stage \in {"asking", "thinking"}
             PROVE  /\ Attends(flow[w], At(w))'
                    /\ flow'[w].stage = "thinking" => flow'[w].seen.author = "customer"
  BY DEF Attentive
<1>5. ASSUME flow[w].stage \in {"asking", "thinking"}, flow'[w].seen = flow[w].seen,
             flow'[w].of = flow[w].of
      PROVE  Attends(flow[w], At(w))'
  <2>1. flow[w] \in Flows /\ flow[w].stage \in Reading /\ ReadOK(flow[w])
    BY <1>1, <1>5 DEF TypeOK, Reading, Snapshots
  <2>2. Attends(flow[w], conversationOf[flow[w].of])
    BY <1>5 DEF Attentive, At
  <2>3. PICK f \in Flows : f = flow[w]
    BY <2>1
  <2>4. PICK c : c = conversationOf[f.of]
    OBVIOUS
  <2>5. f = flow'[w] \/ (f.seen = flow'[w].seen /\ f.of = flow'[w].of)
    BY <1>5, <2>3
  <2>6. ASSUME f.seen.revision = revision'[c]
        PROVE  f.seen.latest = Latest(c)' /\ f.seen.author = Last(ThreadOf(c)').author
    <3>1. f.seen.revision = revision[c] /\ ThreadOf(c)' = ThreadOf(c)
      BY <1>1, <1>2, <1>3, <2>1, <2>3, <2>4, <2>6, ThreadKept
    <3> QED
      BY <2>2, <2>3, <2>4, <3>1 DEF Attends, Latest
  <2>7. At(w)' = c
    BY <1>2, <2>4, <2>5 DEF At
  <2> QED
    BY <2>5, <2>6, <2>7 DEF Attends
<1>6. CASE flow'[w] = flow[w]
  BY <1>5, <1>6 DEF Attentive
<1>7. CASE CallModel(w) /\ flow'[w] = [flow[w] EXCEPT !.stage = "thinking"]
  <2>1. flow[w] \in Flows /\ flow[w].stage = "asking" /\ flow[w].seen.author = "customer"
    BY <1>1, <1>7 DEF TypeOK, CallModel
  <2>2. flow'[w].of = flow[w].of /\ flow'[w].seen = flow[w].seen
    BY <1>7, <2>1 DEF Flows
  <2> QED
    BY <1>5, <2>1, <2>2
<1>8. ASSUME NEW m \in Messages, ReadHistory(w, m),
             flow'[w] = Flow("asking", m, Snapshot(conversationOf[m]), NoEntry)
      PROVE  Attends(flow[w], At(w))' /\ flow'[w].stage = "asking"
  <2>1. thread' = thread /\ revision' = revision
    BY <1>8 DEF ReadHistory, rows
  <2>2. /\ flow'[w].of = m
        /\ flow'[w].seen.latest = Latest(conversationOf[m])
        /\ flow'[w].seen.author = Last(ThreadOf(conversationOf[m])).author
        /\ flow'[w].stage = "asking"
    BY <1>4, <1>8 DEF Snapshot
  <2>3. ThreadOf(conversationOf[m])' = ThreadOf(conversationOf[m])
        /\ Latest(conversationOf[m])' = Latest(conversationOf[m])
    BY <1>2, <2>1 DEF ThreadOf, Latest
  <2> QED
    BY <1>2, <2>2, <2>3 DEF Attends, At
<1>9. Idle.stage = "idle"
  BY IdleType
<1> QED
  BY <1>1, <1>4, <1>6, <1>7, <1>8, <1>9, FlowSteps

LEMMA InitTurnInv == Init => TurnInv
<1> SUFFICES ASSUME Init PROVE TurnInv
  OBVIOUS
<1>1. thread = {} /\ \A w \in Workers : flow[w].stage = "idle"
  BY IdleType DEF Init
<1>2. \A m \in Messages : ~(sentAt[m] > 0)
  BY DEF Init
<1> QED
  BY <1>1, <1>2 DEF TurnInv, OneAtATime, Attentive

LEMMA TurnInvStep == IInv /\ IInv' /\ WaitInv /\ TurnInv /\ [Next]_vars => TurnInv'
<1> SUFFICES ASSUME IInv, IInv', WaitInv, TurnInv, [Next]_vars PROVE TurnInv'
  OBVIOUS
<1>1. OneAtATime'
  BY OneAtATimeStep DEF IInv, WaitInv, TurnInv
<1>2. Attentive'
  BY AttentiveStep DEF TurnInv
<1> QED
  BY <1>1, <1>2 DEF TurnInv

\* A conversation in which nobody speaks is as it was.
LEMMA NothingSaid ==
    ASSUME NEW c \in Conversations, ThreadOf(c)' = ThreadOf(c)
    PROVE  Said(c)' = Said(c) /\ LastLine(c)' = LastLine(c)
BY DEF Said, LastLine

\* The new entry of a thread is a line that has the last word.
LEMMA SayMapped ==
    ASSUME conversationOf' = conversationOf, NEW c \in Conversations, NEW e, conversationOf[e.to] = c,
           thread' = thread \cup {e}, Last(ThreadOf(c)') = e
    PROVE  Turns!Say(c, LineOf(e))
<1>1. ThreadOf(c)' = ThreadOf(c) \cup {e}
  BY DEF ThreadOf
<1>2. Said(c)' = Said(c) \cup {LineOf(e)} /\ LastLine(c)' = LineOf(e)
  BY <1>1 DEF Said, LastLine
<1>3. ASSUME NEW d \in Conversations \ {c} PROVE Said(d)' = Said(d) /\ LastLine(d)' = LastLine(d)
  <2>1. ThreadOf(d)' = ThreadOf(d)
    BY <1>3 DEF ThreadOf
  <2> QED
    BY <2>1, NothingSaid
<1>4. [d \in Conversations |-> Said(d)]' = [[d \in Conversations |-> Said(d)] EXCEPT ![c] = @ \cup {LineOf(e)}]
  BY <1>2, <1>3
<1>5. [d \in Conversations |-> LastLine(d)]' = [[d \in Conversations |-> LastLine(d)] EXCEPT ![c] = LineOf(e)]
  BY <1>2, <1>3
<1> QED
  BY <1>4, <1>5 DEF Turns!Say

\* Who replies, says it.
LEMMA SpeechMapped ==
    ASSUME TypeOK, TypeOK', Timely, Timely', conversationOf' = conversationOf,
           NEW c \in Conversations, NEW e \in Entries, Speaks(c, e)
    PROVE  Turns!Say(c, LineOf(e)) /\ Turns!Heard(c, e.to)
<1>1. Turns!Say(c, LineOf(e))
  BY SpeechLasts, SayMapped DEF Speaks
<1>2. PICK f \in thread : f.author = "customer" /\ f.to = e.to
  BY DEF Speaks, Persisted, Replies
<1>3. f \in ThreadOf(c) /\ LineOf(f) = Turns!Line("customer", e.to)
  BY <1>2 DEF Speaks, ThreadOf, LineOf, Turns!Line
<1> QED
  BY <1>1, <1>3 DEF Turns!Heard, Said

\* A line that was said is an entry of the thread.
LEMMA SaidEntry ==
    ASSUME NEW c \in Conversations, NEW author, NEW to, Turns!Line(author, to) \in Said(c)
    PROVE  \E e \in Replies(author, to) : conversationOf[to] = c
<1>1. PICK e \in ThreadOf(c) : LineOf(e) = Turns!Line(author, to)
  BY DEF Said
<1>2. e.author = author /\ e.to = to
  BY <1>1 DEF LineOf, Turns!Line
<1> QED
  BY <1>1, <1>2 DEF ThreadOf, Replies

\* Ingesting a message is hearing it.
LEMMA PersistMapped ==
    ASSUME TypeOK, TypeOK', Timely, Timely', EntriesTimed', OneAtATime',
           conversationOf' = conversationOf, NEW m \in Messages, Persist(m)
    PROVE  \/ Turns!Say(conversationOf[m], Turns!Line("customer", m))
           \/ /\ Said(conversationOf[m]) # {}
              /\ [c \in Conversations |-> Said(c)]' =
                   [[c \in Conversations |-> Said(c)] EXCEPT ![conversationOf[m]] =
                        @ \cup {Turns!Line("customer", m)}]
              /\ [c \in Conversations |-> LastLine(c)]' = [c \in Conversations |-> LastLine(c)]
<1> DEFINE e == Entry("customer", m, sentAt[m])
<1>1. PICK c \in Conversations : c = conversationOf[m]
  BY DEF TypeOK
<1>2. e.to = m /\ LineOf(e) = Turns!Line("customer", m)
  BY DEF Entry, LineOf, Turns!Line
<1>3. thread' = thread \cup {e}
  BY DEF Persist, Append
<1> HIDE DEF e
<1>4. ThreadOf(c)' = ThreadOf(c) \cup {e}
  BY <1>1, <1>2, <1>3 DEF ThreadOf
<1>5. \A d \in Conversations \ {c} : ThreadOf(d)' = ThreadOf(d)
  BY <1>1, <1>2, <1>3 DEF ThreadOf
<1>6. /\ Last(ThreadOf(c)') \in ThreadOf(c)'
      /\ \A f \in ThreadOf(c)' : f.at <= Last(ThreadOf(c)').at
  <2>1. ThreadOf(c)' \in SUBSET Entries /\ clock'[c] \in Nat /\ ThreadOf(c)' # {}
    BY <1>4 DEF ThreadOf, TypeOK
  <2>2. \A f \in ThreadOf(c)' : f.at <= clock'[c]
    BY DEF ThreadOf, Timely
  <2> QED
    BY <2>1, <2>2, LastOf
<1>7. CASE Last(ThreadOf(c)') = e
  BY <1>1, <1>2, <1>3, <1>7, SayMapped
<1>8. CASE Last(ThreadOf(c)') # e
  <2>1. Last(ThreadOf(c)') \in ThreadOf(c)
    BY <1>4, <1>6, <1>8
  <2>2. /\ Last(ThreadOf(c)) \in ThreadOf(c)
        /\ \A f \in ThreadOf(c) : f.at <= Last(ThreadOf(c)).at
    BY <2>1, LastSaid
  <2>3. \A f \in ThreadOf(c) : f.at \in Nat
    BY DEF ThreadOf, TypeOK, Entries
  <2>4. Last(ThreadOf(c)).at <= Last(ThreadOf(c)').at
    BY <1>4, <1>6, <2>2
  <2>5. Last(ThreadOf(c)').at <= Last(ThreadOf(c)).at
    BY <2>1, <2>2
  <2>6. Last(ThreadOf(c)').at = Last(ThreadOf(c)).at
    BY <2>1, <2>2, <2>3, <2>4, <2>5
  <2>7. Last(ThreadOf(c)') = Last(ThreadOf(c))
    <3>1. TypeOK' /\ EntriesTimed' /\ OneAtATime' => ToldApart'
      BY Untied, PTL
    <3>2. Last(ThreadOf(c)') \in ThreadOf(c)' /\ Last(ThreadOf(c)) \in ThreadOf(c)'
      BY <1>4, <1>6, <2>2
    <3> QED
      BY <2>6, <3>1, <3>2 DEF ToldApart
  <2>8. LastLine(c)' = LastLine(c) /\ Said(c)' = Said(c) \cup {LineOf(e)} /\ Said(c) # {}
    BY <1>4, <2>1, <2>7 DEF LastLine, Said
  <2>9. \A d \in Conversations \ {c} : LastLine(d)' = LastLine(d) /\ Said(d)' = Said(d)
    BY <1>5, NothingSaid
  <2>10. [d \in Conversations |-> LastLine(d)]' = [d \in Conversations |-> LastLine(d)]
    BY <2>8, <2>9
  <2>11. [d \in Conversations |-> Said(d)]' =
            [[d \in Conversations |-> Said(d)] EXCEPT ![c] = @ \cup {LineOf(e)}]
    BY <2>8, <2>9
  <2> QED
    BY <1>1, <1>2, <2>8, <2>10, <2>11
<1> QED
  BY <1>7, <1>8

\* The customer's last word is his latest message.
LEMMA LastIsLatest ==
    ASSUME TypeOK, Timely, EntriesTimed, OneAtATime, NEW c \in Conversations, Unanswered(c)
    PROVE  LastLine(c) = Turns!Line("customer", Latest(c))
<1> DEFINE mine == {e \in ThreadOf(c) : e.author = "customer"}
           l == Last(ThreadOf(c))
<1>1. /\ l \in ThreadOf(c) /\ l.author = "customer"
      /\ \A e \in ThreadOf(c) : e.at <= l.at
  BY LastSaid DEF Unanswered
<1>2. l \in mine
  BY <1>1
<1>3. mine \in SUBSET Entries /\ clock[c] \in Nat /\ \A e \in mine : e.at <= clock[c]
  BY DEF ThreadOf, TypeOK, Timely
<1> HIDE DEF l
<1>4. Last(mine) \in mine /\ \A e \in mine : e.at <= Last(mine).at
  <2> HIDE DEF mine
  <2> QED
    BY <1>2, <1>3, LastOf
<1>5. l.at \in Nat /\ Last(mine).at \in Nat
  BY <1>2, <1>3, <1>4 DEF Entries
<1>6. l.at <= Last(mine).at /\ Last(mine).at <= l.at /\ Last(mine) \in ThreadOf(c)
  BY <1>1, <1>2, <1>4
<1>7. l.at = Last(mine).at
  BY <1>5, <1>6
<1>8. l = Last(mine)
  BY <1>1, <1>6, <1>7, Untied DEF ToldApart
<1>9. l.to = Latest(c)
  BY <1>8 DEF Latest
<1> QED
  BY <1>1, <1>9 DEF LastLine, LineOf, Turns!Line, Unanswered, l

\* What does not touch the thread, the statuses and the limit is no turn.
LEMMA NoTurn ==
    ASSUME UNCHANGED <<status, thread, conversationOf, limit>>
    PROVE  UNCHANGED Turns!turnVars
<1>1. \A c \in Conversations : ThreadOf(c)' = ThreadOf(c) /\ Holder(c)' = Holder(c)
  BY DEF ThreadOf, Holder
<1>2. [c \in Conversations |-> Holder(c)]' = [c \in Conversations |-> Holder(c)]
  BY <1>1
<1>3. [c \in Conversations |-> Said(c)]' = [c \in Conversations |-> Said(c)]
  BY <1>1, NothingSaid
<1>4. [c \in Conversations |-> LastLine(c)]' = [c \in Conversations |-> LastLine(c)]
  BY <1>1, NothingSaid
<1>5. (limit - Cardinality(Requests))' = limit - Cardinality(Requests)
  BY DEF Requests
<1> QED
  BY <1>2, <1>3, <1>4, <1>5 DEF Turns!turnVars

\* What other authors than the assistant say costs nothing.
LEMMA BudgetKept ==
    ASSUME NEW e, e.author # "assistant", thread' = thread \cup {e}, limit' = limit
    PROVE  (limit - Cardinality(Requests))' = limit - Cardinality(Requests)
<1>1. Requests' = Requests
  BY DEF Requests
<1> QED
  BY <1>1

\* What the assistant says costs one.
LEMMA BudgetSpent ==
    ASSUME TypeOK, IsFiniteSet(thread), NEW e, e \notin thread, e.author = "assistant",
           thread' = thread \cup {e}, limit' = limit, QuotaLeft
    PROVE  /\ limit - Cardinality(Requests) > 0
           /\ (limit - Cardinality(Requests))' = (limit - Cardinality(Requests)) - 1
<1>1. Requests' = Requests \cup {e} /\ e \notin Requests
  BY DEF Requests
<1>2. IsFiniteSet(Requests) /\ Cardinality(Requests) \in Nat
  BY FS_Subset, FS_CardinalityType DEF Requests
<1>3. Cardinality(Requests \cup {e}) = Cardinality(Requests) + 1
  BY <1>1, <1>2, FS_AddElement, Zenon
<1>4. limit \in Nat /\ Cardinality(Requests) < limit
  BY TurnAssumption DEF TypeOK, QuotaLeft
<1>5. Cardinality(Requests') = Cardinality(Requests) + 1
  BY <1>1, <1>3
<1> QED
  BY <1>2, <1>4, <1>5

LEMMA HoldersKept ==
    ASSUME \A c \in Conversations : (status'[c] = "human_active") <=> (status[c] = "human_active")
    PROVE  [c \in Conversations |-> Holder(c)]' = [c \in Conversations |-> Holder(c)]
BY DEF Holder

LEMMA HearMapped ==
    ASSUME IInv, IInv', WaitInv', OneAtATime', UNCHANGED given, NEW m \in Messages, Persist(m)
    PROVE  Turns!Hear(conversationOf[m], m)
<1>1. conversationOf[m] \in Conversations /\ conversationOf' = conversationOf /\ limit' = limit
  BY DEF IInv, TypeOK, given
<1>2. \A d \in Conversations : ~Turns!Heard(d, m)
  <2>1. ~Persisted(m)
    BY DEF Persist
  <2> QED
    BY <1>1, <2>1, SaidEntry DEF Turns!Heard, Persisted
<1>3. [c \in Conversations |-> Holder(c)]' = [c \in Conversations |-> Holder(c)]
  BY HoldersKept DEF Persist
<1>4. (limit - Cardinality(Requests))' = limit - Cardinality(Requests)
  BY <1>1, BudgetKept DEF Persist, Append, Entry
<1>5. \/ Turns!Say(conversationOf[m], Turns!Line("customer", m))
      \/ /\ Said(conversationOf[m]) # {}
         /\ [c \in Conversations |-> Said(c)]' =
              [[c \in Conversations |-> Said(c)] EXCEPT ![conversationOf[m]] =
                   @ \cup {Turns!Line("customer", m)}]
         /\ [c \in Conversations |-> LastLine(c)]' = [c \in Conversations |-> LastLine(c)]
  BY <1>1, PersistMapped DEF IInv, WaitInv
<1> QED
  BY <1>1, <1>2, <1>3, <1>4, <1>5 DEF Turns!Hear

LEMMA RuleMapped ==
    ASSUME IInv, IInv', WaitInv, UNCHANGED given, NEW w \in Workers, AutomationReplies(w)
    PROVE  \E c \in Conversations, m \in Messages : Turns!ReplyByRule(c, m)
<1> DEFINE c == At(w)
           m == flow[w].of
           e == Entry("automation", m, clock[c] + 1)
<1>1. TypeOK /\ TypeOK' /\ Timely /\ Timely' /\ Snapshots /\ Begun
  BY DEF IInv, WaitInv
<1>2. conversationOf' = conversationOf /\ limit' = limit
  BY DEF given
<1>3. c \in Conversations /\ e \in Entries /\ Speaks(c, e) /\ Grows(c, e)
  BY <1>1, AutomationSpeaks, AutomationGrows
<1>4. e.author = "automation" /\ e.to = m /\ LineOf(e) = Turns!Line("automation", m)
  BY DEF Entry, LineOf, Turns!Line
<1>5. m \in Messages
  BY <1>3, <1>4 DEF Entries
<1>6. status' = status
  BY DEF AutomationReplies
<1> HIDE DEF c, m, e
<1>7. Turns!Say(c, Turns!Line("automation", m)) /\ Turns!Heard(c, m)
  BY <1>1, <1>2, <1>3, <1>4, SpeechMapped
<1>8. status[c] # "human_active" /\ Replies("automation", m) = {} /\ thread' = thread \cup {e}
  BY <1>3, <1>4 DEF Grows, Machines
<1>9. Turns!Line("automation", m) \notin Said(c)
  BY <1>3, <1>8, SaidEntry
<1>10. Holder(c) = "machines"
  BY <1>8 DEF Holder
<1>11. [d \in Conversations |-> Holder(d)]' = [d \in Conversations |-> Holder(d)]
  BY <1>6, HoldersKept
<1>12. (limit - Cardinality(Requests))' = limit - Cardinality(Requests)
  BY <1>2, <1>4, <1>8, BudgetKept
<1>13. Turns!ReplyByRule(c, m)
  BY <1>3, <1>7, <1>9, <1>10, <1>11, <1>12 DEF Turns!ReplyByRule
<1> QED
  BY <1>3, <1>5, <1>13

LEMMA GenerateMapped ==
    ASSUME IInv, IInv', WaitInv, TurnInv, UNCHANGED given, NEW w \in Workers, ModelReplies(w)
    PROVE  \E c \in Conversations : Turns!Generate(c)
<1> DEFINE c == At(w)
           m == flow[w].seen.latest
           e == Entry("assistant", m, clock[c] + 1)
<1>1. TypeOK /\ TypeOK' /\ Timely /\ Timely' /\ Snapshots /\ Begun /\ OneAtTheModel
      /\ EntriesTimed /\ OneAtATime /\ IsFiniteSet(thread)
  BY DEF IInv, WaitInv, TurnInv
<1>2. conversationOf' = conversationOf /\ limit' = limit
  BY DEF given
<1>3. c \in Conversations /\ e \in Entries /\ Speaks(c, e) /\ Grows(c, e)
  BY <1>1, ModelSpeaks, ModelGrows
<1>4. e.author = "assistant" /\ e.to = m /\ LineOf(e) = Turns!Line("assistant", m)
  BY DEF Entry, LineOf, Turns!Line
<1>5. m = Latest(c) /\ Last(ThreadOf(c)).author = "customer"
  BY DEF ModelReplies, Current, TurnInv, Attentive, Attends
<1>6. \A d \in Conversations : (status'[d] = "human_active") <=> (status[d] = "human_active")
  <2>1. status \in [Conversations -> Statuses] /\ status[c] # "human_active"
    BY <1>1, <1>3, <1>4 DEF TypeOK, Grows, Machines
  <2> QED
    BY <2>1 DEF ModelReplies, AfterReply
<1> HIDE DEF c, m, e
<1>7. Turns!Say(c, Turns!Line("assistant", m)) /\ Turns!Heard(c, m)
  BY <1>1, <1>2, <1>3, <1>4, SpeechMapped
<1>8. /\ status[c] # "human_active" /\ Replies("assistant", m) = {}
      /\ e \notin thread /\ thread' = thread \cup {e} /\ QuotaLeft
  BY <1>3, <1>4 DEF Grows, Machines
<1>9. Turns!Line("assistant", m) \notin Said(c)
  BY <1>3, <1>8, SaidEntry
<1>10. Holder(c) = "machines"
  BY <1>8 DEF Holder
<1>11. [d \in Conversations |-> Holder(d)]' = [d \in Conversations |-> Holder(d)]
  BY <1>6, HoldersKept
<1>12. /\ limit - Cardinality(Requests) > 0
       /\ (limit - Cardinality(Requests))' = (limit - Cardinality(Requests)) - 1
  BY <1>1, <1>2, <1>4, <1>8, BudgetSpent
<1>13. Unanswered(c)
  BY <1>3, <1>5, <1>7 DEF Unanswered, Turns!Heard, Said
<1>14. LastLine(c) = Turns!Line("customer", m)
  BY <1>1, <1>3, <1>5, <1>13, LastIsLatest
<1>15. LastLine(c).author = "customer" /\ LastLine(c).to = m
  BY <1>14 DEF Turns!Line
<1>16. Turns!Generate(c)
  BY <1>3, <1>7, <1>9, <1>10, <1>11, <1>12, <1>15 DEF Turns!Generate
<1> QED
  BY <1>3, <1>16

LEMMA HumanMapped ==
    ASSUME IInv, IInv', UNCHANGED given, NEW w \in Workers, NEW c \in Conversations,
           SendManualReply(w, c)
    PROVE  \E m \in Messages : Turns!ReplyByHuman(c, m)
<1> DEFINE m == Latest(c)
           e == Entry("human", m, clock[c] + 1)
<1>1. TypeOK /\ TypeOK' /\ Timely /\ Timely'
  BY DEF IInv
<1>2. conversationOf' = conversationOf /\ limit' = limit
  BY DEF given
<1>3. e \in Entries /\ Speaks(c, e)
  BY <1>1, ManualSpeaks
<1>4. e.author = "human" /\ e.to = m /\ LineOf(e) = Turns!Line("human", m)
  BY DEF Entry, LineOf, Turns!Line
<1>5. m \in Messages
  BY <1>3, <1>4 DEF Entries
<1>6. status' = status /\ status[c] = "human_active"
  BY DEF SendManualReply
<1> HIDE DEF m, e
<1>7. Turns!Say(c, Turns!Line("human", m)) /\ Turns!Heard(c, m)
  BY <1>1, <1>2, <1>3, <1>4, SpeechMapped
<1>8. Holder(c) = "human"
  BY <1>6 DEF Holder
<1>9. [d \in Conversations |-> Holder(d)]' = [d \in Conversations |-> Holder(d)]
  BY <1>6, HoldersKept
<1>10. (limit - Cardinality(Requests))' = limit - Cardinality(Requests)
  BY <1>2, <1>3, <1>4, BudgetKept DEF Speaks
<1>11. Turns!ReplyByHuman(c, m)
  BY <1>7, <1>8, <1>9, <1>10 DEF Turns!ReplyByHuman
<1> QED
  BY <1>5, <1>11

LEMMA OperatorMapped ==
    ASSUME TypeOK, UNCHANGED given, NEW c \in Conversations, TakeOver(c) \/ ResumeAI(c)
    PROVE  Turns!TakeOver(c) \/ Turns!GiveBack(c)
<1>1. status \in [Conversations -> Statuses] /\ thread' = thread
      /\ conversationOf' = conversationOf /\ limit' = limit
  BY DEF TypeOK, TakeOver, ResumeAI, given
<1>2. \A d \in Conversations : ThreadOf(d)' = ThreadOf(d)
  BY <1>1 DEF ThreadOf
<1>3. /\ [d \in Conversations |-> Said(d)]' = [d \in Conversations |-> Said(d)]
      /\ [d \in Conversations |-> LastLine(d)]' = [d \in Conversations |-> LastLine(d)]
      /\ (limit - Cardinality(Requests))' = limit - Cardinality(Requests)
  BY <1>1, <1>2, NothingSaid DEF Requests
<1>4. CASE TakeOver(c)
  <2>1. status[c] # "human_active" /\ status' = [status EXCEPT ![c] = "human_active"]
        /\ ThreadOf(c) # {}
    BY <1>4 DEF TakeOver
  <2>2. Holder(c) = "machines" /\ Said(c) # {}
    BY <2>1 DEF Holder, Said
  <2>3. Holder(c)' = "human" /\ \A d \in Conversations \ {c} : Holder(d)' = Holder(d)
    BY <1>1, <2>1 DEF Holder
  <2>4. [d \in Conversations |-> Holder(d)]' =
          [[d \in Conversations |-> Holder(d)] EXCEPT ![c] = "human"]
    BY <2>3
  <2> QED
    BY <1>3, <2>2, <2>4 DEF Turns!TakeOver
<1>5. CASE ResumeAI(c)
  <2>1. status[c] = "human_active" /\ status' = [status EXCEPT ![c] = "open"]
    BY <1>5 DEF ResumeAI
  <2>2. Holder(c) = "human"
    BY <2>1 DEF Holder
  <2>3. Holder(c)' = "machines" /\ \A d \in Conversations \ {c} : Holder(d)' = Holder(d)
    BY <1>1, <2>1 DEF Holder
  <2>4. [d \in Conversations |-> Holder(d)]' =
          [[d \in Conversations |-> Holder(d)] EXCEPT ![c] = "machines"]
    BY <2>3
  <2> QED
    BY <1>3, <2>2, <2>4 DEF Turns!GiveBack
<1> QED
  BY <1>4, <1>5

\* A conversation begins with silence, and with the machines.
LEMMA TurnsInitMapped == Init => Turns!TurnInit
<1> SUFFICES ASSUME Init PROVE Turns!TurnInit
  OBVIOUS
<1>1. thread = {} /\ limit \in Nat /\ \A c \in Conversations : status[c] = "open"
  BY TurnAssumption DEF Init
<1>2. \A c \in Conversations : ThreadOf(c) = {} /\ Holder(c) = "machines"
  BY <1>1 DEF ThreadOf, Holder
<1>3. \A c \in Conversations : Said(c) = {} /\ LastLine(c) = Turns!Silence
  BY <1>2 DEF Said, LastLine, LineOf, NoEntry, Entry, Turns!Silence, Turns!Line
<1>4. limit - Cardinality(Requests) \in Nat
  BY <1>1, FS_EmptySet DEF Requests
<1> QED
  BY <1>2, <1>3, <1>4 DEF Turns!TurnInit

\* Every step is a turn, or none of TurnTaking's business.
LEMMA TurnsStepMapped ==
    ASSUME IInv, IInv', WaitInv, WaitInv', TurnInv, TurnInv', [Next]_vars
    PROVE  [Turns!TurnNext]_(Turns!turnVars)
<1>1. UNCHANGED given
  BY Given
<1>2. ASSUME UNCHANGED <<status, thread>> PROVE UNCHANGED Turns!turnVars
  BY <1>1, <1>2, NoTurn DEF given
<1>3. ASSUME NEW m \in Messages, Persist(m) PROVE Turns!TurnNext
  <2>1. conversationOf[m] \in Conversations
    BY DEF IInv, TypeOK
  <2> QED
    BY <1>1, <1>3, <2>1, HearMapped DEF TurnInv, Turns!TurnNext
<1>4. ASSUME NEW w \in Workers, AutomationReplies(w) PROVE Turns!TurnNext
  BY <1>1, <1>4, RuleMapped DEF Turns!TurnNext
<1>5. ASSUME NEW w \in Workers, ModelReplies(w) PROVE Turns!TurnNext
  BY <1>1, <1>5, GenerateMapped DEF Turns!TurnNext
<1>6. ASSUME NEW c \in Conversations, NEW w \in Workers, SendManualReply(w, c) PROVE Turns!TurnNext
  BY <1>1, <1>6, HumanMapped DEF Turns!TurnNext
<1>7. ASSUME NEW c \in Conversations, TakeOver(c) \/ ResumeAI(c) PROVE Turns!TurnNext
  BY <1>1, <1>7, OperatorMapped DEF IInv, Turns!TurnNext
<1>8. ASSUME NEW m \in Messages, Send(m) PROVE UNCHANGED <<status, thread>>
  BY <1>8 DEF Send
<1>9. ASSUME NEW w \in Workers, NEW m \in Messages, Begin(w, m) PROVE UNCHANGED <<status, thread>>
  BY <1>9 DEF Begin, SkipPaused, MatchRule, ReuseRuleReply, ReuseAnswer, ReadHistory, rows
<1>10. ASSUME NEW w \in Workers, Proceed(w) \/ Fail(w), ~AutomationReplies(w), ~ModelReplies(w)
       PROVE  UNCHANGED <<status, thread>>
  BY <1>10 DEF Proceed, Fail, AutomationConflict, QuotaExhausted, NothingToAnswer, CallModel,
               ModelConflict, Deliver, ModelFails, Crash, rows
<1>11. CASE UNCHANGED vars
  BY <1>2, <1>11 DEF vars, rows
<1> QED
  BY <1>2, <1>3, <1>4, <1>5, <1>6, <1>7, <1>8, <1>9, <1>10, <1>11 DEF Next, Operate

\* Requests that race with each other, with an operator and with late messages take turns
\* all the same: only who holds a conversation speaks in it, a machine says one thing to a
\* message, a generated reply answers the customer's last word and is paid for by the quota,
\* and who replies has the last word.
THEOREM ConversationsTakeTurns == Spec => ImplementsTurns
<1>1. IInv /\ IInv' /\ WaitInv /\ WaitInv' /\ TurnInv /\ TurnInv' /\ [Next]_vars
      => [Turns!TurnNext]_(Turns!turnVars)
  BY TurnsStepMapped
<1> QED
  BY <1>1, IInvHolds, InitWaitInv, WaitInvStep, InitTurnInv, TurnInvStep, TurnsInitMapped,
     PTL DEF Spec, ImplementsTurns, Turns!TurnSpec
================================================================================
