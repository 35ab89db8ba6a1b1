------------------------ MODULE WebhookIngestion_proofs ------------------------
(***************************************************************************)
(* What holds of webhook ingestion for any deliveries and events, however  *)
(* many requests work on them, and whatever fails how often.               *)
(*                                                                         *)
(* The properties rest on three facts. The records of a delivery that are  *)
(* not concluded are restarted together, so that none is pending while     *)
(* another has failed (Together) and every request at a delivery has all   *)
(* of them on its list (Listed). Whatever Meta has stopped sending is on   *)
(* the list of a request that Meta waits for (Attended). And as long as no *)
(* lease has run out under a request it is alone at its delivery, what it  *)
(* still has to do has not failed, and the rest of its list is concluded   *)
(* (Leased).                                                               *)
(***************************************************************************)
EXTENDS WebhookIngestion, FiniteSetTheorems, WellFoundedInduction, TLAPS

\* Rows of deliveries and of what they brought.
Rowed ==
    /\ \A d \in Deliveries : delivery[d] = "none" => OwnEvents(d) = {} /\ d \notin lapsed /\ At(d) = {}
    /\ \A e \in Events : owner[e] = Nobody <=> record[e] = "none"
    /\ \A e \in Events : record[e] = "processed" => e \in handled

\* A request is about events of its delivery.
Working ==
    \A w \in Workers :
       /\ worker[w].items \subseteq worker[w].all
       /\ worker[w].all \subseteq OwnEvents(worker[w].delivery)
       /\ worker[w].delivery = Nobody => worker[w] = Idle

Together ==
    \A e, f \in Events : owner[e] = owner[f] => ~(record[e] = "pending" /\ record[f] = "failed")

Listed ==
    \A w \in Workers : \A e \in Events :
       owner[e] # Nobody /\ owner[e] = worker[w].delivery /\ record[e] \in Unfinished
          => e \in worker[w].all

Attended ==
    \A d \in Deliveries : delivery[d] # "none" /\ d \notin owed =>
       \A e \in OwnEvents(d) :
          \/ record[e] = "ignored"
          \/ e \in handled
          \/ \E w \in Workers : /\ worker[w].delivery = d /\ worker[w].waiting
                                /\ e \in worker[w].items

Leased ==
    \A d \in Deliveries \ overrun :
       /\ d \in lapsed => At(d) = {}
       /\ \A v, w \in At(d) : v = w
       /\ \A v \in At(d) :
             /\ \A e \in worker[v].items : record[e] # "failed"
             /\ \A e \in worker[v].all \ worker[v].items : record[e] \in Terminal

Inv ==
    /\ TypeOK /\ Rowed /\ Working /\ Together /\ Listed /\ Attended /\ Leased
    /\ ProcessedIsComplete /\ OneFlowPerMessage

--------------------------------------------------------------------------------
(* Payloads                                                                *)

LEMMA NobodyApart == Nobody \notin Deliveries /\ Nobody \notin Events
BY IngestionAssumption DEF IngestionAssumption

LEMMA FreshEvents ==
    ASSUME NEW d \in Deliveries
    PROVE  Fresh(d) \subseteq Events /\ \A e \in Fresh(d) : owner[e] = Nobody
BY DEF Fresh, Events

\* A set of numbers has a least one: of the intervals up to them, none of which
\* is infinite, one contains no other.
LEMMA LeastNumber ==
    ASSUME NEW S \in SUBSET Nat, NEW n \in S
    PROVE  \E i \in S : \A k \in S : i <= k
<1> DEFINE T == {1 .. i : i \in S}
<1>1. IsWellFoundedOn(StrictSubsetOrdering(Nat), FiniteSubsetsOf(Nat))
  BY FS_StrictSubsetOrderingWellFounded
<1>2. T # {} /\ T \subseteq FiniteSubsetsOf(Nat)
  BY FS_Interval DEF FiniteSubsetsOf
<1>3. PICK t \in T : \A u \in T : <<u, t>> \notin StrictSubsetOrdering(Nat)
  <2> HIDE DEF T
  <2> QED
    BY <1>1, <1>2, WFMin
<1>4. PICK i \in S : t = 1 .. i
  OBVIOUS
<1>5. ASSUME NEW k \in S, k < i PROVE FALSE
  <2>1. 1 .. k \subseteq 1 .. i /\ i \in 1 .. i /\ i \notin 1 .. k
    BY <1>5
  <2>2. <<1 .. k, 1 .. i>> \in StrictSubsetOrdering(Nat)
    BY <2>1 DEF StrictSubsetOrdering
  <2> QED
    BY <1>3, <1>4, <2>2
<1> QED
  BY <1>5

\* Of two events of a payload one comes first.
LEMMA EarlierTotal ==
    ASSUME NEW d \in Deliveries, NEW e \in ToSet(Carries[d]), NEW f \in ToSet(Carries[d]), e # f
    PROVE  Earlier(d, e, f) \/ Earlier(d, f, e)
<1> DEFINE S == {i \in DOMAIN Carries[d] : Carries[d][i] \in {e, f}}
<1>1. DOMAIN Carries[d] = 1 .. Len(Carries[d]) /\ Len(Carries[d]) \in Nat
  BY IngestionAssumption DEF IngestionAssumption
<1>2. S \in SUBSET Nat
  BY <1>1
<1>3. PICK n : n \in S
  BY DEF ToSet
<1>4. PICK i \in S : \A k \in S : i <= k
  <2> HIDE DEF S
  <2> QED
    BY <1>2, <1>3, LeastNumber
<1>5. \A j \in 1 .. i : j # i => Carries[d][j] \notin {e, f}
  <2> SUFFICES ASSUME NEW j \in 1 .. i, j # i, Carries[d][j] \in {e, f} PROVE FALSE
    OBVIOUS
  <2>1. j \in DOMAIN Carries[d] /\ j < i
    BY <1>1
  <2>2. j \in S
    BY <2>1
  <2> QED
    BY <1>1, <1>4, <2>1, <2>2
<1>6. CASE Carries[d][i] = e
  BY <1>5, <1>6 DEF Earlier
<1>7. CASE Carries[d][i] = f
  BY <1>5, <1>7 DEF Earlier
<1> QED
  BY <1>4, <1>6, <1>7

\* A message is made of one event of a payload.
LEMMA OneBecomes ==
    ASSUME NEW d \in Deliveries, NEW e \in BecomeMessages(d), NEW f \in BecomeMessages(d),
           MessageOf[e] = MessageOf[f]
    PROVE  e = f
<1>1. e \in ToSet(Carries[d]) /\ f \in ToSet(Carries[d])
      /\ e \in Fresh(d) \ Unsupported /\ f \in Fresh(d) \ Unsupported
  BY DEF BecomeMessages, Fresh
<1>2. ~Earlier(d, e, f) /\ ~Earlier(d, f, e)
  BY <1>1 DEF BecomeMessages
<1> QED
  BY <1>1, <1>2, EarlierTotal

--------------------------------------------------------------------------------
(* Requests                                                                *)

Requests ==
    [delivery : Deliveries \cup {Nobody}, items : SUBSET Events, all : SUBSET Events,
     waiting : BOOLEAN]

LEMMA IdleRequest ==
    /\ Idle \in Requests /\ Idle.delivery = Nobody /\ Idle.items = {} /\ Idle.all = {}
    /\ Idle.waiting = FALSE
BY DEF Idle, Requests

LEMMA WorkerAt ==
    ASSUME TypeOK, NEW w \in Workers, NEW new \in Requests,
           worker' = [worker EXCEPT ![w] = new]
    PROVE  /\ worker' \in [Workers -> Requests]
           /\ worker'[w] = new /\ \A v \in Workers \ {w} : worker'[v] = worker[v]
BY DEF TypeOK, Requests

\* A request ends, and Meta sends again what it has waited for, unless it was done.
LEMMA RequestEnds ==
    ASSUME Inv, NEW w \in Workers, worker' = [worker EXCEPT ![w] = Idle],
           owed \subseteq owed', owed' \subseteq Deliveries,
           worker[w].items = {} \/ worker[w].waiting = FALSE \/ worker[w].delivery \in owed',
           faults' \in 0 .. MaxFaults,
           UNCHANGED <<delivery, owner, record, author, lapsed, handled, overrun>>
    PROVE  Inv'
<1>1. /\ worker' \in [Workers -> Requests]
      /\ worker'[w] = Idle /\ \A v \in Workers \ {w} : worker'[v] = worker[v]
  BY IdleRequest, WorkerAt DEF Inv
<1>2. TypeOK'
  BY <1>1 DEF Inv, TypeOK, Requests
<1>3. \A d \in Deliveries : At(d)' \subseteq At(d) /\ w \notin At(d)'
  BY <1>1, IdleRequest, NobodyApart DEF At
<1>4. Rowed'
  BY <1>3 DEF Inv, Rowed, OwnEvents
<1>5. Working'
  BY <1>1, IdleRequest DEF Inv, Working, OwnEvents
<1>6. Together' /\ ProcessedIsComplete' /\ OneFlowPerMessage'
  BY DEF Inv, Together, ProcessedIsComplete, OneFlowPerMessage, OwnEvents
<1>7. Listed'
  BY <1>1, IdleRequest DEF Inv, Listed
<1>8. Attended'
  <2> SUFFICES ASSUME NEW d \in Deliveries, delivery[d] # "none", d \notin owed',
                      NEW e \in OwnEvents(d), record[e] # "ignored", e \notin handled
               PROVE  \E v \in Workers : /\ worker'[v].delivery = d /\ worker'[v].waiting
                                         /\ e \in worker'[v].items
    BY DEF Attended, OwnEvents
  <2>1. PICK v \in Workers : /\ worker[v].delivery = d /\ worker[v].waiting
                             /\ e \in worker[v].items
    BY DEF Inv, Attended
  <2>2. v # w
    BY <2>1
  <2> QED
    BY <1>1, <2>1, <2>2
<1>9. Leased'
  <2>1. \A d \in Deliveries, v \in Workers : v \in At(d)' => v \in At(d) /\ worker'[v] = worker[v]
    BY <1>1, <1>3 DEF At
  <2> QED
    BY <1>3, <2>1 DEF Inv, Leased
<1> QED
  BY <1>2, <1>4, <1>5, <1>6, <1>7, <1>8, <1>9 DEF Inv

--------------------------------------------------------------------------------
(* A delivery's first arrival                                              *)

\* A delivery that nothing is made of leaves a receipt.
LEMMA ReceiptOnly ==
    ASSUME Inv, NEW d \in Deliveries, delivery[d] = "none",
           NEW s \in {"failed", "ignored"}, delivery' = [delivery EXCEPT ![d] = s],
           owed' \subseteq owed, owed \ {d} \subseteq owed',
           UNCHANGED <<owner, record, author, lapsed, worker, handled, overrun, faults>>
    PROVE  Inv'
<1>1. delivery'[d] = s /\ \A c \in Deliveries \ {d} : delivery'[c] = delivery[c]
  BY DEF Inv, TypeOK
<1>2. OwnEvents(d) = {} /\ At(d) = {}
  BY DEF Inv, Rowed
<1>3. \A c : OwnEvents(c)' = OwnEvents(c) /\ At(c)' = At(c)
  BY DEF OwnEvents, At
<1>4. TypeOK'
  BY DEF Inv, TypeOK, DeliveryStatuses
<1>5. Rowed'
  BY <1>1, <1>2, <1>3 DEF Inv, Rowed
<1>6. Working'
  BY <1>3 DEF Inv, Working
<1>7. Together' /\ Listed' /\ OneFlowPerMessage'
  BY DEF Inv, Together, Listed, OneFlowPerMessage
<1>8. Attended'
  BY <1>1, <1>2, <1>3 DEF Inv, Attended
<1>9. Leased'
  BY <1>3 DEF Inv, Leased
<1>10. ProcessedIsComplete'
  BY <1>1, <1>2, <1>3 DEF Inv, ProcessedIsComplete
<1> QED
  BY <1>4, <1>5, <1>6, <1>7, <1>8, <1>9, <1>10 DEF Inv

LEMMA ArrivesUnusable ==
    ASSUME Inv, NEW d \in Deliveries, IngestMalformed(d) \/ IngestUnrouted(d)
    PROVE  Inv'
<1>1. CASE IngestMalformed(d)
  BY <1>1, ReceiptOnly DEF IngestMalformed
<1>2. CASE IngestUnrouted(d)
  BY <1>2, ReceiptOnly DEF IngestUnrouted, Answer
<1> QED
  BY <1>1, <1>2

LEMMA ArrivesRouted ==
    ASSUME Inv, NEW d \in Deliveries, NEW w \in Workers, NEW active \in BOOLEAN,
           IngestRouted(w, d, active)
    PROVE  Inv'
<1> DEFINE fresh == Fresh(d)
           messages == IF active THEN BecomeMessages(d) ELSE {}
           new == [delivery |-> d, items |-> fresh, all |-> fresh, waiting |-> TRUE]
<1>1. /\ fresh \subseteq Events /\ \A e \in fresh : owner[e] = Nobody
      /\ messages \subseteq fresh
  BY FreshEvents DEF BecomeMessages
<1>2. /\ \A e \in Events : owner'[e] = IF e \in fresh THEN d ELSE owner[e]
      /\ \A e \in Events : record'[e] = IF e \in fresh
                                          THEN IF e \in messages THEN "pending" ELSE "ignored"
                                          ELSE record[e]
  BY DEF IngestRouted, NewRecord
<1>3. OwnEvents(d) = {} /\ At(d) = {} /\ d \notin lapsed
  BY DEF IngestRouted, Inv, Rowed
<1>4. new \in Requests
  BY <1>1 DEF Requests
<1>5. worker[w] = Idle /\ worker' = [worker EXCEPT ![w] = new]
  BY DEF IngestRouted
<1>6. /\ worker' \in [Workers -> Requests]
      /\ worker'[w] = new /\ \A v \in Workers \ {w} : worker'[v] = worker[v]
  <2> HIDE DEF new
  <2> QED
    BY <1>4, <1>5, WorkerAt DEF Inv
<1>7. /\ delivery'[d] \in {"processed", "accepted"}
      /\ delivery'[d] = "processed" => fresh = {}
      /\ \A c \in Deliveries \ {d} : delivery'[c] = delivery[c]
      /\ delivery' \in [Deliveries -> DeliveryStatuses]
  BY DEF IngestRouted, Inv, TypeOK, DeliveryStatuses
<1>8. /\ OwnEvents(d)' = fresh
      /\ \A c \in Deliveries \ {d} : OwnEvents(c)' = OwnEvents(c)
  BY <1>1, <1>2, <1>3, NobodyApart DEF OwnEvents
<1>9. At(d)' = {w} /\ \A c \in Deliveries \ {d} : At(c)' = At(c)
  BY <1>3, <1>5, <1>6, IdleRequest, NobodyApart DEF At
<1>10. owed' = owed \ {d} /\ UNCHANGED <<lapsed, handled, overrun, faults>>
  BY DEF IngestRouted
<1>11. /\ owner' \in [Events -> Deliveries \cup {Nobody}]
       /\ record' \in [Events -> RecordStatuses]
  BY <1>2 DEF IngestRouted, Inv, TypeOK, RecordStatuses, NewRecord
<1>12. \A e \in messages : author'[MessageOf[e]] = e
  <2> SUFFICES ASSUME NEW e \in messages PROVE author'[MessageOf[e]] = e
    OBVIOUS
  <2>1. MessageOf[e] \in ProviderMessages
    BY <1>1 DEF ProviderMessages
  <2>2. \A f \in messages : MessageOf[f] = MessageOf[e] => f = e
    BY OneBecomes
  <2>3. (CHOOSE f \in messages : MessageOf[f] = MessageOf[e]) = e
    BY <2>2
  <2> QED
    BY <2>1, <2>3 DEF IngestRouted
<1>13. \A p \in ProviderMessages : ~(\E e \in messages : MessageOf[e] = p) => author'[p] = author[p]
  BY DEF IngestRouted
<1>14. author' \in [ProviderMessages -> Events \cup {Nobody}]
  <2>1. author' = [p \in ProviderMessages |-> author'[p]]
    BY DEF IngestRouted
  <2>2. \A p \in ProviderMessages : author'[p] \in Events \cup {Nobody}
    BY <1>1, <1>12, <1>13 DEF Inv, TypeOK
  <2> QED
    BY <2>1, <2>2
<1> HIDE DEF fresh, messages
<1>15. TypeOK'
  BY <1>6, <1>7, <1>10, <1>11, <1>14 DEF Inv, TypeOK, Requests
<1>16. Rowed'
  <2>1. \A c \in Deliveries : delivery'[c] = "none" =>
           OwnEvents(c)' = {} /\ c \notin lapsed' /\ At(c)' = {}
    BY <1>7, <1>8, <1>9, <1>10 DEF Inv, Rowed
  <2>2. \A e \in Events : owner'[e] = Nobody <=> record'[e] = "none"
    BY <1>1, <1>2, NobodyApart DEF Inv, Rowed
  <2>3. \A e \in Events : record'[e] = "processed" => e \in handled'
    BY <1>1, <1>2, <1>10 DEF Inv, Rowed
  <2> QED
    BY <2>1, <2>2, <2>3 DEF Rowed
<1>17. Working'
  <2> SUFFICES ASSUME NEW v \in Workers
               PROVE  /\ worker'[v].items \subseteq worker'[v].all
                      /\ \A e \in worker'[v].all : e \in Events /\ owner'[e] = worker'[v].delivery
                      /\ worker'[v].delivery = Nobody => worker'[v] = Idle
    BY DEF Working, OwnEvents
  <2>1. CASE v = w
    BY <2>1, <1>1, <1>2, <1>6, NobodyApart
  <2>2. CASE v # w
    <3>1. worker[v].delivery # d
      BY <1>3 DEF At
    <3>2. worker[v].delivery = Nobody => worker[v] = Idle /\ worker[v].all = {}
      BY IdleRequest DEF Inv, Working
    <3>3. \A e \in worker[v].all : e \in Events /\ owner[e] = worker[v].delivery
      BY DEF Inv, Working, OwnEvents
    <3> QED
      BY <2>2, <3>1, <3>2, <3>3, <1>1, <1>2, <1>6 DEF Inv, Working
  <2> QED
    BY <2>1, <2>2
<1>18. Together'
  <2> SUFFICES ASSUME NEW e \in Events, NEW f \in Events, owner'[e] = owner'[f],
                      record'[e] = "pending", record'[f] = "failed"
               PROVE  FALSE
    BY DEF Together
  <2>1. f \notin fresh
    BY <1>2
  <2>2. owner[f] # d
    BY <1>3 DEF OwnEvents
  <2>3. e \notin fresh
    BY <1>2, <2>1, <2>2
  <2> QED
    BY <1>2, <2>1, <2>3 DEF Inv, Together
<1>19. Listed'
  <2> SUFFICES ASSUME NEW v \in Workers, NEW e \in Events, owner'[e] # Nobody,
                      owner'[e] = worker'[v].delivery, record'[e] \in Unfinished
               PROVE  e \in worker'[v].all
    BY DEF Listed
  <2>1. CASE v = w
    BY <2>1, <1>6, <1>8 DEF OwnEvents
  <2>2. CASE v # w
    <3>1. worker[v].delivery # d
      BY <1>3 DEF At
    <3>2. e \notin fresh
      BY <2>2, <3>1, <1>2, <1>6
    <3> QED
      BY <2>2, <3>2, <1>2, <1>6 DEF Inv, Listed
  <2> QED
    BY <2>1, <2>2
<1>20. Attended'
  <2> SUFFICES ASSUME NEW c \in Deliveries, delivery'[c] # "none", c \notin owed',
                      NEW e \in OwnEvents(c)', record'[e] # "ignored", e \notin handled'
               PROVE  \E v \in Workers : /\ worker'[v].delivery = c /\ worker'[v].waiting
                                         /\ e \in worker'[v].items
    BY DEF Attended
  <2>1. CASE c = d
    BY <2>1, <1>6, <1>8
  <2>2. CASE c # d
    <3>1. delivery[c] # "none" /\ c \notin owed /\ e \in OwnEvents(c) /\ e \notin handled
      BY <2>2, <1>7, <1>8, <1>10
    <3>2. e \notin fresh /\ e \in Events
      BY <2>2, <3>1, <1>1, NobodyApart DEF OwnEvents
    <3>3. PICK v \in Workers : /\ worker[v].delivery = c /\ worker[v].waiting
                               /\ e \in worker[v].items
      BY <3>1, <3>2, <1>2 DEF Inv, Attended
    <3>4. v # w
      BY <3>3, <1>5, IdleRequest
    <3> QED
      BY <3>3, <3>4, <1>6
  <2> QED
    BY <2>1, <2>2
<1>21. Leased'
  <2> SUFFICES ASSUME NEW c \in Deliveries, c \notin overrun
               PROVE  /\ c \in lapsed => At(c)' = {}
                      /\ \A u, v \in At(c)' : u = v
                      /\ \A v \in At(c)' :
                           /\ \A e \in worker'[v].items : record'[e] # "failed"
                           /\ \A e \in worker'[v].all \ worker'[v].items : record'[e] \in Terminal
    BY <1>10 DEF Leased
  <2>1. CASE c = d
    BY <2>1, <1>1, <1>2, <1>3, <1>6, <1>9
  <2>2. CASE c # d
    <3>1. At(c)' = At(c) /\ w \notin At(c)
      BY <2>2, <1>5, <1>9, IdleRequest, NobodyApart DEF At
    <3>2. \A v \in At(c) : /\ worker'[v] = worker[v]
                           /\ worker[v].all \subseteq Events \ fresh
                           /\ worker[v].items \subseteq worker[v].all
      BY <3>1, <1>1, <1>6, NobodyApart DEF At, Inv, Working, OwnEvents
    <3> QED
      BY <3>1, <3>2, <1>2 DEF Inv, Leased
  <2> QED
    BY <2>1, <2>2
<1>22. ProcessedIsComplete'
  <2> SUFFICES ASSUME NEW c \in Deliveries, delivery'[c] = "processed", NEW e \in OwnEvents(c)'
               PROVE  record'[e] \in Terminal
    BY DEF ProcessedIsComplete
  <2>1. c # d
    BY <1>7, <1>8
  <2>2. e \in OwnEvents(c) /\ delivery[c] = "processed"
    BY <2>1, <1>7, <1>8
  <2>3. e \in Events /\ e \notin fresh
    BY <2>2, <1>1, NobodyApart DEF OwnEvents
  <2> QED
    BY <2>2, <2>3, <1>2 DEF Inv, ProcessedIsComplete
<1>23. OneFlowPerMessage'
  <2> SUFFICES ASSUME NEW e \in Events, record'[e] \in {"pending", "failed", "processed"}
               PROVE  author'[MessageOf[e]] = e
    BY DEF OneFlowPerMessage
  <2>1. CASE e \in fresh
    BY <2>1, <1>2, <1>12
  <2>2. CASE e \notin fresh
    <3>1. author[MessageOf[e]] = e
      BY <2>2, <1>2 DEF Inv, OneFlowPerMessage
    <3>2. \A f \in messages : MessageOf[f] # MessageOf[e]
      BY <3>1, NobodyApart DEF messages, BecomeMessages, Known
    <3>3. MessageOf[e] \in ProviderMessages
      BY DEF ProviderMessages
    <3> QED
      BY <3>1, <3>2, <3>3, <1>13
  <2> QED
    BY <2>1, <2>2
<1> QED
  BY <1>15, <1>16, <1>17, <1>18, <1>19, <1>20, <1>21, <1>22, <1>23 DEF Inv

--------------------------------------------------------------------------------
(* A delivery that arrives again                                           *)

\* What is resumed is all that is not concluded.
LEMMA ResumesAll ==
    ASSUME Inv, NEW d \in Deliveries, Resumable(d) # {}
    PROVE  Resumable(d) = {e \in OwnEvents(d) : record[e] \in Unfinished}
<1>1. PICK f \in OwnEvents(d) : record[f] = "failed" \/ (record[f] = "pending" /\ d \in lapsed)
  BY DEF Resumable
<1>2. \A e \in OwnEvents(d) : ~(record[f] = "failed" /\ record[e] = "pending")
  BY <1>1 DEF Inv, Together, OwnEvents
<1> QED
  BY <1>1, <1>2 DEF Resumable, Unfinished

LEMMA ArrivesToResume ==
    ASSUME Inv, NEW d \in Deliveries, NEW w \in Workers, Resume(w, d)
    PROVE  Inv'
<1> DEFINE R == Resumable(d)
           new == [delivery |-> d, items |-> R, all |-> R, waiting |-> TRUE]
<1>1. R = {e \in OwnEvents(d) : record[e] \in Unfinished} /\ R \subseteq Events
  BY ResumesAll DEF Resume, OwnEvents
<1>2. /\ \A e \in Events : record'[e] = IF e \in R THEN "pending" ELSE record[e]
      /\ record' \in [Events -> RecordStatuses]
      /\ owner' = owner
  BY DEF Resume, Inv, TypeOK, RecordStatuses
<1>3. new \in Requests
  BY <1>1 DEF Requests
<1>4. worker[w] = Idle /\ worker' = [worker EXCEPT ![w] = new]
  BY DEF Resume
<1>5. /\ worker' \in [Workers -> Requests]
      /\ worker'[w] = new /\ \A v \in Workers \ {w} : worker'[v] = worker[v]
  <2> HIDE DEF new
  <2> QED
    BY <1>3, <1>4, WorkerAt DEF Inv
<1>6. /\ delivery[d] # "none" /\ delivery'[d] = "accepted"
      /\ \A c \in Deliveries \ {d} : delivery'[c] = delivery[c]
      /\ delivery' \in [Deliveries -> DeliveryStatuses]
  BY DEF Resume, Inv, TypeOK, DeliveryStatuses
<1>7. /\ lapsed' = lapsed \ {d} /\ owed' = owed \ {d}
      /\ UNCHANGED <<author, handled, overrun, faults>>
  BY DEF Resume
<1>8. \A c : OwnEvents(c)' = OwnEvents(c)
  BY <1>2 DEF OwnEvents
<1>9. At(d)' = At(d) \cup {w} /\ \A c \in Deliveries \ {d} : At(c)' = At(c) /\ w \notin At(c)
  BY <1>4, <1>5, IdleRequest, NobodyApart DEF At
<1>10. R # {} /\ (d \in lapsed \/ \E e \in R : record[e] = "failed")
  BY DEF Resume, Resumable
<1> HIDE DEF R
<1>11. TypeOK'
  BY <1>2, <1>5, <1>6, <1>7 DEF Inv, TypeOK, Requests
<1>12. Rowed'
  <2>1. \A c \in Deliveries : delivery'[c] = "none" =>
           OwnEvents(c)' = {} /\ c \notin lapsed' /\ At(c)' = {}
    BY <1>6, <1>7, <1>8, <1>9 DEF Inv, Rowed
  <2>2. \A e \in Events : owner'[e] = Nobody <=> record'[e] = "none"
    BY <1>1, <1>2, NobodyApart DEF Inv, Rowed, OwnEvents
  <2>3. \A e \in Events : record'[e] = "processed" => e \in handled'
    BY <1>1, <1>2, <1>7 DEF Inv, Rowed
  <2> QED
    BY <2>1, <2>2, <2>3 DEF Rowed
<1>13. Working'
  <2> SUFFICES ASSUME NEW v \in Workers
               PROVE  /\ worker'[v].items \subseteq worker'[v].all
                      /\ worker'[v].all \subseteq OwnEvents(worker'[v].delivery)
                      /\ worker'[v].delivery = Nobody => worker'[v] = Idle
    BY <1>8 DEF Working
  <2>1. CASE v = w
    BY <2>1, <1>1, <1>5, NobodyApart
  <2>2. CASE v # w
    BY <2>2, <1>5 DEF Inv, Working
  <2> QED
    BY <2>1, <2>2
<1>14. Together'
  <2> SUFFICES ASSUME NEW e \in Events, NEW f \in Events, owner[e] = owner[f],
                      record'[e] = "pending", record'[f] = "failed"
               PROVE  FALSE
    BY <1>2 DEF Together
  <2>1. f \notin R /\ record[f] = "failed"
    BY <1>2
  <2>2. owner[f] # d
    BY <1>1, <2>1 DEF OwnEvents, Unfinished
  <2>3. e \notin R
    BY <1>1, <2>2 DEF OwnEvents
  <2> QED
    BY <1>2, <2>1, <2>3 DEF Inv, Together
<1>15. Listed'
  <2> SUFFICES ASSUME NEW v \in Workers, NEW e \in Events, owner[e] # Nobody,
                      owner[e] = worker'[v].delivery, record'[e] \in Unfinished
               PROVE  e \in worker'[v].all
    BY <1>2 DEF Listed
  <2>1. record[e] \in Unfinished
    BY <1>1, <1>2
  <2>2. CASE v = w
    BY <2>1, <2>2, <1>1, <1>5 DEF OwnEvents
  <2>3. CASE v # w
    BY <2>1, <2>3, <1>5 DEF Inv, Listed
  <2> QED
    BY <2>2, <2>3
<1>16. Attended'
  <2> SUFFICES ASSUME NEW c \in Deliveries, delivery'[c] # "none", c \notin owed',
                      NEW e \in OwnEvents(c), record'[e] # "ignored", e \notin handled
               PROVE  \E v \in Workers : /\ worker'[v].delivery = c /\ worker'[v].waiting
                                         /\ e \in worker'[v].items
    BY <1>7, <1>8 DEF Attended
  <2>1. CASE c = d
    <3>1. e \in Events /\ record[e] # "processed"
      BY DEF Inv, Rowed, OwnEvents
    <3>2. record[e] # "none" /\ record[e] # "ignored"
      BY <2>1, <3>1, <1>1, <1>2, NobodyApart DEF Inv, Rowed, OwnEvents, Unfinished
    <3>3. record[e] \in Unfinished
      BY <3>1, <3>2 DEF Inv, TypeOK, RecordStatuses, Unfinished
    <3>4. e \in R
      BY <2>1, <3>3, <1>1
    <3> QED
      BY <2>1, <3>4, <1>5
  <2>2. CASE c # d
    <3>1. delivery[c] # "none" /\ c \notin owed
      BY <2>2, <1>6, <1>7
    <3>2. e \in Events /\ e \notin R
      BY <2>2, <1>1 DEF OwnEvents
    <3>3. PICK v \in Workers : /\ worker[v].delivery = c /\ worker[v].waiting
                               /\ e \in worker[v].items
      BY <3>1, <3>2, <1>2 DEF Inv, Attended
    <3> QED
      BY <3>3, <1>4, <1>5, IdleRequest
  <2> QED
    BY <2>1, <2>2
<1>17. d \notin overrun => At(d) = {}
  <2> SUFFICES ASSUME d \notin overrun, NEW e \in R, record[e] = "failed", NEW v \in At(d)
               PROVE  FALSE
    BY <1>10 DEF Inv, Leased
  <2>1. v \in Workers /\ worker[v].delivery = d /\ owner[e] = d /\ e \in Events
    BY <1>1 DEF At, OwnEvents
  <2>2. e \in worker[v].all
    BY <2>1, <1>1, NobodyApart DEF Inv, Listed
  <2> QED
    BY <2>2 DEF Inv, Leased, Terminal
<1>18. Leased'
  <2> SUFFICES ASSUME NEW c \in Deliveries, c \notin overrun
               PROVE  /\ c \in lapsed' => At(c)' = {}
                      /\ \A u, v \in At(c)' : u = v
                      /\ \A v \in At(c)' :
                           /\ \A e \in worker'[v].items : record'[e] # "failed"
                           /\ \A e \in worker'[v].all \ worker'[v].items : record'[e] \in Terminal
    BY <1>7 DEF Leased
  <2>1. CASE c = d
    BY <2>1, <1>1, <1>2, <1>5, <1>7, <1>9, <1>17
  <2>2. CASE c # d
    <3>1. \A v \in At(c) : /\ worker'[v] = worker[v]
                           /\ worker[v].all \subseteq Events \ R
                           /\ worker[v].items \subseteq worker[v].all
      BY <2>2, <1>1, <1>5, <1>9 DEF At, Inv, Working, OwnEvents
    <3> QED
      BY <2>2, <3>1, <1>2, <1>7, <1>9 DEF Inv, Leased
  <2> QED
    BY <2>1, <2>2
<1>19. ProcessedIsComplete'
  <2> SUFFICES ASSUME NEW c \in Deliveries, delivery'[c] = "processed", NEW e \in OwnEvents(c)
               PROVE  record'[e] \in Terminal
    BY <1>8 DEF ProcessedIsComplete
  <2>1. c # d /\ delivery[c] = "processed"
    BY <1>6
  <2>2. e \in Events /\ e \notin R
    BY <2>1, <1>1 DEF OwnEvents
  <2> QED
    BY <2>1, <2>2, <1>2 DEF Inv, ProcessedIsComplete
<1>20. OneFlowPerMessage'
  BY <1>1, <1>2, <1>7 DEF Inv, OneFlowPerMessage, Unfinished
<1> QED
  BY <1>11, <1>12, <1>13, <1>14, <1>15, <1>16, <1>18, <1>19, <1>20 DEF Inv

\* Only what Meta is owed changes, and what it is no longer owed is settled.
LEMMA OwedChanges ==
    ASSUME Inv, owed' \subseteq Deliveries,
           \A d \in owed \ owed' : \A e \in OwnEvents(d) : record[e] = "ignored" \/ e \in handled,
           faults' \in 0 .. MaxFaults,
           UNCHANGED <<delivery, owner, record, author, lapsed, worker, handled, overrun>>
    PROVE  Inv'
<1>1. \A c : OwnEvents(c)' = OwnEvents(c) /\ At(c)' = At(c)
  BY DEF OwnEvents, At
<1>2. TypeOK'
  BY DEF Inv, TypeOK
<1>3. Rowed' /\ Working' /\ ProcessedIsComplete' /\ Leased'
  BY <1>1 DEF Inv, Rowed, Working, ProcessedIsComplete, Leased
<1>4. Together' /\ Listed' /\ OneFlowPerMessage'
  BY DEF Inv, Together, Listed, OneFlowPerMessage
<1>5. Attended'
  BY <1>1 DEF Inv, Attended
<1> QED
  BY <1>2, <1>3, <1>4, <1>5 DEF Inv

LEMMA ArrivesInVain ==
    ASSUME Inv, NEW d \in Deliveries, AnswerDuplicate(d)
    PROVE  Inv'
<1>1. ASSUME \A e \in OwnEvents(d) : record[e] # "pending", NEW e \in OwnEvents(d)
      PROVE  record[e] = "ignored" \/ e \in handled
  <2>1. e \in Events /\ owner[e] # Nobody
    BY NobodyApart DEF OwnEvents
  <2>2. record[e] \notin {"none", "pending", "failed"}
    BY <1>1, <2>1 DEF AnswerDuplicate, Resumable, Inv, Rowed
  <2> QED
    BY <2>1, <2>2 DEF Inv, TypeOK, Rowed, RecordStatuses
<1>2. \/ owed' = owed \cup {d}
      \/ owed' = owed \ {d} /\ \A e \in OwnEvents(d) : record[e] # "pending"
  BY DEF AnswerDuplicate, Answer
<1>3. UNCHANGED <<delivery, owner, record, author, lapsed, worker, handled, overrun, faults>>
  BY DEF AnswerDuplicate
<1>4. owed' \subseteq Deliveries /\ faults' \in 0 .. MaxFaults
  BY <1>2, <1>3 DEF Inv, TypeOK
<1> QED
  BY <1>1, <1>2, <1>3, <1>4, OwedChanges

LEMMA ArrivesNeedlessly ==
    ASSUME Inv, NEW d \in Deliveries, Repeat(d)
    PROVE  Inv'
<1>1. owed' \subseteq Deliveries /\ owed \ owed' = {} /\ faults' \in 0 .. MaxFaults
  BY IngestionAssumption DEF Repeat, Inv, TypeOK, IngestionAssumption
<1> QED
  BY <1>1, OwedChanges DEF Repeat

--------------------------------------------------------------------------------
(* A request at work                                                       *)

\* A request with something to do or to answer has a delivery.
LEMMA AtWork ==
    ASSUME Inv, NEW w \in Workers, worker[w] # Idle
    PROVE  worker[w].delivery \in Deliveries /\ delivery[worker[w].delivery] # "none"
<1>1. worker[w].delivery \in Deliveries
  BY DEF Inv, TypeOK, Working
<1> QED
  BY <1>1 DEF Inv, Rowed, At

LEMMA ItemEnds ==
    ASSUME Inv, NEW w \in Workers, NEW x \in Events, CompleteItem(w, x)
    PROVE  Inv'
<1> DEFINE d == worker[w].delivery
           new == [worker[w] EXCEPT !.items = @ \ {x}]
<1>1. x \in worker[w].items /\ worker[w] # Idle
  BY IdleRequest DEF CompleteItem
<1>2. d \in Deliveries /\ delivery[d] # "none"
  BY <1>1, AtWork
<1>3. owner[x] = d /\ x \in worker[w].all
  BY <1>1 DEF Inv, Working, OwnEvents
<1>4. record[x] \in RecordStatuses \ {"none"}
  BY <1>2, <1>3, NobodyApart DEF Inv, TypeOK, Rowed
<1>5. /\ record'[x] = IF record[x] = "pending" THEN "processed" ELSE record[x]
      /\ \A e \in Events \ {x} : record'[e] = record[e]
      /\ record' \in [Events -> RecordStatuses]
  BY DEF CompleteItem, Inv, TypeOK, RecordStatuses
<1>6. \A e \in Events : record'[e] # record[e] =>
         e = x /\ record[x] = "pending" /\ record'[x] = "processed"
  BY <1>5
<1>7. new \in Requests /\ worker' = [worker EXCEPT ![w] = new]
  BY DEF CompleteItem, Inv, TypeOK, Requests
<1>8. new.delivery = d /\ new.all = worker[w].all /\ new.waiting = worker[w].waiting
      /\ new.items = worker[w].items \ {x}
  BY DEF Inv, TypeOK
<1> HIDE DEF new
<1>9. /\ worker' \in [Workers -> Requests]
      /\ worker'[w] = new /\ \A v \in Workers \ {w} : worker'[v] = worker[v]
  BY <1>7, WorkerAt DEF Inv
<1>10. \A v \in Workers : /\ worker'[v].delivery = worker[v].delivery
                          /\ worker'[v].all = worker[v].all
                          /\ worker'[v].waiting = worker[v].waiting
                          /\ worker'[v].items = IF v = w THEN worker[v].items \ {x}
                                                         ELSE worker[v].items
  BY <1>8, <1>9
<1>11. /\ delivery' = IF Concluded(d) THEN [delivery EXCEPT ![d] = "processed"] ELSE delivery
       /\ handled' = handled \cup {x}
       /\ UNCHANGED <<owner, author, lapsed, owed, overrun, faults>>
  BY DEF CompleteItem
<1>12. /\ delivery' \in [Deliveries -> DeliveryStatuses]
       /\ \A c \in Deliveries : delivery'[c] = "none" <=> delivery[c] = "none"
       /\ \A c \in Deliveries : delivery'[c] = "processed" =>
             delivery[c] = "processed" \/ (c = d /\ Concluded(d))
  BY <1>2, <1>11 DEF Inv, TypeOK, DeliveryStatuses
<1>13. \A c : OwnEvents(c)' = OwnEvents(c)
  BY <1>11 DEF OwnEvents
<1>14. \A c : At(c)' = At(c)
  BY <1>10 DEF At
<1> HIDE DEF d
<1>15. TypeOK'
  BY <1>5, <1>9, <1>11, <1>12 DEF Inv, TypeOK, Requests
<1>16. Rowed'
  <2>1. \A c \in Deliveries : delivery'[c] = "none" =>
           OwnEvents(c)' = {} /\ c \notin lapsed' /\ At(c)' = {}
    BY <1>11, <1>12, <1>13, <1>14 DEF Inv, Rowed
  <2>2. \A e \in Events : owner'[e] = Nobody <=> record'[e] = "none"
    BY <1>6, <1>11 DEF Inv, Rowed
  <2>3. \A e \in Events : record'[e] = "processed" => e \in handled'
    BY <1>6, <1>11 DEF Inv, Rowed
  <2> QED
    BY <2>1, <2>2, <2>3 DEF Rowed
<1>17. Working'
  <2> SUFFICES ASSUME NEW v \in Workers
               PROVE  /\ worker'[v].items \subseteq worker'[v].all
                      /\ \A e \in worker'[v].all : e \in Events /\ owner[e] = worker'[v].delivery
                      /\ worker'[v].delivery = Nobody => worker'[v] = Idle
    BY <1>11 DEF Working, OwnEvents
  <2>1. \A e \in worker[v].all : e \in Events /\ owner[e] = worker[v].delivery
    BY DEF Inv, Working, OwnEvents
  <2>2. v = w => worker[v].delivery # Nobody
    BY <1>2, NobodyApart DEF d
  <2> QED
    BY <2>1, <2>2, <1>9, <1>10 DEF Inv, Working
<1>18. Together'
  BY <1>6, <1>11 DEF Inv, Together
<1>19. Listed'
  BY <1>6, <1>10, <1>11 DEF Inv, Listed, Unfinished
<1>20. Attended'
  <2> SUFFICES ASSUME NEW c \in Deliveries, delivery[c] # "none", c \notin owed,
                      NEW e \in OwnEvents(c), record'[e] # "ignored", e \notin handled'
               PROVE  \E v \in Workers : /\ worker'[v].delivery = c /\ worker'[v].waiting
                                         /\ e \in worker'[v].items
    BY <1>11, <1>12, <1>13 DEF Attended
  <2>1. e # x /\ record[e] # "ignored" /\ e \notin handled
    BY <1>5, <1>11 DEF OwnEvents
  <2>2. PICK v \in Workers : /\ worker[v].delivery = c /\ worker[v].waiting
                             /\ e \in worker[v].items
    BY <2>1 DEF Inv, Attended
  <2> QED
    BY <2>1, <2>2, <1>10
<1>21. Leased'
  <2> SUFFICES ASSUME NEW c \in Deliveries, c \notin overrun
               PROVE  \A v \in At(c) :
                           /\ \A e \in worker'[v].items : record'[e] # "failed"
                           /\ \A e \in worker'[v].all \ worker'[v].items : record'[e] \in Terminal
    BY <1>11, <1>14 DEF Inv, Leased
  <2> SUFFICES ASSUME NEW v \in At(c)
               PROVE  /\ \A e \in worker'[v].items : record'[e] # "failed"
                      /\ \A e \in worker'[v].all \ worker'[v].items : record'[e] \in Terminal
    OBVIOUS
  <2>1. v \in Workers /\ worker[v].all \subseteq Events
        /\ worker[v].items \subseteq worker[v].all
    BY DEF At, Inv, TypeOK, Working
  <2>2. /\ \A e \in worker[v].items : record[e] # "failed"
        /\ \A e \in worker[v].all \ worker[v].items : record[e] \in Terminal
    BY DEF Inv, Leased
  <2>3. v = w => record'[x] \in Terminal
    BY <2>2, <1>1, <1>4, <1>5 DEF Terminal, RecordStatuses
  <2>4. \A e \in worker'[v].all \ worker'[v].items :
           e \in worker[v].all \ worker[v].items \/ (v = w /\ e = x)
    BY <2>1, <1>10
  <2>5. \A e \in Events : record[e] \in Terminal => record'[e] \in Terminal
    BY <1>6 DEF Terminal
  <2> QED
    BY <2>1, <2>2, <2>3, <2>4, <2>5, <1>6, <1>10
<1>22. ProcessedIsComplete'
  <2> SUFFICES ASSUME NEW c \in Deliveries, delivery'[c] = "processed", NEW e \in OwnEvents(c)
               PROVE  record'[e] \in Terminal
    BY <1>13 DEF ProcessedIsComplete
  <2>1. e \in Events /\ record[e] # "none"
    BY NobodyApart DEF OwnEvents, Inv, Rowed
  <2>2. record[e] \in Terminal
    BY <2>1, <1>12 DEF Inv, TypeOK, ProcessedIsComplete, Concluded, Unfinished, Terminal,
                       RecordStatuses
  <2> QED
    BY <2>1, <2>2, <1>6 DEF Terminal
<1>23. OneFlowPerMessage'
  BY <1>6, <1>11 DEF Inv, OneFlowPerMessage
<1> QED
  BY <1>15, <1>16, <1>17, <1>18, <1>19, <1>20, <1>21, <1>22, <1>23 DEF Inv

LEMMA FlowFails ==
    ASSUME Inv, NEW w \in Workers, FailIngestion(w)
    PROVE  Inv'
<1> DEFINE d == worker[w].delivery
           F == FailedRecords(w)
<1>1. worker[w] # Idle
  BY IdleRequest DEF FailIngestion
<1>2. d \in Deliveries /\ delivery[d] # "none" /\ w \in At(d)
  BY <1>1, AtWork DEF At
<1>3. \A e \in F : e \in Events /\ owner[e] = d /\ record[e] = "pending"
  BY DEF FailedRecords, Inv, Working, OwnEvents
<1>4. /\ \A e \in Events : record'[e] = IF e \in F THEN "failed" ELSE record[e]
      /\ record' \in [Events -> RecordStatuses]
  BY DEF FailIngestion, Inv, TypeOK, RecordStatuses
<1>5. \A e \in Events : owner[e] = d /\ record[e] = "pending" => e \in F
  BY <1>2, NobodyApart DEF Inv, Listed, FailedRecords, Unfinished
<1>6. /\ delivery'[d] = "failed" /\ \A c \in Deliveries \ {d} : delivery'[c] = delivery[c]
      /\ delivery' \in [Deliveries -> DeliveryStatuses]
  BY <1>2 DEF FailIngestion, Inv, TypeOK, DeliveryStatuses
<1>7. worker' = [worker EXCEPT ![w] = Idle]
  BY DEF FailIngestion
<1>8. /\ worker' \in [Workers -> Requests]
      /\ worker'[w] = Idle /\ \A v \in Workers \ {w} : worker'[v] = worker[v]
  BY <1>7, IdleRequest, WorkerAt DEF Inv
<1>9. /\ owed \subseteq owed' /\ owed' \subseteq owed \cup {d}
      /\ worker[w].waiting = FALSE \/ d \in owed'
  BY DEF FailIngestion, Answer, Inv, TypeOK
<1>10. faults' \in 0 .. MaxFaults
  BY IngestionAssumption DEF FailIngestion, Inv, TypeOK, IngestionAssumption
<1>11. UNCHANGED <<owner, author, lapsed, handled, overrun>>
  BY DEF FailIngestion
<1>12. \A c : OwnEvents(c)' = OwnEvents(c)
  BY <1>11 DEF OwnEvents
<1>13. \A c \in Deliveries : At(c)' = At(c) \ {w}
  BY <1>8, IdleRequest, NobodyApart DEF At
<1>14. \A c \in Deliveries \ overrun : c = d => At(c)' = {}
  BY <1>2, <1>13 DEF Inv, Leased
<1> HIDE DEF d, F
<1>15. TypeOK'
  BY <1>2, <1>4, <1>6, <1>8, <1>9, <1>10, <1>11 DEF Inv, TypeOK, Requests
<1>16. Rowed'
  <2>1. \A c \in Deliveries : delivery'[c] = "none" =>
           OwnEvents(c)' = {} /\ c \notin lapsed' /\ At(c)' = {}
    BY <1>6, <1>11, <1>12, <1>13 DEF Inv, Rowed
  <2>2. \A e \in Events : owner'[e] = Nobody <=> record'[e] = "none"
    BY <1>3, <1>4, <1>11 DEF Inv, Rowed
  <2>3. \A e \in Events : record'[e] = "processed" => e \in handled'
    BY <1>4, <1>11 DEF Inv, Rowed
  <2> QED
    BY <2>1, <2>2, <2>3 DEF Rowed
<1>17. Working'
  <2> SUFFICES ASSUME NEW v \in Workers
               PROVE  /\ worker'[v].items \subseteq worker'[v].all
                      /\ \A e \in worker'[v].all : e \in Events /\ owner[e] = worker'[v].delivery
                      /\ worker'[v].delivery = Nobody => worker'[v] = Idle
    BY <1>11 DEF Working, OwnEvents
  <2>1. \A e \in worker[v].all : e \in Events /\ owner[e] = worker[v].delivery
    BY DEF Inv, Working, OwnEvents
  <2> QED
    BY <2>1, <1>8, IdleRequest DEF Inv, Working
<1>18. Together'
  <2> SUFFICES ASSUME NEW e \in Events, NEW f \in Events, owner[e] = owner[f],
                      record'[e] = "pending", record'[f] = "failed"
               PROVE  FALSE
    BY <1>11 DEF Together
  <2>1. e \notin F /\ record[e] = "pending"
    BY <1>4
  <2>2. owner[e] # d
    BY <2>1, <1>5
  <2>3. f \notin F
    BY <2>2, <1>3
  <2> QED
    BY <2>1, <2>3, <1>4 DEF Inv, Together
<1>19. Listed'
  <2>1. \A e \in Events : record'[e] \in Unfinished => record[e] \in Unfinished
    BY <1>3, <1>4 DEF Unfinished
  <2> QED
    BY <2>1, <1>8, <1>11, IdleRequest DEF Inv, Listed
<1>20. Attended'
  <2> SUFFICES ASSUME NEW c \in Deliveries, delivery'[c] # "none", c \notin owed',
                      NEW e \in OwnEvents(c), record'[e] # "ignored", e \notin handled
               PROVE  \E v \in Workers : /\ worker'[v].delivery = c /\ worker'[v].waiting
                                         /\ e \in worker'[v].items
    BY <1>11, <1>12 DEF Attended
  <2>1. delivery[c] # "none" /\ c \notin owed
    BY <1>2, <1>6, <1>9
  <2>2. record[e] # "ignored"
    BY <1>3, <1>4 DEF OwnEvents
  <2>3. PICK v \in Workers : /\ worker[v].delivery = c /\ worker[v].waiting
                             /\ e \in worker[v].items
    BY <2>1, <2>2 DEF Inv, Attended
  <2>4. v # w
    BY <2>3, <1>9 DEF d
  <2> QED
    BY <2>3, <2>4, <1>8
<1>21. Leased'
  <2> SUFFICES ASSUME NEW c \in Deliveries, c \notin overrun
               PROVE  /\ c \in lapsed => At(c)' = {}
                      /\ \A u, v \in At(c)' : u = v
                      /\ \A v \in At(c)' :
                           /\ \A e \in worker'[v].items : record'[e] # "failed"
                           /\ \A e \in worker'[v].all \ worker'[v].items : record'[e] \in Terminal
    BY <1>11 DEF Leased
  <2>1. CASE c = d
    BY <2>1, <1>14
  <2>2. CASE c # d
    <3>1. \A v \in At(c)' : /\ v \in At(c) /\ worker'[v] = worker[v]
                            /\ worker[v].all \subseteq Events \ F
                            /\ worker[v].items \subseteq worker[v].all
      BY <2>2, <1>3, <1>8, <1>13 DEF At, Inv, Working, OwnEvents
    <3> QED
      BY <2>2, <3>1, <1>4, <1>13 DEF Inv, Leased
  <2> QED
    BY <2>1, <2>2
<1>22. ProcessedIsComplete'
  <2> SUFFICES ASSUME NEW c \in Deliveries, delivery'[c] = "processed", NEW e \in OwnEvents(c)
               PROVE  record'[e] \in Terminal
    BY <1>12 DEF ProcessedIsComplete
  <2>1. c # d /\ delivery[c] = "processed"
    BY <1>6
  <2>2. e \in Events /\ e \notin F
    BY <2>1, <1>3 DEF OwnEvents
  <2> QED
    BY <2>1, <2>2, <1>4 DEF Inv, ProcessedIsComplete
<1>23. OneFlowPerMessage'
  BY <1>3, <1>4, <1>11 DEF Inv, OneFlowPerMessage
<1> QED
  BY <1>15, <1>16, <1>17, <1>18, <1>19, <1>20, <1>21, <1>22, <1>23 DEF Inv

LEMMA RequestOver ==
    ASSUME Inv, NEW w \in Workers, Acknowledge(w) \/ Crash(w)
    PROVE  Inv'
<1>1. CASE Acknowledge(w)
  <2>1. owed \subseteq owed' /\ owed' \subseteq Deliveries /\ faults' \in 0 .. MaxFaults
    BY <1>1 DEF Acknowledge, Inv, TypeOK
  <2> QED
    BY <1>1, <2>1, RequestEnds DEF Acknowledge
<1>2. CASE Crash(w)
  <2>1. worker[w].delivery \in Deliveries
    BY <1>2, AtWork DEF Crash
  <2>2. /\ owed \subseteq owed' /\ owed' \subseteq Deliveries
        /\ worker[w].waiting = FALSE \/ worker[w].delivery \in owed'
    BY <1>2, <2>1 DEF Crash, Answer, Inv, TypeOK
  <2>3. faults' \in 0 .. MaxFaults
    BY <1>2, IngestionAssumption DEF Crash, Inv, TypeOK, IngestionAssumption
  <2> QED
    BY <1>2, <2>2, <2>3, RequestEnds DEF Crash
<1> QED
  BY <1>1, <1>2

LEMMA SenderGivesUp ==
    ASSUME Inv, NEW w \in Workers, GiveUp(w)
    PROVE  Inv'
<1> DEFINE d == worker[w].delivery
           new == [worker[w] EXCEPT !.waiting = FALSE]
<1>1. worker[w] # Idle /\ d \in Deliveries
  BY IdleRequest, AtWork DEF GiveUp
<1>2. new \in Requests /\ worker' = [worker EXCEPT ![w] = new]
  BY DEF GiveUp, Inv, TypeOK, Requests
<1>3. new.delivery = d /\ new.all = worker[w].all /\ new.items = worker[w].items
  BY DEF Inv, TypeOK
<1> HIDE DEF new
<1>4. /\ worker' \in [Workers -> Requests]
      /\ worker'[w] = new /\ \A v \in Workers \ {w} : worker'[v] = worker[v]
  BY <1>2, WorkerAt DEF Inv
<1>5. \A v \in Workers : /\ worker'[v].delivery = worker[v].delivery
                         /\ worker'[v].all = worker[v].all
                         /\ worker'[v].items = worker[v].items
                         /\ v # w => worker'[v] = worker[v]
  BY <1>3, <1>4
<1>6. owed' = owed \cup {d} /\ faults' \in 0 .. MaxFaults
      /\ UNCHANGED <<delivery, owner, record, author, lapsed, handled, overrun>>
  BY IngestionAssumption DEF GiveUp, Answer, Inv, TypeOK, IngestionAssumption
<1>7. \A c : OwnEvents(c)' = OwnEvents(c) /\ At(c)' = At(c)
  BY <1>5, <1>6 DEF OwnEvents, At
<1> HIDE DEF d
<1>8. TypeOK'
  BY <1>1, <1>4, <1>6 DEF Inv, TypeOK, Requests
<1>9. Rowed' /\ Together' /\ ProcessedIsComplete' /\ OneFlowPerMessage'
  BY <1>6, <1>7 DEF Inv, Rowed, Together, ProcessedIsComplete, OneFlowPerMessage
<1>10. Working'
  <2> SUFFICES ASSUME NEW v \in Workers
               PROVE  /\ worker'[v].items \subseteq worker'[v].all
                      /\ \A e \in worker'[v].all : e \in Events /\ owner[e] = worker'[v].delivery
                      /\ worker'[v].delivery = Nobody => worker'[v] = Idle
    BY <1>6 DEF Working, OwnEvents
  <2>1. \A e \in worker[v].all : e \in Events /\ owner[e] = worker[v].delivery
    BY DEF Inv, Working, OwnEvents
  <2>2. v = w => worker[v].delivery # Nobody
    BY <1>1, NobodyApart DEF d
  <2> QED
    BY <2>1, <2>2, <1>5 DEF Inv, Working
<1>11. Listed'
  BY <1>5, <1>6 DEF Inv, Listed
<1>12. Attended'
  <2> SUFFICES ASSUME NEW c \in Deliveries, delivery[c] # "none", c \notin owed',
                      NEW e \in OwnEvents(c), record[e] # "ignored", e \notin handled
               PROVE  \E v \in Workers : /\ worker'[v].delivery = c /\ worker'[v].waiting
                                         /\ e \in worker'[v].items
    BY <1>6, <1>7 DEF Attended
  <2>1. PICK v \in Workers : /\ worker[v].delivery = c /\ worker[v].waiting
                             /\ e \in worker[v].items
    BY <1>6 DEF Inv, Attended
  <2>2. v # w
    BY <2>1, <1>6 DEF d
  <2> QED
    BY <2>1, <2>2, <1>5
<1>13. Leased'
  <2>1. \A c : At(c) \subseteq Workers
    BY DEF At
  <2> QED
    BY <2>1, <1>5, <1>6, <1>7 DEF Inv, Leased
<1> QED
  BY <1>8, <1>9, <1>10, <1>11, <1>12, <1>13 DEF Inv

LEMMA TimePasses ==
    ASSUME Inv, NEW d \in Deliveries, LeaseLapses(d)
    PROVE  Inv'
<1>1. UNCHANGED <<delivery, owner, record, author, worker, owed, handled, faults>>
  BY DEF LeaseLapses
<1>2. \A c : OwnEvents(c)' = OwnEvents(c) /\ At(c)' = At(c)
  BY <1>1 DEF OwnEvents, At
<1>3. TypeOK'
  BY DEF LeaseLapses, Inv, TypeOK
<1>4. OwnEvents(d) # {} /\ lapsed' = lapsed \cup {d}
  BY DEF LeaseLapses
<1>5. Rowed'
  BY <1>1, <1>2, <1>4 DEF Inv, Rowed
<1>6. Working' /\ Together' /\ Listed' /\ Attended' /\ ProcessedIsComplete' /\ OneFlowPerMessage'
  BY <1>1, <1>2 DEF Inv, Working, Together, Listed, Attended, ProcessedIsComplete,
                    OneFlowPerMessage
<1>7. overrun \subseteq overrun' /\ (At(d) # {} => d \in overrun')
  BY DEF LeaseLapses
<1>8. Leased'
  BY <1>1, <1>2, <1>4, <1>7 DEF Inv, Leased
<1> QED
  BY <1>3, <1>5, <1>6, <1>8 DEF Inv

--------------------------------------------------------------------------------
(* The specification                                                       *)

LEMMA InvInit == Init => Inv
<1> SUFFICES ASSUME Init PROVE Inv
  OBVIOUS
<1>1. \A d \in Deliveries : OwnEvents(d) = {} /\ At(d) = {}
  BY IdleRequest, NobodyApart DEF Init, OwnEvents, At
<1>2. TypeOK
  BY IdleRequest, IngestionAssumption
     DEF Init, TypeOK, Requests, DeliveryStatuses, RecordStatuses, IngestionAssumption
<1>3. Rowed
  BY <1>1 DEF Init, Rowed
<1>4. Working
  BY IdleRequest DEF Init, Working
<1>5. Together /\ Listed /\ OneFlowPerMessage
  BY DEF Init, Together, Listed, OneFlowPerMessage
<1>6. Attended /\ Leased /\ ProcessedIsComplete
  BY <1>1 DEF Init, Attended, Leased, ProcessedIsComplete
<1> QED
  BY <1>2, <1>3, <1>4, <1>5, <1>6 DEF Inv

LEMMA InvStep == Inv /\ [Next]_vars => Inv'
<1> SUFFICES ASSUME Inv, [Next]_vars PROVE Inv'
  OBVIOUS
<1>1. CASE UNCHANGED vars
  <2>1. \A c : OwnEvents(c)' = OwnEvents(c) /\ At(c)' = At(c)
    BY <1>1 DEF vars, OwnEvents, At
  <2> QED
    BY <1>1, <2>1 DEF vars, Inv, TypeOK, Rowed, Working, Together, Listed, Attended, Leased,
                      ProcessedIsComplete, OneFlowPerMessage
<1>2. ASSUME NEW d \in Deliveries, Receive(d) PROVE Inv'
  BY <1>2, ArrivesUnusable, ArrivesRouted, ArrivesToResume, ArrivesInVain DEF Receive
<1>3. ASSUME NEW d \in Deliveries, Repeat(d) \/ LeaseLapses(d) PROVE Inv'
  BY <1>3, ArrivesNeedlessly, TimePasses
<1>4. ASSUME NEW w \in Workers, WorkOn(w) \/ FailIngestion(w) \/ Crash(w) \/ GiveUp(w)
      PROVE  Inv'
  BY <1>4, ItemEnds, FlowFails, RequestOver, SenderGivesUp DEF WorkOn
<1> QED
  BY <1>1, <1>2, <1>3, <1>4 DEF Next

LEMMA InvHolds == Spec => []Inv
BY InvInit, InvStep, PTL DEF Spec

\* Every variable of webhook ingestion keeps its type.
THEOREM IngestionTypeCorrect == Spec => []TypeOK
<1>1. Inv => TypeOK
  BY DEF Inv
<1> QED
  BY <1>1, InvHolds, PTL

\* However deliveries overlap, are repeated and fail: one that is marked processed
\* has only concluded events, and a message is answered through one event.
THEOREM RecordsAgreeHolds == Spec => []RecordsAgree
<1>1. Inv => RecordsAgree
  BY DEF Inv, RecordsAgree
<1> QED
  BY <1>1, InvHolds, PTL

\* Two requests run the flow of one event only when a lease ran out under one.
THEOREM OneFlowUnlessOverrunHolds == Spec => []OneFlowUnlessOverrun
<1>1. Inv => OneFlowUnlessOverrun
  <2> SUFFICES ASSUME Inv, NEW v \in Workers, NEW w \in Workers, v # w,
                      NEW e \in worker[v].items \cap worker[w].items
               PROVE  worker[v].delivery \in overrun
    BY DEF OneFlowUnlessOverrun
  <2>1. owner[e] = worker[v].delivery /\ owner[e] = worker[w].delivery
    BY DEF Inv, Working, OwnEvents
  <2>2. worker[v] # Idle
    BY IdleRequest
  <2>3. worker[v].delivery \in Deliveries
    BY <2>2, AtWork
  <2> QED
    BY <2>1, <2>3 DEF Inv, Leased, At
<1> QED
  BY <1>1, InvHolds, PTL

\* What Meta has stopped sending was looked at, message by message.
THEOREM AcknowledgedIsHandledHolds == Spec => []AcknowledgedIsHandled
<1>1. Inv => AcknowledgedIsHandled
  BY DEF Inv, Attended, AcknowledgedIsHandled, At
<1> QED
  BY <1>1, InvHolds, PTL

\* No failure and no redelivery reopens a concluded event.
THEOREM ConcludedIsFinalHolds == Spec => ConcludedIsFinal
<1> DEFINE Step == \A e \in Events : record[e] \in Terminal => record'[e] = record[e]
<1>1. Inv /\ [Next]_vars => Step
  <2> SUFFICES ASSUME Inv, [Next]_vars, NEW e \in Events, record[e] \in Terminal
               PROVE  record'[e] = record[e]
    OBVIOUS
  <2>1. record[e] # "none" /\ record[e] # "pending" /\ record[e] # "failed"
    BY DEF Terminal
  <2>2. ASSUME NEW d \in Deliveries, NEW w \in Workers, NEW active \in BOOLEAN,
               IngestRouted(w, d, active)
        PROVE  record'[e] = record[e]
    <3>1. e \notin Fresh(d)
      BY <2>1 DEF Fresh, Inv, Rowed
    <3> QED
      BY <2>2, <3>1 DEF IngestRouted
  <2>3. ASSUME NEW d \in Deliveries, NEW w \in Workers, Resume(w, d)
        PROVE  record'[e] = record[e]
    BY <2>1, <2>3 DEF Resume, Resumable
  <2>4. ASSUME NEW w \in Workers, NEW x \in Events, CompleteItem(w, x)
        PROVE  record'[e] = record[e]
    BY <2>1, <2>4 DEF CompleteItem, Inv, TypeOK
  <2>5. ASSUME NEW w \in Workers, FailIngestion(w)
        PROVE  record'[e] = record[e]
    BY <2>1, <2>5 DEF FailIngestion, FailedRecords
  <2> QED
    BY <2>2, <2>3, <2>4, <2>5
       DEF Next, Receive, WorkOn, IngestMalformed, IngestUnrouted, AnswerDuplicate, Repeat,
           LeaseLapses, Acknowledge, Crash, GiveUp, vars
<1> QED
  BY <1>1, InvHolds, PTL DEF Spec, ConcludedIsFinal

================================================================================
