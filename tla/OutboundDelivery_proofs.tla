------------------------- MODULE OutboundDelivery_proofs -------------------------
(***************************************************************************)
(* The customer's side of OutboundDelivery, for any number of messages,    *)
(* workers and decisions: types, the accounting of copies, and the         *)
(* refinement of SendPermits.                                              *)
(***************************************************************************)
EXTENDS OutboundDelivery, FiniteSetTheorems, TLAPS

WorkerRecord == [pc : {"idle", "claimed", "loaded", "ready", "calling", "answered"},
                 msg : Messages \cup {NoMessage}, row : Row, claim : Nat, outcome : Outcomes]

\* TypeOK, with the set of a worker's records named.
TypeInv ==
    /\ row \in [Messages -> Row]
    /\ issued \in [Messages -> Nat]
    /\ lapsed \in [Messages -> Nat]
    /\ denials \in [Messages -> Nat]
    /\ vouched \subseteq Messages
    /\ called \in [Messages -> SUBSET Nat]
    /\ accepted \in [Messages -> SUBSET Nat]
    /\ refused \in [Messages -> SUBSET Nat]
    /\ crowd \in [Messages -> Nat]
    /\ worker \in [Workers -> WorkerRecord]
    /\ \A w \in Workers : worker[w].pc # "idle" => worker[w].msg \in Messages

--------------------------------------------------------------------------------
(* The metadata operators map rows to rows.                                *)

\* Whatever the outcome, recording it over a row gives a row that is neither
\* untouched nor open to a retry, and that counts as delivered if it says sent.
LEMMA DeliveryMetadataRow ==
    ASSUME NEW r \in Row, NEW o \in Outcomes
    PROVE  /\ DeliveryMetadata(r, o) \in Row
           /\ DeliveryMetadata(r, o).status = OutcomeStatus(o)
           /\ DeliveryMetadata(r, o).certainty = OutcomeCertainty(o)
           /\ DeliveryMetadata(r, o).attempt = r.attempt
           /\ DeliveryMetadata(r, o).safe = (o \in {"busy", "not_invoked"})
           /\ DeliveryMetadata(r, o).status # "none"
           /\ ~RetryEligible(DeliveryMetadata(r, o))
           /\ DeliveryMetadata(r, o).status = "sent" => AlreadyDelivered(DeliveryMetadata(r, o))
<1> DEFINE d == DeliveryMetadata(r, o)
<1>1. OutcomeStatus(o) \in {"pending", "sent", "failed"}
  BY DEF OutcomeStatus
<1>2. OutcomeCertainty(o) \in Certainties
  BY DEF OutcomeCertainty, FailureCertainty, Certainties
<1>3. d \in Row
  <2> DEFINE safe == o \in {"busy", "not_invoked"}
             pid == o = "accepted" \/ r.pid
             rc == IF o = "ambiguous" THEN "REQUIRED" ELSE "NOT_REQUIRED"
  <2>1. safe \in BOOLEAN /\ pid \in BOOLEAN
    OBVIOUS
  <2>2. rc \in ReconciliationStatuses /\ OutcomeStatus(o) \in Statuses
    BY <1>1 DEF ReconciliationStatuses, Statuses
  <2>3. d = [r EXCEPT !.status = OutcomeStatus(o), !.certainty = OutcomeCertainty(o),
                      !.recon = rc, !.safe = safe, !.pid = pid]
    BY Zenon DEF DeliveryMetadata
  <2> HIDE DEF safe, pid, rc, d
  <2> QED
    BY <1>2, <2>1, <2>2, <2>3 DEF Row
<1>4. d.status = OutcomeStatus(o) /\ d.certainty = OutcomeCertainty(o) /\ d.recon # "RESOLVED"
      /\ d.attempt = r.attempt /\ d.safe = (o \in {"busy", "not_invoked"})
  BY DEF DeliveryMetadata, Row
<1>5. ~RetryEligible(d)
  BY <1>4 DEF RetryEligible
<1>6. d.status = "sent" => AlreadyDelivered(d)
  BY <1>4 DEF AlreadyDelivered, OutcomeStatus, OutcomeCertainty
<1> QED
  BY <1>1, <1>3, <1>4, <1>5, <1>6

\* A marked row is pending and not open to a retry.
LEMMA AttemptMarkerRow ==
    ASSUME NEW r \in Row, NEW a \in Nat, NEW c \in {"REQUIRED", "IN_PROGRESS"}
    PROVE  /\ AttemptMarker(r, a, c) \in Row
           /\ AttemptMarker(r, a, c).status = "pending"
           /\ AttemptMarker(r, a, c).certainty = "DELIVERY_AMBIGUOUS"
           /\ AttemptMarker(r, a, c).attempt = a
           /\ ~RetryEligible(AttemptMarker(r, a, c))
  BY DEF AttemptMarker, Row, Statuses, Certainties, ReconciliationStatuses, RetryEligible

\* An operator's decision leaves a row that is not untouched; only the decision
\* that the message was not sent opens it to a retry.
LEMMA ReconciledRow ==
    ASSUME NEW r \in Row, NEW d \in Decisions
    PROVE  /\ Reconciled(r, d) \in Row
           /\ Reconciled(r, d).status # "none"
           /\ Reconciled(r, d).status = "sent" => AlreadyDelivered(Reconciled(r, d))
           /\ Reconciled(r, d).status = "sent" => d = "CONFIRM_SENT"
           /\ Reconciled(r, d).certainty = "SENT_CONFIRMED" => d = "CONFIRM_SENT"
           /\ Reconciled(r, d).certainty = "NOT_SENT_CONFIRMED" => Reconciled(r, d).recon = "RESOLVED"
           /\ Reconciled(r, d).certainty # "FAILED_CONFIRMED"
           /\ d # "CONFIRM_NOT_SENT" =>
                 /\ Reconciled(r, d).certainty # "NOT_SENT_CONFIRMED"
                 /\ ~RetryEligible(Reconciled(r, d))
<1>1. CASE d = "CONFIRM_SENT"
  BY <1>1 DEF Reconciled, Row, Statuses, Certainties, ReconciliationStatuses,
              AlreadyDelivered, RetryEligible
<1>2. CASE d = "CONFIRM_NOT_SENT"
  BY <1>2 DEF Reconciled, Row, Statuses, Certainties, ReconciliationStatuses, AlreadyDelivered
<1>3. CASE d = "LEAVE_UNRESOLVED"
  BY <1>3 DEF Reconciled, Row, Statuses, Certainties, ReconciliationStatuses,
              AlreadyDelivered, RetryEligible
<1> QED
  BY <1>1, <1>2, <1>3 DEF Decisions

LEMMA UntouchedRow ==
    /\ Untouched \in Row
    /\ \A s \in Statuses : Legacy(s) \in Row
    /\ Idle \in WorkerRecord
  BY DEF Untouched, Legacy, Idle, WorkerRecord, Row, Statuses, Certainties,
         ReconciliationStatuses, Outcomes

\* Only finitely many deliveries of a message are before their marker.
LEMMA StartersFinite ==
    \A m : IsFiniteSet(Starters(m)) /\ Cardinality(Starters(m)) \in Nat
<1> TAKE m
<1>1. Starters(m) \in SUBSET Workers
  BY DEF Starters
<1>2. IsFiniteSet(Starters(m))
  BY <1>1, DeliveryAssumption, FS_Subset
<1> QED
  BY <1>2, FS_CardinalityType

--------------------------------------------------------------------------------

\* Every reachable state of delivery is well typed: no interleaving of workers,
\* operators, crashes and late answers leaves metadata that no reader knows.
THEOREM TypeCorrect == Spec => []TypeOK
<1>1. TypeInv <=> TypeOK
  BY DEF TypeInv, TypeOK, WorkerRecord
<1>2. Init => TypeInv
  <2> SUFFICES ASSUME Init PROVE TypeInv
    OBVIOUS
  <2>1. row \in [Messages -> Row]
    BY UntouchedRow DEF Init, Statuses
  <2>2. issued \in [Messages -> Nat]
    BY DEF Init
  <2>3. called \in [Messages -> SUBSET Nat] /\ accepted \in [Messages -> SUBSET Nat]
    BY <2>2 DEF Init
  <2>4. refused \in [Messages -> SUBSET Nat] /\ lapsed \in [Messages -> Nat]
        /\ denials \in [Messages -> Nat] /\ vouched \subseteq Messages
        /\ crowd \in [Messages -> Nat]
    BY DEF Init
  <2>5. worker \in [Workers -> WorkerRecord] /\ \A w \in Workers : worker[w].pc = "idle"
    BY UntouchedRow DEF Init, Idle
  <2> QED
    BY <2>1, <2>2, <2>3, <2>4, <2>5 DEF TypeInv
<1>3. TypeInv /\ [Next]_vars => TypeInv'
  <2> SUFFICES ASSUME TypeInv, [Next]_vars PROVE TypeInv'
    OBVIOUS
  <2> USE DEF TypeInv
  <2>1. ASSUME NEW w \in Workers, NEW m \in Messages, Load(w, m) PROVE TypeInv'
    <3>1. crowd' \in [Messages -> Nat]
      BY <2>1, StartersFinite DEF Load
    <3> QED
      BY <2>1, <3>1, UntouchedRow DEF Load, Idle, WorkerRecord
  <2>2. ASSUME NEW w \in Workers, ResumeClaim(w) PROVE TypeInv'
    BY <2>2, UntouchedRow DEF ResumeClaim, Idle, WorkerRecord
  <2>3. ASSUME NEW w \in Workers, NoConnection(w) PROVE TypeInv'
    <3>1. DeliveryMetadata(worker[w].row, "not_invoked") \in Row
      BY DeliveryMetadataRow DEF WorkerRecord, Outcomes
    <3> QED
      BY <2>3, <3>1, UntouchedRow DEF NoConnection, Idle
  <2>4. ASSUME NEW w \in Workers, Mark(w) PROVE TypeInv'
    <3>1. worker[w].msg \in Messages /\ worker[w].row \in Row
      BY <2>4 DEF Mark, WorkerRecord
    <3> DEFINE a == issued[worker[w].msg] + 1
               marked == AttemptMarker(worker[w].row, a, "REQUIRED")
    <3>2. a \in Nat
      BY <3>1
    <3>3. marked \in Row
      BY <3>1, <3>2, AttemptMarkerRow
    <3>4. [worker[w] EXCEPT !.pc = "ready", !.row = marked] \in WorkerRecord
      BY <3>3 DEF WorkerRecord
    <3>5. /\ issued' = [issued EXCEPT ![worker[w].msg] = a]
          /\ row' = [row EXCEPT ![worker[w].msg] = marked]
          /\ worker' = [worker EXCEPT ![w] = [worker[w] EXCEPT !.pc = "ready", !.row = marked]]
          /\ UNCHANGED <<lapsed, denials, vouched, called, accepted, refused, crowd>>
      BY <2>4 DEF Mark
    <3> HIDE DEF a, marked
    <3> QED
      BY <3>1, <3>2, <3>3, <3>4, <3>5
  <2>5. ASSUME NEW w \in Workers, KeepClaim(w) PROVE TypeInv'
    BY <2>5 DEF KeepClaim, WorkerRecord
  <2>6. ASSUME NEW w \in Workers, NotInvoked(w) PROVE TypeInv'
    <3>1. [worker[w] EXCEPT !.pc = "answered", !.outcome = "not_invoked"] \in WorkerRecord
      BY DEF WorkerRecord, Outcomes
    <3> QED
      BY <2>6, <3>1 DEF NotInvoked
  <2>7. ASSUME NEW w \in Workers, Call(w) PROVE TypeInv'
    <3>1. worker[w].msg \in Messages /\ worker[w].row.attempt \in Nat
      BY <2>7 DEF Call, WorkerRecord, Row
    <3> QED
      BY <2>7, <3>1 DEF Call, WorkerRecord
  <2>8. ASSUME NEW w \in Workers, NEW o \in {"accepted", "ambiguous", "busy", "refused"},
               Answer(w, o)
        PROVE  TypeInv'
    <3>1. worker[w].msg \in Messages /\ worker[w].row.attempt \in Nat
      BY <2>8 DEF Answer, WorkerRecord, Row
    <3>2. [worker[w] EXCEPT !.pc = "answered", !.outcome = o] \in WorkerRecord
      BY DEF WorkerRecord, Outcomes
    <3> QED
      BY <2>8, <3>1, <3>2 DEF Answer
  <2>9. ASSUME NEW w \in Workers, Record(w) PROVE TypeInv'
    <3>1. DeliveryMetadata(worker[w].row, worker[w].outcome) \in Row
      BY DeliveryMetadataRow DEF WorkerRecord
    <3> QED
      BY <2>9, <3>1, UntouchedRow DEF Record, Idle
  <2>10. ASSUME NEW w \in Workers, Crash(w) PROVE TypeInv'
    BY <2>10, UntouchedRow DEF Crash, Idle
  <2>11. ASSUME NEW w \in Workers, NEW m \in Messages, Retry(w, m) PROVE TypeInv'
    <3> DEFINE a == issued[m] + 1
               marked == AttemptMarker(row[m], a, "IN_PROGRESS")
               taken == [Idle EXCEPT !.pc = "claimed", !.msg = m, !.claim = a]
    <3>1. a \in Nat
      OBVIOUS
    <3>2. marked \in Row
      BY <3>1, AttemptMarkerRow
    <3>3. taken \in WorkerRecord /\ taken.msg = m
      BY <3>1, UntouchedRow DEF Idle, WorkerRecord
    <3>4. /\ issued' = [issued EXCEPT ![m] = a]
          /\ row' = [row EXCEPT ![m] = marked]
          /\ worker' = [worker EXCEPT ![w] = taken]
          /\ UNCHANGED <<lapsed, denials, vouched, called, accepted, refused, crowd>>
      BY <2>11 DEF Retry
    <3> HIDE DEF a, marked, taken
    <3> QED
      BY <3>1, <3>2, <3>3, <3>4
  <2>12. ASSUME NEW m \in Messages, NEW d \in Decisions, Reconcile(m, d) PROVE TypeInv'
    BY <2>12, ReconciledRow DEF Reconcile
  <2>13. ASSUME NEW m \in Messages, NEW a \in called[m], ProviderAccepts(m, a) PROVE TypeInv'
    BY <2>13 DEF ProviderAccepts
  <2>14. ASSUME NEW m \in Messages, LeaseLapses(m) PROVE TypeInv'
    BY <2>14 DEF LeaseLapses
  <2>15. CASE UNCHANGED vars
    BY <2>15 DEF vars
  <2> QED
    BY <2>1, <2>2, <2>3, <2>4, <2>5, <2>6, <2>7, <2>8, <2>9, <2>10, <2>11, <2>12, <2>13,
       <2>14, <2>15 DEF Next, WorkerStep, MessageStep
<1> QED
  BY <1>1, <1>2, <1>3, PTL DEF Spec

--------------------------------------------------------------------------------
(* Who owns an attempt                                                     *)

\* The attempts of a reachable state were all issued, and each has one owner.
LEMMA OwnershipInit == Init => Ownership
<1> SUFFICES ASSUME Init PROVE Ownership
  OBVIOUS
<1>1. \A w \in Workers : worker[w].pc = "idle" /\ worker[w].claim = 0
  BY DEF Init, Idle
<1>2. AttemptsTaken /\ AttemptsDistinct
  BY <1>1 DEF AttemptsTaken, AttemptsDistinct
<1>3. ASSUME NEW m \in Messages
      PROVE  accepted[m] \subseteq called[m] /\ called[m] \subseteq 1 .. issued[m]
  <2>1. called[m] = 1 .. issued[m]
    BY DEF Init
  <2>2. CASE row[m].status = "none" \/ row[m].status = "failed"
    BY <2>1, <2>2 DEF Init
  <2>3. CASE row[m].status \notin {"none", "failed"}
    <3>1. issued[m] = 1
      BY <2>3 DEF Init
    <3>2. accepted[m] \in SUBSET {1}
      BY DEF Init
    <3> QED
      BY <2>1, <3>1, <3>2
  <2> QED
    BY <2>2, <2>3
<1> QED
  BY <1>2, <1>3 DEF Ownership, RequestsIssued

\* No step gives an attempt a second owner or calls Meta twice under one.
LEMMA OwnershipStep == TypeInv /\ Ownership /\ [Next]_vars => Ownership'
<1> SUFFICES ASSUME TypeInv, Ownership, [Next]_vars PROVE Ownership'
  OBVIOUS
<1> USE DEF Ownership
<1> DEFINE Same(w) == worker' = [worker EXCEPT ![w] = worker'[w]]
<1>1. ASSUME NEW w \in Workers, NEW m \in Messages, Load(w, m) PROVE Ownership'
  <2>1. worker'[w].pc = "loaded" /\ worker'[w].claim = 0 /\ Same(w)
    BY <1>1 DEF Load, Idle, TypeInv
  <2>2. UNCHANGED <<issued, called, accepted>>
    BY <1>1 DEF Load
  <2> QED
    BY <2>1, <2>2 DEF RequestsIssued, AttemptsTaken, AttemptsDistinct, AttemptOf, TypeInv
<1>2. ASSUME NEW w \in Workers, ResumeClaim(w) PROVE Ownership'
  <2>1. UNCHANGED <<issued, called, accepted>>
    BY <1>2 DEF ResumeClaim
  <2>2. CASE ClaimedRetry(row[worker[w].msg], worker[w].claim)
    <3>1. /\ worker[w].pc = "claimed" /\ worker'[w].pc = "loaded"
          /\ worker'[w].claim = worker[w].claim /\ worker'[w].msg = worker[w].msg
          /\ worker'[w].row.attempt = worker[w].claim
          /\ \A v \in Workers \ {w} : worker'[v] = worker[v]
      BY <1>2, <2>2 DEF ResumeClaim, ClaimedRetry, TypeInv, WorkerRecord
    <3> QED
      BY <2>1, <3>1 DEF RequestsIssued, AttemptsTaken, AttemptsDistinct, AttemptOf
  <2>3. CASE ~ClaimedRetry(row[worker[w].msg], worker[w].claim)
    <3>1. worker'[w].pc = "idle" /\ \A v \in Workers \ {w} : worker'[v] = worker[v]
      BY <1>2, <2>3 DEF ResumeClaim, Idle, TypeInv
    <3> QED
      BY <2>1, <3>1 DEF RequestsIssued, AttemptsTaken, AttemptsDistinct, AttemptOf
  <2> QED
    BY <2>2, <2>3
<1>3. ASSUME NEW w \in Workers, NoConnection(w) \/ Record(w) \/ Crash(w) PROVE Ownership'
  <2>1. worker'[w].pc = "idle" /\ \A v \in Workers \ {w} : worker'[v] = worker[v]
    BY <1>3 DEF NoConnection, Record, Crash, Idle, TypeInv
  <2>2. UNCHANGED <<issued, called, accepted>>
    BY <1>3 DEF NoConnection, Record, Crash
  <2> QED
    BY <2>1, <2>2 DEF RequestsIssued, AttemptsTaken, AttemptsDistinct, AttemptOf
<1>4. ASSUME NEW w \in Workers, Mark(w) PROVE Ownership'
  <2> DEFINE m == worker[w].msg
             a == issued[m] + 1
  <2>1. m \in Messages /\ a \in Nat /\ a # 0 /\ worker[w].row \in Row
    BY <1>4 DEF Mark, TypeInv, WorkerRecord
  <2>2. /\ worker'[w].pc = "ready" /\ worker'[w].msg = m /\ worker'[w].row.attempt = a
        /\ \A v \in Workers \ {w} : worker'[v] = worker[v]
    <3> DEFINE marked == AttemptMarker(worker[w].row, a, "REQUIRED")
    <3>1. marked.attempt = a
      BY <2>1, AttemptMarkerRow
    <3>2. worker' = [worker EXCEPT ![w].pc = "ready", ![w].row = marked]
      BY <1>4 DEF Mark
    <3> HIDE DEF marked
    <3> QED
      BY <3>1, <3>2 DEF TypeInv, WorkerRecord
  <2>3. issued' = [issued EXCEPT ![m] = a] /\ UNCHANGED <<called, accepted>>
    BY <1>4 DEF Mark
  <2>4. a \notin called[m] /\ \A k \in 1 .. issued[m] : k # a /\ k \in 1 .. a
    BY <2>1 DEF RequestsIssued, TypeInv
  <2>5. RequestsIssued'
    BY <2>1, <2>3, <2>4 DEF RequestsIssued, TypeInv
  <2>6. AttemptsTaken'
    <3>1. ASSUME NEW v \in Workers \ {w}, worker[v].pc # "idle", AttemptOf(v) # 0
          PROVE  AttemptOf(v) \in 1 .. issued'[worker[v].msg]
      <4>1. AttemptOf(v) \in 1 .. issued[worker[v].msg] /\ worker[v].msg \in Messages
        BY <3>1 DEF AttemptsTaken, TypeInv
      <4> QED
        BY <2>1, <2>3, <2>4, <4>1 DEF TypeInv
    <3>2. \A v \in Workers \ {w} : AttemptOf(v)' = AttemptOf(v)
      BY <2>2 DEF AttemptOf
    <3>3. AttemptOf(w)' = a /\ a \in 1 .. issued'[m] /\ a \notin called'[m]
      BY <2>1, <2>2, <2>3, <2>4 DEF AttemptOf, TypeInv
    <3> HIDE DEF m, a
    <3> QED
      BY <2>1, <2>2, <2>3, <3>1, <3>2, <3>3 DEF AttemptsTaken
  <2>7. AttemptsDistinct'
    BY <2>1, <2>2, <2>4 DEF AttemptsDistinct, AttemptsTaken, AttemptOf
  <2> QED
    BY <2>5, <2>6, <2>7
<1>5. ASSUME NEW w \in Workers, KeepClaim(w) PROVE Ownership'
  <2>1. /\ worker[w].pc = "loaded" /\ worker'[w].pc = "ready"
        /\ worker[w].claim # 0 /\ worker'[w].msg = worker[w].msg
        /\ worker'[w].row = worker[w].row /\ UNCHANGED <<issued, called, accepted>>
        /\ \A v \in Workers \ {w} : worker'[v] = worker[v]
    BY <1>5 DEF KeepClaim, TypeInv, WorkerRecord
  <2>2. worker[w].row.attempt = worker[w].claim
    BY <2>1 DEF AttemptsTaken
  <2> QED
    BY <2>1, <2>2 DEF RequestsIssued, AttemptsTaken, AttemptsDistinct, AttemptOf
<1>6. ASSUME NEW w \in Workers, NotInvoked(w) PROVE Ownership'
  <2>1. /\ worker[w].pc = "ready" /\ worker'[w].pc = "answered"
        /\ worker'[w].msg = worker[w].msg /\ worker'[w].row = worker[w].row
        /\ UNCHANGED <<issued, called, accepted>>
        /\ \A v \in Workers \ {w} : worker'[v] = worker[v]
    BY <1>6 DEF NotInvoked, TypeInv, WorkerRecord
  <2> QED
    BY <2>1 DEF RequestsIssued, AttemptsTaken, AttemptsDistinct, AttemptOf
<1>7. ASSUME NEW w \in Workers, Call(w) PROVE Ownership'
  <2> DEFINE m == worker[w].msg
             a == worker[w].row.attempt
  <2>1. /\ worker[w].pc = "ready" /\ worker'[w].pc = "calling"
        /\ worker'[w].msg = m /\ worker'[w].row = worker[w].row
        /\ called' = [called EXCEPT ![m] = @ \cup {a}] /\ UNCHANGED <<issued, accepted>>
        /\ \A v \in Workers \ {w} : worker'[v] = worker[v]
    BY <1>7 DEF Call, TypeInv, WorkerRecord
  <2>2. m \in Messages /\ a \in 1 .. issued[m]
    BY <2>1 DEF TypeInv, AttemptsTaken, AttemptOf
  <2>3. RequestsIssued'
    BY <2>1, <2>2 DEF RequestsIssued, TypeInv
  <2>4. AttemptsDistinct'
    BY <2>1 DEF AttemptsDistinct, AttemptOf
  <2>5. ASSUME NEW v \in Workers \ {w}, worker[v].pc # "idle", AttemptOf(v) # 0
        PROVE  worker[v].msg = m => AttemptOf(v) # a
    BY <2>1, <2>5 DEF AttemptsDistinct, AttemptOf
  <2>6. ASSUME NEW v \in Workers, worker'[v].pc # "idle", AttemptOf(v)' # 0,
               worker'[v].pc \in {"claimed", "loaded", "ready"}
        PROVE  AttemptOf(v)' \notin called'[worker'[v].msg]
    <3>1. v # w /\ worker'[v] = worker[v] /\ AttemptOf(v)' = AttemptOf(v)
      BY <2>1, <2>6 DEF AttemptOf
    <3>2. AttemptOf(v) \notin called[worker[v].msg] /\ worker[v].msg \in Messages
      BY <2>6, <3>1 DEF AttemptsTaken, TypeInv
    <3> QED
      BY <2>1, <2>5, <2>6, <3>1, <3>2 DEF TypeInv
  <2>7. AttemptsTaken'
    BY <2>1, <2>2, <2>6 DEF AttemptsTaken, AttemptOf
  <2> QED
    BY <2>3, <2>4, <2>7
<1>8. ASSUME NEW w \in Workers, NEW o \in {"accepted", "ambiguous", "busy", "refused"},
             Answer(w, o)
      PROVE  Ownership'
  <2>1. /\ worker[w].pc = "calling" /\ worker'[w].pc = "answered"
        /\ worker'[w].msg = worker[w].msg /\ worker'[w].row = worker[w].row
        /\ UNCHANGED <<issued, called, accepted>>
        /\ \A v \in Workers \ {w} : worker'[v] = worker[v]
    BY <1>8 DEF Answer, TypeInv, WorkerRecord
  <2> QED
    BY <2>1 DEF RequestsIssued, AttemptsTaken, AttemptsDistinct, AttemptOf
<1>9. ASSUME NEW w \in Workers, NEW m \in Messages, Retry(w, m) PROVE Ownership'
  <2> DEFINE a == issued[m] + 1
  <2>1. a \in Nat /\ a # 0 /\ a \notin called[m]
        /\ \A k \in 1 .. issued[m] : k # a /\ k \in 1 .. a
    BY DEF RequestsIssued, TypeInv
  <2>2. /\ worker'[w].pc = "claimed" /\ worker'[w].msg = m /\ worker'[w].claim = a
        /\ \A v \in Workers \ {w} : worker'[v] = worker[v]
    BY <1>9 DEF Retry, Idle, TypeInv
  <2>3. issued' = [issued EXCEPT ![m] = a] /\ UNCHANGED <<called, accepted>>
    BY <1>9 DEF Retry
  <2>4. RequestsIssued'
    BY <2>1, <2>3 DEF RequestsIssued, TypeInv
  <2>5. AttemptsTaken'
    BY <2>1, <2>2, <2>3 DEF AttemptsTaken, AttemptOf, TypeInv
  <2>6. AttemptsDistinct'
    BY <2>1, <2>2 DEF AttemptsDistinct, AttemptsTaken, AttemptOf
  <2> QED
    BY <2>4, <2>5, <2>6
<1>10. ASSUME NEW m \in Messages, NEW d \in Decisions, Reconcile(m, d) PROVE Ownership'
  BY <1>10 DEF Reconcile, RequestsIssued, AttemptsTaken, AttemptsDistinct, AttemptOf
<1>11. ASSUME NEW m \in Messages, NEW a \in called[m], ProviderAccepts(m, a) PROVE Ownership'
  BY <1>11 DEF ProviderAccepts, RequestsIssued, AttemptsTaken, AttemptsDistinct, AttemptOf, TypeInv
<1>12. ASSUME NEW m \in Messages, LeaseLapses(m) PROVE Ownership'
  BY <1>12 DEF LeaseLapses, RequestsIssued, AttemptsTaken, AttemptsDistinct, AttemptOf
<1>13. CASE UNCHANGED vars
  BY <1>13 DEF vars, RequestsIssued, AttemptsTaken, AttemptsDistinct, AttemptOf
<1> QED
  BY <1>1, <1>2, <1>3, <1>4, <1>5, <1>6, <1>7, <1>8, <1>9, <1>10, <1>11, <1>12, <1>13
     DEF Next, WorkerStep, MessageStep

\* An attempt has one owner, and the owner calls Meta at most once under it,
\* whatever leases lapse and whoever decides or retries meanwhile.
THEOREM OneSendOwnerHolds == Spec => []OneSendOwner
<1>1. TypeInv <=> TypeOK
  BY DEF TypeInv, TypeOK, WorkerRecord
<1>2. Ownership => OneSendOwner
  BY DEF Ownership, AttemptsTaken, AttemptsDistinct, OneSendOwner
<1> QED
  BY <1>1, <1>2, TypeCorrect, OwnershipInit, OwnershipStep, PTL DEF Spec

--------------------------------------------------------------------------------
(* Where the copies come from                                              *)

\* A new row has its one permit, and no legacy row has any.
LEMMA AccountsInit == Init => Accounts
<1> SUFFICES ASSUME Init PROVE Accounts
  OBVIOUS
<1>1. \A m \in Messages : Starters(m) = {}
  BY DEF Init, Idle, Starting, Starters
<1> DEFINE Born(r) == /\ r.recon # "RESOLVED" /\ (r.status = "sent" => r.pid)
                      /\ r.status = "none" => r = Untouched
<1>2. \A m \in Messages : Born(row[m])
  <2>1. Born(Untouched)
    BY DEF Untouched
  <2>2. Born(Legacy("pending")) /\ Born(Legacy("sent")) /\ Born(Legacy("failed"))
    BY DEF Untouched, Legacy
  <2>3. \A m \in Messages :
           row[m] \in {Untouched, Legacy("pending"), Legacy("sent"), Legacy("failed")}
    BY DEF Init
  <2> HIDE DEF Born
  <2> QED
    BY <2>1, <2>2, <2>3
<1>3. \A m \in Messages : ~RetryEligible(row[m]) /\ (row[m].status = "sent" => row[m].pid)
  BY <1>2 DEF RetryEligible
<1>4. Fresh
  BY <1>2 DEF Fresh, Init
<1> HIDE DEF Born
<1>5. ASSUME NEW m \in Messages
      PROVE  /\ issued[m] + Cardinality(Starters(m)) + (IF RetryEligible(row[m]) THEN 1 ELSE 0)
                    <= denials[m] + Allowance(m)
             /\ Cardinality(Starters(m)) <= crowd[m]
  <2>1. /\ issued[m] = (IF row[m].status = "none" THEN 0 ELSE 1)
        /\ denials[m] = 0 /\ crowd[m] = 0
    BY DEF Init
  <2>2. Cardinality(Starters(m)) = 0
    BY <1>1, FS_EmptySet
  <2> QED
    BY <1>3, <2>1, <2>2 DEF Allowance
<1> QED
  BY <1>3, <1>4, <1>5 DEF Accounts, CrowdCounted, PermitsBalance, SentIsFinal, AlreadyDelivered

\* A step under which no worker begins has no more deliveries before their marker.
LEMMA NoMoreStarters ==
    ASSUME \A v \in Workers, n \in Messages : Starting(v, n)' => Starting(v, n)
    PROVE  \A n \in Messages :
              /\ Cardinality(Starters(n)) \in Nat
              /\ Cardinality(Starters(n))' \in Nat
              /\ Cardinality(Starters(n))' <= Cardinality(Starters(n))
<1> TAKE n \in Messages
<1>1. PICK S : S = Starters(n)
  OBVIOUS
<1>2. PICK T : T = Starters(n)'
  OBVIOUS
<1>3. T \in SUBSET S
  BY <1>1, <1>2 DEF Starters
<1>4. IsFiniteSet(S)
  BY <1>1, StartersFinite
<1>5. IsFiniteSet(T) /\ Cardinality(T) <= Cardinality(S)
  BY <1>3, <1>4, FS_Subset
<1>6. Cardinality(S) \in Nat /\ Cardinality(T) \in Nat
  BY <1>4, <1>5, FS_CardinalityType
<1> QED
  BY <1>1, <1>2, <1>5, <1>6

\* A step that changes only workers, and lets none begin, keeps the accounts.
LEMMA AccountsOfWorkers ==
    ASSUME TypeInv, Accounts, UNCHANGED <<row, issued, denials, crowd>>,
           \A v \in Workers, m \in Messages : Starting(v, m)' => Starting(v, m)
    PROVE  Accounts'
<1>1. \A m \in Messages :
         /\ Cardinality(Starters(m)) \in Nat /\ Cardinality(Starters(m))' \in Nat
         /\ Cardinality(Starters(m))' <= Cardinality(Starters(m))
  BY NoMoreStarters
<1>2. \A m \in Messages : Allowance(m)' = Allowance(m) /\ Allowance(m) \in Nat
  BY DEF Allowance, TypeInv
<1>3. PermitsBalance'
  BY <1>1, <1>2 DEF Accounts, PermitsBalance, TypeInv
<1>4. CrowdCounted'
  BY <1>1 DEF Accounts, CrowdCounted, TypeInv
<1> QED
  BY <1>3, <1>4 DEF Accounts, Fresh, SentIsFinal

\* A step that rewrites the row of m, lets no worker begin, and leaves m closed
\* to a retry keeps the accounts.
LEMMA AccountsOfRow ==
    ASSUME TypeInv, Accounts, UNCHANGED <<issued, denials, crowd>>,
           NEW m \in Messages, NEW r \in Row, row' = [row EXCEPT ![m] = r],
           r.status # "none", ~RetryEligible(r), r.status = "sent" => AlreadyDelivered(r),
           \A v \in Workers, n \in Messages : Starting(v, n)' => Starting(v, n)
    PROVE  Accounts'
<1>1. \A n \in Messages :
         /\ Cardinality(Starters(n)) \in Nat /\ Cardinality(Starters(n))' \in Nat
         /\ Cardinality(Starters(n))' <= Cardinality(Starters(n))
  BY NoMoreStarters
<1>2. \A n \in Messages : Allowance(n)' = Allowance(n) /\ Allowance(n) \in Nat
  BY DEF Allowance, TypeInv
<1>3. \A n \in Messages : RetryEligible(row'[n]) => RetryEligible(row[n])
  BY DEF TypeInv
<1>4. PermitsBalance'
  BY <1>1, <1>2, <1>3 DEF Accounts, PermitsBalance, TypeInv
<1>5. CrowdCounted'
  BY <1>1 DEF Accounts, CrowdCounted, TypeInv
<1>6. SentIsFinal' /\ Fresh'
  BY DEF Accounts, SentIsFinal, Fresh, TypeInv
<1> QED
  BY <1>4, <1>5, <1>6 DEF Accounts

\* A delivery begins on a row that nobody has touched and no attempt was made of.
LEMMA LoadsUntouched ==
    ASSUME TypeInv, Accounts, NEW w \in Workers, NEW m \in Messages, Load(w, m)
    PROVE  row[m].status = "none" /\ row[m] = Untouched /\ issued[m] = 0
<1>1. row[m].status \in Statuses
  BY DEF TypeInv, Row
<1>2. row[m].status = "none"
  BY <1>1 DEF Load, Accounts, SentIsFinal, Statuses
<1> QED
  BY <1>2 DEF Accounts, Fresh

\* A delivery that begins is one more before its marker, and the crowd counts it.
LEMMA LoadCounts ==
    ASSUME TypeInv, Accounts, NEW w \in Workers, NEW m \in Messages, Load(w, m)
    PROVE  /\ Starters(m)' = Starters(m) \cup {w}
           /\ Cardinality(Starters(m)) \in Nat
           /\ Cardinality(Starters(m))' = Cardinality(Starters(m)) + 1
           /\ crowd'[m] \in Nat
           /\ crowd'[m] >= Cardinality(Starters(m)) + 1
           /\ crowd'[m] = crowd[m] \/ crowd'[m] = crowd[m] + 1
           /\ \A n \in Messages \ {m} :
                 Starters(n)' = Starters(n) /\ crowd'[n] = crowd[n]
<1>1. /\ worker[w].pc = "idle"
      /\ worker'[w].pc = "loaded" /\ worker'[w].claim = 0 /\ worker'[w].msg = m
      /\ \A v \in Workers \ {w} : worker'[v] = worker[v]
  BY DEF Load, Idle, TypeInv
<1>2. \A v \in Workers, n \in Messages :
         Starting(v, n)' <=> Starting(v, n) \/ (v = w /\ n = m)
  BY <1>1 DEF Starting
<1>3. Starters(m)' = Starters(m) \cup {w} /\ w \notin Starters(m)
  BY <1>1, <1>2 DEF Starters, Starting
<1>4. \A n \in Messages \ {m} : Starters(n)' = Starters(n)
  BY <1>2 DEF Starters
<1>5. PICK S : S = Starters(m)
  OBVIOUS
<1>6. IsFiniteSet(S) /\ Cardinality(S) \in Nat
  BY <1>5, StartersFinite
<1>7. Cardinality(S \cup {w}) = Cardinality(S) + 1
  <2>1. w \notin S
    BY <1>3, <1>5
  <2>2. Cardinality(S \cup {w}) = IF w \in S THEN Cardinality(S) ELSE Cardinality(S) + 1
    BY <1>6, FS_AddElement, Zenon
  <2> QED
    BY <2>1, <2>2
<1>8. crowd' = [crowd EXCEPT ![m] = IF Cardinality(S) + 1 > crowd[m]
                                      THEN Cardinality(S) + 1 ELSE crowd[m]]
  BY <1>5 DEF Load
<1>9. Cardinality(S) <= crowd[m] /\ crowd[m] \in Nat
  BY <1>5 DEF Accounts, CrowdCounted, TypeInv
<1>10. /\ crowd'[m] = IF Cardinality(S) + 1 > crowd[m] THEN Cardinality(S) + 1 ELSE crowd[m]
       /\ \A n \in Messages \ {m} : crowd'[n] = crowd[n]
  BY <1>8 DEF TypeInv
<1>11. /\ crowd'[m] \in Nat /\ crowd'[m] >= Cardinality(S) + 1
       /\ crowd'[m] = crowd[m] \/ crowd'[m] = crowd[m] + 1
  BY <1>6, <1>9, <1>10
<1> QED
  BY <1>3, <1>4, <1>5, <1>6, <1>7, <1>10, <1>11

\* Every attempt, and every delivery that may still mark one, is paid for by the
\* allowance of its message or by a denial.
LEMMA AccountsStep == TypeInv /\ Ownership /\ Accounts /\ [Next]_vars => Accounts'
<1> SUFFICES ASSUME TypeInv, Ownership, Accounts, [Next]_vars PROVE Accounts'
  OBVIOUS
<1>1. ASSUME NEW w \in Workers, NEW m \in Messages, Load(w, m) PROVE Accounts'
  <2>1. UNCHANGED <<row, issued, denials>>
    BY <1>1 DEF Load
  <2>2. issued[m] = 0 /\ ~RetryEligible(row[m])
    BY <1>1, LoadsUntouched DEF RetryEligible, Untouched
  <2>3. PICK k : k = Cardinality(Starters(m))
    OBVIOUS
  <2>4. /\ k \in Nat /\ Cardinality(Starters(m))' = k + 1
        /\ crowd'[m] \in Nat /\ crowd'[m] >= k + 1
        /\ \A n \in Messages \ {m} : Starters(n)' = Starters(n) /\ crowd'[n] = crowd[n]
    BY <1>1, <2>3, LoadCounts
  <2>5. CrowdCounted'
    <3>1. \A n \in Messages \ {m} : Cardinality(Starters(n))' = Cardinality(Starters(n))
      BY <2>4
    <3> QED
      BY <2>4, <3>1 DEF Accounts, CrowdCounted
  <2>6. PermitsBalance'
    <3>1. issued[m] + (k + 1) + 0 <= denials[m] + Allowance(m)'
      BY <2>2, <2>4 DEF Allowance, TypeInv
    <3>2. ASSUME NEW n \in Messages \ {m}
          PROVE  Cardinality(Starters(n))' = Cardinality(Starters(n)) /\ Allowance(n)' = Allowance(n)
      BY <2>4 DEF Allowance
    <3> QED
      BY <2>1, <2>2, <2>4, <3>1, <3>2 DEF Accounts, PermitsBalance
  <2> QED
    BY <2>1, <2>5, <2>6 DEF Accounts, Fresh, SentIsFinal
<1>2. ASSUME NEW w \in Workers, ResumeClaim(w) PROVE Accounts'
  <2>1. worker[w].claim # 0
    BY <1>2 DEF ResumeClaim, Ownership, AttemptsTaken, AttemptOf
  <2>2. /\ worker'[w].claim # 0 \/ worker'[w].pc = "idle"
        /\ \A v \in Workers \ {w} : worker'[v] = worker[v]
    <3>1. CASE ClaimedRetry(row[worker[w].msg], worker[w].claim)
      <4>1. worker' = [worker EXCEPT ![w].pc = "loaded", ![w].row = row[worker[w].msg]]
        BY <1>2, <3>1 DEF ResumeClaim
      <4> QED
        BY <2>1, <4>1 DEF TypeInv, WorkerRecord
    <3>2. CASE ~ClaimedRetry(row[worker[w].msg], worker[w].claim)
      <4>1. worker' = [worker EXCEPT ![w] = Idle]
        BY <1>2, <3>2 DEF ResumeClaim
      <4> QED
        BY <4>1 DEF Idle, TypeInv
    <3> QED
      BY <3>1, <3>2
  <2>3. \A v \in Workers, m \in Messages : Starting(v, m)' => Starting(v, m)
    BY <2>2 DEF Starting
  <2>4. UNCHANGED <<row, issued, denials, crowd>>
    BY <1>2 DEF ResumeClaim
  <2> QED
    BY <2>3, <2>4, AccountsOfWorkers
<1>3. ASSUME NEW w \in Workers, NoConnection(w) PROVE Accounts'
  <2> DEFINE m == worker[w].msg
             r == DeliveryMetadata(worker[w].row, "not_invoked")
  <2>1. m \in Messages /\ worker[w].row \in Row /\ "not_invoked" \in Outcomes
    BY <1>3 DEF NoConnection, TypeInv, WorkerRecord, Outcomes
  <2>2. r \in Row /\ r.status # "none" /\ ~RetryEligible(r)
        /\ (r.status = "sent" => AlreadyDelivered(r))
    BY <2>1, DeliveryMetadataRow
  <2>3. row' = [row EXCEPT ![m] = r] /\ UNCHANGED <<issued, denials, crowd>>
    BY <1>3 DEF NoConnection
  <2>4. \A v \in Workers, n \in Messages : Starting(v, n)' => Starting(v, n)
    BY <1>3 DEF NoConnection, Starting, Idle, TypeInv
  <2> HIDE DEF m, r
  <2> QED
    BY <2>1, <2>2, <2>3, <2>4, AccountsOfRow
<1>4. ASSUME NEW w \in Workers, NEW m \in Messages, m = worker[w].msg, Mark(w) PROVE Accounts'
  <2> DEFINE a == issued[m] + 1
             r == AttemptMarker(worker[w].row, a, "REQUIRED")
  <2>1. worker[w].row \in Row /\ a \in Nat /\ Starting(w, m)
    BY <1>4 DEF Mark, TypeInv, WorkerRecord, Starting
  <2>2. r \in Row /\ r.status = "pending" /\ ~RetryEligible(r)
    BY <2>1, AttemptMarkerRow
  <2>3. /\ row' = [row EXCEPT ![m] = r] /\ issued' = [issued EXCEPT ![m] = issued[m] + 1]
        /\ UNCHANGED <<denials, crowd>>
        /\ worker'[w].pc = "ready" /\ \A v \in Workers \ {w} : worker'[v] = worker[v]
    BY <1>4 DEF Mark, TypeInv, WorkerRecord
  <2>4. \A v \in Workers, n \in Messages :
           Starting(v, n)' <=> Starting(v, n) /\ (v # w \/ n # m)
    BY <1>4, <2>3 DEF Starting
  <2> HIDE DEF a, r
  <2>5. PICK S : S = Starters(m)
    OBVIOUS
  <2>6. Starters(m)' = S \ {w} /\ \A n \in Messages \ {m} : Starters(n)' = Starters(n)
    BY <2>4, <2>5 DEF Starters
  <2>7. IsFiniteSet(S) /\ Cardinality(S) \in Nat /\ w \in S
    BY <2>1, <2>5, StartersFinite DEF Starters
  <2>8. Cardinality(Starters(m))' = Cardinality(S) - 1
    BY <2>6, <2>7, FS_RemoveElement
  <2>9. \A n \in Messages \ {m} : /\ row'[n] = row[n] /\ issued'[n] = issued[n]
                                  /\ Cardinality(Starters(n))' = Cardinality(Starters(n))
    BY <2>3, <2>6 DEF TypeInv
  <2>10. \A n \in Messages : Allowance(n)' = Allowance(n)
    BY <2>3 DEF Allowance
  <2>11. PermitsBalance'
    <3>1. issued[m] + Cardinality(S) <= denials[m] + Allowance(m)
      <4>1. issued[m] \in Nat /\ denials[m] \in Nat /\ Allowance(m) \in Nat
        BY DEF TypeInv, Allowance
      <4>2. issued[m] + Cardinality(S) + (IF RetryEligible(row[m]) THEN 1 ELSE 0)
              <= denials[m] + Allowance(m)
        BY <2>5 DEF Accounts, PermitsBalance
      <4> QED
        BY <2>7, <4>1, <4>2
    <3>2. issued'[m] = issued[m] + 1 /\ ~RetryEligible(row'[m]) /\ issued[m] \in Nat
      BY <2>2, <2>3 DEF TypeInv
    <3>3. issued'[m] + Cardinality(Starters(m))' + 0 <= denials[m] + Allowance(m)
      BY <2>7, <2>8, <3>1, <3>2
    <3> QED
      BY <2>3, <2>9, <2>10, <3>2, <3>3 DEF Accounts, PermitsBalance
  <2>12. CrowdCounted'
    <3>1. Cardinality(S) <= crowd[m] /\ crowd[m] \in Nat
      BY <2>5 DEF Accounts, CrowdCounted, TypeInv
    <3>2. Cardinality(Starters(m))' <= crowd[m]
      BY <2>7, <2>8, <3>1
    <3> QED
      BY <2>3, <2>9, <3>2 DEF Accounts, CrowdCounted
  <2>13. SentIsFinal' /\ Fresh'
    BY <2>2, <2>3, <2>9 DEF Accounts, SentIsFinal, Fresh, TypeInv
  <2> QED
    BY <2>11, <2>12, <2>13 DEF Accounts
<1>5. ASSUME NEW w \in Workers,
             \/ KeepClaim(w) \/ NotInvoked(w) \/ Call(w) \/ Crash(w)
             \/ \E o \in {"accepted", "ambiguous", "busy", "refused"} : Answer(w, o)
      PROVE  Accounts'
  <2>1. /\ worker'[w].pc # "loaded" /\ UNCHANGED <<row, issued, denials, crowd>>
        /\ \A v \in Workers \ {w} : worker'[v] = worker[v]
    BY <1>5 DEF KeepClaim, NotInvoked, Call, Crash, Answer, Idle, TypeInv, WorkerRecord
  <2>2. \A v \in Workers, m \in Messages : Starting(v, m)' => Starting(v, m)
    BY <2>1 DEF Starting
  <2> QED
    BY <2>1, <2>2, AccountsOfWorkers
<1>6. ASSUME NEW w \in Workers, Record(w) PROVE Accounts'
  <2> DEFINE m == worker[w].msg
             r == DeliveryMetadata(worker[w].row, worker[w].outcome)
  <2>1. m \in Messages /\ worker[w].row \in Row /\ worker[w].outcome \in Outcomes
    BY <1>6 DEF Record, TypeInv, WorkerRecord
  <2>2. r \in Row /\ r.status # "none" /\ ~RetryEligible(r)
        /\ (r.status = "sent" => AlreadyDelivered(r))
    BY <2>1, DeliveryMetadataRow
  <2>3. row' = [row EXCEPT ![m] = r] /\ UNCHANGED <<issued, denials, crowd>>
    BY <1>6 DEF Record
  <2>4. \A v \in Workers, n \in Messages : Starting(v, n)' => Starting(v, n)
    BY <1>6 DEF Record, Starting, Idle, TypeInv
  <2> HIDE DEF m, r
  <2> QED
    BY <2>1, <2>2, <2>3, <2>4, AccountsOfRow
<1>7. ASSUME NEW w \in Workers, NEW m \in Messages, Retry(w, m) PROVE Accounts'
  <2> DEFINE a == issued[m] + 1
             r == AttemptMarker(row[m], a, "IN_PROGRESS")
  <2>1. row[m] \in Row /\ a \in Nat /\ RetryEligible(row[m])
    BY <1>7 DEF Retry, TypeInv
  <2>2. r \in Row /\ r.status = "pending" /\ ~RetryEligible(r)
    BY <2>1, AttemptMarkerRow
  <2>3. /\ row' = [row EXCEPT ![m] = r] /\ issued' = [issued EXCEPT ![m] = issued[m] + 1]
        /\ UNCHANGED <<denials, crowd>>
    BY <1>7 DEF Retry
  <2>4. \A v \in Workers, n \in Messages : Starting(v, n)' => Starting(v, n)
    BY <1>7 DEF Retry, Starting, Idle, TypeInv
  <2> HIDE DEF a, r
  <2>5. \A n \in Messages :
           /\ Cardinality(Starters(n)) \in Nat /\ Cardinality(Starters(n))' \in Nat
           /\ Cardinality(Starters(n))' <= Cardinality(Starters(n))
           /\ Allowance(n)' = Allowance(n) /\ Allowance(n) \in Nat
    BY <2>3, <2>4, NoMoreStarters DEF Allowance, TypeInv
  <2>6. /\ issued'[m] = issued[m] + 1 /\ row'[m] = r
        /\ \A n \in Messages \ {m} : row'[n] = row[n] /\ issued'[n] = issued[n]
    BY <2>3 DEF TypeInv
  <2>7. PermitsBalance'
    BY <2>1, <2>2, <2>3, <2>5, <2>6 DEF Accounts, PermitsBalance, TypeInv
  <2>8. CrowdCounted'
    BY <2>3, <2>5 DEF Accounts, CrowdCounted, TypeInv
  <2>9. SentIsFinal' /\ Fresh'
    BY <2>2, <2>6 DEF Accounts, SentIsFinal, Fresh
  <2> QED
    BY <2>7, <2>8, <2>9 DEF Accounts
<1>8. ASSUME NEW m \in Messages, NEW d \in Decisions, Reconcile(m, d) PROVE Accounts'
  <2> DEFINE r == Reconciled(row[m], d)
  <2>1. /\ r \in Row /\ r.status # "none" /\ (r.status = "sent" => AlreadyDelivered(r))
        /\ (d # "CONFIRM_NOT_SENT" => ~RetryEligible(r))
    BY ReconciledRow DEF TypeInv
  <2>2. row' = [row EXCEPT ![m] = r] /\ UNCHANGED <<issued, crowd, worker>>
    BY <1>8 DEF Reconcile
  <2>3. \A v \in Workers, n \in Messages : Starting(v, n)' => Starting(v, n)
    BY <2>2 DEF Starting
  <2> HIDE DEF r
  <2>4. CASE d # "CONFIRM_NOT_SENT"
    <3>1. UNCHANGED denials
      BY <1>8, <2>4 DEF Reconcile
    <3> QED
      BY <2>1, <2>2, <2>3, <2>4, <3>1, AccountsOfRow
  <2>5. CASE d = "CONFIRM_NOT_SENT"
    <3>1. denials' = [denials EXCEPT ![m] = denials[m] + 1]
      BY <1>8, <2>5 DEF Reconcile
    <3>2. \A n \in Messages :
             /\ Cardinality(Starters(n)) \in Nat /\ Cardinality(Starters(n))' \in Nat
             /\ Cardinality(Starters(n))' <= Cardinality(Starters(n))
             /\ Allowance(n)' = Allowance(n) /\ Allowance(n) \in Nat
      BY <2>2, <2>3, NoMoreStarters DEF Allowance, TypeInv
    <3>3. /\ denials'[m] = denials[m] + 1 /\ row'[m] = r
          /\ \A n \in Messages \ {m} : row'[n] = row[n] /\ denials'[n] = denials[n]
      BY <2>2, <3>1 DEF TypeInv
    <3>4. PermitsBalance'
      BY <2>2, <3>2, <3>3 DEF Accounts, PermitsBalance, TypeInv
    <3>5. CrowdCounted'
      BY <2>2, <3>2 DEF Accounts, CrowdCounted, TypeInv
    <3>6. SentIsFinal' /\ Fresh'
      BY <2>1, <2>2, <3>3 DEF Accounts, SentIsFinal, Fresh
    <3> QED
      BY <3>4, <3>5, <3>6 DEF Accounts
  <2> QED
    BY <2>4, <2>5
<1>9. ASSUME NEW m \in Messages, LeaseLapses(m) \/ \E a \in called[m] : ProviderAccepts(m, a)
      PROVE  Accounts'
  <2>1. UNCHANGED <<row, issued, denials, crowd, worker>>
    BY <1>9 DEF LeaseLapses, ProviderAccepts
  <2> QED
    BY <2>1, AccountsOfWorkers DEF Starting
<1>10. CASE UNCHANGED vars
  BY <1>10, AccountsOfWorkers DEF vars, Starting
<1>11. \A w \in Workers : Mark(w) => worker[w].msg \in Messages
  BY DEF Mark, TypeInv
<1> QED
  BY <1>1, <1>2, <1>3, <1>4, <1>5, <1>6, <1>7, <1>8, <1>9, <1>10, <1>11
     DEF Next, WorkerStep, MessageStep

\* The copies of a message are finitely many, and the attempts they were sent
\* under are within what its allowance and the denials paid for.
LEMMA CopiesPaidFor ==
    ASSUME TypeInv, Ownership, Accounts, NEW m \in Messages
    PROVE  /\ IsFiniteSet(accepted[m])
           /\ Cardinality(accepted[m]) \in Nat
           /\ Cardinality(accepted[m]) <= denials[m] + Allowance(m)
<1>1. issued[m] \in Nat /\ denials[m] \in Nat /\ Allowance(m) \in Nat
  BY DEF TypeInv, Allowance
<1>2. issued[m] <= denials[m] + Allowance(m)
  BY <1>1, StartersFinite DEF Accounts, PermitsBalance
<1>3. IsFiniteSet(1 .. issued[m]) /\ Cardinality(1 .. issued[m]) = issued[m]
  <2>1. 1 \in Int /\ issued[m] \in Int
    BY <1>1
  <2>2. /\ IsFiniteSet(1 .. issued[m])
        /\ Cardinality(1 .. issued[m]) = IF 1 > issued[m] THEN 0 ELSE issued[m] - 1 + 1
    BY ONLY <2>1, FS_Interval
  <2> QED
    BY <1>1, <2>2
<1>4. accepted[m] \in SUBSET (1 .. issued[m])
  BY DEF Ownership, RequestsIssued
<1>5. IsFiniteSet(accepted[m]) /\ Cardinality(accepted[m]) <= Cardinality(1 .. issued[m])
  BY <1>3, <1>4, FS_Subset
<1>6. Cardinality(accepted[m]) \in Nat
  BY <1>5, FS_CardinalityType
<1> QED
  BY <1>1, <1>2, <1>3, <1>5, <1>6

\* A customer gets no copy of a message beyond the first, except those a person
\* has asked for by denying an earlier one and one for each further delivery that
\* began before the first of them had marked the row.
THEOREM CopiesAccountedForHolds == Spec => []CopiesAccountedFor
<1>1. TypeInv <=> TypeOK
  BY DEF TypeInv, TypeOK, WorkerRecord
<1>2. TypeInv /\ Ownership /\ Accounts => CopiesAccountedFor
  BY CopiesPaidFor DEF CopiesAccountedFor
<1>3. TypeInv /\ Ownership /\ Accounts /\ [Next]_vars => Accounts'
  BY AccountsStep
<1> QED
  BY <1>1, <1>2, <1>3, TypeCorrect, OwnershipInit, OwnershipStep, AccountsInit, PTL DEF Spec

--------------------------------------------------------------------------------
(* What the row says                                                       *)

\* Only a message that nobody has begun to send looks untouched.
Begun ==
    \A w \in Workers : worker[w].pc # "idle" /\ ~Starting(w, worker[w].msg)
        => row[worker[w].msg].status # "none"

\* What a worker was told of its attempt is so.
Heard ==
    \A w \in Workers : worker[w].pc = "answered" =>
        /\ worker[w].outcome # "none"
        /\ worker[w].outcome = "accepted" => AttemptOf(w) \in accepted[worker[w].msg]
        /\ worker[w].outcome = "refused" => AttemptOf(w) \in refused[worker[w].msg]
        /\ worker[w].outcome = "not_invoked" => AttemptOf(w) \notin called[worker[w].msg]

\* No worker still holds an attempt that its row says was never made, and a
\* delivery that is before its marker carries no attempt.
Unheld ==
    \A w \in Workers :
        /\ worker[w].pc # "idle" /\ AttemptOf(w) # 0 /\ row[worker[w].msg].attempt = AttemptOf(w)
             => row[worker[w].msg].certainty # "NOT_SENT_CONFIRMED" \/ row[worker[w].msg].recon = "RESOLVED"
        /\ Starting(w, worker[w].msg) => worker[w].row.attempt = 0

\* A retry rests on a person's denial.
Decided ==
    /\ \A m \in Messages : RetryEligible(row[m]) => denials[m] # 0
    /\ \A w \in Workers : worker[w].pc # "idle" /\ worker[w].claim # 0
          => denials[worker[w].msg] # 0

\* Until somebody denies a message or deliveries of it begin together, one worker
\* at most is at it, and what that worker has not handed to Meta nobody has.
Alone ==
    \A w \in Workers : worker[w].pc # "idle" /\ Undisturbed(worker[w].msg) =>
        /\ \A v \in Workers \ {w} : worker[v].pc # "idle" => worker[v].msg # worker[w].msg
        /\ \/ worker[w].pc \in {"loaded", "ready"}
           \/ worker[w].pc = "answered" /\ worker[w].outcome = "not_invoked"
           => called[worker[w].msg] = {}
        /\ worker[w].pc = "ready" => row[worker[w].msg].certainty # "NOT_SENT_CONFIRMED"

Truth == Begun /\ Heard /\ Unheld /\ Decided /\ Alone /\ RecordIsTrue

LEMMA TruthInit == Init => Truth
<1> SUFFICES ASSUME Init PROVE Truth
  OBVIOUS
<1>1. \A m \in Messages :
         /\ row[m] \in {Untouched, Legacy("pending"), Legacy("sent"), Legacy("failed")}
         /\ called[m] = 1 .. issued[m]
         /\ issued[m] = IF row[m].status = "none" THEN 0 ELSE 1
         /\ row[m].status = "sent" => accepted[m] = {1}
  BY DEF Init
<1> DEFINE Born(r) == r.recon # "RESOLVED" /\ r.certainty = "unset"
<1>2. \A m \in Messages : Born(row[m])
  <2>1. Born(Untouched)
    BY DEF Untouched
  <2>2. Born(Legacy("pending")) /\ Born(Legacy("sent")) /\ Born(Legacy("failed"))
    BY DEF Untouched, Legacy
  <2> HIDE DEF Born
  <2> QED
    BY <1>1, <2>1, <2>2
<1>3. \A w \in Workers : worker[w].pc = "idle"
  BY DEF Init, Idle
<1> QED
  BY <1>1, <1>2, <1>3
     DEF Truth, Begun, Heard, Unheld, Starting, Decided, Alone, RecordIsTrue, IntentIsDurable,
         SentIsBacked, RecordOfAttempt, NeverDeniesACopy, RetryEligible

\* The row of a message whose worker is done is what the worker makes of it: a
\* success that it heard of, a refusal, a denial where nothing left, or neither.
LEMMA TruthOfOutcome ==
    ASSUME TypeInv, Ownership, Truth, NEW w \in Workers, worker[w].pc # "idle",
           NEW r \in Row, row' = [row EXCEPT ![worker[w].msg] = r],
           worker' = [worker EXCEPT ![w] = Idle],
           r.status # "none", ~RetryEligible(r),
           r.attempt = 0 \/ r.attempt = AttemptOf(w),
           r.status = "sent" => accepted[worker[w].msg] # {},
           r.certainty = "SENT_CONFIRMED" => r.attempt \in accepted[worker[w].msg],
           r.certainty = "NOT_SENT_CONFIRMED" => r.attempt \notin called[worker[w].msg],
           r.certainty = "FAILED_CONFIRMED" /\ ~r.safe => r.attempt \in refused[worker[w].msg],
           r.certainty = "NOT_SENT_CONFIRMED" /\ Undisturbed(worker[w].msg)
              => called[worker[w].msg] = {},
           UNCHANGED <<denials, crowd, vouched, called, accepted, refused>>
    PROVE  Truth'
<1> DEFINE m == worker[w].msg
<1>1. m \in Messages
  BY DEF TypeInv
<1>2. row'[m] = r /\ \A n \in Messages \ {m} : row'[n] = row[n]
  BY <1>1 DEF TypeInv
<1>3. worker'[w].pc = "idle" /\ \A v \in Workers \ {w} : worker'[v] = worker[v]
  BY DEF TypeInv, Idle
<1>4. \A v \in Workers : worker[v].pc # "idle" => worker[v].msg \in Messages
  BY DEF TypeInv
<1>5. \A n \in Messages : Undisturbed(n)' <=> Undisturbed(n)
  BY DEF Undisturbed
<1>6. \A v \in Workers \ {w} : AttemptOf(v)' = AttemptOf(v)
  BY <1>3 DEF AttemptOf
<1> HIDE DEF m
<1>7. Begun'
  BY <1>2, <1>3, <1>4 DEF Truth, Begun, Starting
<1>8. Heard'
  BY <1>3, <1>6 DEF Truth, Heard
<1>9. Decided'
  BY <1>2, <1>3 DEF Truth, Decided
<1>10. Alone'
  <2> SUFFICES ASSUME NEW v \in Workers, v # w, worker[v].pc # "idle",
                      Undisturbed(worker[v].msg)
               PROVE  row'[worker[v].msg] = row[worker[v].msg]
    BY <1>3, <1>4, <1>5 DEF Truth, Alone
  <2>1. worker[v].msg # m
    BY DEF Truth, Alone, m
  <2> QED
    BY <1>2, <1>4, <2>1
<1>11. Unheld'
  <2> SUFFICES ASSUME NEW v \in Workers, v # w, worker[v].pc # "idle"
               PROVE  /\ AttemptOf(v) # 0 /\ row'[worker[v].msg].attempt = AttemptOf(v)
                           => \/ row'[worker[v].msg].certainty # "NOT_SENT_CONFIRMED"
                              \/ row'[worker[v].msg].recon = "RESOLVED"
                      /\ Starting(v, worker[v].msg) => worker[v].row.attempt = 0
    BY <1>3, <1>6 DEF Unheld, Starting
  <2>1. Starting(v, worker[v].msg) => worker[v].row.attempt = 0
    BY DEF Truth, Unheld
  <2>2. CASE worker[v].msg = m
    <3>1. AttemptOf(v) # 0 => AttemptOf(w) # AttemptOf(v)
      BY <2>2 DEF Ownership, AttemptsDistinct, m
    <3> QED
      BY <1>2, <2>1, <2>2, <3>1
  <2>3. CASE worker[v].msg # m
    BY <1>2, <1>4, <2>1, <2>3 DEF Truth, Unheld
  <2> QED
    BY <2>2, <2>3
<1>12. IntentIsDurable' /\ SentIsBacked' /\ NeverDeniesACopy'
  BY <1>1, <1>2, <1>5
     DEF Truth, RecordIsTrue, IntentIsDurable, SentIsBacked, NeverDeniesACopy, m
<1>13. RecordOfAttempt'
  BY <1>1, <1>2 DEF Truth, RecordIsTrue, RecordOfAttempt, m
<1> QED
  BY <1>7, <1>8, <1>9, <1>10, <1>11, <1>12, <1>13 DEF Truth, RecordIsTrue

\* No step makes a row say what is not so.
LEMMA TruthStep == TypeInv /\ Ownership /\ Accounts /\ Truth /\ [Next]_vars => Truth'
<1> SUFFICES ASSUME TypeInv, Ownership, Accounts, Truth, [Next]_vars PROVE Truth'
  OBVIOUS
<1> USE DEF Truth
<1>a. \A w \in Workers : worker[w].pc # "idle" => worker[w].msg \in Messages
  BY DEF TypeInv
<1>b. UNCHANGED <<denials, crowd>> => \A m \in Messages : Undisturbed(m)' = Undisturbed(m)
  BY DEF Undisturbed
<1>1. ASSUME NEW w \in Workers, NEW m \in Messages, Load(w, m) PROVE Truth'
  <2>1. /\ worker'[w].pc = "loaded" /\ worker'[w].claim = 0 /\ worker'[w].msg = m
        /\ worker'[w].row = row[m]
        /\ \A v \in Workers \ {w} : worker'[v] = worker[v]
        /\ UNCHANGED <<row, denials, vouched, called, accepted, refused>>
    BY <1>1 DEF Load, Idle, TypeInv
  <2>2. row[m].status = "none" /\ row[m].attempt = 0
    BY <1>1, LoadsUntouched DEF Untouched
  <2>3. called[m] = {}
    BY <2>2 DEF RecordIsTrue, IntentIsDurable
  <2>4. /\ \A n \in Messages : Undisturbed(n)' => Undisturbed(n)
        /\ Undisturbed(m)' => Starters(m) = {}
    <3>1. \A n \in Messages : crowd'[n] = crowd[n] \/ crowd'[n] = crowd[n] + 1
      BY <1>1, LoadCounts
    <3>2. \A n \in Messages : Undisturbed(n)' => Undisturbed(n)
      BY <2>1, <3>1 DEF Undisturbed, TypeInv
    <3>3. PICK S : S = Starters(m)
      OBVIOUS
    <3>4. /\ crowd'[m] \in Nat /\ crowd'[m] >= Cardinality(S) + 1
          /\ Cardinality(S) \in Nat /\ IsFiniteSet(S)
      BY <1>1, <3>3, LoadCounts, StartersFinite
    <3>5. crowd'[m] <= 1 => Cardinality(S) = 0
      BY <3>4
    <3>6. Cardinality(S) = 0 => S = {}
      BY <3>4, FS_EmptySet
    <3> QED
      BY <3>2, <3>3, <3>5, <3>6 DEF Undisturbed
  <2>5. Undisturbed(m)' => \A v \in Workers : worker[v].pc # "idle" => worker[v].msg # m
    BY <2>2, <2>4 DEF Begun, Starters
  <2>6. \A v \in Workers \ {w} : AttemptOf(v)' = AttemptOf(v)
    BY <2>1 DEF AttemptOf
  <2>7. AttemptOf(w)' = 0
    BY <2>1 DEF AttemptOf
  <2>8. Begun' /\ Decided'
    BY <2>1 DEF Begun, Starting, Decided
  <2>9. Heard' /\ Unheld'
    BY <2>1, <2>2, <2>6, <2>7 DEF Heard, Unheld, Starting
  <2>10. RecordIsTrue'
    BY <2>1, <2>4 DEF RecordIsTrue, IntentIsDurable, SentIsBacked, RecordOfAttempt, NeverDeniesACopy
  <2>11. Alone'
    BY <1>a, <2>1, <2>3, <2>4, <2>5 DEF Alone
  <2> QED
    BY <2>8, <2>9, <2>10, <2>11
<1>2. ASSUME NEW w \in Workers, ResumeClaim(w) PROVE Truth'
  <2>1. worker[w].pc = "claimed" /\ worker[w].claim # 0
        /\ UNCHANGED <<row, denials, vouched, called, accepted, refused, crowd>>
    BY <1>2 DEF ResumeClaim, Ownership, AttemptsTaken, AttemptOf
  <2>2. /\ \/ worker'[w].pc = "idle"
           \/ /\ worker'[w].pc = "loaded" /\ worker'[w].claim = worker[w].claim
              /\ worker'[w].msg = worker[w].msg
        /\ \A v \in Workers \ {w} : worker'[v] = worker[v]
    <3>1. CASE ClaimedRetry(row[worker[w].msg], worker[w].claim)
      <4>1. worker' = [worker EXCEPT ![w].pc = "loaded", ![w].row = row[worker[w].msg]]
        BY <1>2, <3>1 DEF ResumeClaim
      <4> QED
        BY <4>1 DEF TypeInv, WorkerRecord
    <3>2. CASE ~ClaimedRetry(row[worker[w].msg], worker[w].claim)
      <4>1. worker' = [worker EXCEPT ![w] = Idle]
        BY <1>2, <3>2 DEF ResumeClaim
      <4> QED
        BY <4>1 DEF Idle, TypeInv
    <3> QED
      BY <3>1, <3>2
  <2>3. /\ denials[worker[w].msg] # 0 /\ row[worker[w].msg].status # "none"
        /\ ~Undisturbed(worker[w].msg)
    BY <2>1 DEF Decided, Begun, Starting, Undisturbed
  <2>4. \A n \in Messages : Undisturbed(n)' = Undisturbed(n)
    BY <1>b, <2>1
  <2>5. /\ \A v \in Workers \ {w} : AttemptOf(v)' = AttemptOf(v)
        /\ worker'[w].pc # "idle" => AttemptOf(w)' = AttemptOf(w)
    BY <2>1, <2>2 DEF AttemptOf
  <2>6. Begun' /\ Heard' /\ Decided'
    BY <2>1, <2>2, <2>3, <2>5 DEF Begun, Starting, Heard, Decided
  <2>7. Unheld'
    BY <2>1, <2>2, <2>5 DEF Unheld, Starting
  <2>8. RecordIsTrue'
    BY <2>1, <2>4 DEF RecordIsTrue, IntentIsDurable, SentIsBacked, RecordOfAttempt, NeverDeniesACopy
  <2>9. Alone'
    BY <1>a, <2>1, <2>2, <2>3, <2>4 DEF Alone
  <2> QED
    BY <2>6, <2>7, <2>8, <2>9
<1>3. ASSUME NEW w \in Workers, NoConnection(w) PROVE Truth'
  <2> DEFINE r == DeliveryMetadata(worker[w].row, "not_invoked")
  <2>1. worker[w].row \in Row /\ "not_invoked" \in Outcomes /\ worker[w].pc = "loaded"
        /\ worker[w].msg \in Messages
    BY <1>3 DEF NoConnection, TypeInv, WorkerRecord, Outcomes
  <2>2. /\ r \in Row /\ r.status # "none" /\ ~RetryEligible(r) /\ r.status # "sent"
        /\ r.certainty = "NOT_SENT_CONFIRMED" /\ r.attempt = worker[w].row.attempt
    BY <2>1, DeliveryMetadataRow DEF OutcomeStatus, OutcomeCertainty, FailureCertainty
  <2>3. Undisturbed(worker[w].msg) => called[worker[w].msg] = {}
    BY <2>1 DEF Alone
  <2>4. /\ row' = [row EXCEPT ![worker[w].msg] = r] /\ worker' = [worker EXCEPT ![w] = Idle]
        /\ UNCHANGED <<denials, vouched, called, accepted, refused, crowd>>
    BY <1>3 DEF NoConnection
  <2>5. /\ worker[w].row.attempt = 0 \/ worker[w].row.attempt = AttemptOf(w)
        /\ worker[w].row.attempt \notin called[worker[w].msg]
    <3>1. CASE worker[w].claim = 0
      <4>1. worker[w].row.attempt = 0
        BY <2>1, <3>1 DEF Unheld, Starting
      <4>2. called[worker[w].msg] \subseteq 1 .. issued[worker[w].msg]
        BY <2>1 DEF Ownership, RequestsIssued
      <4> QED
        BY <2>1, <4>1, <4>2 DEF TypeInv
    <3>2. CASE worker[w].claim # 0
      BY <2>1, <3>2 DEF Ownership, AttemptsTaken, AttemptOf
    <3> QED
      BY <3>1, <3>2
  <2> HIDE DEF r
  <2> QED
    BY <2>1, <2>2, <2>3, <2>4, <2>5, TruthOfOutcome
<1>4. ASSUME NEW w \in Workers, NEW m \in Messages, m = worker[w].msg, Mark(w) PROVE Truth'
  <2> DEFINE r == AttemptMarker(worker[w].row, issued[m] + 1, "REQUIRED")
  <2>1. worker[w].row \in Row /\ issued[m] + 1 \in Nat /\ Starting(w, m)
    BY <1>4 DEF Mark, TypeInv, WorkerRecord, Starting
  <2>2. /\ r \in Row /\ r.status = "pending" /\ ~RetryEligible(r)
        /\ r.certainty = "DELIVERY_AMBIGUOUS"
    BY <2>1, AttemptMarkerRow
  <2>3. /\ row' = [row EXCEPT ![m] = r]
        /\ UNCHANGED <<denials, vouched, called, accepted, refused, crowd>>
        /\ worker'[w].pc = "ready" /\ worker'[w].msg = m /\ worker'[w].claim = 0
        /\ \A v \in Workers \ {w} : worker'[v] = worker[v]
    BY <1>4 DEF Mark, TypeInv, WorkerRecord
  <2> HIDE DEF r
  <2>4. row'[m] = r /\ \A n \in Messages \ {m} : row'[n] = row[n]
    BY <2>3 DEF TypeInv
  <2>5. Begun'
    BY <1>a, <2>2, <2>3, <2>4 DEF Begun, Starting
  <2>6. \A v \in Workers \ {w} : AttemptOf(v)' = AttemptOf(v)
    BY <2>3 DEF AttemptOf
  <2>7. Heard' /\ Decided'
    BY <2>2, <2>3, <2>4, <2>6 DEF Heard, Decided
  <2>8. Unheld'
    BY <1>a, <2>2, <2>3, <2>4, <2>6 DEF Unheld, Starting
  <2>9. \A n \in Messages : Undisturbed(n)' = Undisturbed(n)
    BY <1>b, <2>3
  <2>10. Alone'
    <3>1. \A v \in Workers \ {w} : worker[v].pc # "idle" /\ Undisturbed(worker[v].msg)
             => worker[v].msg # m /\ row'[worker[v].msg] = row[worker[v].msg]
      BY <1>4, <1>a, <2>1, <2>4 DEF Alone, Starting
    <3>2. Undisturbed(m) => called[m] = {}
                /\ \A v \in Workers \ {w} : worker[v].pc # "idle" => worker[v].msg # m
      BY <1>4, <2>1 DEF Alone, Starting
    <3> QED
      BY <1>a, <2>2, <2>3, <2>4, <2>9, <3>1, <3>2 DEF Alone
  <2>11. IntentIsDurable' /\ SentIsBacked' /\ NeverDeniesACopy'
    BY <2>2, <2>3, <2>4, <2>9 DEF RecordIsTrue, IntentIsDurable, SentIsBacked, NeverDeniesACopy
  <2>12. RecordOfAttempt'
    BY <2>2, <2>3, <2>4 DEF RecordIsTrue, RecordOfAttempt
  <2> QED
    BY <2>5, <2>7, <2>8, <2>10, <2>11, <2>12 DEF RecordIsTrue
<1>5. ASSUME NEW w \in Workers,
             \/ KeepClaim(w) \/ NotInvoked(w) \/ Crash(w)
             \/ \E o \in {"accepted", "ambiguous", "busy", "refused"} : Answer(w, o)
      PROVE  Truth'
  <2>1. /\ worker[w].pc # "idle" /\ UNCHANGED <<row, denials, vouched, called, accepted, crowd>>
        /\ \A v \in Workers \ {w} : worker'[v] = worker[v]
    BY <1>5 DEF KeepClaim, NotInvoked, Crash, Answer, TypeInv
  <2>2. \/ worker'[w].pc = "idle"
        \/ /\ worker'[w].msg = worker[w].msg /\ worker'[w].claim = worker[w].claim
           /\ worker'[w].row = worker[w].row
           /\ \/ worker[w].pc = "loaded" /\ worker[w].claim # 0 /\ worker'[w].pc = "ready"
              \/ /\ worker[w].pc = "ready" /\ worker'[w].pc = "answered"
                 /\ worker'[w].outcome = "not_invoked"
              \/ /\ worker[w].pc = "calling" /\ worker'[w].pc = "answered"
                 /\ worker'[w].outcome \notin {"not_invoked", "none"}
                 /\ worker'[w].outcome = "accepted"
                       => worker[w].row.attempt \in accepted[worker[w].msg]
                 /\ worker'[w].outcome = "refused"
                       => worker[w].row.attempt \in refused'[worker[w].msg]
    BY <1>5 DEF KeepClaim, NotInvoked, Crash, Answer, Idle, TypeInv, WorkerRecord
  <2>3. \A n \in Messages : refused[n] \subseteq refused'[n]
    BY <1>5 DEF KeepClaim, NotInvoked, Crash, Answer, TypeInv
  <2>4. worker[w].claim # 0 => denials[worker[w].msg] # 0 /\ ~Undisturbed(worker[w].msg)
    BY <2>1 DEF Decided, Undisturbed
  <2>5. /\ \A v \in Workers \ {w} : AttemptOf(v)' = AttemptOf(v)
        /\ worker'[w].pc # "idle" => AttemptOf(w)' = AttemptOf(w)
    <3>1. worker[w].pc = "loaded" /\ worker[w].claim # 0
             => worker[w].row.attempt = worker[w].claim
      BY DEF Ownership, AttemptsTaken
    <3> QED
      BY <2>1, <2>2, <3>1 DEF AttemptOf
  <2>6. Begun'
    <3>1. worker'[w].pc # "idle" => row[worker[w].msg].status # "none"
      <4>1. worker'[w].pc # "idle" => ~Starting(w, worker[w].msg)
        BY <2>2 DEF Starting
      <4> QED
        BY <2>1, <4>1 DEF Begun
    <3> QED
      BY <2>1, <2>2, <3>1 DEF Begun, Starting
  <2>7. Heard'
    <3>1. worker'[w].pc = "answered" /\ worker'[w].outcome = "not_invoked"
             => AttemptOf(w) \notin called[worker[w].msg]
      BY <2>2 DEF Ownership, AttemptsTaken
    <3>2. worker'[w].pc = "answered" =>
            /\ worker'[w].outcome # "none" /\ worker'[w].msg = worker[w].msg
            /\ worker'[w].outcome = "accepted" => AttemptOf(w) \in accepted[worker[w].msg]
            /\ worker'[w].outcome = "refused" => AttemptOf(w) \in refused'[worker[w].msg]
      BY <2>2 DEF AttemptOf
    <3> QED
      BY <1>a, <2>1, <2>3, <2>5, <3>1, <3>2 DEF Heard
  <2>8. Unheld'
    BY <2>1, <2>2, <2>5 DEF Unheld, Starting
  <2>9. Decided'
    BY <2>1, <2>2 DEF Decided
  <2>10. \A n \in Messages : Undisturbed(n)' = Undisturbed(n)
    BY <1>b, <2>1
  <2>11. IntentIsDurable' /\ SentIsBacked' /\ NeverDeniesACopy'
    BY <2>1, <2>10 DEF RecordIsTrue, IntentIsDurable, SentIsBacked, NeverDeniesACopy
  <2>12. RecordOfAttempt'
    BY <2>1, <2>3 DEF RecordIsTrue, RecordOfAttempt
  <2>13. Alone'
    BY <1>a, <2>1, <2>2, <2>4, <2>10 DEF Alone
  <2> QED
    BY <2>6, <2>7, <2>8, <2>9, <2>11, <2>12, <2>13 DEF RecordIsTrue
<1>6. ASSUME NEW w \in Workers, NEW m \in Messages, m = worker[w].msg, Call(w) PROVE Truth'
  <2> DEFINE a == worker[w].row.attempt
  <2>1. /\ worker[w].pc = "ready" /\ worker'[w].pc = "calling"
        /\ worker'[w].msg = m /\ worker'[w].claim = worker[w].claim
        /\ worker'[w].row = worker[w].row
        /\ \A v \in Workers \ {w} : worker'[v] = worker[v]
        /\ UNCHANGED <<row, denials, vouched, accepted, refused, crowd>>
        /\ called'[m] = called[m] \cup {a}
        /\ \A n \in Messages \ {m} : called'[n] = called[n]
    BY <1>6 DEF Call, TypeInv, WorkerRecord
  <2> HIDE DEF a
  <2>2. row[m].status # "none"
    BY <1>6, <2>1 DEF Begun, Starting
  <2>3. Undisturbed(m) => /\ row[m].certainty # "NOT_SENT_CONFIRMED"
                          /\ \A v \in Workers \ {w} : worker[v].pc # "idle" => worker[v].msg # m
    BY <1>6, <2>1 DEF Alone
  <2>4. \A v \in Workers : AttemptOf(v)' = AttemptOf(v)
    BY <2>1 DEF AttemptOf
  <2>5. Begun' /\ Decided'
    BY <1>6, <2>1, <2>2 DEF Begun, Starting, Decided
  <2>6. AttemptOf(w) = a /\ a # 0
    BY <2>1 DEF AttemptOf, Ownership, AttemptsTaken, a
  <2>7. Heard'
    <3>1. \A v \in Workers \ {w} : worker[v].pc # "idle" /\ worker[v].msg = m => AttemptOf(v) # a
      BY <1>6, <2>1, <2>6 DEF Ownership, AttemptsDistinct
    <3>2. \A v \in Workers \ {w} : worker[v].pc = "answered" /\ worker[v].outcome = "not_invoked"
             => AttemptOf(v) \notin called'[worker[v].msg]
      BY <1>a, <2>1, <3>1 DEF Heard
    <3> QED
      BY <2>1, <2>4, <3>2 DEF Heard
  <2>8. Unheld'
    BY <1>6, <2>1, <2>4 DEF Unheld, Starting
  <2>9. \A n \in Messages : Undisturbed(n)' = Undisturbed(n)
    BY <1>b, <2>1
  <2>10. Alone'
    BY <1>6, <1>a, <2>1, <2>3, <2>9 DEF Alone
  <2>11. IntentIsDurable' /\ SentIsBacked' /\ NeverDeniesACopy'
    BY <2>1, <2>2, <2>3, <2>9 DEF RecordIsTrue, IntentIsDurable, SentIsBacked, NeverDeniesACopy
  <2>12. RecordOfAttempt'
    <3>1. row[m].certainty = "NOT_SENT_CONFIRMED" /\ row[m].recon # "RESOLVED" => row[m].attempt # a
      BY <1>6, <2>1, <2>6 DEF Unheld
    <3> QED
      BY <2>1, <3>1 DEF RecordIsTrue, RecordOfAttempt
  <2> QED
    BY <2>5, <2>7, <2>8, <2>10, <2>11, <2>12 DEF RecordIsTrue
<1>7. ASSUME NEW w \in Workers, Record(w) PROVE Truth'
  <2> DEFINE r == DeliveryMetadata(worker[w].row, worker[w].outcome)
  <2>1. worker[w].row \in Row /\ worker[w].outcome \in Outcomes /\ worker[w].pc = "answered"
    BY <1>7 DEF Record, TypeInv, WorkerRecord
  <2>2. /\ r \in Row /\ r.status # "none" /\ ~RetryEligible(r)
        /\ r.attempt = worker[w].row.attempt
        /\ r.safe = (worker[w].outcome \in {"busy", "not_invoked"})
    BY <2>1, DeliveryMetadataRow
  <2>3. r.status = OutcomeStatus(worker[w].outcome)
        /\ r.certainty = OutcomeCertainty(worker[w].outcome)
    BY <2>1, DeliveryMetadataRow
  <2>4. AttemptOf(w) = worker[w].row.attempt
    BY <2>1 DEF AttemptOf
  <2>5. r.status = "sent" => accepted[worker[w].msg] # {}
    BY <2>1, <2>3 DEF OutcomeStatus, Heard
  <2>6. r.certainty = "SENT_CONFIRMED" => r.attempt \in accepted[worker[w].msg]
    BY <2>1, <2>2, <2>3, <2>4 DEF OutcomeCertainty, FailureCertainty, Heard
  <2>7. r.certainty = "NOT_SENT_CONFIRMED" =>
           /\ r.attempt \notin called[worker[w].msg]
           /\ Undisturbed(worker[w].msg) => called[worker[w].msg] = {}
    BY <2>1, <2>2, <2>3, <2>4 DEF OutcomeCertainty, FailureCertainty, Alone, Heard
  <2>8. r.certainty = "FAILED_CONFIRMED" /\ ~r.safe => r.attempt \in refused[worker[w].msg]
    BY <2>1, <2>2, <2>3, <2>4 DEF OutcomeCertainty, FailureCertainty, Heard, Outcomes
  <2>9. /\ row' = [row EXCEPT ![worker[w].msg] = r] /\ worker' = [worker EXCEPT ![w] = Idle]
        /\ UNCHANGED <<denials, vouched, called, accepted, refused, crowd>>
    BY <1>7 DEF Record
  <2> HIDE DEF r
  <2> QED
    BY <2>1, <2>2, <2>4, <2>5, <2>6, <2>7, <2>8, <2>9, TruthOfOutcome
<1>8. ASSUME NEW w \in Workers, NEW m \in Messages, Retry(w, m) PROVE Truth'
  <2> DEFINE r == AttemptMarker(row[m], issued[m] + 1, "IN_PROGRESS")
  <2>1. row[m] \in Row /\ issued[m] + 1 \in Nat /\ denials[m] # 0 /\ worker[w].pc = "idle"
        /\ ~Undisturbed(m)
    BY <1>8 DEF Retry, TypeInv, Decided, Undisturbed
  <2>2. r \in Row /\ r.status = "pending" /\ ~RetryEligible(r) /\ r.certainty = "DELIVERY_AMBIGUOUS"
    BY <2>1, AttemptMarkerRow
  <2>3. /\ row' = [row EXCEPT ![m] = r]
        /\ UNCHANGED <<denials, vouched, called, accepted, refused, crowd>>
        /\ worker'[w].pc = "claimed" /\ worker'[w].msg = m
        /\ \A v \in Workers \ {w} : worker'[v] = worker[v]
    BY <1>8 DEF Retry, Idle, TypeInv
  <2> HIDE DEF r
  <2>4. row'[m] = r /\ \A n \in Messages \ {m} : row'[n] = row[n]
    BY <2>3 DEF TypeInv
  <2>5. Begun'
    BY <1>a, <2>2, <2>3, <2>4 DEF Begun, Starting
  <2>6. \A v \in Workers \ {w} : AttemptOf(v)' = AttemptOf(v)
    BY <2>3 DEF AttemptOf
  <2>7. Heard' /\ Decided'
    BY <2>1, <2>2, <2>3, <2>4, <2>6 DEF Heard, Decided
  <2>8. Unheld'
    BY <1>a, <2>2, <2>3, <2>4, <2>6 DEF Unheld, Starting
  <2>9. \A n \in Messages : Undisturbed(n)' = Undisturbed(n)
    BY <1>b, <2>3
  <2>10. Alone'
    BY <1>a, <2>1, <2>3, <2>4, <2>9 DEF Alone
  <2>11. IntentIsDurable' /\ SentIsBacked' /\ NeverDeniesACopy'
    BY <2>2, <2>3, <2>4, <2>9 DEF RecordIsTrue, IntentIsDurable, SentIsBacked, NeverDeniesACopy
  <2>12. RecordOfAttempt'
    BY <2>2, <2>3, <2>4 DEF RecordIsTrue, RecordOfAttempt
  <2> QED
    BY <2>5, <2>7, <2>8, <2>10, <2>11, <2>12 DEF RecordIsTrue
<1>9. ASSUME NEW m \in Messages, NEW d \in Decisions, Reconcile(m, d) PROVE Truth'
  <2> DEFINE r == Reconciled(row[m], d)
  <2>1. /\ r.status # "none" /\ (d # "CONFIRM_NOT_SENT" => ~RetryEligible(r))
        /\ r.status = "sent" \/ r.certainty = "SENT_CONFIRMED" => d = "CONFIRM_SENT"
        /\ r.certainty = "NOT_SENT_CONFIRMED" => d = "CONFIRM_NOT_SENT" /\ r.recon = "RESOLVED"
        /\ r.certainty # "FAILED_CONFIRMED"
    BY ReconciledRow DEF TypeInv
  <2>2. /\ row' = [row EXCEPT ![m] = r] /\ UNCHANGED <<called, accepted, refused, crowd, worker>>
        /\ vouched \subseteq vouched' /\ (d = "CONFIRM_SENT" => m \in vouched')
    BY <1>9 DEF Reconcile
  <2> HIDE DEF r
  <2>3. row'[m] = r /\ \A n \in Messages \ {m} : row'[n] = row[n]
    BY <2>2 DEF TypeInv
  <2>4. /\ \A n \in Messages : denials[n] # 0 => denials'[n] # 0
        /\ d = "CONFIRM_NOT_SENT" => denials'[m] # 0
    BY <1>9 DEF Reconcile, TypeInv
  <2>5. Begun'
    BY <1>a, <2>1, <2>2, <2>3 DEF Begun, Starting
  <2>6. \A v \in Workers : AttemptOf(v)' = AttemptOf(v)
    BY <2>2 DEF AttemptOf
  <2>7. Heard' /\ Decided'
    BY <1>a, <2>1, <2>2, <2>3, <2>4, <2>6 DEF Heard, Decided
  <2>8. Unheld'
    BY <1>a, <2>1, <2>2, <2>3, <2>6 DEF Unheld, Starting
  <2>9. /\ \A n \in Messages : Undisturbed(n)' => Undisturbed(n)
        /\ d = "CONFIRM_NOT_SENT" => ~Undisturbed(m)'
    BY <2>2, <2>4 DEF Undisturbed
  <2>10. Alone'
    BY <1>a, <2>1, <2>2, <2>3, <2>9 DEF Alone
  <2>11. IntentIsDurable' /\ SentIsBacked' /\ NeverDeniesACopy'
    BY <2>1, <2>2, <2>3, <2>9 DEF RecordIsTrue, IntentIsDurable, SentIsBacked, NeverDeniesACopy
  <2>12. RecordOfAttempt'
    BY <2>1, <2>2, <2>3 DEF RecordIsTrue, RecordOfAttempt
  <2> QED
    BY <2>5, <2>7, <2>8, <2>10, <2>11, <2>12 DEF RecordIsTrue
<1>10. ASSUME NEW m \in Messages, LeaseLapses(m) \/ \E a \in called[m] : ProviderAccepts(m, a)
       PROVE  Truth'
  <2>1. /\ UNCHANGED <<row, denials, vouched, called, refused, crowd, worker>>
        /\ \A n \in Messages : accepted[n] \subseteq accepted'[n]
    BY <1>10 DEF LeaseLapses, ProviderAccepts, TypeInv
  <2>2. \A v \in Workers : AttemptOf(v)' = AttemptOf(v)
    BY <2>1 DEF AttemptOf
  <2>3. \A n \in Messages : Undisturbed(n)' = Undisturbed(n)
    BY <1>b, <2>1
  <2>4. Begun' /\ Decided' /\ Unheld'
    BY <2>1, <2>2 DEF Begun, Starting, Decided, Unheld
  <2>5. Heard'
    BY <1>a, <2>1, <2>2 DEF Heard
  <2>6. Alone'
    BY <1>a, <2>1, <2>3 DEF Alone
  <2>7. RecordIsTrue'
    BY <2>1, <2>3 DEF RecordIsTrue, IntentIsDurable, SentIsBacked, RecordOfAttempt, NeverDeniesACopy
  <2> QED
    BY <2>4, <2>5, <2>6, <2>7
<1>11. CASE UNCHANGED vars
  BY <1>11 DEF vars, Begun, Starting, Heard, Unheld, AttemptOf, Decided, Alone, Undisturbed,
               RecordIsTrue, IntentIsDurable, SentIsBacked, RecordOfAttempt, NeverDeniesACopy
<1>12. \A w \in Workers : Mark(w) \/ Call(w) => worker[w].msg \in Messages
  BY <1>a DEF Mark, Call
<1> QED
  BY <1>1, <1>2, <1>3, <1>4, <1>5, <1>6, <1>7, <1>8, <1>9, <1>10, <1>11, <1>12
     DEF Next, WorkerStep, MessageStep

\* What a row says of its message's delivery is so: no message that left looks
\* untouched, none is called sent that neither Meta nor a person vouches for, the
\* attempt named had the outcome named, and while deliveries do not begin together
\* the code on its own denies no copy.
THEOREM RecordIsTrueHolds == Spec => []RecordIsTrue
<1>1. TypeInv <=> TypeOK
  BY DEF TypeInv, TypeOK, WorkerRecord
<1>2. TypeInv /\ Ownership /\ Accounts /\ [Next]_vars => Accounts'
  BY AccountsStep
<1>3. TypeInv /\ Ownership /\ Accounts /\ Truth /\ [Next]_vars => Truth'
  BY TruthStep
<1>4. Truth => RecordIsTrue
  BY DEF Truth
<1> QED
  BY <1>1, <1>2, <1>3, <1>4, TypeCorrect, OwnershipInit, OwnershipStep, AccountsInit, TruthInit,
     PTL DEF Spec


--------------------------------------------------------------------------------
(* Refinement                                                              *)

\* A message starts with its one permit, and with a copy at most if it is legacy.
LEMMA PermitsInitMapped == Init => Permits!PermitsInit
<1> SUFFICES ASSUME Init PROVE Permits!PermitsInit
  OBVIOUS
<1>1. \A m \in Messages : denials[m] + Allowance(m) = 1
  BY DEF Init, Allowance
<1>2. ASSUME NEW m \in Messages PROVE Cardinality(accepted[m]) \in {0, 1}
  <2>1. accepted[m] = {} \/ accepted[m] = {1}
    BY DEF Init
  <2> QED
    BY <2>1, FS_EmptySet, FS_Singleton
<1> QED
  BY <1>1, <1>2 DEF Permits!PermitsInit

\* One more permit for one message, and the same for all others, is a grant.
LEMMA OneMoreIsAGrant ==
    ASSUME NEW m \in Messages, UNCHANGED accepted,
           (denials[m] + Allowance(m))' = (denials[m] + Allowance(m)) + 1,
           \A n \in Messages \ {m} :
              (denials[n] + Allowance(n))' = denials[n] + Allowance(n)
    PROVE  Permits!Grant(m)
<1>1. PICK p : p = [n \in Messages |-> denials[n] + Allowance(n)]
  OBVIOUS
<1>2. PICK q : q = [n \in Messages |-> denials[n] + Allowance(n)]'
  OBVIOUS
<1>3. q = [n \in Messages |-> (denials[n] + Allowance(n))']
  BY <1>2
<1>4. q[m] = p[m] + 1 /\ \A n \in Messages \ {m} : q[n] = p[n]
  BY <1>1, <1>3
<1>5. q = [p EXCEPT ![m] = p[m] + 1]
  BY <1>1, <1>3, <1>4
<1> QED
  BY <1>1, <1>2, <1>5 DEF Permits!Grant

\* Every step grants a permit, uses one, or changes neither count.
LEMMA PermitsStepMapped ==
    ASSUME TypeInv, Ownership, Accounts, CopiesAccountedFor', [Next]_vars
    PROVE  [Permits!PermitsNext]_(Permits!pvars)
<1>1. ASSUME NEW m \in Messages, Reconcile(m, "CONFIRM_NOT_SENT")
      PROVE  Permits!Grant(m)
  <2>1. denials' = [denials EXCEPT ![m] = denials[m] + 1] /\ UNCHANGED <<accepted, crowd>>
    BY <1>1 DEF Reconcile
  <2>2. denials'[m] = denials[m] + 1 /\ \A n \in Messages \ {m} : denials'[n] = denials[n]
    BY <2>1 DEF TypeInv
  <2>3. \A n \in Messages : Allowance(n)' = Allowance(n) /\ Allowance(n) \in Nat
    BY <2>1 DEF Allowance, TypeInv
  <2>4. denials'[m] + Allowance(m)' = (denials[m] + Allowance(m)) + 1
    BY <2>2, <2>3 DEF TypeInv
  <2> QED
    BY <2>1, <2>2, <2>3, <2>4, OneMoreIsAGrant
<1>2. ASSUME NEW m \in Messages, NEW a \in called[m], ProviderAccepts(m, a)
      PROVE  Permits!Deliver(m)
  <2>1. /\ accepted' = [accepted EXCEPT ![m] = accepted[m] \cup {a}]
        /\ a \notin accepted[m] /\ UNCHANGED <<denials, crowd>>
    BY <1>2 DEF ProviderAccepts
  <2>2. accepted'[m] = accepted[m] \cup {a} /\ \A n \in Messages \ {m} : accepted'[n] = accepted[n]
    BY <2>1 DEF TypeInv
  <2>3. Cardinality(accepted'[m]) = Cardinality(accepted[m]) + 1
    BY <2>1, <2>2, CopiesPaidFor, FS_AddElement
  <2>4. \A n \in Messages : Allowance(n)' = Allowance(n) /\ Allowance(n) \in Nat
    BY <2>1 DEF Allowance, TypeInv
  <2>5. Cardinality(accepted'[m]) <= denials[m] + Allowance(m)
    BY <2>1, <2>4 DEF CopiesAccountedFor
  <2>6. Cardinality(accepted[m]) < denials[m] + Allowance(m)
    BY <2>3, <2>4, <2>5, CopiesPaidFor DEF TypeInv
  <2>7. [n \in Messages |-> Cardinality(accepted[n])]' =
          [[n \in Messages |-> Cardinality(accepted[n])] EXCEPT ![m] = @ + 1]
    BY <2>2, <2>3
  <2>8. UNCHANGED [n \in Messages |-> denials[n] + Allowance(n)]
    BY <2>1, <2>4
  <2> QED
    BY <2>1, <2>6, <2>7, <2>8 DEF Permits!Deliver
<1>3. ASSUME UNCHANGED <<denials, accepted, crowd>> PROVE UNCHANGED Permits!pvars
  BY <1>3 DEF Permits!pvars, Allowance
<1>4. ASSUME NEW w \in Workers, NEW m \in Messages, Load(w, m)
      PROVE  Permits!Grant(m) \/ UNCHANGED Permits!pvars
  <2>1. UNCHANGED <<denials, accepted>>
    BY <1>4 DEF Load
  <2>2. /\ crowd'[m] = crowd[m] \/ crowd'[m] = crowd[m] + 1
        /\ \A n \in Messages \ {m} : crowd'[n] = crowd[n]
    BY <1>4, LoadCounts
  <2>3. crowd[m] \in Nat /\ \A n \in Messages : denials[n] \in Nat
    BY DEF TypeInv
  <2>4. \A n \in Messages \ {m} : Allowance(n)' = Allowance(n)
    BY <2>2 DEF Allowance
  <2>5. CASE crowd'[m] = crowd[m] + 1 /\ crowd[m] >= 1
    <3>1. Allowance(m)' = Allowance(m) + 1 /\ Allowance(m) \in Nat
      BY <2>3, <2>5 DEF Allowance
    <3>2. denials'[m] + Allowance(m)' = (denials[m] + Allowance(m)) + 1
      BY <2>1, <2>3, <3>1
    <3> QED
      BY <2>1, <2>4, <3>2, OneMoreIsAGrant
  <2>6. CASE crowd'[m] = crowd[m] \/ crowd[m] = 0
    <3>1. Allowance(m)' = Allowance(m)
      BY <2>2, <2>3, <2>6 DEF Allowance
    <3>2. UNCHANGED [n \in Messages |-> denials[n] + Allowance(n)]
      BY <2>1, <2>4, <3>1
    <3> QED
      BY <2>1, <3>2 DEF Permits!pvars
  <2> QED
    BY <2>2, <2>3, <2>5, <2>6
<1>5. ASSUME NEW w \in Workers, WorkerStep(w), ~\E m \in Messages : Load(w, m)
      PROVE  UNCHANGED <<denials, accepted, crowd>>
  <2>1. (\E m \in Messages : Retry(w, m)) => UNCHANGED <<denials, accepted, crowd>>
    BY Zenon DEF Retry
  <2>2. ResumeClaim(w) \/ NoConnection(w) \/ Crash(w) => UNCHANGED <<denials, accepted, crowd>>
    BY DEF ResumeClaim, NoConnection, Crash
  <2>3. Mark(w) \/ KeepClaim(w) \/ NotInvoked(w) \/ Call(w) => UNCHANGED <<denials, accepted, crowd>>
    BY DEF Mark, KeepClaim, NotInvoked, Call
  <2>4. \A o : Answer(w, o) \/ Record(w) => UNCHANGED <<denials, accepted, crowd>>
    BY DEF Answer, Record
  <2> QED
    BY <1>5, <2>1, <2>2, <2>3, <2>4 DEF WorkerStep
<1>6. \A m \in Messages, d \in Decisions \ {"CONFIRM_NOT_SENT"} :
         Reconcile(m, d) => UNCHANGED <<denials, accepted, crowd>>
  BY DEF Reconcile
<1>7. \A m \in Messages : LeaseLapses(m) => UNCHANGED <<denials, accepted, crowd>>
  BY DEF LeaseLapses
<1>8. UNCHANGED vars => UNCHANGED <<denials, accepted, crowd>>
  BY DEF vars
<1> QED
  BY <1>1, <1>2, <1>3, <1>4, <1>5, <1>6, <1>7, <1>8 DEF Next, MessageStep, Permits!PermitsNext

\* Whatever is delivered was permitted: the delivery code implements the
\* permit protocol.
THEOREM DeliveryImplementsPermits == Spec => ImplementsPermits
<1>1. TypeInv <=> TypeOK
  BY DEF TypeInv, TypeOK, WorkerRecord
<1>2. TypeInv /\ Ownership /\ Accounts /\ [Next]_vars => Accounts'
  BY AccountsStep
<1>3. TypeInv /\ Ownership /\ Accounts /\ CopiesAccountedFor' /\ [Next]_vars
      => [Permits!PermitsNext]_(Permits!pvars)
  BY PermitsStepMapped
<1>4. Spec => []CopiesAccountedFor
  BY CopiesAccountedForHolds
<1> QED
  BY <1>1, <1>2, <1>3, <1>4, TypeCorrect, OwnershipInit, OwnershipStep, AccountsInit,
     PermitsInitMapped, PTL DEF Spec, ImplementsPermits, Permits!PermitsSpec
================================================================================
