------------------------ MODULE KnowledgeAnswers_proofs ------------------------
(***************************************************************************)
(* What holds of a store's knowledge and of the answers made from it, for  *)
(* any rows, managers and conversations.                                   *)
(*                                                                         *)
(* A row that a manager has opened is as the row was at some time: if it   *)
(* has the row's revision it is the row, and a request that has passed its *)
(* checks is about the row that its manager has open (OpenedArePast).      *)
(*                                                                         *)
(* The length of a prompt is a sum over a set, which the model leaves to   *)
(* FoldSet. That a sum exists, and grows with its set, is what             *)
(* LengthGrows says; PlacesInv and BudgetInv follow a piece from the time  *)
(* it finds no room to the end.                                            *)
(***************************************************************************)
EXTENDS KnowledgeAnswers, FiniteSetTheorems, WellFoundedInduction, TLAPS

Names == {None, Reserved} \cup UNION {NamesOf[e] : e \in Rows}

RowOf ==
    [status : {"none", "draft", "published", "archived"}, revision : Nat, name : Names,
     text : Texts]

Calls == [on : Rows \cup {None}, op : {"none", "create", "update", "answers", "transition"},
          was : RowOf, now : RowOf]

Typed ==
    /\ row \in [Rows -> RowOf]
    /\ page \in [Managers -> [on : Rows \cup {None}, row : RowOf]]
    /\ call \in [Managers -> Calls]

OpenedArePast ==
    /\ \A m \in Managers : page[m].on \in Rows =>
          /\ page[m].row.revision <= row[page[m].on].revision
          /\ page[m].row.revision = row[page[m].on].revision => page[m].row = row[page[m].on]
    /\ \A m \in Managers : call[m] # NoCall =>
          /\ call[m].on \in Rows /\ page[m].on = call[m].on /\ page[m].row = call[m].was
          /\ call[m].now.revision = call[m].was.revision + 1

KnowledgeInv == Typed /\ OpenedArePast

--------------------------------------------------------------------------------
(* What managers do                                                        *)

LEMMA NoRowTyped ==
    /\ NoRow \in RowOf /\ NoRow.revision = 0 /\ NoRow.status = "none"
    /\ NoPage \in [on : Rows \cup {None}, row : RowOf] /\ NoCall \in Calls
    /\ NoPage.row = NoRow
BY DEF NoRow, Row, RowOf, Names, Texts, NoPage, NoCall, Calls

LEMMA RowTyped ==
    ASSUME NEW e \in Rows, NEW name \in Names, NEW text \in Sayable(e)
    PROVE  Row("draft", 0, name, text) \in RowOf
BY DEF Sayable, Row, RowOf, Texts

\* A request that passes its checks is about the row that its manager has open.
LEMMA StartKeeps ==
    ASSUME KnowledgeInv, NEW m \in Managers, NEW now \in RowOf, page[m].on \in Rows,
           NEW op \in {"create", "update", "answers", "transition"}, Start(m, op, now)
    PROVE  KnowledgeInv'
<1> DEFINE e == page[m].on
           next == [now EXCEPT !.revision = row[e].revision + 1]
           new == [on |-> e, op |-> op, was |-> row[e], now |-> next]
<1>1. row[e] \in RowOf
  BY DEF KnowledgeInv, Typed
<1>2. next \in RowOf /\ next.revision = row[e].revision + 1
  BY <1>1 DEF RowOf
<1> HIDE DEF next
<1>3. new \in Calls /\ new.on = e /\ new.was = row[e] /\ new.now = next
  BY <1>1, <1>2 DEF Calls
<1>4. call' = [call EXCEPT ![m] = new] /\ UNCHANGED <<row, page>>
  BY DEF Start, next
<1>5. row[e] = page[m].row
  BY DEF Start, Matches, KnowledgeInv, OpenedArePast
<1> HIDE DEF new
<1>6. call'[m] = new /\ \A n \in Managers \ {m} : call'[n] = call[n]
  BY <1>4 DEF KnowledgeInv, Typed
<1>7. Typed'
  BY <1>3, <1>4 DEF KnowledgeInv, Typed
<1>8. OpenedArePast'
  BY <1>2, <1>3, <1>4, <1>5, <1>6 DEF KnowledgeInv, OpenedArePast
<1> QED
  BY <1>7, <1>8 DEF KnowledgeInv

LEMMA OpenKeeps ==
    ASSUME KnowledgeInv, NEW m \in Managers, NEW e \in Rows, Open(m, e)
    PROVE  KnowledgeInv'
<1> DEFINE new == [on |-> e, row |-> row[e]]
<1>1. new \in [on : Rows \cup {None}, row : RowOf] /\ new.on = e /\ new.row = row[e]
      /\ row[e].revision \in Nat
  BY DEF KnowledgeInv, Typed, RowOf
<1>2. page' = [page EXCEPT ![m] = new] /\ UNCHANGED <<row, call>> /\ call[m] = NoCall
  BY DEF Open
<1> HIDE DEF new
<1>3. page'[m] = new /\ \A n \in Managers \ {m} : page'[n] = page[n]
  BY <1>2 DEF KnowledgeInv, Typed
<1>4. Typed'
  BY <1>1, <1>2 DEF KnowledgeInv, Typed
<1>5. OpenedArePast'
  BY <1>1, <1>2, <1>3 DEF KnowledgeInv, OpenedArePast
<1> QED
  BY <1>4, <1>5 DEF KnowledgeInv

LEMMA CommitKeeps ==
    ASSUME KnowledgeInv, NEW m \in Managers, Commit(m)
    PROVE  KnowledgeInv'
<1> DEFINE e == call[m].on
<1>1. /\ e \in Rows /\ call[m] \in Calls /\ row[e] \in RowOf
      /\ call[m].now.revision = call[m].was.revision + 1
  BY DEF Commit, KnowledgeInv, Typed, OpenedArePast
<1>2. \/ row' = row
      \/ row' = [row EXCEPT ![e] = call[m].now] /\ row[e].revision = call[m].was.revision
  BY DEF Commit, Unmoved
<1>3. /\ call' = [call EXCEPT ![m] = NoCall] /\ page' = [page EXCEPT ![m] = NoPage]
  BY DEF Commit
<1>4. /\ call'[m] = NoCall /\ page'[m] = NoPage
      /\ \A n \in Managers \ {m} : call'[n] = call[n] /\ page'[n] = page[n]
  BY <1>3 DEF KnowledgeInv, Typed
<1>5. row' \in [Rows -> RowOf]
  BY <1>1, <1>2 DEF KnowledgeInv, Typed, Calls
<1>6. Typed'
  BY <1>3, <1>5, NoRowTyped DEF KnowledgeInv, Typed
<1>7. \A f \in Rows : row'[f] = row[f] \/ row'[f].revision = row[f].revision + 1
  BY <1>1, <1>2 DEF KnowledgeInv, Typed
<1>8. ASSUME NEW n \in Managers, page'[n].on \in Rows
      PROVE  /\ page'[n].row.revision <= row'[page'[n].on].revision
             /\ page'[n].row.revision = row'[page'[n].on].revision
                  => page'[n].row = row'[page'[n].on]
  <2>1. CASE n = m
    <3>1. page'[n].row = NoRow /\ page'[n].on = None
      BY <1>4, <2>1, NoRowTyped DEF NoPage
    <3> QED
      BY <1>8, <3>1, KnowledgeAssumption DEF KnowledgeAssumption
  <2>2. CASE n # m
    <3>1. page'[n] = page[n] /\ page[n].row.revision \in Nat
          /\ row[page[n].on].revision \in Nat
      BY <1>4, <1>8, <2>2 DEF KnowledgeInv, Typed, RowOf
    <3> QED
      BY <1>7, <1>8, <3>1 DEF KnowledgeInv, OpenedArePast
  <2> QED
    BY <2>1, <2>2
<1>9. OpenedArePast'
  BY <1>4, <1>8 DEF KnowledgeInv, OpenedArePast
<1> QED
  BY <1>6, <1>9 DEF KnowledgeInv

\* m's request passes its checks.
Begins(m) ==
    \E now \in RowOf, op \in {"create", "update", "answers", "transition"} :
       page[m].on \in Rows /\ Start(m, op, now)

\* Every other step of a manager begins with the checks of a request.
LEMMA ManageStarts ==
    ASSUME KnowledgeInv, NEW m \in Managers, Manage(m), ~Commit(m),
           ~ \E e \in Rows : Open(m, e)
    PROVE  Begins(m)
<1>1. ASSUME NEW e \in Rows, NEW kind, NEW name \in Names, NEW text,
             Create(m, e, kind, name, text) \/ ApplyUpdate(m, e, kind, name, text)
      PROVE  Begins(m)
  <2>1. text \in Sayable(e)
    BY <1>1 DEF Create, ApplyUpdate
  <2>2. Row("draft", 0, name, text) \in RowOf
    BY <2>1, RowTyped
  <2> QED
    BY <1>1, <2>2 DEF Create, ApplyUpdate, Begins
<1>2. ASSUME NEW e \in Rows, SaveAnswers(m, e) PROVE Begins(m)
  <2>1. Row("draft", 0, Reserved, "answers") \in RowOf
    BY DEF Row, RowOf, Texts, Names
  <2> QED
    BY <1>2, <2>1 DEF SaveAnswers, Begins
<1>3. ASSUME NEW e \in Rows, NEW to \in {"draft", "published", "archived"}, Transition(m, e, to)
      PROVE  Begins(m)
  <2>1. [row[e] EXCEPT !.status = to] \in RowOf
    BY DEF KnowledgeInv, Typed, RowOf
  <2> QED
    BY <1>3, <2>1 DEF Transition, Begins
<1>4. None \in Names /\ \A e \in Rows : NamesOf[e] \subseteq Names /\ row[e].name \in Names
  BY DEF Names, KnowledgeInv, Typed, RowOf
<1>5. CASE Profiles(m)
  BY <1>1, <1>3, <1>4, <1>5 DEF Profiles, OpenOrMove, CreateProfile, UpdateProfile
<1>6. CASE Policies(m) \/ Faqs(m)
  BY <1>1, <1>3, <1>4, <1>6
     DEF Policies, Faqs, OpenOrMove, CreatePolicy, UpdatePolicy, CreateFaq, UpdateFaq
<1>7. CASE Entries(m)
  BY <1>1, <1>3, <1>4, <1>7 DEF Entries, OpenOrMove, CreateEntry, UpdateEntry
<1>8. CASE IndustryProfile(m)
  BY <1>2, <1>8 DEF IndustryProfile
<1> QED
  BY <1>5, <1>6, <1>7, <1>8 DEF Manage

LEMMA KnowledgeNextKeeps ==
    ASSUME KnowledgeInv, KnowledgeNext
    PROVE  KnowledgeInv'
<1>1. ASSUME NEW m \in Managers, Manage(m) PROVE KnowledgeInv'
  BY <1>1, ManageStarts, StartKeeps, OpenKeeps, CommitKeeps DEF Begins
<1>2. ASSUME NEW to, ChangeStanding(to) PROVE KnowledgeInv'
  BY <1>2 DEF ChangeStanding, KnowledgeInv, Typed, OpenedArePast
<1> QED
  BY <1>1, <1>2 DEF KnowledgeNext

LEMMA KnowledgeInitKeeps == KnowledgeInit => KnowledgeInv
<1> SUFFICES ASSUME KnowledgeInit PROVE KnowledgeInv
  OBVIOUS
<1>1. row \in [Rows -> RowOf]
  <2>1. \A e \in DOMAIN Published : \A text \in {"answers", "prose"} :
           Row("published", 2, Published[e], text) \in RowOf
    BY KnowledgeAssumption DEF KnowledgeAssumption, Row, RowOf, Names, Texts
  <2> QED
    BY <2>1, NoRowTyped DEF KnowledgeInit
<1>2. Typed
  BY <1>1, NoRowTyped DEF KnowledgeInit, Typed
<1>3. NoPage.on = None
  BY DEF NoPage
<1> QED
  BY <1>2, <1>3, KnowledgeAssumption
     DEF KnowledgeInit, KnowledgeInv, OpenedArePast, KnowledgeAssumption

\* A row changes as its manager has seen it.
LEMMA KnowledgeSteps ==
    ASSUME KnowledgeInv, KnowledgeNext, NEW e \in Rows, row'[e] # row[e]
    PROVE  \E m \in Managers : page[m] = [on |-> e, row |-> row[e]] /\ call'[m] # call[m]
<1>1. PICK m \in Managers : Commit(m)
  <2>1. \A m \in Managers : Manage(m) => Commit(m)
    <3> SUFFICES ASSUME NEW m \in Managers, Manage(m), ~Commit(m) PROVE FALSE
      OBVIOUS
    <3>1. ~ \E f \in Rows : Open(m, f)
      BY DEF Open
    <3> QED
      BY <3>1, ManageStarts DEF Begins, Start
  <2>2. \A to : ~ChangeStanding(to)
    BY DEF ChangeStanding
  <2> QED
    BY <2>1, <2>2 DEF KnowledgeNext
<1>2. /\ call[m] # NoCall /\ call'[m] = NoCall
      /\ call[m].on = e /\ row[e].revision = call[m].was.revision
  BY <1>1 DEF Commit, Unmoved, KnowledgeInv, Typed
<1>3. page[m].on = e /\ page[m].row.revision = row[e].revision
  BY <1>2 DEF KnowledgeInv, OpenedArePast
<1>4. page[m].row = row[e]
  BY <1>3 DEF KnowledgeInv, OpenedArePast
<1>5. page[m] = [on |-> e, row |-> row[e]]
  BY <1>3, <1>4 DEF KnowledgeInv, Typed
<1> QED
  BY <1>2, <1>5

--------------------------------------------------------------------------------
(* Answers                                                                 *)

\* What has been read was public, and what is public now is noted while rows are read.
PublishedInv ==
    /\ DOMAIN found = Rows \cup Products
    /\ stage = "idle" => \A e \in Rows : found[e] = NoRow
    /\ stage \in Looking => Visible \subseteq shown
    /\ AnswerWasPublished

\* The messages that have a place begin with a turn.
TurnsInv == from \in Nat /\ from >= 1 /\ (from <= Len(history) => TurnAt(from))

AnswerInv == PublishedInv /\ TurnsInv

LEMMA AnswerKeeps ==
    ASSUME AnswerInv, Answer
    PROVE  AnswerInv'
<1>1. ASSUME NEW h \in Histories, Ask(h) PROVE AnswerInv'
  <2>1. PublishedInv'
    BY <1>1 DEF Ask, AnswerInv, PublishedInv, AnswerWasPublished, Visible, knowledgeVars
  <2>2. TurnsInv'
    <3>1. Len(h) \in Nat
      BY AnswersAssumption DEF AnswersAssumption
    <3> QED
      BY <1>1, <3>1 DEF Ask, TurnsInv
  <2> QED
    BY <2>1, <2>2 DEF AnswerInv
<1>2. ASSUME Read PROVE AnswerInv'
  <2>1. UNCHANGED <<knowledgeVars, history, from, shown>> /\ stage \in Looking
    BY <1>2 DEF Read, ResolveScope, ReadProducts, ReadRows, Looking
  <2>2. stage' # "idle"
    BY <1>2 DEF Read, ResolveScope, ReadProducts, ReadRows, Following
  <2>3. DOMAIN found' = DOMAIN found
    BY <1>2 DEF Read, ResolveScope, ReadProducts, ReadRows
  <2>4. \A e \in Rows :
           found'[e] = found[e] \/ (found'[e] = row[e] /\ row[e].status = "published")
    <3>1. CASE ResolveScope
      BY <3>1 DEF ResolveScope
    <3>2. CASE ReadProducts
      <4>1. PICK ps \in SUBSET Products :
               found' = [x \in DOMAIN found |->
                            IF x \in ps THEN Row("published", 1, None, "prose") ELSE found[x]]
        BY <3>2 DEF ReadProducts
      <4>2. \A e \in Rows : e \notin ps /\ e \in DOMAIN found
        BY AnswersAssumption DEF AnswersAssumption, AnswerInv, PublishedInv
      <4> QED
        BY <4>1, <4>2
    <3>3. CASE ReadRows
      BY <3>3 DEF ReadRows, Selected, AnswerInv, PublishedInv
    <3> QED
      BY <1>2, <3>1, <3>2, <3>3 DEF Read
  <2>5. PublishedInv'
    BY <2>1, <2>2, <2>3, <2>4
       DEF AnswerInv, PublishedInv, AnswerWasPublished, Visible, knowledgeVars
  <2>6. TurnsInv'
    BY <2>1 DEF AnswerInv, TurnsInv, TurnAt
  <2> QED
    BY <2>5, <2>6 DEF AnswerInv
<1>3. ASSUME Match \/ Fit PROVE AnswerInv'
  <2>1. UNCHANGED <<knowledgeVars, found, history, shown>> /\ stage' \notin Looking \cup {"idle"}
    BY <1>3 DEF Match, Fit, RefuseMandatory, TryNext, AllTried, TakeTurn, Build, Looking
  <2>2. from' = from \/ (from' \in 1 .. from - 1 /\ TurnAt(from'))
    BY <1>3 DEF Match, Fit, RefuseMandatory, TryNext, AllTried, TakeTurn, Build, IsNextTurn
  <2>3. PublishedInv'
    BY <2>1 DEF AnswerInv, PublishedInv, AnswerWasPublished
  <2>4. TurnsInv'
    BY <2>1, <2>2 DEF AnswerInv, TurnsInv, TurnAt
  <2> QED
    BY <2>3, <2>4 DEF AnswerInv
<1> QED
  BY <1>1, <1>2, <1>3 DEF Answer

LEMMA WriteKeeps == ASSUME AnswerInv, Write PROVE AnswerInv'
<1>1. PublishedInv'
  BY DEF Write, AnswerInv, PublishedInv, AnswerWasPublished
<1>2. TurnsInv'
  BY DEF Write, AnswerInv, TurnsInv, TurnAt
<1> QED
  BY <1>1, <1>2 DEF AnswerInv

--------------------------------------------------------------------------------
(* Lengths of sets                                                         *)

Pieces == Rows \cup Products

Any(s) == CHOOSE x \in s : TRUE

\* g[s] is the length of s, added up one by one, for every subset s of S.
Sums(g, S) ==
    g = [s \in SUBSET S |-> IF s = {} THEN 0 ELSE Size[Any(s)] + g[s \ {Any(s)}]]

LEMMA LengthIsASum ==
    ASSUME NEW S, NEW g, Sums(g, S)
    PROVE  \E h : Sums(h, S) /\ Length(S) = h[S]
<1> DEFINE h == CHOOSE iter : iter = [s \in SUBSET S |->
                   IF s = {} THEN 0
                   ELSE LET x == CHOOSE x \in s : TRUE IN Size[x] + iter[s \ {x}]]
<1>1. Length(S) = h[S]
  BY DEF Length, MapThenSumSet, MapThenFoldSet
<1>2. Sums(h, S)
  BY DEF Sums, Any
<1> QED
  BY <1>1, <1>2

LEMMA AnyIn == ASSUME NEW s, s # {} PROVE Any(s) \in s
BY DEF Any

\* A nonempty set of numbers has a least element.
LEMMA LeastOf ==
    ASSUME NEW T, T \subseteq Nat, T # {}
    PROVE  \E x \in T : \A y \in T : x <= y
<1>1. PICK x \in T : \A y \in T : ~ (<<y, x>> \in OpToRel(<, Nat))
  BY NatLessThanWellFounded, WFMin
<1>2. \A y \in T : ~ (y < x)
  BY <1>1 DEF OpToRel
<1> QED
  BY <1>2

\* Among sets of pieces there is one that no other of them is a part of.
LEMMA SmallestSet ==
    ASSUME NEW C \in SUBSET SUBSET Pieces, C # {}
    PROVE  \E s \in C : \A t \in C : t \subseteq s => t = s
<1>1. \A s \in SUBSET Pieces : IsFiniteSet(s)
  BY AnswersAssumption, FS_Subset DEF Pieces
<1>2. C \subseteq FiniteSubsetsOf(Pieces)
  BY <1>1 DEF FiniteSubsetsOf
<1>3. PICK s \in C : \A t \in C : <<t, s>> \notin StrictSubsetOrdering(Pieces)
  BY <1>2, WFMin, FS_StrictSubsetOrderingWellFounded
<1>4. ASSUME NEW t \in C, t \subseteq s PROVE t = s
  BY <1>3, <1>4 DEF StrictSubsetOrdering
<1> QED
  BY <1>4

\* What is added up is unique ...
LEMMA SumsUnique ==
    ASSUME NEW S \in SUBSET Pieces, NEW T \in SUBSET Pieces, NEW g, NEW h,
           Sums(g, S), Sums(h, T)
    PROVE  \A s \in SUBSET (S \cap T) : g[s] = h[s]
<1> DEFINE Bad == {s \in SUBSET (S \cap T) : g[s] # h[s]}
<1> SUFFICES ASSUME Bad # {} PROVE FALSE
  OBVIOUS
<1>1. PICK s \in Bad : \A t \in Bad : t \subseteq s => t = s
  <2>1. Bad \in SUBSET SUBSET Pieces
    OBVIOUS
  <2> HIDE DEF Bad
  <2> QED  BY <2>1, SmallestSet
<1>2. CASE s = {}
  <2>1. g[s] = 0 /\ h[s] = 0
    BY <1>2 DEF Sums
  <2> QED  BY <2>1
<1>3. CASE s # {}
  <2> DEFINE a == Any(s)
  <2>1. a \in s
    BY <1>3, AnyIn
  <2>2. g[s] = Size[a] + g[s \ {a}] /\ h[s] = Size[a] + h[s \ {a}]
    <3>1. s \in SUBSET S /\ s \in SUBSET T
      OBVIOUS
    <3> QED  BY <1>3, <3>1 DEF Sums
  <2> HIDE DEF a
  <2>3. s \ {a} \in SUBSET (S \cap T) /\ s \ {a} # s
    BY <2>1
  <2>4. g[s \ {a}] = h[s \ {a}]
    BY <1>1, <2>3
  <2> QED  BY <2>2, <2>4
<1> QED  BY <1>2, <1>3

AddsUp(g, s) == g[s] \in Nat /\ \A x \in s : g[s] = Size[x] + g[s \ {x}]

\* ... and a number, the same whichever piece is added last.
LEMMA SumsAdd ==
    ASSUME NEW S \in SUBSET Pieces, NEW g, Sums(g, S)
    PROVE  \A s \in SUBSET S : AddsUp(g, s)
<1> DEFINE Good(s) == g[s] \in Nat /\ \A x \in s : g[s] = Size[x] + g[s \ {x}]
           Bad == {s \in SUBSET S : ~Good(s)}
<1> SUFFICES ASSUME Bad # {} PROVE FALSE
  BY DEF AddsUp
<1>0. \A x \in S : Size[x] \in Nat
  BY AnswersAssumption DEF Pieces
<1>1. PICK s \in Bad : \A t \in Bad : t \subseteq s => t = s
  <2>1. Bad \in SUBSET SUBSET Pieces
    OBVIOUS
  <2> HIDE DEF Bad
  <2> QED  BY <2>1, SmallestSet
<1>2. ASSUME NEW x \in s PROVE Good(s \ {x})
  <2>1. s \ {x} \in SUBSET S /\ s \ {x} # s
    OBVIOUS
  <2> HIDE DEF Good
  <2> QED  BY <1>1, <2>1
<1>3. CASE s = {}
  <2>1. g[s] = 0
    BY <1>3 DEF Sums
  <2> QED  BY <1>3, <2>1
<1>4. CASE s # {}
  <2> DEFINE a == Any(s)
  <2>1. a \in s
    BY <1>4, AnyIn
  <2>2. g[s] = Size[a] + g[s \ {a}]
    BY <1>4 DEF Sums
  <2> HIDE DEF a
  <2>3. g[s \ {a}] \in Nat /\ Size[a] \in Nat
    BY <1>0, <1>2, <2>1
  <2>4. ASSUME NEW x \in s PROVE g[s] = Size[x] + g[s \ {x}]
    <3>1. CASE x = a
      BY <2>2, <3>1
    <3>2. CASE x # a
      <4>1. x \in s \ {a} /\ a \in s \ {x}
        BY <2>1, <3>2
      <4>2. (s \ {a}) \ {x} = (s \ {x}) \ {a}
        OBVIOUS
      <4>3. g[s \ {a}] = Size[x] + g[(s \ {a}) \ {x}]
        BY <1>2, <2>1, <4>1
      <4>4. g[s \ {x}] = Size[a] + g[(s \ {x}) \ {a}]
        BY <1>2, <4>1
      <4>5. (s \ {a}) \ {x} \in SUBSET S /\ (s \ {a}) \ {x} # s /\ (s \ {a}) \ {x} \subseteq s
        BY <2>1
      <4>6. Good((s \ {a}) \ {x})
        <5> HIDE DEF Good
        <5> QED  BY <1>1, <4>5
      <4>7. g[(s \ {a}) \ {x}] \in Nat /\ Size[x] \in Nat /\ Size[a] \in Nat
        BY <1>0, <2>1, <4>6
      <4>8. g[s \ {x}] = Size[a] + g[(s \ {a}) \ {x}]
        BY <4>2, <4>4
      <4> DEFINE n == g[(s \ {a}) \ {x}]
                 k == Size[x]
                 l == Size[a]
      <4>9. n \in Nat /\ k \in Nat /\ l \in Nat /\ g[s] = l + (k + n) /\ g[s \ {x}] = l + n
        BY <2>2, <4>3, <4>7, <4>8
      <4> HIDE DEF n, k, l
      <4>10. g[s] = k + g[s \ {x}]
        BY <4>9
      <4> QED  BY <4>10 DEF k
    <3> QED  BY <3>1, <3>2
  <2>5. g[s] \in Nat
    BY <2>2, <2>3
  <2>6. Good(s)
    BY <2>4, <2>5
  <2> QED  BY <2>6
<1> QED  BY <1>3, <1>4

\* There is such a sum, if only for sets of up to n pieces ...
LEMMA SumsUpTo ==
    ASSUME NEW S \in SUBSET Pieces, NEW n \in Nat
    PROVE  \E g : g = [s \in {t \in SUBSET S : Cardinality(t) <= n} |->
                          IF s = {} THEN 0 ELSE Size[Any(s)] + g[s \ {Any(s)}]]
<1> DEFINE Small(m) == {t \in SUBSET S : Cardinality(t) <= m}
           IsSum(g, m) == g = [s \in Small(m) |->
                                 IF s = {} THEN 0 ELSE Size[Any(s)] + g[s \ {Any(s)}]]
           Bad == {m \in Nat : ~ \E g : IsSum(g, m)}
<1>0. \A t \in SUBSET S : IsFiniteSet(t) /\ Cardinality(t) \in Nat
  BY AnswersAssumption, FS_Subset, FS_CardinalityType DEF Pieces
<1>1. SUFFICES ASSUME n \in Bad PROVE FALSE
  OBVIOUS
<1>2. PICK m \in Bad : \A k \in Bad : m <= k
  <2>1. Bad \subseteq Nat /\ Bad # {}
    BY <1>1
  <2> HIDE DEF Bad
  <2> QED  BY <2>1, LeastOf
<1>3. CASE m = 0
  <2>1. \A s \in Small(0) : s = {}
    BY <1>0, FS_EmptySet
  <2>2. IsSum([s \in Small(0) |-> 0], 0)
    BY <2>1
  <2> QED  BY <1>3, <2>2
<1>4. CASE m # 0
  <2>1. m - 1 \in Nat /\ m - 1 \notin Bad
    <3>1. m \in Nat
      OBVIOUS
    <3> HIDE DEF Bad
    <3>2. m - 1 \in Nat /\ ~(m <= m - 1)
      BY <1>4, <3>1
    <3> QED  BY <1>2, <3>2
  <2>2. PICK g : IsSum(g, m - 1)
    BY <2>1
  <2> DEFINE h == [s \in Small(m) |-> IF s = {} THEN 0 ELSE Size[Any(s)] + g[s \ {Any(s)}]]
  <2>3. ASSUME NEW s \in Small(m), s # {} PROVE h[s \ {Any(s)}] = g[s \ {Any(s)}]
    <3> DEFINE t == s \ {Any(s)}
    <3>1. Cardinality(t) = Cardinality(s) - 1 /\ t \in SUBSET S
      BY <1>0, <2>3, AnyIn, FS_RemoveElement
    <3> HIDE DEF t
    <3>2. t \in Small(m - 1) /\ t \in Small(m)
      BY <1>0, <2>1, <3>1
    <3>3. g[t] = IF t = {} THEN 0 ELSE Size[Any(t)] + g[t \ {Any(t)}]
      BY <2>2, <3>2
    <3>4. h[t] = IF t = {} THEN 0 ELSE Size[Any(t)] + g[t \ {Any(t)}]
      BY <3>2
    <3> QED  BY <3>3, <3>4 DEF t
  <2>4. IsSum(h, m)
    BY <2>3
  <2> QED  BY <2>4
<1> QED  BY <1>3, <1>4

\* ... and they are all of that kind.
LEMMA SumsExist ==
    ASSUME NEW S \in SUBSET Pieces
    PROVE  \E g : Sums(g, S)
<1>1. IsFiniteSet(S) /\ Cardinality(S) \in Nat
  BY AnswersAssumption, FS_Subset, FS_CardinalityType DEF Pieces
<1>2. {t \in SUBSET S : Cardinality(t) <= Cardinality(S)} = SUBSET S
  BY <1>1, FS_Subset
<1>3. PICK g : g = [s \in {t \in SUBSET S : Cardinality(t) <= Cardinality(S)} |->
                      IF s = {} THEN 0 ELSE Size[Any(s)] + g[s \ {Any(s)}]]
  BY <1>1, SumsUpTo
<1>4. Sums(g, S)
  BY <1>2, <1>3 DEF Sums
<1> QED  BY <1>4

\* What a piece adds to the length of a set, whatever else is in it.
LEMMA LengthAdds ==
    ASSUME NEW s \in SUBSET Pieces
    PROVE  Length(s) \in Nat /\ \A x \in s : Length(s) = Size[x] + Length(s \ {x})
<1>1. PICK g : Sums(g, Pieces)
  BY SumsExist
<1>2. ASSUME NEW t \in SUBSET Pieces PROVE Length(t) = g[t]
  <2>1. PICK h : Sums(h, t) /\ Length(t) = h[t]
    BY LengthIsASum, SumsExist
  <2> QED  BY <1>1, <2>1, SumsUnique
<1>3. g[s] \in Nat /\ \A x \in s : g[s] = Size[x] + g[s \ {x}]
  <2>1. Pieces \in SUBSET Pieces
    OBVIOUS
  <2>2. \A t \in SUBSET Pieces : AddsUp(g, t)
    BY <1>1, <2>1, SumsAdd
  <2> QED  BY <2>2 DEF AddsUp
<1>4. ASSUME NEW x \in s PROVE Length(s) = Size[x] + Length(s \ {x})
  <2>1. s \ {x} \in SUBSET Pieces
    OBVIOUS
  <2>2. Length(s \ {x}) = g[s \ {x}]
    BY <1>2, <2>1
  <2> QED  BY <1>2, <1>3, <2>2
<1>5. Length(s) \in Nat
  BY <1>2, <1>3
<1> QED  BY <1>4, <1>5

\* A set is no shorter than its parts.
LEMMA LengthGrows ==
    ASSUME NEW s \in SUBSET Pieces, NEW t \in SUBSET s
    PROVE  Length(t) <= Length(s)
<1> DEFINE Bad == {u \in SUBSET s : t \subseteq u /\ ~(Length(t) <= Length(u))}
<1> SUFFICES ASSUME Bad # {} PROVE FALSE
  OBVIOUS
<1>1. PICK u \in Bad : \A w \in Bad : w \subseteq u => w = u
  <2>1. Bad \in SUBSET SUBSET Pieces
    OBVIOUS
  <2> HIDE DEF Bad
  <2> QED  BY <2>1, SmallestSet
<1>2. CASE u = t
  <2>1. Length(t) \in Nat
    BY LengthAdds
  <2> QED  BY <1>2, <2>1
<1>3. CASE u # t
  <2>1. PICK x \in u : x \notin t
    BY <1>3
  <2>2. u \ {x} \in SUBSET s /\ t \subseteq u \ {x} /\ u \ {x} # u
    BY <2>1
  <2>3. Length(t) <= Length(u \ {x})
    BY <1>1, <2>2
  <2>4. Length(u) = Size[x] + Length(u \ {x})
    BY LengthAdds
  <2>5. Length(u) \in Nat /\ Length(t) \in Nat /\ Length(u \ {x}) \in Nat /\ Size[x] \in Nat
    BY LengthAdds, AnswersAssumption DEF Pieces
  <2>6. ~(Length(t) <= Length(u))
    OBVIOUS
  <2> HIDE DEF Bad
  <2> QED  BY <2>3, <2>4, <2>5, <2>6
<1> QED  BY <1>2, <1>3

--------------------------------------------------------------------------------
(* The budget                                                              *)

Candidates == UNION {Best(match, k) : k \in {"product", "faq", "entry"}}

\* Nothing has a place before the candidates are tried; then, what has been tried and has
\* none does not fit beside what has one. Of the turns, the newest have a place.
PlacesInv ==
    /\ DOMAIN found = Pieces /\ DOMAIN match = Pieces
    /\ kept \in SUBSET Pieces /\ left \in SUBSET Pieces
    /\ Len(history) \in Nat /\ from \in 1 .. Len(history) + 1
    /\ stage \in Looking \cup {"idle", "match"} => kept = {}
    /\ stage \in Looking \cup {"idle", "match", "fit"} => from = NoMessages

BudgetInv ==
    /\ stage = "fit" =>
          /\ kept # {} => Estimate(kept, NoMessages) <= Budget
          /\ \A x \in Candidates \ (kept \cup left) : Estimate(kept \cup {x}, NoMessages) > Budget
    /\ stage \in {"turns", "built"} =>
          /\ Estimate(kept, from) <= Budget
          /\ \A x \in Candidates \ kept : Estimate(kept \cup {x}, NoMessages) > Budget
    /\ stage = "built" =>
          \A i \in 1 .. from - 1 : IsNextTurn(i) => Estimate(kept, i) > Budget

LEMMA BestIn ==
    ASSUME PlacesInv, NEW m, NEW kind
    PROVE  Best(m, kind) \in SUBSET Pieces
BY DEF PlacesInv, Best, Found

LEMMA MandatoryIsNumber == ASSUME PlacesInv PROVE Mandatory \in Nat
<1>1. Profile \in SUBSET Pieces /\ Industry \in SUBSET Pieces /\ Best(match, "policy") \in SUBSET Pieces
  BY BestIn DEF PlacesInv, Profile, Industry, Found
<1>2. Length(Profile) \in Nat /\ Length(Industry) \in Nat /\ Length(Best(match, "policy")) \in Nat
  BY <1>1, LengthAdds
<1> QED
  BY <1>2, AnswersAssumption DEF Mandatory

\* What is estimated depends on what has been found, how it matches and the messages.
LEMMA SameEstimates ==
    ASSUME UNCHANGED <<found, match, history>>
    PROVE  Mandatory' = Mandatory /\ Candidates' = Candidates
BY DEF Mandatory, Profile, Industry, Candidates, Best, Found

LEMMA PlacesStep ==
    ASSUME PlacesInv, [Next]_vars
    PROVE  PlacesInv'
<1>1. CASE Write
  BY <1>1 DEF Write, PlacesInv, Looking, NoMessages
<1>2. ASSUME NEW h \in Histories, Ask(h) PROVE PlacesInv'
  <2>1. Len(h) \in Nat
    BY AnswersAssumption
  <2> QED  BY <1>2, <2>1 DEF Ask, PlacesInv, Looking, NoMessages
<1>3. CASE Read
  <2>1. /\ stage \in Looking /\ stage' \in Looking \cup {"match", "refused"}
        /\ DOMAIN found' = DOMAIN found
        /\ UNCHANGED <<match, kept, left, history, from>>
    BY <1>3 DEF Read, ResolveScope, ReadProducts, ReadRows, Looking, Following
  <2> QED  BY <2>1 DEF PlacesInv, Looking, NoMessages
<1>4. CASE Match
  <2>1. PICK m \in [DOMAIN found -> 0 .. 2] :
           match' = m /\ left' = Best(m, "product") \cup Best(m, "faq") \cup Best(m, "entry")
    BY <1>4 DEF Match
  <2>2. left' \in SUBSET Pieces /\ DOMAIN match' = Pieces
    BY <2>1, BestIn DEF PlacesInv
  <2>3. stage = "match" /\ stage' = "fit" /\ UNCHANGED <<found, kept, history, from>>
    BY <1>4 DEF Match
  <2> QED  BY <2>2, <2>3 DEF PlacesInv, Looking, NoMessages
<1>5. CASE Fit
  <2>1. UNCHANGED <<found, match, history>>
    BY <1>5 DEF Fit, RefuseMandatory, TryNext, AllTried, TakeTurn, Build
  <2>2. CASE RefuseMandatory \/ AllTried \/ Build
    <3>1. UNCHANGED <<kept, left, from>> /\ stage' \in {"refused", "turns", "built"}
      BY <2>2 DEF RefuseMandatory, AllTried, Build
    <3> QED  BY <2>1, <3>1 DEF PlacesInv, Looking
  <2>3. CASE TryNext
    <3>1. stage' = "fit" /\ stage = "fit" /\ from' = from
          /\ kept' \in SUBSET Pieces /\ left' \in SUBSET Pieces
      BY <2>3 DEF TryNext, GoOn, PlacesInv
    <3> QED  BY <2>1, <3>1 DEF PlacesInv, Looking, NoMessages
  <2>4. CASE TakeTurn
    <3>1. stage' = "turns" /\ UNCHANGED <<kept, left>> /\ from' \in 1 .. Len(history)
      BY <2>4 DEF TakeTurn
    <3> QED  BY <2>1, <3>1 DEF PlacesInv, Looking
  <2> QED  BY <1>5, <2>2, <2>3, <2>4 DEF Fit
<1>6. CASE UNCHANGED vars
  BY <1>6 DEF vars, PlacesInv, Looking, NoMessages
<1> QED
  BY <1>1, <1>2, <1>3, <1>4, <1>5, <1>6 DEF Next, Answer

\* A candidate that did not fit beside less does not fit beside more.
LEMMA StillTooLong ==
    ASSUME PlacesInv, NEW s \in SUBSET Pieces, NEW t \in SUBSET s, NEW x \in Pieces,
           Estimate(t \cup {x}, NoMessages) > Budget
    PROVE  Estimate(s \cup {x}, NoMessages) > Budget
<1>1. Length(t \cup {x}) <= Length(s \cup {x})
  <2>1. s \cup {x} \in SUBSET Pieces /\ t \cup {x} \in SUBSET (s \cup {x})
    OBVIOUS
  <2> QED  BY <2>1, LengthGrows
<1>2. Length(t \cup {x}) \in Nat /\ Length(s \cup {x}) \in Nat /\ Mandatory \in Nat
  BY LengthAdds, MandatoryIsNumber
<1>3. Len(history) \in Nat /\ Budget \in Nat
  BY AnswersAssumption DEF PlacesInv
<1> QED
  BY <1>1, <1>2, <1>3 DEF Estimate, NoMessages

LEMMA TryNextKeeps ==
    ASSUME PlacesInv, BudgetInv, TryNext
    PROVE  BudgetInv'
<1>1. PICK x \in left :
         /\ kept' = IF Fits(kept, x) THEN kept \cup {x} ELSE kept
         /\ left' = left \ {x}
  BY DEF TryNext, GoOn
<1>2. UNCHANGED <<found, match, history>> /\ stage = "fit" /\ stage' = "fit"
  BY DEF TryNext
<1>3. PICK k : k = kept'
  OBVIOUS
<1>4. k \in SUBSET Pieces /\ kept \in SUBSET k /\ x \in Pieces
  BY <1>1, <1>3 DEF PlacesInv
<1>5. k # {} => Estimate(k, NoMessages) <= Budget
  <2>1. CASE Fits(kept, x)
    BY <1>1, <1>3, <2>1 DEF Fits
  <2>2. CASE ~Fits(kept, x)
    BY <1>1, <1>2, <1>3, <2>2 DEF BudgetInv
  <2> QED  BY <2>1, <2>2
<1>6. ASSUME NEW y \in Candidates, y \notin k, y \notin left'
      PROVE  Estimate(k \cup {y}, NoMessages) > Budget
  <2>1. y \in Pieces
    BY <1>6, BestIn DEF Candidates
  <2>2. CASE y = x
    <3>1. ~Fits(kept, x) /\ k = kept
      BY <1>1, <1>3, <1>6, <2>2
    <3>2. Estimate(kept \cup {x}, NoMessages) \in Int /\ Budget \in Int
      <4>1. kept \cup {x} \in SUBSET Pieces
        BY <1>4 DEF PlacesInv
      <4>2. Length(kept \cup {x}) \in Nat /\ Mandatory \in Nat /\ Len(history) \in Nat
        BY <4>1, LengthAdds, MandatoryIsNumber DEF PlacesInv
      <4> QED  BY <4>2, AnswersAssumption DEF Estimate, NoMessages
    <3> QED  BY <2>2, <3>1, <3>2 DEF Fits
  <2>3. CASE y # x
    <3>1. Estimate(kept \cup {y}, NoMessages) > Budget
      BY <1>1, <1>2, <1>4, <1>6, <2>3 DEF BudgetInv
    <3> QED  BY <1>4, <2>1, <3>1, StillTooLong
  <2> QED  BY <2>2, <2>3
<1>7. Mandatory' = Mandatory /\ Candidates' = Candidates /\ history' = history
  BY <1>2, SameEstimates
<1>8. k # {} => Mandatory' + Length(k) + Len(history') + 1 - (Len(history') + 1) <= Budget
  BY <1>5, <1>7 DEF Estimate, NoMessages
<1>9. \A y \in Candidates' \ (k \cup left') :
         Mandatory' + Length(k \cup {y}) + Len(history') + 1 - (Len(history') + 1) > Budget
  BY <1>6, <1>7 DEF Estimate, NoMessages
<1> QED
  BY <1>2, <1>3, <1>8, <1>9 DEF BudgetInv, Estimate, NoMessages

LEMMA BudgetStep ==
    ASSUME PlacesInv, BudgetInv, [Next]_vars
    PROVE  BudgetInv'
<1>1. ASSUME stage' \notin {"fit", "turns", "built"} PROVE BudgetInv'
  BY <1>1 DEF BudgetInv
<1>2. CASE Write \/ Read \/ (\E h \in Histories : Ask(h))
  <2>1. stage' \notin {"fit", "turns", "built"}
    BY <1>2 DEF Write, Read, Ask, ResolveScope, ReadProducts, ReadRows, Following, Looking
  <2> QED  BY <1>1, <2>1
<1>3. CASE Match
  <2>1. Candidates' \subseteq left' /\ kept' = {} /\ stage' = "fit"
    <3>1. PICK m \in [DOMAIN found -> 0 .. 2] :
             match' = m /\ left' = Best(m, "product") \cup Best(m, "faq") \cup Best(m, "entry")
      BY <1>3 DEF Match
    <3>2. found' = found /\ kept' = kept /\ stage = "match" /\ stage' = "fit"
      BY <1>3 DEF Match
    <3>3. \A kind : Best(match, kind)' = Best(m, kind)
      BY <3>1, <3>2 DEF Best, Found
    <3>4. Candidates' \subseteq left'
      BY <3>1, <3>3 DEF Candidates
    <3> QED  BY <3>2, <3>4 DEF PlacesInv
  <2> QED  BY <2>1 DEF BudgetInv
<1>4. CASE TryNext
  BY <1>4, TryNextKeeps
<1>5. CASE RefuseMandatory
  <2>1. stage' = "refused"
    BY <1>5 DEF RefuseMandatory
  <2> QED  BY <1>1, <2>1
<1>6. CASE AllTried
  <2>1. /\ UNCHANGED <<found, match, history, kept, left, from>> /\ left = {}
        /\ stage = "fit" /\ stage' = "turns" /\ Estimate({}, NoMessages) <= Budget
    BY <1>6 DEF AllTried, Nothing
  <2>2. /\ Estimate(kept, from) <= Budget
        /\ \A x \in Candidates \ kept : Estimate(kept \cup {x}, NoMessages) > Budget
    BY <2>1 DEF BudgetInv, PlacesInv
  <2>3. Mandatory' = Mandatory /\ Candidates' = Candidates
    BY <2>1, SameEstimates
  <2> QED  BY <2>1, <2>2, <2>3 DEF BudgetInv, Estimate, NoMessages
<1>7. CASE TakeTurn
  <2>1. /\ UNCHANGED <<found, match, history, kept, left>>
        /\ stage = "turns" /\ stage' = "turns" /\ Estimate(kept, from') <= Budget
    BY <1>7 DEF TakeTurn
  <2>2. Mandatory' = Mandatory /\ Candidates' = Candidates
    BY <2>1, SameEstimates
  <2> QED  BY <2>1, <2>2 DEF BudgetInv, Estimate, NoMessages
<1>8. CASE Build
  <2>1. /\ UNCHANGED <<found, match, history, kept, left, from>>
        /\ stage = "turns" /\ stage' = "built"
        /\ \A i \in 1 .. from - 1 : IsNextTurn(i) => Estimate(kept, i) > Budget
    BY <1>8 DEF Build
  <2>2. Mandatory' = Mandatory /\ Candidates' = Candidates
    BY <2>1, SameEstimates
  <2>3. \A i : IsNextTurn(i)' <=> IsNextTurn(i)
    BY <2>1 DEF IsNextTurn, TurnAt
  <2> QED  BY <2>1, <2>2, <2>3 DEF BudgetInv, Estimate, NoMessages
<1>9. CASE UNCHANGED vars
  <2>1. UNCHANGED <<found, match, history, kept, left, from, stage>>
    BY <1>9 DEF vars
  <2>2. Mandatory' = Mandatory /\ Candidates' = Candidates
    BY <2>1, SameEstimates
  <2>3. \A i : IsNextTurn(i)' <=> IsNextTurn(i)
    BY <2>1 DEF IsNextTurn, TurnAt
  <2> QED  BY <2>1, <2>2, <2>3 DEF BudgetInv, Estimate, NoMessages
<1> QED
  BY <1>2, <1>3, <1>4, <1>5, <1>6, <1>7, <1>8, <1>9 DEF Next, Answer, Fit

\* Of the turns that begin between two messages, one is the last.
LEMMA LastTurn ==
    ASSUME NEW n \in Nat, NEW i \in 1 .. n, TurnAt(i)
    PROVE  \E j \in i .. n : TurnAt(j) /\ \A k \in j + 1 .. n : ~TurnAt(k)
<1> DEFINE Gap == {g \in Nat : \E j \in i .. n : TurnAt(j) /\ g = n - j}
<1>1. Gap \subseteq Nat /\ n - i \in Gap
  OBVIOUS
<1>2. PICK g \in Gap : \A h \in Gap : g <= h
  <2> HIDE DEF Gap
  <2> QED  BY <1>1, LeastOf
<1>3. PICK j \in i .. n : TurnAt(j) /\ g = n - j
  OBVIOUS
<1>4. ASSUME NEW k \in j + 1 .. n PROVE ~TurnAt(k)
  <2>1. k \in i .. n /\ n - k \in Nat /\ ~(g <= n - k)
    BY <1>3
  <2>2. n - k \notin Gap
    BY <1>2, <2>1
  <2> QED  BY <2>1, <2>2
<1> QED  BY <1>3, <1>4

LEMMA BudgetIsUsed ==
    ASSUME PlacesInv, BudgetInv
    PROVE  NothingDroppedNeedlessly
<1> SUFFICES ASSUME stage = "built"
             PROVE  /\ Estimate(kept, from) <= Budget
                    /\ \A x \in Candidates \ kept : Estimate(kept \cup {x}, NoMessages) > Budget
                    /\ \A i \in 1 .. from - 1 :
                          history[i] = "inbound" => Estimate(kept, i) > Budget
  BY DEF NothingDroppedNeedlessly, Candidates
<1>1. ASSUME NEW i \in 1 .. from - 1, history[i] = "inbound" PROVE Estimate(kept, i) > Budget
  <2>1. from - 1 \in Nat /\ TurnAt(i)
    BY <1>1 DEF PlacesInv, TurnAt
  <2>2. PICK j \in i .. from - 1 : TurnAt(j) /\ \A k \in j + 1 .. from - 1 : ~TurnAt(k)
    BY <2>1, LastTurn
  <2>3. j \in 1 .. from - 1 /\ IsNextTurn(j)
    BY <2>2, <2>1 DEF IsNextTurn
  <2>4. Estimate(kept, j) > Budget
    BY <2>3 DEF BudgetInv
  <2>5. Length(kept) \in Nat /\ Mandatory \in Nat /\ Len(history) \in Nat /\ Budget \in Nat
    BY LengthAdds, MandatoryIsNumber, AnswersAssumption DEF PlacesInv
  <2>6. j \in Nat /\ i \in Nat /\ i <= j
    BY <2>1, <2>2
  <2> QED  BY <2>4, <2>5, <2>6 DEF Estimate
<1> QED
  BY <1>1 DEF BudgetInv

--------------------------------------------------------------------------------
(* The theorems                                                            *)

AllInv == KnowledgeInv /\ AnswerInv

LEMMA InitAllInv == Init => AllInv
<1> SUFFICES ASSUME Init PROVE AllInv
  OBVIOUS
<1>1. KnowledgeInv
  BY KnowledgeInitKeeps DEF Init
<1>2. AnswerInv
  BY DEF Init, AnswerInv, PublishedInv, AnswerWasPublished, Looking, TurnsInv
<1> QED
  BY <1>1, <1>2 DEF AllInv

LEMMA NextAllInv == AllInv /\ [Next]_vars => AllInv'
<1> SUFFICES ASSUME AllInv, [Next]_vars PROVE AllInv'
  OBVIOUS
<1>1. CASE Write
  BY <1>1, WriteKeeps, KnowledgeNextKeeps DEF AllInv, Write
<1>2. CASE Answer
  <2>1. UNCHANGED knowledgeVars
    BY <1>2 DEF Answer, Ask, Read, ResolveScope, ReadProducts, ReadRows, Match, Fit,
                RefuseMandatory, TryNext, AllTried, TakeTurn, Build, knowledgeVars
  <2>2. KnowledgeInv'
    BY <2>1 DEF AllInv, KnowledgeInv, Typed, OpenedArePast, knowledgeVars
  <2> QED
    BY <1>2, <2>2, AnswerKeeps DEF AllInv
<1>3. CASE UNCHANGED vars
  BY <1>3 DEF vars, AllInv, KnowledgeInv, Typed, OpenedArePast, AnswerInv, PublishedInv,
              AnswerWasPublished, Visible, TurnsInv, TurnAt
<1> QED
  BY <1>1, <1>2, <1>3 DEF Next

LEMMA SpecAllInv == Spec => []AllInv
BY InitAllInv, NextAllInv, PTL DEF Spec

\* Every row that an answer is made from was published, as it reads there, at some moment
\* since the question was asked, whatever managers wrote meanwhile.
THEOREM AnswerWasPublishedHolds == Spec => []AnswerWasPublished
<1>1. AllInv => AnswerWasPublished
  BY DEF AllInv, AnswerInv, PublishedInv
<1> QED
  BY <1>1, SpecAllInv, PTL

\* The messages of a prompt begin with a turn, never with the reply to one left out.
THEOREM RepliesKeepTheirMessageHolds == Spec => []RepliesKeepTheirMessage
<1>1. AllInv => RepliesKeepTheirMessage
  BY DEF AllInv, AnswerInv, TurnsInv, TurnAt, RepliesKeepTheirMessage
<1> QED
  BY <1>1, SpecAllInv, PTL

\* Whatever the rows and products, their lengths and the matches, and however long the
\* conversation is: what a prompt has fits, no candidate that it leaves out fits beside the
\* ones it has, and no older turn beside all that.
THEOREM NothingDroppedNeedlesslyHolds == Spec => []NothingDroppedNeedlessly
<1>1. Init => PlacesInv /\ BudgetInv
  BY DEF Init, PlacesInv, BudgetInv, Pieces, Looking, NoMessages
<1>2. PlacesInv /\ BudgetInv /\ [Next]_vars => (PlacesInv /\ BudgetInv)'
  BY PlacesStep, BudgetStep
<1>3. PlacesInv /\ BudgetInv => NothingDroppedNeedlessly
  BY BudgetIsUsed
<1> QED
  BY <1>1, <1>2, <1>3, PTL DEF Spec

\* What a request replaces is what its manager had open, to the letter.
THEOREM ChangedAsSeenHolds == Spec => ChangedAsSeen
<1> DEFINE Seen == \A e \in Rows : row'[e] # row[e] =>
                      \E m \in Managers : page[m] = [on |-> e, row |-> row[e]] /\ call'[m] # call[m]
<1>1. AllInv /\ [Next]_vars => [Seen]_knowledgeVars
  <2> SUFFICES ASSUME AllInv, [Next]_vars, NEW e \in Rows, row'[e] # row[e]
               PROVE  \E m \in Managers : page[m] = [on |-> e, row |-> row[e]] /\ call'[m] # call[m]
    OBVIOUS
  <2>1. ~Answer /\ ~UNCHANGED vars
    BY DEF Answer, Ask, Read, ResolveScope, ReadProducts, ReadRows, Match, Fit,
           RefuseMandatory, TryNext, AllTried, TakeTurn, Build, knowledgeVars, vars
  <2> QED
    BY <2>1, KnowledgeSteps DEF AllInv, Next, Write
<1> HIDE DEF Seen
<1>2. ChangedAsSeen <=> [][Seen]_knowledgeVars
  BY DEF ChangedAsSeen, Seen
<1> QED
  BY <1>1, <1>2, SpecAllInv, PTL DEF Spec

================================================================================
