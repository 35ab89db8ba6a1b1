---------------------------- MODULE KnowledgeAnswers ----------------------------
(***************************************************************************)
(* How a customer's question becomes a prompt: the store's scope and its   *)
(* published rows are read, one SELECT after the other, the question is    *)
(* matched against them, and what fits the model's context is kept.        *)
(*                                                                         *)
(*   knowledge_repository.py   the SELECTs                                 *)
(*   knowledge_engine.py       matching, and the best results of each kind *)
(*   prompt_builder.py         the budget: knowledge first, then turns     *)
(*                                                                         *)
(* Managers go on writing meanwhile (BusinessKnowledge). What the texts    *)
(* say is left out: whether and how well a row matches is a choice, and a  *)
(* piece of the prompt is its length.                                      *)
(***************************************************************************)
EXTENDS BusinessKnowledge, Sequences

CONSTANTS
    Products,       \* active products of the tenant, with what hangs on them
    Size,           \* Size[x]: length of a row or a product in the prompt
    Framing,        \* length of the fixed parts and the customer's message
    Budget,         \* input budget of the model
    ResultLimit,    \* results of one kind
    Histories       \* directions of the messages that the conversation may hold

ASSUME AnswersAssumption ==
    /\ Rows \cap Products = {}
    /\ IsFiniteSet(Rows \cup Products)
    /\ Size \in [Rows \cup Products -> Nat \ {0}]
    /\ Framing \in Nat /\ Budget \in Nat
    /\ ResultLimit \in Nat \ {0}
    /\ Histories \subseteq Seq({"inbound", "outbound"})

VARIABLES
    stage,      \* how far the answer is
    found,      \* found[x]: what has been read of x, NoRow if nothing
    match,      \* match[x]: how well x matches the question, 0 if not at all
    kept,       \* products, FAQs and entries that have a place
    left,       \* those that are still to be tried
    history,    \* directions of the messages before the question
    from,       \* the first of the messages that have a place
    shown       \* rows that have been published since the question, as they were

answerVars == <<stage, found, match, kept, left, history, from, shown>>
vars == <<row, standing, page, call, stage, found, match, kept, left, history, from, shown>>

\* The SELECTs come in this order.
Following(s) ==
    CASE s = "profile" -> "faq"
      [] s = "faq" -> "policy"
      [] s = "policy" -> "entry"
      [] s = "entry" -> "match"

\* Which rows are published, and how they read.
Visible == {<<e, row[e]>> : e \in {f \in Rows : row[f].status = "published"}}

--------------------------------------------------------------------------------
(* Retrieval                                                               *)

\* A question is asked.
Ask(h) ==
    /\ stage = "idle"
    /\ stage' = "scope"
    /\ history' = h
    /\ from' = Len(h) + 1
    /\ shown' = Visible
    /\ UNCHANGED <<knowledgeVars, found, match, kept, left>>

\* resolve_active_scope(): of a store that may be written to.
ResolveScope ==
    /\ stage = "scope"
    /\ stage' = IF Writable THEN "products" ELSE "refused"
    /\ UNCHANGED <<knowledgeVars, found, match, kept, left, history, from, shown>>

\* _catalog(): the products that are active with all their SKUs, prices and options.
ReadProducts ==
    /\ stage = "products"
    /\ \E ps \in SUBSET Products :
          found' = [x \in DOMAIN found |->
                       IF x \in ps THEN Row("published", 1, None, "prose") ELSE found[x]]
    /\ stage' = "profile"
    /\ UNCHANGED <<knowledgeVars, match, kept, left, history, from, shown>>

\* Mutated form of Selected: drafts are read as well.
SelectedOrDraft(e, kind) == KindOf[e] = kind /\ row[e].status \in {"published", "draft"}

Selected(e, kind) == KindOf[e] = kind /\ row[e].status = "published"

\* load_snapshot(): one SELECT for each kind.
ReadRows ==
    /\ stage \in {"profile", "faq", "policy", "entry"}
    /\ found' = [x \in DOMAIN found |->
                    IF x \in Rows /\ Selected(x, stage) THEN row[x] ELSE found[x]]
    /\ stage' = Following(stage)
    /\ UNCHANGED <<knowledgeVars, match, kept, left, history, from, shown>>

Kind(x) == IF x \in Products THEN "product" ELSE KindOf[x]
Found == {x \in DOMAIN found : found[x] # NoRow}

\* Better matches come first; among equals the order is fixed.
Place(x) == CASE Kind(x) = "product" -> 1 [] Kind(x) = "faq" -> 2 [] OTHER -> 3
Before(x, y, m) ==
    \/ m[x] > m[y]
    \/ m[x] = m[y] /\ (Place(x) < Place(y) \/ (Place(x) = Place(y) /\ Size[x] < Size[y]))

\* _products(), _faq(), _rules() and _snippets(): the best of each kind.
Best(m, kind) ==
    LET of == {x \in Found : Kind(x) = kind /\ m[x] > 0} IN
    {x \in of : Cardinality({y \in of : Before(y, x, m)}) < ResultLimit}

\* _industry_profile(): the entry with the reserved slug, if its content can be read.
Industry == {x \in Found : Kind(x) = "entry" /\ found[x].name = Reserved /\ found[x].text = "answers"}

Profile == {x \in Found : Kind(x) = "profile"}

\* retrieve() and the start of build(): matching, and what the prompt may hold.
Match ==
    /\ stage = "match"
    /\ \E m \in [DOMAIN found -> 0 .. 2] :
          /\ \A x \in DOMAIN found : (x \notin Found \/ Kind(x) = "profile") => m[x] = 0
          /\ match' = m
          /\ left' = Best(m, "product") \cup Best(m, "faq") \cup Best(m, "entry")
    /\ stage' = "fit"
    /\ UNCHANGED <<knowledgeVars, found, kept, history, from, shown>>

--------------------------------------------------------------------------------
(* The budget                                                              *)

Length(xs) == MapThenSumSet(LAMBDA x : Size[x], xs)

\* _system_prompt(): the profile, the industry profile and the rules are not chosen from.
Mandatory == Framing + Length(Profile) + Length(Industry) + Length(Best(match, "policy"))

\* _estimated_tokens() of a prompt with these products, FAQs and entries, and with the
\* messages from the n-th on.
Estimate(xs, n) == Mandatory + Length(xs) + Len(history) + 1 - n

Nothing == {}
NoMessages == Len(history) + 1

\* What must be there does not fit.
RefuseMandatory ==
    /\ stage = "fit"
    /\ kept = Nothing
    /\ Estimate(Nothing, NoMessages) > Budget
    /\ stage' = "refused"
    /\ UNCHANGED <<knowledgeVars, found, match, kept, left, history, from, shown>>

\* Mutated form of GoOn: the first one that does not fit ends it.
StopAtFirst(x) == IF Estimate(kept \cup {x}, NoMessages) <= Budget THEN left \ {x} ELSE {}

Fits(xs, x) == Estimate(xs \cup {x}, NoMessages) <= Budget
GoOn(x) == left \ {x}

\* One turn of the loop over the candidates.
TryNext ==
    /\ stage = "fit"
    /\ Estimate(Nothing, NoMessages) <= Budget
    /\ \E x \in left :
          /\ \A y \in left \ {x} : Before(x, y, match)
          /\ kept' = IF Fits(kept, x) THEN kept \cup {x} ELSE kept
          /\ left' = GoOn(x)
    /\ UNCHANGED <<knowledgeVars, stage, found, match, history, from, shown>>

AllTried ==
    /\ stage = "fit"
    /\ Estimate(Nothing, NoMessages) <= Budget
    /\ left = {}
    /\ stage' = "turns"
    /\ UNCHANGED <<knowledgeVars, found, match, kept, left, history, from, shown>>

\* Mutated form of TurnAt: a message at a time.
MessageAt(i) == TRUE

\* _conversation_turns(): a turn begins with a message of the customer, or after a reply.
TurnAt(i) == i > 1 => history[i] = "inbound" \/ history[i - 1] = "outbound"

\* The start of the newest turn that has no place yet.
IsNextTurn(i) ==
    i \in 1 .. from - 1 /\ TurnAt(i) /\ \A j \in i + 1 .. from - 1 : ~TurnAt(j)

\* One turn of the loop over the turns, newest first.
TakeTurn ==
    /\ stage = "turns"
    /\ \E i \in 1 .. Len(history) :
          /\ IsNextTurn(i)
          /\ Estimate(kept, i) <= Budget
          /\ from' = i
    /\ UNCHANGED <<knowledgeVars, stage, found, match, kept, left, history, shown>>

\* No turn is left, or the next does not fit.
Build ==
    /\ stage = "turns"
    /\ \A i \in 1 .. from - 1 : IsNextTurn(i) => Estimate(kept, i) > Budget
    /\ stage' = "built"
    /\ UNCHANGED <<knowledgeVars, found, match, kept, left, history, from, shown>>

--------------------------------------------------------------------------------
Init ==
    /\ KnowledgeInit
    /\ stage = "idle"
    /\ found = [x \in Rows \cup Products |-> NoRow]
    /\ match = [x \in Rows \cup Products |-> 0]
    /\ kept = {} /\ left = {}
    /\ history = <<>> /\ from = 1
    /\ shown = {}

Read == ResolveScope \/ ReadProducts \/ ReadRows
Fit == RefuseMandatory \/ TryNext \/ AllTried \/ TakeTurn \/ Build

Answer == (\E h \in Histories : Ask(h)) \/ Read \/ Match \/ Fit

\* The stages at which an answer still looks at rows.
Looking == {"scope", "products", "profile", "faq", "policy", "entry"}

\* Managers write; what becomes public while an answer is made is noted. An answer that
\* has its rows no longer depends on what is written: writes after that are left out.
Write ==
    /\ stage \in Looking \cup {"idle"}
    /\ KnowledgeNext
    /\ shown' = IF stage \in Looking THEN shown \cup Visible' ELSE shown
    /\ UNCHANGED <<stage, found, match, kept, left, history, from>>

Next == Write \/ Answer

Spec == Init /\ [][Next]_vars

--------------------------------------------------------------------------------
(* Properties                                                              *)

\* Every variable holds what its declaration says.
TypeOK ==
    /\ KnowledgeTypeOK
    /\ stage \in {"idle", "scope", "products", "profile", "faq", "policy", "entry", "match",
                  "fit", "turns", "built", "refused"}
    /\ found \in [Rows \cup Products -> RowStates]
    /\ match \in [Rows \cup Products -> 0 .. 2]
    /\ kept \subseteq Rows \cup Products /\ left \subseteq Rows \cup Products
    /\ history \in Histories \cup {<<>>}
    /\ from \in 1 .. Len(history) + 1

\* Every row that an answer has read was published, as it was read, at some moment since
\* the question was asked.
AnswerWasPublished ==
    \A e \in Rows : found[e] # NoRow => <<e, found[e]>> \in shown

\* What a prompt leaves out does not fit: not beside the knowledge that it has, and the
\* next older turn not beside that and the newer turns. What it has does fit.
NothingDroppedNeedlessly ==
    stage = "built" =>
        /\ Estimate(kept, from) <= Budget
        /\ \A x \in (UNION {Best(match, k) : k \in {"product", "faq", "entry"}}) \ kept :
              Estimate(kept \cup {x}, NoMessages) > Budget
        /\ \A i \in 1 .. from - 1 :
              history[i] = "inbound" /\ (\A j \in i + 1 .. from - 1 : history[j] # "inbound") =>
                 Estimate(kept, i) > Budget

\* The oldest reply in a prompt never stands there without the message before it that it
\* answers.
RepliesKeepTheirMessage ==
    stage = "built" /\ from \in 2 .. Len(history) =>
        ~(history[from] = "outbound" /\ history[from - 1] = "inbound")
================================================================================
