--------------------------- MODULE BusinessKnowledge ---------------------------
(***************************************************************************)
(* What the managers of a store write down about it: the profile, the      *)
(* policies, the FAQs and the knowledge entries, one of which, under a     *)
(* reserved slug, holds the answers to the industry questionnaire.         *)
(*                                                                         *)
(*   business_knowledge/service.py   the operations                        *)
(*   business_knowledge/router.py    the endpoints                         *)
(*   business_knowledge/models.py    rows, unique names, revision column   *)
(*   business_knowledge/domain.py    lifecycle                             *)
(*                                                                         *)
(* A manager opens a row, which gives the revision that his request names. *)
(* The request reads the row (and the standing of its store), checks, and  *)
(* commits in a step of its own; the UPDATE names the revision it has read.*)
(***************************************************************************)
EXTENDS Naturals, FiniteSetsExt

CONSTANTS
    Rows,
    KindOf,         \* KindOf[e]: "profile", "policy", "faq" or "entry"
    NamesOf,        \* NamesOf[e]: the codes, questions or slugs that row e may have
    Reserved,       \* the slug of the industry profile
    Published,      \* the rows that the store starts with, and the name of each
    Managers,
    None,
    MaxRevisions    \* bound: revisions of all rows together

ASSUME KnowledgeAssumption ==
    /\ None \notin Rows
    /\ KindOf \in [Rows -> {"profile", "policy", "faq", "entry"}]
    /\ DOMAIN NamesOf = Rows
    /\ DOMAIN Published \subseteq Rows
    /\ \A e \in DOMAIN Published : Published[e] \in NamesOf[e]
    /\ \A e, f \in DOMAIN Published :
          KindOf[e] = KindOf[f] /\ Published[e] = Published[f] => e = f
    /\ MaxRevisions \in Nat

VARIABLES
    row,        \* row[e]
    standing,   \* the store is "active" (or onboarding), "suspended" or "archived"
    page,       \* page[m]: the row that manager m looks at, as it was
    call        \* call[m]: the request of m that is between its checks and its commit

knowledgeVars == <<row, standing, page, call>>

\* What a row says: prose, or the answers to a questionnaire. "blank" does for a
\* profile with a name and nothing else.
Texts == {"blank", "prose", "answers"}

Row(status, revision, name, text) ==
    [status |-> status, revision |-> revision, name |-> name, text |-> text]
NoRow == Row("none", 0, None, "blank")

NoPage == [on |-> None, row |-> NoRow]
NoCall == [on |-> None, op |-> "none", was |-> NoRow, now |-> NoRow]

\* _ensure_readable(), _ensure_writable().
Readable == standing \in {"active", "suspended"}
Writable == standing = "active"

\* The columns of a row: a profile needs no name of its own, and only it may be blank.
Sayable(e) ==
    IF KindOf[e] = "profile" THEN {"blank", "prose"}
    ELSE IF KindOf[e] = "entry" THEN {"prose", "answers"} ELSE {"prose"}

--------------------------------------------------------------------------------
(* Requests                                                                *)

\* GET of a row, or a form for a new one.
Open(m, e) ==
    /\ call[m] = NoCall
    /\ Readable
    /\ page' = [page EXCEPT ![m] = [on |-> e, row |-> row[e]]]
    /\ UNCHANGED <<row, standing, call>>

\* _check_revision(), _check_create_revision().
Matches(m) == row[page[m].on].revision = page[m].row.revision

\* A write is still within the bound, with those that are under way.
Room ==
    MapThenSumSet(LAMBDA e : row[e].revision, Rows)
        + Cardinality({m \in Managers : call[m] # NoCall}) < MaxRevisions

\* m's request has passed its checks and is about to commit.
Start(m, op, now) ==
    /\ call[m] = NoCall
    /\ Writable
    /\ Matches(m)
    /\ Room
    /\ call' = [call EXCEPT ![m] =
                   [on |-> page[m].on, op |-> op, was |-> row[page[m].on],
                    now |-> [now EXCEPT !.revision = row[page[m].on].revision + 1]]]
    /\ UNCHANGED <<row, standing, page>>

\* Two requests never create the same row.
Unclaimed(e) == \A m \in Managers : call[m].on # e

\* _create(): a draft.
Create(m, e, kind, name, text) ==
    /\ page[m].on = e
    /\ KindOf[e] = kind
    /\ row[e] = NoRow
    /\ Unclaimed(e)
    /\ text \in Sayable(e)
    /\ Start(m, "create", Row("draft", 0, name, text))

\* A second profile is refused.
CreateProfile(m, e, text) ==
    /\ \A f \in Rows : KindOf[f] = "profile" => row[f] = NoRow
    /\ Create(m, e, "profile", None, text)

CreatePolicy(m, e, name, text) == Create(m, e, "policy", name, text)
CreateFaq(m, e, name, text) == Create(m, e, "faq", name, text)
CreateEntry(m, e, name, text) == name # Reserved /\ Create(m, e, "entry", name, text)

\* _require_draft(), _apply_update().
ApplyUpdate(m, e, kind, name, text) ==
    /\ page[m].on = e
    /\ KindOf[e] = kind
    /\ row[e].status = "draft"
    /\ text \in Sayable(e)
    /\ Start(m, "update", Row("draft", 0, name, text))

\* A name that is not given stays; a new slug must not be the reserved one.
UpdateProfile(m, e, text) == ApplyUpdate(m, e, "profile", row[e].name, text)
UpdatePolicy(m, e, name, text) == ApplyUpdate(m, e, "policy", name, text)
UpdateFaq(m, e, name, text) == ApplyUpdate(m, e, "faq", name, text)
UpdateEntry(m, e, name, text) ==
    /\ name # Reserved \/ row[e].name = Reserved
    /\ ApplyUpdate(m, e, "entry", name, text)

\* save_industry_profile(): the row is the one with the reserved slug, if any.
SaveAnswers(m, e) ==
    /\ page[m].on = e
    /\ KindOf[e] = "entry"
    /\ \/ /\ row[e] = NoRow
          /\ Unclaimed(e)
          /\ \A f \in Rows : KindOf[f] = "entry" => row[f].name # Reserved
       \/ row[e].name = Reserved /\ row[e].status = "draft"
    /\ Start(m, "answers", Row("draft", 0, Reserved, "answers"))

\* validate_transition().
Allowed(from, to) ==
    \/ from = "draft" /\ to \in {"published", "archived"}
    \/ from = "published" /\ to \in {"draft", "archived"}
    \/ from = "archived" /\ to = "draft"

\* _publishable(): a profile says something of the business.
Publishable(e) == row[e].text # "blank"

\* transition(): by a manager who may publish, when that is needed.
Transition(m, e, to) ==
    /\ page[m].on = e
    /\ Allowed(row[e].status, to)
    /\ to = "published" => Publishable(e)
    /\ Start(m, "transition", [row[e] EXCEPT !.status = to])

\* Mutated form of Unmoved: the mapper keeps no version.
UnmovedAnyway(m) == TRUE

\* UPDATE ... WHERE revision = the one that was read.
Unmoved(m) == row[call[m].on].revision = call[m].was.revision

\* Unique constraints: one profile of a store, one policy of a code, one FAQ of a
\* question, one entry of a slug.
NameFree(m) ==
    \A f \in Rows \ {call[m].on} :
        row[f] # NoRow /\ KindOf[f] = KindOf[call[m].on] =>
            KindOf[f] # "profile" /\ row[f].name # call[m].now.name

\* _flush() and _commit(): written, or a stale write, or a conflict.
Commit(m) ==
    /\ call[m] # NoCall
    /\ row' = IF Unmoved(m) /\ NameFree(m)
              THEN [row EXCEPT ![call[m].on] = call[m].now] ELSE row
    /\ call' = [call EXCEPT ![m] = NoCall]
    /\ page' = [page EXCEPT ![m] = NoPage]
    /\ UNCHANGED standing

\* The store is suspended, activated again, archived.
ChangeStanding(to) ==
    /\ standing # "archived"
    /\ standing' = to
    /\ UNCHANGED <<row, page, call>>

--------------------------------------------------------------------------------
KnowledgeInit ==
    /\ row = [e \in Rows |->
                 IF e \in DOMAIN Published
                 THEN Row("published", 2, Published[e],
                          IF Published[e] = Reserved THEN "answers" ELSE "prose")
                 ELSE NoRow]
    /\ standing = "active"
    /\ page = [m \in Managers |-> NoPage]
    /\ call = [m \in Managers |-> NoCall]

\* Opened, or moved to another status, whatever its kind.
OpenOrMove(m, kind) ==
    \E e \in Rows :
        /\ KindOf[e] = kind
        /\ \/ Open(m, e)
           \/ \E to \in {"draft", "published", "archived"} : Transition(m, e, to)

\* The endpoints, by kind.
Profiles(m) ==
    \/ OpenOrMove(m, "profile")
    \/ \E e \in Rows, text \in Texts : CreateProfile(m, e, text) \/ UpdateProfile(m, e, text)

Policies(m) ==
    \/ OpenOrMove(m, "policy")
    \/ \E e \in Rows, text \in Texts : \E name \in NamesOf[e] :
          CreatePolicy(m, e, name, text) \/ UpdatePolicy(m, e, name, text)

Faqs(m) ==
    \/ OpenOrMove(m, "faq")
    \/ \E e \in Rows, text \in Texts : \E name \in NamesOf[e] :
          CreateFaq(m, e, name, text) \/ UpdateFaq(m, e, name, text)

Entries(m) ==
    \/ OpenOrMove(m, "entry")
    \/ \E e \in Rows, text \in Texts : \E name \in NamesOf[e] :
          CreateEntry(m, e, name, text) \/ UpdateEntry(m, e, name, text)

IndustryProfile(m) == \E e \in Rows : SaveAnswers(m, e)

Manage(m) ==
    Profiles(m) \/ Policies(m) \/ Faqs(m) \/ Entries(m) \/ IndustryProfile(m) \/ Commit(m)

KnowledgeNext ==
    \/ \E m \in Managers : Manage(m)
    \/ \E to \in {"active", "suspended", "archived"} : ChangeStanding(to)

--------------------------------------------------------------------------------
(* Properties                                                              *)

RowStates ==
    [status : {"none", "draft", "published", "archived"}, revision : 0 .. MaxRevisions,
     name : {None, Reserved} \cup UNION {NamesOf[e] : e \in Rows}, text : Texts]

\* Every variable holds what its declaration says, and what is published is not blank.
KnowledgeTypeOK ==
    /\ row \in [Rows -> RowStates]
    /\ \A e \in Rows : row[e].status = "published" => row[e].text # "blank"
    /\ standing \in {"active", "suspended", "archived"}
    /\ page \in [Managers -> [on : Rows \cup {None}, row : RowStates]]
    /\ call \in [Managers -> [on : Rows \cup {None},
                              op : {"none", "create", "update", "answers", "transition"},
                              was : RowStates, now : RowStates]]

\* What a request replaces is what its manager had before him, to the letter: a row
\* that another request has changed since is never overwritten, published or withdrawn.
ChangedAsSeen ==
    [][\A e \in Rows : row'[e] # row[e] =>
          \E m \in Managers : page[m] = [on |-> e, row |-> row[e]] /\ call'[m] # call[m]
      ]_knowledgeVars

\* The entry under the reserved slug is only made, renamed or rewritten by the
\* questionnaire.
ReservedByQuestionnaire ==
    [][\A e \in Rows :
          /\ row'[e] # row[e]
          /\ Reserved \in {row[e].name, row'[e].name}
          /\ <<row[e].name, row[e].text>> # <<row'[e].name, row'[e].text>>
          => \E m \in Managers : call[m].on = e /\ call[m].op = "answers" /\ call'[m] # call[m]
      ]_knowledgeVars
================================================================================
