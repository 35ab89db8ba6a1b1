---------------------------- MODULE CatalogTraining ----------------------------
(***************************************************************************)
(* The catalog of the default store, as its manager trains it              *)
(* (catalog_training.py): drafts are analyzed and edited, and a draft      *)
(* that is published becomes a version, which the store then points to.    *)
(*                                                                         *)
(* A draft is followed for one product, by its client_id: what it says of  *)
(* it, and which row of products it names, if any. A request reads what it *)
(* needs and commits later; of a row it writes the columns that it changes *)
(* against what it has read.                                               *)
(***************************************************************************)
EXTENDS Naturals, Sequences

CONSTANTS
    Trainings,      \* drafts that may be made
    Workers,        \* requests of this module that may be under way together
    Contents,       \* what a draft may say of the product: name, text, price, ...
    Conflicting,    \* ... that the analysis refuses
    Payloads,       \* what drafts consist of; row: the product_id they name, or 0
    MaxRequests     \* bound: requests that read and then write, in all

ASSUME CatalogTrainingAssumption ==
    /\ Conflicting \in Contents /\ Contents # {Conflicting}
    /\ Payloads \subseteq [content : Contents, row : 0..1]
    /\ MaxRequests \in Nat

VARIABLES
    training,       \* training[d]: its row
    version,        \* the versions, by their numbers
    active,         \* the number of the version that the store points to, 0 for none
    product,        \* the contents of the product rows, by their ids
    work,           \* work[w]: what w does and has read
    asked           \* requests so far

trainingVars == <<training, version, active, product, work>>

NoTraining(content) == [status |-> "none", payload |-> [content |-> content, row |-> 0]]

Resting == [op |-> "none", draft |-> "none", payload |-> [content |-> Conflicting, row |-> 0],
            active |-> 0, versions |-> 0]

Ask ==
    /\ asked < MaxRequests
    /\ asked' = asked + 1

HasVersion(d) == \E n \in 1..Len(version) : version[n].source = d

\* _blocking_warnings() of analyze_catalog().
Blocked(payload) == payload.content = Conflicting

--------------------------------------------------------------------------------
\* create_training_draft()
CreateTraining(d, payload) ==
    /\ training[d].status = "none"
    /\ training' = [training EXCEPT ![d] = [status |-> "review", payload |-> payload]]
    /\ UNCHANGED <<version, active, product, work, asked>>

\* update_training_draft(): a published one may not be edited.
BeginUpdate(w, d, payload) ==
    /\ work[w].op = "none" /\ Ask
    /\ training[d].status = "review"
    /\ work' = [work EXCEPT ![w] = [Resting EXCEPT !.op = "update", !.draft = d,
                                                   !.payload = payload]]
    /\ UNCHANGED <<training, version, active, product>>

\* The status was read as "review" and is not written.
CommitUpdate(w) ==
    /\ work[w].op = "update"
    /\ training' = [training EXCEPT ![work[w].draft].payload = work[w].payload]
    /\ work' = [work EXCEPT ![w] = Resting]
    /\ UNCHANGED <<version, active, product, asked>>

\* publish_training_draft(), up to the number of the new version.
BeginPublish(w, d) ==
    /\ work[w].op = "none" /\ Ask
    /\ training[d].status # "none"
    /\ ~ HasVersion(d)
    /\ ~ Blocked(training[d].payload)
    /\ work' = [work EXCEPT ![w] = [op |-> "publish", draft |-> d,
                                    payload |-> training[d].payload,
                                    active |-> active, versions |-> Len(version)]]
    /\ UNCHANGED <<training, version, active, product>>

\* The row that w writes: the one that the payload names, or the product with its key in
\* the version that was the active one, or a new one.
RowOf(w) ==
    IF work[w].payload.row # 0 THEN work[w].payload.row
    ELSE IF work[w].active # 0 THEN version[work[w].active].row
    ELSE Len(product) + 1

\* Mutated form of Written: a row that exists is left as it is.
WrittenIfNew(row, content) == IF row > Len(product) THEN Append(product, content) ELSE product

Written(row, content) ==
    IF row > Len(product) THEN Append(product, content)
    ELSE [product EXCEPT ![row] = content]

\* The versions of a draft and the numbers of the versions are unique: of two requests
\* that overlap, the later one goes through only if it reads its number late enough.
CommitPublish(w) ==
    /\ work[w].op = "publish"
    /\ ~ HasVersion(work[w].draft)
    /\ LET row == RowOf(w)
           content == work[w].payload.content
       IN
       /\ product' = Written(row, content)
       /\ version' = Append(version, [source |-> work[w].draft, row |-> row,
                                      content |-> content])
    /\ active' = Len(version')
    /\ training' = [training EXCEPT ![work[w].draft].status = "published"]
    /\ work' = [work EXCEPT ![w] = Resting]
    /\ UNCHANGED asked

RefusePublish(w) ==
    /\ work[w].op = "publish"
    /\ Len(version) # work[w].versions
    /\ work' = [work EXCEPT ![w] = Resting]
    /\ UNCHANGED <<training, version, active, product, asked>>

\* The seeded product is row 1.
TrainingInit ==
    /\ product \in {<<content>> : content \in Contents \ {Conflicting}}
    /\ training = [d \in Trainings |-> NoTraining(Conflicting)]
    /\ version = << >>
    /\ active = 0
    /\ work = [w \in Workers |-> Resting]
    /\ asked = 0

TrainingNext ==
    \/ \E d \in Trainings, payload \in Payloads :
          \/ CreateTraining(d, payload)
          \/ \E w \in Workers : BeginUpdate(w, d, payload)
    \/ \E w \in Workers :
          \/ \E d \in Trainings : BeginPublish(w, d)
          \/ CommitUpdate(w) \/ CommitPublish(w) \/ RefusePublish(w)

--------------------------------------------------------------------------------
Drafted == [content : Contents, row : 0..1]
TrainingRows == [status : {"none", "review", "published"}, payload : Drafted]
Versions == [source : Trainings, row : Nat, content : Contents]
WorkRows ==
    [op : {"none", "update", "publish"}, draft : Trainings \cup {"none"}, payload : Drafted,
     active : Nat, versions : Nat]

\* Every variable holds what its declaration says, and what is pointed to is there.
TrainingTypeOK ==
    /\ training \in [Trainings -> TrainingRows]
    /\ product \in Seq(Contents) /\ Len(product) > 0
    /\ version \in Seq(Versions)
    /\ \A n \in 1..Len(version) : version[n].row \in 1..Len(product)
    /\ active \in 0..Len(version)
    /\ work \in [Workers -> WorkRows]
    /\ \A w \in Workers :
          /\ work[w].op # "none" => work[w].draft \in Trainings
          /\ work[w].active \in 0..Len(version)
    /\ asked \in Nat

\* The store points to its latest version, and the rows of the products, which replies
\* and posts are made from, say what that version says, whatever publications overlap.
CatalogAgrees ==
    /\ active = Len(version)
    /\ active # 0 => product[version[active].row] = version[active].content
================================================================================
