-------------------------- MODULE ContentStudio_proofs --------------------------
(***************************************************************************)
(* What holds of the trained catalog and the content studio for any number *)
(* of drafts, posts, managers and requests, and whatever the bounds are.   *)
(***************************************************************************)
EXTENDS ContentStudio, SequenceTheorems, TLAPS

\* The studio's part of TypeOK, one conjunct for what its requests are about.
StudioTypeOK ==
    /\ enabled \subseteq Modules
    /\ asset \in [Assets -> {"none", "ready", "deleted"}]
    /\ post \in [Posts -> PostRows]
    /\ job \in [Posts -> JobRows]
    /\ live \in Seq([post : Posts, caption : Captions])
    /\ mapped \subseteq Nat
    /\ act \in [Managers -> ActRows]
    /\ reviewed \in [Posts -> Captions]
    /\ raced \in [Posts -> BOOLEAN]
    /\ excused \in [Posts -> SUBSET {"approved", "error", "together"}]

Acting ==
    \A m \in Managers :
       /\ act[m].op \notin {"none", "delete"} => act[m].post \in Posts
       /\ act[m].op = "delete" => act[m].asset \in Assets

LEMMA TypeOKParts == TypeOK <=> TrainingTypeOK /\ StudioTypeOK /\ Acting
BY DEF TypeOK, StudioTypeOK, Acting

--------------------------------------------------------------------------------
(* The trained catalog                                                     *)

\* The payloads that are about are drafted ones.
LEMMA PayloadsDrafted == Payloads \subseteq Drafted
BY CatalogTrainingAssumption DEF CatalogTrainingAssumption, Drafted

LEMMA AskTyped == ASSUME asked \in Nat, Ask PROVE asked' \in Nat
BY DEF Ask

LEMMA RestingRow == Resting \in WorkRows /\ Resting.op = "none" /\ Resting.active = 0
BY CatalogTrainingAssumption DEF CatalogTrainingAssumption, Resting, WorkRows, Drafted

\* The row that a publication writes is there, or is the next one.
LEMMA RowOfRange ==
    ASSUME TrainingTypeOK, NEW w \in Workers
    PROVE  RowOf(w) \in 1 .. Len(product) + 1
<1>1. Len(product) \in Nat /\ Len(product) > 0
  BY DEF TrainingTypeOK
<1>2. CASE work[w].payload.row # 0
  <2>1. work[w].payload.row \in 0..1
    BY DEF TrainingTypeOK, WorkRows, Drafted
  <2> QED
    BY <1>1, <1>2, <2>1 DEF RowOf
<1>3. CASE work[w].payload.row = 0 /\ work[w].active # 0
  <2>1. work[w].active \in 1..Len(version)
    BY <1>3 DEF TrainingTypeOK
  <2>2. version[work[w].active].row \in 1..Len(product)
    BY <2>1 DEF TrainingTypeOK
  <2> QED
    BY <1>1, <1>3, <2>2 DEF RowOf
<1>4. CASE work[w].payload.row = 0 /\ work[w].active = 0
  BY <1>1, <1>4 DEF RowOf
<1> QED
  BY <1>2, <1>3, <1>4

\* Writing a row gives products in which it reads as written, and all others are left.
LEMMA WrittenRow ==
    ASSUME product \in Seq(Contents), NEW row \in 1 .. Len(product) + 1,
           NEW content \in Contents
    PROVE  /\ Written(row, content) \in Seq(Contents)
           /\ Len(Written(row, content)) >= Len(product)
           /\ row \in 1 .. Len(Written(row, content))
           /\ Written(row, content)[row] = content
<1>1. CASE row > Len(product)
  <2>1. row = Len(product) + 1
    BY <1>1
  <2> QED
    BY <1>1, <2>1 DEF Written
<1>2. CASE ~(row > Len(product))
  <2> DEFINE new == [product EXCEPT ![row] = content]
  <2>1. new \in Seq(Contents) /\ Len(new) = Len(product)
    BY ExceptSeq, <1>2
  <2> QED
    BY <1>2, <2>1 DEF Written
<1> QED
  BY <1>1, <1>2

\* A publication that goes through.
LEMMA CommitPublishAgrees ==
    ASSUME TrainingTypeOK, NEW w \in Workers, CommitPublish(w)
    PROVE  TrainingTypeOK' /\ CatalogAgrees'
<1> DEFINE row == RowOf(w)
           content == work[w].payload.content
           new == [source |-> work[w].draft, row |-> row, content |-> content]
<1>1. row \in 1 .. Len(product) + 1
  BY RowOfRange
<1>2. content \in Contents /\ work[w].draft \in Trainings
  BY DEF CommitPublish, TrainingTypeOK, WorkRows, Drafted
<1>3. product' = Written(row, content) /\ version' = Append(version, new)
  BY DEF CommitPublish
<1>4. /\ product' \in Seq(Contents) /\ Len(product') >= Len(product)
      /\ row \in 1 .. Len(product') /\ product'[row] = content
  BY <1>1, <1>2, <1>3, WrittenRow DEF TrainingTypeOK
<1>5. new \in Versions /\ row \in Nat
  BY <1>1, <1>2 DEF Versions, TrainingTypeOK
<1> HIDE DEF new, row
<1>6. /\ version' \in Seq(Versions) /\ Len(version') = Len(version) + 1
      /\ version'[Len(version')] = new
      /\ \A n \in 1 .. Len(version) : version'[n] = version[n]
  BY <1>3, <1>5 DEF TrainingTypeOK
<1>7. new.row = row /\ new.content = content
  BY DEF new
<1>8. active' = Len(version') /\ Len(version) \in Nat /\ Len(product) \in Nat
      /\ Len(product') \in Nat
  BY <1>4 DEF CommitPublish, TrainingTypeOK
<1>9. \A n \in 1 .. Len(version') : version'[n].row \in 1 .. Len(product')
  <2> SUFFICES ASSUME NEW n \in 1 .. Len(version') PROVE version'[n].row \in 1 .. Len(product')
    OBVIOUS
  <2>1. CASE n = Len(version')
    BY <1>4, <1>6, <1>7, <2>1
  <2>2. CASE n # Len(version')
    <3>1. n \in 1 .. Len(version)
      BY <1>6, <1>8, <2>2
    <3>2. version[n].row \in 1 .. Len(product)
      BY <3>1 DEF TrainingTypeOK
    <3> QED
      BY <1>4, <1>6, <1>8, <3>1, <3>2
  <2> QED
    BY <2>1, <2>2
<1>10. training' \in [Trainings -> TrainingRows] /\ asked' \in Nat
  BY DEF CommitPublish, TrainingTypeOK, TrainingRows
<1>11. /\ work' \in [Workers -> WorkRows]
       /\ \A v \in Workers : /\ work'[v].op # "none" => work'[v].draft \in Trainings
                             /\ work'[v].active \in 0..Len(version')
  <2>1. work' = [work EXCEPT ![w] = Resting]
    BY DEF CommitPublish
  <2> QED
    BY <1>6, <1>8, <2>1, RestingRow DEF TrainingTypeOK
<1>12. TrainingTypeOK'
  BY <1>4, <1>6, <1>8, <1>9, <1>10, <1>11 DEF TrainingTypeOK
<1>13. CatalogAgrees'
  BY <1>4, <1>6, <1>7, <1>8 DEF CatalogAgrees
<1> QED
  BY <1>12, <1>13

\* The other steps on drafts leave versions and products as they are.
LEMMA DraftStepAgrees ==
    ASSUME TrainingTypeOK, CatalogAgrees,
           \/ \E d \in Trainings, payload \in Payloads :
                 \/ CreateTraining(d, payload)
                 \/ \E w \in Workers : BeginUpdate(w, d, payload)
           \/ \E w \in Workers :
                 \/ \E d \in Trainings : BeginPublish(w, d)
                 \/ CommitUpdate(w) \/ RefusePublish(w)
    PROVE  TrainingTypeOK' /\ CatalogAgrees'
<1>1. UNCHANGED <<version, active, product>>
  BY DEF CreateTraining, BeginUpdate, BeginPublish, CommitUpdate, RefusePublish
<1>2. asked' \in Nat
  BY AskTyped
     DEF CreateTraining, BeginUpdate, BeginPublish, CommitUpdate, RefusePublish, TrainingTypeOK
<1>3. training' \in [Trainings -> TrainingRows]
  <2>1. ASSUME NEW d \in Trainings, NEW payload \in Payloads, CreateTraining(d, payload)
        PROVE  training' \in [Trainings -> TrainingRows]
    BY <2>1, PayloadsDrafted DEF CreateTraining, TrainingTypeOK, TrainingRows
  <2>2. ASSUME NEW w \in Workers, CommitUpdate(w)
        PROVE  training' \in [Trainings -> TrainingRows]
    <3>1. work[w].payload \in Drafted
      BY DEF TrainingTypeOK, WorkRows
    <3> QED
      BY <2>2, <3>1 DEF CommitUpdate, TrainingTypeOK, TrainingRows
  <2> QED
    BY <2>1, <2>2 DEF BeginUpdate, BeginPublish, RefusePublish, TrainingTypeOK
<1> DEFINE WorkMoves ==
             \E w \in Workers, new \in WorkRows :
                /\ work' = [work EXCEPT ![w] = new]
                /\ new.op # "none" => new.draft \in Trainings
                /\ new.active \in 0 .. Len(version)
<1>4. UNCHANGED work \/ WorkMoves
  <2>1. ASSUME NEW d \in Trainings, NEW payload \in Payloads, NEW w \in Workers,
               BeginUpdate(w, d, payload)
        PROVE  WorkMoves
    <3> DEFINE new == [Resting EXCEPT !.op = "update", !.draft = d, !.payload = payload]
    <3>1. new \in WorkRows /\ new.draft = d /\ new.active = 0
      BY PayloadsDrafted, RestingRow DEF WorkRows
    <3>2. work' = [work EXCEPT ![w] = new]
      BY <2>1 DEF BeginUpdate
    <3>3. 0 \in 0 .. Len(version)
      BY DEF TrainingTypeOK
    <3> HIDE DEF new
    <3> QED
      BY <3>1, <3>2, <3>3
  <2>2. ASSUME NEW d \in Trainings, NEW w \in Workers, BeginPublish(w, d)
        PROVE  WorkMoves
    <3> DEFINE new == [op |-> "publish", draft |-> d, payload |-> training[d].payload,
                       active |-> active, versions |-> Len(version)]
    <3>1. new \in WorkRows /\ new.draft = d /\ new.active \in 0 .. Len(version)
      BY DEF TrainingTypeOK, TrainingRows, WorkRows
    <3>2. work' = [work EXCEPT ![w] = new]
      BY <2>2 DEF BeginPublish
    <3> HIDE DEF new
    <3> QED
      BY <3>1, <3>2
  <2>3. ASSUME NEW w \in Workers, CommitUpdate(w) \/ RefusePublish(w)
        PROVE  WorkMoves
    <3>1. work' = [work EXCEPT ![w] = Resting] /\ 0 \in 0 .. Len(version)
      BY <2>3 DEF CommitUpdate, RefusePublish, TrainingTypeOK
    <3> QED
      BY <3>1, RestingRow
  <2> QED
    BY <2>1, <2>2, <2>3 DEF CreateTraining
<1>5. /\ work' \in [Workers -> WorkRows]
      /\ \A w \in Workers : /\ work'[w].op # "none" => work'[w].draft \in Trainings
                            /\ work'[w].active \in 0..Len(version)
  BY <1>4 DEF TrainingTypeOK
<1> QED
  BY <1>1, <1>2, <1>3, <1>5 DEF TrainingTypeOK, CatalogAgrees

LEMMA TrainingAgrees ==
    ASSUME TrainingTypeOK, CatalogAgrees, TrainingNext
    PROVE  TrainingTypeOK' /\ CatalogAgrees'
BY CommitPublishAgrees, DraftStepAgrees DEF TrainingNext

LEMMA TrainingInitAgrees == TrainingInit => TrainingTypeOK /\ CatalogAgrees
<1> SUFFICES ASSUME TrainingInit PROVE TrainingTypeOK /\ CatalogAgrees
  OBVIOUS
<1>1. training \in [Trainings -> TrainingRows]
  BY CatalogTrainingAssumption
     DEF TrainingInit, NoTraining, TrainingRows, Drafted, CatalogTrainingAssumption
<1>2. PICK content \in Contents : product = <<content>>
  BY DEF TrainingInit
<1>3. product \in Seq(Contents) /\ Len(product) > 0 /\ version = << >> /\ active = 0
  BY <1>2 DEF TrainingInit
<1> QED
  BY <1>1, <1>3, RestingRow DEF TrainingInit, TrainingTypeOK, CatalogAgrees

\* A studio step asks at most for another request.
LEMMA StudioKeepsTraining ==
    ASSUME TrainingTypeOK, CatalogAgrees, UNCHANGED trainingVars, asked' \in Nat
    PROVE  TrainingTypeOK' /\ CatalogAgrees'
BY DEF TrainingTypeOK, CatalogAgrees, trainingVars

--------------------------------------------------------------------------------
(* What a step of the studio does to the requests                          *)

LEMMA StillRow ==
    /\ NoPost \in PostRows /\ NoJob \in JobRows
    /\ Still \in ActRows /\ Still.op = "none"
BY CatalogTrainingAssumption, ContentStudioAssumption
   DEF CatalogTrainingAssumption, ContentStudioAssumption, Still, ActRows, NoPost, PostRows,
       NoJob, JobRows

\* A request that becomes new is about something.
LEMMA ActMoves ==
    ASSUME StudioTypeOK, Acting, NEW m \in Managers, NEW new \in ActRows,
           act' = [act EXCEPT ![m] = new],
           new.op \notin {"none", "delete"} => new.post \in Posts,
           new.op = "delete" => new.asset \in Assets
    PROVE  act' \in [Managers -> ActRows] /\ Acting'
<1>1. act' \in [Managers -> ActRows]
  BY DEF StudioTypeOK
<1>2. \A n \in Managers : act'[n] = IF n = m THEN new ELSE act[n]
  BY DEF StudioTypeOK
<1> QED
  BY <1>1, <1>2 DEF Acting

\* A request that goes on is about the same.
LEMMA ActGoes ==
    ASSUME StudioTypeOK, Acting, NEW m \in Managers,
           NEW op \in {"mark", "call", "refused"}, act[m].post \in Posts, Go(m, op)
    PROVE  act' \in [Managers -> ActRows] /\ Acting'
<1> DEFINE new == [act[m] EXCEPT !.op = op]
<1>1. new \in ActRows /\ new.op = op /\ new.post = act[m].post
  BY DEF StudioTypeOK, ActRows
<1>2. act' = [act EXCEPT ![m] = new]
  BY DEF Go, StudioTypeOK
<1> HIDE DEF new
<1> QED
  BY <1>1, <1>2, ActMoves

LEMMA ActStops ==
    ASSUME StudioTypeOK, Acting, NEW m \in Managers, Stop(m)
    PROVE  act' \in [Managers -> ActRows] /\ Acting'
BY ActMoves, StillRow DEF Stop

LEMMA ActReads ==
    ASSUME StudioTypeOK, Acting, NEW m \in Managers, NEW op \in {"edit", "approve"},
           NEW p \in Posts, NEW caption \in Captions, Read(m, op, p, caption)
    PROVE  /\ act' \in [Managers -> ActRows] /\ Acting'
           /\ act'[m].op = op /\ act'[m].post = p
<1> DEFINE new == [Still EXCEPT !.op = op, !.post = p, !.caption = caption, !.read = post[p]]
<1>1. new \in ActRows /\ new.op = op /\ new.post = p
  BY StillRow DEF StudioTypeOK, ActRows
<1>2. act' = [act EXCEPT ![m] = new]
  BY DEF Read
<1> HIDE DEF new
<1> QED
  BY <1>1, <1>2, ActMoves DEF StudioTypeOK

--------------------------------------------------------------------------------
(* Types of the studio                                                     *)

Stages == {"none", "draft", "approved", "publishing", "published", "failed", "unknown"}

JobStages == {"none", "queued", "publishing", "published", "failed", "unknown"}

\* What changing the status of one row changes.
LEMMA PostStaged ==
    ASSUME post \in [Posts -> PostRows], NEW p \in Posts, NEW s \in Stages,
           post' = [post EXCEPT ![p].status = s]
    PROVE  /\ post' \in [Posts -> PostRows]
           /\ post'[p].status = s /\ post'[p].caption = post[p].caption
           /\ \A q \in Posts \ {p} : post'[q] = post[q]
<1> DEFINE new == [post[p] EXCEPT !.status = s]
<1>1. post[p] \in PostRows
  OBVIOUS
<1>2. new \in PostRows /\ new.status = s /\ new.caption = post[p].caption
  BY <1>1 DEF PostRows, Stages
<1>3. post' = [post EXCEPT ![p] = new]
  OBVIOUS
<1> HIDE DEF new
<1> QED
  BY <1>2, <1>3

LEMMA JobStaged ==
    ASSUME job \in [Posts -> JobRows], NEW p \in Posts, NEW s \in JobStages,
           job' = [job EXCEPT ![p].status = s]
    PROVE  /\ job' \in [Posts -> JobRows]
           /\ job'[p].status = s /\ job'[p].media = job[p].media
           /\ \A q \in Posts \ {p} : job'[q] = job[q]
<1> DEFINE new == [job[p] EXCEPT !.status = s]
<1>1. job[p] \in JobRows
  OBVIOUS
<1>2. new \in JobRows /\ new.status = s /\ new.media = job[p].media
  BY <1>1 DEF JobRows, JobStages
<1>3. job' = [job EXCEPT ![p] = new]
  OBVIOUS
<1> HIDE DEF new
<1> QED
  BY <1>2, <1>3

\* What the answer to a call makes of the draft.
LEMMA PostAnswered ==
    ASSUME StudioTypeOK, NEW m \in Managers, act[m].post \in Posts, NEW status \in Stages,
           PostBecomes(m, status)
    PROVE  LET p == act[m].post IN
           /\ post' \in [Posts -> PostRows]
           /\ post'[p].status \in {status, post[p].status}
           /\ post'[p].caption = post[p].caption
           /\ \A q \in Posts \ {p} : post'[q] = post[q]
<1> DEFINE p == act[m].post
           s == Changed(act[m].read.status, status, post[p].status)
<1>1. s \in Stages /\ s \in {status, post[p].status}
  BY DEF Changed, StudioTypeOK, PostRows, Stages
<1>2. post' = [post EXCEPT ![p].status = s]
  BY DEF PostBecomes
<1> HIDE DEF s
<1> QED
  BY <1>1, <1>2, PostStaged DEF StudioTypeOK

\* What an edit writes.
LEMMA PostEdited ==
    ASSUME StudioTypeOK, NEW m \in Managers, NEW p \in Posts, p = act[m].post, CommitEdit(m)
    PROVE  /\ post' \in [Posts -> PostRows]
           /\ post'[p].status = Changed(act[m].read.status, "draft", post[p].status)
           /\ post'[p].caption =
                 Changed(act[m].read.caption, act[m].caption, post[p].caption)
           /\ \A q \in Posts \ {p} : post'[q] = post[q]
<1> DEFINE read == act[m].read
           c == Changed(read.caption, act[m].caption, post[p].caption)
           s == Changed(read.status, "draft", post[p].status)
           new == [post[p] EXCEPT !.caption = c, !.revision = read.revision + 1, !.status = s]
<1>1. post[p] \in PostRows /\ act[m] \in ActRows /\ post \in [Posts -> PostRows]
  BY DEF StudioTypeOK
<1>2. read \in PostRows /\ act[m].caption \in Captions
  BY <1>1 DEF ActRows
<1>3. /\ c \in Captions /\ read.revision + 1 \in Nat
      /\ s \in {"none", "draft", "approved", "publishing", "published", "failed", "unknown"}
  BY <1>1, <1>2 DEF PostRows, Changed
<1>4. post' = [post EXCEPT ![p].caption = c, ![p].revision = read.revision + 1, ![p].status = s]
  BY DEF CommitEdit, Edited
<1> HIDE DEF c, s, read
<1>5. new \in PostRows /\ new.status = s /\ new.caption = c
  BY <1>1, <1>3 DEF PostRows
<1>6. post' = [post EXCEPT ![p] = new]
  BY <1>1, <1>4
<1> HIDE DEF new
<1> QED
  BY <1>1, <1>5, <1>6 DEF c, s, read

\* The three ways in which Mark may go.
LEMMA MarkKinds ==
    ASSUME NEW m \in Managers, Mark(m)
    PROVE  LET p == act[m].post
               seen == act[m].job
           IN
           \/ /\ seen.status = "published"
              /\ Stop(m) /\ UNCHANGED <<post, job, raced, excused>>
           \/ /\ seen.status # "published" /\ seen.media # 0
              /\ job' = [job EXCEPT ![p].status = "published"]
              /\ post' = [post EXCEPT ![p].status = "published"]
              /\ Stop(m) /\ UNCHANGED <<raced, excused>>
           \/ /\ seen.status # "published" /\ seen.media = 0
              /\ job' = [job EXCEPT ![p].status = Changed(seen.status, "publishing", @)]
              /\ post' = [post EXCEPT ![p].status = "publishing"]
              /\ raced' = [raced EXCEPT ![p] = @ \/ Overtaken(m, p)]
              /\ excused' = [excused EXCEPT ![p] =
                                 (@ \ {"approved", "error"})
                                    \cup {x \in {"together"} : Contended(m, p)}]
              /\ act' = [act EXCEPT ![m] = [Still EXCEPT !.op = "call", !.post = p]]
BY DEF Mark

LEMMA DepictTyped ==
    ASSUME TrainingTypeOK, StudioTypeOK, Acting, Depict
    PROVE  StudioTypeOK' /\ Acting' /\ asked' \in Nat
<1>1. ASSUME NEW a \in Assets, Upload(a) PROVE StudioTypeOK' /\ Acting' /\ asked' \in Nat
  BY <1>1 DEF Upload, StudioTypeOK, Acting, TrainingTypeOK
<1>2. ASSUME NEW m \in Managers, NEW a \in Assets, BeginDelete(m, a)
      PROVE  StudioTypeOK' /\ Acting' /\ asked' \in Nat
  <2> DEFINE new == [Still EXCEPT !.op = "delete", !.asset = a]
  <2>1. new \in ActRows /\ new.op = "delete" /\ new.asset = a
    BY StillRow DEF ActRows
  <2>2. act' = [act EXCEPT ![m] = new]
    BY <1>2 DEF BeginDelete
  <2> HIDE DEF new
  <2>3. act' \in [Managers -> ActRows] /\ Acting'
    BY <2>1, <2>2, ActMoves
  <2> QED
    BY <1>2, <2>3, AskTyped DEF BeginDelete, StudioTypeOK, TrainingTypeOK
<1>3. ASSUME NEW m \in Managers, CommitDelete(m)
      PROVE  StudioTypeOK' /\ Acting' /\ asked' \in Nat
  <2>1. act' \in [Managers -> ActRows] /\ Acting'
    BY <1>3, ActStops DEF CommitDelete
  <2> QED
    BY <1>3, <2>1 DEF CommitDelete, StudioTypeOK, TrainingTypeOK
<1> QED
  BY <1>1, <1>2, <1>3 DEF Depict

LEMMA WriteTyped ==
    ASSUME TrainingTypeOK, StudioTypeOK, Acting, Write
    PROVE  StudioTypeOK' /\ Acting' /\ asked' \in Nat
<1>1. ASSUME NEW p \in Posts, NEW row \in 1 .. Len(product), NEW a \in Assets,
             Generate(p, row, a)
      PROVE  StudioTypeOK' /\ Acting' /\ asked' \in Nat
  <2> DEFINE new == [NoPost EXCEPT !.status = "draft", !.revision = 1, !.row = row,
                                   !.source = product[row], !.asset = a]
  <2>1. product[row] \in Contents /\ row \in Nat
    BY DEF TrainingTypeOK
  <2>2. new \in PostRows
    BY <2>1, StillRow DEF PostRows
  <2>3. post' = [post EXCEPT ![p] = new]
    BY <1>1 DEF Generate
  <2> HIDE DEF new
  <2> QED
    BY <1>1, <2>2, <2>3 DEF Generate, StudioTypeOK, Acting, TrainingTypeOK
<1>2. ASSUME NEW m \in Managers, NEW p \in Posts, NEW caption \in Captions,
             BeginEdit(m, p, caption)
      PROVE  StudioTypeOK' /\ Acting' /\ asked' \in Nat
  <2>1. act' \in [Managers -> ActRows] /\ Acting'
    BY <1>2, ActReads DEF BeginEdit
  <2> QED
    BY <1>2, <2>1, AskTyped DEF BeginEdit, StudioTypeOK, TrainingTypeOK
<1>3. ASSUME NEW m \in Managers, NEW p \in Posts, BeginApprove(m, p)
      PROVE  StudioTypeOK' /\ Acting' /\ asked' \in Nat
  <2>1. post[p].caption \in Captions
    BY DEF StudioTypeOK, PostRows
  <2>2. act' \in [Managers -> ActRows] /\ Acting'
    BY <1>3, <2>1, ActReads DEF BeginApprove
  <2> QED
    BY <1>3, <2>2, AskTyped DEF BeginApprove, StudioTypeOK, TrainingTypeOK
<1>4. ASSUME NEW m \in Managers, CommitEdit(m)
      PROVE  StudioTypeOK' /\ Acting' /\ asked' \in Nat
  <2> DEFINE p == act[m].post
  <2>1. p \in Posts
    BY <1>4 DEF CommitEdit, Acting
  <2>2. act' \in [Managers -> ActRows] /\ Acting'
    BY <1>4, ActStops DEF CommitEdit
  <2>3. post' \in [Posts -> PostRows]
    BY <1>4, <2>1, PostEdited
  <2>4. raced' \in [Posts -> BOOLEAN]
    <3>1. raced' = [raced EXCEPT ![p] = @ \/ Overtaken(m, p) \/ Contended(m, p)]
      BY <1>4 DEF CommitEdit
    <3>2. Overtaken(m, p) \in BOOLEAN /\ Contended(m, p) \in BOOLEAN
      BY DEF Overtaken, Contended
    <3> QED
      BY <2>1, <3>1, <3>2, Zenon DEF StudioTypeOK
  <2> QED
    BY <1>4, <2>2, <2>3, <2>4 DEF CommitEdit, StudioTypeOK, TrainingTypeOK
<1>5. ASSUME NEW m \in Managers, CommitApprove(m)
      PROVE  StudioTypeOK' /\ Acting' /\ asked' \in Nat
  <2> DEFINE p == act[m].post
  <2>1. p \in Posts
    BY <1>5 DEF CommitApprove, Acting
  <2>2. act' \in [Managers -> ActRows] /\ Acting'
    BY <1>5, ActStops DEF CommitApprove
  <2>3. post' \in [Posts -> PostRows]
    <3> DEFINE s == Changed(act[m].read.status, "approved", post[p].status)
    <3>1. s \in Stages
      BY <2>1 DEF Changed, StudioTypeOK, PostRows, Stages
    <3>2. post' = [post EXCEPT ![p].status = s]
      BY <1>5 DEF CommitApprove
    <3> HIDE DEF s
    <3> QED
      BY <2>1, <3>1, <3>2, PostStaged DEF StudioTypeOK
  <2>6. reviewed' \in [Posts -> Captions]
    BY <1>5, <2>1 DEF CommitApprove, StudioTypeOK, ActRows
  <2>4. raced' \in [Posts -> BOOLEAN]
    <3>1. raced' = [raced EXCEPT ![p] = Overtaken(m, p)]
      BY <1>5 DEF CommitApprove
    <3>2. Overtaken(m, p) \in BOOLEAN
      BY DEF Overtaken
    <3> QED
      BY <2>1, <3>1, <3>2, Zenon DEF StudioTypeOK
  <2>5. excused' \in [Posts -> SUBSET {"approved", "error", "together"}]
    BY <1>5, <2>1 DEF CommitApprove, StudioTypeOK
  <2> QED
    BY <1>5, <2>2, <2>3, <2>4, <2>5, <2>6 DEF CommitApprove, StudioTypeOK, TrainingTypeOK
<1> QED
  BY <1>1, <1>2, <1>3, <1>4, <1>5 DEF Write

LEMMA PublishTyped ==
    ASSUME TrainingTypeOK, StudioTypeOK, Acting, Publish
    PROVE  StudioTypeOK' /\ Acting' /\ asked' \in Nat
<1>1. ASSUME NEW m \in Managers, NEW p \in Posts, BeginPost(m, p)
      PROVE  StudioTypeOK' /\ Acting' /\ asked' \in Nat
  <2> DEFINE new == [Still EXCEPT !.op = IF job[p] = NoJob THEN "reserve" ELSE "mark",
                                  !.post = p, !.read = post[p], !.job = job[p]]
  <2>1. new \in ActRows /\ new.op \in {"reserve", "mark"} /\ new.post = p
    BY StillRow DEF ActRows, StudioTypeOK
  <2>2. act' = [act EXCEPT ![m] = new]
    BY <1>1 DEF BeginPost
  <2> HIDE DEF new
  <2>3. act' \in [Managers -> ActRows] /\ Acting'
    BY <2>1, <2>2, ActMoves
  <2> QED
    BY <1>1, <2>3, AskTyped DEF BeginPost, StudioTypeOK, TrainingTypeOK
<1>2. ASSUME NEW m \in Managers, Reserve(m)
      PROVE  StudioTypeOK' /\ Acting' /\ asked' \in Nat
  <2> DEFINE p == act[m].post
             new == [act[m] EXCEPT !.op = "mark", !.job = job'[p]]
  <2>1. p \in Posts
    BY <1>2 DEF Reserve, Acting
  <2>2. job' \in [Posts -> JobRows]
    BY <1>2, <2>1 DEF Reserve, StudioTypeOK, JobRows
  <2>3. new \in ActRows /\ new.op = "mark" /\ new.post = p
    BY <2>1, <2>2 DEF ActRows, StudioTypeOK
  <2>4. act' = [act EXCEPT ![m] = new]
    <3>1. act' = [act EXCEPT ![m].op = "mark", ![m].job = job'[p]]
      BY <1>2 DEF Reserve
    <3> QED
      BY <3>1 DEF StudioTypeOK
  <2> HIDE DEF new
  <2>5. act' \in [Managers -> ActRows] /\ Acting'
    BY <2>1, <2>3, <2>4, ActMoves
  <2> QED
    BY <1>2, <2>2, <2>5 DEF Reserve, StudioTypeOK, TrainingTypeOK
<1>3. ASSUME NEW m \in Managers, Mark(m)
      PROVE  StudioTypeOK' /\ Acting' /\ asked' \in Nat
  <2> DEFINE p == act[m].post
  <2>1. p \in Posts
    BY <1>3 DEF Mark, Acting
  <2>2. act' \in [Managers -> ActRows] /\ Acting'
    <3>1. CASE Stop(m)
      BY <3>1, ActStops
    <3>2. CASE act' = [act EXCEPT ![m] = [Still EXCEPT !.op = "call", !.post = p]]
      <4> DEFINE new == [Still EXCEPT !.op = "call", !.post = p]
      <4>1. new \in ActRows /\ new.op = "call" /\ new.post = p
        BY <2>1, StillRow DEF ActRows
      <4> HIDE DEF new
      <4> QED
        BY <2>1, <3>2, <4>1, ActMoves DEF new
    <3> QED
      BY <1>3, <3>1, <3>2, MarkKinds
  <2>3. post' \in [Posts -> PostRows]
    <3>1. \/ post' = post
          \/ \E s \in Stages : post' = [post EXCEPT ![p].status = s]
      BY <1>3, MarkKinds DEF Stages
    <3> QED
      BY <2>1, <3>1, PostStaged DEF StudioTypeOK
  <2>6. job' \in [Posts -> JobRows]
    <3> DEFINE s == Changed(act[m].job.status, "publishing", job[p].status)
    <3>1. s \in JobStages
      BY <2>1 DEF Changed, StudioTypeOK, JobRows, JobStages
    <3>2. \/ job' = job
          \/ job' = [job EXCEPT ![p].status = "published"]
          \/ job' = [job EXCEPT ![p].status = s]
      BY <1>3, MarkKinds
    <3> HIDE DEF s
    <3>3. "published" \in JobStages
      BY DEF JobStages
    <3> QED
      BY <2>1, <3>1, <3>2, <3>3, JobStaged DEF StudioTypeOK
  <2>4. raced' \in [Posts -> BOOLEAN]
    <3>1. raced' = raced \/ raced' = [raced EXCEPT ![p] = @ \/ Overtaken(m, p)]
      BY <1>3, MarkKinds
    <3>2. Overtaken(m, p) \in BOOLEAN
      BY DEF Overtaken
    <3> QED
      BY <2>1, <3>1, <3>2, Zenon DEF StudioTypeOK
  <2>5. excused' \in [Posts -> SUBSET {"approved", "error", "together"}]
    <3> DEFINE x == (excused[p] \ {"approved", "error"})
                        \cup {y \in {"together"} : Contended(m, p)}
    <3>1. excused' = excused \/ excused' = [excused EXCEPT ![p] = x]
      BY <1>3, MarkKinds
    <3>2. x \subseteq {"approved", "error", "together"}
      BY <2>1 DEF StudioTypeOK
    <3> HIDE DEF x
    <3> QED
      BY <2>1, <3>1, <3>2 DEF StudioTypeOK
  <2> QED
    BY <1>3, <2>2, <2>3, <2>4, <2>5, <2>6 DEF Mark, StudioTypeOK, TrainingTypeOK
<1>8. ASSUME NEW m \in Managers, Hand(m)
      PROVE  StudioTypeOK' /\ Acting' /\ asked' \in Nat
  <2> DEFINE p == act[m].post
             new == [act[m] EXCEPT !.op = "handed", !.read = post[p]]
  <2>1. p \in Posts
    BY <1>8 DEF Hand, Acting
  <2>2. new \in ActRows /\ new.op = "handed" /\ new.post = p
    BY <2>1 DEF ActRows, StudioTypeOK
  <2>3. act' = [act EXCEPT ![m] = new]
    <3>1. act' = [act EXCEPT ![m].op = "handed", ![m].read = post[p]]
      BY <1>8 DEF Hand
    <3> QED
      BY <3>1 DEF StudioTypeOK
  <2> HIDE DEF new
  <2>4. act' \in [Managers -> ActRows] /\ Acting'
    BY <2>1, <2>2, <2>3, ActMoves
  <2> QED
    BY <1>8, <2>4 DEF Hand, StudioTypeOK, TrainingTypeOK
<1>4. ASSUME NEW m \in Managers, Accept(m)
      PROVE  StudioTypeOK' /\ Acting' /\ asked' \in Nat
  <2> DEFINE p == act[m].post
             new == [act[m] EXCEPT !.op = "accepted", !.media = Len(live')]
  <2>1. p \in Posts
    BY <1>4 DEF Accept, Acting
  <2>2. live' \in Seq([post : Posts, caption : Captions])
    <3> DEFINE entry == [post |-> p, caption |-> act[m].read.caption]
    <3>1. entry \in [post : Posts, caption : Captions]
      BY <2>1 DEF StudioTypeOK, ActRows, PostRows
    <3>2. live' = Append(live, entry)
      BY <1>4 DEF Accept
    <3> HIDE DEF entry
    <3> QED
      BY <3>1, <3>2 DEF StudioTypeOK
  <2>6. Len(live') \in Nat /\ act[m] \in ActRows
    BY <2>2 DEF StudioTypeOK
  <2>3. new \in ActRows /\ new.op = "accepted" /\ new.post = p
    BY <2>1, <2>6 DEF ActRows
  <2>4. act' = [act EXCEPT ![m] = new]
    <3>1. act' = [act EXCEPT ![m].op = "accepted", ![m].media = Len(live')]
      BY <1>4 DEF Accept
    <3> QED
      BY <3>1 DEF StudioTypeOK
  <2> HIDE DEF new
  <2>5. act' \in [Managers -> ActRows] /\ Acting'
    BY <2>1, <2>3, <2>4, ActMoves
  <2> QED
    BY <1>4, <2>2, <2>5 DEF Accept, StudioTypeOK, TrainingTypeOK
<1>5. ASSUME NEW m \in Managers, Refuse(m)
      PROVE  StudioTypeOK' /\ Acting' /\ asked' \in Nat
  <2>1. act' \in [Managers -> ActRows] /\ Acting'
    BY <1>5, ActGoes DEF Refuse, Acting
  <2> QED
    BY <1>5, <2>1 DEF Refuse, StudioTypeOK, TrainingTypeOK
<1>6. ASSUME NEW m \in Managers, Succeed(m)
      PROVE  StudioTypeOK' /\ Acting' /\ asked' \in Nat
  <2>1. act[m].post \in Posts /\ act[m].media \in Nat
    BY <1>6 DEF Succeed, Acting, StudioTypeOK, ActRows
  <2>2. act' \in [Managers -> ActRows] /\ Acting'
    BY <1>6, ActStops DEF Succeed
  <2>3. post' \in [Posts -> PostRows]
    <3>1. PostBecomes(m, "published") /\ "published" \in Stages
      BY <1>6 DEF Succeed, Stages
    <3> QED
      BY <2>1, <3>1, PostAnswered
  <2>4. job' \in [Posts -> JobRows] /\ mapped' \subseteq Nat
    BY <1>6, <2>1 DEF Succeed, StudioTypeOK, JobRows
  <2> QED
    BY <1>6, <2>2, <2>3, <2>4 DEF Succeed, StudioTypeOK, TrainingTypeOK
<1>7. ASSUME NEW m \in Managers, TimeOut(m) \/ Err(m)
      PROVE  StudioTypeOK' /\ Acting' /\ asked' \in Nat
  <2>1. Fail(m, "unknown") \/ Fail(m, "failed")
    BY <1>7 DEF TimeOut, Err, AfterTimeout
  <2>2. act[m].post \in Posts
    BY <2>1 DEF Fail, Acting
  <2>3. act' \in [Managers -> ActRows] /\ Acting'
    BY <2>1, ActStops DEF Fail
  <2>4. post' \in [Posts -> PostRows] /\ job' \in [Posts -> JobRows]
    <3>1. PICK s \in Stages \cap JobStages :
              /\ PostBecomes(m, s)
              /\ job' = [job EXCEPT ![act[m].post].status = s]
      BY <2>1 DEF Fail, Stages, JobStages
    <3> QED
      BY <2>2, <3>1, PostAnswered, JobStaged DEF StudioTypeOK
  <2>5. excused' \in [Posts -> SUBSET {"approved", "error", "together"}]
    BY <1>7, <2>2 DEF TimeOut, Err, StudioTypeOK
  <2> QED
    BY <1>7, <2>3, <2>4, <2>5 DEF TimeOut, Err, StudioTypeOK, TrainingTypeOK
<1> QED
  BY <1>1, <1>2, <1>3, <1>4, <1>5, <1>6, <1>7, <1>8 DEF Publish

\* Every step leaves every variable in its type.
LEMMA CrashTyped ==
    ASSUME TrainingTypeOK, StudioTypeOK, Acting, NEW m \in Managers, Crash(m)
    PROVE  StudioTypeOK' /\ Acting' /\ asked' \in Nat
<1>1. act' \in [Managers -> ActRows] /\ Acting'
  BY ActStops DEF Crash
<1> QED
  BY <1>1 DEF Crash, StudioTypeOK, TrainingTypeOK

LEMMA StepTyped ==
    ASSUME TypeOK, CatalogAgrees, [Next]_vars
    PROVE  TypeOK' /\ CatalogAgrees'
<1> USE TypeOKParts
<1>1. ASSUME TrainingNext, UNCHANGED studioVars PROVE TypeOK' /\ CatalogAgrees'
  <2>1. StudioTypeOK' /\ Acting'
    BY <1>1 DEF StudioTypeOK, Acting, studioVars
  <2> QED
    BY <1>1, <2>1, TrainingAgrees DEF TypeOK, StudioTypeOK, Acting
<1>2. ASSUME Depict \/ Write \/ Publish \/ \E m \in Managers : Crash(m),
             UNCHANGED trainingVars
      PROVE  TypeOK' /\ CatalogAgrees'
  <2>1. StudioTypeOK' /\ Acting' /\ asked' \in Nat
    BY <1>2, DepictTyped, WriteTyped, PublishTyped, CrashTyped
  <2>2. TrainingTypeOK' /\ CatalogAgrees'
    BY <1>2, <2>1, StudioKeepsTraining
  <2> QED
    BY <2>1, <2>2 DEF TypeOK, StudioTypeOK, Acting
<1>3. ASSUME UNCHANGED vars PROVE TypeOK' /\ CatalogAgrees'
  <2>1. UNCHANGED trainingVars /\ UNCHANGED studioVars /\ asked' \in Nat
    BY <1>3 DEF vars, TrainingTypeOK
  <2>2. StudioTypeOK' /\ Acting'
    BY <2>1 DEF StudioTypeOK, Acting, studioVars
  <2> QED
    BY <2>1, <2>2, StudioKeepsTraining DEF TypeOK, StudioTypeOK, Acting
<1> QED
  BY <1>1, <1>2, <1>3 DEF Next

LEMMA InitTyped == Init => TypeOK /\ CatalogAgrees
<1> SUFFICES ASSUME Init PROVE TypeOK /\ CatalogAgrees
  OBVIOUS
<1>1. TrainingTypeOK /\ CatalogAgrees
  BY TrainingInitAgrees DEF Init
<1>2. StudioTypeOK /\ Acting
  BY StillRow, ContentStudioAssumption DEF Init, StudioTypeOK, Acting, ContentStudioAssumption
<1> QED
  BY <1>1, <1>2, TypeOKParts

\* Every variable of the studio, and of the trained catalog under it, keeps its type.
THEOREM StudioTypeCorrect == Spec => []TypeOK
<1>1. Init => TypeOK /\ CatalogAgrees
  BY InitTyped
<1>2. TypeOK /\ CatalogAgrees /\ [Next]_vars => (TypeOK /\ CatalogAgrees)'
  BY StepTyped
<1> QED
  BY <1>1, <1>2, PTL DEF Spec

\* The store points to its latest version, and the row of products that it lists says what
\* the version says, however publications overlap with each other and with updates.
THEOREM CatalogAgreesHolds == Spec => []CatalogAgrees
<1>1. Init => TypeOK /\ CatalogAgrees
  BY InitTyped
<1>2. TypeOK /\ CatalogAgrees /\ [Next]_vars => (TypeOK /\ CatalogAgrees)'
  BY StepTyped
<1> QED
  BY <1>1, <1>2, PTL DEF Spec

--------------------------------------------------------------------------------
(* The inductive invariants                                                *)

Backed(p, media) == media \in 1 .. Len(live) /\ live[media].post = p

\* A media id that is recorded, or about to be, is that of a live post of the draft; and
\* what counts as published has one.
PublishedInv ==
    /\ \A p \in Posts :
          /\ job[p].media # 0 => job[p].media \in mapped /\ Backed(p, job[p].media)
          /\ post[p].status = "published" => job[p].media # 0
    /\ \A m \in Managers :
          /\ act[m].op = "accepted" => Backed(act[m].post, act[m].media)
          /\ act[m].op = "mark" /\ act[m].job.media # 0 => job[act[m].post].media # 0

Attempted(p) ==
    \/ \E i \in 1 .. Len(live) : live[i].post = p
    \/ \E m \in Managers : act[m].op \in {"call", "handed"} /\ act[m].post = p

\* What is live, or may come to be, is not about to be posted again, unless it is excused.
RepeatedInv ==
    \A p \in Posts : excused[p] = {} /\ Attempted(p) =>
       /\ post[p].status \notin {"approved", "failed"}
       /\ \A m \in Managers : act[m].op \in {"reserve", "mark"} => act[m].post # p

Trusted(p) == raced[p] = FALSE => post[p].caption = reviewed[p]

\* What may be posted, or is being posted, reads as reviewed.
ReviewedInv ==
    /\ \A p \in Posts : post[p].status \in {"approved", "failed"} => Trusted(p)
    /\ \A m \in Managers :
          /\ act[m].op \in {"call", "handed", "accepted", "refused"} => Trusted(act[m].post)
          /\ act[m].op \in {"reserve", "mark"} => act[m].read.status \in {"approved", "failed"}
          /\ act[m].op = "approve" => act[m].caption = act[m].read.caption

StudioInv == PublishedInv /\ RepeatedInv /\ ReviewedInv

\* A step after which a request is as before, or has ended, or reads to approve as it is, to
\* edit or to delete, or has been handed to Meta, or refused by it.
Quiet ==
    /\ UNCHANGED <<post, job, live, mapped, reviewed, raced, excused>>
    /\ \A m \in Managers :
          \/ act'[m] = act[m]
          \/ act'[m].op \in {"none", "delete", "edit"}
          \/ act'[m].op = "approve" /\ act'[m].caption = act'[m].read.caption
          \/ /\ act[m].op \in {"call", "handed"} /\ act'[m].op \in {"handed", "refused"}
             /\ act'[m].post = act[m].post

LEMMA QuietKeeps == ASSUME StudioInv, Quiet PROVE StudioInv'
<1>1. PublishedInv'
  BY DEF StudioInv, PublishedInv, Quiet, Backed
<1>2. RepeatedInv'
  BY DEF StudioInv, RepeatedInv, Quiet, Attempted
<1>3. ReviewedInv'
  BY DEF StudioInv, ReviewedInv, Quiet, Trusted
<1> QED
  BY <1>1, <1>2, <1>3 DEF StudioInv

\* A request that becomes new, the others going on.
LEMMA ActAt ==
    ASSUME StudioTypeOK, NEW m \in Managers, NEW new, act' = [act EXCEPT ![m] = new]
    PROVE  act'[m] = new /\ \A n \in Managers \ {m} : act'[n] = act[n]
BY DEF StudioTypeOK

LEMMA QuietSteps ==
    ASSUME StudioTypeOK, StudioInv,
           \/ Depict
           \/ \E m \in Managers :
                 \/ \E p \in Posts : BeginApprove(m, p) \/ \E c \in Captions : BeginEdit(m, p, c)
                 \/ Hand(m) \/ Refuse(m) \/ Crash(m)
    PROVE  StudioInv'
<1>1. ASSUME NEW m \in Managers, Stop(m)
      PROVE  act'[m].op = "none" /\ \A n \in Managers \ {m} : act'[n] = act[n]
  BY <1>1, ActAt, StillRow DEF Stop
<1>2. CASE Depict
  <2>1. ASSUME NEW m \in Managers, NEW a \in Assets, BeginDelete(m, a) PROVE Quiet
    <3>1. PICK new : act' = [act EXCEPT ![m] = new] /\ new.op = "delete"
      <4>1. [Still EXCEPT !.op = "delete", !.asset = a].op = "delete"
        BY DEF Still
      <4> QED
        BY <2>1, <4>1 DEF BeginDelete
    <3> QED
      BY <2>1, <3>1, ActAt DEF Quiet, BeginDelete
  <2> QED
    BY <1>1, <1>2, <2>1, QuietKeeps DEF Depict, Upload, CommitDelete, Quiet
<1>3. ASSUME NEW m \in Managers, NEW p \in Posts, BeginApprove(m, p) PROVE Quiet
  <2> DEFINE new == [Still EXCEPT !.op = "approve", !.post = p, !.caption = post[p].caption,
                                  !.read = post[p]]
  <2>1. new.op = "approve" /\ new.caption = new.read.caption
    BY DEF Still
  <2>2. act' = [act EXCEPT ![m] = new]
    BY <1>3 DEF BeginApprove, Read
  <2> HIDE DEF new
  <2> QED
    BY <1>3, <2>1, <2>2, ActAt DEF Quiet, BeginApprove
<1>4. ASSUME NEW m \in Managers, NEW p \in Posts, NEW c \in Captions, BeginEdit(m, p, c)
      PROVE  Quiet
  <2> DEFINE new == [Still EXCEPT !.op = "edit", !.post = p, !.caption = c, !.read = post[p]]
  <2>1. new.op = "edit"
    BY DEF Still
  <2>2. act' = [act EXCEPT ![m] = new]
    BY <1>4 DEF BeginEdit, Read
  <2> HIDE DEF new
  <2> QED
    BY <1>4, <2>1, <2>2, ActAt DEF Quiet, BeginEdit
<1>5. ASSUME NEW m \in Managers, Refuse(m) PROVE Quiet
  <2> DEFINE new == [act[m] EXCEPT !.op = "refused"]
  <2>1. new.op = "refused" /\ new.post = act[m].post
    BY DEF StudioTypeOK, ActRows
  <2>2. act' = [act EXCEPT ![m] = new]
    BY <1>5 DEF Refuse, Go
  <2> HIDE DEF new
  <2> QED
    BY <1>5, <2>1, <2>2, ActAt DEF Quiet, Refuse
<1>6. ASSUME NEW m \in Managers, Crash(m) PROVE Quiet
  BY <1>1, <1>6 DEF Quiet, Crash
<1>7. ASSUME NEW m \in Managers, Hand(m) PROVE Quiet
  <2> DEFINE new == [act[m] EXCEPT !.op = "handed", !.read = post[act[m].post]]
  <2>1. new.op = "handed" /\ new.post = act[m].post
    BY DEF StudioTypeOK, ActRows
  <2>2. act' = [act EXCEPT ![m] = new]
    <3>1. act' = [act EXCEPT ![m].op = "handed", ![m].read = post[act[m].post]]
      BY <1>7 DEF Hand
    <3> QED
      BY <3>1 DEF StudioTypeOK
  <2> HIDE DEF new
  <2> QED
    <3>1. act'[m] = new /\ \A n \in Managers \ {m} : act'[n] = act[n]
      BY <2>2, ActAt
    <3>2. act[m].op = "call" /\ UNCHANGED <<post, job, live, mapped, reviewed, raced, excused>>
      BY <1>7 DEF Hand
    <3> QED
      BY <2>1, <3>1, <3>2 DEF Quiet
<1> QED
  BY <1>2, <1>3, <1>4, <1>5, <1>6, <1>7, QuietKeeps

LEMMA GenerateKeeps ==
    ASSUME StudioTypeOK, Acting, StudioInv,
           NEW p \in Posts, NEW row \in 1 .. Len(product), NEW a \in Assets, Generate(p, row, a)
    PROVE  StudioInv'
<1>1. /\ post'[p].status = "draft" /\ post'[p].caption = post[p].caption
      /\ \A q \in Posts \ {p} : post'[q] = post[q]
  <2> DEFINE new == [NoPost EXCEPT !.status = "draft", !.revision = 1, !.row = row,
                                   !.source = product[row], !.asset = a]
  <2>1. new.status = "draft" /\ new.caption = NoPost.caption
    BY DEF NoPost
  <2>2. post' = [post EXCEPT ![p] = new] /\ post[p] = NoPost
    BY DEF Generate
  <2> HIDE DEF new
  <2> QED
    BY <2>1, <2>2 DEF StudioTypeOK
<1>2. UNCHANGED <<job, live, mapped, act, reviewed, raced, excused>>
  BY DEF Generate
<1>3. PublishedInv'
  BY <1>1, <1>2 DEF StudioInv, PublishedInv, Backed
<1>4. RepeatedInv'
  BY <1>1, <1>2 DEF StudioInv, RepeatedInv, Attempted
<1>5. ReviewedInv'
  BY <1>1, <1>2 DEF StudioInv, ReviewedInv, Trusted, Acting
<1> QED
  BY <1>3, <1>4, <1>5 DEF StudioInv

LEMMA EditKeeps ==
    ASSUME StudioTypeOK, Acting, StudioInv, NEW m \in Managers, CommitEdit(m)
    PROVE  StudioInv'
<1> DEFINE p == act[m].post
<1>1. p \in Posts /\ act[m].op = "edit"
  BY DEF CommitEdit, Acting
<1>2. /\ act'[m].op = "none" /\ \A n \in Managers \ {m} : act'[n] = act[n]
      /\ UNCHANGED <<job, live, mapped, reviewed, excused>>
  BY ActAt, StillRow DEF CommitEdit, Stop
<1>3. /\ post'[p].status \in {"draft", post[p].status}
      /\ post[p].status = act[m].read.status => post'[p].status = "draft"
      /\ \A q \in Posts \ {p} : post'[q] = post[q]
  BY <1>1, PostEdited DEF Changed
<1>4. /\ raced'[p] = FALSE => raced[p] = FALSE /\ ~Overtaken(m, p) /\ ~Contended(m, p)
      /\ \A q \in Posts \ {p} : raced'[q] = raced[q]
  <2>1. raced' = [raced EXCEPT ![p] = @ \/ Overtaken(m, p) \/ Contended(m, p)]
    BY DEF CommitEdit
  <2>2. /\ raced'[p] = (raced[p] \/ Overtaken(m, p) \/ Contended(m, p))
        /\ raced[p] \in BOOLEAN
        /\ \A q \in Posts \ {p} : raced'[q] = raced[q]
    BY <1>1, <2>1, Zenon DEF StudioTypeOK
  <2> QED
    BY <2>2, Zenon
<1> HIDE DEF p
<1>5. PublishedInv'
  BY <1>1, <1>2, <1>3 DEF StudioInv, PublishedInv, Backed
<1>6. RepeatedInv'
  BY <1>1, <1>2, <1>3 DEF StudioInv, RepeatedInv, Attempted
<1>7. ReviewedInv'
  <2>1. ASSUME raced'[p] = FALSE
        PROVE  /\ act[m].read = post[p]
               /\ \A n \in Managers \ {m} :
                     act[n].op \in {"call", "handed", "accepted", "refused"} => act[n].post # p
    BY <1>4, <2>1 DEF Overtaken, Contended
  <2>2. \A q \in Posts : post'[q].status \in {"approved", "failed"} => Trusted(q)'
    BY <1>2, <1>3, <1>4, <2>1 DEF StudioInv, ReviewedInv, Trusted
  <2>3. \A n \in Managers :
           act'[n].op \in {"call", "handed", "accepted", "refused"} => Trusted(act[n].post)'
    <3> SUFFICES ASSUME NEW n \in Managers, act'[n].op \in {"call", "handed", "accepted", "refused"},
                        raced'[act'[n].post] = FALSE
                 PROVE  post'[act'[n].post].caption = reviewed'[act'[n].post]
      BY DEF Trusted
    <3>1. act[n] = act'[n] /\ n # m
      BY <1>2
    <3>2. act[n].post \in Posts /\ Trusted(act[n].post)
      BY <3>1 DEF StudioInv, ReviewedInv, Acting
    <3>3. act[n].post # p
      BY <2>1, <3>1
    <3> QED
      BY <1>2, <1>3, <1>4, <3>1, <3>2, <3>3 DEF Trusted
  <2> QED
    BY <1>2, <2>2, <2>3 DEF StudioInv, ReviewedInv, Trusted
<1> QED
  BY <1>5, <1>6, <1>7 DEF StudioInv

LEMMA ApproveKeeps ==
    ASSUME StudioTypeOK, Acting, StudioInv, NEW m \in Managers, CommitApprove(m)
    PROVE  StudioInv'
<1> DEFINE p == act[m].post
<1>1. p \in Posts /\ act[m].op = "approve"
  BY DEF CommitApprove, Acting
<1>2. /\ act'[m].op = "none" /\ \A n \in Managers \ {m} : act'[n] = act[n]
      /\ UNCHANGED <<job, live, mapped>>
  BY ActAt, StillRow DEF CommitApprove, Stop
<1>3. /\ post'[p].status \in {"approved", post[p].status}
      /\ post'[p].caption = post[p].caption
      /\ \A q \in Posts \ {p} : post'[q] = post[q]
  <2> DEFINE s == Changed(act[m].read.status, "approved", post[p].status)
  <2>1. s \in Stages /\ s \in {"approved", post[p].status}
    BY <1>1 DEF Changed, StudioTypeOK, PostRows, Stages
  <2>2. post' = [post EXCEPT ![p].status = s]
    BY DEF CommitApprove
  <2> HIDE DEF s
  <2> QED
    BY <1>1, <2>1, <2>2, PostStaged DEF StudioTypeOK
<1>4. /\ raced'[p] = Overtaken(m, p)
      /\ \A q \in Posts \ {p} : raced'[q] = raced[q]
  <2>1. raced' = [raced EXCEPT ![p] = Overtaken(m, p)]
    BY DEF CommitApprove
  <2> QED
    BY <1>1, <2>1, Zenon DEF StudioTypeOK
<1>5. /\ reviewed'[p] = act[m].caption /\ \A q \in Posts \ {p} : reviewed'[q] = reviewed[q]
      /\ excused'[p] # {} /\ \A q \in Posts \ {p} : excused'[q] = excused[q]
  BY <1>1 DEF CommitApprove, StudioTypeOK
<1>6. PublishedInv'
  BY <1>1, <1>2, <1>3 DEF StudioInv, PublishedInv, Backed
<1>7. RepeatedInv'
  BY <1>1, <1>2, <1>3, <1>5 DEF StudioInv, RepeatedInv, Attempted
<1>8. ReviewedInv'
  <2>1. raced'[p] = FALSE => post'[p].caption = reviewed'[p]
    <3>1. act[m].caption = act[m].read.caption
      BY <1>1 DEF StudioInv, ReviewedInv
    <3>2. raced'[p] = FALSE => act[m].read = post[p]
      BY <1>4 DEF Overtaken
    <3> QED
      BY <1>3, <1>5, <3>1, <3>2
  <2> HIDE DEF p
  <2>2. \A q \in Posts : post'[q].status \in {"approved", "failed"} => Trusted(q)'
    BY <1>3, <1>4, <1>5, <2>1 DEF StudioInv, ReviewedInv, Trusted
  <2>3. \A n \in Managers :
           act'[n].op \in {"call", "handed", "accepted", "refused"} => Trusted(act[n].post)'
    BY <1>2, <1>3, <1>4, <1>5, <2>1 DEF StudioInv, ReviewedInv, Acting, Trusted
  <2> QED
    BY <1>2, <2>2, <2>3 DEF StudioInv, ReviewedInv, Trusted
<1> QED
  BY <1>6, <1>7, <1>8 DEF StudioInv

LEMMA BeginPostKeeps ==
    ASSUME StudioTypeOK, Acting, StudioInv, NEW m \in Managers, NEW p \in Posts, BeginPost(m, p)
    PROVE  StudioInv'
<1> DEFINE new == [Still EXCEPT !.op = IF job[p] = NoJob THEN "reserve" ELSE "mark",
                                !.post = p, !.read = post[p], !.job = job[p]]
<1>1. new.op \in {"reserve", "mark"} /\ new.post = p /\ new.read = post[p] /\ new.job = job[p]
  BY DEF Still
<1>2. act' = [act EXCEPT ![m] = new]
  BY DEF BeginPost
<1> HIDE DEF new
<1>3. /\ act'[m] = new /\ \A n \in Managers \ {m} : act'[n] = act[n]
      /\ UNCHANGED <<post, job, live, mapped, reviewed, raced, excused>>
      /\ post[p].status \in {"approved", "failed"}
  BY <1>2, ActAt DEF BeginPost
<1>4. PublishedInv'
  BY <1>1, <1>3 DEF StudioInv, PublishedInv, Backed
<1>5. RepeatedInv'
  BY <1>1, <1>3 DEF StudioInv, RepeatedInv, Attempted
<1>6. ReviewedInv'
  BY <1>1, <1>3 DEF StudioInv, ReviewedInv, Trusted
<1> QED
  BY <1>4, <1>5, <1>6 DEF StudioInv

LEMMA ReserveKeeps ==
    ASSUME StudioTypeOK, Acting, StudioInv, NEW m \in Managers, Reserve(m)
    PROVE  StudioInv'
<1> DEFINE p == act[m].post
           new == [act[m] EXCEPT !.op = "mark", !.job = job'[p]]
<1>1. p \in Posts /\ act[m].op = "reserve"
  BY DEF Reserve, Acting
<1>2. new.op = "mark" /\ new.post = p /\ new.read = act[m].read /\ new.job = job'[p]
  BY DEF StudioTypeOK, ActRows
<1>3. act' = [act EXCEPT ![m] = new]
  <2>1. act' = [act EXCEPT ![m].op = "mark", ![m].job = job'[p]]
    BY DEF Reserve
  <2> QED
    BY <2>1 DEF StudioTypeOK
<1> HIDE DEF new
<1>4. /\ act'[m] = new /\ \A n \in Managers \ {m} : act'[n] = act[n]
      /\ UNCHANGED <<post, live, mapped, reviewed, raced, excused>>
  BY <1>3, ActAt DEF Reserve
<1>5. \A q \in Posts : job'[q].media = job[q].media
  <2>1. job' = job \/ job' = [job EXCEPT ![p].status = "queued"]
    BY DEF Reserve
  <2>2. "queued" \in JobStages
    BY DEF JobStages
  <2> QED
    BY <1>1, <2>1, <2>2, JobStaged DEF StudioTypeOK
<1>6. PublishedInv'
  BY <1>1, <1>2, <1>4, <1>5 DEF StudioInv, PublishedInv, Backed, Acting
<1>7. RepeatedInv'
  BY <1>1, <1>2, <1>4 DEF StudioInv, RepeatedInv, Attempted
<1>8. ReviewedInv'
  BY <1>1, <1>2, <1>4 DEF StudioInv, ReviewedInv, Trusted
<1> QED
  BY <1>6, <1>7, <1>8 DEF StudioInv

\* A request that finds its job published, or its post live, only says so.
LEMMA MarkDoneKeeps ==
    ASSUME StudioTypeOK, Acting, StudioInv, NEW m \in Managers, Mark(m), Stop(m)
    PROVE  StudioInv'
<1> DEFINE p == act[m].post
<1>1. p \in Posts /\ act[m].op = "mark" /\ UNCHANGED <<live, mapped, reviewed>>
  BY DEF Mark, Acting
<1>2. act'[m].op = "none" /\ \A n \in Managers \ {m} : act'[n] = act[n]
  BY ActAt, StillRow DEF Stop
<1>3. CASE UNCHANGED <<post, job, raced, excused>>
  BY <1>1, <1>2, <1>3, QuietKeeps DEF Quiet
<1>4. CASE /\ act[m].job.media # 0 /\ UNCHANGED <<raced, excused>>
           /\ job' = [job EXCEPT ![p].status = "published"]
           /\ post' = [post EXCEPT ![p].status = "published"]
  <2>1. /\ post'[p].status = "published" /\ post'[p].caption = post[p].caption
        /\ \A q \in Posts \ {p} : post'[q] = post[q]
    BY <1>1, <1>4, PostStaged DEF StudioTypeOK, Stages
  <2>2. \A q \in Posts : job'[q].media = job[q].media
    BY <1>1, <1>4, JobStaged DEF StudioTypeOK, JobStages
  <2>3. PublishedInv'
    BY <1>1, <1>2, <1>4, <2>1, <2>2 DEF StudioInv, PublishedInv, Backed
  <2>4. RepeatedInv'
    BY <1>1, <1>2, <1>4, <2>1 DEF StudioInv, RepeatedInv, Attempted
  <2>5. ReviewedInv'
    BY <1>1, <1>2, <1>4, <2>1 DEF StudioInv, ReviewedInv, Trusted, Acting
  <2> QED
    BY <2>3, <2>4, <2>5 DEF StudioInv
<1>5. ~(act' = [act EXCEPT ![m] = [Still EXCEPT !.op = "call", !.post = p]])
  <2> DEFINE new == [Still EXCEPT !.op = "call", !.post = p]
  <2>1. new.op = "call"
    BY DEF Still
  <2> HIDE DEF new
  <2> SUFFICES ASSUME act' = [act EXCEPT ![m] = new] PROVE FALSE
    BY DEF new
  <2> QED
    BY <1>2, <2>1, ActAt
<1> QED
  BY <1>3, <1>4, <1>5, MarkKinds

LEMMA MarkKeeps ==
    ASSUME StudioTypeOK, Acting, StudioInv, NEW m \in Managers, Mark(m)
    PROVE  StudioInv'
<1> DEFINE p == act[m].post
           new == [Still EXCEPT !.op = "call", !.post = p]
           reasons == (excused[p] \ {"approved", "error"})
                         \cup {x \in {"together"} : Contended(m, p)}
<1>1. p \in Posts /\ act[m].op = "mark" /\ UNCHANGED <<live, mapped, reviewed>>
  BY DEF Mark, Acting
<1>2. SUFFICES ASSUME /\ post' = [post EXCEPT ![p].status = "publishing"]
                      /\ job' = [job EXCEPT ![p].status =
                                    Changed(act[m].job.status, "publishing", @)]
                      /\ raced' = [raced EXCEPT ![p] = @ \/ Overtaken(m, p)]
                      /\ excused' = [excused EXCEPT ![p] = reasons]
                      /\ act' = [act EXCEPT ![m] = new]
               PROVE  StudioInv'
  BY MarkKinds, MarkDoneKeeps
<1>3. new.op = "call" /\ new.post = p
  BY DEF Still
<1> HIDE DEF new
<1>4. act'[m] = new /\ \A n \in Managers \ {m} : act'[n] = act[n]
  BY <1>2, ActAt
<1>5. /\ post'[p].status = "publishing" /\ post'[p].caption = post[p].caption
      /\ \A q \in Posts \ {p} : post'[q] = post[q]
  BY <1>1, <1>2, PostStaged DEF StudioTypeOK, Stages
<1>6. \A q \in Posts : job'[q].media = job[q].media
  <2> DEFINE s == Changed(act[m].job.status, "publishing", job[p].status)
  <2>1. s \in JobStages
    BY <1>1 DEF Changed, StudioTypeOK, JobRows, JobStages
  <2>2. job' = [job EXCEPT ![p].status = s]
    BY <1>2
  <2> HIDE DEF s
  <2> QED
    BY <1>1, <2>1, <2>2, JobStaged DEF StudioTypeOK
<1>7. /\ raced'[p] = FALSE => raced[p] = FALSE /\ ~Overtaken(m, p)
      /\ \A q \in Posts \ {p} : raced'[q] = raced[q]
  <2>1. /\ raced'[p] = (raced[p] \/ Overtaken(m, p))
        /\ raced[p] \in BOOLEAN
        /\ \A q \in Posts \ {p} : raced'[q] = raced[q]
    BY <1>1, <1>2, Zenon DEF StudioTypeOK
  <2> QED
    BY <2>1, Zenon
<1>8. /\ excused'[p] = {} => ~Contended(m, p)
      /\ \A q \in Posts \ {p} : excused'[q] = excused[q]
  <2>1. excused'[p] = reasons /\ \A q \in Posts \ {p} : excused'[q] = excused[q]
    BY <1>1, <1>2 DEF StudioTypeOK
  <2>2. Contended(m, p) => "together" \in reasons
    OBVIOUS
  <2> QED
    BY <2>1, <2>2
<1>9. PublishedInv'
  BY <1>1, <1>3, <1>4, <1>5, <1>6 DEF StudioInv, PublishedInv, Backed, Acting
<1>10. RepeatedInv'
  <2>1. excused'[p] = {} => \A n \in Managers \ {m} :
                               act[n].op \in {"reserve", "mark"} => act[n].post # p
    BY <1>8 DEF Contended
  <2> HIDE DEF p
  <2> QED
    BY <1>1, <1>3, <1>4, <1>5, <1>8, <2>1 DEF StudioInv, RepeatedInv, Attempted
<1>11. ReviewedInv'
  <2>1. raced'[p] = FALSE => post'[p].caption = reviewed'[p]
    <3>1. act[m].read.status \in {"approved", "failed"}
      BY <1>1 DEF StudioInv, ReviewedInv
    <3> QED
      BY <1>1, <1>5, <1>7, <3>1 DEF StudioInv, ReviewedInv, Trusted, Overtaken
  <2> HIDE DEF p
  <2>2. \A q \in Posts : post'[q].status \in {"approved", "failed"} => Trusted(q)'
    BY <1>1, <1>5, <1>7 DEF StudioInv, ReviewedInv, Trusted
  <2>3. \A n \in Managers :
           act'[n].op \in {"call", "handed", "accepted", "refused"} => Trusted(act[n].post)'
    <3> SUFFICES ASSUME NEW n \in Managers, act'[n].op \in {"call", "handed", "accepted", "refused"}
                 PROVE  raced'[act'[n].post] = FALSE =>
                           post'[act'[n].post].caption = reviewed'[act'[n].post]
      BY DEF Trusted
    <3>1. CASE act'[n].post = p
      BY <2>1, <3>1
    <3>2. CASE act'[n].post # p
      <4>1. act'[n] = act[n]
        BY <1>3, <1>4, <3>2
      <4>2. act[n].post \in Posts \ {p} /\ Trusted(act[n].post)
        BY <3>2, <4>1 DEF StudioInv, ReviewedInv, Acting
      <4> QED
        BY <1>1, <1>5, <1>7, <4>1, <4>2 DEF Trusted
    <3> QED
      BY <3>1, <3>2
  <2> QED
    BY <1>3, <1>4, <2>2, <2>3 DEF StudioInv, ReviewedInv, Trusted
<1> QED
  BY <1>9, <1>10, <1>11 DEF StudioInv

LEMMA AcceptKeeps ==
    ASSUME StudioTypeOK, Acting, StudioInv, NEW m \in Managers, Accept(m)
    PROVE  StudioInv'
<1> DEFINE p == act[m].post
           entry == [post |-> p, caption |-> act[m].read.caption]
           new == [act[m] EXCEPT !.op = "accepted", !.media = Len(live')]
<1>1. p \in Posts /\ act[m].op = "handed"
  BY DEF Accept, Acting
<1>2. new.op = "accepted" /\ new.post = p /\ new.media = Len(live')
  BY DEF StudioTypeOK, ActRows
<1>3. act' = [act EXCEPT ![m] = new]
  <2>1. act' = [act EXCEPT ![m].op = "accepted", ![m].media = Len(live')]
    BY DEF Accept
  <2> QED
    BY <2>1 DEF StudioTypeOK
<1> HIDE DEF new
<1>4. /\ act'[m] = new /\ \A n \in Managers \ {m} : act'[n] = act[n]
      /\ UNCHANGED <<post, job, mapped, reviewed, raced, excused>>
  BY <1>3, ActAt DEF Accept
<1>5. entry \in [post : Posts, caption : Captions] /\ entry.post = p
  BY <1>1 DEF StudioTypeOK, ActRows, PostRows
<1>6. live' = Append(live, entry)
  BY DEF Accept
<1> HIDE DEF entry
<1>7. /\ Len(live) \in Nat /\ Len(live') = Len(live) + 1 /\ live'[Len(live')].post = p
      /\ \A i \in 1 .. Len(live) : live'[i] = live[i]
  BY <1>5, <1>6 DEF StudioTypeOK
<1>8. PublishedInv'
  <2>1. \A q \in Posts : \A media : Backed(q, media) =>
           media \in 1 .. Len(live') /\ live'[media].post = q
    BY <1>7 DEF Backed
  <2>2. Len(live') \in 1 .. Len(live')
    BY <1>7
  <2> QED
    BY <1>1, <1>2, <1>4, <1>7, <2>1, <2>2 DEF StudioInv, PublishedInv, Acting, Backed
<1>9. RepeatedInv'
  <2>1. \A q \in Posts : Attempted(q)' => Attempted(q)
    <3> SUFFICES ASSUME NEW q \in Posts, Attempted(q)' PROVE Attempted(q)
      OBVIOUS
    <3>1. CASE \E i \in 1 .. Len(live') : live'[i].post = q
      <4>1. PICK i \in 1 .. Len(live') : live'[i].post = q
        BY <3>1
      <4> QED
        BY <1>1, <1>7, <4>1 DEF Attempted
    <3>2. CASE \E n \in Managers : act'[n].op \in {"call", "handed"} /\ act'[n].post = q
      BY <1>2, <1>4, <3>2 DEF Attempted
    <3> QED
      BY <3>1, <3>2 DEF Attempted
  <2> QED
    BY <1>2, <1>4, <2>1 DEF StudioInv, RepeatedInv
<1>10. ReviewedInv'
  BY <1>1, <1>2, <1>4 DEF StudioInv, ReviewedInv, Trusted
<1> QED
  BY <1>8, <1>9, <1>10 DEF StudioInv

LEMMA SucceedKeeps ==
    ASSUME StudioTypeOK, Acting, StudioInv, NEW m \in Managers, Succeed(m)
    PROVE  StudioInv'
<1> DEFINE p == act[m].post
<1>1. /\ p \in Posts /\ act[m].op = "accepted"
      /\ UNCHANGED <<live, reviewed, raced, excused>>
  BY DEF Succeed, Acting
<1>2. act'[m].op = "none" /\ \A n \in Managers \ {m} : act'[n] = act[n]
  BY ActAt, StillRow DEF Succeed, Stop
<1>3. /\ post'[p].status \in {"published", post[p].status}
      /\ post'[p].caption = post[p].caption
      /\ \A q \in Posts \ {p} : post'[q] = post[q]
  BY <1>1, PostAnswered DEF Succeed, Stages
<1>4. /\ job'[p].media = act[m].media /\ \A q \in Posts \ {p} : job'[q] = job[q]
      /\ mapped' = mapped \cup {act[m].media}
  BY <1>1 DEF Succeed, StudioTypeOK
<1>5. Backed(p, act[m].media) /\ act[m].media # 0
  BY <1>1 DEF StudioInv, PublishedInv, Backed
<1>6. PublishedInv'
  BY <1>1, <1>2, <1>3, <1>4, <1>5 DEF StudioInv, PublishedInv, Backed, Acting
<1>7. RepeatedInv'
  BY <1>1, <1>2, <1>3 DEF StudioInv, RepeatedInv, Attempted
<1>8. ReviewedInv'
  BY <1>1, <1>2, <1>3 DEF StudioInv, ReviewedInv, Trusted, Acting
<1> QED
  BY <1>6, <1>7, <1>8 DEF StudioInv

LEMMA FailKeeps ==
    ASSUME StudioTypeOK, Acting, StudioInv, NEW m \in Managers, TimeOut(m) \/ Err(m)
    PROVE  StudioInv'
<1> DEFINE p == act[m].post
<1>1. PICK s \in {"unknown", "failed"} :
         /\ Fail(m, s)
         /\ \/ s = "unknown" /\ excused' = excused
            \/ excused' = [excused EXCEPT ![p] = @ \cup {"error"}]
  BY DEF TimeOut, Err, AfterTimeout
<1>2. /\ p \in Posts /\ act[m].op \in {"accepted", "refused"}
      /\ UNCHANGED <<live, mapped, reviewed, raced>>
  BY <1>1 DEF Fail, TimeOut, Err, Acting
<1>3. act'[m].op = "none" /\ \A n \in Managers \ {m} : act'[n] = act[n]
  BY <1>1, ActAt, StillRow DEF Fail, Stop
<1>4. /\ post'[p].status \in {s, post[p].status} /\ post'[p].caption = post[p].caption
      /\ \A q \in Posts \ {p} : post'[q] = post[q]
  BY <1>1, <1>2, PostAnswered DEF Fail, Stages
<1>5. \A q \in Posts : job'[q].media = job[q].media
  BY <1>1, <1>2, JobStaged DEF Fail, StudioTypeOK, JobStages
<1>6. /\ s = "unknown" \/ excused'[p] # {}
      /\ excused'[p] = {} => excused[p] = {}
      /\ \A q \in Posts \ {p} : excused'[q] = excused[q]
  <2> DEFINE x == excused[p] \cup {"error"}
  <2>1. x # {}
    OBVIOUS
  <2>2. \/ s = "unknown" /\ excused' = excused
        \/ excused' = [excused EXCEPT ![p] = x]
    BY <1>1
  <2> HIDE DEF x
  <2> QED
    BY <1>2, <2>1, <2>2 DEF StudioTypeOK
<1>7. PublishedInv'
  BY <1>2, <1>3, <1>4, <1>5 DEF StudioInv, PublishedInv, Backed, Acting
<1>8. RepeatedInv'
  BY <1>2, <1>3, <1>4, <1>6 DEF StudioInv, RepeatedInv, Attempted
<1>9. ReviewedInv'
  <2>1. Trusted(p)
    BY <1>2 DEF StudioInv, ReviewedInv
  <2> HIDE DEF p
  <2> QED
    BY <1>2, <1>3, <1>4, <2>1 DEF StudioInv, ReviewedInv, Trusted, Acting
<1> QED
  BY <1>7, <1>8, <1>9 DEF StudioInv

LEMMA StepKeeps ==
    ASSUME TypeOK, StudioInv, [Next]_vars
    PROVE  StudioInv'
<1>1. StudioTypeOK /\ Acting
  BY TypeOKParts
<1>2. ASSUME UNCHANGED studioVars PROVE StudioInv'
  BY <1>2 DEF studioVars, StudioInv, PublishedInv, RepeatedInv, ReviewedInv, Backed,
              Attempted, Trusted
<1>3. CASE Write
  BY <1>1, <1>3, QuietSteps, GenerateKeeps, EditKeeps, ApproveKeeps DEF Write
<1>4. CASE Publish
  BY <1>1, <1>4, QuietSteps, BeginPostKeeps, ReserveKeeps, MarkKeeps, AcceptKeeps,
     SucceedKeeps, FailKeeps DEF Publish
<1>5. CASE Depict \/ \E m \in Managers : Crash(m)
  BY <1>1, <1>5, QuietSteps
<1> QED
  BY <1>2, <1>3, <1>4, <1>5 DEF Next, vars

LEMMA InitKeeps == Init => StudioInv
BY StillRow
   DEF Init, StudioInv, PublishedInv, RepeatedInv, ReviewedInv, Attempted, Trusted, NoPost, NoJob

\* What Hand reads is the row as it is, and no other step hands anything over.
LEMMA HandsAsReviewed ==
    ASSUME TypeOK, StudioInv, [Next]_vars, NEW m \in Managers,
           act[m].op = "call", act'[m].op = "handed"
    PROVE  \/ act'[m].read.caption = reviewed[act[m].post]
           \/ raced[act[m].post]
<1> DEFINE p == act[m].post
<1>1. p \in Posts /\ StudioTypeOK
  BY TypeOKParts DEF Acting
<1>2. Hand(m)
  <2>1. ASSUME NEW n \in Managers, NEW new, act' = [act EXCEPT ![n] = new], new.op # "handed"
        PROVE  FALSE
    BY <1>1, <2>1, ActAt
  <2>2. \A n \in Managers : ~Stop(n)
    BY <2>1, StillRow DEF Stop
  <2>3. ~UNCHANGED act
    OBVIOUS
  <2>4. ~UNCHANGED vars /\ ~UNCHANGED studioVars /\ \A n \in Managers : ~Crash(n)
    BY <2>2, <2>3 DEF vars, studioVars, Crash
  <2>5. ~Depict
    <3>1. ASSUME NEW n \in Managers, NEW a \in Assets, BeginDelete(n, a) PROVE FALSE
      <4> DEFINE new == [Still EXCEPT !.op = "delete", !.asset = a]
      <4>1. new.op = "delete" /\ act' = [act EXCEPT ![n] = new]
        BY <3>1 DEF Still, BeginDelete
      <4> HIDE DEF new
      <4> QED
        BY <2>1, <4>1
    <3> QED
      BY <2>2, <2>3, <3>1 DEF Depict, Upload, CommitDelete
  <2>6. ~Write
    <3>1. ASSUME NEW n \in Managers, NEW op \in {"edit", "approve"}, NEW q, NEW c,
                 Read(n, op, q, c)
          PROVE  FALSE
      <4> DEFINE new == [Still EXCEPT !.op = op, !.post = q, !.caption = c, !.read = post[q]]
      <4>1. new.op = op /\ act' = [act EXCEPT ![n] = new]
        BY <3>1 DEF Still, Read
      <4> HIDE DEF new
      <4> QED
        BY <2>1, <4>1
    <3> QED
      BY <2>2, <2>3, <3>1
         DEF Write, Generate, BeginEdit, BeginApprove, CommitEdit, CommitApprove
  <2>7. \A n \in Managers :
           /\ \A q \in Posts : ~BeginPost(n, q)
           /\ ~Reserve(n) /\ ~Mark(n) /\ ~Accept(n) /\ ~Refuse(n)
           /\ ~Succeed(n) /\ ~TimeOut(n) /\ ~Err(n)
    <3> SUFFICES ASSUME NEW n \in Managers
                 PROVE  /\ \A q \in Posts : ~BeginPost(n, q)
                        /\ ~Reserve(n) /\ ~Mark(n) /\ ~Accept(n) /\ ~Refuse(n)
                        /\ ~Succeed(n) /\ ~TimeOut(n) /\ ~Err(n)
      OBVIOUS
    <3>1. ASSUME NEW q \in Posts, BeginPost(n, q) PROVE FALSE
      <4> DEFINE new == [Still EXCEPT !.op = IF job[q] = NoJob THEN "reserve" ELSE "mark",
                                      !.post = q, !.read = post[q], !.job = job[q]]
      <4>1. new.op \in {"reserve", "mark"} /\ act' = [act EXCEPT ![n] = new]
        BY <3>1 DEF Still, BeginPost
      <4> HIDE DEF new
      <4> QED
        BY <2>1, <4>1
    <3>2. ASSUME Reserve(n) PROVE FALSE
      <4> DEFINE new == [act[n] EXCEPT !.op = "mark", !.job = job'[act[n].post]]
      <4>1. new.op = "mark"
        BY <1>1 DEF StudioTypeOK, ActRows
      <4>2. act' = [act EXCEPT ![n] = new]
        <5>1. act' = [act EXCEPT ![n].op = "mark", ![n].job = job'[act[n].post]]
          BY <3>2 DEF Reserve
        <5> QED
          BY <1>1, <5>1 DEF StudioTypeOK
      <4> HIDE DEF new
      <4> QED
        BY <2>1, <4>1, <4>2
    <3>3. ASSUME Mark(n) PROVE FALSE
      <4> DEFINE new == [Still EXCEPT !.op = "call", !.post = act[n].post]
      <4>1. new.op = "call"
        BY DEF Still
      <4>2. Stop(n) \/ act' = [act EXCEPT ![n] = new]
        BY <3>3, MarkKinds
      <4> HIDE DEF new
      <4> QED
        BY <2>1, <2>2, <4>1, <4>2
    <3>4. ASSUME Accept(n) PROVE FALSE
      <4> DEFINE new == [act[n] EXCEPT !.op = "accepted", !.media = Len(live')]
      <4>1. new.op = "accepted"
        BY <1>1 DEF StudioTypeOK, ActRows
      <4>2. act' = [act EXCEPT ![n] = new]
        <5>1. act' = [act EXCEPT ![n].op = "accepted", ![n].media = Len(live')]
          BY <3>4 DEF Accept
        <5> QED
          BY <1>1, <5>1 DEF StudioTypeOK
      <4> HIDE DEF new
      <4> QED
        BY <2>1, <4>1, <4>2
    <3>5. ASSUME Refuse(n) PROVE FALSE
      <4> DEFINE new == [act[n] EXCEPT !.op = "refused"]
      <4>1. new.op = "refused"
        BY <1>1 DEF StudioTypeOK, ActRows
      <4>2. act' = [act EXCEPT ![n] = new]
        BY <3>5 DEF Refuse, Go
      <4> HIDE DEF new
      <4> QED
        BY <2>1, <4>1, <4>2
    <3>6. ~Succeed(n) /\ ~TimeOut(n) /\ ~Err(n)
      BY <2>2 DEF Succeed, TimeOut, Err, Fail
    <3> QED
      BY <3>1, <3>2, <3>3, <3>4, <3>5, <3>6
  <2>8. ASSUME NEW n \in Managers, Hand(n) PROVE n = m
    BY <1>1, <2>8 DEF Hand, StudioTypeOK
  <2> QED
    BY <2>4, <2>5, <2>6, <2>7, <2>8 DEF Next, Publish
<1>3. act'[m].read = post[p]
  BY <1>1, <1>2 DEF Hand, StudioTypeOK, ActRows
<1>4. raced[p] = FALSE => post[p].caption = reviewed[p]
  BY DEF StudioInv, ReviewedInv, Trusted
<1>5. raced[p] \in BOOLEAN
  BY <1>1 DEF StudioTypeOK
<1>6. CASE raced[p] = FALSE
  BY <1>3, <1>4, <1>6
<1>7. CASE raced[p] = TRUE
  BY <1>7, Zenon
<1> QED
  BY <1>5, <1>6, <1>7

\* A draft that counts as published is live under the media id of its job, and the
\* product of that media id is known.
THEOREM PublishedIsMappedHolds == Spec => []PublishedIsMapped
<1>1. Init => TypeOK /\ CatalogAgrees /\ StudioInv
  BY InitTyped, InitKeeps
<1>2. TypeOK /\ CatalogAgrees /\ StudioInv /\ [Next]_vars
         => (TypeOK /\ CatalogAgrees /\ StudioInv)'
  BY StepTyped, StepKeeps
<1>3. StudioInv => PublishedIsMapped
  BY DEF StudioInv, PublishedInv, PublishedIsMapped, Backed
<1> QED
  BY <1>1, <1>2, <1>3, PTL DEF Spec

\* A post that is live is attempted again only after an approval or an error that came
\* since, or if two requests have posted it together.
THEOREM RepeatedForAReasonHolds == Spec => RepeatedForAReason
<1>1. Init => TypeOK /\ CatalogAgrees /\ StudioInv
  BY InitTyped, InitKeeps
<1>2. TypeOK /\ CatalogAgrees /\ StudioInv /\ [Next]_vars
         => (TypeOK /\ CatalogAgrees /\ StudioInv)'
  BY StepTyped, StepKeeps
<1> DEFINE Reason ==
             \A m \in Managers :
                /\ act[m].op = "mark" /\ act'[m].op = "call"
                /\ \E i \in 1 .. Len(live) : live[i].post = act[m].post
                => excused[act[m].post] # {}
<1>3. TypeOK /\ StudioInv => [Reason]_vars
  BY DEF TypeOK, StudioInv, RepeatedInv, Attempted
<1> HIDE DEF Reason
<1>4. RepeatedForAReason <=> [][Reason]_vars
  BY DEF RepeatedForAReason, Reason
<1> QED
  BY <1>1, <1>2, <1>3, <1>4, PTL DEF Spec

\* What is handed to Meta reads as it was reviewed, unless its row was written by a request
\* that had not seen it as it is, or that did not see another about to post it; and what
\* goes live is what was handed.
THEOREM PostedAsReviewedHolds == Spec => PostedAsReviewed
<1>1. Init => TypeOK /\ CatalogAgrees /\ StudioInv
  BY InitTyped, InitKeeps
<1>2. TypeOK /\ CatalogAgrees /\ StudioInv /\ [Next]_vars
         => (TypeOK /\ CatalogAgrees /\ StudioInv)'
  BY StepTyped, StepKeeps
<1>3. TypeOK /\ StudioInv /\ [Next]_vars => HandedAsReviewed
  BY HandsAsReviewed DEF HandedAsReviewed
<1>4. TypeOK /\ StudioInv /\ [Next]_vars => [LiveAsHanded]_vars
  <2> SUFFICES ASSUME TypeOK, [Next]_vars, NEW p \in Posts, GoesLive(p)
               PROVE  \E m \in Managers :
                         /\ act[m].op = "handed" /\ act[m].post = p
                         /\ act[m].read.caption = live'[Len(live')].caption
    BY DEF LiveAsHanded
  <2>1. live' # live
    BY DEF GoesLive, TypeOK
  <2>2. PICK m \in Managers : Accept(m)
    <3>1. ~UNCHANGED vars /\ ~UNCHANGED studioVars
      BY <2>1 DEF vars, studioVars
    <3>2. ~Depict
      BY <2>1 DEF Depict, Upload, BeginDelete, CommitDelete
    <3>3. ~Write
      BY <2>1 DEF Write, Generate, BeginEdit, CommitEdit, BeginApprove, CommitApprove
    <3>4. \A m \in Managers : ~Crash(m)
      BY <2>1 DEF Crash
    <3>5. \A m \in Managers :
             /\ \A q \in Posts : ~BeginPost(m, q)
             /\ ~Reserve(m) /\ ~Mark(m) /\ ~Hand(m) /\ ~Refuse(m)
             /\ ~Succeed(m) /\ ~TimeOut(m) /\ ~Err(m)
      BY <2>1 DEF BeginPost, Reserve, Mark, Hand, Refuse, Succeed, TimeOut, Err
    <3> QED
      BY <3>1, <3>2, <3>3, <3>4, <3>5 DEF Next, Publish
  <2> DEFINE entry == [post |-> act[m].post, caption |-> act[m].read.caption]
  <2>3. live' = Append(live, entry) /\ live \in Seq([post : Posts, caption : Captions])
    BY <2>2 DEF Accept, TypeOK
  <2>4. entry.post = act[m].post /\ entry.caption = act[m].read.caption
    OBVIOUS
  <2> HIDE DEF entry
  <2>5. live'[Len(live')] = entry
    BY <2>3
  <2>6. act[m].op = "handed"
    BY <2>2 DEF Accept
  <2> QED
    BY <2>4, <2>5, <2>6 DEF GoesLive
<1> QED
  BY <1>1, <1>2, <1>3, <1>4, PTL DEF Spec, PostedAsReviewed

================================================================================
