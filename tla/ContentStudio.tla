----------------------------- MODULE ContentStudio -----------------------------
(***************************************************************************)
(* The content studio: pictures of a product, drafts of posts about it,    *)
(* and their publication on Instagram.                                     *)
(*                                                                         *)
(*   admin_content.py           the manager's requests                     *)
(*   content_generation.py      generating, editing and approving a draft  *)
(*   media_storage.py           pictures                                   *)
(*   instagram_publishing.py    the publication, by an irreversible call   *)
(*                                                                         *)
(* The catalog is that of CatalogTraining: a draft is generated from a row *)
(* of products, and may be approved and posted while that row is as it was *)
(* and listed in the active version.                                       *)
(***************************************************************************)
EXTENDS CatalogTraining, FiniteSets

CONSTANTS
    Posts,          \* drafts of posts
    Assets,         \* pictures that may be uploaded
    Managers,       \* requests of this module that may be under way together
    Captions,
    Generated,      \* the caption that a draft is generated with
    MaxImages       \* pictures that one product may have

ASSUME ContentStudioAssumption ==
    /\ Generated \in Captions
    /\ MaxImages \in Nat

VARIABLES
    enabled,        \* modules of the store that are enabled, and stay so (cf. Entitlements)
    asset,          \* asset[a]: status of the picture
    post,           \* post[p]: the draft's row
    job,            \* job[p]: the row of its publication
    live,           \* posts on Instagram, by their media ids
    mapped,         \* media ids whose product is known
    act,            \* act[m]: what m does and has read
    reviewed,       \* reviewed[p]: the caption that was read for the last approval
    raced,          \* raced[p]: its row was written by a request that had not seen it as it is
    excused         \* excused[p]: why p may be posted again: since it was last attempted it
                    \* has been "approved" or an error has come, or attempts were "together"

studioVars == <<enabled, asset, post, job, live, mapped, act, reviewed, raced, excused>>
vars == <<trainingVars, studioVars, asked>>

Modules == {"content_strategy", "content_review", "instagram_publish"}

\* source: the content that the draft was generated from, its source_hash.
NoPost == [status |-> "none", revision |-> 0, caption |-> Generated, row |-> 0,
           source |-> Conflicting, asset |-> "none"]

NoJob == [status |-> "none", media |-> 0]

Still == [op |-> "none", post |-> "none", caption |-> Generated, asset |-> "none",
          read |-> NoPost, job |-> NoJob, media |-> 0]

\* m has read the row of p.
Read(m, op, p, caption) ==
    act' = [act EXCEPT ![m] = [Still EXCEPT !.op = op, !.post = p, !.caption = caption,
                                            !.read = post[p]]]

Go(m, op) == act' = [act EXCEPT ![m].op = op]

Stop(m) == act' = [act EXCEPT ![m] = Still]

\* content_source_hash() is still that of the draft.
Unchanged(p) == product[post[p].row] = post[p].source

\* active_catalog_product()
Listed(row) == active # 0 /\ version[active].row = row

--------------------------------------------------------------------------------
(* Pictures                                                                *)

\* save_product_image()
Upload(a) ==
    /\ "content_strategy" \in enabled
    /\ asset[a] = "none"
    /\ Cardinality({b \in Assets : asset[b] = "ready"}) < MaxImages
    /\ asset' = [asset EXCEPT ![a] = "ready"]
    /\ UNCHANGED <<asked, enabled, post, job, live, mapped, act, reviewed, raced, excused>>

\* delete_product_image()
BeginDelete(m, a) ==
    /\ act[m].op = "none" /\ "content_strategy" \in enabled /\ Ask
    /\ asset[a] = "ready"
    /\ \A p \in Posts : post[p].asset = a =>
          post[p].status \notin {"approved", "publishing", "published"}
    /\ act' = [act EXCEPT ![m] = [Still EXCEPT !.op = "delete", !.asset = a]]
    /\ UNCHANGED <<enabled, asset, post, job, live, mapped, reviewed, raced, excused>>

CommitDelete(m) ==
    /\ act[m].op = "delete"
    /\ asset' = [asset EXCEPT ![act[m].asset] = "deleted"]
    /\ Stop(m)
    /\ UNCHANGED <<enabled, post, job, live, mapped, asked, reviewed, raced, excused>>

--------------------------------------------------------------------------------
(* Drafts                                                                  *)

\* create_content_draft()
Generate(p, row, a) ==
    /\ "content_strategy" \in enabled
    /\ post[p] = NoPost
    /\ asset[a] = "ready"
    /\ post' = [post EXCEPT ![p] = [NoPost EXCEPT !.status = "draft", !.revision = 1,
                                                  !.row = row, !.source = product[row],
                                                  !.asset = a]]
    /\ UNCHANGED <<asked, enabled, asset, job, live, mapped, act, reviewed, raced, excused>>

\* update_content_draft(), of the revision that the manager has seen.
BeginEdit(m, p, caption) ==
    /\ act[m].op = "none" /\ "content_review" \in enabled /\ Ask
    /\ post[p].status \notin {"none", "publishing", "published"}
    /\ Read(m, "edit", p, caption)
    /\ UNCHANGED <<enabled, asset, post, job, live, mapped, reviewed, raced, excused>>

\* Mutated form of Edited: what was approved stays approved.
EditedInPlace(read) == read.status

Edited(read) == "draft"

\* A column is written if it changes.
Changed(old, new, now) == IF new = old THEN now ELSE new

\* The row of p is not as m has read it.
Overtaken(m, p) == act[m].read # post[p]

\* Someone else is about to post p, or waits for the outcome.
Contended(m, p) ==
    \E other \in Managers \ {m} :
        /\ act[other].post = p
        /\ act[other].op \in {"reserve", "mark", "call", "handed", "accepted", "refused"}

CommitEdit(m) ==
    /\ act[m].op = "edit"
    /\ LET p == act[m].post
           read == act[m].read
       IN
       /\ post' = [post EXCEPT
                      ![p].caption = Changed(read.caption, act[m].caption, @),
                      ![p].revision = read.revision + 1,
                      ![p].status = Changed(read.status, Edited(read), @)]
       /\ raced' = [raced EXCEPT ![p] = @ \/ Overtaken(m, p) \/ Contended(m, p)]
    /\ Stop(m)
    /\ UNCHANGED <<enabled, asset, job, live, mapped, asked, reviewed, excused>>

\* approve_content_draft()
BeginApprove(m, p) ==
    /\ act[m].op = "none" /\ "content_review" \in enabled /\ Ask
    /\ post[p].status \notin {"none", "published"}
    /\ Unchanged(p)
    /\ Read(m, "approve", p, post[p].caption)
    /\ UNCHANGED <<enabled, asset, post, job, live, mapped, reviewed, raced, excused>>

CommitApprove(m) ==
    /\ act[m].op = "approve"
    /\ LET p == act[m].post IN
       /\ post' = [post EXCEPT ![p].status = Changed(act[m].read.status, "approved", @)]
       /\ reviewed' = [reviewed EXCEPT ![p] = act[m].caption]
       /\ raced' = [raced EXCEPT ![p] = Overtaken(m, p)]
       /\ excused' = [excused EXCEPT ![p] = @ \cup {"approved"}]
    /\ Stop(m)
    /\ UNCHANGED <<enabled, asset, job, live, mapped, asked>>

--------------------------------------------------------------------------------
(* Publication                                                             *)

\* publish_content_draft(), up to the job. A published draft is answered with its job.
BeginPost(m, p) ==
    /\ act[m].op = "none" /\ {"content_review", "instagram_publish"} \subseteq enabled /\ Ask
    /\ post[p].status \in {"approved", "failed"}
    /\ Unchanged(p)
    /\ Listed(post[p].row)
    /\ act' = [act EXCEPT ![m] =
                  [Still EXCEPT !.op = IF job[p] = NoJob THEN "reserve" ELSE "mark",
                                !.post = p, !.read = post[p], !.job = job[p]]]
    /\ UNCHANGED <<enabled, asset, post, job, live, mapped, reviewed, raced, excused>>

\* The job is inserted, or found to exist by now.
Reserve(m) ==
    /\ act[m].op = "reserve"
    /\ LET p == act[m].post IN
       /\ job' = IF job[p] = NoJob THEN [job EXCEPT ![p].status = "queued"] ELSE job
       /\ act' = [act EXCEPT ![m].op = "mark", ![m].job = job'[p]]
    /\ UNCHANGED <<enabled, asset, post, live, mapped, asked, reviewed, raced, excused>>

Mark(m) ==
    /\ act[m].op = "mark"
    /\ LET p == act[m].post
           seen == act[m].job
       IN
       CASE seen.status = "published" ->
               Stop(m) /\ UNCHANGED <<post, job, raced, excused>>
         [] seen.status # "published" /\ seen.media # 0 ->
               /\ job' = [job EXCEPT ![p].status = "published"]
               /\ post' = [post EXCEPT ![p].status = "published"]
               /\ Stop(m) /\ UNCHANGED <<raced, excused>>
         [] seen.status # "published" /\ seen.media = 0 ->
               /\ job' = [job EXCEPT ![p].status = Changed(seen.status, "publishing", @)]
               /\ post' = [post EXCEPT ![p].status = "publishing"]
               /\ raced' = [raced EXCEPT ![p] = @ \/ Overtaken(m, p)]
               /\ excused' = [excused EXCEPT ![p] =
                                 (@ \ {"approved", "error"})
                                    \cup {x \in {"together"} : Contended(m, p)}]
               /\ act' = [act EXCEPT ![m] = [Still EXCEPT !.op = "call", !.post = p]]
    /\ UNCHANGED <<enabled, asset, live, mapped, asked, reviewed>>

\* The row is read anew, the commit having expired it, and handed to publish_image() ...
Hand(m) ==
    /\ act[m].op = "call"
    /\ act' = [act EXCEPT ![m].op = "handed", ![m].read = post[act[m].post]]
    /\ UNCHANGED <<enabled, asset, post, job, live, mapped, asked, reviewed, raced, excused>>

\* ... Meta fetches the picture and posts it, with the caption that it was handed, ...
Accept(m) ==
    /\ act[m].op = "handed"
    /\ asset[act[m].read.asset] = "ready"
    /\ live' = Append(live, [post |-> act[m].post, caption |-> act[m].read.caption])
    /\ act' = [act EXCEPT ![m].op = "accepted", ![m].media = Len(live')]
    /\ UNCHANGED <<enabled, asset, post, job, mapped, asked, reviewed, raced, excused>>

\* ... or does not.
Refuse(m) ==
    /\ act[m].op = "handed"
    /\ Go(m, "refused")
    /\ UNCHANGED <<enabled, asset, post, job, live, mapped, asked, reviewed, raced, excused>>

\* The job, not read since it was marked, is written whatever it was; the draft is written
\* if its status changes from the one that was read when it was handed.
PostBecomes(m, status) ==
    post' = [post EXCEPT ![act[m].post].status = Changed(act[m].read.status, status, @)]

\* The answer comes: the post is recorded with its product.
Succeed(m) ==
    /\ act[m].op = "accepted"
    /\ job' = [job EXCEPT ![act[m].post] = [status |-> "published", media |-> act[m].media]]
    /\ PostBecomes(m, "published")
    /\ mapped' = mapped \cup {act[m].media}
    /\ Stop(m)
    /\ UNCHANGED <<enabled, asset, live, asked, reviewed, raced, excused>>

\* Mutated form of AfterTimeout: it counts as a failure.
AfterTimeoutFailed == "failed"

\* Mutated form of AfterTimeout: it counts as done.
AfterTimeoutDone == "published"

AfterTimeout == "unknown"

\* No answer in time, or an error in its place, whether or not the post is live.
Fail(m, status) ==
    /\ act[m].op \in {"accepted", "refused"}
    /\ status \in {AfterTimeout, "failed"}
    /\ job' = [job EXCEPT ![act[m].post].status = status]
    /\ PostBecomes(m, status)
    /\ Stop(m)

TimeOut(m) ==
    /\ Fail(m, AfterTimeout)
    /\ UNCHANGED <<enabled, asset, live, mapped, asked, reviewed, raced, excused>>

Err(m) ==
    /\ Fail(m, "failed")
    /\ excused' = [excused EXCEPT ![act[m].post] = @ \cup {"error"}]
    /\ UNCHANGED <<enabled, asset, live, mapped, asked, reviewed, raced>>

--------------------------------------------------------------------------------
\* The process of a request dies, or the request is given up.
Crash(m) ==
    /\ act[m].op # "none"
    /\ Stop(m)
    /\ UNCHANGED <<enabled, asset, post, job, live, mapped, asked, reviewed, raced, excused>>

Init ==
    /\ TrainingInit
    /\ enabled \in {Modules, Modules \ {"instagram_publish"}}
    /\ asset = [a \in Assets |-> "none"]
    /\ post = [p \in Posts |-> NoPost]
    /\ job = [p \in Posts |-> NoJob]
    /\ live = << >>
    /\ mapped = {}
    /\ act = [m \in Managers |-> Still]
    /\ reviewed = [p \in Posts |-> Generated]
    /\ raced = [p \in Posts |-> FALSE]
    /\ excused = [p \in Posts |-> {}]

Depict ==
    \/ \E a \in Assets : Upload(a) \/ \E m \in Managers : BeginDelete(m, a)
    \/ \E m \in Managers : CommitDelete(m)

Write ==
    \/ \E p \in Posts, row \in 1..Len(product), a \in Assets : Generate(p, row, a)
    \/ \E m \in Managers :
          \/ \E p \in Posts : BeginApprove(m, p) \/ \E c \in Captions : BeginEdit(m, p, c)
          \/ CommitEdit(m) \/ CommitApprove(m)

Publish ==
    \E m \in Managers :
       \/ \E p \in Posts : BeginPost(m, p)
       \/ Reserve(m) \/ Mark(m) \/ Hand(m) \/ Accept(m) \/ Refuse(m)
       \/ Succeed(m) \/ TimeOut(m) \/ Err(m)

Next ==
    \/ TrainingNext /\ UNCHANGED studioVars
    \/ /\ \/ Depict \/ Write \/ Publish
          \/ \E m \in Managers : Crash(m)
       /\ UNCHANGED trainingVars

Spec == Init /\ [][Next]_vars

--------------------------------------------------------------------------------
(* Properties                                                              *)

PostRows ==
    [status : {"none", "draft", "approved", "publishing", "published", "failed", "unknown"},
     revision : Nat, caption : Captions, row : Nat, source : Contents,
     asset : Assets \cup {"none"}]
JobRows ==
    [status : {"none", "queued", "publishing", "published", "failed", "unknown"}, media : Nat]
ActRows ==
    [op : {"none", "delete", "edit", "approve", "reserve", "mark", "call", "handed", "accepted",
           "refused"},
     post : Posts \cup {"none"}, caption : Captions, asset : Assets \cup {"none"},
     read : PostRows, job : JobRows, media : Nat]

\* Every variable holds what its declaration says.
TypeOK ==
    /\ TrainingTypeOK
    /\ enabled \subseteq Modules
    /\ asset \in [Assets -> {"none", "ready", "deleted"}]
    /\ post \in [Posts -> PostRows]
    /\ job \in [Posts -> JobRows]
    /\ live \in Seq([post : Posts, caption : Captions])
    /\ mapped \subseteq Nat
    /\ act \in [Managers -> ActRows]
    /\ \A m \in Managers :
          /\ act[m].op \notin {"none", "delete"} => act[m].post \in Posts
          /\ act[m].op = "delete" => act[m].asset \in Assets
    /\ reviewed \in [Posts -> Captions]
    /\ raced \in [Posts -> BOOLEAN]
    /\ excused \in [Posts -> SUBSET {"approved", "error", "together"}]

GoesLive(p) == Len(live') > Len(live) /\ live'[Len(live')].post = p

\* A timeout may come after Meta has accepted the post, and so may a crash: what is live
\* is attempted again only when a manager has approved it since the last attempt, when an
\* error other than a timeout has come since, or when two requests have posted it together.
RepeatedForAReason ==
    [][\A m \in Managers :
          /\ act[m].op = "mark" /\ act'[m].op = "call"
          /\ \E i \in 1..Len(live) : live[i].post = act[m].post
          => excused[act[m].post] # {}]_vars

\* What is handed to Meta is what a manager has read and approved, unless a request wrote to
\* the draft over changes that it had not seen, or as another was about to post it.
HandedAsReviewed ==
    \A m \in Managers :
       act[m].op = "call" /\ act'[m].op = "handed" =>
          act'[m].read.caption = reviewed[act[m].post] \/ raced[act[m].post]

\* What goes live is what was handed, whatever becomes of the draft during the call.
LiveAsHanded ==
    \A p \in Posts :
       GoesLive(p) =>
          \E m \in Managers : /\ act[m].op = "handed" /\ act[m].post = p
                              /\ act[m].read.caption = live'[Len(live')].caption

\* What goes live reads as it was reviewed when it was handed over, unless requests raced.
\* (What was edited during the call, and even approved, is then recorded as published, and
\* what is live reads differently.)
PostedAsReviewed == [][HandedAsReviewed /\ LiveAsHanded]_vars

\* A draft that counts as published is live, and comments on it are answered with its
\* product.
PublishedIsMapped ==
    \A p \in Posts : post[p].status = "published" =>
       job[p].media \in mapped /\ live[job[p].media].post = p

\* "Mark the job unknown and require reconciliation instead of risking a duplicate post."
\* (instagram_publishing.py): a job whose outcome is unknown is not attempted again.
UnknownIsReconciled ==
    [][\A p \in Posts : job[p].status = "unknown" => job'[p].status # "publishing"]_vars
================================================================================
