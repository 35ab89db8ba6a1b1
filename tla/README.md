# Verification of Sales-Agent (DirectPilot)

TLA+ models of the protocols in this repository whose correctness depends on
interleavings, crashes, retries and lost answers; the TLC runs that check them on
small instances; and TLAPS proofs of the properties that matter most. Paths below
are relative to `src/`, and usually to `src/app/`.

## The system

A FastAPI service with a PostgreSQL database (READ COMMITTED), run as several
uvicorn processes (`scripts/deployment/docker-entrypoint.sh`, `WEB_CONCURRENCY`,
2 by default). Every request has a SQLAlchemy session of its own, which neither
flushes before queries nor commits on its own (`database.py`). There is no queue
and no background worker: all work is done inside a request. Meta calls the webhook,
browsers call the rest, payment gateways redirect browsers to callbacks. Processes
interleave between transactions, and may die between any two steps.

| Part | State it keeps | Operations | What must hold |
|---|---|---|---|
| Outbound delivery and reconciliation (`application/services/instagram_outbound_*.py`, `application/outbound`) | delivery metadata in `conversation_messages.metadata_json` | `deliver`, `reconcile`, `retry` | no copy without a permit; records tell the truth; claims are released |
| Webhook ingestion (`instagram_channel/service.py`, `router.py`, `application/instagram/inbound_message.py`) | webhook deliveries, inbound events, processing records | `ingest_for_ai`, `_handle_duplicate`, `complete_flow_item`, `fail_ingestion` | acknowledged means handled; one flow per message; concluded stays concluded |
| Order payment (`commerce`) | orders, payments, receipts, subscriptions | create, verify (KPay, Payexa), submit, approve, reject | entitlement, payment, order and money agree |
| Subscriptions, entitlements, plans (`commerce/service.py`, `module_catalog.py`, `admin_modules.py`) | plans, subscriptions with terms, module rows of a store | order, activate, grant, revoke, reconcile, switch a module | what is paid for can be used; limits bound what is created |
| AI flow (`application/integrations/instagram_ai_flow.py`, `ai_response_orchestrator.py`, `ai_assistant`) | replies and AI usage | `process`, `generate_response` | at most one reply per message, within quota, never while a human has taken over |
| Conversations and inbox (`conversation_service.py`, `inbox_service.py`, `conversation_core`) | conversations (with an optimistic revision), messages | append, change status, take over, resume, manual reply | counters agree with messages; no lost status change |
| Automation rules (`automation_rules`) | rules, executions | match, execute, record; create and delete rules | one execution per inbound message and rule |
| Connection lifecycle and onboarding (`instagram_channel`, `instagram_onboarding`) | connections, OAuth states | begin, complete; create, update, rotate, activate, disconnect, archive | a token stays with its account; an OAuth state is used once; archived is final |
| Business knowledge, knowledge engine (`business_knowledge`, `application/knowledge`, `application/prompts`) | profile, policies, FAQs, entries with revisions | edit, publish, withdraw; search, build the prompt | only published rows reach a prompt; nobody overwrites what he has not seen |
| Catalog (`catalog`) | products, variants, SKUs, attributes, options, categories, media, prices | create, update, archive, move, attach, replace options | no cycle of categories; what is in use stays; variants differ |
| Catalog training, content studio (`catalog_training.py`, `content_generation.py`, `instagram_publishing.py`, `media_storage.py`) | drafts and versions of the catalog; pictures, posts, publish jobs | analyze, edit, publish; generate, approve, post | rows say what the active version says; posts are approved, and not repeated |
| Identity, tenants, authorization (`authentication`, `authz`, `tenant_management`) | users, sessions, tenants, stores, memberships, roles | log in, resolve, change password, disable, move a status | revoked sessions stay revoked; the lockout works; statuses move legally |
| LLM adapters, catalog runtime, single-tenant bots, persistence and operations | tables, files, none | adapters, text matching, pages | not modelled, see the end |

How they interact: the webhook request persists a delivery's events
(`ingest_for_ai`), and for each of them runs automation rules and the AI flow. A reply
is appended to the conversation, committed, and handed to outbound delivery, which
commits its marker, calls Meta and commits the outcome. The request concludes the
event's processing record and goes on to the next; when it answers anything but 200,
or not in time, Meta sends the delivery again. Operators act through the inbox and
the reconciliation pages. Payment activates the subscription whose limits the AI
flow and the rules read. The prompt of the AI flow is made of the rows that managers
publish, and is sent through the connection that an owner has authorized.

What is hard here: the same rows are read without a lock and written later, by
requests that overlap; the marker, the call and the outcome of an external call are
three separate facts, and a process can die between any two of them; Meta and the
gateways repeat, delay and lose calls; and leases decide who owns a piece of work.
`PROJECT.json` lists each of these hazards at the line where it bites.

## The modules

| Module | Models |
|---|---|
| `SendPermits` | what delivery promises, with everything else forgotten: a message has one permit to be sent, a person may grant another, a copy uses one |
| `OutboundDelivery` | `deliver`, `reconcile`, `retry`, Meta and the clock; implements `SendPermits` |
| `WebhookIngestion` | ingestion, redelivery, resumption, completion and failure of deliveries; Meta's retries |
| `OrderPayment` | payment rows of card transfers, KPay and Payexa, with order and subscription |
| `TurnTaking` | what the participants of a conversation may rely on: who has it speaks in it, a machine says one thing to a message, a generated reply answers the customer's last word and is paid for |
| `ConversationTurn` | who speaks next in a conversation: rules, model, quota, and the operator who takes over; implements `TurnTaking` |
| `InstagramConnection` | the owner who authorizes an account at Meta, the callbacks, and the operator who manages the connection by hand |
| `Catalog` | the rows of a tenant's catalog, and the operations that look before they write |
| `BusinessKnowledge`, `KnowledgeAnswers` | what managers write and publish; composed with it, how an answer reads that, row by row, and what the prompt's budget keeps |
| `Entitlements` | subscriptions, the modules they switch on, and the limit of automation rules |
| `StoreAccess` | one identity with its sessions, and its standing in a tenant and a store |
| `CatalogTraining`, `ContentStudio` | drafts and versions of the trained catalog; composed with it, posts about its product and their publication |
| `Commerce_proofs` | the theorems of `OrderPayment` and of `Entitlements` |
| `Tenant_proofs` | the theorems of `StoreAccess` and of `Catalog` |
| the other `..._proofs` | the theorems of the module of that name |
| `MC...` | the instances that TLC checks |

### OutboundDelivery

`row[m]` is the part of a message's metadata that decides anything: delivery status,
certainty, reconciliation status, `safe_retry_eligible` and the attempt id. The
attempt ids are numbered instead of random. `worker[w]` is a request thread with the
copy of the row that it read: `Load` (read and checks), `Mark` (the marker, committed
by `before_provider_call`), `Call`, `Answer`, `Record` are the steps of `deliver`
between which another session can commit. `Record` writes the metadata that the worker
computed from its own copy over whatever the row holds, as the code does. `Retry` and
`ResumeClaim` are the two transactions of `retry`; `Crash` ends a worker anywhere.
`ProviderAccepts` lets Meta accept a request it was handed at any later time, also
after the client's timeout. `Legacy` rows, which earlier releases left without a
certainty, are initial states. `issued`, `called`, `accepted`, `refused`, `denials`
and `vouched` are the history that properties speak of.

Nothing keeps two workers from sitting between `Load` and `Mark` of one message: a flow can outlive
the lease of its processing record, and the flows of two events of one conversation are handed the
same reply (`ai_response_orchestrator.py:92-118`, `ReuseAnswer` in `ConversationTurn`) under
processing records of their own, each within its lease. Both then send it. So a message has not
one permit: it has as many as there were first deliveries at once between
their read and their marker (`Starters`, whose greatest number so far is `crowd[m]`; `Allowance(m)`
is that number, and at least one), and `denials[m]` on top. `CopiesAccountedFor` says that nothing else costs a copy: no
crash, lost answer, late acceptance, lapsed claim or overlapping retry. In the same way a row says `NOT_SENT_CONFIRMED`
of what was called only if somebody denied a copy or deliveries met (`Undisturbed`).
`OutboundTwoFlows.cfg` shows the second copy.

### WebhookIngestion

A worker is one webhook request. `IngestMalformed`, `IngestUnrouted` and
`IngestRouted` are the outcomes of the first transaction; `Resume` and
`AnswerDuplicate` those of `_handle_duplicate`; `CompleteItem`, `FailIngestion` and
`Acknowledge` the steps of the loop in `receive_instagram_webhook`. What a request still has to do is a set, worked off
in the order of the payload (`Earlier`). The flow of an item
(automation, LLM, outbound) is the time between two steps: its own failures it keeps to
itself, and whatever else goes wrong is `FailIngestion` or `Crash`. `owed` is Meta: a
delivery stays owed until it is answered 200. `Concluded` counts the committed records,
because the session does not flush before the query (see `WebhookLeftAccepted.cfg` below). The records of
one delivery are started together, so that one flag per delivery says that they have
lapsed.

Left out: rows of earlier releases (a receipt stuck in `received`, events without a
processing record), which an empty database does not reach; signature and payload
checks beyond "does not parse".

### OrderPayment

`payment[o]` is the payment row of an order, of whichever provider; `request[r]` a
request in progress with what it has read. A gateway's call is an action between two
transactions: `StartCreate`, `CallCreate`, `RecordCreate`; `BeginVerify`, `Check`,
`RecordCheck` or `Verify`, `ConcludeVerify` for KPay; `BeginPayexa`, `Reply`,
`ConcludePayexa` for Payexa, whose row stays locked over the call (`Locked`).
`Review` is an administrator looking at a payment, whose revision the decision then
carries; `approve` is one locked transaction, `reject` two steps, because it locks
nothing. `overlapped` marks the orders where such a rejection was written over a row
that had changed since.
An answer that Payexa's client turns into an error leaves the row `VERIFY_PENDING`. A
duplicate of the gateway's identity counts as `unknown` (for Payexa the code then leaves
the revision alone, which nothing reads). The amounts are reduced to "matching" or not.

### ConversationTurn

`status`, `revision` and `counted` are the conversation's row (`revision` is SQLAlchemy's
`version_id_col`, `counted` is `message_count`); `thread` is its messages, each with its
author, the customer's message it belongs to, and the time it carries. `flow[w]` is a
request with what it has read: `Flow(stage, of, seen, reply)`, `of` being the message whose
flow it runs and `seen` a `Snapshot` of row and history. The steps are the transactions of
the code, and where a transaction is long its read and its write are two steps:

| Actions | Code |
|---|---|
| `Send`, `Persist` | the customer; `InboundMessageProcessor.process`, in any order of arrival |
| `SkipPaused`, `MatchRule`, `ReuseRuleReply`, `ReuseAnswer`, `ReadHistory` | the beginning of a flow: pause, rule (with its idempotency key), earlier reply, history |
| `AutomationReplies`, `AutomationConflict` | the append of `AutomationRuntime.process`; a stale write fails the request, and Meta repeats it |
| `QuotaExhausted`, `NothingToAnswer`, `CallModel`, `ModelReplies`, `ModelConflict`, `ModelFails` | `generate_response`, one transaction that holds the quota's lock from `CallModel` on; a stale write concludes the flow as failed |
| `Deliver`, `Crash` | the hand-over to `OutboundDelivery`; death at any step |
| `TakeOver`, `ResumeAI`, `SendManualReply` | `inbox_service.py` |

The status of a conversation starts as `open`: `closed`, `archived`, `handoff_requested` and
`waiting_for_ai` are declared by the code, but nothing in the message flow sets them.
`ended` are the messages whose processing record is concluded, and
`excused` those among them that a pause, the quota or a failure of the model left unanswered.

Abstracted: which rule matches is a set of messages chosen in `Init` and fixed;
every inbound message is a text; times are a counter per conversation, so that
no two messages have the same time and the server's clock and Meta's agree; the lease of a
processing record is left out, so that any request may begin any message that is not
concluded (more than the code allows); a write that reads and commits without an
external call between is one step.

`TurnTaking` forgets requests, revisions, counters and times. Its `said` are the lines of
`ThreadOf(c)` (author, and the message spoken to), `last` is the line with the greatest time, `holder`
is `human` while the status is `human_active`, and `budget` is what the limit leaves of generated
replies. Its actions are guarded by what is so when the line is said; in `ConversationTurn` the
same is guarded by what was read, possibly long before, and by the revision. That the second
implements the first is what the optimistic revision is for.

### InstagramConnection

`connection[s]` is the store's row (status, account, the account its token was issued for,
revision), `grant[g]` an OAuth state, `request[r]` a callback with what it has read, `view[s]`
the page that an operator has open, `standing[s]` what the owner still has. `Consume` is the
locked transaction that uses up the state; `Exchange`, `CheckOwner`, `LoadConnection` and
`Save` follow, and other requests come between them. `Save` writes only the columns that
differ from what was read, and only over the revision that was read (`version_id_col`); the
same holds of an operator's request, which is one step because it reads and commits without
a call between, guarded by the revision on its page.

Worth knowing: a new authorization puts another account into the same row
(`instagram_onboarding/service.py`, `_save_connection`), a row whose status is `degraded` or `revoked` has
no writer, and a stale write in the callback is an error of the request, not a retry.

### Catalog

`status` and `of` are the rows and what each belongs to; `enabled`, `options` and `key` are the
attributes of products, the options of variants and their combination keys, and `editor[r]` a
request with what it has read (`NoCall` if it is not at work). Catalog rows carry no
revision and nothing is locked, so that an operation that first looks and then writes is two
steps (`BeginRetire`, `SaveStatus`; `BeginMove`, `Walk`, `SaveParent`; `BeginVariant`, `SaveVariant`;
`BeginReparent`; ...), and `overtaken` says that another operation was carried out in between. Unique
constraints refuse in the second step. The walk up from a new parent is one step for each row.

Abstracted: `draft`, `active` and `inactive` are one status, `live`; names and slugs.

### BusinessKnowledge and KnowledgeAnswers

`row[e]` is a profile, policy, FAQ or entry; a manager opens it (`page`), sends a request that
names the revision he saw, and the request checks (`Start`) and commits (`Commit`) in two
steps, the second of which names the revision that the first has read.

An answer (`stage`) resolves its scope, reads the products and then each kind of row with a SELECT
of its own, between which managers write; matches (how well is a choice); and fits what it has into
the budget as `prompt_builder.py` does, the best piece first, then turns from the newest.
`Industry` is the entry under the reserved slug, which the engine also offers as an ordinary entry.

### Entitlements

`subscription` are rows in order of commit, with the terms copied from the plan; `module[c]` is the
store's row for a module, and `by` whether a subscription or an operator wrote it last;
`writer[r]` is a request with what it has read. Activation,
grant, reconciliation and an operator's switch are two steps (`Begin...`, `CommitModules`,
`CommitSwitch`), and a module that was read with the status to be set is not written.
`Capabilities` is `effective_capabilities()`; `Effective` one subscription per family. How an
order is paid is `OrderPayment`'s matter: here it may be activated some time.

Not in the model: `admin_update_plan` compares the plan's revision without a lock, so that two
edits may overlap and end as one after the other, which is what two `EditPlan` steps do; a grant
that is revoked leaves the module rows, and the gate asks for both.

### StoreAccess

`user` is one identity, `session[s]` its sessions, `standing` the statuses of its tenant, store,
membership and role. Requests read without locks and write later the columns that differ from what they
read (`Begin...`, `Commit...`).

The statement that ends all sessions and the commit of its transaction are two steps (`RevokeForPassword`,
`CommitPassword`; `RevokeForDisable`, `CommitEnable`; `BeginRevokeAll`, `CommitRevokeAll`): the statement
notes the sessions that are active when it looks (`doomed`) and its number (`era`), and `ended` is the last number that
was committed. A login that commits between the two, or after, keeps its session, whichever password
it has verified (`SessionOutlivesPassword.cfg`); no session that the statement saw survives or comes back,
which is `SessionsOfTheirEra`. `tries` are the wrong passwords since the last lock, login or new password,
and `overruns` those whose count was written over another one than it was made from.

Two commands do not ask what the transitions ask: the publication of a training draft puts its store into
force (`BeginTraining`, `CommitTraining`; `catalog_training.py:481`), and an operator's
`set_membership_enabled` suspends a member of any status, a revoked one too (`DisableMembership`).
`MovesAreLegal` covers every step and names both.

Left out: the creation of tenants and stores, assignments of stores to members (which never change once
they are made), domains, permission tables.

### CatalogTraining and ContentStudio

A training draft is followed for one product. `BeginPublish` reads the draft, the active version and the next
number; `CommitPublish` goes through if number and draft are still free (unique constraints).
A post is generated from a row of products, edited, approved against the row's content
(`source_hash`), reserved as a job, marked, handed to Meta with the caption that is read then (`Hand`),
accepted or refused, and recorded. `live` are the posts at Meta, each with the caption that was handed over: what
is edited during the call, even approved, is not what is posted, though the draft then
counts as published (`PostBecomes` writes a status that differs from the one read at the hand-over). `raced` marks a post whose row was written by a request that had not seen it as it was, and
`excused` says why a repetition is not the code's doing: a manager approved again (`approved`), Meta
answered with an error (`error`), or two requests ran at once (`together`). `enabled` does not change here (`Entitlements` changes it).

The administration runs as one process in development and as several otherwise; overlapping
publications are modelled in any case. Deleting the picture of a failed or unknown post leads to a refusal
by Meta, no more.

## The runs

| Run | Instance | Shows |
|---|---|---|
| `outbound_delivery` | 1 message, 2 workers, 2 denials, 3 attempts | `CopiesAccountedFor`, `OneSendOwner`, `RecordIsTrue` (a marker before every call, `sent` only with a copy or somebody's word, no denial of a copy by the code unless deliveries met), `ClaimReleased`, refinement of `SendPermits` |
| `webhook_ingestion` | 3 deliveries, 4 events, 2 requests, 2 faults | `RecordsAgree` (a processed delivery is complete, a message has one flow), `OneFlowUnlessOverrun`, `AcknowledgedIsHandled`, `ConcludedIsFinal`, `EveryMessageHandled` |
| `order_payment` | 1 order, 3 requests, revision up to 8, 3 receipts | `EntitledWhenApproved`, `GatewayEntitlementIsPaid`, `PayexaApprovedIsPaid`, `OneTransactionPerOrder`, `ApprovedAsSeen` |
| `payment_rejected_late` | 1 order, 2 requests | violation of `EntitledIsApproved` |
| `conversation_turn` | 2 messages of one customer or of two, 2 requests, a rule that matches one message or none, limit 1 or 2, 1 fault, 1 take-over and 1 manual reply per conversation | `OneReplyPerMessage`, `QuotaRespected`, `CustomerNotLeftWaiting`, refinement of `TurnTaking`, `EveryFlowEnds` |
| `instagram_connection` | 2 stores, 2 accounts, 2 states, 2 callbacks, revision up to 3, 1 change of standing | `TokenOfAccount`, `OneExchangePerGrant`, `ArchivedIsFinal`, `DecidedAsSeen` |
| `catalog` | 2 products, variants and SKUs, 3 categories, 1 attribute with 2 options, 2 requests, 3 changes | `CyclesNeedARace`, `UsesEndOnlyInARace`, `EveryMoveEnds` |
| `knowledge_answers` | 5 rows of four kinds, 1 product, 2 managers, 4 revisions in all, budget 7, one result of a kind | `AnswerWasPublished`, `NothingDroppedNeedlessly`, `RepliesKeepTheirMessage`, `ChangedAsSeen` |
| `entitlements` | 2 plans, 3 initial subscriptions, 2 requests at a time and 4 in all, 2 days | `PaidForWorks`, `RulesBounded` |
| `store_access` | 2 sessions, 2 passwords, 2 requests at a time and 5 in all, lock after 2 failures | `SessionsOfTheirEra`, `TriesBounded`, `MovesAreLegal` |
| `content_studio` | 2 trainings, 2 workers, 1 post, 1 picture, 2 managers, 4 requests | `CatalogAgrees`, `PublishedIsMapped`, `RepeatedForAReason`, `PostedAsReviewed` |
| `post_repeated` | the same with 1 worker, 1 manager, 5 requests | violation of `UnknownIsReconciled` |

Every module has its `TypeOK` (`EntitlementsTypeOK`, `CatalogTypeOK`), the shape of its state. It is a
theorem, but for `KnowledgeAnswers`, where the proofs need no more than the types of rows, pages and
requests (`Typed`) and of the prompt (`PlacesInv`), and where it holds of this instance (add it to the
INVARIANTS).

Why the bounds are enough: in delivery and payment messages, and orders, never interact, so that one of each
suffices; a race here is between two parties, and two workers with a crashing or
lapsed third party (who is represented by the history it leaves) reach every
combination of them. Three attempts and two denials allow a lapsed claim, a second
retry and a late answer of the first. The deliveries of the webhook instance overlap in an event
and in a message, the two ways in which Meta repeats itself, and one does not parse; two
faults allow a crash while a resumed delivery is being worked on. Revisions up to 8
and three receipts allow a rejection to turn the revision back to a value that an
administrator has seen. In a conversation the races are between two flows, or a flow and
an operator; a message that arrives late needs a second one to be late for, and the quota
needs two conversations that share its last unit. Two stores can want one account, and two callbacks
one row, with an operator's change between; three categories let two moves close a cycle that a third
walk runs into, and three changes let a request be overtaken by both of the others; a budget of 7 is less
than what the five rows need, and with a published policy less than what must be there.
The knowledge instance lets managers write as long as the answer still looks at rows: what comes later it cannot see.
A store with three subscriptions of different ends meets every order in which they can run out in two
days, and four requests a grant, a revocation and a switch between the two steps of a fourth. `TriesBounded` has
a bound for any number of requests at a time, which counts the overwritten counts, and a fixed one for two, which
may count one try together or turn the count back. Four
requests are two edits, or an approval and a publication, that overlap twice. Users of a session, workers, managers, stores and the like are
symmetric where the run has no liveness property. Every bound is a constant with a name
(`MaxDenials`, `MaxAttempts`, `MaxFaults`, `MaxRevision`, `MaxReceipts`, `MaxInterventions`,
`MaxChanges`, `MaxRevisions`, `MaxTime`, `MaxRows`, `MaxRequests`, `MaxMonths`, `MaxImages`), and
the theorems hold for every value of them.

Deadlock is checked in the outbound and webhook runs. The others really may stop: an order that is
settled, a conversation where everything is answered, a request that nobody sends.

### Fairness

- Outbound: only the clock (`LeaseLapses`). Nothing obliges a worker to live, Meta to
  answer, or an operator to decide.
- Webhook: Meta sends again what was not answered 200, a request that is not cut
  short runs to its end (each call it makes has a timeout), and time passes. Faults are
  bounded by `MaxFaults`, since a system that fails for ever never finishes.
- Conversation: somebody works on a message that is not concluded (Meta repeats what was not
  acknowledged), and a request at work gets on. Customers and operators need not do
  anything. One weak fairness per message, and one per request, since Meta repeats each
  delivery for itself.
- Catalog: a request that walks up the tree gets on; its loop makes no call that could hang.
- The others: none. Nobody need come back from a gateway, publish, or log in; no
  liveness is claimed.

### Known disagreements

Where the code does other than a doc, a comment or a test says, a configuration has TLC
produce the trace. Two are runs of `PROJECT.json`:

- `payment_rejected_late`: `reject` takes no lock and has no version check, so that it can
  undo an approval and leave the subscription active.
- `post_repeated`: "Mark the job unknown and require reconciliation instead of risking a duplicate
  post", says `instagram_publishing.py:235`; a post whose outcome is unknown can be approved and posted again.

The others are kept beside them, one configuration each, to be run as `tlc -config X.cfg M`:

| Configuration, module | Property violated | What happens |
|---|---|---|
| `OutboundReopened`, `MCOutboundDelivery` | `DeliveredNeverReopened` | the outcome of a delivery is written from the metadata read before the call: an operator's `CONFIRM_SENT`, given while the worker waits for Meta, is overwritten ("sent delivery cannot be reopened", `instagram_outbound_reconciliation.py:117`) |
| `OutboundTwoFlows`, `MCOutboundDelivery` | `NoSecondCopy` | two flows of one conversation are handed the same reply (`ai_response_orchestrator.py:92-118`), or a slow flow outlives its lease: both read the message before either has marked it, and both send it (`instagram_outbound_delivery.py:129-131` says that a replay must not send a second message) |
| `WebhookLeftAccepted`, `MCWebhookIngestion` | `DeliveryConcluded` | with `autoflush=False` the count that concludes a delivery does not see the record just concluded, and deliveries stay `accepted` (`tests/test_instagram_ai_flow_integration.py:1655` uses a session that flushes) |
| `KPayLateCheck`, `MCOrderPayment` | `PendingIsUnentitled` | a "not paid yet" answer is recorded over an approval (`commerce/service.py:593` says no entitlement has changed) |
| `TakeoverNotImmediate`, `MCConversationTurn` | `TakeoverStopsDelivery` | after the reply is committed nothing looks at the conversation before it is sent (blueprint, l. 1859: "immediately") |
| `MatchUsesModel`, `MCConversationTurn` | `MatchesUseNoModel` | rules are asked about the message of the flow, the model about the latest: a message that a rule matches can be answered by the model too (`DECISIONS.md:339`) |
| `CatalogCombinations`, `MCCatalog` | `DuplicatesRefused` | `set_product_attribute` changes whether an attribute tells variants apart and leaves their keys as they are (`catalog/service.py:640`, `tests/test_business_catalog.py:203`) |
| `ReservedSlugChanged`, `MCKnowledgeAnswers` | `ReservedByQuestionnaire` | `update_entry` refuses the reserved slug as a new one only: the questionnaire's entry can be renamed or turned to prose (`docs/architecture/business-profile-knowledge.md:93`) |
| `ReconcileAsserts`, `MCEntitlements` | `ReconcileReturnsOne` | after its commit the reconciliation asserts that the newest subscription of all has not ended, which another family's may have (`commerce/service.py:1081`) |
| `PasswordRestored`, `MCStoreAccess` | `PasswordChangeHolds` | a login that verified the old password renews an outdated hash after a password change: the old password is back (`authentication/service.py:219`, `docs/architecture/authentication-identity.md:41`) |
| `SessionOutlivesPassword`, `MCStoreAccess` | `EverySessionEnds` | a login commits its session between the statement that revokes all sessions and the commit of the new password, or after both, having verified the old one (`authentication/service.py:419`: "revoke every session") |

Noted while modelling, and no property of their own: a request that has lost its lease may mark as
failed (`fail_ingestion`) records that another request has taken over; their flow runs
all the same (`AcknowledgedIsHandled`). A payment whose creation failed is returned to every later
attempt, and its order can never be paid (`commerce/service.py:460`). An archived industry profile blocks
saving another while the GET answers 404. Account and page identifiers are
unique each for itself (`docs/architecture/instagram-channel.md:36`), so that one store's page may
have the identifier of another's account; routing then ignores the delivery (`instagram_channel/service.py:1159`). The capability check does not ask whether a store is archived.

## The proofs

`OutboundDelivery_proofs`, for every set of messages and workers and all bounds:

- `TypeCorrect`: `Spec => []TypeOK`.
- `OneSendOwnerHolds`: `Spec => []OneSendOwner`. Inductive with `Ownership`: requests carry
  issued attempts (`RequestsIssued`), an attempt that was taken is not called before its owner
  calls it (`AttemptsTaken`), and two workers of one message hold different attempts
  (`AttemptsDistinct`). It needs no lease: a fresh attempt id is new.
- `CopiesAccountedForHolds`: `Spec => []CopiesAccountedFor`. The number of
  copies says too little to be inductive. `Accounts` counts permits: attempts issued, plus
  the deliveries that have read the message untouched and not marked it yet, plus the permit of an eligible
  retry, never exceed the denials and the allowance (`PermitsBalance`); there are never more such deliveries
  than `crowd` says (`CrowdCounted`); a row without a delivery status is untouched, and no attempt was issued (`Fresh`); what is
  `sent` is not started again (`SentIsFinal`). Copies are accepted attempts, and attempts are issued.
- `RecordIsTrueHolds`: `Spec => []RecordIsTrue`. `Truth` adds what is so between two steps of a
  worker: only a message that nobody has begun to send looks untouched (`Begun`), whoever was told of a success
  knows of a copy (`Heard`), a retry rests on a denial (`Decided`), and where nobody has denied a message and
  its deliveries have not met, one worker at most is at it, whose unsent attempts nobody has sent (`Alone`).
- `DeliveryImplementsPermits`: `Spec => ImplementsPermits`, from the same invariants: the permits are the denials and
  the allowance, an accepted request is `Deliver`, a denial or a delivery that meets another one is `Grant`, all
  else a stutter.

These need no assumption about who calls `deliver`, only that there are finitely many workers.

`Commerce_proofs`, of `OrderPayment`, for every set of orders and requests and all bounds:

- `PaymentTypeCorrect`: `Spec => []TypeOK`.
- `OneTransactionPerOrderHolds`, from `Rows` and `Creations`. `Rows` says that the row of
  a request is of the provider the request is about and, as far as nobody else may write
  it, as the request left it; and that one request opens an order's payment and one holds
  its Payexa lock (`Exclusive`). It is inductive because every row that a request found
  with a provider keeps it. `Creations` adds that a creation still to be called is the first.
- `EntitledWhenApprovedHolds`, from `Rows`, `Creations` (an order without a row is not
  entitled) and `Entitlement`.
- `GatewayEntitlementIsPaidHolds`: an approval carries an answer that only a
  gateway with the money gives (`MoneySeen`).
- `PayexaApprovedIsPaidHolds`: a holder of the lock sees a row that is not concluded.
- `ApprovedAsSeenHolds`: a review that still carries the row's revision carries its
  receipt (`ReviewsCurrent`), because without an overlapping rejection revisions only grow.

The last four use the lemma `StepKinds`: as the entitlement sees it, a step is quiet, opens a
row, submits a receipt, takes a gateway's answer for the payment, or is an administrator's
decision.

`Commerce_proofs`, of `Entitlements`, for every set of plans, terms, subscriptions that a store starts with, and
finitely many requests at a time:

- `EntitlementsTypeCorrect`: `EntitlementsSpec => []EntitlementsTypeOK`.
- `PaidForWorksHolds`: a module that a subscription was the last to write is active
  (`SubscriptionsSwitchOn`), whatever was read before it was written; a current subscription of a family
  gives the family an effective one, whose modules include all that they depend on.
- `RulesBoundedHolds`, from `RulesAccountedFor`: the rules there are, and the requests that have counted
  them and are about to add one, stay within the largest limit there ever was and the number of requests
  that may overlap, less one. Stated for the limit of the moment it would not be inductive, since
  plans and subscriptions change between the count and the insertion.

`ConversationTurn_proofs`, for every number of conversations, messages and requests, all
bounds, and rules and limits that are anything the assumption allows:

- `TurnTypeCorrect`: `Spec => []TypeOK`.
- `OneReplyPerMessageHolds`, `CountMatchesThreadHolds`, `MachinesYieldHolds`: what they share is
  `Snapshots`: a flow has read a revision that the row has had, and if it is still the row's, all
  that the flow has read (status, count, the latest message, and that it had no reply) is
  still true, because whatever changes any of them raises the revision. So a write that
  passes the check of the revision is a write from current data. `Timely` says that nothing in
  a thread is later than the conversation's clock, whence the new entry is new, and
  the count grows by one.
- `QuotaRespectedHolds`: one request at a time is past the count, and while it is,
  the limit is not reached (`OneAtTheModel`).
- `CustomerNotLeftWaitingHolds`, from `WaitInv`: where the customer has the last word, the message that was
  persisted last is `Pending`, which means that it is excused, or not concluded and all its flows have read the
  row as it is, so that one of them will answer. A reply is later than what it replies to (`EntriesTimed`), so that
  whoever adds a reply takes the last word.
- `ConversationsTakeTurns`: `Spec => ImplementsTurns`. `TurnInv` adds what the abstract state shows and the other
  invariants do not need: no two things are said in a conversation at the same time (`OneAtATime`), so that
  there is one last word and a late message does not disturb it; and a flow whose revision is the row's
  has read the end of the thread as it is, which is the customer's when the model is called (`Attentive`).
  Then `Persist` is `Hear`, the three writes of replies are `ReplyByRule`, `Generate` and `ReplyByHuman`,
  the operator's are `TakeOver` and `GiveBack`, and everything else is a stutter.

`WebhookIngestion_proofs`, for every set of deliveries (with any payload, a sequence of events), events and
requests, and any number of faults:

- `IngestionTypeCorrect`, `RecordsAgreeHolds`, `OneFlowUnlessOverrunHolds`, `AcknowledgedIsHandledHolds`
  and `ConcludedIsFinalHolds`, from one invariant, `Inv`. Its heart is three facts: a request lists every
  unfinished event of its delivery (`Listed`), so that what it concludes is all there was; what Meta
  no longer owes has been looked at, or is on the list of a request that Meta still waits for (`Attended`);
  and a delivery under which no lease ran out has one request, which has concluded what it is done with
  (`Leased`). That the payload has a first event that is not yet done, which `Earlier` needs, is the
  well-founded order of the natural numbers.

`InstagramConnection_proofs`, for every set of accounts, stores, states and requests:

- `ConnectionTypeCorrect`, `TokenOfAccountHolds`, `OneExchangePerGrantHolds`, `ArchivedIsFinalHolds` and
  `DecidedAsSeenHolds`. What a callback or a page has read is the row, or the row's revision has grown since
  (`ReadsArePast`), so that a write that passes `version_id_col` writes over what it has read; and
  a state that has not been used has not been exchanged (`UnusedNotExchanged`).

`KnowledgeAnswers_proofs`, for every set of rows and products, sizes, budget and history:

- `AnswerWasPublishedHolds`: while rows are read, what is public has been noted as shown (`PublishedInv`).
- `RepliesKeepTheirMessageHolds`: the part of the history that has a place begins with a turn (`TurnsInv`).
- `NothingDroppedNeedlesslyHolds`: from the time a piece finds no room beside what has a place, it has none,
  because what has a place only grows, and a prompt's length with it (`PlacesInv`, `BudgetInv`). Lengths are
  sums over sets, which the library defines by a fold through a `CHOOSE` of a function: `SumsExist` and
  `SumsUnique` show that there is exactly one such function (by a set that is minimal among counterexamples,
  since the induction theorems cannot be used), and `LengthGrows` is what the rest of the proof needs of it.
- `ChangedAsSeenHolds`, from `OpenedArePast`, which says of pages and requests what `ReadsArePast` says above.

`Tenant_proofs`, of `StoreAccess`, for any number of sessions, passwords, requests and failures that lock:

- `AccessTypeCorrect`.
- `SessionsOfTheirEraHolds`, from `EraInv`: while a statement's transaction is not committed, every session that is
  active and older than the statement is among those that it has seen (`Doomed`).
- `MovesAreLegalHolds`, from `MovesFound`: what a transition is about to write was legal from the statuses that
  it has read. No step is left out; the two commands that do not ask are alternatives of the property.
- `TriesBoundedHolds`, of any number of requests, from `LockInv`: together with the room that the count in the
  identity's row leaves, the tries stay within the limit, once more for each overwritten count, and the tries under
  way. For two requests `Ahead` is how many tries may still come before the lock, from the
  count in the row and the counts that tries under way have read; `TriesInv` says that with these the tries so
  far stay within the fixed limit. The worst that can happen is a try that waits until another request has all but
  locked the identity, and turns the count back: hence a sum over all counts, and no more.

`Tenant_proofs`, of `Catalog`, for any rows, any trees that a tenant starts with, and finitely many requests at a time:

- `CatalogTypeCorrect`: `CatalogSpec => []CatalogTypeOK`.
- `CyclesNeedARaceHolds` and `UsesEndOnlyInARaceHolds`, from `CatalogInv`. Its heart is `SeenStillHolds`: what a
  request has found, if nothing was carried out since, is still so, and a walk that has come to
  some row has left no row behind it that is the moved one (`ClimbedBy`). So only a
  request that was overtaken can close a cycle or end a use. Beside it: a row that does not exist yet is
  nobody's (`NothingBeforeBirth`), and variants belong to products (`VariantsOfProducts`).

`ContentStudio_proofs`, for every set of drafts, posts, pictures, managers and requests:

- `StudioTypeCorrect`, `CatalogAgreesHolds`: the second is inductive with the first, since a publication
  commits only under a number that is still free.
- `PublishedIsMappedHolds`, `RepeatedForAReasonHolds`, `PostedAsReviewedHolds`, each from its own inductive
  invariant: a media id that is recorded, or about to be, is that of a live post of the draft
  (`PublishedInv`); a post that is live, or may come to be, is not about to be posted again unless it is excused
  (`RepeatedInv`); what may be posted reads as reviewed (`ReviewedInv`), up to the step that hands it over.

The assumptions are those that the modules declare of their constants. TLC evaluates them in every run. Some are about finiteness
(rows and products, workers, requests at a time): a process serves finitely many requests, and a table has finitely many
rows. Those about the initial rows of `Catalog` say what foreign keys and the creation of rows guarantee: a category
belongs to a category, a variant to a product.

Only model-checked: liveness (`ClaimReleased`, `EveryMessageHandled`, `EveryFlowEnds`, `EveryMoveEnds`), which the
prover cannot treat. All other properties of the passing runs, invariants, action properties and refinements, are
theorems.

## The plan

1. Done: delivery and conversations with the refinements of `SendPermits` and `TurnTaking`, webhook
   ingestion, order payment, entitlements, the connection, the catalog, business knowledge with the answers made
   of it, access, training and content studio, all with proofs.
2. Composition of `WebhookIngestion` (who runs a flow), `ConversationTurn` (what it says) and
   `OutboundDelivery` (who sends it), which would say when deliveries
   meet (`crowd` in `OutboundDelivery` only counts them), and cover a reply that was persisted and, after
   a crash, is never found again because a later message was answered first. Until then
   that hazard is without a property: no model here knows both the thread and what was sent.
3. An abstract specification of ingestion (each event handled once, acknowledged afterwards), implemented
   by `WebhookIngestion`.

## Not modelled

- LLM and Meta adapters: network calls with a timeout, whose outcomes are choices in the models of
  their callers.
- The catalog runtime (`catalog_runtime.py`, matching of text against the trained catalog) and the
  wording of prompts: pure functions of text.
- The single-tenant Telegram, ManyChat and Instagram handlers: around network calls, without a protocol
  state of their own.
- Creation and renaming of tenants and stores, domains, assignments, permission tables, provisioning
  commands, usage pages, reports: reads, and single inserts guarded by a unique constraint.
- Payment cards: the default one is chosen by an update of two rows
  (`commerce/service.py:760-935`), on which two administrators may race; orders are paid to whichever is found.
- Migrations, scripts, deployment: what matters of them (session flags, constraints, the number of
  processes) is built into the models.
