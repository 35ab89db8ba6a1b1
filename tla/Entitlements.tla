------------------------------ MODULE Entitlements ------------------------------
(***************************************************************************)
(* What a store may use: subscriptions, the modules that they switch on,   *)
(* and the automation rules that they allow.                               *)
(*                                                                         *)
(*   commerce/service.py, commerce/router.py   plans, orders, trials,      *)
(*                                             grants, activation          *)
(*   module_catalog.py                         effective capabilities      *)
(*   admin_modules.py                          operators and modules       *)
(*   automation_rules/service.py               the rules of a store        *)
(*                                                                         *)
(* One store. A request that writes reads first, in a transaction of its   *)
(* own, and commits later: a column that it has read with the value that   *)
(* it sets is not written. How an order is paid is OrderPayment's matter:  *)
(* here an order that is under way may at some time be activated.          *)
(***************************************************************************)
EXTENDS Naturals, Sequences, FiniteSets, FiniteSetsExt

CONSTANTS
    Plans,
    FirstTerms,     \* FirstTerms[p]: the terms of plan p at the start
    Limits,         \* automation limits that an administrator may set
    Starts,         \* the subscriptions that the store may have at time 0
    Writers,        \* requests that may be under way together
    TrialDays,      \* days of a module on trial
    MaxMonths,      \* months of one order
    MaxTime,        \* bound: days
    MaxRows,        \* bound: subscriptions
    MaxRequests     \* bound: requests in all

Families == {"AUTOMATION", "AI_ASSISTANT", "LEGACY_BUNDLE"}
Codes == {"instagram_automation", "ai_assistant", "knowledge_base"}

\* Terms of a plan, which an order copies.
Terms == [family : Families, days : Nat \ {0}, limit : Nat]

Forever == MaxTime + 1

\* Rows of the table of subscriptions.
SubscriptionRows ==
    [family : Families, source : {"PURCHASED", "ADMIN_GRANT", "TRIAL", "LEGACY"},
     status : {"active", "cancelled"},
     from : 0 .. MaxTime, to : 0 .. Forever, limit : Nat]

ASSUME EntitlementsAssumption ==
    /\ Starts \subseteq Seq(SubscriptionRows)
    /\ FirstTerms \in [Plans -> Terms]
    /\ Limits \subseteq Nat
    /\ TrialDays \in Nat \ {0} /\ MaxMonths \in Nat \ {0}
    /\ IsFiniteSet(Writers) /\ Writers # {}
    /\ MaxTime \in Nat /\ MaxRows \in Nat /\ MaxRequests \in Nat

VARIABLES
    clock,          \* days
    plan,           \* plan[p]: its terms, and whether it is active
    ordered,        \* the terms that the store has ordered, or NoTerms
    subscription,   \* rows in the order in which they were committed
    module,         \* module[c]: the store's row for module c
    standing,       \* the store is "active" (or onboarding), "suspended" or "archived"
    rules,          \* number of automation rules
    writer,         \* writer[r]: what r has read and is about to write
    started         \* number of requests that have begun

entitlementVars ==
    <<clock, plan, ordered, subscription, module, standing, rules, writer, started>>

NoTerms == [family |-> "none", days |-> 0, limit |-> 0]

Subscription(family, source, from, to, limit) ==
    [family |-> family, source |-> source, status |-> "active",
     from |-> from, to |-> to, limit |-> limit]
NoSubscription == [Subscription("none", "none", 0, 0, 0) EXCEPT !.status = "none"]

Module(status, until, by) == [status |-> status, until |-> until, by |-> by]

AtRest == [op |-> "none", codes |-> {}, seen |-> [c \in Codes |-> "none"],
           grant |-> NoSubscription, to |-> "none"]

\* The modules of a plan of this family.
CodesOf(family) ==
    CASE family = "AUTOMATION" -> {"instagram_automation"}
      [] family = "AI_ASSISTANT" -> {"ai_assistant", "knowledge_base"}
      [] family = "LEGACY_BUNDLE" -> Codes

\* A module with what it depends on.
Needs(c) == IF c = "ai_assistant" THEN {"ai_assistant", "knowledge_base"} ELSE {c}

--------------------------------------------------------------------------------
(* What is effective                                                       *)

Current(i) ==
    /\ subscription[i].status = "active"
    /\ subscription[i].from <= clock /\ clock < subscription[i].to

\* ORDER BY starts_at DESC, id DESC, the first; 0 if there is none.
Newest(is) ==
    IF is = {} THEN 0
    ELSE CHOOSE i \in is : \A j \in is :
            \/ subscription[j].from < subscription[i].from
            \/ subscription[j].from = subscription[i].from /\ j <= i

OfFamily(family) == {i \in DOMAIN subscription : subscription[i].family = family}

\* Mutated form of EffectiveOf: the newest one counts, or none.
EffectiveIfNewest(family) ==
    LET i == Newest({j \in OfFamily(family) : subscription[j].status = "active"}) IN
    IF i # 0 /\ Current(i) THEN i ELSE 0

\* effective_subscription_for_family(): the newest that has not ended.
EffectiveOf(family) == Newest({i \in OfFamily(family) : Current(i)})

\* effective_product_subscriptions(): one of each family.
Effective == {EffectiveOf(f) : f \in Families} \ {0}

\* effective_subscription(): the newest of all, unless that one has ended.
EffectiveOfAll ==
    LET i == Newest({j \in DOMAIN subscription : subscription[j].status = "active"}) IN
    IF i # 0 /\ Current(i) THEN i ELSE 0

Granted == UNION {CodesOf(subscription[i].family) : i \in Effective}

\* module_enabled() of one row.
SwitchedOn(c) ==
    \/ module[c].status = "active"
    \/ module[c].status = "trial" /\ clock < module[c].until

Enabled(c) == standing # "suspended" /\ \A d \in Needs(c) : SwitchedOn(d)

\* effective_capabilities().
Capabilities ==
    LET granted == Granted IN {c \in granted : Needs(c) \subseteq granted /\ Enabled(c)}

\* Another request is still within the bound.
Count ==
    /\ started < MaxRequests
    /\ started' = started + 1

--------------------------------------------------------------------------------
(* Plans and orders                                                        *)

\* admin_create_plan(), admin_update_plan(): two edits that overlap end as one after
\* the other. The terms of subscriptions and orders stay.
EditPlan(p, active, limit) ==
    /\ Count
    /\ plan[p].terms.family # "LEGACY_BUNDLE"
    /\ plan' = [plan EXCEPT ![p].active = active, ![p].terms.limit = limit]
    /\ plan' # plan
    /\ UNCHANGED <<clock, ordered, subscription, module, standing, rules, writer>>

\* create_order(): the terms are copied; days are multiplied by the months.
CreateOrder(p, months) ==
    /\ Count
    /\ standing = "active"
    /\ ordered = NoTerms
    /\ plan[p].active
    /\ plan[p].terms.family # "LEGACY_BUNDLE"
    /\ ordered' = [plan[p].terms EXCEPT !.days = @ * months]
    /\ UNCHANGED <<clock, plan, subscription, module, standing, rules, writer>>

--------------------------------------------------------------------------------
(* Requests that read and then write                                       *)

StatusesOf(codes) == [c \in Codes |-> IF c \in codes THEN module[c].status ELSE "none"]

\* r has read these modules and is about to switch them, perhaps with a new subscription.
Begin(r, op, codes, grant, to) ==
    /\ writer[r] = AtRest
    /\ Count
    /\ writer' = [writer EXCEPT ![r] =
                      [op |-> op, codes |-> codes, seen |-> StatusesOf(codes),
                       grant |-> grant, to |-> to]]

\* Another row is still within the bound, with those that are under way.
RoomForRow ==
    Len(subscription) + Cardinality({r \in Writers : writer[r].grant # NoSubscription})
        < MaxRows

Until(days) == Min({clock + days, Forever})

\* _activate_paid_subscription(), _activate_free_subscription(): by the order's terms.
BeginActivation(r) ==
    /\ ordered # NoTerms /\ RoomForRow
    /\ Begin(r, "activate", CodesOf(ordered.family),
             Subscription(ordered.family, "PURCHASED", clock, Until(ordered.days), ordered.limit),
             "active")
    /\ ordered' = NoTerms
    /\ UNCHANGED <<clock, plan, subscription, module, standing, rules>>

\* admin_grant(): by the plan's terms, up to some later day, or for ever.
BeginGrant(r, p, to) ==
    /\ plan[p].active /\ RoomForRow
    /\ plan[p].terms.family # "LEGACY_BUNDLE"
    /\ Begin(r, "grant", CodesOf(plan[p].terms.family),
             Subscription(plan[p].terms.family, "ADMIN_GRANT", clock, to, plan[p].terms.limit),
             "active")
    /\ UNCHANGED <<clock, plan, ordered, subscription, module, standing, rules>>

\* reconcile_subscription_modules(): of all that is effective.
BeginReconcile(r) ==
    /\ standing = "active"
    /\ Begin(r, "reconcile", Granted, NoSubscription, "active")
    /\ Effective # {}
    /\ UNCHANGED <<clock, plan, ordered, subscription, module, standing, rules>>

\* _apply_modules(): a module that was seen active is not written.
CommitModules(r) ==
    /\ writer[r].op \in {"activate", "grant", "reconcile"}
    /\ module' = [c \in Codes |->
                     IF c \in writer[r].codes /\ writer[r].seen[c] # "active"
                     THEN Module("active", module[c].until, "subscription") ELSE module[c]]
    /\ subscription' = IF writer[r].grant = NoSubscription THEN subscription
                       ELSE Append(subscription, writer[r].grant)
    /\ writer' = [writer EXCEPT ![r] = AtRest]
    /\ UNCHANGED <<clock, plan, ordered, standing, rules, started>>

\* admin_revoke(): the modules stay as they are.
Revoke(i) ==
    /\ Count
    /\ subscription[i].source = "ADMIN_GRANT"
    /\ subscription[i].status = "active"
    /\ subscription' = [subscription EXCEPT ![i].status = "cancelled"]
    /\ UNCHANGED <<clock, plan, ordered, module, standing, rules, writer>>

\* update_store_module(): what it depends on must be enabled.
BeginSwitch(r, c, to) ==
    /\ to \in {"active", "trial"} => \A d \in Needs(c) \ {c} : Enabled(d)
    /\ Begin(r, "switch", {c}, NoSubscription, to)
    /\ UNCHANGED <<clock, plan, ordered, subscription, module, standing, rules>>

CommitSwitch(r) ==
    /\ writer[r].op = "switch"
    /\ LET to == writer[r].to IN
       module' = [c \in Codes |->
                     IF c \notin writer[r].codes THEN module[c]
                     ELSE [Module(to, IF to = "trial" THEN Until(TrialDays) ELSE 0, "operator")
                           EXCEPT !.status = IF writer[r].seen[c] # to THEN to
                                             ELSE module[c].status,
                                  !.by = IF writer[r].seen[c] # to THEN "operator"
                                         ELSE module[c].by]]
    /\ writer' = [writer EXCEPT ![r] = AtRest]
    /\ UNCHANGED <<clock, plan, ordered, subscription, standing, rules, started>>

--------------------------------------------------------------------------------
(* Automation rules                                                        *)

\* The subscription whose limit counts: the automation one, or else the legacy bundle.
Limiting == IF EffectiveOf("AUTOMATION") # 0 THEN EffectiveOf("AUTOMATION")
            ELSE EffectiveOf("LEGACY_BUNDLE")

\* Mutated form of HasRoom: off by one.
HasRoomAtLimit == rules <= subscription[Limiting].limit

HasRoom == rules < subscription[Limiting].limit

\* create(): counted, and inserted later.
BeginRule(r) ==
    /\ Begin(r, "rule", {}, NoSubscription, "none")
    /\ "instagram_automation" \in Capabilities
    /\ HasRoom
    /\ UNCHANGED <<clock, plan, ordered, subscription, module, standing, rules>>

CommitRule(r) ==
    /\ writer[r].op = "rule"
    /\ rules' = rules + 1
    /\ writer' = [writer EXCEPT ![r] = AtRest]
    /\ UNCHANGED <<clock, plan, ordered, subscription, module, standing, started>>

\* delete(): by revision, in one statement.
DeleteRule ==
    /\ Count
    /\ rules > 0
    /\ "instagram_automation" \in Capabilities
    /\ rules' = rules - 1
    /\ UNCHANGED <<clock, plan, ordered, subscription, module, standing, writer>>

--------------------------------------------------------------------------------
Tick ==
    /\ clock < MaxTime
    /\ clock' = clock + 1
    /\ UNCHANGED <<plan, ordered, subscription, module, standing, rules, writer, started>>

\* transition_store().
ChangeStanding(to) ==
    /\ Count
    /\ standing # "archived" /\ to # standing
    /\ standing' = to
    /\ UNCHANGED <<clock, plan, ordered, subscription, module, rules, writer>>

\* A store is registered with its trials, or comes from before the families.
EntitlementsInit ==
    /\ clock = 0
    /\ plan = [p \in Plans |-> [terms |-> FirstTerms[p], active |-> TRUE]]
    /\ ordered = NoTerms
    /\ subscription \in Starts
    /\ module = [c \in Codes |-> Module("active", 0, "subscription")]
    /\ standing = "active"
    /\ rules = 0
    /\ writer = [r \in Writers |-> AtRest]
    /\ started = 0

Sell(r) ==
    \/ BeginActivation(r) \/ BeginReconcile(r) \/ CommitModules(r)
    \/ \E p \in Plans, to \in clock + 1 .. Forever : BeginGrant(r, p, to)

Operate(r) ==
    \/ \E c \in Codes, to \in {"active", "trial", "inactive"} : BeginSwitch(r, c, to)
    \/ CommitSwitch(r)

Automate(r) == BeginRule(r) \/ CommitRule(r)

EntitlementsNext ==
    \/ \E r \in Writers : Sell(r) \/ Operate(r) \/ Automate(r)
    \/ \E p \in Plans, active \in BOOLEAN, limit \in Limits : EditPlan(p, active, limit)
    \/ \E p \in Plans, months \in 1 .. MaxMonths : CreateOrder(p, months)
    \/ \E i \in DOMAIN subscription : Revoke(i)
    \/ DeleteRule
    \/ Tick
    \/ \E to \in {"active", "suspended", "archived"} : ChangeStanding(to)

EntitlementsSpec == EntitlementsInit /\ [][EntitlementsNext]_entitlementVars

--------------------------------------------------------------------------------
(* Properties                                                              *)

\* Rows of subscriptions, modules and requests have the shape that the tables give them.
EntitlementsTypeOK ==
    /\ clock \in 0 .. MaxTime /\ started \in 0 .. MaxRequests /\ rules \in Nat
    /\ plan \in [Plans -> [terms : Terms, active : BOOLEAN]]
    /\ ordered \in Terms \cup {NoTerms}
    /\ subscription \in Seq(SubscriptionRows)
    /\ module \in [Codes -> [status : {"active", "trial", "inactive"}, until : 0 .. Forever,
                             by : {"subscription", "operator"}]]
    /\ standing \in {"active", "suspended", "archived"}
    /\ writer \in [Writers -> [op : {"none", "activate", "grant", "reconcile", "switch", "rule"},
                                codes : SUBSET Codes,
                                seen : [Codes -> {"active", "trial", "inactive", "none"}],
                                grant : SubscriptionRows \cup {NoSubscription},
                                to : {"active", "trial", "inactive", "none"}]]

\* What is paid for can be used: every module of a subscription that has begun and not
\* ended is a capability of its store, whatever other subscriptions came and went and
\* whatever requests overlapped, unless the store is suspended or an operator was the
\* last to switch the module, or one that it depends on.
PaidForWorks ==
    LET usable == Capabilities IN
    \A i \in DOMAIN subscription : Current(i) =>
        \A c \in CodesOf(subscription[i].family) :
            \/ c \in usable
            \/ standing = "suspended"
            \/ \E d \in Needs(c) : module[d].by = "operator"

\* A store never has more rules than the largest limit it ever had, except for those
\* that requests in flight have slipped in together, and these never add up.
RulesBounded ==
    rules <= Max({subscription[i].limit : i \in DOMAIN subscription} \cup {0})
                + Cardinality(Writers) - 1

\* A reconciliation that leaves something effective returns a subscription.
ReconcileReturnsOne ==
    [][\A r \in Writers :
          writer[r].op = "reconcile" /\ writer'[r] = AtRest /\ Effective # {} =>
             EffectiveOfAll # 0
      ]_entitlementVars
================================================================================
