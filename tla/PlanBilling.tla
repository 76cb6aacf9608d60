----------------------------- MODULE PlanBilling -----------------------------
(***************************************************************************)
(* The plan a shop is entitled to (billing/service, billing/repository,    *)
(* shop/repository.findPlan), reconciled from Shopify by a webhook, by the *)
(* admin's page loads and on demand.                                       *)
(*                                                                         *)
(* The row is a cache of Shopify's answer, written whole: what matters is  *)
(* which of several answers is written last, and how old it is.            *)
(***************************************************************************)
EXTENDS Naturals, FiniteSets

CONSTANTS
    Checks,         \* reconciliations that may run at once
    MaxChanges      \* bound on what the merchant does in Shopify, and on failures

ASSUME BillingAssumption == MaxChanges \in Nat

VARIABLES
    contract,   \* Shopify's: [name, status], or NoContract
    cached,     \* the Subscription row: [plan, status]
    verified,   \* is lastVerifiedAt within STALE_AFTER_MS?
    check,      \* per reconciliation: [at, answer]
    notices,    \* app_subscriptions/update webhooks on their way
    exempt,     \* is the shop in PLAN_EXEMPT_SHOPS?
    changes

bvars == <<contract, cached, verified, check, notices, exempt, changes>>

Names == {"Pro", "Starter", "renamed"}      \* renamed: not in PLAN_CATALOGUE
Statuses == {"ACTIVE", "FROZEN", "CANCELLED", "ACCEPTED"}
Contracts == [name : Names, status : Statuses, trial : BOOLEAN]
NoContract == [name |-> "Free", status |-> "CANCELLED", trial |-> FALSE]
Local == {"ACTIVE", "TRIALING", "FROZEN", "CANCELLED", "PENDING"}
Plans == {"FREE", "STARTER", "PRO", "ENTERPRISE"}

NoAnswer == [plan |-> "none", status |-> "none"]

BillingTypeOK ==
    /\ contract \in Contracts \cup {NoContract}
    /\ cached \in [plan : Plans, status : Local]
    /\ verified \in BOOLEAN /\ exempt \in BOOLEAN
    /\ check \in [Checks -> [at : {"idle", "ask", "write"},
                             answer : [plan : Plans, status : Local] \cup {NoAnswer}]]
    /\ notices \in 0..MaxChanges
    /\ changes \in 0..MaxChanges

-----------------------------------------------------------------------------
(* The plan. *)

\* A name the catalogue does not know is the lowest paid plan, never the free one.
resolvePlan(name) == CASE name = "Pro" -> "PRO" [] name = "Free" -> "FREE" [] OTHER -> "STARTER"

\* Shopify calls a trial active; one it has not started yet is pending.
resolveStatus(status, trial) ==
    CASE status = "ACTIVE" /\ trial -> "TRIALING" [] status = "ACCEPTED" -> "PENDING" [] OTHER -> status

\* The first subscription that is not cancelled; none is an answer too.
Answer == IF contract.status = "CANCELLED"
          THEN [plan |-> "FREE", status |-> "ACTIVE"]
          ELSE [plan |-> resolvePlan(contract.name),
                status |-> resolveStatus(contract.status, contract.trial)]

isEntitled(status) == status \in {"ACTIVE", "TRIALING"}
Entitles(s) == IF isEntitled(s.status) THEN s.plan ELSE "FREE"

effectivePlan == IF exempt THEN "ENTERPRISE" ELSE Entitles(cached)

-----------------------------------------------------------------------------
(* reconcile: ask, then overwrite. *)

Others == UNCHANGED <<contract, exempt, changes>>
Asks(c) == check' = [check EXCEPT ![c].at = "ask"]
Free(c) == check[c].at = "idle"

\* The webhook is a trigger: what it says is not used.
appSubscriptionsUpdate(c) ==
    /\ Free(c) /\ notices > 0
    /\ notices' = notices - 1
    /\ Asks(c)
    /\ UNCHANGED <<cached, verified>> /\ Others

\* A page load asks only when the answer has aged.
reconcileIfStale(c) ==
    /\ Free(c) /\ ~verified
    /\ Asks(c)
    /\ UNCHANGED <<cached, verified, notices>> /\ Others

\* The merchant is back from the pricing page.
refresh(c) ==
    /\ Free(c)
    /\ Asks(c)
    /\ UNCHANGED <<cached, verified, notices>> /\ Others

Ask(c) ==
    /\ check[c].at = "ask"
    /\ check' = [check EXCEPT ![c] = [at |-> "write", answer |-> Answer]]
    /\ UNCHANGED <<cached, verified, notices>> /\ Others

\* No session, or no answer: the plan stays what it was.
AskFails(c) ==
    /\ check[c].at = "ask"
    /\ changes < MaxChanges /\ changes' = changes + 1
    /\ check' = [check EXCEPT ![c].at = "idle"]
    /\ UNCHANGED <<contract, cached, verified, notices, exempt>>

\* Mutant: the row is created with the plan, and only its status is updated.
ReconcileStatus(c) ==
    /\ check[c].at = "write"
    /\ cached' = [cached EXCEPT !.status = check[c].answer.status]
    /\ verified' = TRUE
    /\ check' = [check EXCEPT ![c] = [at |-> "idle", answer |-> NoAnswer]]
    /\ UNCHANGED notices /\ Others

reconcile(c) ==
    /\ check[c].at = "write"
    /\ cached' = check[c].answer
    /\ verified' = TRUE
    /\ check' = [check EXCEPT ![c] = [at |-> "idle", answer |-> NoAnswer]]
    /\ UNCHANGED notices /\ Others

HourPasses ==
    /\ verified
    /\ verified' = FALSE
    /\ UNCHANGED <<cached, check, notices>> /\ Others

-----------------------------------------------------------------------------
\* Shopify: the merchant buys, changes, stops paying or cancels.
ContractChanges ==
    /\ changes < MaxChanges /\ changes' = changes + 1
    /\ \E k \in Contracts \ {contract} : contract' = k
    /\ notices' = notices + 1
    /\ UNCHANGED <<cached, verified, check, exempt>>

BillingInit ==
    /\ contract = NoContract
    /\ cached = [plan |-> "FREE", status |-> "ACTIVE"] /\ verified = FALSE
    /\ check = [c \in Checks |-> [at |-> "idle", answer |-> NoAnswer]]
    /\ notices = 0 /\ changes = 0
    /\ exempt \in BOOLEAN

Reconciles(c) == Ask(c) \/ reconcile(c)
PageLoads == \E c \in Checks : reconcileIfStale(c)
Reconciling == \E c \in Checks : Reconciles(c)
BillingNext ==
    \/ \E c \in Checks : \/ appSubscriptionsUpdate(c) \/ refresh(c) \/ AskFails(c) \/ Reconciles(c)
    \/ PageLoads \/ HourPasses
    \/ ContractChanges

\* The merchant opens the admin again, hours pass, and what was asked is answered.
BillingFairness == SF_bvars(PageLoads) /\ WF_bvars(Reconciling) /\ WF_bvars(HourPasses)
BillingSpec == BillingInit /\ [][BillingNext]_bvars /\ BillingFairness

-----------------------------------------------------------------------------
(* Properties. *)

\* While the merchant keeps opening the admin the plan comes to be the one Shopify
\* bills, and stays it, whatever webhooks were missed and whichever of several
\* answers was written last (service.ts:40-43, the three overlapping ways).
PlanSettles == <>[](exempt \/ effectivePlan = Entitles(Answer))
=============================================================================
