----------------------------- MODULE ShopTenant -----------------------------
(***************************************************************************)
(* One shop as a tenant of the app: its token, the personal data it keeps, *)
(* its plan, the configuration its storefront is served and the forms it   *)
(* builds. What they share is the shop row, which each sees as given, so a *)
(* behaviour is of one of the five, which "part" names.                    *)
(***************************************************************************)
EXTENDS ShopAccess, DataRetention, PlanBilling, ConfigCache, FormBuilder

VARIABLE part

tvars == <<part, avars, rvars, bvars, kvars, fvars>>

AccessStep == part = "access" /\ AccessNext /\ UNCHANGED <<part, rvars, bvars, kvars, fvars>>
RetentionStep == part = "retention" /\ RetentionNext /\ UNCHANGED <<part, avars, bvars, kvars, fvars>>
BillingStep == part = "billing" /\ BillingNext /\ UNCHANGED <<part, avars, rvars, kvars, fvars>>
CacheStep == part = "cache" /\ CacheNext /\ UNCHANGED <<part, avars, rvars, bvars, fvars>>
FormsStep == part = "forms" /\ FormNext /\ UNCHANGED <<part, avars, rvars, bvars, kvars>>

TenantInit ==
    /\ part \in {"access", "retention", "billing", "cache", "forms"}
    /\ AccessInit /\ RetentionInit /\ BillingInit /\ CacheInit /\ FormInit
    \* The parts that do not run rest in one state, with nothing due.
    /\ part # "access" => row = "active"
    /\ part # "retention" => period = [s \in Shops |-> "unset"]
    /\ part # "billing" => exempt = TRUE

TenantNext == AccessStep \/ RetentionStep \/ BillingStep \/ CacheStep \/ FormsStep

\* The fairness of each part's own module, while it is the part that runs.
TenantFairness ==
    /\ SF_avars(part = "access" /\ Opening) /\ WF_avars(part = "access" /\ Working)
    /\ WF_rvars(part = "retention" /\ (StartSweep \/ Sweeps))
    /\ SF_bvars(part = "billing" /\ PageLoads) /\ WF_bvars(part = "billing" /\ Reconciling)
    /\ WF_bvars(part = "billing" /\ HourPasses)

TenantSpec == TenantInit /\ [][TenantNext]_tvars /\ TenantFairness

\* Every part's variables have the types its module declares.
TenantTypeOK == AccessTypeOK /\ RetentionTypeOK /\ BillingTypeOK /\ CacheTypeOK /\ FormTypeOK
=============================================================================
