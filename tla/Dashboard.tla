------------------------------ MODULE Dashboard ------------------------------
(***************************************************************************)
(* What runs behind the dashboard: accounts, the rows of an organization,  *)
(* the contracts of an endpoint and the explanations of a language model.  *)
(* The four share no state, so no behaviour of one depends on where the    *)
(* others are: a behaviour is one of them alone, and an initial state says *)
(* which.                                                                  *)
(***************************************************************************)
EXTENDS Accounts, TenantApi, SchemaBaselines, AiPrivacy

VARIABLE part

dashboardVars == <<part, accountsVars, tenantVars, baselinesVars, aiVars>>

DashboardInit ==
    /\ part \in {"accounts", "tenant", "baselines", "ai"}
    /\ AccountsInit /\ TenantInit /\ BaselinesInit /\ AiInit

DashboardNext ==
    /\ UNCHANGED part
    /\ \/ part = "accounts" /\ AccountsNext /\ UNCHANGED <<tenantVars, baselinesVars, aiVars>>
       \/ part = "tenant" /\ TenantNext /\ UNCHANGED <<accountsVars, baselinesVars, aiVars>>
       \/ part = "baselines" /\ BaselinesNext /\ UNCHANGED <<accountsVars, tenantVars, aiVars>>
       \/ part = "ai" /\ AiNext /\ UNCHANGED <<accountsVars, tenantVars, baselinesVars>>

DashboardSpec == DashboardInit /\ [][DashboardNext]_dashboardVars

(* Every table row and every handler's local state has its type.           *)
DashboardTypeOK == AccountsTypeOK /\ TenantTypeOK /\ BaselinesTypeOK /\ AiTypeOK
=============================================================================
