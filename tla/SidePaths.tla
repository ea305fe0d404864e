------------------------------ MODULE SidePaths ------------------------------
(***************************************************************************)
(* What runs beside ingestion and delivery: the alerts, the rate limiter,  *)
(* the older outbox and the replay lab.  They share no state, so no        *)
(* behaviour of one depends on where the others are: a behaviour is one of *)
(* them alone, and an initial state says which.                            *)
(***************************************************************************)
EXTENDS Alerts, RateLimit, Forwarding, ReplayLab

VARIABLE part

sideVars == <<part, alertsVars, limitVars, forwardingVars, labVars>>

SideInit ==
    /\ part \in {"alerts", "limit", "forwarding", "lab"}
    /\ AlertsInit /\ LimitInit /\ ForwardingInit /\ LabInit
    /\ part # "limit" => limit = Min(Limits)  \* the others do not read it

SideNext ==
    /\ UNCHANGED part
    /\ \/ part = "alerts" /\ AlertsNext /\ UNCHANGED <<limitVars, forwardingVars, labVars>>
       \/ part = "limit" /\ LimitNext /\ UNCHANGED <<alertsVars, forwardingVars, labVars>>
       \/ part = "forwarding" /\ ForwardingNext /\ UNCHANGED <<alertsVars, limitVars, labVars>>
       \/ part = "lab" /\ LabNext /\ UNCHANGED <<alertsVars, limitVars, forwardingVars>>

SideSpec == SideInit /\ [][SideNext]_sideVars

(* Every row, counter and task of the side paths has its type.             *)
SideTypeOK == AlertsTypeOK /\ LimitTypeOK /\ ForwardingTypeOK /\ LabTypeOK

(* Failures and findings are told, each once: none is lost on the way into *)
(* or out of the digest, and no channel hears twice what it accepted.      *)
AlertsToldOnce == DigestConserves /\ FindingsToldOnce

(* The rows of the older outbox and of the replay lab tell what happened.  *)
OutcomesTrue == LegacyHonest /\ LabHonest
=============================================================================
