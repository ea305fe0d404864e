------------------------------ MODULE Forwarding ------------------------------
(***************************************************************************)
(* The older outbox, forwarding_dlq (internal/service/forwarding_service.go), *)
(* which ingestion uses when it has no delivery service.  A webhook is     *)
(* stored as a record and sent once by a task of the worker pool; a record *)
(* can be retried by hand, by several callers at once, whatever its state, *)
(* and an endpoint's records can be purged.  One endpoint.                 *)
(*                                                                         *)
(* Nothing takes a record that waits: ClaimPendingOutboxJobs has no        *)
(* caller, so PROCESSING is never stored.                                  *)
(***************************************************************************)
EXTENDS Naturals

CONSTANTS
    Webhooks,   \* webhooks that ingestion forwards, and so records
    Retriers,   \* calls of RetryDLQRecord
    Retries,    \* values an administrator may give for the maximum of retries
    Upstream    \* whether the endpoint has an upstream URL of its own

ASSUME ForwardingAssumption == Retries \subseteq Nat /\ Upstream \in BOOLEAN

DefaultRetries == 3

VARIABLES
    fwdconfig,    \* the forwarding configuration, if one is stored
    record,       \* the record of each webhook
    request,      \* the processing status of its captured request
    task,         \* where the task that sends it is
    retry,        \* where each retry is
    acknowledged, \* webhooks the upstream has acknowledged
    astray        \* webhooks whose answer, write or task was lost, or that were retried

forwardingVars == <<fwdconfig, record, request, task, retry, acknowledged, astray>>

Outcomes == {"acknowledged", "rejected", "unanswered"}
Absent == [status |-> "absent", attempts |-> 0, max |-> 0]
NoRetry == [step |-> "new", job |-> "none", outcome |-> "none"]

Config == [stored : BOOLEAN, enabled : BOOLEAN, target : BOOLEAN, max : Nat]
Record == [status : {"absent", "PENDING", "SENT", "RETRY_WAIT", "DLQ"}, attempts : Nat, max : Nat]
Statuses == {"new", "RECEIVED", "FORWARDED", "DLQ_FAILED"}
TaskPlaces == {"none", "queued", "over", "recorded SENT", "recorded DLQ"} \union Outcomes
Retry == [step : {"new", "loaded", "sent", "recorded", "over"},
          job : Webhooks \union {"none"}, outcome : Outcomes \union {"none"}]

ForwardingTypeOK ==
    /\ fwdconfig \in Config
    /\ record \in [Webhooks -> Record]
    /\ request \in [Webhooks -> Statuses]
    /\ task \in [Webhooks -> TaskPlaces]
    /\ retry \in [Retriers -> Retry]
    /\ acknowledged \subseteq Webhooks /\ astray \subseteq Webhooks

ForwardingInit ==
    /\ fwdconfig = [stored |-> FALSE, enabled |-> FALSE, target |-> FALSE, max |-> 0]
    /\ record = [j \in Webhooks |-> Absent]
    /\ request = [j \in Webhooks |-> "new"]
    /\ task = [j \in Webhooks |-> "none"]
    /\ retry = [r \in Retriers |-> NoRetry]
    /\ acknowledged = {} /\ astray = {}

-----------------------------------------------------------------------------
(* A maximum that is not positive becomes the default.                     *)
UpsertForwardingConfig(c) == fwdconfig' = [c EXCEPT !.max = IF @ = 0 THEN DefaultRetries ELSE @]

SaveConfig ==
    /\ \E c \in [stored : {TRUE}, enabled : BOOLEAN, target : BOOLEAN, max : Retries] :
          UpsertForwardingConfig(c)
    /\ UNCHANGED <<record, request, task, retry, acknowledged, astray>>

Configured == fwdconfig.stored /\ fwdconfig.enabled /\ fwdconfig.target

CreateOutboxJob(j) ==
    record' = [record EXCEPT ![j] =
        [status |-> "PENDING", attempts |-> 0,
         max |-> IF Configured THEN fwdconfig.max ELSE DefaultRetries]]

(* Without a target, or when the record cannot be stored, nothing is left; *)
(* when the pool does not take the task the record stays.                  *)
ForwardCleanWebhook(j) ==
    /\ request[j] = "new" /\ request' = [request EXCEPT ![j] = "RECEIVED"]
    /\ \/ UNCHANGED <<record, task, astray>>
       \/ /\ Configured \/ Upstream
          /\ CreateOutboxJob(j)
          /\ \/ task' = [task EXCEPT ![j] = "queued"] /\ UNCHANGED astray
             \/ UNCHANGED task /\ astray' = astray \union {j}
    /\ UNCHANGED <<fwdconfig, retry, acknowledged>>

-----------------------------------------------------------------------------
(* One send: success is an answer in the 200s.  A send without an answer   *)
(* may have reached the upstream.                                          *)
ForwardRequest(j, outcome) ==
    \/ /\ outcome = "acknowledged"
       /\ acknowledged' = acknowledged \union {j} /\ UNCHANGED astray
    \/ outcome = "rejected" /\ UNCHANGED <<acknowledged, astray>>
    \/ outcome = "unanswered" /\ UNCHANGED <<acknowledged, astray>>
    \/ /\ outcome = "unanswered"
       /\ acknowledged' = acknowledged \union {j} /\ astray' = astray \union {j}

(* MUTANT: an answer is a success.                                         *)
SucceededIfAnswered(outcome) == outcome # "unanswered"

Succeeded(outcome) == outcome = "acknowledged"

Exists(j) == record[j].status # "absent"

(* UPDATE ... WHERE id: no effect on a record that was purged.             *)
CompleteOutboxJob(j) ==
    record' = IF Exists(j) THEN [record EXCEPT ![j].status = "SENT"] ELSE record

FailOutboxJob(j, status) ==
    record' = IF Exists(j)
              THEN [record EXCEPT ![j].status = status, ![j].attempts = @ + 1] ELSE record

(* A write that fails is not looked at.                                    *)
OrLost(j, write) ==
    \/ write /\ UNCHANGED astray
    \/ UNCHANGED record /\ astray' = astray \union {j}

SendTask(j) ==
    /\ task[j] = "queued"
    /\ \E outcome \in Outcomes :
          ForwardRequest(j, outcome) /\ task' = [task EXCEPT ![j] = outcome]
    /\ UNCHANGED <<fwdconfig, record, request, retry>>

(* The task works on the copy of the record it was submitted with: this is *)
(* its first attempt, whatever retries have done meanwhile.                *)
executeOutboxJob(j) ==
    /\ task[j] \in Outcomes
    /\ \/ /\ Succeeded(task[j])
          /\ OrLost(j, CompleteOutboxJob(j))
          /\ task' = [task EXCEPT ![j] = "recorded SENT"]
       \/ /\ ~Succeeded(task[j]) /\ 1 >= record[j].max
          /\ OrLost(j, FailOutboxJob(j, "DLQ"))
          /\ task' = [task EXCEPT ![j] = "recorded DLQ"]
       \/ /\ ~Succeeded(task[j]) /\ 1 < record[j].max
          /\ OrLost(j, FailOutboxJob(j, "RETRY_WAIT"))
          /\ task' = [task EXCEPT ![j] = "over"]
    /\ UNCHANGED <<fwdconfig, request, retry, acknowledged>>

UpdateRequestProcessingStatus(j, status) == request' = [request EXCEPT ![j] = status]

TaskTellsRequest(j) ==
    /\ \/ /\ task[j] = "recorded SENT"
          /\ UpdateRequestProcessingStatus(j, "FORWARDED") \/ UNCHANGED request
       \/ /\ task[j] = "recorded DLQ"
          /\ UpdateRequestProcessingStatus(j, "DLQ_FAILED") \/ UNCHANGED request
    /\ task' = [task EXCEPT ![j] = "over"]
    /\ UNCHANGED <<fwdconfig, record, retry, acknowledged, astray>>

-----------------------------------------------------------------------------
(* RetryDLQRecord: no lease, and no look at the record's status.           *)
LoadDLQRecord(r) ==
    /\ retry[r].step = "new"
    /\ \E j \in Webhooks :
          /\ Exists(j)
          /\ retry' = [retry EXCEPT ![r] = [step |-> "loaded", job |-> j, outcome |-> "none"]]
          /\ astray' = astray \union {j}
    /\ UNCHANGED <<fwdconfig, record, request, task, acknowledged>>

SendRetry(r) ==
    /\ retry[r].step = "loaded"
    /\ \E outcome \in Outcomes :
          /\ ForwardRequest(retry[r].job, outcome)
          /\ retry' = [retry EXCEPT ![r].step = "sent", ![r].outcome = outcome]
    /\ UNCHANGED <<fwdconfig, record, request, task>>

RetryDLQRecord(r) ==
    LET j == retry[r].job IN
    /\ retry[r].step = "sent"
    /\ \/ /\ Succeeded(retry[r].outcome)
          /\ OrLost(j, CompleteOutboxJob(j))
          /\ retry' = [retry EXCEPT ![r].step = "recorded"]
       \/ /\ ~Succeeded(retry[r].outcome)
          /\ OrLost(j, FailOutboxJob(j, "DLQ"))
          /\ retry' = [retry EXCEPT ![r].step = "over"]
    /\ UNCHANGED <<fwdconfig, request, task, acknowledged>>

RetryTellsRequest(r) ==
    /\ retry[r].step = "recorded" /\ retry' = [retry EXCEPT ![r].step = "over"]
    /\ UpdateRequestProcessingStatus(retry[r].job, "FORWARDED") \/ UNCHANGED request
    /\ UNCHANGED <<fwdconfig, record, task, acknowledged, astray>>

(* DeleteDLQRecordsByEndpoint; a task that runs keeps its copy's maximum.  *)
PurgeDLQ ==
    /\ record' = [j \in Webhooks |-> [Absent EXCEPT !.max = record[j].max]]
    /\ UNCHANGED <<fwdconfig, request, task, retry, acknowledged, astray>>

-----------------------------------------------------------------------------
(* The process stops, and starts again with RecoverStaleOutboxJobs, which  *)
(* looks for PROCESSING.                                                   *)
RecoverStaleOutboxJobs ==
    record' = [j \in Webhooks |-> IF record[j].status = "PROCESSING"
                                  THEN [record[j] EXCEPT !.status = "RETRY_WAIT"] ELSE record[j]]

ForwarderRestarts ==
    /\ RecoverStaleOutboxJobs
    /\ astray' = astray \union {j \in Webhooks : task[j] \notin {"none", "over"}}
    /\ task' = [j \in Webhooks |-> IF task[j] = "none" THEN "none" ELSE "over"]
    /\ retry' = [r \in Retriers |-> IF retry[r].step = "new" THEN NoRetry
                                    ELSE [NoRetry EXCEPT !.step = "over"]]
    /\ UNCHANGED <<fwdconfig, request, acknowledged>>

ForwardingNext ==
    \/ SaveConfig \/ PurgeDLQ \/ ForwarderRestarts
    \/ \E j \in Webhooks :
          ForwardCleanWebhook(j) \/ SendTask(j) \/ executeOutboxJob(j) \/ TaskTellsRequest(j)
    \/ \E r \in Retriers :
          LoadDLQRecord(r) \/ SendRetry(r) \/ RetryDLQRecord(r) \/ RetryTellsRequest(r)

ForwardingSpec == ForwardingInit /\ [][ForwardingNext]_forwardingVars

-----------------------------------------------------------------------------
(* A record is SENT, and its request FORWARDED, only if the upstream       *)
(* acknowledged the webhook, whatever retries, purges and restarts run     *)
(* beside the task; and a webhook that the upstream acknowledged and whose *)
(* task is over is told so by its record, unless an answer, a write or the *)
(* task was lost, it was retried by hand, or the record was purged.        *)
LegacyHonest ==
    \A j \in Webhooks :
        /\ record[j].status = "SENT" \/ request[j] = "FORWARDED" => j \in acknowledged
        /\ j \in acknowledged /\ task[j] = "over" /\ j \notin astray =>
              record[j].status \in {"SENT", "absent"}
=============================================================================
