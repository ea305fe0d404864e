--------------------------- MODULE SidePathsProofs ---------------------------
(***************************************************************************)
(* Proofs about what runs beside ingestion and delivery, for any number of *)
(* webhooks, retries, runs, captured requests, endpoints, failures,        *)
(* channels and calls: the older outbox, the replay lab, the findings and  *)
(* the digest, the rate limiter, and last their composition.               *)
(***************************************************************************)
EXTENDS SidePaths, FiniteSetTheorems, TLAPS

-----------------------------------------------------------------------------
(* The older outbox. *)

(* Whoever says that a webhook went through knows it from the upstream.    *)
ToldByUpstream ==
    /\ \A j \in Webhooks :
          \/ record[j].status = "SENT" \/ request[j] = "FORWARDED"
          \/ task[j] \in {"acknowledged", "recorded SENT"}
          => j \in acknowledged
    /\ \A r \in Retriers :
          retry[r].step = "recorded" \/ retry[r].outcome = "acknowledged" =>
              retry[r].job \in acknowledged

(* A webhook that nothing happened to but its own task. *)
Undisturbed(j) ==
    /\ task[j] \in {"none", "queued", "rejected", "unanswered", "recorded DLQ"} =>
          j \notin acknowledged
    /\ task[j] = "recorded SENT" \/ (task[j] = "over" /\ j \in acknowledged) =>
          record[j].status \in {"SENT", "absent"}

NewAreBlank ==
    \A j \in Webhooks : request[j] = "new" => record[j].status = "absent" /\ task[j] = "none"

RetriesAreStray ==
    \A r \in Retriers :
        retry[r].step \in {"loaded", "sent", "recorded"} => retry[r].job \in astray

ForwardingInv ==
    /\ ForwardingTypeOK
    /\ ToldByUpstream
    /\ NewAreBlank
    /\ \A j \in Webhooks \ astray : Undisturbed(j)
    /\ RetriesAreStray

LEMMA ForwardingInvInit == ForwardingInit => ForwardingInv
BY DEF ForwardingInit, ForwardingInv, ForwardingTypeOK, ToldByUpstream, Undisturbed,
       NewAreBlank, RetriesAreStray, Outcomes, Absent, NoRetry, Config, Record, Statuses, TaskPlaces, Retry

(* The two statements that write an outcome, done or lost.                 *)
LEMMA OutcomeType ==
    ASSUME ForwardingTypeOK, NEW j \in Webhooks,
           \/ OrLost(j, CompleteOutboxJob(j))
           \/ OrLost(j, FailOutboxJob(j, "DLQ"))
           \/ OrLost(j, FailOutboxJob(j, "RETRY_WAIT"))
    PROVE record' \in [Webhooks -> Record] /\ astray' \subseteq Webhooks
<1>1. CASE CompleteOutboxJob(j) /\ UNCHANGED astray
  BY <1>1 DEF CompleteOutboxJob, ForwardingTypeOK, Record
<1>2. ASSUME NEW status \in {"DLQ", "RETRY_WAIT"}, FailOutboxJob(j, status), UNCHANGED astray
      PROVE record' \in [Webhooks -> Record] /\ astray' \subseteq Webhooks
  <2>0. record[j] \in Record /\ record[j].attempts + 1 \in Nat
    BY DEF ForwardingTypeOK, Record
  <2>1. [record[j] EXCEPT !.status = status, !.attempts = @ + 1] \in Record
    BY <2>0 DEF Record
  <2>2. QED
    BY <1>2, <2>1 DEF FailOutboxJob, ForwardingTypeOK
<1>3. CASE UNCHANGED record /\ astray' = astray \union {j}
  BY <1>3 DEF ForwardingTypeOK
<1>4. QED
  BY <1>1, <1>2, <1>3 DEF OrLost

(* What they leave of the records and of who is astray. *)
OnlyTouches(j) ==
    /\ \A k \in Webhooks : k # j => record'[k] = record[k]
    /\ \A k \in Webhooks : k # j => (k \in astray' <=> k \in astray)
    /\ astray \subseteq astray'
    /\ record[j].status = "absent" => record'[j].status = "absent"

LEMMA CompletedEffect ==
    ASSUME ForwardingTypeOK, NEW j \in Webhooks, OrLost(j, CompleteOutboxJob(j))
    PROVE /\ OnlyTouches(j)
          /\ j \in astray' \/ record'[j].status \in {"SENT", "absent"}
<1>0. record \in [Webhooks -> Record]
  BY DEF ForwardingTypeOK
<1>1. CASE CompleteOutboxJob(j) /\ UNCHANGED astray /\ Exists(j)
  <2>1. record' = [record EXCEPT ![j] = [record[j] EXCEPT !.status = "SENT"]]
    BY <1>1 DEF CompleteOutboxJob
  <2>2. record'[j].status = "SENT" /\ \A k \in Webhooks : k # j => record'[k] = record[k]
    BY <2>1, <1>0 DEF Record
  <2>3. QED
    BY <2>2, <1>1 DEF OnlyTouches, Exists
<1>2. CASE CompleteOutboxJob(j) /\ UNCHANGED astray /\ ~Exists(j)
  BY <1>2 DEF CompleteOutboxJob, OnlyTouches, Exists
<1>3. CASE UNCHANGED record /\ astray' = astray \union {j}
  BY <1>3 DEF OnlyTouches
<1>4. QED
  BY <1>1, <1>2, <1>3 DEF OrLost

LEMMA FailedEffect ==
    ASSUME ForwardingTypeOK, NEW j \in Webhooks, NEW status \in {"DLQ", "RETRY_WAIT"},
           OrLost(j, FailOutboxJob(j, status))
    PROVE /\ OnlyTouches(j)
          /\ record'[j].status = "SENT" => record[j].status = "SENT"
<1>0. record \in [Webhooks -> Record]
  BY DEF ForwardingTypeOK
<1>1. CASE FailOutboxJob(j, status) /\ UNCHANGED astray /\ Exists(j)
  <2>1. record' = [record EXCEPT ![j] =
                      [record[j] EXCEPT !.status = status, !.attempts = @ + 1]]
    BY <1>1 DEF FailOutboxJob
  <2>2. record'[j].status = status /\ \A k \in Webhooks : k # j => record'[k] = record[k]
    BY <2>1, <1>0 DEF Record
  <2>3. QED
    BY <2>2, <1>1 DEF OnlyTouches, Exists
<1>2. CASE FailOutboxJob(j, status) /\ UNCHANGED astray /\ ~Exists(j)
  BY <1>2 DEF FailOutboxJob, OnlyTouches, Exists
<1>3. CASE UNCHANGED record /\ astray' = astray \union {j}
  BY <1>3 DEF OnlyTouches
<1>4. QED
  BY <1>1, <1>2, <1>3 DEF OrLost

LEMMA ForwardingTypeStep ==
    ForwardingInv /\ [ForwardingNext]_forwardingVars => ForwardingTypeOK'
<1> SUFFICES ASSUME ForwardingInv, [ForwardingNext]_forwardingVars PROVE ForwardingTypeOK'
  OBVIOUS
<1>0. ForwardingTypeOK /\ RetriesAreStray
  BY DEF ForwardingInv
<1> USE <1>0 DEF ForwardingTypeOK
<1>1. CASE SaveConfig
  <2>1. fwdconfig' \in Config
    <3>1. PICK c \in [stored : {TRUE}, enabled : BOOLEAN, target : BOOLEAN, max : Retries] :
             fwdconfig' = [c EXCEPT !.max = IF @ = 0 THEN DefaultRetries ELSE @]
      BY <1>1 DEF SaveConfig, UpsertForwardingConfig
    <3>2. c \in Config
      BY ForwardingAssumption DEF Config, ForwardingAssumption
    <3>3. QED
      BY <3>1, <3>2 DEF Config, DefaultRetries
  <2>2. QED
    BY <1>1, <2>1 DEF SaveConfig
<1>2. CASE PurgeDLQ
  BY <1>2 DEF PurgeDLQ, Absent, Record
<1>3. CASE ForwarderRestarts
  BY <1>3 DEF ForwarderRestarts, RecoverStaleOutboxJobs, NoRetry, Record, Retry, TaskPlaces
<1>4. ASSUME NEW j \in Webhooks, ForwardCleanWebhook(j) PROVE ForwardingTypeOK'
  <2>1. CreateOutboxJob(j) => record' \in [Webhooks -> Record]
    BY DEF CreateOutboxJob, DefaultRetries, Record, Config
  <2>2. QED
    BY <1>4, <2>1 DEF ForwardCleanWebhook, TaskPlaces, Statuses
<1>5. ASSUME NEW j \in Webhooks, SendTask(j) PROVE ForwardingTypeOK'
  BY <1>5 DEF SendTask, ForwardRequest, TaskPlaces
<1>6. ASSUME NEW j \in Webhooks, executeOutboxJob(j) PROVE ForwardingTypeOK'
  <2>1. record' \in [Webhooks -> Record] /\ astray' \subseteq Webhooks
    BY <1>6, OutcomeType DEF executeOutboxJob
  <2>2. QED
    BY <1>6, <2>1 DEF executeOutboxJob, TaskPlaces
<1>7. ASSUME NEW j \in Webhooks, TaskTellsRequest(j) PROVE ForwardingTypeOK'
  BY <1>7 DEF TaskTellsRequest, UpdateRequestProcessingStatus, Statuses, TaskPlaces
<1>8. ASSUME NEW r \in Retriers, LoadDLQRecord(r) PROVE ForwardingTypeOK'
  <2>1. PICK j \in Webhooks :
           /\ retry' = [retry EXCEPT ![r] = [step |-> "loaded", job |-> j, outcome |-> "none"]]
           /\ astray' = astray \union {j}
    BY <1>8 DEF LoadDLQRecord
  <2>2. [step |-> "loaded", job |-> j, outcome |-> "none"] \in Retry
    BY DEF Retry
  <2>3. retry' \in [Retriers -> Retry]
    BY <2>1, <2>2
  <2>4. QED
    BY <1>8, <2>1, <2>3 DEF LoadDLQRecord
<1>9. ASSUME NEW r \in Retriers, SendRetry(r) PROVE ForwardingTypeOK'
  <2>1. PICK outcome \in Outcomes :
           /\ ForwardRequest(retry[r].job, outcome)
           /\ retry' = [retry EXCEPT ![r].step = "sent", ![r].outcome = outcome]
    BY <1>9 DEF SendRetry
  <2>2. retry' \in [Retriers -> Retry]
    BY <2>1 DEF Retry
  <2>3. retry[r].job \in Webhooks
    BY <1>9 DEF SendRetry, RetriesAreStray
  <2>4. acknowledged' \subseteq Webhooks /\ astray' \subseteq Webhooks
    BY <2>1, <2>3 DEF ForwardRequest
  <2>5. QED
    BY <1>9, <2>2, <2>4 DEF SendRetry
<1>10. ASSUME NEW r \in Retriers, RetryDLQRecord(r) PROVE ForwardingTypeOK'
  <2>1. retry[r].job \in Webhooks
    BY <1>10 DEF RetryDLQRecord, RetriesAreStray
  <2>2. record' \in [Webhooks -> Record] /\ astray' \subseteq Webhooks
    BY <1>10, <2>1, OutcomeType DEF RetryDLQRecord
  <2>3. retry' \in [Retriers -> Retry]
    BY <1>10 DEF RetryDLQRecord, Retry
  <2>4. QED
    BY <1>10, <2>2, <2>3 DEF RetryDLQRecord
<1>11. ASSUME NEW r \in Retriers, RetryTellsRequest(r) PROVE ForwardingTypeOK'
  BY <1>11 DEF RetryTellsRequest, UpdateRequestProcessingStatus, Statuses, Retry, RetriesAreStray
<1>12. CASE UNCHANGED forwardingVars
  BY <1>12 DEF forwardingVars
<1>13. QED
  BY <1>1, <1>2, <1>3, <1>4, <1>5, <1>6, <1>7, <1>8, <1>9, <1>10, <1>11, <1>12 DEF ForwardingNext

(* What a step does to one webhook. *)
LEMMA ForwardingInvStep ==
    ForwardingInv /\ [ForwardingNext]_forwardingVars => ForwardingInv'
<1> SUFFICES ASSUME ForwardingInv, [ForwardingNext]_forwardingVars PROVE ForwardingInv'
  OBVIOUS
<1>0. ForwardingTypeOK' /\ ForwardingTypeOK
  BY ForwardingTypeStep DEF ForwardingInv
<1> USE <1>0 DEF ForwardingInv, ToldByUpstream, NewAreBlank, Undisturbed, RetriesAreStray
<1>1. CASE SaveConfig
  BY <1>1 DEF SaveConfig
<1>2. CASE PurgeDLQ
  BY <1>2 DEF PurgeDLQ, Absent
<1>3. CASE ForwarderRestarts
  BY <1>3 DEF ForwarderRestarts, RecoverStaleOutboxJobs, NoRetry, ForwardingTypeOK, Record
<1>4. ASSUME NEW j \in Webhooks, ForwardCleanWebhook(j) PROVE ForwardingInv'
  <2>a. /\ request[j] = "new" /\ request' = [request EXCEPT ![j] = "RECEIVED"]
        /\ UNCHANGED <<retry, acknowledged>>
    BY <1>4 DEF ForwardCleanWebhook
  <2>b. /\ record[j].status = "absent" /\ task[j] = "none"
        /\ record \in [Webhooks -> Record] /\ task \in [Webhooks -> TaskPlaces]
    BY <2>a DEF ForwardingTypeOK
  <2>c. \/ UNCHANGED record
        \/ \E m : record' = [record EXCEPT ![j] = [status |-> "PENDING", attempts |-> 0, max |-> m]]
    BY <1>4 DEF ForwardCleanWebhook, CreateOutboxJob
  <2>d. /\ \A k \in Webhooks : k # j => record'[k] = record[k]
        /\ record'[j].status \in {"absent", "PENDING"}
    <3>1. CASE UNCHANGED record
      BY <3>1, <2>b
    <3>2. ASSUME NEW m, record' = [record EXCEPT ![j] =
                            [status |-> "PENDING", attempts |-> 0, max |-> m]]
          PROVE /\ \A k \in Webhooks : k # j => record'[k] = record[k]
                /\ record'[j].status = "PENDING"
      BY <3>2, <2>b
    <3>3. QED
      BY <2>c, <3>1, <3>2
  <2>e. UNCHANGED task \/ task' = [task EXCEPT ![j] = "queued"]
    BY <1>4 DEF ForwardCleanWebhook
  <2>f. (\A k \in Webhooks : k # j => task'[k] = task[k]) /\ task'[j] \in {"none", "queued"}
    BY <2>b, <2>e
  <2>g. UNCHANGED astray \/ astray' = astray \union {j}
    BY <1>4 DEF ForwardCleanWebhook
  <2>1. /\ request[j] = "new" /\ request' = [request EXCEPT ![j] = "RECEIVED"]
        /\ UNCHANGED <<retry, acknowledged>>
        /\ \A k \in Webhooks : k # j => record'[k] = record[k] /\ task'[k] = task[k]
        /\ \A k \in Webhooks : k # j => (k \in astray' <=> k \in astray)
        /\ record'[j].status \in {"absent", "PENDING"} /\ task'[j] \in {"none", "queued"}
        /\ astray \subseteq astray'
    BY <2>a, <2>d, <2>f, <2>g
  <2>2. ToldByUpstream'
    BY <2>1 DEF ForwardingTypeOK
  <2>3. NewAreBlank'
    BY <2>1 DEF ForwardingTypeOK
  <2>4. \A k \in Webhooks \ astray' : Undisturbed(k)'
    BY <2>1 DEF ForwardingTypeOK
  <2>5. RetriesAreStray'
    BY <2>1 DEF ForwardingTypeOK
  <2>6. QED
    BY <2>2, <2>3, <2>4, <2>5
<1>5. ASSUME NEW j \in Webhooks, SendTask(j) PROVE ForwardingInv'
  BY <1>5 DEF SendTask, ForwardRequest, ForwardingTypeOK
<1>6. ASSUME NEW j \in Webhooks, executeOutboxJob(j) PROVE ForwardingInv'
  <2>a. task[j] \in Outcomes /\ UNCHANGED <<request, retry, acknowledged>>
    BY <1>6 DEF executeOutboxJob
  <2>b. PICK p \in {"recorded SENT", "recorded DLQ", "over"} :
           /\ task' = [task EXCEPT ![j] = p]
           /\ \/ /\ p = "recorded SENT" /\ Succeeded(task[j])
                 /\ OrLost(j, CompleteOutboxJob(j))
              \/ /\ p # "recorded SENT" /\ ~Succeeded(task[j])
                 /\ \E status \in {"DLQ", "RETRY_WAIT"} : OrLost(j, FailOutboxJob(j, status))
    BY <1>6 DEF executeOutboxJob
  <2>c. /\ \A k \in Webhooks : k # j => task'[k] = task[k]
        /\ task'[j] = p
    BY <2>b DEF ForwardingTypeOK
  <2>d. OnlyTouches(j)
    BY <2>b, CompletedEffect, FailedEffect
  <2>1. /\ \A k \in Webhooks : k # j => record'[k] = record[k] /\ task'[k] = task[k]
        /\ \A k \in Webhooks : k # j => (k \in astray' <=> k \in astray)
        /\ astray \subseteq astray'
        /\ record[j].status = "absent" => record'[j].status = "absent"
        /\ UNCHANGED <<request, retry, acknowledged>>
        /\ task[j] \in Outcomes
    BY <2>a, <2>c, <2>d DEF OnlyTouches
  <2>2. \/ /\ task[j] = "acknowledged" /\ task'[j] = "recorded SENT"
           /\ j \in astray' \/ record'[j].status \in {"SENT", "absent"}
        \/ /\ task[j] # "acknowledged" /\ task'[j] \in {"recorded DLQ", "over"}
           /\ record'[j].status = "SENT" => record[j].status = "SENT"
    BY <2>b, <2>c, CompletedEffect, FailedEffect DEF Succeeded
  <2>3. ToldByUpstream'
    BY <2>1, <2>2 DEF ForwardingTypeOK, Outcomes
  <2>4. NewAreBlank'
    BY <2>1, <2>2 DEF ForwardingTypeOK, Outcomes
  <2>5. \A k \in Webhooks \ astray' : Undisturbed(k)'
    BY <2>1, <2>2 DEF ForwardingTypeOK, Outcomes
  <2>6. RetriesAreStray'
    BY <2>1, <2>2 DEF ForwardingTypeOK, Outcomes
  <2>7. QED
    BY <2>3, <2>4, <2>5, <2>6
<1>7. ASSUME NEW j \in Webhooks, TaskTellsRequest(j) PROVE ForwardingInv'
  BY <1>7 DEF TaskTellsRequest, UpdateRequestProcessingStatus, ForwardingTypeOK
<1>8. ASSUME NEW r \in Retriers, LoadDLQRecord(r) PROVE ForwardingInv'
  <2>1. PICK j \in Webhooks :
           /\ retry' = [retry EXCEPT ![r] = [step |-> "loaded", job |-> j, outcome |-> "none"]]
           /\ astray' = astray \union {j}
    BY <1>8 DEF LoadDLQRecord
  <2>2. UNCHANGED <<record, request, task, acknowledged>>
    BY <1>8 DEF LoadDLQRecord
  <2>3. ToldByUpstream'
    BY <2>1, <2>2 DEF ForwardingTypeOK
  <2>4. NewAreBlank'
    BY <2>1, <2>2 DEF ForwardingTypeOK
  <2>5. \A k \in Webhooks \ astray' : Undisturbed(k)'
    BY <2>1, <2>2 DEF ForwardingTypeOK
  <2>6. RetriesAreStray'
    BY <2>1, <2>2 DEF ForwardingTypeOK
  <2>7. QED
    BY <2>3, <2>4, <2>5, <2>6
<1>9. ASSUME NEW r \in Retriers, SendRetry(r) PROVE ForwardingInv'
  <2>1. PICK outcome \in Outcomes :
           /\ ForwardRequest(retry[r].job, outcome)
           /\ retry' = [retry EXCEPT ![r].step = "sent", ![r].outcome = outcome]
    BY <1>9 DEF SendRetry
  <2>a. retry' = [retry EXCEPT ![r] = [retry[r] EXCEPT !.step = "sent", !.outcome = outcome]]
    BY <2>1
  <2>b. retry \in [Retriers -> Retry]
    BY DEF ForwardingTypeOK
  <2>c. /\ \A s \in Retriers : s # r => retry'[s] = retry[s]
        /\ retry'[r].step = "sent" /\ retry'[r].outcome = outcome /\ retry'[r].job = retry[r].job
    <3>1. retry'[r] = [retry[r] EXCEPT !.step = "sent", !.outcome = outcome]
      BY <2>a, <2>b
    <3>2. \A s \in Retriers : s # r => retry'[s] = retry[s]
      BY <2>a, <2>b
    <3>3. retry[r] \in Retry
      BY <2>b
    <3>4. QED
      BY <3>1, <3>2, <3>3 DEF Retry
  <2>2. /\ retry[r].job \in astray
        /\ UNCHANGED <<record, request, task>>
        /\ \A s \in Retriers : s # r => retry'[s] = retry[s]
        /\ retry'[r].step = "sent" /\ retry'[r].outcome = outcome /\ retry'[r].job = retry[r].job
    BY <1>9, <2>c DEF SendRetry
  <2>3. /\ astray' = astray
        /\ acknowledged \subseteq acknowledged'
        /\ \A k \in Webhooks \ astray : k \in acknowledged' => k \in acknowledged
        /\ outcome = "acknowledged" => retry[r].job \in acknowledged'
    BY <2>1, <2>2 DEF ForwardRequest
  <2>4. ToldByUpstream'
    BY <2>2, <2>3 DEF ForwardingTypeOK
  <2>5. NewAreBlank'
    BY <2>2, <2>3 DEF ForwardingTypeOK
  <2>6. \A k \in Webhooks \ astray' : Undisturbed(k)'
    BY <2>2, <2>3 DEF ForwardingTypeOK
  <2>7. RetriesAreStray'
    BY <2>2, <2>3 DEF ForwardingTypeOK
  <2>8. QED
    BY <2>4, <2>5, <2>6, <2>7
<1>10. ASSUME NEW r \in Retriers, RetryDLQRecord(r) PROVE ForwardingInv'
  <2> DEFINE j == retry[r].job
  <2>a. j \in astray /\ j \in Webhooks /\ UNCHANGED <<request, task, acknowledged>>
    BY <1>10 DEF RetryDLQRecord, ForwardingTypeOK
  <2>b. PICK step \in {"recorded", "over"} :
           /\ retry' = [retry EXCEPT ![r] = [retry[r] EXCEPT !.step = step]]
           /\ \/ step = "recorded" /\ Succeeded(retry[r].outcome) /\ OrLost(j, CompleteOutboxJob(j))
              \/ step = "over" /\ OrLost(j, FailOutboxJob(j, "DLQ"))
    BY <1>10 DEF RetryDLQRecord
  <2>c. retry \in [Retriers -> Retry]
    BY DEF ForwardingTypeOK
  <2>d. /\ \A s \in Retriers : s # r => retry'[s] = retry[s]
        /\ retry'[r].job = j /\ retry'[r].outcome = retry[r].outcome
        /\ retry'[r].step = step
    <3>1. retry'[r] = [retry[r] EXCEPT !.step = step]
      BY <2>b, <2>c
    <3>2. \A s \in Retriers : s # r => retry'[s] = retry[s]
      BY <2>b, <2>c
    <3>3. retry[r] \in Retry
      BY <2>c
    <3>4. QED
      BY <3>1, <3>2, <3>3 DEF Retry
  <2>e. OnlyTouches(j)
    BY <2>a, <2>b, CompletedEffect, FailedEffect
  <2>f. astray' = astray
    BY <2>a, <2>b DEF OrLost
  <2>1. /\ j \in astray /\ j \in Webhooks
        /\ UNCHANGED <<request, task, acknowledged>>
        /\ astray' = astray
        /\ \A s \in Retriers : s # r => retry'[s] = retry[s]
        /\ retry'[r].job = j /\ retry'[r].outcome = retry[r].outcome
        /\ retry'[r].step \in {"recorded", "over"}
        /\ retry'[r].step = "recorded" => retry[r].outcome = "acknowledged"
    BY <2>a, <2>b, <2>d, <2>f DEF Succeeded
  <2>2. /\ \A k \in Webhooks : k # j => record'[k] = record[k]
        /\ record[j].status = "absent" => record'[j].status = "absent"
        /\ record'[j].status = "SENT" => record[j].status = "SENT" \/ retry[r].outcome = "acknowledged"
    BY <2>a, <2>b, <2>e, FailedEffect DEF OnlyTouches, Succeeded
  <2>g. retry[r].outcome = "acknowledged" => j \in acknowledged
    BY <2>1
  <2> HIDE DEF j
  <2>h. \A k \in Webhooks : record'[k].status = "SENT" => record[k].status = "SENT" \/ k \in acknowledged
    BY <2>2, <2>g
  <2>i. \A s \in Retriers : retry'[s].step = "recorded" \/ retry'[s].outcome = "acknowledged"
                              => retry'[s].job \in acknowledged
    BY <2>1, <2>g
  <2>3. ToldByUpstream'
    BY <2>1, <2>h, <2>i
  <2>4. NewAreBlank'
    BY <2>1, <2>2 DEF ForwardingTypeOK
  <2>5. \A k \in Webhooks \ astray' : Undisturbed(k)'
    BY <2>1, <2>2 DEF ForwardingTypeOK
  <2>6. RetriesAreStray'
    BY <2>1, <2>2 DEF ForwardingTypeOK
  <2>7. QED
    BY <2>3, <2>4, <2>5, <2>6
<1>11. ASSUME NEW r \in Retriers, RetryTellsRequest(r) PROVE ForwardingInv'
  <2>a. retry' = [retry EXCEPT ![r] = [retry[r] EXCEPT !.step = "over"]]
    BY <1>11 DEF RetryTellsRequest
  <2>b. retry \in [Retriers -> Retry]
    BY DEF ForwardingTypeOK
  <2>c. /\ \A s \in Retriers : s # r => retry'[s] = retry[s]
        /\ retry'[r].job = retry[r].job /\ retry'[r].outcome = retry[r].outcome
        /\ retry'[r].step = "over"
    <3>1. retry'[r] = [retry[r] EXCEPT !.step = "over"]
      BY <2>a, <2>b
    <3>2. \A s \in Retriers : s # r => retry'[s] = retry[s]
      BY <2>a, <2>b
    <3>3. retry[r] \in Retry
      BY <2>b
    <3>4. QED
      BY <3>1, <3>2, <3>3 DEF Retry
  <2>1. /\ UNCHANGED <<record, task, acknowledged, astray>>
        /\ \A s \in Retriers : s # r => retry'[s] = retry[s]
        /\ retry[r].job \in acknowledged /\ retry[r].job \in Webhooks
        /\ retry'[r].job = retry[r].job /\ retry'[r].outcome = retry[r].outcome
        /\ retry'[r].step = "over"
    BY <1>11, <2>c DEF RetryTellsRequest, ForwardingTypeOK
  <2>2. \A k \in Webhooks : request'[k] = request[k]
                             \/ (k = retry[r].job /\ request'[k] = "FORWARDED")
    BY <1>11 DEF RetryTellsRequest, UpdateRequestProcessingStatus, ForwardingTypeOK
  <2>3. ToldByUpstream'
    BY <2>1, <2>2 DEF ForwardingTypeOK
  <2>4. NewAreBlank'
    BY <2>1, <2>2 DEF ForwardingTypeOK
  <2>5. \A k \in Webhooks \ astray' : Undisturbed(k)'
    BY <2>1, <2>2 DEF ForwardingTypeOK
  <2>6. RetriesAreStray'
    BY <2>1, <2>2 DEF ForwardingTypeOK
  <2>7. QED
    BY <2>3, <2>4, <2>5, <2>6
<1>12. CASE UNCHANGED forwardingVars
  BY <1>12 DEF forwardingVars
<1>13. QED
  BY <1>1, <1>2, <1>3, <1>4, <1>5, <1>6, <1>7, <1>8, <1>9, <1>10, <1>11, <1>12 DEF ForwardingNext

LEMMA ForwardingInvHolds == ForwardingSpec => []ForwardingInv
BY ForwardingInvInit, ForwardingInvStep, PTL DEF ForwardingSpec

(* Type correctness of the older outbox (forwarding_dlq).                  *)
THEOREM ForwardingTypes == ForwardingSpec => []ForwardingTypeOK
<1>1. ForwardingInv => ForwardingTypeOK
  BY DEF ForwardingInv
<1>2. QED
  BY <1>1, ForwardingInvHolds, PTL

(* No record is SENT and no request FORWARDED that the upstream did not    *)
(* acknowledge, whatever retries, purges and restarts run beside the task; *)
(* and what was acknowledged undisturbed is recorded.                      *)
THEOREM ForwardingHonest == ForwardingSpec => []LegacyHonest
<1>1. ForwardingInv => LegacyHonest
  BY DEF ForwardingInv, ToldByUpstream, Undisturbed, LegacyHonest
<1>2. QED
  BY <1>1, ForwardingInvHolds, PTL

-----------------------------------------------------------------------------
(* The replay lab. *)

Unused(l, i) == verdicts[l][i] = "none" /\ answers[l][i] = "unsent" /\ jobs[l][i] = "none"
AllJudged(l) == \A i \in Steps : verdicts[l][i] # "none"

(* What the rows of one step say.                                          *)
StepOK(l, i) ==
    /\ verdicts[l][i] = "PASSED" => answers[l][i] = "accepted"
    /\ verdicts[l][i] = "FAILED" => answers[l][i] # "accepted"
    /\ jobs[l][i] = "COMPLETED" => answers[l][i] \in {"accepted", "refused"}
    /\ jobs[l][i] = "FAILED" => answers[l][i] = "unanswered"
    /\ jobs[l][i] = "RUNNING" =>
          l \in cutoff \/ (i = onstep[l] /\ place[l] \in {"sending", "answered"})

(* Where the run is: the steps before this one are judged, none after it   *)
(* has begun.                                                              *)
PlaceOK(l) ==
    /\ place[l] = "new" => onstep[l] = 1 /\ \A i \in Steps : Unused(l, i)
    /\ place[l] \in {"step", "sending", "answered", "audit"} =>
          /\ onstep[l] <= LastStep(l)
          /\ \A i \in Steps : i < onstep[l] => verdicts[l][i] # "none"
          /\ \A i \in Steps : i > onstep[l] => Unused(l, i)
          /\ verdicts[l][onstep[l]] = "none"
    /\ place[l] = "step" => Unused(l, onstep[l])
    /\ place[l] \in {"sending", "answered"} => jobs[l][onstep[l]] = "RUNNING"
    /\ place[l] \in {"answered", "audit"} => answers[l][onstep[l]] # "unsent"
    /\ place[l] = "counted" => l \in Suites /\ AllJudged(l)

RunOK(l) ==
    /\ place[l] = "new" => runs[l].status = "none"
    /\ runs[l].status = "RUNNING" /\ place[l] = "over" => l \in cutoff
    /\ runs[l].status \notin {"none", "RUNNING"} =>
          /\ place[l] = "over" /\ AllJudged(l)
          /\ runs[l].passed = Judged(l, "PASSED") /\ runs[l].failed = Judged(l, "FAILED")
          /\ runs[l].status = "PASSED" <=> Judged(l, "FAILED") = 0
          /\ runs[l].status = "FAILED" <=> Judged(l, "FAILED") # 0 /\ Judged(l, "PASSED") = 0

LabOK(l) == (\A i \in Steps : StepOK(l, i)) /\ PlaceOK(l) /\ (l \in Suites => RunOK(l))

LabInv == LabTypeOK /\ \A l \in Labs : LabOK(l)

LEMMA LabInvInit == LabInit => LabInv
<1> SUFFICES ASSUME LabInit PROVE LabInv
  OBVIOUS
<1>0. Length \in Nat \ {0} /\ 1 \in Steps
  BY LabAssumption DEF Steps
<1>1. LabTypeOK
  BY <1>0 DEF LabInit, LabTypeOK, NoRun
<1>2. ASSUME NEW l \in Labs PROVE LabOK(l)
  BY <1>0 DEF LabInit, LabOK, StepOK, PlaceOK, RunOK, Unused, NoRun, Labs
<1>3. QED
  BY <1>1, <1>2 DEF LabInv

(* How many steps have a verdict: between none and all of them.            *)
LEMMA StepsFinite == IsFiniteSet(Steps) /\ Cardinality(Steps) = Length
<1>1. Length \in Nat
  BY LabAssumption
<1>2. QED
  BY <1>1, FS_Interval DEF Steps

LEMMA JudgedCount ==
    ASSUME NEW l, NEW v
    PROVE Judged(l, v) \in 0 .. Length
<1> DEFINE S == {i \in Steps : verdicts[l][i] = v}
<1>1. IsFiniteSet(S) /\ Cardinality(S) <= Length
  BY StepsFinite, FS_Subset
<1>2. Cardinality(S) \in Nat /\ Length \in Nat
  BY <1>1, FS_CardinalityType, LabAssumption
<1>3. QED
  BY <1>1, <1>2 DEF Judged

(* A step leaves every other run and replay alone.                         *)
Same(k) ==
    /\ place'[k] = place[k] /\ onstep'[k] = onstep[k] /\ jobs'[k] = jobs[k]
    /\ answers'[k] = answers[k] /\ verdicts'[k] = verdicts[k]
    /\ (k \in Suites => runs'[k] = runs[k])
    /\ (k \in cutoff => k \in cutoff')

LEMMA SameKeeps ==
    ASSUME NEW k \in Labs, LabOK(k), Same(k)
    PROVE LabOK(k)'
<1>1. (\A i \in Steps : StepOK(k, i))'
  BY DEF LabOK, Same, StepOK
<1>2. PlaceOK(k)'
  BY DEF LabOK, Same, PlaceOK, Unused, AllJudged
<1>3. k \in Suites => RunOK(k)'
  BY DEF LabOK, Same, RunOK, AllJudged, Judged
<1>4. QED
  BY <1>1, <1>2, <1>3 DEF LabOK

(* Judging a step, with the answer that came to it. *)
LEMMA JudgeStep ==
    ASSUME LabInv, NEW l \in Labs, NEW answer, Judge(l, answer),
           place[l] \in {"step", "audit"},
           answer = "accepted" <=> answers[l][onstep[l]] = "accepted",
           UNCHANGED <<jobs, answers, runs, cutoff>>
    PROVE /\ place' \in [Labs -> {"new", "step", "sending", "answered", "audit", "counted", "over"}]
          /\ onstep' \in [Labs -> Steps]
          /\ verdicts' \in [Labs -> [Steps -> {"none", "PASSED", "FAILED"}]]
          /\ \A k \in Labs : LabOK(k)'
<1> DEFINE n == LastStep(l)
           v == Verdict(answer)
<1>0. /\ place \in [Labs -> {"new", "step", "sending", "answered", "audit", "counted", "over"}]
      /\ onstep \in [Labs -> Steps]
      /\ verdicts \in [Labs -> [Steps -> {"none", "PASSED", "FAILED"}]]
  BY DEF LabInv, LabTypeOK
<1>a. PICK i \in Steps : i = onstep[l]
  BY <1>0
<1>b. /\ Length \in Nat \ {0} /\ \A j : j \in Steps <=> j \in Nat /\ 1 <= j /\ j <= Length
  BY LabAssumption DEF Steps
<1>c. n \in Nat /\ 1 <= n /\ n <= Length /\ (l \in Suites => n = Length)
  BY <1>b DEF LastStep
<1>d. i \in Nat /\ i <= n /\ v \in {"PASSED", "FAILED"}
  BY <1>a, <1>b DEF Verdict, LabInv, LabOK, PlaceOK
<1>1. n \in Steps /\ i \in Steps /\ i <= n /\ v \in {"PASSED", "FAILED"}
  BY <1>b, <1>c, <1>d
<1>2. Steps \subseteq Nat /\ n \in Nat /\ i \in Nat /\ n <= Length /\ (l \in Suites => n = Length)
  BY <1>b, <1>c, <1>d
<1>3. verdicts' = [verdicts EXCEPT ![l] = [verdicts[l] EXCEPT ![i] = v]]
  BY <1>a DEF Judge
<1>4. verdicts[l] \in [Steps -> {"none", "PASSED", "FAILED"}]
  BY <1>0
<1>5. [verdicts[l] EXCEPT ![i] = v] \in [Steps -> {"none", "PASSED", "FAILED"}]
  BY <1>1, <1>4
<1>6. /\ verdicts' \in [Labs -> [Steps -> {"none", "PASSED", "FAILED"}]]
      /\ \A k \in Labs : k # l => verdicts'[k] = verdicts[k]
      /\ verdicts'[l] = [verdicts[l] EXCEPT ![i] = v]
  BY <1>0, <1>3, <1>5
<1>7. /\ verdicts'[l][i] = v
      /\ \A j \in Steps : j # i => verdicts'[l][j] = verdicts[l][j]
  BY <1>1, <1>4, <1>6
<1>8. onstep' = [onstep EXCEPT ![l] = IF i < n THEN i + 1 ELSE i]
  BY <1>a DEF Judge
<1>9. i < n => i + 1 \in Steps
  BY <1>b, <1>c, <1>d
<1>10. /\ onstep' \in [Labs -> Steps]
       /\ \A k \in Labs : k # l => onstep'[k] = onstep[k]
       /\ onstep'[l] = IF i < n THEN i + 1 ELSE i
  BY <1>0, <1>1, <1>8, <1>9
<1>11. place' = [place EXCEPT ![l] = IF i < n THEN "step"
                                     ELSE IF l \in Suites THEN "counted" ELSE "over"]
  BY <1>a DEF Judge
<1>12. /\ place' \in [Labs -> {"new", "step", "sending", "answered", "audit", "counted", "over"}]
       /\ \A k \in Labs : k # l => place'[k] = place[k]
       /\ place'[l] = IF i < n THEN "step" ELSE IF l \in Suites THEN "counted" ELSE "over"
  BY <1>0, <1>11
<1>13. LabOK(l)
  BY DEF LabInv
<1>14. /\ \A j \in Steps : j < i => verdicts[l][j] # "none"
       /\ \A j \in Steps : j > i => Unused(l, j)
       /\ place[l] \notin {"sending", "answered", "over", "new"}
  BY <1>a, <1>13 DEF LabOK, PlaceOK
<1>15. jobs[l][i] = "RUNNING" => l \in cutoff
  BY <1>1, <1>13, <1>14 DEF LabOK, StepOK
<1> HIDE DEF n, v
<1>16. ASSUME NEW j \in Steps PROVE StepOK(l, j)'
  <2>1. StepOK(l, j)
    BY <1>13 DEF LabOK
  <2>2. CASE j = i
    <3>1. verdicts'[l][j] = "PASSED" <=> answers[l][j] = "accepted"
      BY <1>7, <1>a, <2>2 DEF v, Verdict
    <3>2. verdicts'[l][j] \in {"PASSED", "FAILED"}
      BY <1>1, <1>7, <2>2
    <3>3. QED
      BY <2>1, <2>2, <3>1, <3>2, <1>15 DEF StepOK
  <2>3. CASE j # i
    <3>1. verdicts'[l][j] = verdicts[l][j]
      BY <1>7, <2>3
    <3>2. jobs[l][j] = "RUNNING" => l \in cutoff
      BY <2>1, <1>14 DEF StepOK
    <3>3. QED
      BY <2>1, <3>1, <3>2 DEF StepOK
  <2>4. QED
    BY <2>2, <2>3
<1>17. PlaceOK(l)'
  <2>1. CASE i < n
    <3>1. onstep'[l] = i + 1 /\ place'[l] = "step"
      BY <2>1, <1>10, <1>12
    <3>2. i + 1 \in Steps /\ Unused(l, i + 1) /\ i + 1 <= n /\ i + 1 # i
      BY <2>1, <1>1, <1>2, <1>9, <1>14
    <3>a. \A j \in Steps : j < i + 1 => j < i \/ j = i
      BY <1>2
    <3>3. \A j \in Steps : j < i + 1 => verdicts'[l][j] # "none"
      BY <3>a, <1>1, <1>2, <1>7, <1>14
    <3>4. \A j \in Steps : j > i => Unused(l, j)'
      BY <1>1, <1>2, <1>7, <1>14 DEF Unused
    <3>5. \A j \in Nat : j > i + 1 => j > i
      BY <1>2
    <3>6. i + 1 > i
      BY <1>1, <1>2
    <3>7. Unused(l, i + 1)'
      BY <3>2, <3>4, <3>6
    <3>8. verdicts'[l][i + 1] = "none"
      BY <3>7 DEF Unused
    <3>9. \A j \in Steps : j > i + 1 => Unused(l, j)'
      BY <1>2, <3>4, <3>5
    <3>10. Unused(l, onstep[l])'
      BY <3>1, <3>7 DEF Unused
    <3>11. QED
      BY <3>1, <3>2, <3>3, <3>8, <3>9, <3>10 DEF PlaceOK, n
  <2>2. CASE ~(i < n)
    <3>1. i = n
      BY <2>2, <1>1, <1>2
    <3>2. l \in Suites => AllJudged(l)'
      <4>1. ASSUME l \in Suites, NEW j \in Steps PROVE verdicts'[l][j] # "none"
        <5>1. j <= i
          BY <3>1, <4>1, <1>2, <1>b
        <5>2. j = i \/ j < i
          BY <5>1, <1>2
        <5>3. QED
          BY <5>2, <1>1, <1>7, <1>14
      <4>2. QED
        BY <4>1 DEF AllJudged
    <3>3. place'[l] = IF l \in Suites THEN "counted" ELSE "over"
      BY <2>2, <1>12
    <3>4. QED
      BY <3>2, <3>3 DEF PlaceOK
  <2>3. QED
    BY <2>1, <2>2
<1>18. l \in Suites => RunOK(l)'
  <2>1. l \in Suites => runs[l].status \in {"none", "RUNNING"}
    BY <1>13, <1>14 DEF LabOK, RunOK
  <2>2. l \in Suites => place'[l] \notin {"new", "over"}
    BY <1>12
  <2>3. QED
    BY <2>1, <2>2 DEF RunOK
<1>19. LabOK(l)'
  BY <1>16, <1>17, <1>18 DEF LabOK
<1>20. ASSUME NEW k \in Labs, k # l PROVE LabOK(k)'
  <2>1. Same(k)
    BY <1>20, <1>6, <1>10, <1>12 DEF Same
  <2>2. QED
    BY <2>1, SameKeeps DEF LabInv
<1>21. QED
  BY <1>6, <1>10, <1>12, <1>19, <1>20

(* A write of one replay or run, by place and row. *)
LEMMA LabInvStep == LabInv /\ [LabNext]_labVars => LabInv'
<1> SUFFICES ASSUME LabInv, [LabNext]_labVars PROVE LabInv'
  OBVIOUS
<1>0. LabTypeOK /\ \A k \in Labs : LabOK(k)
  BY DEF LabInv
<1>s. ASSUME NEW l \in Labs, \A k \in Labs : k # l => Same(k), LabOK(l)'
      PROVE \A k \in Labs : LabOK(k)'
  BY <1>0, <1>s, SameKeeps
<1>n. Suites \subseteq Labs /\ Direct \subseteq Labs /\ Suites \intersect Direct = {}
  BY LabAssumption DEF Labs
<1>i. \A k \in Labs : onstep[k] \in Steps
  BY <1>0 DEF LabTypeOK
<1>r. ASSUME NEW l \in Suites, StartRun(l) PROVE LabInv'
  <2>0. place[l] = "new" /\ LabOK(l)
    BY <1>r, <1>0, <1>n DEF StartRun, Moves
  <2>1. PICK p \in {"step", "over"} :
           /\ place' = [place EXCEPT ![l] = p]
           /\ \/ p = "step" /\ runs' = [runs EXCEPT ![l] = [status |-> "RUNNING", passed |-> 0, failed |-> 0]]
              \/ p = "over" /\ UNCHANGED runs
    BY <1>r DEF StartRun, Moves, CreateReplayTestRun, NoRun
  <2>2. UNCHANGED <<onstep, jobs, answers, verdicts, audits, cutoff>>
    BY <1>r DEF StartRun
  <2>3. place'[l] = p /\ \A k \in Labs : k # l => place'[k] = place[k]
    BY <2>1, <1>0, <1>n DEF LabTypeOK
  <2>4. /\ p = "step" => runs'[l].status = "RUNNING"
        /\ p = "over" => runs'[l] = runs[l]
        /\ \A k \in Suites : k # l => runs'[k] = runs[k]
    BY <2>1, <1>0 DEF LabTypeOK
  <2>5. LabTypeOK'
    <3>1. [status |-> "RUNNING", passed |-> 0, failed |-> 0]
             \in [status : {"none", "RUNNING", "PASSED", "PARTIAL", "FAILED"},
                  passed : 0 .. Length, failed : 0 .. Length]
      BY LabAssumption
    <3>2. runs' \in [Suites -> [status : {"none", "RUNNING", "PASSED", "PARTIAL", "FAILED"},
                                passed : 0 .. Length, failed : 0 .. Length]]
      BY <2>1, <3>1, <1>0 DEF LabTypeOK
    <3>3. place' \in [Labs -> {"new", "step", "sending", "answered", "audit", "counted", "over"}]
      BY <2>1, <1>0 DEF LabTypeOK
    <3>4. QED
      BY <2>2, <3>2, <3>3, <1>0 DEF LabTypeOK
  <2>6. \A k \in Labs : k # l => Same(k)
    BY <2>2, <2>3, <2>4 DEF Same
  <2>7. 1 <= LastStep(l) /\ 1 \in Steps /\ onstep[l] = 1
    BY <2>0, LabAssumption DEF LastStep, Steps, LabOK, PlaceOK
  <2>8. (\A i \in Steps : StepOK(l, i))'
    BY <2>0, <2>2 DEF LabOK, PlaceOK, StepOK, Unused
  <2>9. PlaceOK(l)'
    <3>1. \A i \in Steps : Unused(l, i)' /\ ~(i < 1)
      BY <2>0, <2>2, LabAssumption DEF LabOK, PlaceOK, Unused, Steps
    <3>2. onstep'[l] = 1 /\ LastStep(l) = LastStep(l)'
      BY <2>2, <2>7
    <3>3. Unused(l, onstep[l])' /\ verdicts'[l][onstep'[l]] = "none"
      BY <3>1, <3>2, <2>7 DEF Unused
    <3>4. QED
      BY <2>1, <2>3, <2>7, <3>1, <3>2, <3>3 DEF PlaceOK
  <2>10. RunOK(l)'
    BY <2>0, <2>1, <2>2, <2>3, <2>4, <1>n DEF RunOK, LabOK, PlaceOK
  <2>11. LabOK(l)'
    BY <2>8, <2>9, <2>10 DEF LabOK
  <2>12. QED
    BY <2>5, <2>6, <2>11, <1>n, <1>s DEF LabInv
<1>f. ASSUME NEW l \in Suites, FinishRun(l) PROVE LabInv'
  <2>0. place[l] = "counted" /\ LabOK(l) /\ AllJudged(l) /\ l \in Labs
    BY <1>f, <1>0, <1>n DEF FinishRun, Moves, LabOK, PlaceOK
  <2>1. place' = [place EXCEPT ![l] = "over"]
    BY <1>f DEF FinishRun, Moves
  <2>2. UNCHANGED <<onstep, jobs, answers, verdicts, audits>>
    BY <1>f DEF FinishRun
  <2>3. place'[l] = "over" /\ \A k \in Labs : k # l => place'[k] = place[k]
    BY <2>0, <2>1, <1>0 DEF LabTypeOK
  <2> DEFINE passes == Judged(l, "PASSED")
             failures == Judged(l, "FAILED")
             result == [status |-> IF failures = 0 THEN "PASSED"
                                   ELSE IF passes = 0 THEN "FAILED" ELSE "PARTIAL",
                        passed |-> passes, failed |-> failures]
  <2>4. \/ runs' = [runs EXCEPT ![l] = result] /\ UNCHANGED cutoff
        \/ UNCHANGED runs /\ cutoff' = cutoff \union {l}
    BY <1>f DEF FinishRun, UpdateReplayTestRunResult
  <2>5. passes \in 0 .. Length /\ failures \in 0 .. Length
    BY JudgedCount
  <2>6. passes' = passes /\ failures' = failures
    BY <2>2 DEF Judged
  <2> HIDE DEF passes, failures
  <2>7. LabTypeOK'
    <3>1. result \in [status : {"none", "RUNNING", "PASSED", "PARTIAL", "FAILED"},
                      passed : 0 .. Length, failed : 0 .. Length]
      BY <2>5
    <3>2. runs' \in [Suites -> [status : {"none", "RUNNING", "PASSED", "PARTIAL", "FAILED"},
                                passed : 0 .. Length, failed : 0 .. Length]]
      BY <3>1, <2>4, <1>0 DEF LabTypeOK
    <3>3. place' \in [Labs -> {"new", "step", "sending", "answered", "audit", "counted", "over"}]
      BY <2>1, <1>0 DEF LabTypeOK
    <3>4. cutoff' \subseteq Labs
      BY <2>0, <2>4, <1>0 DEF LabTypeOK
    <3>5. QED
      BY <2>2, <3>2, <3>3, <3>4, <1>0 DEF LabTypeOK
  <2>8. /\ \A k \in Suites : k # l => runs'[k] = runs[k]
        /\ cutoff \subseteq cutoff'
        /\ runs'[l] = result \/ (runs'[l] = runs[l] /\ l \in cutoff')
    BY <2>4, <1>0 DEF LabTypeOK
  <2>9. \A k \in Labs : k # l => Same(k)
    BY <2>2, <2>3, <2>8 DEF Same
  <2>10. (\A i \in Steps : StepOK(l, i))'
    BY <2>0, <2>2, <2>8 DEF LabOK, StepOK
  <2>11. PlaceOK(l)'
    BY <2>3 DEF PlaceOK
  <2>12. RunOK(l)'
    <3>1. AllJudged(l)'
      BY <2>0, <2>2 DEF AllJudged
    <3>2. runs[l].status \in {"none", "RUNNING"}
      BY <2>0 DEF LabOK, RunOK
    <3>3. CASE runs'[l] = runs[l] /\ l \in cutoff'
      BY <2>3, <3>2, <3>3 DEF RunOK
    <3>4. CASE runs'[l] = result
      <4>1. /\ runs'[l].passed = Judged(l, "PASSED")' /\ runs'[l].failed = Judged(l, "FAILED")'
            /\ runs'[l].status = "PASSED" <=> Judged(l, "FAILED")' = 0
            /\ runs'[l].status = "FAILED" <=> Judged(l, "FAILED")' # 0 /\ Judged(l, "PASSED")' = 0
            /\ runs'[l].status \in {"PASSED", "FAILED", "PARTIAL"}
        BY <3>4, <2>6 DEF passes, failures
      <4>2. QED
        BY <4>1, <3>1, <2>3 DEF RunOK
    <3>5. QED
      BY <2>8, <3>3, <3>4
  <2>13. LabOK(l)'
    BY <2>10, <2>11, <2>12 DEF LabOK
  <2>14. QED
    BY <2>0, <2>7, <2>9, <2>13, <1>s DEF LabInv
<1>d. ASSUME NEW l \in Direct, StartReplay(l) PROVE LabInv'
  <2>0. place[l] = "new" /\ LabOK(l) /\ l \notin Suites /\ l \in Labs
    BY <1>d, <1>0, <1>n DEF StartReplay, Moves
  <2>1. place' = [place EXCEPT ![l] = "step"]
    BY <1>d DEF StartReplay, Moves
  <2>2. UNCHANGED <<onstep, jobs, answers, verdicts, runs, audits, cutoff>>
    BY <1>d DEF StartReplay
  <2>3. place'[l] = "step" /\ \A k \in Labs : k # l => place'[k] = place[k]
    BY <2>0, <2>1, <1>0 DEF LabTypeOK
  <2>4. LabTypeOK'
    BY <2>1, <2>2, <1>0 DEF LabTypeOK
  <2>5. \A k \in Labs : k # l => Same(k)
    BY <2>2, <2>3 DEF Same
  <2>6. 1 <= LastStep(l) /\ 1 \in Steps /\ onstep[l] = 1
    BY <2>0, LabAssumption DEF LastStep, Steps, LabOK, PlaceOK
  <2>7. (\A i \in Steps : StepOK(l, i))'
    BY <2>0, <2>2 DEF LabOK, PlaceOK, StepOK, Unused
  <2>8. PlaceOK(l)'
    <3>1. \A i \in Steps : Unused(l, i)' /\ ~(i < 1)
      BY <2>0, <2>2, LabAssumption DEF LabOK, PlaceOK, Unused, Steps
    <3>2. onstep'[l] = 1 /\ LastStep(l) = LastStep(l)'
      BY <2>2, <2>6
    <3>3. Unused(l, onstep[l])' /\ verdicts'[l][onstep'[l]] = "none"
      BY <3>1, <3>2, <2>6 DEF Unused
    <3>4. QED
      BY <2>3, <2>6, <3>1, <3>2, <3>3 DEF PlaceOK
  <2>9. LabOK(l)'
    BY <2>0, <2>7, <2>8 DEF LabOK
  <2>10. QED
    BY <2>0, <2>4, <2>5, <2>9, <1>s DEF LabInv
<1>j. ASSUME NEW l \in Labs, NEW answer, Judge(l, answer), place[l] \in {"step", "audit"},
             answer = "accepted" <=> answers[l][onstep[l]] = "accepted",
             UNCHANGED <<jobs, answers, runs, cutoff>>, audits' \subseteq Labs \X Steps
      PROVE LabInv'
  BY <1>j, <1>0, JudgeStep DEF LabInv, LabTypeOK
<1>b. ASSUME NEW l \in Labs, StepFails(l) PROVE LabInv'
  <2>1. answers[l][onstep[l]] = "unsent"
    BY <1>b, <1>0 DEF StepFails, LabOK, PlaceOK, Unused
  <2>2. /\ Judge(l, "unanswered") /\ place[l] \in {"step", "audit"}
        /\ UNCHANGED <<jobs, answers, runs, cutoff>> /\ audits' \subseteq Labs \X Steps
    BY <1>b, <1>0 DEF StepFails, LabTypeOK
  <2>3. QED
    BY <2>1, <2>2, <1>j
<1>u. ASSUME NEW l \in Labs, AuditReplay(l) PROVE LabInv'
  <2> DEFINE answer == answers[l][onstep[l]]
  <2>1. /\ Judge(l, answer) /\ place[l] \in {"step", "audit"}
        /\ UNCHANGED <<jobs, answers, runs, cutoff>> /\ audits' \subseteq Labs \X Steps
    <3>1. <<l, onstep[l]>> \in Labs \X Steps
      BY <1>i
    <3>2. audits \subseteq Labs \X Steps
      BY <1>0 DEF LabTypeOK
    <3>3. QED
      BY <1>u, <3>1, <3>2 DEF AuditReplay
  <2>2. answer = "accepted" <=> answers[l][onstep[l]] = "accepted"
    OBVIOUS
  <2> HIDE DEF answer
  <2>3. QED
    BY <2>1, <2>2, <1>j
<1>e. ASSUME NEW l \in Labs, ExecuteReplay(l) PROVE LabInv'
  <2>a. PICK i \in Steps : i = onstep[l]
    BY <1>i
  <2>0. place[l] = "step" /\ LabOK(l)
    BY <1>e, <1>0 DEF ExecuteReplay, Moves
  <2>1. place' = [place EXCEPT ![l] = "sending"]
    BY <1>e DEF ExecuteReplay, Moves
  <2>2. UNCHANGED <<onstep, answers, verdicts, runs, audits, cutoff>>
    BY <1>e DEF ExecuteReplay
  <2>3. place'[l] = "sending" /\ \A k \in Labs : k # l => place'[k] = place[k]
    BY <2>1, <1>0 DEF LabTypeOK
  <2>4. jobs' = [jobs EXCEPT ![l] = [jobs[l] EXCEPT ![i] = "RUNNING"]]
    BY <1>e, <2>a DEF ExecuteReplay, CreateReplayJob
  <2>5. jobs[l] \in [Steps -> {"none", "RUNNING", "COMPLETED", "FAILED"}]
    BY <1>0 DEF LabTypeOK
  <2>6. /\ jobs'[l] = [jobs[l] EXCEPT ![i] = "RUNNING"]
        /\ \A k \in Labs : k # l => jobs'[k] = jobs[k]
        /\ jobs' \in [Labs -> [Steps -> {"none", "RUNNING", "COMPLETED", "FAILED"}]]
    BY <2>4, <2>5, <1>0 DEF LabTypeOK
  <2>7. jobs'[l][i] = "RUNNING" /\ \A j \in Steps : j # i => jobs'[l][j] = jobs[l][j]
    BY <2>5, <2>6
  <2>8. LabTypeOK'
    BY <2>1, <2>2, <2>6, <1>0 DEF LabTypeOK
  <2>9. \A k \in Labs : k # l => Same(k)
    BY <2>2, <2>3, <2>6 DEF Same
  <2>10. ASSUME NEW j \in Steps PROVE StepOK(l, j)'
    <3>1. StepOK(l, j)
      BY <2>0 DEF LabOK
    <3>2. CASE j = i
      BY <2>a, <2>2, <2>3, <2>7, <3>1, <3>2 DEF StepOK
    <3>3. CASE j # i
      BY <2>0, <2>2, <2>7, <3>1, <3>3 DEF StepOK
    <3>4. QED
      BY <3>2, <3>3
  <2>11. PlaceOK(l)'
    <3>1. PlaceOK(l)
      BY <2>0 DEF LabOK
    <3>2. \A j \in Steps : j > i => j # i
      BY LabAssumption DEF Steps
    <3>3. \A j \in Steps : j > i => Unused(l, j)'
      BY <3>1, <3>2, <2>0, <2>a, <2>2, <2>7 DEF PlaceOK, Unused
    <3>4. QED
      BY <3>1, <3>3, <2>0, <2>a, <2>2, <2>3, <2>7 DEF PlaceOK
  <2>12. l \in Suites => RunOK(l)'
    BY <2>0, <2>2, <2>3 DEF LabOK, RunOK
  <2>13. LabOK(l)'
    BY <2>10, <2>11, <2>12 DEF LabOK
  <2>14. QED
    BY <2>8, <2>9, <2>13, <1>s DEF LabInv
<1>x. ASSUME NEW l \in Labs, Send(l) PROVE LabInv'
  <2>a. PICK i \in Steps : i = onstep[l]
    BY <1>i
  <2>0. place[l] = "sending" /\ LabOK(l)
    BY <1>x, <1>0 DEF Send, Moves
  <2>1. place' = [place EXCEPT ![l] = "answered"]
    BY <1>x DEF Send, Moves
  <2>2. UNCHANGED <<onstep, jobs, verdicts, runs, audits, cutoff>>
    BY <1>x DEF Send
  <2>3. place'[l] = "answered" /\ \A k \in Labs : k # l => place'[k] = place[k]
    BY <2>1, <1>0 DEF LabTypeOK
  <2>4. PICK answer \in Answers : answers' = [answers EXCEPT ![l] = [answers[l] EXCEPT ![i] = answer]]
    BY <1>x, <2>a DEF Send
  <2>5. answers[l] \in [Steps -> Answers \union {"unsent"}]
    BY <1>0 DEF LabTypeOK
  <2>6. /\ answers'[l] = [answers[l] EXCEPT ![i] = answer]
        /\ \A k \in Labs : k # l => answers'[k] = answers[k]
        /\ answers' \in [Labs -> [Steps -> Answers \union {"unsent"}]]
    BY <2>4, <2>5, <1>0 DEF LabTypeOK
  <2>7. answers'[l][i] = answer /\ \A j \in Steps : j # i => answers'[l][j] = answers[l][j]
    BY <2>5, <2>6
  <2>8. LabTypeOK'
    BY <2>1, <2>2, <2>6, <1>0 DEF LabTypeOK
  <2>9. \A k \in Labs : k # l => Same(k)
    BY <2>2, <2>3, <2>6 DEF Same
  <2>10. verdicts[l][i] = "none" /\ jobs[l][i] = "RUNNING"
    BY <2>0, <2>a DEF LabOK, PlaceOK
  <2>11. ASSUME NEW j \in Steps PROVE StepOK(l, j)'
    <3>1. StepOK(l, j)
      BY <2>0 DEF LabOK
    <3>2. CASE j = i
      BY <2>a, <2>2, <2>3, <2>10, <3>2 DEF StepOK
    <3>3. CASE j # i
      BY <2>a, <2>2, <2>7, <3>1, <3>3 DEF StepOK
    <3>4. QED
      BY <3>2, <3>3
  <2>12. PlaceOK(l)'
    <3>1. PlaceOK(l)
      BY <2>0 DEF LabOK
    <3>2. \A j \in Steps : j > i => j # i
      BY LabAssumption DEF Steps
    <3>3. \A j \in Steps : j > i => Unused(l, j)'
      BY <3>1, <3>2, <2>0, <2>a, <2>2, <2>7 DEF PlaceOK, Unused
    <3>4. answers'[l][i] # "unsent"
      BY <2>7 DEF Answers
    <3>5. QED
      BY <3>1, <3>3, <3>4, <2>0, <2>a, <2>2, <2>3 DEF PlaceOK
  <2>13. l \in Suites => RunOK(l)'
    BY <2>0, <2>2, <2>3 DEF LabOK, RunOK
  <2>14. LabOK(l)'
    BY <2>11, <2>12, <2>13 DEF LabOK
  <2>15. QED
    BY <2>8, <2>9, <2>14, <1>s DEF LabInv
<1>o. ASSUME NEW l \in Labs, StoreReplayResult(l) PROVE LabInv'
  <2>a. PICK i \in Steps : i = onstep[l]
    BY <1>i
  <2>0. place[l] = "answered" /\ LabOK(l)
    BY <1>o, <1>0 DEF StoreReplayResult, Moves
  <2>1. place' = [place EXCEPT ![l] = "audit"]
    BY <1>o DEF StoreReplayResult, Moves
  <2>2. UNCHANGED <<onstep, answers, verdicts, runs, audits>>
    BY <1>o DEF StoreReplayResult
  <2>3. place'[l] = "audit" /\ \A k \in Labs : k # l => place'[k] = place[k]
    BY <2>1, <1>0 DEF LabTypeOK
  <2> DEFINE result == IF answers[l][i] = "unanswered" THEN "FAILED" ELSE "COMPLETED"
  <2>4. \/ jobs' = [jobs EXCEPT ![l] = [jobs[l] EXCEPT ![i] = result]] /\ UNCHANGED cutoff
        \/ UNCHANGED jobs /\ cutoff' = cutoff \union {l}
    BY <1>o, <2>a DEF StoreReplayResult, UpdateReplayJobResult
  <2>5. jobs[l] \in [Steps -> {"none", "RUNNING", "COMPLETED", "FAILED"}]
    BY <1>0 DEF LabTypeOK
  <2>6. /\ \A k \in Labs : k # l => jobs'[k] = jobs[k]
        /\ jobs' \in [Labs -> [Steps -> {"none", "RUNNING", "COMPLETED", "FAILED"}]]
        /\ jobs'[l] = [jobs[l] EXCEPT ![i] = result] \/ (jobs'[l] = jobs[l] /\ l \in cutoff')
        /\ cutoff \subseteq cutoff' /\ cutoff' \subseteq Labs
    <3>1. [jobs[l] EXCEPT ![i] = result] \in [Steps -> {"none", "RUNNING", "COMPLETED", "FAILED"}]
      BY <2>5
    <3> HIDE DEF result
    <3>2. jobs \in [Labs -> [Steps -> {"none", "RUNNING", "COMPLETED", "FAILED"}]] /\ cutoff \subseteq Labs
      BY <1>0 DEF LabTypeOK
    <3>3. CASE UNCHANGED jobs /\ cutoff' = cutoff \union {l}
      BY <3>2, <3>3
    <3>4. CASE jobs' = [jobs EXCEPT ![l] = [jobs[l] EXCEPT ![i] = result]] /\ UNCHANGED cutoff
      BY <3>1, <3>2, <3>4
    <3>5. QED
      BY <2>4, <3>3, <3>4
  <2>7. /\ jobs'[l][i] = result \/ (jobs'[l][i] = jobs[l][i] /\ l \in cutoff')
        /\ \A j \in Steps : j # i => jobs'[l][j] = jobs[l][j]
    BY <2>5, <2>6
  <2>8. LabTypeOK'
    BY <2>1, <2>2, <2>6, <1>0 DEF LabTypeOK
  <2>9. \A k \in Labs : k # l => Same(k)
    BY <2>2, <2>3, <2>6 DEF Same
  <2>10. answers[l][i] \in Answers /\ jobs[l][i] = "RUNNING"
    BY <2>0, <2>a, <1>0 DEF LabOK, PlaceOK, LabTypeOK
  <2>11. ASSUME NEW j \in Steps PROVE StepOK(l, j)'
    <3>1. StepOK(l, j)
      BY <2>0 DEF LabOK
    <3>2. CASE j = i
      BY <2>2, <2>6, <2>7, <2>10, <3>1, <3>2 DEF StepOK, Answers
    <3>3. CASE j # i
      BY <2>a, <2>2, <2>6, <2>7, <3>1, <3>3 DEF StepOK
    <3>4. QED
      BY <3>2, <3>3
  <2>12. PlaceOK(l)'
    <3>1. PlaceOK(l)
      BY <2>0 DEF LabOK
    <3>2. \A j \in Steps : j > i => j # i
      BY LabAssumption DEF Steps
    <3>3. \A j \in Steps : j > i => Unused(l, j)'
      BY <3>1, <3>2, <2>0, <2>a, <2>2, <2>7 DEF PlaceOK, Unused
    <3>4. QED
      BY <3>1, <3>3, <2>0, <2>a, <2>2, <2>3 DEF PlaceOK
  <2>13. l \in Suites => RunOK(l)'
    BY <2>0, <2>2, <2>3, <2>6 DEF LabOK, RunOK
  <2>14. LabOK(l)'
    BY <2>11, <2>12, <2>13 DEF LabOK
  <2>15. QED
    BY <2>8, <2>9, <2>14, <1>s DEF LabInv
<1>z. CASE LabStops
  <2>1. PICK begun \in SUBSET Labs :
           /\ place' = [k \in Labs |-> IF k \in begun THEN "over" ELSE place[k]]
           /\ cutoff' = cutoff \union begun
           /\ UNCHANGED <<onstep, jobs, answers, verdicts, runs, audits>>
           /\ \A k \in begun : place[k] \notin {"new", "over"}
    BY <1>z DEF LabStops
  <2>2. LabTypeOK'
    BY <2>1, <1>0 DEF LabTypeOK
  <2>3. ASSUME NEW k \in Labs PROVE LabOK(k)'
    <3>1. CASE k \notin begun
      BY <2>1, <1>0, <3>1, SameKeeps DEF Same
    <3>2. CASE k \in begun
      <4>1. place'[k] = "over" /\ k \in cutoff' /\ LabOK(k) /\ place[k] \notin {"new", "over"}
        BY <2>1, <1>0, <3>2
      <4>2. (\A i \in Steps : StepOK(k, i))'
        BY <4>1, <2>1 DEF LabOK, StepOK
      <4>3. PlaceOK(k)'
        BY <4>1 DEF PlaceOK
      <4>4. k \in Suites => RunOK(k)'
        BY <4>1, <2>1 DEF LabOK, RunOK
      <4>5. QED
        BY <4>2, <4>3, <4>4 DEF LabOK
    <3>3. QED
      BY <3>1, <3>2
  <2>4. QED
    BY <2>2, <2>3 DEF LabInv
<1>y. CASE UNCHANGED labVars
  <2>1. LabTypeOK'
    BY <1>y, <1>0 DEF labVars, LabTypeOK
  <2>2. \A k \in Labs : Same(k)
    BY <1>y DEF labVars, Same
  <2>3. QED
    BY <2>1, <2>2, <1>0, SameKeeps DEF LabInv
<1>q. QED
  BY <1>r, <1>f, <1>d, <1>b, <1>u, <1>e, <1>x, <1>o, <1>z, <1>y DEF LabNext

LEMMA LabInvHonest == LabInv => LabHonest
<1> SUFFICES ASSUME LabInv PROVE LabHonest
  OBVIOUS
<1>0. LabTypeOK /\ \A k \in Labs : LabOK(k)
  BY DEF LabInv
<1>1. ASSUME NEW l \in Labs, NEW i \in Steps
      PROVE /\ jobs[l][i] = "COMPLETED" => answers[l][i] \in Answers \ {"unanswered"}
            /\ jobs[l][i] = "FAILED" => answers[l][i] = "unanswered"
            /\ jobs[l][i] = "RUNNING" /\ place[l] = "over" => l \in cutoff
  <2>1. StepOK(l, i)
    BY <1>0 DEF LabOK
  <2>2. QED
    BY <2>1 DEF StepOK, Answers
<1>2. ASSUME NEW l \in Suites
      PROVE LET good == {i \in Steps : answers[l][i] = "accepted"} IN
            /\ runs[l].status = "PASSED" => good = Steps
            /\ runs[l].status = "FAILED" => good = {}
            /\ runs[l].status = "PARTIAL" => good \notin {{}, Steps}
            /\ runs[l].status \notin {"none", "RUNNING"} =>
                  runs[l].passed = Cardinality(good) /\ runs[l].failed = Length - Cardinality(good)
            /\ runs[l].status = "RUNNING" /\ place[l] = "over" => l \in cutoff
  <2> DEFINE good == {i \in Steps : answers[l][i] = "accepted"}
  <2>0. l \in Labs /\ RunOK(l) /\ \A i \in Steps : StepOK(l, i)
    BY <1>0 DEF Labs, LabOK
  <2>1. CASE runs[l].status \in {"none", "RUNNING"}
    BY <2>0, <2>1 DEF RunOK
  <2>2. CASE runs[l].status \notin {"none", "RUNNING"}
    <3>1. AllJudged(l)
      BY <2>0, <2>2 DEF RunOK
    <3>2. \A i \in Steps : verdicts[l][i] \in {"PASSED", "FAILED"}
      BY <2>0, <3>1, <1>0 DEF AllJudged, LabTypeOK
    <3>3. {i \in Steps : verdicts[l][i] = "PASSED"} = good
      BY <2>0, <3>2 DEF StepOK
    <3>4. {i \in Steps : verdicts[l][i] = "FAILED"} = Steps \ good
      BY <2>0, <3>2 DEF StepOK
    <3>5. Judged(l, "PASSED") = Cardinality(good) /\ Judged(l, "FAILED") = Cardinality(Steps \ good)
      BY <3>3, <3>4 DEF Judged
    <3>6. IsFiniteSet(good) /\ IsFiniteSet(Steps \ good) /\ good \subseteq Steps
      BY StepsFinite, FS_Subset
    <3>7. Cardinality(Steps \ good) = Length - Cardinality(good)
      <4>1. Steps \intersect good = good
        OBVIOUS
      <4>2. Cardinality(Steps \ good) = Cardinality(Steps) - Cardinality(Steps \intersect good)
        BY StepsFinite, FS_Difference
      <4>3. QED
        BY <4>1, <4>2, StepsFinite
    <3>8. /\ Cardinality(good) = 0 <=> good = {}
          /\ Cardinality(Steps \ good) = 0 <=> Steps \ good = {}
      BY <3>6, FS_EmptySet
    <3>9. Steps \ good = {} <=> good = Steps
      OBVIOUS
    <3>10. Cardinality(Steps) # 0
      BY StepsFinite, LabAssumption
    <3>11. good = Steps => good # {}
      BY <3>10, FS_EmptySet
    <3> HIDE DEF good
    <3>12. runs[l].status \in {"PASSED", "PARTIAL", "FAILED"}
      BY <2>2, <1>0 DEF LabTypeOK
    <3>13. /\ runs[l].passed = Cardinality(good) /\ runs[l].failed = Length - Cardinality(good)
           /\ runs[l].status = "PASSED" <=> good = Steps
           /\ runs[l].status = "FAILED" <=> good # Steps /\ good = {}
      BY <2>0, <2>2, <3>5, <3>7, <3>8, <3>9 DEF RunOK
    <3>14. QED
      BY <2>2, <3>12, <3>13 DEF good
  <2>3. QED
    BY <2>1, <2>2
<1>3. QED
  BY <1>1, <1>2 DEF LabHonest

LEMMA LabInvHolds == LabSpec => []LabInv
BY LabInvInit, LabInvStep, PTL DEF LabSpec

(* Type correctness of replays and test runs.                              *)
THEOREM LabTypes == LabSpec => []LabTypeOK
<1>1. LabInv => LabTypeOK
  BY DEF LabInv
<1>2. QED
  BY <1>1, LabInvHolds, PTL

-----------------------------------------------------------------------------
(* Findings told to the channels. *)

FindingTypeOK ==
    /\ telling \in [Tasks -> {"unsent", "queued", "running", "finished", "unscheduled"}]
    /\ unposted \in [Tasks -> SUBSET Rooms]
    /\ room \in [Tasks -> {InRoom(c) : c \in Rooms} \union {NoRoom}]
    /\ posts \in [Tasks -> [Rooms -> Nat]]
    /\ accepted \in [Tasks -> [Rooms -> Nat]]

(* A channel the task still has to post to heard nothing of the finding,   *)
(* the one it is posting to accepted nothing of it and has a try left.     *)
ChannelOK(t, c) ==
    /\ posts[t][c] > 0 => c \in Asked(t)
    /\ accepted[t][c] > 0 => posts[t][c] = accepted[t][c]
    /\ telling[t] \in {"unsent", "queued"} => posts[t][c] = 0 /\ room[t] = NoRoom
    /\ c \in unposted[t] => posts[t][c] = 0 /\ c \in Asked(t)
    /\ room[t] = InRoom(c) /\ room[t] # NoRoom =>
          c \in Asked(t) /\ c \notin unposted[t] /\ accepted[t][c] = 0 /\ posts[t][c] < Tries
    /\ posts[t][c] = 0 => accepted[t][c] = 0
    /\ posts[t][c] <= Tries

FindingsInv == FindingTypeOK /\ \A t \in Tasks, c \in Rooms : ChannelOK(t, c)

LEMMA AskedAreRooms == ASSUME NEW t PROVE Asked(t) \subseteq Rooms
BY AlertsAssumption DEF Asked

LEMMA FindingsInvInit == AlertsInit => FindingsInv
BY AlertsAssumption DEF AlertsInit, FindingsInv, FindingTypeOK, ChannelOK

LEMMA FindingsInvStep == FindingsInv /\ [AlertsNext]_alertsVars => FindingsInv'
<1> SUFFICES ASSUME FindingsInv, [AlertsNext]_alertsVars PROVE FindingsInv'
  OBVIOUS
<1>0. FindingTypeOK /\ \A t \in Tasks, c \in Rooms : ChannelOK(t, c)
  BY DEF FindingsInv
<1>1. CASE UNCHANGED findingVars
  BY <1>0, <1>1 DEF findingVars, FindingsInv, FindingTypeOK, ChannelOK
<1>2. ASSUME NEW t \in Tasks, DispatchForFindings(t) PROVE FindingsInv'
  <2>1. PICK p \in {"queued", "unscheduled"} :
           telling[t] = "unsent" /\ telling' = [telling EXCEPT ![t] = p]
    BY <1>2 DEF DispatchForFindings, At
  <2>2. UNCHANGED <<unposted, room, posts, accepted>>
    BY <1>2 DEF DispatchForFindings
  <2>3. \A u \in Tasks : telling'[u] \in {"unsent", "queued"} => telling[u] \in {"unsent", "queued"}
    BY <2>1, <1>0 DEF FindingTypeOK
  <2>4. FindingTypeOK'
    BY <2>1, <2>2, <1>0 DEF FindingTypeOK
  <2>5. \A u \in Tasks, c \in Rooms : ChannelOK(u, c)'
    BY <2>2, <2>3, <1>0 DEF ChannelOK
  <2>6. QED
    BY <2>4, <2>5 DEF FindingsInv
<1>3. ASSUME NEW t \in Tasks, LoadChannels(t) PROVE FindingsInv'
  <2>1. PICK p \in {"running", "finished"} :
           /\ telling[t] = "queued" /\ telling' = [telling EXCEPT ![t] = p]
           /\ unposted' = [unposted EXCEPT ![t] = Asked(t)] \/ UNCHANGED unposted
    BY <1>3 DEF LoadChannels, At
  <2>2. UNCHANGED <<room, posts, accepted>>
    BY <1>3 DEF LoadChannels
  <2>3. FindingTypeOK'
    BY <2>1, <2>2, <1>0, AskedAreRooms DEF FindingTypeOK
  <2>4. ASSUME NEW u \in Tasks, NEW c \in Rooms PROVE ChannelOK(u, c)'
    <3>1. CASE u # t
      <4>1. telling'[u] = telling[u] /\ unposted'[u] = unposted[u]
        BY <2>1, <3>1, <1>0 DEF FindingTypeOK
      <4>2. QED
        BY <4>1, <2>2, <1>0 DEF ChannelOK
    <3>2. CASE u = t
      <4>1. telling'[t] = p /\ (unposted'[t] = Asked(t) \/ unposted'[t] = unposted[t])
        BY <2>1, <1>0 DEF FindingTypeOK
      <4>2. posts[t][c] = 0 /\ room[t] = NoRoom /\ ChannelOK(t, c)
        BY <2>1, <1>0 DEF ChannelOK
      <4>3. QED
        BY <4>1, <4>2, <2>2, <3>2 DEF ChannelOK
    <3>3. QED
      BY <3>1, <3>2
  <2>5. QED
    BY <2>3, <2>4 DEF FindingsInv
<1>4. ASSUME NEW t \in Tasks, NextChannel(t) PROVE FindingsInv'
  <2>1. PICK d \in Rooms :
           /\ d \in unposted[t]
           /\ room' = [room EXCEPT ![t] = InRoom(d)]
           /\ unposted' = [unposted EXCEPT ![t] = @ \ {d}]
    BY <1>4, <1>0 DEF NextChannel, FindingTypeOK
  <2>2. UNCHANGED <<telling, posts, accepted>> /\ telling[t] = "running"
    BY <1>4 DEF NextChannel
  <2>3. FindingTypeOK'
    BY <2>1, <2>2, <1>0 DEF FindingTypeOK
  <2>4. ASSUME NEW u \in Tasks, NEW c \in Rooms PROVE ChannelOK(u, c)'
    <3>1. CASE u # t
      <4>1. room'[u] = room[u] /\ unposted'[u] = unposted[u]
        BY <2>1, <3>1, <1>0 DEF FindingTypeOK
      <4>2. QED
        BY <4>1, <2>2, <1>0 DEF ChannelOK
    <3>2. CASE u = t
      <4>1. room'[t] = InRoom(d) /\ unposted'[t] = unposted[t] \ {d}
        BY <2>1, <1>0 DEF FindingTypeOK
      <4>2. posts[t][d] = 0 /\ d \in Asked(t) /\ accepted[t][d] = 0
        BY <2>1, <1>0 DEF ChannelOK
      <4>3. InRoom(c) = InRoom(d) => c = d
        BY DEF InRoom
      <4>4. ChannelOK(t, c)
        BY <1>0
      <4>5. QED
        BY <4>1, <4>2, <4>3, <4>4, <2>2, <3>2, AlertsAssumption DEF ChannelOK
    <3>3. QED
      BY <3>1, <3>2
  <2>5. QED
    BY <2>3, <2>4 DEF FindingsInv
<1>5. ASSUME NEW t \in Tasks, Dispatch(t) PROVE FindingsInv'
  <2>0. PICK d \in Rooms : room[t] = InRoom(d) /\ room[t] # NoRoom /\ room[t].id = d
    <3>1. room[t] \in {InRoom(c) : c \in Rooms} \union {NoRoom} /\ room[t] # NoRoom
      BY <1>5, <1>0 DEF Dispatch, FindingTypeOK
    <3>2. QED
      BY <3>1 DEF InRoom
  <2>1. posts' = [posts EXCEPT ![t] = [posts[t] EXCEPT ![d] = @ + 1]]
    BY <1>5, <2>0 DEF Dispatch
  <2>2. UNCHANGED <<telling, unposted>> /\ telling[t] = "running"
    BY <1>5 DEF Dispatch
  <2>3. \/ /\ accepted' = [accepted EXCEPT ![t] = [accepted[t] EXCEPT ![d] = posts'[t][d]]]
           /\ room' = [room EXCEPT ![t] = NoRoom]
        \/ UNCHANGED accepted /\ room' = [room EXCEPT ![t] = NoRoom]
        \/ UNCHANGED <<accepted, room>> /\ posts[t][d] + 1 < Tries
    BY <1>5, <2>0 DEF Dispatch
  <2>4. posts[t] \in [Rooms -> Nat] /\ accepted[t] \in [Rooms -> Nat]
    BY <1>0 DEF FindingTypeOK
  <2>5. posts[t][d] \in Nat /\ posts[t][d] + 1 \in Nat /\ posts[t][d] + 1 > 0
    BY <2>4
  <2>6. [posts[t] EXCEPT ![d] = @ + 1] \in [Rooms -> Nat]
    BY <2>4, <2>5
  <2>7. /\ posts'[t] = [posts[t] EXCEPT ![d] = @ + 1]
        /\ \A u \in Tasks : u # t => posts'[u] = posts[u]
        /\ posts' \in [Tasks -> [Rooms -> Nat]]
    BY <2>1, <2>6, <1>0 DEF FindingTypeOK
  <2>8. posts'[t][d] = posts[t][d] + 1 /\ \A c \in Rooms : c # d => posts'[t][c] = posts[t][c]
    BY <2>4, <2>7
  <2>9. posts'[t][d] \in Nat /\ posts'[t][d] > 0
    BY <2>5, <2>8
  <2>10. [accepted[t] EXCEPT ![d] = posts'[t][d]] \in [Rooms -> Nat]
    BY <2>4, <2>9
  <2>11. /\ \A u \in Tasks : u # t => accepted'[u] = accepted[u]
         /\ accepted' \in [Tasks -> [Rooms -> Nat]]
         /\ accepted'[t] = accepted[t] \/ accepted'[t] = [accepted[t] EXCEPT ![d] = posts'[t][d]]
    BY <2>3, <2>10, <1>0 DEF FindingTypeOK
  <2>12. \A c \in Rooms : c # d => accepted'[t][c] = accepted[t][c]
    BY <2>4, <2>11
  <2>13. accepted'[t][d] = posts'[t][d] \/ accepted'[t][d] = accepted[t][d]
    BY <2>4, <2>11
  <2>14. /\ \A u \in Tasks : u # t => room'[u] = room[u]
         /\ room' \in [Tasks -> {InRoom(c) : c \in Rooms} \union {NoRoom}]
         /\ room'[t] = NoRoom
            \/ (room'[t] = room[t] /\ UNCHANGED accepted /\ posts[t][d] + 1 < Tries)
    BY <2>3, <1>0 DEF FindingTypeOK
  <2>15. FindingTypeOK'
    BY <2>2, <2>7, <2>11, <2>14, <1>0 DEF FindingTypeOK
  <2>16. ASSUME NEW u \in Tasks, NEW c \in Rooms PROVE ChannelOK(u, c)'
    <3>1. CASE u # t
      BY <2>2, <2>7, <2>11, <2>14, <3>1, <1>0 DEF ChannelOK
    <3>2. CASE u = t /\ c # d
      <4>1. InRoom(c) # InRoom(d) /\ ChannelOK(t, c)
        BY <3>2, <1>0 DEF InRoom
      <4>2. QED
        BY <4>1, <3>2, <2>0, <2>2, <2>8, <2>12, <2>14 DEF ChannelOK
    <3>3. CASE u = t /\ c = d
      <4>1. d \in Asked(t) /\ d \notin unposted[t] /\ accepted[t][d] = 0 /\ posts[t][d] < Tries
        BY <2>0, <1>0 DEF ChannelOK
      <4>2. Asked(t)' = Asked(t)
        BY DEF Asked
      <4>3. accepted'[t][d] > 0 => accepted'[t][d] = posts'[t][d]
        BY <4>1, <2>13
      <4>4. room'[t] # NoRoom => accepted'[t][d] = 0 /\ posts'[t][d] < Tries
        BY <4>1, <2>8, <2>14
      <4>5. posts'[t][d] # 0 /\ posts'[t][d] <= Tries
        BY <4>1, <2>5, <2>8, <2>9, AlertsAssumption
      <4>6. QED
        BY <4>1, <4>2, <4>3, <4>4, <4>5, <3>3, <2>2 DEF ChannelOK
    <3>4. QED
      BY <3>1, <3>2, <3>3
  <2>17. QED
    BY <2>15, <2>16 DEF FindingsInv
<1>6. ASSUME NEW t \in Tasks, TaskEnds(t) PROVE FindingsInv'
  <2>1. /\ telling' = [telling EXCEPT ![t] = "finished"]
        /\ room' = [room EXCEPT ![t] = NoRoom]
        /\ unposted' = [unposted EXCEPT ![t] = {}]
        /\ UNCHANGED <<posts, accepted>>
    BY <1>6 DEF TaskEnds, At
  <2>2. FindingTypeOK'
    BY <2>1, <1>0 DEF FindingTypeOK
  <2>3. ASSUME NEW u \in Tasks, NEW c \in Rooms PROVE ChannelOK(u, c)'
    <3>1. CASE u # t
      <4>1. telling'[u] = telling[u] /\ room'[u] = room[u] /\ unposted'[u] = unposted[u]
        BY <2>1, <3>1, <1>0 DEF FindingTypeOK
      <4>2. QED
        BY <4>1, <2>1, <1>0 DEF ChannelOK
    <3>2. CASE u = t
      <4>1. telling'[t] = "finished" /\ room'[t] = NoRoom /\ unposted'[t] = {}
        BY <2>1, <1>0 DEF FindingTypeOK
      <4>2. ChannelOK(t, c)
        BY <1>0
      <4>3. QED
        BY <4>1, <4>2, <2>1, <3>2 DEF ChannelOK
    <3>3. QED
      BY <3>1, <3>2
  <2>4. QED
    BY <2>2, <2>3 DEF FindingsInv
<1>7. CASE Exits
  <2>1. /\ telling' = [t \in Tasks |-> IF telling[t] = "unsent" THEN "unsent" ELSE "finished"]
        /\ room' = [t \in Tasks |-> NoRoom]
        /\ unposted' = [t \in Tasks |-> {}]
        /\ UNCHANGED <<posts, accepted>>
    BY <1>7 DEF Exits
  <2>2. FindingTypeOK'
    BY <2>1, <1>0 DEF FindingTypeOK
  <2>3. \A t \in Tasks, c \in Rooms : ChannelOK(t, c)'
    BY <2>1, <1>0 DEF ChannelOK
  <2>4. QED
    BY <2>2, <2>3 DEF FindingsInv
<1>8. ASSUME NEW e \in Hosts, RecordDeliveryFailure(e) PROVE UNCHANGED findingVars
  BY <1>8 DEF RecordDeliveryFailure
<1>9. dispatchDeliveryAlertToChannels \/ periodicFlushLoop \/ Close => UNCHANGED findingVars
  BY DEF dispatchDeliveryAlertToChannels, Counts, periodicFlushLoop, Close
<1>10. UNCHANGED alertsVars => UNCHANGED findingVars
  BY DEF alertsVars
<1>11. QED
  BY <1>1, <1>2, <1>3, <1>4, <1>5, <1>6, <1>7, <1>8, <1>9, <1>10 DEF AlertsNext

(* However channels fail and tasks are cut off, a finding is posted only   *)
(* to channels that asked for its severity, and no channel that accepted   *)
(* it is posted to again (alert_service.go and alerting/dispatch).         *)
THEOREM FindingsOnce == AlertsSpec => []FindingsToldOnce
<1>1. FindingsInv => FindingsToldOnce
  BY DEF FindingsInv, ChannelOK, FindingsToldOnce
<1>2. QED
  BY <1>1, FindingsInvInit, FindingsInvStep, PTL DEF AlertsSpec

-----------------------------------------------------------------------------
(* Failures told to the channels: the digest. *)

(* Five places that share nothing and together hold all of them.           *)
Partition(a, b, c, d, e, all) ==
    /\ a \union b \union c \union d \union e = all
    /\ a \intersect b = {} /\ a \intersect c = {} /\ a \intersect d = {} /\ a \intersect e = {}
    /\ b \intersect c = {} /\ b \intersect d = {} /\ b \intersect e = {}
    /\ c \intersect d = {} /\ c \intersect e = {} /\ d \intersect e = {}

LEMMA PartitionMoves ==
    ASSUME NEW a, NEW b, NEW c, NEW d, NEW e, NEW all, Partition(a, b, c, d, e, all),
           NEW x \in SUBSET a, NEW f, f \notin all
    PROVE Partition(a \ x, b \union x \union {f}, c, d, e, all \union {f})
<1>1. a \union b \union c \union d \union e = all
  BY DEF Partition
<1>2. (a \ x) \union (b \union x \union {f}) \union c \union d \union e = all \union {f}
  BY <1>1
<1>3. f \notin a /\ f \notin b /\ f \notin c /\ f \notin d /\ f \notin e
  BY <1>1
<1>4. QED
  BY <1>2, <1>3 DEF Partition

Summarized == UNION summaries
FailuresPlaced == Partition(Collected, Summarized, instants, told, untold, 1 .. recorded)

SummariesApart == \A r, s \in summaries : r # s => r \intersect s = {}

BucketOK(e) ==
    /\ buckets[e] \in [failures : SUBSET Failures, ticks : Nat]
    /\ \A d \in Hosts : d # e => buckets[d].failures \intersect buckets[e].failures = {}
    /\ Cardinality(buckets[e].failures) < Threshold
    /\ buckets[e].ticks < 3

DigestInv ==
    /\ DOMAIN buckets = Hosts /\ buckets = [e \in Hosts |-> buckets[e]]
    /\ recorded \in 0 .. MostFailures /\ open \in BOOLEAN
    /\ FailuresPlaced /\ SummariesApart /\ \A e \in Hosts : BucketOK(e)

LEMMA NoBucketIs ==
    /\ NoBucket \in [failures : SUBSET Failures, ticks : Nat]
    /\ NoBucket.failures = {} /\ NoBucket.ticks = 0
    /\ Cardinality(NoBucket.failures) < Threshold
BY FS_EmptySet, AlertsAssumption DEF NoBucket

LEMMA DigestInvInit == AlertsInit => DigestInv
<1> SUFFICES ASSUME AlertsInit PROVE DigestInv
  OBVIOUS
<1>1. \A e \in Hosts : buckets[e] = NoBucket
  BY DEF AlertsInit
<1>2. Collected = {} /\ Summarized = {}
  BY <1>1, NoBucketIs DEF AlertsInit, Collected, Summarized
<1>3. FailuresPlaced
  BY <1>2 DEF AlertsInit, FailuresPlaced, Partition
<1>4. \A e \in Hosts : BucketOK(e)
  BY <1>1, NoBucketIs DEF BucketOK
<1>5. QED
  BY <1>3, <1>4, AlertsAssumption DEF AlertsInit, DigestInv, SummariesApart

(* What the buckets become, host by host, says all of them.                *)
LEMMA FlushKeeps ==
    ASSUME DigestInv, NEW chosen \in SUBSET Waiting, NEW ticks \in [Hosts -> Nat],
           \A e \in Hosts \ chosen : ticks[e] < 3, flushBucketLocked(chosen, ticks),
           UNCHANGED <<instants, told, untold, recorded>>, open' \in BOOLEAN
    PROVE DigestInv'
<1>0. chosen \subseteq Hosts /\ \A e \in Hosts : BucketOK(e)
  BY DEF Waiting, DigestInv
<1>1. /\ \A e \in chosen : buckets'[e] = NoBucket
      /\ \A e \in Hosts \ chosen :
            /\ buckets'[e] \in [failures : SUBSET Failures, ticks : Nat]
            /\ buckets'[e].failures = buckets[e].failures /\ buckets'[e].ticks = ticks[e]
  <2>1. ASSUME NEW e \in Hosts, NEW n \in Nat
        PROVE LET b == [buckets[e] EXCEPT !.ticks = n]
              IN  b \in [failures : SUBSET Failures, ticks : Nat]
                  /\ b.failures = buckets[e].failures /\ b.ticks = n
    BY <1>0 DEF BucketOK
  <2>2. QED
    BY <1>0, <2>1 DEF flushBucketLocked
<1>2. DOMAIN buckets' = Hosts /\ buckets' = [e \in Hosts |-> buckets'[e]]
  BY DEF flushBucketLocked
<1> DEFINE X == UNION {buckets[e].failures : e \in chosen}
<1>3. Summarized' = Summarized \union X
  BY DEF flushBucketLocked, Summarized
<1>4. X \subseteq Collected
  BY <1>0 DEF Collected
<1>5. Collected' = Collected \ X
  <2>1. ASSUME NEW f \in Collected' PROVE f \in Collected \ X
    <3>1. PICK e \in Hosts : f \in buckets'[e].failures
      BY DEF Collected
    <3>2. e \notin chosen /\ f \in buckets[e].failures
      BY <1>1, <3>1, NoBucketIs
    <3>3. \A d \in chosen : f \notin buckets[d].failures
      BY <1>0, <3>2 DEF BucketOK
    <3>4. QED
      BY <3>2, <3>3 DEF Collected
  <2>2. ASSUME NEW f \in Collected \ X PROVE f \in Collected'
    <3>1. PICK e \in Hosts : f \in buckets[e].failures
      BY DEF Collected
    <3>2. e \notin chosen
      BY <3>1
    <3>3. f \in buckets'[e].failures
      BY <1>1, <3>1, <3>2
    <3>4. QED
      BY <3>3 DEF Collected
  <2>3. QED
    BY <2>1, <2>2
<1>6. FailuresPlaced'
  <2> HIDE DEF X
  <2>1. QED
    BY <1>3, <1>4, <1>5 DEF DigestInv, FailuresPlaced, Partition
<1>7. SummariesApart'
  <2>1. SUFFICES ASSUME NEW r \in summaries', NEW s \in summaries', r # s
                 PROVE r \intersect s = {}
    BY DEF SummariesApart
  <2>2. (r \in summaries \/ \E e \in chosen : r = buckets[e].failures)
        /\ (s \in summaries \/ \E e \in chosen : s = buckets[e].failures)
    BY DEF flushBucketLocked
  <2>3. \A q \in summaries : \A e \in chosen : q \intersect buckets[e].failures = {}
    <3>1. Collected \intersect Summarized = {}
      BY DEF DigestInv, FailuresPlaced, Partition
    <3>2. QED
      BY <3>1, <1>0 DEF Collected, Summarized
  <2>4. \A d, e \in chosen : d # e => buckets[d].failures \intersect buckets[e].failures = {}
    BY <1>0 DEF BucketOK
  <2>5. QED
    BY <2>1, <2>2, <2>3, <2>4 DEF DigestInv, SummariesApart
<1>8. ASSUME NEW e \in Hosts PROVE BucketOK(e)'
  <2>1. \A d \in Hosts : buckets'[d].failures \subseteq buckets[d].failures
    BY <1>1, NoBucketIs
  <2>2. \A d \in Hosts : d # e => buckets'[d].failures \intersect buckets'[e].failures = {}
    BY <2>1, <1>0 DEF BucketOK
  <2>3. Cardinality(buckets'[e].failures) < Threshold /\ buckets'[e].ticks < 3
        /\ buckets'[e] \in [failures : SUBSET Failures, ticks : Nat]
    BY <1>0, <1>1, NoBucketIs DEF BucketOK
  <2>4. QED
    BY <2>2, <2>3 DEF BucketOK
<1>9. QED
  BY <1>2, <1>6, <1>7, <1>8 DEF DigestInv

LEMMA RecordKeeps ==
    ASSUME DigestInv, NEW h \in Hosts, RecordDeliveryFailure(h)
    PROVE  DigestInv'
<1> DEFINE f == recorded + 1
           b == buckets[h].failures
<1>0. /\ \A e \in Hosts : BucketOK(e)
      /\ DOMAIN buckets = Hosts /\ recorded \in Nat /\ recorded < MostFailures
      /\ FailuresPlaced /\ SummariesApart /\ MostFailures \in Nat
  BY AlertsAssumption DEF DigestInv, RecordDeliveryFailure
<1>1. recorded' = f /\ f \in Failures /\ 1 .. recorded' = (1 .. recorded) \union {f} /\ f \notin 1 .. recorded
  BY <1>0 DEF RecordDeliveryFailure, Failures
<1>2. UNCHANGED <<told, untold, open>> /\ recorded' \in 0 .. MostFailures
  BY <1>0 DEF RecordDeliveryFailure
<1>3. f \notin Collected \union Summarized \union instants \union told \union untold
  BY <1>0, <1>1 DEF FailuresPlaced, Partition
<1>4. b \subseteq Collected /\ b \subseteq Failures /\ (b \union {f}) \in SUBSET Failures
  BY <1>0, <1>1 DEF Collected, BucketOK
<1>5. \A e \in Hosts : e # h => buckets[e].failures \intersect b = {}
  BY <1>0 DEF BucketOK
<1>6. CASE instants' = instants \union {f} /\ UNCHANGED <<buckets, summaries>>
  <2>1. Collected' = Collected /\ Summarized' = Summarized
    BY <1>6 DEF Collected, Summarized
  <2>2. FailuresPlaced'
    <3> HIDE DEF f
    <3>1. QED
      BY <2>1, <1>0, <1>1, <1>2, <1>3, <1>6 DEF FailuresPlaced, Partition
  <2>3. \A e \in Hosts : BucketOK(e)'
    BY <1>0, <1>6 DEF BucketOK
  <2>4. QED
    BY <2>2, <2>3, <1>2, <1>6 DEF DigestInv, SummariesApart
<1>7. CASE /\ Cardinality(b \union {f}) >= Threshold /\ UNCHANGED instants
           /\ summaries' = summaries \union {b \union {f}}
           /\ buckets' = [buckets EXCEPT ![h] = NoBucket]
  <2>1. buckets'[h] = NoBucket /\ \A e \in Hosts : e # h => buckets'[e] = buckets[e]
    BY <1>7, <1>0
  <2>2. Collected' = Collected \ b
    <3>1. ASSUME NEW x \in Collected' PROVE x \in Collected \ b
      <4>1. PICK e \in Hosts : x \in buckets'[e].failures
        BY DEF Collected
      <4>2. e # h /\ x \in buckets[e].failures
        BY <4>1, <2>1, NoBucketIs
      <4>3. QED
        BY <4>2, <1>5 DEF Collected
    <3>2. ASSUME NEW x \in Collected \ b PROVE x \in Collected'
      <4>1. PICK e \in Hosts : x \in buckets[e].failures
        BY DEF Collected
      <4>2. x \in buckets'[e].failures
        BY <4>1, <2>1
      <4>3. QED
        BY <4>2 DEF Collected
    <3>3. QED
      BY <3>1, <3>2
  <2>3. Summarized' = Summarized \union b \union {f}
    BY <1>7 DEF Summarized
  <2>4. FailuresPlaced'
    <3>1. Partition(Collected, Summarized, instants, told, untold, 1 .. recorded)
      BY <1>0 DEF FailuresPlaced
    <3>2. Partition(Collected \ b, Summarized \union b \union {f}, instants, told, untold,
                    (1 .. recorded) \union {f})
      <4>1. f \notin 1 .. recorded /\ b \subseteq Collected
        BY <1>1, <1>4
      <4> HIDE DEF f, b
      <4>2. QED
        BY <3>1, <4>1, PartitionMoves
    <3> HIDE DEF f, b
    <3>3. QED
      BY <2>2, <2>3, <3>2, <1>1, <1>2, <1>7 DEF FailuresPlaced
  <2>5. SummariesApart'
    <3>1. (b \union {f}) \intersect Summarized = {}
      BY <1>0, <1>3, <1>4 DEF FailuresPlaced, Partition
    <3>2. QED
      BY <3>1, <1>0, <1>7 DEF SummariesApart, Summarized
  <2>6. ASSUME NEW e \in Hosts PROVE BucketOK(e)'
    <3>1. \A d \in Hosts : buckets'[d].failures \subseteq buckets[d].failures
      BY <2>1, NoBucketIs
    <3>2. \A d \in Hosts : d # e => buckets'[d].failures \intersect buckets'[e].failures = {}
      BY <3>1, <1>0 DEF BucketOK
    <3>3. Cardinality(buckets'[e].failures) < Threshold /\ buckets'[e].ticks < 3
          /\ buckets'[e] \in [failures : SUBSET Failures, ticks : Nat]
      <4>1. CASE e = h
        <5>1. buckets'[e] = NoBucket /\ 0 < 3
          BY <2>1, <4>1
        <5>2. QED
          BY <5>1, NoBucketIs
      <4>2. CASE e # h
        <5>1. buckets'[e] = buckets[e]
          BY <2>1, <4>2
        <5>2. QED
          BY <5>1, <1>0 DEF BucketOK
      <4>3. QED
        BY <4>1, <4>2
    <3>4. QED
      BY <3>2, <3>3 DEF BucketOK
  <2>7. QED
    BY <2>4, <2>5, <2>6, <1>2, <1>7, <1>0 DEF DigestInv
<1>8. CASE /\ ~(Cardinality(b \union {f}) >= Threshold) /\ UNCHANGED <<instants, summaries>>
           /\ buckets' = [buckets EXCEPT ![h].failures = b \union {f}]
  <2>0. buckets[h] \in [failures : SUBSET Failures, ticks : Nat]
    BY <1>0 DEF BucketOK
  <2>1. /\ buckets'[h].failures = b \union {f} /\ buckets'[h].ticks = buckets[h].ticks
        /\ buckets'[h] \in [failures : SUBSET Failures, ticks : Nat]
        /\ \A e \in Hosts : e # h => buckets'[e] = buckets[e]
    <3>1. ASSUME NEW S \in SUBSET Failures
          PROVE LET q == [buckets[h] EXCEPT !.failures = S]
                IN  q \in [failures : SUBSET Failures, ticks : Nat]
                    /\ q.failures = S /\ q.ticks = buckets[h].ticks
      BY <2>0
    <3>2. buckets'[h] = [buckets[h] EXCEPT !.failures = b \union {f}]
          /\ \A e \in Hosts : e # h => buckets'[e] = buckets[e]
      BY <1>8, <1>0
    <3>3. QED
      BY <3>1, <3>2, <1>4
  <2>2. Collected' = Collected \union {f}
    <3>1. ASSUME NEW x \in Collected' PROVE x \in Collected \union {f}
      <4>1. PICK e \in Hosts : x \in buckets'[e].failures
        BY DEF Collected
      <4>2. QED
        BY <4>1, <2>1 DEF Collected
    <3>2. ASSUME NEW x \in Collected \union {f} PROVE x \in Collected'
      <4>1. CASE x = f
        BY <4>1, <2>1 DEF Collected
      <4>2. CASE x \in Collected
        <5>1. PICK e \in Hosts : x \in buckets[e].failures
          BY <4>2 DEF Collected
        <5>2. x \in buckets'[e].failures
          BY <5>1, <2>1
        <5>3. QED
          BY <5>2 DEF Collected
      <4>3. QED
        BY <3>2, <4>1, <4>2
    <3>3. QED
      BY <3>1, <3>2
  <2>3. FailuresPlaced'
    <3>1. Summarized' = Summarized
      BY <1>8 DEF Summarized
    <3> HIDE DEF f
    <3>2. QED
      BY <2>2, <3>1, <1>0, <1>1, <1>2, <1>3, <1>8 DEF FailuresPlaced, Partition
  <2>4. ASSUME NEW e \in Hosts PROVE BucketOK(e)'
    <3>1. \A d \in Hosts : f \notin buckets[d].failures
      BY <1>3 DEF Collected
    <3>2. \A d \in Hosts : d # e => buckets'[d].failures \intersect buckets'[e].failures = {}
      BY <3>1, <2>1, <1>0 DEF BucketOK
    <3>3. Cardinality(b \union {f}) < Threshold
      <4>1. IsFiniteSet(Failures)
        BY FS_Interval, AlertsAssumption DEF Failures
      <4>2. Cardinality(b \union {f}) \in Nat
        BY <4>1, <1>4, FS_Subset, FS_CardinalityType
      <4>3. QED
        BY <4>2, <1>8, AlertsAssumption
    <3>4. Cardinality(buckets'[e].failures) < Threshold /\ buckets'[e].ticks < 3
          /\ buckets'[e] \in [failures : SUBSET Failures, ticks : Nat]
      BY <3>3, <2>1, <1>0 DEF BucketOK
    <3>5. QED
      BY <3>2, <3>4 DEF BucketOK
  <2>5. DOMAIN buckets' = Hosts /\ buckets' = [e \in Hosts |-> buckets'[e]]
    BY <1>8, <1>0
  <2>6. QED
    BY <2>3, <2>4, <2>5, <1>0, <1>2, <1>8 DEF DigestInv, SummariesApart
<1>9. QED
  BY <1>6, <1>7, <1>8 DEF RecordDeliveryFailure, RecordFailure

LEMMA TellingKeeps ==
    ASSUME DigestInv, dispatchDeliveryAlertToChannels
    PROVE  DigestInv'
<1>0. UNCHANGED <<recorded, open, buckets>> /\ Collected' = Collected /\ FailuresPlaced
  BY DEF dispatchDeliveryAlertToChannels, Counts, Collected, DigestInv
<1>b. \A e \in Hosts : BucketOK(e)'
  BY <1>0 DEF DigestInv, BucketOK
<1>1. ASSUME NEW f \in instants, instants' = instants \ {f}, Counts({f}), UNCHANGED summaries
      PROVE  FailuresPlaced' /\ SummariesApart'
  <2>1. Summarized' = Summarized /\ SummariesApart'
    BY <1>1 DEF Summarized, SummariesApart, DigestInv
  <2>2. \/ told' = told \union {f} /\ untold' = untold
        \/ untold' = untold \union {f} /\ told' = told
    BY <1>1 DEF Counts
  <2>3. QED
    BY <1>0, <1>1, <2>1, <2>2 DEF FailuresPlaced, Partition
<1>2. ASSUME NEW s \in summaries, summaries' = summaries \ {s}, Counts(s), UNCHANGED instants
      PROVE  FailuresPlaced' /\ SummariesApart'
  <2>1. SummariesApart'
    BY <1>2 DEF SummariesApart, DigestInv
  <2>2. Summarized' = Summarized \ s /\ s \subseteq Summarized
    BY <1>2 DEF Summarized, SummariesApart, DigestInv
  <2>3. \/ told' = told \union s /\ untold' = untold
        \/ untold' = untold \union s /\ told' = told
    BY <1>2 DEF Counts
  <2>4. QED
    BY <1>0, <1>2, <2>1, <2>2, <2>3 DEF FailuresPlaced, Partition
<1>3. FailuresPlaced' /\ SummariesApart'
  BY <1>1, <1>2 DEF dispatchDeliveryAlertToChannels
<1>4. QED
  BY <1>0, <1>b, <1>3 DEF DigestInv

LEMMA DigestInvStep == DigestInv /\ [AlertsNext]_alertsVars => DigestInv'
<1> SUFFICES ASSUME DigestInv, [AlertsNext]_alertsVars PROVE DigestInv'
  OBVIOUS
<1>0. \A e \in Hosts : BucketOK(e)
  BY DEF DigestInv
<1>1. CASE UNCHANGED digestVars
  BY <1>1 DEF digestVars, DigestInv, FailuresPlaced, SummariesApart, BucketOK, Collected, Summarized
<1>2. ASSUME NEW e \in Hosts, RecordDeliveryFailure(e) PROVE DigestInv'
  BY <1>2, RecordKeeps
<1>3. CASE dispatchDeliveryAlertToChannels
  BY <1>3, TellingKeeps
<1>4. CASE Close
  <2>1. [e \in Hosts |-> buckets[e].ticks] \in [Hosts -> Nat]
    BY <1>0 DEF BucketOK
  <2>2. \A e \in Hosts : [d \in Hosts |-> buckets[d].ticks][e] < 3
    BY <1>0 DEF BucketOK
  <2>3. flushBucketLocked(Waiting, [e \in Hosts |-> buckets[e].ticks])
        /\ UNCHANGED <<instants, told, untold, recorded>> /\ open' \in BOOLEAN
    BY <1>4 DEF Close, FlushAll
  <2>4. QED
    BY <2>1, <2>2, <2>3, FlushKeeps
<1>5. CASE periodicFlushLoop
  <2> DEFINE older == [e \in Hosts |-> IF e \in Waiting THEN buckets[e].ticks + 1 ELSE 0]
  <2>1. PICK early \in SUBSET {e \in Waiting : older[e] = 2} :
           flushBucketLocked({e \in Waiting : older[e] >= 3} \union early, older)
    BY <1>5 DEF periodicFlushLoop, checkAndFlushExpired
  <2>2. older \in [Hosts -> Nat]
    BY <1>0 DEF BucketOK
  <2>3. PICK chosen \in SUBSET Waiting :
           /\ chosen = {e \in Waiting : older[e] >= 3} \union early
           /\ flushBucketLocked(chosen, older)
    BY <2>1
  <2>4. \A e \in Hosts \ chosen : older[e] < 3
    <3>1. \A e \in Hosts \ Waiting : older[e] = 0
      OBVIOUS
    <3> HIDE DEF older
    <3>2. QED
      BY <2>2, <2>3, <3>1
  <2>5. UNCHANGED <<instants, told, untold, recorded>> /\ open' \in BOOLEAN
    BY <1>5 DEF periodicFlushLoop, DigestInv
  <2> HIDE DEF older
  <2>6. QED
    BY <2>2, <2>3, <2>4, <2>5, FlushKeeps
<1>6. CASE Exits
  <2>1. \A e \in Hosts : buckets'[e] = NoBucket
    BY <1>6 DEF Exits
  <2>2. Collected' = {} /\ Summarized' = {} /\ instants' = {}
        /\ untold' = untold \union instants \union Collected \union Summarized
        /\ UNCHANGED <<recorded, told>> /\ summaries' = {} /\ open' = TRUE
    BY <1>6, <2>1, NoBucketIs DEF Exits, Collected, Summarized
  <2>3. FailuresPlaced'
    BY <2>2 DEF DigestInv, FailuresPlaced, Partition
  <2>4. \A e \in Hosts : BucketOK(e)'
    BY <2>1, NoBucketIs DEF BucketOK
  <2>5. DOMAIN buckets' = Hosts /\ buckets' = [e \in Hosts |-> buckets'[e]]
    BY <1>6 DEF Exits
  <2>6. QED
    BY <2>2, <2>3, <2>4, <2>5 DEF DigestInv, SummariesApart
<1>7. ASSUME NEW t \in Tasks,
             DispatchForFindings(t) \/ LoadChannels(t) \/ NextChannel(t) \/ Dispatch(t) \/ TaskEnds(t)
      PROVE  UNCHANGED digestVars
  BY <1>7 DEF DispatchForFindings, LoadChannels, NextChannel, Dispatch, TaskEnds
<1>8. UNCHANGED alertsVars => UNCHANGED digestVars
  BY DEF alertsVars
<1>9. QED
  BY <1>1, <1>2, <1>3, <1>4, <1>5, <1>6, <1>7, <1>8 DEF AlertsNext

LEMMA DigestInvConserves == DigestInv => DigestConserves
<1> SUFFICES ASSUME DigestInv PROVE DigestConserves
  OBVIOUS
<1>1. /\ Places[1] = Collected /\ Places[2] = Summarized /\ Places[3] = instants
      /\ Places[4] = told /\ Places[5] = untold
  BY DEF Places, Summarized
<1>2. ASSUME NEW f \in 1 .. recorded
      PROVE \E i \in 1 .. 5 : /\ f \in Places[i]
                              /\ \A j \in 1 .. 5 : f \in Places[j] => j = i
  <2>1. Partition(Collected, Summarized, instants, told, untold, 1 .. recorded)
    BY DEF DigestInv, FailuresPlaced
  <2>2. PICK i \in 1 .. 5 : f \in Places[i]
    BY <2>1, <1>1 DEF Partition
  <2>3. \A j, k \in 1 .. 5 : j # k => Places[j] \intersect Places[k] = {}
    <3>1. \A j \in 1 .. 5 : j = 1 \/ j = 2 \/ j = 3 \/ j = 4 \/ j = 5
      OBVIOUS
    <3>2. QED
      BY <2>1, <1>1, <3>1 DEF Partition
  <2>4. QED
    BY <2>2, <2>3
<1>3. QED
  BY <1>2 DEF DigestConserves, DigestInv, SummariesApart, BucketOK

(* The digest's part of the types. *)
LEMMA DigestInvTyped ==
    ASSUME DigestInv
    PROVE  /\ buckets \in [Hosts -> [failures : SUBSET Failures, ticks : Nat]]
           /\ summaries \in SUBSET (SUBSET Failures)
           /\ {instants, told, untold} \subseteq SUBSET Failures
           /\ recorded \in 0 .. MostFailures /\ open \in BOOLEAN
<1>1. 1 .. recorded \subseteq Failures
  BY AlertsAssumption DEF DigestInv, Failures
<1>2. Summarized \subseteq Failures /\ {instants, told, untold} \subseteq SUBSET Failures
  BY <1>1 DEF DigestInv, FailuresPlaced, Partition
<1>3. summaries \in SUBSET (SUBSET Failures)
  BY <1>2 DEF Summarized
<1>4. buckets \in [Hosts -> [failures : SUBSET Failures, ticks : Nat]]
  BY DEF DigestInv, BucketOK
<1>5. QED
  BY <1>2, <1>3, <1>4 DEF DigestInv

-----------------------------------------------------------------------------
(* The rate limiter. *)

(* What a store's count means: each call it counted has a number in an     *)
(* epoch, the life of one counter or bucket, named by its start.  An epoch *)
(* lasts a window or more, and what it counts comes before the next.       *)
Ledger(P, time, ep, no, start, count) ==
    /\ \A r, q \in P : r # q /\ ep[r] = ep[q] => no[r] # no[q]
    /\ \A r, q \in P : ep[r] < ep[q] => ep[r] + Window <= ep[q] /\ time[r] < ep[q]
    /\ \A r \in P : ep[r] <= time[r] /\ no[r] > 0
    /\ \A r \in P : \/ ep[r] = start /\ no[r] <= count
                    \/ ep[r] + Window <= start /\ time[r] < start

LEMMA WindowNat == Window \in Nat /\ Window > 0 /\ Limits \subseteq Nat /\ Latest \in Nat
BY RateLimitAssumption

(* A span as long as a window meets two epochs at most. *)
LEMMA TwoEpochs ==
    ASSUME NEW P, NEW time, NEW ep, NEW no, NEW start, NEW count,
           \A r \in P : time[r] \in Nat /\ ep[r] \in Nat /\ no[r] \in Nat,
           Ledger(P, time, ep, no, start, count),
           NEW n \in Nat, \A r \in P : no[r] <= n,
           NEW from \in Nat, \A r \in P : time[r] \in from .. from + Window
    PROVE  Cardinality(P) <= 2 * n
<1> DEFINE Second(r) == \E q \in P : ep[q] < ep[r]
           f == [r \in P |-> IF Second(r) THEN n + no[r] ELSE no[r]]
<1>1. ASSUME NEW r \in P, NEW q \in P, NEW s \in P, ep[r] < ep[q], ep[q] < ep[s] PROVE FALSE
  <2>1. time[r] < ep[q] /\ ep[q] + Window <= ep[s] /\ ep[s] <= time[s]
    BY <1>1 DEF Ledger
  <2>2. from <= time[r] /\ time[s] <= from + Window
    OBVIOUS
  <2>3. time[r] \in Nat /\ ep[q] \in Nat /\ ep[s] \in Nat /\ time[s] \in Nat
    OBVIOUS
  <2>4. QED
    BY <2>1, <2>2, <2>3, WindowNat
<1>2. \A r \in P : no[r] \in 1 .. n
  BY DEF Ledger
<1>3. ASSUME NEW r \in P, NEW q \in P, r # q PROVE f[r] # f[q]
  <2>1. f[r] = (IF Second(r) THEN n + no[r] ELSE no[r]) /\ f[q] = (IF Second(q) THEN n + no[q] ELSE no[q])
    OBVIOUS
  <2>2. CASE ep[r] = ep[q]
    <3>1. no[r] # no[q] /\ (Second(r) <=> Second(q))
      BY <1>3, <2>2 DEF Ledger
    <3> HIDE DEF Second, f
    <3>2. QED
      BY <3>1, <2>1, <1>2
  <2>3. CASE ep[r] < ep[q]
    <3>1. Second(q) /\ ~Second(r)
      BY <2>3, <1>1
    <3> HIDE DEF Second, f
    <3>2. QED
      BY <3>1, <2>1, <1>2
  <2>4. CASE ep[q] < ep[r]
    <3>1. Second(r) /\ ~Second(q)
      BY <2>4, <1>1
    <3> HIDE DEF Second, f
    <3>2. QED
      BY <3>1, <2>1, <1>2
  <2>5. QED
    BY <2>2, <2>3, <2>4
<1>4. f \in [P -> 1 .. 2 * n]
  <2>1. ASSUME NEW r \in P PROVE f[r] \in 1 .. 2 * n
    <3>1. f[r] = (IF Second(r) THEN n + no[r] ELSE no[r])
      OBVIOUS
    <3> HIDE DEF Second, f
    <3>2. QED
      BY <3>1, <1>2
  <2>2. QED
    BY <2>1
<1> HIDE DEF f
<1>5. f \in Injection(P, 1 .. 2 * n)
  BY <1>3, <1>4 DEF Injection, IsInjective
<1>6. 2 * n \in Nat /\ IsFiniteSet(1 .. 2 * n) /\ Cardinality(1 .. 2 * n) = 2 * n
  BY FS_Interval
<1>7. QED
  BY <1>5, <1>6, FS_Injection

(* A call gets the next number. *)
Joins(c, P, time, ep, no, start, count, time2, ep2, no2) ==
    /\ c \in Callers /\ c \notin P /\ start <= time2[c]
    /\ ep2[c] = start /\ no2[c] = count + 1
    /\ \A r \in P : time2[r] = time[r] /\ ep2[r] = ep[r] /\ no2[r] = no[r]

LEMMA LedgerJoins ==
    ASSUME NEW P \in SUBSET Callers, NEW time, NEW ep \in [Callers -> Nat], NEW no \in [Callers -> Nat],
           NEW start \in Nat, NEW count \in Nat, Ledger(P, time, ep, no, start, count),
           NEW c, NEW time2, NEW ep2, NEW no2,
           Joins(c, P, time, ep, no, start, count, time2, ep2, no2)
    PROVE  Ledger(P \union {c}, time2, ep2, no2, start, count + 1)
<1>0. /\ c \in Callers /\ c \notin P /\ start <= time2[c] /\ ep2[c] = start /\ no2[c] = count + 1
      /\ \A r \in P : time2[r] = time[r] /\ ep2[r] = ep[r] /\ no2[r] = no[r]
  BY DEF Joins
<1>1. /\ ep2[c] = start /\ no2[c] = count + 1
      /\ \A r \in P : ep2[r] = ep[r] /\ no2[r] = no[r] /\ ep[r] \in Nat /\ no[r] \in Nat
  BY <1>0
<1>2. \A r \in P : \/ ep[r] = start /\ no[r] <= count
                   \/ ep[r] + Window <= start /\ time[r] < start /\ ep[r] < start
  BY WindowNat, <1>1 DEF Ledger
<1>3. ASSUME NEW r \in P \union {c}, NEW q \in P \union {c}, r # q, ep2[r] = ep2[q]
      PROVE  no2[r] # no2[q]
  BY <1>0, <1>1, <1>2, <1>3 DEF Ledger
<1>4. ASSUME NEW r \in P \union {c}, NEW q \in P \union {c}, ep2[r] < ep2[q]
      PROVE  ep2[r] + Window <= ep2[q] /\ time2[r] < ep2[q]
  <2>1. CASE r \in P /\ q \in P
    BY <2>1, <1>0, <1>1, <1>4 DEF Ledger
  <2>2. CASE r \in P /\ q = c
    BY <2>2, <1>0, <1>1, <1>2, <1>4
  <2>3. CASE r = c
    BY <2>3, <1>0, <1>1, <1>2, <1>4
  <2>4. QED
    BY <2>1, <2>2, <2>3
<1>5. \A r \in P \union {c} : ep2[r] <= time2[r] /\ no2[r] > 0
  BY <1>0, <1>1 DEF Ledger
<1>6. \A r \in P \union {c} : \/ ep2[r] = start /\ no2[r] <= count + 1
                              \/ ep2[r] + Window <= start /\ time2[r] < start
  BY <1>0, <1>1, <1>2
<1>7. QED
  BY <1>3, <1>4, <1>5, <1>6 DEF Ledger

(* Calls that do not pass leave, and numbers may be skipped. *)
LEMMA LedgerLeaves ==
    ASSUME NEW P \in SUBSET Callers, NEW time, NEW ep \in [Callers -> Nat], NEW no \in [Callers -> Nat],
           NEW start \in Nat, NEW count \in Nat, Ledger(P, time, ep, no, start, count),
           NEW Q \in SUBSET P, NEW time2, \A r \in Q : time2[r] = time[r],
           NEW n \in Nat, count <= n
    PROVE  Ledger(Q, time2, ep, no, start, n)
BY DEF Ledger

(* A new epoch starts when the last is over. *)
LEMMA LedgerOpens ==
    ASSUME NEW P \in SUBSET Callers, NEW time, NEW ep \in [Callers -> Nat], NEW no \in [Callers -> Nat],
           NEW start \in Nat, NEW count \in Nat, Ledger(P, time, ep, no, start, count),
           NEW now \in Nat, \A r \in P : ep[r] + Window <= now /\ time[r] < now
    PROVE  Ledger(P, time, ep, no, now, 0)
BY DEF Ledger

(* With nothing counted, the last is over. *)
LEMMA LedgerEmpty ==
    ASSUME NEW P \in SUBSET Callers, NEW time, NEW ep \in [Callers -> Nat], NEW no \in [Callers -> Nat],
           NEW start \in Nat, Ledger(P, time, ep, no, start, 0),
           \A r \in P : time[r] \in Nat,
           NEW now \in Nat, start <= now
    PROVE  \A r \in P : ep[r] + Window <= now /\ time[r] < now
BY WindowNat DEF Ledger

(* Who has a number of Valkey's counter, and since when; a call that is to *)
(* set the time to live has one and has not passed yet.                    *)
Holders == {r \in Callers : asking[r] = "counted" \/ passed[r].store = "valkey"}
CountedAt == [r \in Callers |-> IF asking[r] = "counted" THEN began[r].at ELSE passed[r].at]

ValkeyLedger(start, ep, no) ==
    /\ start <= clock
    /\ Ledger(Holders, CountedAt, ep, no, start, counter.count)
    /\ counter.count > 0 => start + Window <= counter.expiry
    /\ \A r \in Callers : /\ asking[r] = "counted" => no[r] = began[r].count
                          /\ passed[r].store = "valkey" => no[r] <= limit

InMemory == {r \in Callers : passed[r].store = "memory"}
PassedAt == [r \in Callers |-> passed[r].at]

MemoryLedger(start, ep, no) ==
    /\ start <= clock
    /\ Ledger(InMemory, PassedAt, ep, no, start, membucket.count)
    /\ membucket.count > 0 => /\ start + Window = membucket.reset
                              /\ \A r \in InMemory : passed[r].at <= membucket.reset
    /\ \A r \in InMemory : no[r] <= limit

CallOK(r) ==
    /\ began[r].at <= clock /\ passed[r].at <= clock
    /\ passed[r].store # "none" => asking[r] = "allowed"

Repaired ==
    counter.count > 0 /\ counter.expiry = Never =>
        forgotten \/ \E r \in Callers : asking[r] = "counted"

ValkeyCounts == \E start \in Nat : \E ep, no \in [Callers -> Nat] : ValkeyLedger(start, ep, no)
MemoryCounts == \E start \in Nat : \E ep, no \in [Callers -> Nat] : MemoryLedger(start, ep, no)

LimitInv ==
    /\ LimitTypeOK /\ Repaired /\ ValkeyCounts /\ MemoryCounts
    /\ counter.count = 0 => counter.expiry = Never
    /\ \A r \in Callers : CallOK(r)

LEMMA LimitTypes ==
    ASSUME LimitTypeOK
    PROVE  /\ clock \in Nat /\ clock <= Latest /\ limit \in Nat /\ limit > 0
           /\ counter.count \in Nat /\ counter.expiry \in Nat
           /\ membucket.count \in Nat /\ membucket.reset \in Nat
           /\ Never \in Nat /\ Never = Latest + Window + 1
           /\ \A r \in Callers : /\ began[r].at \in Nat /\ began[r].count \in Nat
                                 /\ passed[r].at \in Nat
<1>1. clock \in 0 .. Latest /\ limit \in Limits
  BY DEF LimitTypeOK, Instants
<1>2. counter.count \in Nat /\ counter.expiry \in 0 .. Never
  BY DEF LimitTypeOK
<1>3. membucket.count \in Nat /\ membucket.reset \in Nat
  BY DEF LimitTypeOK
<1>4. ASSUME NEW r \in Callers
      PROVE began[r].at \in 0 .. Latest /\ began[r].count \in Nat /\ passed[r].at \in 0 .. Latest
  BY DEF LimitTypeOK, Instants
<1>5. Never \in Nat /\ Never = Latest + Window + 1
  BY WindowNat DEF Never
<1>6. QED
  BY <1>1, <1>2, <1>3, <1>4, <1>5, RateLimitAssumption

LEMMA LimitInvInit == LimitInit => LimitInv
<1> SUFFICES ASSUME LimitInit PROVE LimitInv
  OBVIOUS
<1>1. /\ clock = 0 /\ counter.count = 0 /\ counter.expiry = Never
      /\ membucket.count = 0 /\ membucket.reset = 0
      /\ \A r \in Callers : /\ asking[r] = "new" /\ began[r].at = 0 /\ passed[r].at = 0
                            /\ passed[r].store = "none"
  BY DEF LimitInit, NoCounter, NoMemBucket
<1>2. LimitTypeOK
  <2>1. 0 \in Instants /\ Never \in 0 .. Never
    BY WindowNat DEF Instants, Never
  <2>2. limit \in Limits /\ clock \in Instants /\ forgotten \in BOOLEAN
    BY <2>1 DEF LimitInit
  <2>3. counter \in [count : Nat, expiry : 0 .. Never] /\ membucket \in [count : Nat, reset : Nat]
    BY <2>1 DEF LimitInit, NoCounter, NoMemBucket
  <2>4. /\ asking \in [Callers -> {"new", "counted", "unanswered", "allowed", "refused"}]
        /\ began \in [Callers -> [at : Instants, count : Nat]]
        /\ passed \in [Callers -> [store : Stores \union {"none"}, at : Instants]]
    BY <2>1 DEF LimitInit
  <2>5. QED
    BY <2>2, <2>3, <2>4 DEF LimitTypeOK
<1>3. Holders = {} /\ InMemory = {}
  BY <1>1 DEF Holders, InMemory
<1>4. ValkeyCounts /\ MemoryCounts
  <2> DEFINE z == [r \in Callers |-> 0]
  <2>1. z \in [Callers -> Nat]
    OBVIOUS
  <2>2. ValkeyLedger(0, z, z) /\ MemoryLedger(0, z, z)
    BY <1>1, <1>3 DEF ValkeyLedger, MemoryLedger, Ledger
  <2>3. QED
    BY <2>1, <2>2 DEF ValkeyCounts, MemoryCounts
<1>5. QED
  BY <1>1, <1>2, <1>4 DEF LimitInv, Repaired, CallOK

(* Deciding a call. *)
LEMMA DecideEffect ==
    ASSUME LimitTypeOK, NEW r \in Callers, NEW store \in Stores, NEW t \in Instants,
           NEW count \in Nat, Decide(r, store, t, count)
    PROVE  /\ asking' \in [Callers -> {"new", "counted", "unanswered", "allowed", "refused"}]
           /\ passed' \in [Callers -> [store : Stores \union {"none"}, at : Instants]]
           /\ \A q \in Callers : q # r => asking'[q] = asking[q] /\ passed'[q] = passed[q]
           /\ \/ count <= limit /\ asking'[r] = "allowed"
                 /\ passed'[r].store = store /\ passed'[r].at = t
              \/ asking'[r] = "refused" /\ passed'[r] = passed[r]
<1>1. [store |-> store, at |-> t] \in [store : Stores \union {"none"}, at : Instants]
  OBVIOUS
<1>2. /\ asking \in [Callers -> {"new", "counted", "unanswered", "allowed", "refused"}]
      /\ passed \in [Callers -> [store : Stores \union {"none"}, at : Instants]]
  BY DEF LimitTypeOK
<1>3. CASE count > limit
  BY <1>2, <1>3 DEF Decide
<1>4. CASE ~(count > limit)
  <2>1. asking' = [asking EXCEPT ![r] = "allowed"]
        /\ passed' = [passed EXCEPT ![r] = [store |-> store, at |-> t]]
    BY <1>4 DEF Decide
  <2>2. passed'[r] = [store |-> store, at |-> t]
    BY <2>1, <1>2
  <2>3. count <= limit
    BY <1>4, LimitTypes
  <2>4. QED
    BY <2>1, <2>2, <2>3, <1>1, <1>2
<1>5. QED
  BY <1>3, <1>4

(* Valkey counts a call: under the counter's epoch, or in a new one. *)
LEMMA CountingOpens ==
    ASSUME LimitInv, NEW start \in Nat, NEW ep \in [Callers -> Nat], NEW no \in [Callers -> Nat],
           ValkeyLedger(start, ep, no)
    PROVE  \E s \in Nat : /\ s <= clock /\ Ledger(Holders, CountedAt, ep, no, s, counter.count)
                          /\ s + Window <= counter.expiry
<1>0. Holders \in SUBSET Callers /\ \A r \in Holders : CountedAt[r] \in Nat
  BY LimitTypes DEF LimitInv, Holders, CountedAt
<1>1. clock \in Nat /\ clock <= Latest /\ counter.count \in Nat /\ Never = Latest + Window + 1
  BY LimitTypes DEF LimitInv
<1>2. CASE counter.count = 0
  <2>1. Ledger(Holders, CountedAt, ep, no, start, 0) /\ start <= clock
    BY <1>2 DEF ValkeyLedger
  <2>2. \A r \in Holders : ep[r] + Window <= clock /\ CountedAt[r] < clock
    BY <2>1, <1>0, <1>1, LedgerEmpty
  <2>3. Ledger(Holders, CountedAt, ep, no, clock, 0)
    BY <2>1, <2>2, <1>0, <1>1, LedgerOpens
  <2>4. clock + Window <= counter.expiry
    BY <1>1, <1>2, WindowNat DEF LimitInv
  <2>5. QED
    BY <2>3, <2>4, <1>1, <1>2
<1>3. CASE counter.count # 0
  BY <1>1, <1>3 DEF ValkeyLedger
<1>4. QED
  BY <1>2, <1>3

LEMMA MemoryStays ==
    ASSUME LimitInv, clock' \in Nat, clock <= clock', UNCHANGED <<limit, membucket>>,
           \A r \in Callers : passed'[r].store = "memory" <=> passed[r].store = "memory",
           \A r \in Callers : passed[r].store = "memory" => passed'[r].at = passed[r].at
    PROVE  MemoryCounts'
<1>1. PICK start \in Nat : \E ep, no \in [Callers -> Nat] : MemoryLedger(start, ep, no)
  BY DEF LimitInv, ValkeyCounts, MemoryCounts
<1>2. PICK ep \in [Callers -> Nat], no \in [Callers -> Nat] : MemoryLedger(start, ep, no)
  BY <1>1
<1>3. InMemory' = InMemory /\ InMemory \in SUBSET Callers
  BY DEF InMemory
<1>4. \A r \in InMemory : PassedAt'[r] = PassedAt[r] /\ passed'[r].at = passed[r].at
  BY DEF InMemory, PassedAt
<1>5. membucket.count \in Nat /\ clock \in Nat
  BY LimitTypes DEF LimitInv
<1>6. Ledger(InMemory, PassedAt, ep, no, start, membucket.count)
  BY <1>2 DEF MemoryLedger
<1>7. Ledger(InMemory, PassedAt', ep, no, start, membucket.count)
  BY <1>3, <1>4, <1>5, <1>6, LedgerLeaves
<1>8. Ledger(InMemory', PassedAt', ep, no, start, membucket'.count)
  BY <1>3, <1>7
<1>9. MemoryLedger(start, ep, no)'
  BY <1>2, <1>3, <1>4, <1>5, <1>8 DEF MemoryLedger
<1>10. QED
  BY <1>9 DEF MemoryCounts

(* Nobody is counted, and at most some of the counted leave. *)
LEMMA ValkeyStays ==
    ASSUME LimitInv, clock' \in Nat, clock <= clock', UNCHANGED <<limit, began>>,
           NEW start \in Nat, NEW ep \in [Callers -> Nat], NEW no \in [Callers -> Nat],
           ValkeyLedger(start, ep, no),
           \A r \in Callers : asking'[r] = "counted" <=> asking[r] = "counted",
           \A r \in Callers : passed'[r].store = "valkey" <=> passed[r].store = "valkey",
           \A r \in Callers : passed[r].store = "valkey" => passed'[r].at = passed[r].at,
           NEW s \in Nat, s <= clock', NEW n \in Nat, NEW m \in Nat, n <= m,
           Ledger(Holders, CountedAt, ep, no, s, n), counter'.count = m,
           m > 0 => s + Window <= counter'.expiry
    PROVE  ValkeyCounts'
<1>1. Holders' = Holders /\ Holders \in SUBSET Callers
  BY DEF Holders
<1>2. \A r \in Holders : CountedAt'[r] = CountedAt[r]
  BY DEF Holders, CountedAt
<1>3. Ledger(Holders, CountedAt', ep, no, s, m)
  BY <1>1, <1>2, LedgerLeaves
<1>4. ValkeyLedger(s, ep, no)'
  BY <1>1, <1>3 DEF ValkeyLedger
<1>5. QED
  BY <1>4 DEF ValkeyCounts

LEMMA StillValkey ==
    ASSUME LimitInv, clock' \in Nat, clock <= clock', UNCHANGED <<limit, began, counter>>,
           \A r \in Callers : asking'[r] = "counted" <=> asking[r] = "counted",
           \A r \in Callers : passed'[r].store = "valkey" <=> passed[r].store = "valkey",
           \A r \in Callers : passed[r].store = "valkey" => passed'[r].at = passed[r].at
    PROVE  ValkeyCounts'
<1>1. PICK start \in Nat : \E ep, no \in [Callers -> Nat] : ValkeyLedger(start, ep, no)
  BY DEF LimitInv, ValkeyCounts, MemoryCounts
<1>2. PICK ep \in [Callers -> Nat], no \in [Callers -> Nat] : ValkeyLedger(start, ep, no)
  BY <1>1
<1>3. counter.count \in Nat /\ clock \in Nat
  BY LimitTypes DEF LimitInv
<1>4. /\ start <= clock' /\ Ledger(Holders, CountedAt, ep, no, start, counter.count)
      /\ counter.count > 0 => start + Window <= counter'.expiry
  BY <1>2, <1>3 DEF ValkeyLedger
<1>5. QED
  BY <1>2, <1>3, <1>4, ValkeyStays

(* What the counter becomes when a call is counted. *)
LEMMA CounterAdds ==
    ASSUME LimitTypeOK, counter' = [counter EXCEPT !.count = @ + 1]
    PROVE  /\ counter' \in [count : Nat, expiry : 0 .. Never]
           /\ counter'.count = counter.count + 1 /\ counter'.expiry = counter.expiry
BY DEF LimitTypeOK

(* A call was counted by Valkey, and waits to set the time to live or has  *)
(* its answer.                                                             *)
LEMMA CountedCall ==
    ASSUME LimitInv, NEW r \in Callers, asking[r] = "new", UNCHANGED <<clock, limit>>,
           counter' = [counter EXCEPT !.count = @ + 1],
           \A q \in Callers : q # r => asking'[q] = asking[q] /\ passed'[q] = passed[q]
                                       /\ began'[q] = began[q],
           \/ asking'[r] = "counted" /\ passed'[r] = passed[r]
              /\ began'[r].at = clock /\ began'[r].count = counter.count + 1
           \/ asking'[r] = "allowed" /\ passed'[r].store = "valkey" /\ passed'[r].at = clock
              /\ counter.count + 1 <= limit
           \/ asking'[r] \in {"refused", "unanswered"} /\ passed'[r] = passed[r]
    PROVE  ValkeyCounts'
<1>1. PICK start \in Nat : \E ep, no \in [Callers -> Nat] : ValkeyLedger(start, ep, no)
  BY DEF LimitInv, ValkeyCounts, MemoryCounts
<1>2. PICK ep \in [Callers -> Nat], no \in [Callers -> Nat] : ValkeyLedger(start, ep, no)
  BY <1>1
<1>3. PICK s \in Nat : /\ s <= clock /\ Ledger(Holders, CountedAt, ep, no, s, counter.count)
                       /\ s + Window <= counter.expiry
  BY <1>2, CountingOpens
<1>4. /\ counter.count \in Nat /\ clock \in Nat /\ counter'.count = counter.count + 1
      /\ counter'.expiry = counter.expiry
  BY LimitTypes, CounterAdds DEF LimitInv
<1>5. Holders \in SUBSET Callers /\ r \notin Holders /\ passed[r].store = "none"
  <2>1. passed[r].store = "none"
    BY DEF LimitInv, CallOK
  <2>2. QED
    BY <2>1 DEF Holders
<1>6. \A q \in Holders : CountedAt'[q] = CountedAt[q]
  BY <1>5 DEF CountedAt, Holders
<1>7. CASE r \in Holders'
  <2>1. /\ asking'[r] = "counted" => began'[r].at = clock /\ began'[r].count = counter.count + 1
        /\ asking'[r] # "counted" => passed'[r].at = clock
        /\ passed'[r].store = "valkey" => counter.count + 1 <= limit
    BY <1>5, <1>7 DEF Holders
  <2>2. CountedAt'[r] = clock
    BY <2>1 DEF CountedAt
  <2>3. Holders' = Holders \union {r}
    BY <1>5, <1>7 DEF Holders
  <2>4. PICK e \in [Callers -> Nat] : e[r] = s /\ \A q \in Callers : q # r => e[q] = ep[q]
    <3>1. [ep EXCEPT ![r] = s] \in [Callers -> Nat]
      OBVIOUS
    <3>2. QED
      BY <3>1
  <2>5. PICK n \in [Callers -> Nat] : n[r] = counter.count + 1 /\ \A q \in Callers : q # r => n[q] = no[q]
    <3>1. counter.count + 1 \in Nat
      BY <1>4
    <3>2. [no EXCEPT ![r] = counter.count + 1] \in [Callers -> Nat]
      BY <3>1
    <3>3. QED
      BY <3>2
  <2>6. Ledger(Holders', CountedAt', e, n, s, counter'.count)
    <3>1. s <= CountedAt'[r]
      BY <1>3, <2>2
    <3>2. \A q \in Holders : e[q] = ep[q] /\ n[q] = no[q]
      BY <1>5, <2>4, <2>5
    <3>3. Ledger(Holders, CountedAt, ep, no, s, counter.count)
      BY <1>3
    <3>4. e[r] = s /\ n[r] = counter.count + 1
      BY <2>4, <2>5
    <3>5. Joins(r, Holders, CountedAt, ep, no, s, counter.count, CountedAt', e, n)
      BY <3>1, <3>2, <3>4, <1>5, <1>6 DEF Joins
    <3>6. Ledger(Holders \union {r}, CountedAt', e, n, s, counter.count + 1)
      BY <3>3, <3>5, <1>4, <1>5, LedgerJoins
    <3>7. QED
      BY <3>6, <1>4, <2>3
  <2>7. \A q \in Callers : /\ asking'[q] = "counted" => n[q] = began'[q].count
                           /\ passed'[q].store = "valkey" => n[q] <= limit'
    BY <2>1, <2>5, <1>2 DEF ValkeyLedger
  <2>9. ValkeyLedger(s, e, n)'
    BY <2>6, <2>7, <1>3, <1>4 DEF ValkeyLedger
  <2>10. QED
    BY <2>9 DEF ValkeyCounts
<1>8. CASE r \notin Holders'
  <2>1. asking'[r] # "counted" /\ passed'[r].store # "valkey"
    BY <1>8 DEF Holders
  <2>2. Holders' = Holders
    BY <1>5, <1>8 DEF Holders
  <2>3. Ledger(Holders, CountedAt', ep, no, s, counter.count + 1)
    BY <1>3, <1>4, <1>5, <1>6, LedgerLeaves
  <2>4. Ledger(Holders', CountedAt', ep, no, s, counter'.count)
    BY <2>2, <2>3, <1>4
  <2>5. \A q \in Callers : /\ asking'[q] = "counted" => no[q] = began'[q].count
                           /\ passed'[q].store = "valkey" => no[q] <= limit'
    BY <2>1, <1>2 DEF ValkeyLedger
  <2>6. ValkeyLedger(s, ep, no)'
    BY <2>4, <2>5, <1>3, <1>4 DEF ValkeyLedger
  <2>7. QED
    BY <2>6 DEF ValkeyCounts
<1>9. QED
  BY <1>7, <1>8

LEMMA LimitParts ==
    ASSUME LimitTypeOK', Repaired', ValkeyCounts', MemoryCounts',
           counter'.count = 0 => counter'.expiry = Never, \A r \in Callers : CallOK(r)'
    PROVE  LimitInv'
BY DEF LimitInv

LEMMA NowIsInstant == LimitTypeOK => clock \in Instants
BY DEF LimitTypeOK

LEMMA IncrementKeeps ==
    ASSUME LimitInv, UNCHANGED limit, NEW r \in Callers, RateLimitIncrement(r)
    PROVE  LimitInv'
<1>0. LimitTypeOK /\ Repaired /\ (counter.count = 0 => counter.expiry = Never) /\ \A q \in Callers : CallOK(q)
  BY DEF LimitInv
<1>1. /\ asking[r] = "new" /\ counter' = [counter EXCEPT !.count = @ + 1]
      /\ UNCHANGED <<clock, membucket, forgotten>>
  BY DEF RateLimitIncrement
<1>2. /\ counter' \in [count : Nat, expiry : 0 .. Never]
      /\ counter'.count = counter.count + 1 /\ counter'.expiry = counter.expiry
      /\ counter.count \in Nat /\ counter.count + 1 \in Nat /\ clock \in Nat /\ clock \in Instants
  BY <1>0, <1>1, CounterAdds, LimitTypes, NowIsInstant
<1>3. passed[r].store = "none"
  BY <1>0, <1>1 DEF CallOK
<1>4. CASE counter.count + 1 = 1 \/ counter.expiry = Never
  <2>1. /\ asking' = [asking EXCEPT ![r] = "counted"]
        /\ began' = [began EXCEPT ![r] = [at |-> clock, count |-> counter.count + 1]]
        /\ UNCHANGED passed
    BY <1>4 DEF RateLimitIncrement
  <2>2. LimitTypeOK'
    BY <2>1, <1>0, <1>1, <1>2 DEF LimitTypeOK
  <2>3. /\ asking'[r] = "counted" /\ began'[r].at = clock /\ began'[r].count = counter.count + 1
        /\ passed'[r] = passed[r]
        /\ \A q \in Callers : q # r => /\ asking'[q] = asking[q] /\ passed'[q] = passed[q]
                                       /\ began'[q] = began[q]
    BY <2>1, <1>0 DEF LimitTypeOK
  <2>4. ValkeyCounts'
    BY <2>3, <1>1, CountedCall
  <2>5. MemoryCounts'
    BY <2>1, <1>1, <1>2, MemoryStays
  <2>6. Repaired'
    BY <2>3 DEF Repaired
  <2>7. \A q \in Callers : CallOK(q)'
    <3>1. clock <= clock
      BY <1>2
    <3>2. QED
      BY <2>1, <2>3, <3>1, <1>0, <1>1, <1>3 DEF CallOK
  <2>8. QED
    BY <2>2, <2>4, <2>5, <2>6, <2>7, <1>2, LimitParts
<1>5. CASE ~(counter.count + 1 = 1 \/ counter.expiry = Never)
  <2>1. Decide(r, "valkey", clock, counter.count + 1) /\ UNCHANGED began
    BY <1>5 DEF RateLimitIncrement
  <2>2. /\ asking' \in [Callers -> {"new", "counted", "unanswered", "allowed", "refused"}]
        /\ passed' \in [Callers -> [store : Stores \union {"none"}, at : Instants]]
        /\ \A q \in Callers : q # r => asking'[q] = asking[q] /\ passed'[q] = passed[q]
        /\ \/ counter.count + 1 <= limit /\ asking'[r] = "allowed"
              /\ passed'[r].store = "valkey" /\ passed'[r].at = clock
           \/ asking'[r] = "refused" /\ passed'[r] = passed[r]
    BY <2>1, <1>0, <1>2, DecideEffect DEF Stores
  <2>3. LimitTypeOK'
    BY <2>1, <2>2, <1>0, <1>1, <1>2 DEF LimitTypeOK
  <2>4. ValkeyCounts'
    BY <2>1, <2>2, <1>1, CountedCall
  <2>5. MemoryCounts'
    <3>1. \A q \in Callers : passed'[q].store = "memory" <=> passed[q].store = "memory"
      BY <2>2, <1>3
    <3>2. \A q \in Callers : passed[q].store = "memory" => passed'[q].at = passed[q].at
      BY <2>2, <1>3
    <3>3. QED
      BY <3>1, <3>2, <1>1, <1>2, MemoryStays
  <2>6. Repaired'
    BY <1>2, <1>5 DEF Repaired
  <2>7. \A q \in Callers : CallOK(q)'
    <3>1. clock <= clock
      BY <1>2
    <3>2. QED
      BY <2>1, <2>2, <3>1, <1>0, <1>1, <1>3 DEF CallOK
  <2>8. QED
    BY <2>3, <2>4, <2>5, <2>6, <2>7, <1>2, LimitParts
<1>6. QED
  BY <1>4, <1>5

LEMMA FailsKeeps ==
    ASSUME LimitInv, UNCHANGED limit, NEW r \in Callers, IncrementFails(r)
    PROVE  LimitInv'
<1>0. LimitTypeOK /\ Repaired /\ (counter.count = 0 => counter.expiry = Never) /\ \A q \in Callers : CallOK(q)
  BY DEF LimitInv
<1>1. /\ asking[r] = "new" /\ asking' = [asking EXCEPT ![r] = "unanswered"]
      /\ UNCHANGED <<clock, membucket, began, passed>>
  BY DEF IncrementFails
<1>2. counter.count \in Nat /\ clock \in Nat /\ clock <= clock
  BY <1>0, LimitTypes
<1>3. /\ asking' \in [Callers -> {"new", "counted", "unanswered", "allowed", "refused"}]
      /\ asking'[r] = "unanswered" /\ \A q \in Callers : q # r => asking'[q] = asking[q]
  BY <1>0, <1>1 DEF LimitTypeOK
<1>4. MemoryCounts'
  BY <1>1, <1>2, MemoryStays
<1>5. \A q \in Callers : CallOK(q)'
  BY <1>0, <1>1, <1>3 DEF CallOK
<1>6. \A q \in Callers : asking'[q] = "counted" <=> asking[q] = "counted"
  BY <1>1, <1>3
<1>7. CASE UNCHANGED <<counter, forgotten>>
  <2>1. LimitTypeOK'
    BY <1>0, <1>1, <1>3, <1>7 DEF LimitTypeOK
  <2>2. ValkeyCounts'
    BY <1>1, <1>2, <1>6, <1>7, StillValkey
  <2>3. Repaired'
    BY <1>0, <1>6, <1>7 DEF Repaired
  <2>4. QED
    BY <2>1, <2>2, <2>3, <1>0, <1>4, <1>5, <1>7, LimitParts
<1>8. CASE /\ counter' = [counter EXCEPT !.count = @ + 1]
           /\ forgotten' = (forgotten \/ counter.count = 0)
  <2>1. /\ counter' \in [count : Nat, expiry : 0 .. Never]
        /\ counter'.count = counter.count + 1 /\ counter'.expiry = counter.expiry
    BY <1>0, <1>8, CounterAdds
  <2>2. forgotten' \in BOOLEAN
    BY <1>8
  <2>3. LimitTypeOK'
    BY <2>1, <2>2, <1>0, <1>1, <1>3 DEF LimitTypeOK
  <2>4. ValkeyCounts'
    BY <1>1, <1>3, <1>8, CountedCall
  <2>5. Repaired'
    <3>1. CASE counter.count = 0
      BY <3>1, <1>8 DEF Repaired
    <3>2. CASE counter.count # 0
      <4>1. forgotten \in BOOLEAN
        BY <1>0 DEF LimitTypeOK
      <4>2. forgotten' = forgotten
        BY <3>2, <4>1, <1>8
      <4>3. counter.count > 0
        BY <3>2, <1>2
      <4>4. QED
        BY <4>2, <4>3, <2>1, <1>0, <1>6 DEF Repaired
    <3>3. QED
      BY <3>1, <3>2
  <2>6. QED
    BY <2>1, <2>3, <2>4, <2>5, <1>2, <1>4, <1>5, LimitParts
<1>9. QED
  BY <1>7, <1>8 DEF IncrementFails

LEMMA ExpireKeeps ==
    ASSUME LimitInv, UNCHANGED limit, NEW r \in Callers, Expire(r)
    PROVE  LimitInv'
<1>0. LimitTypeOK /\ Repaired /\ (counter.count = 0 => counter.expiry = Never) /\ \A q \in Callers : CallOK(q)
  BY DEF LimitInv
<1>1. /\ asking[r] = "counted" /\ Decide(r, "valkey", began[r].at, began[r].count)
      /\ began' = [began EXCEPT ![r] = [at |-> 0, count |-> 0]]
      /\ UNCHANGED <<clock, membucket>>
  BY DEF Expire
<1>2. /\ counter.count \in Nat /\ counter.expiry \in Nat /\ clock \in Nat /\ clock <= Latest
      /\ clock <= clock /\ Never = Latest + Window + 1 /\ Never \in Nat /\ clock \in Instants
      /\ began[r].at \in Instants /\ began[r].count \in Nat /\ 0 \in Instants
  BY <1>0, LimitTypes, NowIsInstant, RateLimitAssumption DEF LimitTypeOK, Instants
<1>3. /\ asking' \in [Callers -> {"new", "counted", "unanswered", "allowed", "refused"}]
      /\ passed' \in [Callers -> [store : Stores \union {"none"}, at : Instants]]
      /\ \A q \in Callers : q # r => asking'[q] = asking[q] /\ passed'[q] = passed[q]
      /\ \/ began[r].count <= limit /\ asking'[r] = "allowed"
            /\ passed'[r].store = "valkey" /\ passed'[r].at = began[r].at
         \/ asking'[r] = "refused" /\ passed'[r] = passed[r]
  BY <1>0, <1>1, <1>2, DecideEffect DEF Stores
<1>4. passed[r].store = "none" /\ r \in Holders
  BY <1>0, <1>1 DEF CallOK, Holders
<1>5. /\ began' \in [Callers -> [at : Instants, count : Nat]]
      /\ began'[r].at = 0 /\ \A q \in Callers : q # r => began'[q] = began[q]
  BY <1>0, <1>1, <1>2 DEF LimitTypeOK
<1>6. /\ counter' \in [count : Nat, expiry : 0 .. Never] /\ counter'.count = counter.count
      /\ counter'.count = 0 => counter'.expiry = Never
      /\ counter'.count > 0 => counter'.expiry = counter.expiry \/ counter'.expiry = clock + Window
      /\ counter'.count > 0 /\ counter'.expiry = Never => forgotten'
      /\ forgotten' \in BOOLEAN
  <2>0. counter \in [count : Nat, expiry : 0 .. Never]
    BY <1>0 DEF LimitTypeOK
  <2>1. CASE UNCHANGED counter /\ forgotten' = TRUE
    BY <2>0, <2>1, <1>0
  <2>2. CASE counter.count = 0 /\ UNCHANGED counter /\ forgotten' = FALSE
    <3>1. counter' = counter /\ counter'.count = 0
      BY <2>2
    <3>2. forgotten' \in BOOLEAN
      BY <2>2
    <3>3. ~(counter'.count > 0)
      BY <3>1
    <3>4. QED
      BY <2>0, <3>1, <3>2, <3>3, <1>0
  <2>3. CASE counter.count # 0 /\ counter' = [counter EXCEPT !.expiry = clock + Window] /\ forgotten' = FALSE
    <3>1. clock + Window \in 0 .. Never /\ clock + Window # Never
      BY <1>2, WindowNat
    <3>2. counter' \in [count : Nat, expiry : 0 .. Never] /\ counter'.count = counter.count
          /\ counter'.expiry = clock + Window
      BY <2>0, <2>3, <3>1
    <3>3. QED
      BY <2>3, <3>1, <3>2
  <2>4. QED
    BY <2>1, <2>2, <2>3 DEF Expire
<1>7. LimitTypeOK'
  BY <1>0, <1>1, <1>3, <1>5, <1>6 DEF LimitTypeOK
<1>8. Repaired'
  BY <1>6 DEF Repaired
<1>9. \A q \in Callers : CallOK(q)'
  BY <1>0, <1>1, <1>2, <1>3, <1>4, <1>5 DEF CallOK
<1>10. MemoryCounts'
  <2>1. \A q \in Callers : passed'[q].store = "memory" <=> passed[q].store = "memory"
    BY <1>3, <1>4
  <2>2. \A q \in Callers : passed[q].store = "memory" => passed'[q].at = passed[q].at
    BY <1>3, <1>4
  <2>3. QED
    BY <2>1, <2>2, <1>1, <1>2, MemoryStays
<1>11. ValkeyCounts'
  <2>1. PICK start \in Nat : \E ep, no \in [Callers -> Nat] : ValkeyLedger(start, ep, no)
    BY DEF LimitInv, ValkeyCounts
  <2>2. PICK ep \in [Callers -> Nat], no \in [Callers -> Nat] : ValkeyLedger(start, ep, no)
    BY <2>1
  <2>3. Holders' \in SUBSET Holders /\ Holders \in SUBSET Callers
    BY <1>3, <1>4 DEF Holders
  <2>4. \A q \in Holders' : CountedAt'[q] = CountedAt[q]
    BY <1>1, <1>3, <1>4, <1>5 DEF CountedAt, Holders
  <2>5. Ledger(Holders, CountedAt, ep, no, start, counter.count) /\ counter.count <= counter.count
    BY <2>2, <1>2 DEF ValkeyLedger
  <2>6. Ledger(Holders', CountedAt', ep, no, start, counter.count)
    BY <2>3, <2>4, <2>5, <1>2, LedgerLeaves
  <2>7. counter'.count > 0 => start + Window <= counter'.expiry
    BY <2>2, <1>2, <1>6, WindowNat DEF ValkeyLedger
  <2>8. \A q \in Callers : /\ asking'[q] = "counted" => no[q] = began'[q].count
                           /\ passed'[q].store = "valkey" => no[q] <= limit'
    BY <2>2, <1>1, <1>3, <1>4, <1>5 DEF ValkeyLedger
  <2>9. ValkeyLedger(start, ep, no)'
    BY <2>2, <2>6, <2>7, <2>8, <1>1, <1>6 DEF ValkeyLedger
  <2>10. QED
    BY <2>9 DEF ValkeyCounts
<1>12. QED
  BY <1>6, <1>7, <1>8, <1>9, <1>10, <1>11, LimitParts

LEMMA TickKeeps ==
    ASSUME LimitInv, UNCHANGED limit, Tick
    PROVE  LimitInv'
<1>0. LimitTypeOK /\ Repaired /\ (counter.count = 0 => counter.expiry = Never) /\ \A q \in Callers : CallOK(q)
  BY DEF LimitInv
<1>1. /\ clock < Latest /\ clock' = clock + 1
      /\ UNCHANGED <<membucket, asking, began, forgotten, passed>>
  BY DEF Tick
<1>2. /\ counter.count \in Nat /\ counter.expiry \in Nat /\ clock \in Nat /\ clock' \in Nat
      /\ clock <= clock' /\ clock' \in Instants /\ Never = Latest + Window + 1 /\ Never \in Nat
      /\ \A q \in Callers : began[q].at \in Nat /\ passed[q].at \in Nat
  BY <1>0, <1>1, LimitTypes, RateLimitAssumption DEF Instants
<1>3. /\ counter' \in [count : Nat, expiry : 0 .. Never]
      /\ UNCHANGED counter \/ (counter.expiry <= clock' /\ counter'.count = 0 /\ counter'.expiry = Never)
  BY <1>0, <1>2 DEF Tick, NoCounter, LimitTypeOK
<1>4. LimitTypeOK'
  BY <1>0, <1>1, <1>2, <1>3 DEF LimitTypeOK
<1>5. Repaired'
  BY <1>0, <1>1, <1>3 DEF Repaired
<1>6. \A q \in Callers : CallOK(q)'
  BY <1>0, <1>1, <1>2 DEF CallOK
<1>7. MemoryCounts'
  BY <1>1, <1>2, MemoryStays
<1>8. ValkeyCounts'
  <2>1. CASE UNCHANGED counter
    BY <2>1, <1>1, <1>2, StillValkey
  <2>2. CASE counter.expiry <= clock' /\ counter'.count = 0
    <3>1. PICK start \in Nat : \E ep, no \in [Callers -> Nat] : ValkeyLedger(start, ep, no)
      BY DEF LimitInv, ValkeyCounts
    <3>2. PICK ep \in [Callers -> Nat], no \in [Callers -> Nat] : ValkeyLedger(start, ep, no)
      BY <3>1
    <3>3. counter.count > 0 /\ start + Window <= clock'
      BY <3>2, <2>2, <1>0, <1>1, <1>2, WindowNat, LimitTypes DEF ValkeyLedger
    <3>4. Ledger(Holders, CountedAt, ep, no, start, counter.count) /\ Holders \in SUBSET Callers
      BY <3>2 DEF ValkeyLedger, Holders
    <3>5. \A q \in Holders : CountedAt[q] \in Nat /\ CountedAt[q] <= clock
      BY <1>0, <1>2 DEF CountedAt, CallOK, Holders
    <3>6. \A q \in Holders : ep[q] + Window <= clock' /\ CountedAt[q] < clock'
      BY <3>3, <3>4, <3>5, <1>1, <1>2, WindowNat DEF Ledger
    <3>7. Ledger(Holders, CountedAt, ep, no, clock', 0)
      BY <3>4, <3>6, <1>2, LedgerOpens
    <3>8. clock' <= clock' /\ 0 \in Nat /\ 0 <= 0 /\ ~(0 > 0)
      BY <1>2
    <3>9. QED
      BY <3>2, <3>7, <3>8, <2>2, <1>1, <1>2, ValkeyStays
  <2>3. QED
    BY <1>3, <2>1, <2>2
<1>9. QED
  BY <1>0, <1>3, <1>4, <1>5, <1>6, <1>7, <1>8, LimitParts

LEMMA MemoryKeeps ==
    ASSUME LimitInv, UNCHANGED limit, NEW r \in Callers, AllowInMemory(r)
    PROVE  LimitInv'
<1>0. LimitTypeOK /\ Repaired /\ (counter.count = 0 => counter.expiry = Never) /\ \A q \in Callers : CallOK(q)
  BY DEF LimitInv
<1>1. /\ asking[r] = "unanswered" /\ UNCHANGED <<clock, counter, began, forgotten>>
      /\ Decide(r, "memory", clock, membucket'.count)
  BY DEF AllowInMemory
<1>2. /\ clock \in Nat /\ clock <= clock /\ clock \in Instants
      /\ membucket.count \in Nat /\ membucket.reset \in Nat
      /\ \A q \in Callers : passed[q].at \in Nat
  BY <1>0, LimitTypes, NowIsInstant
(* The bucket's epoch, and the number of the call in it. *)
<1>3. PICK start \in Nat : \E ep, no \in [Callers -> Nat] : MemoryLedger(start, ep, no)
  BY DEF LimitInv, MemoryCounts
<1>4. PICK ep \in [Callers -> Nat], no \in [Callers -> Nat] : MemoryLedger(start, ep, no)
  BY <1>3
<1>5. /\ InMemory \in SUBSET Callers /\ r \notin InMemory /\ passed[r].store = "none"
      /\ \A q \in InMemory : PassedAt[q] \in Nat /\ PassedAt[q] <= clock /\ PassedAt[q] = passed[q].at
  BY <1>0, <1>1, <1>2 DEF InMemory, PassedAt, CallOK
<1>6. PICK s \in Nat, k \in Nat :
         /\ s <= clock /\ Ledger(InMemory, PassedAt, ep, no, s, k)
         /\ membucket' \in [count : Nat, reset : Nat]
         /\ membucket'.count = k + 1 /\ membucket'.reset = s + Window /\ clock <= s + Window
  <2>1. CASE membucket.count = 0 \/ clock > membucket.reset
    <3>1. membucket' = [count |-> 1, reset |-> clock + Window]
      BY <2>1 DEF AllowInMemory, NewBucket
    <3>2. /\ membucket' \in [count : Nat, reset : Nat]
          /\ membucket'.count = 0 + 1 /\ membucket'.reset = clock + Window /\ clock <= clock + Window
      BY <3>1, <1>2, WindowNat
    <3>3. \A q \in InMemory : ep[q] + Window <= clock /\ PassedAt[q] < clock
      <4>1. CASE membucket.count = 0
        <5>1. Ledger(InMemory, PassedAt, ep, no, start, 0) /\ start <= clock
          BY <4>1, <1>4 DEF MemoryLedger
        <5>2. QED
          BY <5>1, <1>2, <1>5, LedgerEmpty
      <4>2. CASE membucket.count # 0
        <5>1. /\ start + Window < clock /\ \A q \in InMemory : PassedAt[q] < clock
              /\ Ledger(InMemory, PassedAt, ep, no, start, membucket.count)
          BY <4>2, <2>1, <1>2, <1>4, <1>5, WindowNat DEF MemoryLedger
        <5>2. QED
          BY <5>1, <1>2, <1>5, WindowNat DEF Ledger
      <4>3. QED
        BY <4>1, <4>2
    <3>4. Ledger(InMemory, PassedAt, ep, no, clock, 0)
      <4>1. Ledger(InMemory, PassedAt, ep, no, start, membucket.count)
        BY <1>4 DEF MemoryLedger
      <4>2. QED
        BY <4>1, <3>3, <1>2, <1>5, LedgerOpens
    <3>5. QED
      BY <3>2, <3>4, <1>2
  <2>2. CASE ~(membucket.count = 0 \/ clock > membucket.reset)
    <3>1. membucket' = [membucket EXCEPT !.count = @ + 1]
      BY <2>2 DEF AllowInMemory
    <3>2. /\ membucket' \in [count : Nat, reset : Nat]
          /\ membucket'.count = membucket.count + 1 /\ membucket'.reset = membucket.reset
      BY <3>1, <1>0 DEF LimitTypeOK
    <3>3. membucket.reset = start + Window /\ start <= clock /\ clock <= membucket.reset
          /\ Ledger(InMemory, PassedAt, ep, no, start, membucket.count)
      BY <2>2, <1>2, <1>4 DEF MemoryLedger
    <3>4. QED
      BY <3>2, <3>3, <1>2
  <2>3. QED
    BY <2>1, <2>2
<1>7. /\ asking' \in [Callers -> {"new", "counted", "unanswered", "allowed", "refused"}]
      /\ passed' \in [Callers -> [store : Stores \union {"none"}, at : Instants]]
      /\ \A q \in Callers : q # r => asking'[q] = asking[q] /\ passed'[q] = passed[q]
      /\ \/ k + 1 <= limit /\ asking'[r] = "allowed"
            /\ passed'[r].store = "memory" /\ passed'[r].at = clock
         \/ asking'[r] = "refused" /\ passed'[r] = passed[r]
  <2>1. k + 1 \in Nat /\ Decide(r, "memory", clock, k + 1)
    BY <1>1, <1>6
  <2>2. QED
    BY <2>1, <1>0, <1>2, DecideEffect DEF Stores
<1>8. LimitTypeOK'
  BY <1>0, <1>1, <1>6, <1>7 DEF LimitTypeOK
<1>9. \A q \in Callers : asking'[q] = "counted" <=> asking[q] = "counted"
  BY <1>1, <1>7
<1>10. Repaired'
  BY <1>0, <1>1, <1>9 DEF Repaired
<1>11. \A q \in Callers : CallOK(q)'
  BY <1>0, <1>1, <1>2, <1>5, <1>7 DEF CallOK
<1>12. ValkeyCounts'
  <2>1. \A q \in Callers : passed'[q].store = "valkey" <=> passed[q].store = "valkey"
    BY <1>5, <1>7
  <2>2. \A q \in Callers : passed[q].store = "valkey" => passed'[q].at = passed[q].at
    BY <1>5, <1>7
  <2>3. QED
    BY <2>1, <2>2, <1>1, <1>2, <1>9, StillValkey
<1>13. MemoryCounts'
  <2>1. \A q \in InMemory : PassedAt'[q] = PassedAt[q] /\ passed'[q].at = passed[q].at
    BY <1>5, <1>7 DEF PassedAt
  <2>2. CASE r \in InMemory'
    <3>1. InMemory' = InMemory \union {r} /\ k + 1 <= limit /\ passed'[r].at = clock /\ PassedAt'[r] = clock
      BY <2>2, <1>5, <1>7 DEF InMemory, PassedAt
    <3>2. PICK e \in [Callers -> Nat] : e[r] = s /\ \A q \in Callers : q # r => e[q] = ep[q]
      <4>1. [ep EXCEPT ![r] = s] \in [Callers -> Nat]
        OBVIOUS
      <4>2. QED
        BY <4>1
    <3>3. PICK n \in [Callers -> Nat] : n[r] = k + 1 /\ \A q \in Callers : q # r => n[q] = no[q]
      <4>1. [no EXCEPT ![r] = k + 1] \in [Callers -> Nat]
        OBVIOUS
      <4>2. QED
        BY <4>1
    <3>4. Joins(r, InMemory, PassedAt, ep, no, s, k, PassedAt', e, n)
      BY <3>1, <3>2, <3>3, <2>1, <1>5, <1>6 DEF Joins
    <3>5. Ledger(InMemory \union {r}, PassedAt', e, n, s, k + 1)
      BY <3>4, <1>5, <1>6, LedgerJoins
    <3>6. Ledger(InMemory', PassedAt', e, n, s, membucket'.count)
      BY <3>1, <3>5, <1>6
    <3>7. \A q \in InMemory' : n[q] <= limit
      BY <3>1, <3>3, <1>4, <1>5 DEF MemoryLedger
    <3>8. \A q \in InMemory' : passed'[q].at <= membucket'.reset
      BY <3>1, <2>1, <1>2, <1>5, <1>6, WindowNat
    <3>9. MemoryLedger(s, e, n)'
      BY <3>6, <3>7, <3>8, <1>1, <1>6 DEF MemoryLedger
    <3>10. QED
      BY <3>9 DEF MemoryCounts
  <2>3. CASE r \notin InMemory'
    <3>1. InMemory' = InMemory
      BY <2>3, <1>5, <1>7 DEF InMemory
    <3>2. Ledger(InMemory, PassedAt', ep, no, s, k + 1)
      <4>1. InMemory \in SUBSET InMemory /\ k + 1 \in Nat /\ k <= k + 1
        OBVIOUS
      <4>2. QED
        BY <4>1, <2>1, <1>5, <1>6, LedgerLeaves
    <3>3. Ledger(InMemory', PassedAt', ep, no, s, membucket'.count)
      BY <3>1, <3>2, <1>6
    <3>4. \A q \in InMemory' : no[q] <= limit
      BY <3>1, <1>4 DEF MemoryLedger
    <3>5. \A q \in InMemory' : passed'[q].at <= membucket'.reset
      BY <3>1, <2>1, <1>2, <1>5, <1>6, WindowNat
    <3>6. MemoryLedger(s, ep, no)'
      BY <3>3, <3>4, <3>5, <1>1, <1>6 DEF MemoryLedger
    <3>7. QED
      BY <3>6 DEF MemoryCounts
  <2>4. QED
    BY <2>2, <2>3
<1>14. QED
  BY <1>0, <1>1, <1>8, <1>10, <1>11, <1>12, <1>13, LimitParts

LEMMA LimitInvStep == LimitInv /\ [LimitNext]_limitVars => LimitInv'
<1> SUFFICES ASSUME LimitInv, [LimitNext]_limitVars PROVE LimitInv'
  OBVIOUS
<1>1. CASE UNCHANGED limitVars
  <2>1. clock' = clock /\ clock \in Nat /\ clock <= clock
    BY <1>1, LimitTypes DEF limitVars, LimitInv
  <2>2. ValkeyCounts' /\ MemoryCounts'
    BY <1>1, <2>1, StillValkey, MemoryStays DEF limitVars
  <2>3. QED
    BY <1>1, <2>2, LimitParts DEF limitVars, LimitInv, LimitTypeOK, Repaired, CallOK
<1>2. QED
  BY <1>1, IncrementKeeps, ExpireKeeps, FailsKeeps, MemoryKeeps, TickKeeps DEF LimitNext

(* Calls passed by a store in a span are told apart by their epochs and numbers. *)
LEMMA LimitInvHolds == LimitInv => LimitHolds
<1> SUFFICES ASSUME LimitInv PROVE LimitHolds
  OBVIOUS
<1>0. LimitTypeOK /\ limit \in Nat /\ \A q \in Callers : CallOK(q) /\ passed[q].at \in Nat /\ began[q].at \in Nat
  BY LimitTypes DEF LimitInv
<1>1. ASSUME NEW from \in Instants PROVE Cardinality(Passed("memory", from .. from + Window)) <= 2 * limit
  <2> DEFINE P == Passed("memory", from .. from + Window)
  <2>1. PICK start \in Nat : \E ep, no \in [Callers -> Nat] : MemoryLedger(start, ep, no)
    BY DEF LimitInv, MemoryCounts
  <2>2. PICK ep \in [Callers -> Nat], no \in [Callers -> Nat] : MemoryLedger(start, ep, no)
    BY <2>1
  <2>3. P \in SUBSET InMemory /\ InMemory \in SUBSET Callers /\ from \in Nat
    BY DEF Passed, InMemory, Instants
  <2>4. Ledger(P, PassedAt, ep, no, start, membucket.count)
    BY <2>2, <2>3 DEF MemoryLedger, Ledger
  <2>5. \A r \in P : /\ PassedAt[r] \in Nat /\ ep[r] \in Nat /\ no[r] \in Nat
                     /\ no[r] <= limit /\ PassedAt[r] \in from .. from + Window
    BY <2>2, <2>3, <1>0 DEF MemoryLedger, PassedAt, Passed
  <2> HIDE DEF P
  <2>6. Cardinality(P) <= 2 * limit
    BY <2>3, <2>4, <2>5, <1>0, TwoEpochs
  <2>7. QED
    BY <2>6 DEF P
<1>2. ASSUME NEW from \in Instants PROVE Cardinality(Passed("valkey", from .. from + Window)) <= 2 * limit
  <2> DEFINE P == Passed("valkey", from .. from + Window)
  <2>1. PICK start \in Nat : \E ep, no \in [Callers -> Nat] : ValkeyLedger(start, ep, no)
    BY DEF LimitInv, ValkeyCounts
  <2>2. PICK ep \in [Callers -> Nat], no \in [Callers -> Nat] : ValkeyLedger(start, ep, no)
    BY <2>1
  <2>3. P \in SUBSET Holders /\ Holders \in SUBSET Callers /\ from \in Nat
    BY DEF Passed, Holders, Instants
  <2>4. Ledger(P, CountedAt, ep, no, start, counter.count)
    BY <2>2, <2>3 DEF ValkeyLedger, Ledger
  <2>5. ASSUME NEW r \in P
        PROVE  /\ CountedAt[r] \in Nat /\ ep[r] \in Nat /\ no[r] \in Nat
               /\ no[r] <= limit /\ CountedAt[r] \in from .. from + Window
    <3>1. r \in Callers /\ passed[r].store = "valkey" /\ passed[r].at \in from .. from + Window
      BY DEF Passed
    <3>2. asking[r] # "counted"
      BY <3>1, <1>0 DEF CallOK
    <3>3. CountedAt[r] = passed[r].at
      BY <3>1, <3>2 DEF CountedAt
    <3>4. QED
      BY <3>1, <3>3, <2>2, <1>0 DEF ValkeyLedger
  <2> HIDE DEF P
  <2>6. Cardinality(P) <= 2 * limit
    BY <2>3, <2>4, <2>5, <1>0, TwoEpochs
  <2>7. QED
    BY <2>6 DEF P
<1>3. QED
  BY <1>1, <1>2 DEF LimitHolds, Stores, LimitInv, Repaired

(* However Valkey, its clock and the commands of its callers interleave,   *)
(* and whatever gets lost, neither store lets more than twice the limit    *)
(* pass in any span as long as a window, and no counter stays without a    *)
(* time to live unless its EXPIRE was lost (ratelimit.go, valkey.go).      *)
THEOREM LimitKept == LimitSpec => []LimitHolds
BY LimitInvInit, LimitInvStep, LimitInvHolds, PTL DEF LimitSpec

-----------------------------------------------------------------------------
(* The composition. *)

(* Side paths share nothing: a behaviour of theirs is one of each, under   *)
(* its own specification (alerts, rate limiter, older outbox, replay lab). *)
THEOREM SideParts == SideSpec => AlertsSpec /\ LimitSpec /\ ForwardingSpec /\ LabSpec
<1>1. SideInit => AlertsInit /\ LimitInit /\ ForwardingInit /\ LabInit
  BY DEF SideInit
<1>2. SideNext \/ UNCHANGED sideVars =>
          /\ [AlertsNext]_alertsVars /\ [LimitNext]_limitVars
          /\ [ForwardingNext]_forwardingVars /\ [LabNext]_labVars
  BY DEF SideNext, sideVars
<1>3. QED
  BY <1>1, <1>2, PTL DEF SideSpec, AlertsSpec, LimitSpec, ForwardingSpec, LabSpec

(* Beside the other paths too, no store lets more than twice the limit     *)
(* pass in a window's span, and no counter refuses for ever.               *)
THEOREM SideLimitKept == SideSpec => []LimitHolds
BY SideParts, LimitKept, PTL

LEMMA AlertsInvHolds == AlertsSpec => []DigestInv /\ []FindingsInv
BY DigestInvInit, DigestInvStep, FindingsInvInit, FindingsInvStep, PTL DEF AlertsSpec

(* A failed delivery is told in exactly one message, or waits for one, or  *)
(* went down with the process or a channel; a finding reaches only         *)
(* channels that asked for it, and none twice that accepted it: for any    *)
(* number of endpoints, failures, channels and webhooks                    *)
(* (alert_service.go, digest.go).                                          *)
THEOREM SideAlertsToldOnce == SideSpec => []AlertsToldOnce
<1>1. DigestInv /\ FindingsInv => AlertsToldOnce
  BY DigestInvConserves DEF AlertsToldOnce, FindingsInv, ChannelOK, FindingsToldOnce
<1>2. QED
  BY <1>1, SideParts, AlertsInvHolds, PTL

(* The rows of the older outbox and of the replay lab tell what happened,  *)
(* for any number of webhooks, retries, runs and captured requests: SENT   *)
(* and FORWARDED come only from an acknowledgement, the verdict and counts *)
(* of a run are those of its requests, and what stays RUNNING was cut off. *)
THEOREM SideOutcomesTrue == SideSpec => []OutcomesTrue
<1>1. ForwardingInv => LegacyHonest
  BY DEF ForwardingInv, ToldByUpstream, Undisturbed, LegacyHonest
<1>2. LegacyHonest /\ LabHonest => OutcomesTrue
  BY DEF OutcomesTrue
<1>3. QED
  BY <1>1, <1>2, SideParts, ForwardingInvHolds, LabInvHolds, LabInvHonest, PTL

LEMMA AlertsTyped == DigestInv /\ FindingsInv => AlertsTypeOK
<1> SUFFICES ASSUME DigestInv, FindingsInv PROVE AlertsTypeOK
  OBVIOUS
<1>1. FindingTypeOK /\ Tries \in Nat /\ \A t \in Tasks, c \in Rooms :
          posts[t][c] \in 0 .. Tries /\ accepted[t][c] \in 0 .. Tries
  <2>1. ASSUME NEW t \in Tasks, NEW c \in Rooms
        PROVE  posts[t][c] \in 0 .. Tries /\ accepted[t][c] \in 0 .. Tries
    <3>1. posts[t][c] \in Nat /\ accepted[t][c] \in Nat /\ Tries \in Nat
      BY AlertsAssumption DEF FindingsInv, FindingTypeOK
    <3>2. posts[t][c] <= Tries /\ (accepted[t][c] > 0 => posts[t][c] = accepted[t][c])
      BY DEF FindingsInv, ChannelOK
    <3>3. QED
      BY <3>1, <3>2
  <2>2. QED
    BY <2>1, AlertsAssumption DEF FindingsInv
<1>2. posts \in [Tasks -> [Rooms -> 0 .. Tries]] /\ accepted \in [Tasks -> [Rooms -> 0 .. Tries]]
  BY <1>1 DEF FindingTypeOK
<1>3. QED
  BY <1>1, <1>2, DigestInvTyped DEF FindingTypeOK, AlertsTypeOK

(* Every row, counter and task of the side paths has its type: no channel  *)
(* is posted to more often than the code tries, no bucket holds a failure  *)
(* that never happened, and no counter outlives its key.                   *)
THEOREM SideTyped == SideSpec => []SideTypeOK
<1>1. LimitInv => LimitTypeOK
  BY DEF LimitInv
<1>2. LimitSpec => []LimitTypeOK
  BY <1>1, LimitInvInit, LimitInvStep, PTL DEF LimitSpec
<1>3. AlertsTypeOK /\ LimitTypeOK /\ ForwardingTypeOK /\ LabTypeOK => SideTypeOK
  BY DEF SideTypeOK
<1>4. QED
  BY <1>2, <1>3, SideParts, AlertsInvHolds, AlertsTyped, ForwardingTypes, LabTypes, PTL
=============================================================================
