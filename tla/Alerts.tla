------------------------------- MODULE Alerts -------------------------------
(***************************************************************************)
(* Alerts to the channels of a project (internal/service/alert_service.go  *)
(* and internal/alerting).  A failed delivery is told at once or collected *)
(* in the digest of its endpoint, which a ticker, a threshold or Close     *)
(* turns into one summary; a summary is told by a goroutine of its own.    *)
(* The findings of a webhook are told by a task of the worker pool, which  *)
(* posts each to each channel up to three times.                           *)
(*                                                                         *)
(* Time passes in ticks of the digest's ticker, half a window each.  What  *)
(* is in memory is gone when the process ends.                             *)
(***************************************************************************)
EXTENDS Naturals, FiniteSets

CONSTANTS
    Hosts,      \* endpoints whose deliveries fail
    Threshold,  \* failures that make a summary at once: 10 in the code
    MostFailures, \* how many deliveries fail (bound)
    Tasks,      \* webhooks with findings to tell
    Severity,   \* the severity of each of them
    Rooms,      \* alert channels
    Enabled,    \* the channels that are enabled
    MinSeverity, \* the lowest severity each asks for
    Tries       \* posts of one alert to one channel: 3 in the code

Severities == 1 .. 4

ASSUME AlertsAssumption ==
    /\ Threshold \in Nat \ {0} /\ MostFailures \in Nat /\ Tries \in Nat \ {0}
    /\ Severity \in [Tasks -> Severities]
    /\ MinSeverity \in [Rooms -> Severities]
    /\ Enabled \subseteq Rooms

VARIABLES
    buckets,   \* the digest of each endpoint: its failures and the ticks it has seen
    summaries, \* summaries (of failures) still to be told
    instants,  \* failures being told at once
    recorded,  \* how many failures were recorded so far: they are numbered
    told,      \* failures told to the channels
    untold,    \* failures whose telling failed, or which the process took along
    open,      \* whether the digest's loop runs
    telling,   \* where the task of each webhook is
    unposted,  \* the channels it has still to post to
    room,      \* the channel it is posting to
    posts,     \* posts of each webhook's finding to each channel
    accepted   \* which of those posts the channel accepted, if any

digestVars == <<buckets, summaries, instants, recorded, told, untold, open>>
findingVars == <<telling, unposted, room, posts, accepted>>
alertsVars == <<digestVars, findingVars>>

NoRoom == [id |-> "none"]
InRoom(c) == [id |-> c]

Failures == 1 .. MostFailures

AlertsTypeOK ==
    /\ buckets \in [Hosts -> [failures : SUBSET Failures, ticks : Nat]]
    /\ summaries \in SUBSET (SUBSET Failures)
    /\ {instants, told, untold} \subseteq SUBSET Failures
    /\ recorded \in 0 .. MostFailures
    /\ open \in BOOLEAN
    /\ telling \in [Tasks -> {"unsent", "queued", "running", "finished", "unscheduled"}]
    /\ unposted \in [Tasks -> SUBSET Rooms]
    /\ room \in [Tasks -> {InRoom(c) : c \in Rooms} \union {NoRoom}]
    /\ posts \in [Tasks -> [Rooms -> 0 .. Tries]]
    /\ accepted \in [Tasks -> [Rooms -> 0 .. Tries]]

NoBucket == [failures |-> {}, ticks |-> 0]

AlertsInit ==
    /\ buckets = [e \in Hosts |-> NoBucket]
    /\ summaries = {} /\ instants = {} /\ told = {} /\ untold = {}
    /\ recorded = 0 /\ open = TRUE
    /\ telling = [t \in Tasks |-> "unsent"]
    /\ unposted = [t \in Tasks |-> {}]
    /\ room = [t \in Tasks |-> NoRoom]
    /\ posts = [t \in Tasks |-> [c \in Rooms |-> 0]]
    /\ accepted = [t \in Tasks |-> [c \in Rooms |-> 0]]

-----------------------------------------------------------------------------
(* The digest; every operation of it holds its mutex. *)

(* MUTANT: the bucket stays where it is.                                   *)
flushBucketKept(chosen, ticks) ==
    /\ summaries' = summaries \union {buckets[e].failures : e \in chosen}
    /\ buckets' = [e \in Hosts |-> [buckets[e] EXCEPT !.ticks = ticks[e]]]

(* Each chosen bucket becomes a summary. *)
flushBucketLocked(chosen, ticks) ==
    /\ summaries' = summaries \union {buckets[e].failures : e \in chosen}
    /\ buckets' = [e \in Hosts |->
          IF e \in chosen THEN NoBucket ELSE [buckets[e] EXCEPT !.ticks = ticks[e]]]

(* A failure that reaches the threshold is flushed with its bucket.        *)
RecordFailure(e, failure) ==
    LET failures == buckets[e].failures \union {failure} IN
    /\ IF Cardinality(failures) >= Threshold
       THEN /\ summaries' = summaries \union {failures}
            /\ buckets' = [buckets EXCEPT ![e] = NoBucket]
       ELSE /\ buckets' = [buckets EXCEPT ![e].failures = failures]
            /\ UNCHANGED summaries
    /\ UNCHANGED instants

Waiting == {e \in Hosts : buckets[e].failures # {}}

FlushAll == flushBucketLocked(Waiting, [e \in Hosts |-> buckets[e].ticks])

(* The ticker.  A bucket was filled some time between two ticks, so at its *)
(* second tick it may be a window old, and at its third it is.             *)
checkAndFlushExpired ==
    LET older == [e \in Hosts |-> IF e \in Waiting THEN buckets[e].ticks + 1 ELSE 0] IN
    \E early \in SUBSET {e \in Waiting : older[e] = 2} :
        flushBucketLocked({e \in Waiting : older[e] >= 3} \union early, older)

periodicFlushLoop ==
    /\ open /\ Waiting # {}
    /\ checkAndFlushExpired
    /\ UNCHANGED <<instants, recorded, told, untold, open, findingVars>>

Close ==
    /\ open /\ open' = FALSE
    /\ FlushAll
    /\ UNCHANGED <<instants, recorded, told, untold, findingVars>>

-----------------------------------------------------------------------------
(* Failures of deliveries. *)

(* A refusal for good, or the end of a delivery, is told at once.          *)
RecordDeliveryFailure(e) ==
    LET failure == recorded + 1 IN
    /\ recorded < MostFailures /\ recorded' = failure
    /\ \/ RecordFailure(e, failure)
       \/ instants' = instants \union {failure} /\ UNCHANGED <<buckets, summaries>>
    /\ UNCHANGED <<told, untold, open, findingVars>>

(* One post to each channel; the alert is told if one of them accepts.     *)
Counts(failures) ==
    /\ \/ Enabled # {} /\ told' = told \union failures /\ UNCHANGED untold
       \/ untold' = untold \union failures /\ UNCHANGED told
    /\ UNCHANGED <<recorded, open, buckets, findingVars>>

dispatchDeliveryAlertToChannels ==
    \/ \E failure \in instants :
          instants' = instants \ {failure} /\ Counts({failure}) /\ UNCHANGED summaries
    \/ \E summary \in summaries :
          summaries' = summaries \ {summary} /\ Counts(summary) /\ UNCHANGED instants

-----------------------------------------------------------------------------
(* Findings of a webhook. *)

At(t, from, to) == telling[t] = from /\ telling' = [telling EXCEPT ![t] = to]

(* A pool that is full or closed does not take the task. *)
DispatchForFindings(t) ==
    /\ At(t, "unsent", "queued") \/ At(t, "unsent", "unscheduled")
    /\ UNCHANGED <<digestVars, unposted, room, posts, accepted>>

Asked(t) == {c \in Enabled : Severity[t] >= MinSeverity[c]}

(* Channels that cannot be listed are not told. *)
LoadChannels(t) ==
    /\ \/ At(t, "queued", "running") /\ unposted' = [unposted EXCEPT ![t] = Asked(t)]
       \/ At(t, "queued", "finished") /\ UNCHANGED unposted
    /\ UNCHANGED <<digestVars, room, posts, accepted>>

NextChannel(t) ==
    /\ telling[t] = "running" /\ room[t] = NoRoom
    /\ \E c \in unposted[t] :
          /\ room' = [room EXCEPT ![t] = InRoom(c)]
          /\ unposted' = [unposted EXCEPT ![t] = @ \ {c}]
    /\ UNCHANGED <<digestVars, telling, posts, accepted>>

(* One post: accepted, refused for good, or to be tried again.  The task   *)
(* is cut off after ten seconds: what is left then is not posted.          *)
Dispatch(t) ==
    /\ telling[t] = "running" /\ room[t] # NoRoom
    /\ LET c == room[t].id IN
       /\ posts' = [posts EXCEPT ![t][c] = @ + 1]
       /\ \/ accepted' = [accepted EXCEPT ![t][c] = posts'[t][c]] /\ room' = [room EXCEPT ![t] = NoRoom]
          \/ UNCHANGED accepted /\ room' = [room EXCEPT ![t] = NoRoom]
          \/ posts[t][c] + 1 < Tries /\ UNCHANGED <<accepted, room>>
    /\ UNCHANGED <<digestVars, telling, unposted>>

TaskEnds(t) ==
    /\ At(t, "running", "finished")
    /\ room' = [room EXCEPT ![t] = NoRoom]
    /\ unposted' = [unposted EXCEPT ![t] = {}]
    /\ UNCHANGED <<digestVars, posts, accepted>>

-----------------------------------------------------------------------------
(* The process ends: nothing of this is stored, and nobody calls Close.    *)
Collected == UNION {buckets[e].failures : e \in Hosts}

Exits ==
    /\ untold' = untold \union instants \union Collected \union UNION summaries
    /\ buckets' = [e \in Hosts |-> NoBucket]
    /\ summaries' = {} /\ instants' = {}
    /\ open' = TRUE
    /\ telling' = [t \in Tasks |-> IF telling[t] = "unsent" THEN "unsent" ELSE "finished"]
    /\ room' = [t \in Tasks |-> NoRoom]
    /\ unposted' = [t \in Tasks |-> {}]
    /\ UNCHANGED <<recorded, told, posts, accepted>>

AlertsNext ==
    \/ \E e \in Hosts : RecordDeliveryFailure(e)
    \/ dispatchDeliveryAlertToChannels \/ periodicFlushLoop \/ Close
    \/ \E t \in Tasks :
          DispatchForFindings(t) \/ LoadChannels(t) \/ NextChannel(t) \/ Dispatch(t) \/ TaskEnds(t)
    \/ Exits

AlertsSpec == AlertsInit /\ [][AlertsNext]_alertsVars

-----------------------------------------------------------------------------
(* Every failure that was recorded is told in exactly one message, waits   *)
(* for one, or was lost with the process or a channel: the ticker, the     *)
(* threshold and Close never put it in two summaries or in none.  And no   *)
(* failure waits in a full bucket or, while the loop runs, for a third     *)
(* tick.                                                                   *)
Places == <<Collected, UNION summaries, instants, told, untold>>

DigestConserves ==
    /\ \A failure \in 1 .. recorded :
          \E i \in 1 .. 5 : /\ failure \in Places[i]
                            /\ \A j \in 1 .. 5 : failure \in Places[j] => j = i
    /\ \A r, s \in summaries : r # s => r \intersect s = {}
    /\ \A e \in Hosts :
          /\ \A d \in Hosts : d # e => buckets[d].failures \intersect buckets[e].failures = {}
          /\ Cardinality(buckets[e].failures) < Threshold
          /\ open => buckets[e].ticks < 3

(* A finding is posted only to channels that asked for its severity, and   *)
(* no channel that accepted it is posted to again.                         *)
FindingsToldOnce ==
    \A t \in Tasks, c \in Rooms :
        /\ posts[t][c] > 0 => c \in Asked(t)
        /\ accepted[t][c] > 0 => posts[t][c] = accepted[t][c]
=============================================================================
