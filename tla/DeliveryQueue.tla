--------------------------- MODULE DeliveryQueue ---------------------------
(***************************************************************************)
(* The delivery outbox of the gateway: the delivery_jobs table, the poller *)
(* that claims due rows under a lease, the worker pool the claimed jobs    *)
(* are handed to, and one delivery attempt of a worker, statement by       *)
(* statement (internal/service/delivery_service.go and                     *)
(* internal/database/queries/delivery.sql).  The process may crash, be     *)
(* shut down and restart; only the database survives.                      *)
(*                                                                         *)
(* Time is abstract: a lease is "fresh" until it becomes "old" (locked     *)
(* more than two minutes ago) and a backoff is over when `due` holds.      *)
(***************************************************************************)
EXTENDS Integers, Sequences, FiniteSets, DeliveryState, RetryPolicy

CONSTANTS
    Jobs,         \* delivery jobs the gateway may be asked to create
    Workers,      \* goroutines of the worker pool
    Endpoint,     \* the endpoint each job belongs to
    Blockable,    \* jobs whose target may resolve to an address the SSRF guard refuses
    Codes,        \* HTTP status codes the upstream may answer with
    NoTask,       \* what an idle worker runs
    MaxRetries,   \* max_retries a new job is given
    Bonus,        \* attempts a requeued job is granted: 3 in the code
    BatchSize,    \* rows claimed by one poll
    QueueCap,     \* buffer of the pool's task channel
    SemCap,       \* concurrent outbound requests per endpoint
    TriggerCap,   \* buffer of the trigger channel
    Limit,        \* how often each kind of event below may happen
    Budget        \* how many of these events may happen in all

(* The events whose number a run bounds: the process crashing, a database  *)
(* call failing, an operator replaying a job, a lease outliving its two    *)
(* minutes while the job is still being handled, and the pool being full   *)
(* when the poller hands it a job.                                         *)
Kinds == {"crash", "fault", "replay", "expiry", "reject"}

ASSUME BoundsAssumption ==
    /\ MaxRetries \in Nat \ {0}
    /\ Bonus \in Nat \ {0}
    /\ BatchSize \in Nat \ {0}
    /\ QueueCap \in Nat \ {0}
    /\ SemCap \in Nat \ {0}
    /\ TriggerCap \in Nat \ {0}
    /\ Limit \in [Kinds -> Nat]
    /\ Budget \in Nat

ASSUME DataAssumption ==
    /\ Blockable \subseteq Jobs
    /\ Codes \subseteq 100 .. 599
    /\ NoTask \notin [job : Jobs, attempts : Nat, max : Nat]

VARIABLES
    job,        \* delivery_jobs: one row per job ("NONE" before it is inserted)
    rows,       \* delivery_attempts: the attempt numbers recorded for a job, oldest first
    reqStatus,  \* captured_requests.processing_status of the job's request
    mode,       \* the server process: "up", "stopping" (pool closed) or "down"
    recovering, \* the recovery goroutine of the last start has not run yet
    trigger,    \* signals waiting in the trigger channel
    poller,     \* where the poller goroutine is
    batch,      \* claimed jobs the poller has still to hand over
    queue,      \* the pool's task channel
    pc,         \* where each worker is in ExecuteJob
    task,       \* the job snapshot each worker runs
    answer,     \* the answer it got
    number,     \* the attempt number it computed
    acked,      \* history: jobs the upstream answered with success
    refused,    \* history: jobs answered with a status that ends them, or blocked
    overlapped, \* history: jobs released while some goroutine still held them
    spent       \* how often each kind of bounded event happened

dbVars == <<job, rows, reqStatus>>
pollVars == <<trigger, poller, batch>>
workVars == <<pc, task, answer, number>>
history == <<acked, refused, overlapped>>
vars == <<dbVars, mode, recovering, pollVars, queue, workVars, history, spent>>

(* ExecuteJob passes the policy this one option set for a job. *)
Options(t) == [maxRetries |-> t.max, treatConflictAsDone |-> FALSE]

(* The SSRF guard's refusal, kept where an answer is kept. *)
Blocked == -1

Answers == Codes \union {NetworkError, Blocked}

Task == [job : Jobs, attempts : Nat, max : Nat]

Row == [status : DeliveryStates \union {"NONE"}, attempts : Nat, max : Nat,
        lock : {"none", "fresh", "old"}, due : BOOLEAN]

DbType ==
    /\ job \in [Jobs -> Row]
    /\ rows \in [Jobs -> Seq(Nat)]
    /\ reqStatus \in [Jobs -> {"NONE", "RECEIVED", "RETRY_WAIT", "DELIVERED", "DEAD_LETTER"}]

ProcessType ==
    /\ mode \in {"up", "stopping", "down"}
    /\ recovering \in BOOLEAN
    /\ spent \in [Kinds -> Nat]

PollType ==
    /\ trigger \in 0 .. TriggerCap
    /\ poller \in {"idle", "claim", "last", "full"}
    /\ batch \in SUBSET Task

QueueType ==
    /\ queue \in Seq(Task)
    /\ Len(queue) <= QueueCap

WorkType ==
    /\ pc \in [Workers -> {"idle", "waiting", "sending", "recording", "updating", "reporting"}]
    /\ task \in [Workers -> Task \union {NoTask}]
    /\ answer \in [Workers -> Answers]
    /\ number \in [Workers -> Nat]
    /\ \A w \in Workers : pc[w] # "idle" => task[w] \in Task

HistoryType ==
    /\ acked \in SUBSET Jobs
    /\ refused \in SUBSET Jobs
    /\ overlapped \in SUBSET Jobs

TypeOK == DbType /\ ProcessType /\ PollType /\ QueueType /\ WorkType /\ HistoryType
-----------------------------------------------------------------------------
(* One statement of delivery.sql per operator: the row it leaves behind.   *)

Created == [status |-> "PENDING", attempts |-> 0, max |-> MaxRetries,
            lock |-> "none", due |-> TRUE]

(* MUTANT: settled rows are claimed too. *)
ClaimableWhateverStatus(r) == r.due /\ r.lock # "fresh"

(* MUTANT: a row whose lease ran out is claimed without being recovered. *)
ClaimableUnderOldLease(r) == r.status \in Open /\ r.due /\ r.lock # "fresh"

Claimable(r) ==
    /\ r.status \in {"PENDING", "RETRY_WAIT"}
    /\ r.due
    /\ r.lock # "fresh"

(* MUTANT: the attempt is counted when the row is claimed. *)
ClaimedAndCounted(r) ==
    [r EXCEPT !.status = "PROCESSING", !.lock = "fresh", !.attempts = @ + 1]

Claimed(r) == [r EXCEPT !.status = "PROCESSING", !.lock = "fresh"]

Completed(r) ==
    [r EXCEPT !.status = "DELIVERED", !.attempts = @ + 1, !.lock = "none"]

(* MUTANT: a failed attempt puts the row back to PENDING. *)
FailedToPending(r, s) ==
    [r EXCEPT !.status = IF s = "RETRY_WAIT" THEN "PENDING" ELSE s,
              !.attempts = @ + 1, !.lock = "none", !.due = FALSE]

Failed(r, s) ==
    [r EXCEPT !.status = s, !.attempts = @ + 1, !.lock = "none", !.due = FALSE]

Stale(r) == r.status = "PROCESSING" /\ r.lock = "old"

Recovered(r) == [r EXCEPT !.status = "RETRY_WAIT", !.lock = "none", !.due = TRUE]

(* GREATEST(max_retries, attempts + 3) leaves a requeued job attempts to make. *)
Requeued(r) ==
    [r EXCEPT !.status = "PENDING",
              !.max = IF @ >= r.attempts + Bonus THEN @ ELSE r.attempts + Bonus,
              !.lock = "none", !.due = TRUE]
-----------------------------------------------------------------------------
(* Who holds a claimed job: the poller until it has handed it over, the    *)
(* pool's channel, then a worker until it has written the outcome.         *)

Busy(w) == pc[w] \notin {"idle", "reporting"}

InBatch(j) == \E t \in batch : t.job = j
InQueue(j) == \E i \in DOMAIN queue : queue[i].job = j
InWorker(j) == \E w \in Workers : Busy(w) /\ task[w].job = j
Held(j) == InBatch(j) \/ InQueue(j) \/ InWorker(j)

Snapshot(j) == [job |-> j, attempts |-> job[j].attempts, max |-> job[j].max]

EventsSpent ==
    spent["crash"] + spent["fault"] + spent["replay"] + spent["expiry"] + spent["reject"]

Spend(k) ==
    /\ spent[k] < Limit[k]
    /\ EventsSpent < Budget
    /\ spent' = [spent EXCEPT ![k] = @ + 1]

Init ==
    /\ job = [j \in Jobs |-> [status |-> "NONE", attempts |-> 0, max |-> 0,
                              lock |-> "none", due |-> FALSE]]
    /\ rows = [j \in Jobs |-> <<>>]
    /\ reqStatus = [j \in Jobs |-> "NONE"]
    /\ mode = "up"
    /\ recovering = TRUE
    /\ trigger = 0
    /\ poller = "idle"
    /\ batch = {}
    /\ queue = <<>>
    /\ pc = [w \in Workers |-> "idle"]
    /\ task = [w \in Workers |-> NoTask]
    /\ answer = [w \in Workers |-> NetworkError]
    /\ number = [w \in Workers |-> 0]
    /\ acked = {}
    /\ refused = {}
    /\ overlapped = {}
    /\ spent = [k \in Kinds |-> 0]
-----------------------------------------------------------------------------
(* The HTTP side: both callers end with TriggerQueue, which drops the      *)
(* signal when the channel is full.                                        *)

(* MUTANT: the signal is sent even when the channel is full. *)
TriggerQueueUnbounded == trigger' = trigger + 1

TriggerQueue == trigger' = IF trigger < TriggerCap THEN trigger + 1 ELSE trigger

(* Ingestion commits the captured request and its job in one transaction. *)
(* A handler that outlasts the HTTP server's shutdown still runs.          *)
Ingest(j) ==
    /\ mode # "down"
    /\ job[j].status = "NONE"
    /\ job' = [job EXCEPT ![j] = Created]
    /\ reqStatus' = [reqStatus EXCEPT ![j] = "RECEIVED"]
    /\ TriggerQueue
    /\ UNCHANGED <<rows, mode, recovering, poller, batch, queue, workVars, history, spent>>

(* An operator replays a job: any existing row goes back to PENDING,       *)
(* whatever its status and whoever is working on it.                       *)
Replay(j) ==
    /\ mode # "down"
    /\ job[j].status # "NONE"
    /\ Spend("replay")
    /\ job' = [job EXCEPT ![j] = Requeued(@)]
    /\ overlapped' = IF Held(j) THEN overlapped \union {j} ELSE overlapped
    /\ TriggerQueue
    /\ UNCHANGED <<rows, reqStatus, mode, recovering, poller, batch, queue, workVars,
                   acked, refused>>
-----------------------------------------------------------------------------
(* The poller goroutine.  In "claim" it is about to call                   *)
(* PollAndProcessQueue; in "last" and "full" it is handing over a batch    *)
(* that was smaller than, or as large as, the batch size.  Go's select     *)
(* picks among ready cases at random, so a tick may still win over the     *)
(* stop signal: only the end of the process ("down") rules polling out.    *)

RecoverStaleDeliveryJobs ==
    LET found == {j \in Jobs : Stale(job[j])} IN
    /\ job' = [j \in Jobs |-> IF j \in found THEN Recovered(job[j]) ELSE job[j]]
    /\ overlapped' = overlapped \union {j \in found : Held(j)}

(* NewDeliveryService recovers stale rows in a goroutine of its own. *)
StartupRecovery ==
    /\ mode # "down"
    /\ recovering
    /\ recovering' = FALSE
    /\ \/ RecoverStaleDeliveryJobs /\ UNCHANGED spent
       \/ Spend("fault") /\ UNCHANGED <<job, overlapped>>
    /\ UNCHANGED <<rows, reqStatus, mode, pollVars, queue, workVars, acked, refused>>

TriggerFires ==
    /\ mode # "down"
    /\ poller = "idle"
    /\ trigger > 0
    /\ trigger' = trigger - 1
    /\ poller' = "claim"
    /\ UNCHANGED <<dbVars, mode, recovering, batch, queue, workVars, history, spent>>

(* MUTANT: the ticker only polls; stale rows are recovered at startup only. *)
TickerOnlyPolls ==
    /\ mode # "down"
    /\ poller = "idle"
    /\ poller' = "claim"
    /\ UNCHANGED <<dbVars, mode, recovering, trigger, batch, queue, workVars, history, spent>>

(* The ticker case recovers stale rows first; an error there is only logged. *)
TickerFires ==
    /\ mode # "down"
    /\ poller = "idle"
    /\ poller' = "claim"
    /\ \/ RecoverStaleDeliveryJobs /\ UNCHANGED spent
       \/ Spend("fault") /\ UNCHANGED <<job, overlapped>>
    /\ UNCHANGED <<rows, reqStatus, mode, recovering, trigger, batch, queue, workVars,
                   acked, refused>>

(* FOR UPDATE SKIP LOCKED: as many due rows as the batch holds become     *)
(* PROCESSING in one statement, and the poller keeps them as it read them. *)
ClaimRows(S) ==
    LET due == Cardinality({j \in Jobs : Claimable(job[j])}) IN
    /\ \A j \in S : Claimable(job[j])
    /\ Cardinality(S) = IF due < BatchSize THEN due ELSE BatchSize
    /\ job' = [j \in Jobs |-> IF j \in S THEN Claimed(job[j]) ELSE job[j]]

ClaimPendingDeliveryJobs ==
    /\ poller = "claim"
    /\ \E S \in SUBSET Jobs :
        /\ ClaimRows(S)
        /\ batch' = {Snapshot(j) : j \in S}
        /\ poller' = IF S = {} THEN "idle"
                     ELSE IF Cardinality(S) < BatchSize THEN "last" ELSE "full"
    /\ UNCHANGED <<rows, reqStatus, mode, recovering, trigger, queue, workVars, history, spent>>

(* The statement fails, or it commits and the answer is lost: then the     *)
(* rows are leased to nobody.                                              *)
ClaimFails ==
    /\ poller = "claim"
    /\ Spend("fault")
    /\ poller' = "idle"
    /\ (\E S \in SUBSET Jobs : ClaimRows(S)) \/ UNCHANGED job
    /\ UNCHANGED <<rows, reqStatus, mode, recovering, trigger, batch, queue, workVars, history>>

(* The poller is done with t; after a full batch it polls again at once. *)
HandOver(t) ==
    /\ poller \in {"last", "full"}
    /\ t \in batch
    /\ batch' = batch \ {t}
    /\ poller' = IF batch # {t} THEN poller ELSE IF poller = "full" THEN "claim" ELSE "idle"
    /\ UNCHANGED <<rows, reqStatus, mode, recovering, trigger, workVars, history>>

(* The row goes back to PENDING, unless this statement fails as well: its  *)
(* error is ignored.                                                       *)
Release(t) == job' = [job EXCEPT ![t.job] = Requeued(@)] \/ UNCHANGED job

Submit(t) ==
    /\ HandOver(t)
    /\ mode = "up"
    /\ Len(queue) < QueueCap
    /\ queue' = Append(queue, t)
    /\ UNCHANGED <<job, spent>>

(* The pool is full or closed. *)
Reject(t) ==
    /\ HandOver(t)
    /\ \/ mode = "stopping" /\ UNCHANGED spent
       \/ mode = "up" /\ Len(queue) = QueueCap /\ Spend("reject")
    /\ Release(t)
    /\ UNCHANGED queue

(* The captured request cannot be loaded. *)
LoadFails(t) ==
    /\ HandOver(t)
    /\ Spend("fault")
    /\ Release(t)
    /\ UNCHANGED queue
-----------------------------------------------------------------------------
(* A worker running ExecuteJob on its snapshot.                            *)

GoTo(w, label) == pc' = [pc EXCEPT ![w] = label]

Finish(w) ==
    /\ GoTo(w, "idle")
    /\ task' = [task EXCEPT ![w] = NoTask]
    /\ answer' = [answer EXCEPT ![w] = NetworkError]
    /\ number' = [number EXCEPT ![w] = 0]

(* A statement run with the pool's context reaches the database, or fails. *)
(* Closing the pool cancels that context, and then it always fails.        *)
Reaches == mode = "up" /\ UNCHANGED spent
Misses == (mode = "stopping" /\ UNCHANGED spent) \/ (mode = "up" /\ Spend("fault"))

Dequeue(w) ==
    /\ mode # "down"
    /\ pc[w] = "idle"
    /\ queue # <<>>
    /\ queue' = Tail(queue)
    /\ task' = [task EXCEPT ![w] = Head(queue)]
    /\ GoTo(w, "waiting")
    /\ UNCHANGED <<dbVars, mode, recovering, pollVars, answer, number, history, spent>>

InUse(e) == {w \in Workers : pc[w] \notin {"idle", "waiting"} /\ Endpoint[task[w].job] = e}

(* MUTANT: the attempt number is taken from the claimed snapshot. *)
CountFromSnapshot(w) ==
    \/ Reaches /\ number' = [number EXCEPT ![w] = task[w].attempts + 1]
    \/ Misses /\ number' = [number EXCEPT ![w] = 1]

(* The next attempt number: one more than the attempts recorded so far,   *)
(* where a count that fails reads as zero.                                 *)
CountAttempts(w) ==
    \/ Reaches /\ number' = [number EXCEPT ![w] = Len(rows[task[w].job]) + 1]
    \/ Misses /\ number' = [number EXCEPT ![w] = 1]

(* Take a slot of the endpoint's semaphore, then validate the target. *)
Acquire(w) ==
    /\ pc[w] = "waiting"
    /\ Cardinality(InUse(Endpoint[task[w].job])) < SemCap
    /\ GoTo(w, "sending")
    /\ UNCHANGED <<dbVars, mode, recovering, pollVars, queue, task, answer, number, history, spent>>

(* The SSRF guard refuses the target, and the attempts are counted. *)
Block(w) ==
    /\ pc[w] = "sending"
    /\ task[w].job \in Blockable
    /\ GoTo(w, "recording")
    /\ answer' = [answer EXCEPT ![w] = Blocked]
    /\ refused' = refused \union {task[w].job}
    /\ CountAttempts(w)
    /\ UNCHANGED <<dbVars, mode, recovering, pollVars, queue, task, acked, overlapped>>

(* The upstream answers, or the request times out or is cancelled; then    *)
(* the attempts are counted.  Nothing another goroutine does between the   *)
(* answer and the count could be told from its doing it before the answer. *)
Respond(w, code) ==
    /\ pc[w] = "sending"
    /\ mode = "stopping" => code = NetworkError
    /\ GoTo(w, "recording")
    /\ answer' = [answer EXCEPT ![w] = code]
    /\ acked' = IF Success(code, Options(task[w])) THEN acked \union {task[w].job} ELSE acked
    /\ refused' = IF Success(code, Options(task[w])) \/ Retryable(code) THEN refused
                  ELSE refused \union {task[w].job}
    /\ CountAttempts(w)
    /\ UNCHANGED <<dbVars, mode, recovering, pollVars, queue, task, overlapped>>

(* The request cannot be built, or the task panics and the pool recovers:  *)
(* the worker moves on and the row keeps its lease.                        *)
Abandon(w) ==
    /\ pc[w] = "sending"
    /\ Spend("fault")
    /\ Finish(w)
    /\ UNCHANGED <<dbVars, mode, recovering, pollVars, queue, history>>

RecordAttempt(w) ==
    /\ pc[w] = "recording"
    /\ \/ Reaches /\ rows' = [rows EXCEPT ![task[w].job] = Append(@, number[w])]
       \/ Misses /\ UNCHANGED rows
    /\ GoTo(w, "updating")
    /\ UNCHANGED <<job, reqStatus, mode, recovering, pollVars, queue, task, answer, number,
                   history>>

(* MUTANT: the attempt just made is counted twice. *)
DecisionCountingTwice(w) ==
    IF answer[w] = Blocked THEN "DEAD_LETTER"
    ELSE EvaluateResponse(answer[w], task[w].attempts + 2, Options(task[w]))

(* The policy sees the snapshot's attempts and limit, not the row's. *)
Decision(w) ==
    IF answer[w] = Blocked THEN "DEAD_LETTER"
    ELSE EvaluateResponse(answer[w], task[w].attempts + 1, Options(task[w]))

(* The outcome is written by job id alone.  The SSRF branch uses a context *)
(* of its own, which closing the pool does not cancel.                     *)
UpdateJob(w) ==
    LET j == task[w].job IN
    /\ pc[w] = "updating"
    /\ \/ /\ Reaches \/ (answer[w] = Blocked /\ UNCHANGED spent)
          /\ job' = [job EXCEPT ![j] = IF Decision(w) = "DELIVERED" THEN Completed(@)
                                       ELSE Failed(@, Decision(w))]
       \/ /\ IF answer[w] = Blocked THEN Spend("fault") ELSE Misses
          /\ UNCHANGED job
    /\ GoTo(w, "reporting")
    /\ UNCHANGED <<rows, reqStatus, mode, recovering, pollVars, queue, task, answer, number,
                   history>>

(* The status shown on the captured request is written after the job's, in *)
(* a statement of its own; then the semaphore slot is released.            *)
ReportStatus(w) ==
    /\ pc[w] = "reporting"
    /\ \/ /\ Reaches \/ (answer[w] = Blocked /\ UNCHANGED spent)
          /\ reqStatus' = [reqStatus EXCEPT ![task[w].job] = Decision(w)]
       \/ /\ IF answer[w] = Blocked THEN Spend("fault") ELSE Misses
          /\ UNCHANGED reqStatus
    /\ Finish(w)
    /\ UNCHANGED <<job, rows, mode, recovering, pollVars, queue, history>>
-----------------------------------------------------------------------------
(* The clock.  A lease that nobody holds any more always runs out; one     *)
(* that is still being worked on outlives its two minutes only `expiry`    *)
(* times, the bound on slow workers and long queues.                       *)

BackoffElapses(j) ==
    /\ job[j].status = "RETRY_WAIT"
    /\ ~job[j].due
    /\ job' = [job EXCEPT ![j].due = TRUE]
    /\ UNCHANGED <<rows, reqStatus, mode, recovering, pollVars, queue, workVars, history, spent>>

LeaseExpires(j) ==
    /\ job[j].lock = "fresh"
    /\ job' = [job EXCEPT ![j].lock = "old"]
    /\ IF Held(j) THEN Spend("expiry") ELSE UNCHANGED spent
    /\ UNCHANGED <<rows, reqStatus, mode, recovering, pollVars, queue, workVars, history>>

(* The server process.  Shutdown stops the poller and closes the pool,     *)
(* whose workers drain the queue under a cancelled context; the process    *)
(* then ends, after five seconds at the latest, and a crash is the same    *)
(* without notice.  Whatever lived in memory is gone.                      *)

BeginShutdown ==
    /\ mode = "up"
    /\ Spend("crash")
    /\ mode' = "stopping"
    /\ UNCHANGED <<dbVars, recovering, pollVars, queue, workVars, history>>

Vanish ==
    /\ mode' = "down"
    /\ recovering' = FALSE
    /\ trigger' = 0
    /\ poller' = "idle"
    /\ batch' = {}
    /\ queue' = <<>>
    /\ pc' = [w \in Workers |-> "idle"]
    /\ task' = [w \in Workers |-> NoTask]
    /\ answer' = [w \in Workers |-> NetworkError]
    /\ number' = [w \in Workers |-> 0]
    /\ UNCHANGED <<dbVars, history>>

Crash == mode = "up" /\ Spend("crash") /\ Vanish

Exit == mode = "stopping" /\ Vanish /\ UNCHANGED spent

Restart ==
    /\ mode = "down"
    /\ mode' = "up"
    /\ recovering' = TRUE
    /\ UNCHANGED <<dbVars, pollVars, queue, workVars, history, spent>>
-----------------------------------------------------------------------------
Poll ==
    \/ TriggerFires
    \/ TickerFires
    \/ ClaimPendingDeliveryJobs
    \/ ClaimFails
    \/ \E t \in batch : Submit(t) \/ Reject(t) \/ LoadFails(t)

Work(w) ==
    \/ Dequeue(w)
    \/ Acquire(w)
    \/ Block(w)
    \/ \E code \in Codes \union {NetworkError} : Respond(w, code)
    \/ Abandon(w)
    \/ RecordAttempt(w)
    \/ UpdateJob(w)
    \/ ReportStatus(w)

Next ==
    \/ \E j \in Jobs : Ingest(j) \/ Replay(j) \/ BackoffElapses(j) \/ LeaseExpires(j)
    \/ StartupRecovery
    \/ Poll
    \/ \E w \in Workers : Work(w)
    \/ BeginShutdown
    \/ Crash
    \/ Exit
    \/ Restart

Spec == Init /\ [][Next]_vars

(* The poller's ticker keeps firing, requests time out, goroutines are     *)
(* scheduled, clocks advance and the process is restarted: none of these   *)
(* can be put off for ever.  Everything else is free not to happen.        *)
Fairness ==
    /\ WF_vars(Poll)
    /\ \A w \in Workers : WF_vars(Work(w))
    /\ \A j \in Jobs : WF_vars(BackoffElapses(j))
    /\ \A j \in Jobs : WF_vars(~Held(j) /\ LeaseExpires(j))
    /\ WF_vars(Exit)
    /\ WF_vars(Restart)

FairSpec == Spec /\ Fairness
-----------------------------------------------------------------------------
(* PROPERTIES *)

(* At most one goroutine holds a job, unless it was released under its     *)
(* holder's feet: this is what claiming under a lease with FOR UPDATE SKIP *)
(* LOCKED buys, through crashes, restarts, rejections and database errors. *)
AtMostOneHolder(j) ==
    /\ \A t, u \in batch : t.job = j /\ u.job = j => t = u
    /\ \A m, n \in DOMAIN queue : queue[m].job = j /\ queue[n].job = j => m = n
    /\ \A v, w \in Workers :
          Busy(v) /\ Busy(w) /\ task[v].job = j /\ task[w].job = j => v = w
    /\ ~(InBatch(j) /\ InQueue(j))
    /\ ~(InBatch(j) /\ InWorker(j))
    /\ ~(InQueue(j) /\ InWorker(j))

ExclusiveExecution == \A j \in Jobs \ overlapped : AtMostOneHolder(j)

(* The retry decision is taken from the snapshot read when the job was     *)
(* claimed: while the job is held, the row still says the same.            *)
FreshSnapshot(t) ==
    /\ job[t.job].status = "PROCESSING"
    /\ t = Snapshot(t.job)

SnapshotsCurrent ==
    /\ \A t \in batch : t.job \notin overlapped => FreshSnapshot(t)
    /\ \A i \in DOMAIN queue : queue[i].job \notin overlapped => FreshSnapshot(queue[i])
    /\ \A w \in Workers :
          Busy(w) /\ task[w].job \notin overlapped => FreshSnapshot(task[w])

(* A job that may still be tried has attempts left, and no job is tried    *)
(* more often than its row allows.                                         *)
RetryBudget ==
    \A j \in Jobs \ overlapped :
        /\ job[j].attempts <= job[j].max
        /\ job[j].status \in Open => job[j].attempts < job[j].max

(* DELIVERED, on the job or on its captured request, is never claimed      *)
(* without an upstream having answered with success.                       *)
DeliveredWasAcked ==
    \A j \in Jobs :
        job[j].status = "DELIVERED" \/ reqStatus[j] = "DELIVERED" => j \in acked

(* A job is given up only for an answer that ends it or after its last     *)
(* allowed attempt, also when retries, crashes and replays interleave.     *)
DeadLetterJustified ==
    \A j \in Jobs \ overlapped :
        job[j].status = "DEAD_LETTER" =>
            j \in refused \/ job[j].attempts >= job[j].max

(* The attempts of a job are numbered 1, 2, 3... in the order they were    *)
(* recorded, as long as the database answers and the job was never         *)
(* released while held: the count and the insert are two statements.       *)
AttemptsNumbered ==
    spent["fault"] = 0 =>
        \A j \in Jobs \ overlapped : \A i \in DOMAIN rows[j] : rows[j][i] = i

(* The status column moves as CanTransition allows, but for the two        *)
(* releases that put a job back to PENDING: the poller's, of a job it      *)
(* could not hand over, and the operator's replay.                         *)
LegalMove(j) ==
    \/ job[j].status = "NONE"
    \/ CanTransition(job[j].status, job'[j].status)
    \/ job'[j] = Requeued(job[j])

LegalTransitions == [][\A j \in Jobs \ overlapped' : LegalMove(j)]_job

(* What the outside sees of a job with this status. *)
View(status) == CASE status = "NONE" -> "absent"
                  [] status = "DELIVERED" -> "delivered"
                  [] status = "DEAD_LETTER" -> "dead"
                  [] OTHER -> "open"

Outside == [j \in Jobs |-> View(job[j].status)]

Contract == INSTANCE DeliveryContract WITH
    state <- Outside,
    disputed <- overlapped,
    replays <- spent["replay"]

(* The queue keeps the contract of DeliveryContract: in particular nothing *)
(* but a replay reopens a settled job that was never released under its    *)
(* holder, and no crash, shutdown or database error makes one disappear.   *)
KeepsContract == Contract!Spec

(* Every accepted job is settled in the end: whatever the bounded events   *)
(* did to it, the lease of a vanished holder runs out, the ticker recovers *)
(* the row and the retries run dry.                                        *)
EverySettled ==
    \A j \in Jobs :
        job[j].status \in Open ~> job[j].status \in {"DELIVERED", "DEAD_LETTER"}

(* Claims of the source that the code does not keep; see README.md.        *)

(* delivery_service.go:434 promises that claiming under FOR UPDATE SKIP    *)
(* LOCKED leaves no double delivery race: no two workers have a request    *)
(* for the same job under way.                                             *)
NoDoubleDelivery ==
    \A v, w \in Workers :
        v # w /\ pc[v] = "sending" /\ pc[w] = "sending" => task[v].job # task[w].job

=============================================================================
