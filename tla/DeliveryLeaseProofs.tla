------------------------ MODULE DeliveryLeaseProofs ------------------------
(***************************************************************************)
(* The lease discipline of DeliveryQueue: who holds a job, what a holder   *)
(* may believe about its row, and how many attempts a row allows.  The     *)
(* three invariants need each other: that a job is held once follows from  *)
(* a held row being PROCESSING, which no claim touches; that a holder's    *)
(* snapshot is current follows from nobody else holding the job; and the   *)
(* budget of attempts follows from deciding on a current snapshot.         *)
(***************************************************************************)
EXTENDS DeliveryQueueProofs

(* All three for one job. *)
JobOK(j) ==
    /\ AtMostOneHolder(j)
    /\ Held(j) => job[j].status = "PROCESSING"
    /\ \A t \in batch : t.job = j => t = Snapshot(j)
    /\ \A i \in DOMAIN queue : queue[i].job = j => queue[i] = Snapshot(j)
    /\ \A w \in Workers : Busy(w) /\ task[w].job = j => task[w] = Snapshot(j)
    /\ job[j].attempts <= job[j].max
    /\ job[j].status \in Open => job[j].attempts < job[j].max

IInv ==
    /\ TypeOK
    /\ \A j \in Jobs \ overlapped : JobOK(j)

(* IInv holds more than the three invariants. *)
LEMMA IInvImplies == IInv => ExclusiveExecution /\ SnapshotsCurrent /\ RetryBudget
  <1> SUFFICES ASSUME IInv
               PROVE  ExclusiveExecution /\ SnapshotsCurrent /\ RetryBudget
    OBVIOUS
  <1> USE DEF IInv, JobOK
  <1>1. ExclusiveExecution /\ RetryBudget
    BY DEF ExclusiveExecution, RetryBudget
  <1>2. \A t \in batch : t.job \notin overlapped => FreshSnapshot(t)
    BY DEF TypeOK, PollType, Task, FreshSnapshot, Held, InBatch
  <1>3. \A i \in DOMAIN queue : queue[i].job \notin overlapped => FreshSnapshot(queue[i])
    <2> SUFFICES ASSUME NEW i \in DOMAIN queue, queue[i].job \notin overlapped
                 PROVE  FreshSnapshot(queue[i])
      OBVIOUS
    <2>1. queue[i] \in Task
      BY DEF TypeOK, QueueType
    <2> QED
      BY <2>1 DEF Task, FreshSnapshot, Held, InQueue
  <1>4. \A w \in Workers : Busy(w) /\ task[w].job \notin overlapped => FreshSnapshot(task[w])
    BY DEF TypeOK, WorkType, Task, FreshSnapshot, Held, InWorker, Busy
  <1> QED
    BY <1>1, <1>2, <1>3, <1>4 DEF SnapshotsCurrent

(* Nothing is held, and every limit is positive, in the initial state. *)
LEMMA IInvInit == Init => IInv
  <1> SUFFICES ASSUME Init, NEW j \in Jobs
               PROVE  JobOK(j)
    BY InitType DEF IInv
  <1> QED
    BY DEF Init, JobOK, AtMostOneHolder, Held, InBatch, InQueue, InWorker, Busy, Open

(* A step that changes nothing of j's row but its lease and its due date,  *)
(* and in which no goroutine takes hold of a job, keeps JobOK.             *)
LEMMA FewerHolders ==
    ASSUME NEW j \in Jobs, JobOK(j),
           job'[j].status = job[j].status,
           job'[j].attempts = job[j].attempts,
           job'[j].max = job[j].max,
           batch' \subseteq batch,
           queue' = queue \/ queue' = <<>>,
           \A w \in Workers : Busy(w)' => Busy(w) /\ task'[w] = task[w]
    PROVE  JobOK(j)'
  <1> USE DEF JobOK
  <1>1. Held(j)' => Held(j)
    BY DEF Held, InBatch, InQueue, InWorker
  <1>2. AtMostOneHolder(j)'
    BY DEF AtMostOneHolder, InBatch, InQueue, InWorker
  <1>3. Snapshot(j)' = Snapshot(j)
    BY DEF Snapshot
  <1> QED
    BY <1>1, <1>2, <1>3

(* A job nobody holds only needs its attempts within the limit. *)
LEMMA NotHeld ==
    ASSUME NEW j \in Jobs, ~Held(j)',
           (job[j].attempts <= job[j].max)',
           (job[j].status \in Open => job[j].attempts < job[j].max)'
    PROVE  JobOK(j)'
  BY DEF JobOK, AtMostOneHolder, Held, InBatch, InQueue, InWorker

(* The statements that release a row leave it attempts to make. *)
LEMMA Released ==
    ASSUME NEW r \in Row
    PROVE  /\ Requeued(r).attempts < Requeued(r).max
           /\ Recovered(r).attempts = r.attempts
           /\ Recovered(r).max = r.max
           /\ Requeued(r).attempts <= Requeued(r).max
  <1>1. /\ r.attempts \in Nat /\ r.max \in Nat
        /\ r = [status |-> r.status, attempts |-> r.attempts, max |-> r.max,
                lock |-> r.lock, due |-> r.due]
    BY DEF Row
  <1>2. Requeued(r).attempts = r.attempts
    BY <1>1 DEF Requeued
  <1>3. Requeued(r).max = IF r.max >= r.attempts + Bonus THEN r.max ELSE r.attempts + Bonus
    BY <1>1 DEF Requeued
  <1>4. Requeued(r).attempts < Requeued(r).max
    BY <1>1, <1>2, <1>3, BoundsAssumption
  <1> QED
    BY <1>1, <1>2, <1>3, <1>4, BoundsAssumption DEF Recovered

(* No retry is decided after the last attempt the snapshot allows. *)
LEMMA DecisionWithinLimit ==
    ASSUME NEW w \in Workers, task[w] \in Task, task[w].attempts < task[w].max
    PROVE  Decision(w) = "RETRY_WAIT" => task[w].attempts + 1 < task[w].max
  BY DEF Task, Decision, EvaluateResponse, AttemptLimit, Options

(* Recovery after a crash, at startup or by the ticker. *)
LEMMA RecoveryStep ==
    ASSUME TypeOK, NEW j \in Jobs, JobOK(j), j \notin overlapped',
           RecoverStaleDeliveryJobs,
           UNCHANGED <<batch, queue, workVars>>
    PROVE  JobOK(j)'
  <1> USE DEF RecoverStaleDeliveryJobs
  <1>1. CASE Stale(job[j])
    <2>1. job'[j] = Recovered(job[j])
      BY <1>1
    <2>2. ~Held(j)
      BY <1>1
    <2>3. ~Held(j)'
      BY <2>2 DEF Held, InBatch, InQueue, InWorker, Busy, workVars
    <2>4. job[j] \in Row
      BY DEF TypeOK, DbType
    <2>5. job[j].attempts < job[j].max
      BY <1>1 DEF Stale, JobOK, Open
    <2>6. job'[j].attempts < job'[j].max /\ job'[j].attempts <= job'[j].max
      BY <2>1, <2>4, <2>5, Released DEF Row
    <2> QED
      BY <2>3, <2>6, NotHeld
  <1>2. CASE ~Stale(job[j])
    <2>1. job'[j] = job[j]
      BY <1>2
    <2> QED
      BY <2>1, FewerHolders DEF Busy, workVars
  <1> QED
    BY <1>1, <1>2

(* The poller gives up a claimed job it could not hand over. *)
LEMMA ReleaseStep ==
    ASSUME TypeOK, NEW j \in Jobs, JobOK(j), NEW t \in batch,
           HandOver(t), Release(t), UNCHANGED queue
    PROVE  JobOK(j)'
  <1> USE DEF HandOver, Release
  <1>1. CASE t.job = j /\ job' # job
    <2>1. job'[j] = Requeued(job[j]) /\ job[j] \in Row
      BY <1>1 DEF TypeOK, DbType
    <2>2. ~InBatch(j)' /\ ~InQueue(j)' /\ ~InWorker(j)'
      BY <1>1 DEF JobOK, AtMostOneHolder, InBatch, InQueue, InWorker, Busy, workVars
    <2> QED
      BY <2>1, <2>2, Released, NotHeld DEF Held
  <1>2. CASE t.job # j \/ job' = job
    <2>1. job'[j] = job[j]
      BY <1>2 DEF TypeOK, DbType
    <2> QED
      BY <2>1, FewerHolders DEF Busy, workVars
  <1> QED
    BY <1>1, <1>2

(* A claim takes only jobs nobody holds. *)
LEMMA ClaimStep ==
    ASSUME TypeOK, NEW j \in Jobs, JobOK(j), ClaimPendingDeliveryJobs
    PROVE  JobOK(j)'
  <1> PICK S \in SUBSET Jobs : ClaimRows(S) /\ batch' = {Snapshot(k) : k \in S}
    BY DEF ClaimPendingDeliveryJobs
  <1> USE DEF ClaimRows
  <1>1. UNCHANGED <<queue, workVars>>
    BY DEF ClaimPendingDeliveryJobs
  <1>2. job[j] \in Row
    BY DEF TypeOK, DbType
  <1>3. \A t \in batch' : t.job \in S /\ t = Snapshot(t.job)
    BY DEF Snapshot
  <1>4. CASE j \in S
    <2>1. ~Held(j)
      BY <1>4 DEF JobOK, Claimable
    <2>2. ~InQueue(j)' /\ ~InWorker(j)'
      BY <2>1, <1>1 DEF Held, InQueue, InWorker, Busy, workVars
    <2>3. job'[j] = Claimed(job[j])
      BY <1>4
    <2>4. /\ job'[j].status = "PROCESSING"
          /\ job'[j].attempts = job[j].attempts
          /\ job'[j].max = job[j].max
      BY <2>3, <1>2 DEF Claimed, Row
    <2>5. Snapshot(j)' = Snapshot(j)
      BY <2>4 DEF Snapshot
    <2>6. job[j].attempts < job[j].max
      BY <1>4 DEF JobOK, Claimable, Open
    <2>7. AtMostOneHolder(j)'
      BY <1>3, <2>2 DEF AtMostOneHolder, InQueue, InWorker
    <2>8. job'[j].attempts <= job'[j].max
      BY <2>4 DEF JobOK
    <2> QED
      BY <1>3, <2>2, <2>4, <2>5, <2>6, <2>7, <2>8 DEF JobOK, InQueue, InWorker
  <1>5. CASE j \notin S
    <2>1. job'[j] = job[j]
      BY <1>5
    <2>2. ~InBatch(j)'
      BY <1>3, <1>5 DEF InBatch
    <2>3. Held(j)' => Held(j)
      BY <1>1, <2>2 DEF Held, InQueue, InWorker, Busy, workVars
    <2>4. AtMostOneHolder(j)'
      BY <1>1, <2>2 DEF JobOK, AtMostOneHolder, InBatch, InQueue, InWorker, Busy, workVars
    <2>5. Snapshot(j)' = Snapshot(j)
      BY <2>1 DEF Snapshot
    <2> QED
      BY <1>1, <2>1, <2>2, <2>3, <2>4, <2>5 DEF JobOK, InBatch, Busy, workVars
  <1> QED
    BY <1>4, <1>5

(* A job handed over moves from the poller's batch to the channel. *)
LEMMA SubmitStep ==
    ASSUME TypeOK, NEW j \in Jobs, JobOK(j), NEW t \in batch, Submit(t)
    PROVE  JobOK(j)'
  <1> USE DEF Submit, HandOver
  <1>1. /\ queue \in Seq(Task) /\ t \in Task
        /\ batch' = batch \ {t} /\ queue' = Append(queue, t)
        /\ UNCHANGED <<job, workVars>>
    BY DEF TypeOK, PollType, QueueType
  <1>2. /\ DOMAIN queue' = DOMAIN queue \union {Len(queue) + 1}
        /\ Len(queue) + 1 \notin DOMAIN queue
        /\ queue'[Len(queue) + 1] = t
        /\ \A i \in DOMAIN queue : queue'[i] = queue[i]
    BY <1>1
  <1>3. Snapshot(j)' = Snapshot(j)
    BY <1>1 DEF Snapshot
  <1>4. Held(j)' => Held(j)
    BY <1>1, <1>2 DEF Held, InBatch, InQueue, InWorker, Busy, workVars
  <1>5. AtMostOneHolder(j)'
    BY <1>1, <1>2 DEF JobOK, AtMostOneHolder, InBatch, InQueue, InWorker, Busy, workVars
  <1> QED
    BY <1>1, <1>2, <1>3, <1>4, <1>5 DEF JobOK, Busy, workVars

(* A job dequeued moves from the channel to the worker. *)
LEMMA DequeueStep ==
    ASSUME TypeOK, NEW j \in Jobs, JobOK(j), NEW w \in Workers, Dequeue(w)
    PROVE  JobOK(j)'
  <1> USE DEF Dequeue, GoTo
  <1>1. /\ queue \in Seq(Task) /\ queue # <<>> /\ queue' = Tail(queue)
        /\ UNCHANGED <<job, batch>>
    BY DEF TypeOK, QueueType, dbVars, pollVars
  <1>2. /\ 1 \in DOMAIN queue /\ Head(queue) = queue[1] /\ Head(queue) \in Task
        /\ \A i \in DOMAIN queue' : i + 1 \in DOMAIN queue /\ queue'[i] = queue[i + 1]
    BY <1>1
  <1>3. /\ ~Busy(w) /\ Busy(w)' /\ task'[w] = Head(queue)
        /\ \A v \in Workers \ {w} : Busy(v)' = Busy(v) /\ task'[v] = task[v]
    BY DEF TypeOK, WorkType, Busy
  <1>4. Snapshot(j)' = Snapshot(j)
    BY <1>1 DEF Snapshot
  <1>5. Held(j)' => Held(j)
    BY <1>1, <1>2, <1>3 DEF Held, InBatch, InQueue, InWorker
  <1>6. AtMostOneHolder(j)'
    BY <1>1, <1>2, <1>3 DEF JobOK, AtMostOneHolder, InBatch, InQueue, InWorker
  <1> QED
    BY <1>1, <1>2, <1>3, <1>4, <1>5, <1>6 DEF JobOK

(* The worker writes its outcome and holds the job no more. *)
LEMMA UpdateStep ==
    ASSUME TypeOK, NEW j \in Jobs, JobOK(j), NEW w \in Workers, UpdateJob(w)
    PROVE  JobOK(j)'
  <1> USE DEF UpdateJob, GoTo
  <1>1. /\ Busy(w) /\ ~Busy(w)' /\ task[w] \in Task
        /\ \A v \in Workers \ {w} : Busy(v)' = Busy(v)
        /\ UNCHANGED <<batch, queue, task>>
    BY DEF TypeOK, WorkType, Busy, pollVars
  <1> DEFINE r == job[task[w].job]
             written == IF Decision(w) = "DELIVERED" THEN Completed(r)
                        ELSE Failed(r, Decision(w))
  <1>2. job' = [job EXCEPT ![task[w].job] = written] \/ job' = job
    OBVIOUS
  <1>3. CASE job'[j] = job[j]
    BY <1>1, <1>3, FewerHolders
  <1>4. CASE job'[j] # job[j]
    <2>1. task[w].job = j /\ job'[j] = written
      BY <1>2, <1>4 DEF TypeOK, DbType
    <2>2. ~Held(j)'
      BY <1>1, <2>1 DEF JobOK, AtMostOneHolder, Held, InBatch, InQueue, InWorker
    <2>3. task[w] = Snapshot(j) /\ job[j].status = "PROCESSING"
      BY <1>1, <2>1 DEF JobOK, Held, InWorker
    <2>4. /\ job[j] \in Row
          /\ job[j].attempts \in Nat /\ job[j].max \in Nat
          /\ job[j].attempts < job[j].max
      BY <2>3 DEF TypeOK, DbType, Row, JobOK, Open
    <2>5. Decision(w) = "RETRY_WAIT" => job[j].attempts + 1 < job[j].max
      BY <1>1, <2>3, <2>4, DecisionWithinLimit DEF Snapshot
    <2>6. /\ job'[j].attempts = job[j].attempts + 1
          /\ job'[j].max = job[j].max
          /\ job'[j].status = Decision(w)
      BY <2>1, <2>4 DEF Completed, Failed, Row
    <2>7. job'[j].attempts <= job'[j].max
      BY <2>4, <2>6
    <2>8. job'[j].status \in Open => job'[j].attempts < job'[j].max
      BY <2>4, <2>5, <2>6, DecisionType DEF Open
    <2> QED
      BY <2>2, <2>7, <2>8, NotHeld
  <1> QED
    BY <1>3, <1>4

(* The clock changes nothing but a lease's age and what is due. *)
LEMMA ClockStep ==
    ASSUME TypeOK, NEW i \in Jobs, BackoffElapses(i) \/ LeaseExpires(i), NEW j \in Jobs
    PROVE  /\ job'[j].status = job[j].status
           /\ job'[j].attempts = job[j].attempts
           /\ job'[j].max = job[j].max
  <1>1. job \in [Jobs -> Row] /\ job[i] \in Row
    BY DEF TypeOK, DbType
  <1>2. job' = [job EXCEPT ![i] = [job[i] EXCEPT !.due = TRUE]]
        \/ job' = [job EXCEPT ![i] = [job[i] EXCEPT !.lock = "old"]]
    BY DEF BackoffElapses, LeaseExpires
  <1> QED
    BY <1>1, <1>2 DEF Row

(* JobOK survives every step that does not release the job under a holder. *)
LEMMA JobStep ==
    ASSUME TypeOK, [Next]_vars,
           NEW j \in Jobs, j \notin overlapped', JobOK(j)
    PROVE  JobOK(j)'
  <1> USE DEF dbVars, pollVars, workVars
  <1>1. ASSUME NEW i \in Jobs, Ingest(i)
        PROVE  JobOK(j)'
    <2>1. CASE i = j
      <3>1. ~Held(j)
        BY <1>1, <2>1 DEF Ingest, JobOK
      <3>2. job'[j] = Created /\ ~Held(j)'
        BY <1>1, <2>1, <3>1 DEF Ingest, TypeOK, DbType, Held, InBatch, InQueue, InWorker, Busy
      <3> QED
        BY <3>2, NotHeld, BoundsAssumption DEF Created
    <2>2. CASE i # j
      <3>1. job'[j] = job[j]
        BY <1>1, <2>2 DEF Ingest, TypeOK, DbType
      <3> QED
        BY <1>1, <3>1, FewerHolders DEF Ingest, Busy
    <2> QED
      BY <2>1, <2>2
  <1>2. ASSUME NEW i \in Jobs, Replay(i)
        PROVE  JobOK(j)'
    <2>1. CASE i = j
      <3>1. ~Held(j)
        BY <1>2, <2>1 DEF Replay
      <3>2. job'[j] = Requeued(job[j]) /\ job[j] \in Row /\ ~Held(j)'
        BY <1>2, <2>1, <3>1 DEF Replay, TypeOK, DbType, Held, InBatch, InQueue, InWorker, Busy
      <3> QED
        BY <3>2, NotHeld, Released
    <2>2. CASE i # j
      <3>1. job'[j] = job[j]
        BY <1>2, <2>2 DEF Replay, TypeOK, DbType
      <3> QED
        BY <1>2, <3>1, FewerHolders DEF Replay, Busy
    <2> QED
      BY <2>1, <2>2
  <1>3. ASSUME NEW i \in Jobs, BackoffElapses(i) \/ LeaseExpires(i)
        PROVE  JobOK(j)'
    <2>1. /\ job'[j].status = job[j].status
          /\ job'[j].attempts = job[j].attempts
          /\ job'[j].max = job[j].max
      BY <1>3, ClockStep
    <2> QED
      BY <1>3, <2>1, FewerHolders DEF BackoffElapses, LeaseExpires, Busy
  <1>4. ASSUME StartupRecovery \/ TickerFires
        PROVE  JobOK(j)'
    <2>1. CASE RecoverStaleDeliveryJobs
      BY <1>4, <2>1, RecoveryStep DEF StartupRecovery, TickerFires
    <2>2. CASE UNCHANGED job
      BY <1>4, <2>2, FewerHolders DEF StartupRecovery, TickerFires, Busy
    <2> QED
      BY <1>4, <2>1, <2>2 DEF StartupRecovery, TickerFires
  <1>5. CASE ClaimPendingDeliveryJobs
    BY <1>5, ClaimStep
  <1>6. CASE ClaimFails
    <2>1. CASE UNCHANGED job
      BY <1>6, <2>1, FewerHolders DEF ClaimFails, Busy
    <2>2. CASE \E S \in SUBSET Jobs : ClaimRows(S) /\ j \in S
      <3>1. job'[j] = Claimed(job[j]) /\ ~Held(j) /\ job[j].attempts < job[j].max
        BY <2>2 DEF ClaimRows, Claimable, JobOK, Open
      <3>2. ~Held(j)'
        BY <1>6, <3>1 DEF ClaimFails, Held, InBatch, InQueue, InWorker, Busy
      <3>3. job'[j].attempts = job[j].attempts /\ job'[j].max = job[j].max
        BY <3>1 DEF Claimed, TypeOK, DbType, Row
      <3> QED
        BY <3>1, <3>2, <3>3, NotHeld DEF JobOK
    <2>3. CASE \E S \in SUBSET Jobs : ClaimRows(S) /\ j \notin S
      <3>1. job'[j] = job[j]
        BY <2>3 DEF ClaimRows
      <3> QED
        BY <1>6, <3>1, FewerHolders DEF ClaimFails, Busy
    <2> QED
      BY <1>6, <2>1, <2>2, <2>3 DEF ClaimFails
  <1>7. ASSUME NEW t \in batch, Submit(t)
        PROVE  JobOK(j)'
    BY <1>7, SubmitStep
  <1>8. ASSUME NEW t \in batch, Reject(t) \/ LoadFails(t)
        PROVE  JobOK(j)'
    BY <1>8, ReleaseStep DEF Reject, LoadFails
  <1>9. ASSUME NEW w \in Workers, Dequeue(w)
        PROVE  JobOK(j)'
    BY <1>9, DequeueStep
  <1>10. ASSUME NEW w \in Workers, UpdateJob(w)
         PROVE  JobOK(j)'
    BY <1>10, UpdateStep
  <1>11. ASSUME NEW w \in Workers, Acquire(w)
        PROVE  JobOK(j)'
    BY <1>11, FewerHolders DEF Acquire, GoTo, TypeOK, WorkType, Busy
  <1>12. ASSUME NEW w \in Workers, Block(w)
        PROVE  JobOK(j)'
    BY <1>12, FewerHolders DEF Block, GoTo, TypeOK, WorkType, Busy
  <1>13. ASSUME NEW w \in Workers, NEW code \in Codes \union {NetworkError}, Respond(w, code)
        PROVE  JobOK(j)'
    BY <1>13, FewerHolders DEF Respond, GoTo, TypeOK, WorkType, Busy
  <1>14. ASSUME NEW w \in Workers, Abandon(w)
        PROVE  JobOK(j)'
    BY <1>14, FewerHolders DEF Abandon, Finish, GoTo, TypeOK, WorkType, Busy
  <1>15. ASSUME NEW w \in Workers, RecordAttempt(w)
        PROVE  JobOK(j)'
    BY <1>15, FewerHolders DEF RecordAttempt, GoTo, TypeOK, WorkType, Busy
  <1>16. ASSUME NEW w \in Workers, ReportStatus(w)
        PROVE  JobOK(j)'
    BY <1>16, FewerHolders DEF ReportStatus, Finish, GoTo, TypeOK, WorkType, Busy
  <1>17. CASE TriggerFires
    BY <1>17, FewerHolders DEF TriggerFires, Busy
  <1>18. CASE BeginShutdown
    BY <1>18, FewerHolders DEF BeginShutdown, Busy
  <1>19. CASE Crash
    BY <1>19, FewerHolders DEF Crash, Vanish, Busy
  <1>20. CASE Exit
    BY <1>20, FewerHolders DEF Exit, Vanish, Busy
  <1>21. CASE Restart
    BY <1>21, FewerHolders DEF Restart, Busy
  <1>22. CASE UNCHANGED vars
    BY <1>22, FewerHolders DEF vars, Busy
  <1> QED
    BY <1>1, <1>2, <1>3, <1>4, <1>5, <1>6, <1>7, <1>8, <1>9, <1>10, <1>11, <1>12, <1>13, <1>14, <1>15, <1>16, <1>17, <1>18, <1>19, <1>20, <1>21, <1>22 DEF Next, Poll, Work

(* A job once released under a holder stays marked as such. *)
LEMMA OverlappedGrows == [Next]_vars => overlapped \subseteq overlapped'
  <1> SUFFICES ASSUME [Next]_vars
               PROVE  overlapped \subseteq overlapped'
    OBVIOUS
  <1>1. CASE StartupRecovery \/ TickerFires
    BY <1>1 DEF StartupRecovery, TickerFires, RecoverStaleDeliveryJobs
  <1>2. ASSUME NEW j \in Jobs, Replay(j)
        PROVE  overlapped \subseteq overlapped'
    BY <1>2 DEF Replay
  <1> QED
    BY <1>1, <1>2 DEF Next, Poll, Work, Ingest, BackoffElapses, LeaseExpires, TriggerFires,
        ClaimPendingDeliveryJobs, ClaimFails, Submit, Reject, LoadFails, HandOver, Dequeue,
        Acquire, Block, Respond, Abandon, RecordAttempt, UpdateJob, ReportStatus,
        BeginShutdown, Crash, Exit, Vanish, Restart, vars, history

(* The invariant survives every step. *)
LEMMA IInvStep == IInv /\ [Next]_vars => IInv'
  <1> SUFFICES ASSUME IInv, [Next]_vars
               PROVE  IInv'
    OBVIOUS
  <1>1. TypeOK'
    BY TypeStep DEF IInv
  <1>2. ASSUME NEW j \in Jobs, j \notin overlapped'
        PROVE  JobOK(j)'
    BY <1>2, OverlappedGrows, JobStep DEF IInv
  <1> QED
    BY <1>1, <1>2 DEF IInv

LEMMA IInvAlways == Spec => []IInv
  <1>1. Init => IInv
    BY IInvInit
  <1>2. IInv /\ [Next]_vars => IInv'
    BY IInvStep
  <1> QED
    BY <1>1, <1>2, PTL DEF Spec

(* No two goroutines hold a job, unless it was released under its holder,  *)
(* whatever crashes, rejections, replays and database errors happen.       *)
THEOREM Exclusion == Spec => []ExclusiveExecution
  <1>1. IInv => ExclusiveExecution
    BY IInvImplies
  <1> QED
    BY <1>1, IInvAlways, PTL

(* The snapshot a retry decision is taken from still is what the row says. *)
THEOREM CurrentSnapshots == Spec => []SnapshotsCurrent
  <1>1. IInv => SnapshotsCurrent
    BY IInvImplies
  <1> QED
    BY <1>1, IInvAlways, PTL

(* A row that may be tried again has attempts left, and no row is tried    *)
(* more often than it allows.                                              *)
THEOREM BudgetKept == Spec => []RetryBudget
  <1>1. IInv => RetryBudget
    BY IInvImplies
  <1> QED
    BY <1>1, IInvAlways, PTL

(* Every step moves the status of a job as LegalTransitions says. *)
LEMMA LegalStep ==
    ASSUME IInv, [Next]_vars, NEW j \in Jobs, j \notin overlapped'
    PROVE  LegalMove(j)
  <1> USE DEF LegalMove, dbVars
  <1>1. /\ TypeOK /\ JobOK(j)
        /\ job[j] \in Row
        /\ job[j].status = job'[j].status => LegalMove(j)
    BY OverlappedGrows DEF IInv, TypeOK, DbType, CanTransition
  <1> USE <1>1 DEF TypeOK, DbType
  <1>2. ASSUME NEW i \in Jobs, Ingest(i)
        PROVE  LegalMove(j)
    BY <1>2 DEF Ingest, CanTransition
  <1>3. ASSUME NEW i \in Jobs, Replay(i)
        PROVE  LegalMove(j)
    BY <1>3 DEF Replay, CanTransition
  <1>4. ASSUME NEW i \in Jobs, BackoffElapses(i) \/ LeaseExpires(i)
        PROVE  LegalMove(j)
    BY <1>1, <1>4, ClockStep
  <1>5. ASSUME StartupRecovery \/ TickerFires
        PROVE  LegalMove(j)
    <2>1. CASE RecoverStaleDeliveryJobs
      BY <2>1 DEF RecoverStaleDeliveryJobs, Stale, Recovered, Row, CanTransition
    <2>2. CASE UNCHANGED job
      BY <2>2 DEF CanTransition
    <2> QED
      BY <1>5, <2>1, <2>2 DEF StartupRecovery, TickerFires
  <1>6. ASSUME NEW S \in SUBSET Jobs, ClaimRows(S)
        PROVE  LegalMove(j)
    BY <1>6 DEF ClaimRows, Claimable, Claimed, Row, CanTransition
  <1>7. CASE ClaimPendingDeliveryJobs \/ ClaimFails
    BY <1>6, <1>7 DEF ClaimPendingDeliveryJobs, ClaimFails, CanTransition
  <1>8. ASSUME NEW t \in batch, Reject(t) \/ LoadFails(t)
        PROVE  LegalMove(j)
    BY <1>8 DEF Reject, LoadFails, Release, CanTransition
  <1>9. ASSUME NEW w \in Workers, UpdateJob(w)
        PROVE  LegalMove(j)
    <2>1. CASE task[w].job = j
      <3>1. job[j].status = "PROCESSING"
        BY <1>9, <2>1 DEF UpdateJob, JobOK, Held, InWorker, Busy
      <3>2. job'[j].status \in {"PROCESSING", "DELIVERED", "RETRY_WAIT", "DEAD_LETTER"}
        <4> DEFINE written == IF Decision(w) = "DELIVERED" THEN Completed(job[j])
                              ELSE Failed(job[j], Decision(w))
        <4>1. job' = [job EXCEPT ![j] = written] \/ job' = job
          BY <1>9, <2>1 DEF UpdateJob
        <4>2. written.status = Decision(w)
          BY DEF Completed, Failed, Row
        <4> QED
          BY <3>1, <4>1, <4>2, DecisionType
      <3> QED
        BY <3>1, <3>2 DEF CanTransition
    <2>2. CASE task[w].job # j
      BY <1>9, <2>2 DEF UpdateJob, CanTransition
    <2> QED
      BY <2>1, <2>2
  <1>10. UNCHANGED job => LegalMove(j)
    BY DEF CanTransition
  <1> QED
    BY <1>2, <1>3, <1>4, <1>5, <1>7, <1>8, <1>9, <1>10
    DEF Next, Poll, Work, TriggerFires, Submit, Dequeue, Acquire, Block, Respond, Abandon,
        RecordAttempt, ReportStatus, BeginShutdown, Crash, Exit, Vanish, Restart, vars

(* The status column only ever moves as CanTransition allows, but for the  *)
(* two releases to PENDING, as long as a job is not released under its     *)
(* holder.                                                                 *)
THEOREM Transitions == Spec => LegalTransitions
  <1>1. IInv /\ [Next]_vars => [\A j \in Jobs \ overlapped' : LegalMove(j)]_job
    BY LegalStep
  <1> QED
    BY <1>1, IInvAlways, PTL DEF Spec, LegalTransitions

=============================================================================
