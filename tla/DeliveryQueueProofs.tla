------------------------ MODULE DeliveryQueueProofs ------------------------
(***************************************************************************)
(* Theorems about DeliveryQueue, for every number of jobs, workers and     *)
(* endpoints and every value of the bounds.                                *)
(***************************************************************************)
EXTENDS DeliveryQueue, TLAPS

(* Every statement of delivery.sql leaves a well-formed row. *)
LEMMA RowTypes ==
    ASSUME NEW r \in Row
    PROVE  /\ Created \in Row
           /\ Claimed(r) \in Row
           /\ Completed(r) \in Row
           /\ \A s \in {"RETRY_WAIT", "DEAD_LETTER"} : Failed(r, s) \in Row
           /\ Recovered(r) \in Row
           /\ Requeued(r) \in Row
  <1>1. /\ r.attempts \in Nat /\ r.attempts + 1 \in Nat
        /\ r.max \in Nat /\ r.attempts + Bonus \in Nat
    BY BoundsAssumption DEF Row
  <1>2. Created \in Row
    BY BoundsAssumption DEF Row, DeliveryStates, Created
  <1>3. Claimed(r) \in Row
    BY DEF Row, DeliveryStates, Claimed
  <1>4. Completed(r) \in Row
    BY <1>1 DEF Row, DeliveryStates, Completed
  <1>5. ASSUME NEW s \in {"RETRY_WAIT", "DEAD_LETTER"}
        PROVE  Failed(r, s) \in Row
    BY <1>1 DEF Row, DeliveryStates, Failed
  <1>6. Recovered(r) \in Row
    BY DEF Row, DeliveryStates, Recovered
  <1>7. Requeued(r) \in Row
    BY <1>1 DEF Row, DeliveryStates, Requeued
  <1> QED
    BY <1>2, <1>3, <1>4, <1>5, <1>6, <1>7

(* A row with one of its fields replaced. *)
LEMMA RowFields ==
    ASSUME NEW r \in Row
    PROVE  /\ r.attempts \in Nat
           /\ r.max \in Nat
           /\ [r EXCEPT !.due = TRUE] \in Row
           /\ [r EXCEPT !.lock = "old"] \in Row
  BY DEF Row

(* A worker's decision is one of the three outcomes. *)
LEMMA DecisionType ==
    ASSUME NEW w \in Workers
    PROVE  Decision(w) \in {"DELIVERED", "RETRY_WAIT", "DEAD_LETTER"}
  BY DEF Decision, EvaluateResponse

(* What a step leaves alone keeps its type. *)
LEMMA Frame ==
    ASSUME TypeOK
    PROVE  /\ UNCHANGED dbVars => DbType'
           /\ UNCHANGED <<mode, recovering, spent>> => ProcessType'
           /\ UNCHANGED pollVars => PollType'
           /\ UNCHANGED queue => QueueType'
           /\ UNCHANGED workVars => WorkType'
           /\ UNCHANGED history => HistoryType'
  <1> USE DEF TypeOK
  <1>1. UNCHANGED dbVars => DbType'
    BY DEF DbType, dbVars
  <1>2. UNCHANGED <<mode, recovering, spent>> => ProcessType'
    BY DEF ProcessType
  <1>3. UNCHANGED pollVars => PollType'
    BY DEF PollType, pollVars
  <1>4. UNCHANGED queue => QueueType'
    BY DEF QueueType
  <1>5. UNCHANGED workVars => WorkType'
    BY DEF WorkType, workVars
  <1>6. UNCHANGED history => HistoryType'
    BY DEF HistoryType, history
  <1> QED
    BY <1>1, <1>2, <1>3, <1>4, <1>5, <1>6

(* Counting a bounded event keeps the counters' type. *)
LEMMA SpendType ==
    ASSUME ProcessType, NEW k \in Kinds, Spend(k)
    PROVE  spent' \in [Kinds -> Nat]
  BY DEF ProcessType, Spend

(* The number of the next attempt is a natural number, whether or not the  *)
(* count reaches the database.                                             *)
LEMMA CountType ==
    ASSUME TypeOK, NEW w \in Workers, task[w] \in Task, CountAttempts(w)
    PROVE  /\ number' \in [Workers -> Nat]
           /\ spent' \in [Kinds -> Nat]
  <1>1. "fault" \in Kinds
    BY DEF Kinds
  <1>2. Len(rows[task[w].job]) \in Nat
    BY DEF TypeOK, DbType, Task
  <1>3. spent' \in [Kinds -> Nat]
    BY <1>1, SpendType DEF TypeOK, ProcessType, CountAttempts, Reaches, Misses
  <1>4. number' \in [Workers -> Nat]
    BY <1>2 DEF TypeOK, WorkType, CountAttempts
  <1> QED
    BY <1>3, <1>4

LEMMA InitType == Init => TypeOK
  <1> SUFFICES ASSUME Init PROVE TypeOK
    OBVIOUS
  <1>1. DbType
    BY DEF Init, DbType, Row, DeliveryStates
  <1>2. ProcessType
    BY DEF Init, ProcessType
  <1>3. PollType /\ QueueType
    BY BoundsAssumption DEF Init, PollType, QueueType
  <1>4. WorkType /\ HistoryType
    BY DEF Init, WorkType, HistoryType, Answers
  <1> QED
    BY <1>1, <1>2, <1>3, <1>4 DEF TypeOK

(* TypeOK survives every step. *)
LEMMA TypeStep == TypeOK /\ [Next]_vars => TypeOK'
  <1> SUFFICES ASSUME TypeOK, [Next]_vars
               PROVE  TypeOK'
    OBVIOUS
  <1> USE DEF TypeOK
  <1>1. ASSUME NEW j \in Jobs, Ingest(j)
        PROVE  TypeOK'
    <2>1. DbType'
      BY <1>1, RowTypes DEF Ingest, DbType
    <2>2. PollType'
      BY <1>1, BoundsAssumption DEF Ingest, PollType, TriggerQueue
    <2> QED
      BY <1>1, <2>1, <2>2, Frame DEF Ingest, dbVars, pollVars, workVars, history
  <1>2. ASSUME NEW j \in Jobs, Replay(j)
        PROVE  TypeOK'
    <2>1. DbType'
      BY <1>2, RowTypes DEF Replay, DbType
    <2>2. ProcessType'
      BY <1>2, SpendType DEF Replay, ProcessType, Kinds
    <2>3. PollType'
      BY <1>2, BoundsAssumption DEF Replay, PollType, TriggerQueue
    <2>4. HistoryType'
      BY <1>2 DEF Replay, HistoryType
    <2> QED
      BY <1>2, <2>1, <2>2, <2>3, <2>4, Frame DEF Replay, dbVars, pollVars, workVars, history
  <1>3. ASSUME NEW j \in Jobs, BackoffElapses(j)
        PROVE  TypeOK'
    <2>1. DbType'
      BY <1>3, RowFields DEF BackoffElapses, DbType
    <2> QED
      BY <1>3, <2>1, Frame DEF BackoffElapses, dbVars, pollVars, workVars, history
  <1>4. ASSUME NEW j \in Jobs, LeaseExpires(j)
        PROVE  TypeOK'
    <2>1. DbType'
      BY <1>4, RowFields DEF LeaseExpires, DbType
    <2>2. ProcessType'
      BY <1>4, SpendType DEF LeaseExpires, ProcessType, Kinds
    <2> QED
      BY <1>4, <2>1, <2>2, Frame DEF LeaseExpires, dbVars, pollVars, workVars, history
  <1>5. CASE StartupRecovery
    <2>1. DbType'
      BY <1>5, RowTypes DEF StartupRecovery, DbType, RecoverStaleDeliveryJobs
    <2>2. ProcessType'
      BY <1>5, SpendType DEF StartupRecovery, ProcessType, Kinds
    <2>3. HistoryType'
      BY <1>5 DEF StartupRecovery, HistoryType, RecoverStaleDeliveryJobs
    <2> QED
      BY <1>5, <2>1, <2>2, <2>3, Frame DEF StartupRecovery, dbVars, pollVars, workVars, history
  <1>6. CASE TriggerFires
    <2>1. PollType'
      BY <1>6, BoundsAssumption DEF TriggerFires, PollType
    <2> QED
      BY <1>6, <2>1, Frame DEF TriggerFires, dbVars, pollVars, workVars, history
  <1>7. CASE TickerFires
    <2>1. DbType'
      BY <1>7, RowTypes DEF TickerFires, DbType, RecoverStaleDeliveryJobs
    <2>2. ProcessType'
      BY <1>7, SpendType DEF TickerFires, ProcessType, Kinds
    <2>3. PollType'
      BY <1>7 DEF TickerFires, PollType
    <2>4. HistoryType'
      BY <1>7 DEF TickerFires, HistoryType, RecoverStaleDeliveryJobs
    <2> QED
      BY <1>7, <2>1, <2>2, <2>3, <2>4, Frame DEF TickerFires, dbVars, pollVars, workVars, history
  <1>8. CASE ClaimPendingDeliveryJobs
    <2>1. DbType'
      BY <1>8, RowTypes DEF ClaimPendingDeliveryJobs, DbType, ClaimRows
    <2>2. PollType'
      <3>1. \A j \in Jobs : Snapshot(j) \in Task
        BY RowFields DEF DbType, Snapshot, Task
      <3> QED
        BY <1>8, <3>1 DEF ClaimPendingDeliveryJobs, PollType
    <2> QED
      BY <1>8, <2>1, <2>2, Frame DEF ClaimPendingDeliveryJobs, dbVars, pollVars, workVars, history
  <1>9. CASE ClaimFails
    <2>1. DbType'
      BY <1>9, RowTypes DEF ClaimFails, DbType, ClaimRows
    <2>2. ProcessType'
      BY <1>9, SpendType DEF ClaimFails, ProcessType, Kinds
    <2>3. PollType'
      BY <1>9 DEF ClaimFails, PollType
    <2> QED
      BY <1>9, <2>1, <2>2, <2>3, Frame DEF ClaimFails, dbVars, pollVars, workVars, history
  <1>10. ASSUME NEW t \in batch, Submit(t)
        PROVE  TypeOK'
    <2>1. PollType'
      BY <1>10 DEF Submit, HandOver, PollType
    <2>2. QueueType'
      BY <1>10, BoundsAssumption DEF Submit, HandOver, PollType, QueueType
    <2> QED
      BY <1>10, <2>1, <2>2, Frame DEF Submit, HandOver, dbVars, pollVars, workVars, history
  <1>11. ASSUME NEW t \in batch, Reject(t)
        PROVE  TypeOK'
    <2>1. DbType'
      <3>1. t.job \in Jobs
        BY DEF PollType, Task
      <3>2. job[t.job] \in Row
        BY <3>1 DEF DbType
      <3> QED
        BY <1>11, <3>1, <3>2, RowTypes DEF Reject, HandOver, DbType, Release
    <2>2. ProcessType'
      BY <1>11, SpendType DEF Reject, HandOver, ProcessType, Kinds
    <2>3. PollType'
      BY <1>11 DEF Reject, HandOver, PollType
    <2> QED
      BY <1>11, <2>1, <2>2, <2>3, Frame DEF Reject, HandOver, dbVars, pollVars, workVars, history
  <1>12. ASSUME NEW t \in batch, LoadFails(t)
        PROVE  TypeOK'
    <2>1. DbType'
      <3>1. t.job \in Jobs
        BY DEF PollType, Task
      <3>2. job[t.job] \in Row
        BY <3>1 DEF DbType
      <3> QED
        BY <1>12, <3>1, <3>2, RowTypes DEF LoadFails, HandOver, DbType, Release
    <2>2. ProcessType'
      BY <1>12, SpendType DEF LoadFails, HandOver, ProcessType, Kinds
    <2>3. PollType'
      BY <1>12 DEF LoadFails, HandOver, PollType
    <2> QED
      BY <1>12, <2>1, <2>2, <2>3, Frame DEF LoadFails, HandOver, dbVars, pollVars, workVars, history
  <1>13. ASSUME NEW w \in Workers, Dequeue(w)
        PROVE  TypeOK'
    <2>1. QueueType'
      <3>1. queue \in Seq(Task) /\ queue # <<>> /\ queue' = Tail(queue)
        BY <1>13 DEF Dequeue, QueueType
      <3>2. Tail(queue) \in Seq(Task) /\ Len(Tail(queue)) = Len(queue) - 1
        BY <3>1
      <3> QED
        BY <3>1, <3>2, BoundsAssumption DEF QueueType
    <2>2. WorkType'
      BY <1>13 DEF Dequeue, QueueType, WorkType, GoTo
    <2> QED
      BY <1>13, <2>1, <2>2, Frame DEF Dequeue, dbVars, pollVars, workVars, history
  <1>14. ASSUME NEW w \in Workers, Acquire(w)
        PROVE  TypeOK'
    <2>1. WorkType'
      BY <1>14 DEF Acquire, WorkType, GoTo
    <2> QED
      BY <1>14, <2>1, Frame DEF Acquire, dbVars, pollVars, workVars, history
  <1>15. ASSUME NEW w \in Workers, Block(w)
        PROVE  TypeOK'
    <2>1. ProcessType'
      BY <1>15, CountType DEF Block, ProcessType, WorkType
    <2>2. WorkType'
      BY <1>15, CountType DEF Block, WorkType, GoTo, Answers
    <2>3. HistoryType'
      BY <1>15 DEF Block, HistoryType, WorkType, Task
    <2> QED
      BY <1>15, <2>1, <2>2, <2>3, Frame DEF Block, dbVars, pollVars, workVars, history
  <1>16. ASSUME NEW w \in Workers, NEW code \in Codes \union {NetworkError}, Respond(w, code)
        PROVE  TypeOK'
    <2>1. ProcessType'
      BY <1>16, CountType DEF Respond, ProcessType, WorkType
    <2>2. WorkType'
      BY <1>16, CountType DEF Respond, WorkType, GoTo, Answers
    <2>3. HistoryType'
      BY <1>16 DEF Respond, HistoryType, WorkType, Task
    <2> QED
      BY <1>16, <2>1, <2>2, <2>3, Frame DEF Respond, dbVars, pollVars, workVars, history
  <1>17. ASSUME NEW w \in Workers, Abandon(w)
        PROVE  TypeOK'
    <2>1. ProcessType'
      BY <1>17, SpendType DEF Abandon, ProcessType, Kinds
    <2>2. WorkType'
      BY <1>17 DEF Abandon, WorkType, Finish, GoTo, Answers
    <2> QED
      BY <1>17, <2>1, <2>2, Frame DEF Abandon, dbVars, pollVars, workVars, history
  <1>18. ASSUME NEW w \in Workers, RecordAttempt(w)
        PROVE  TypeOK'
    <2>1. DbType'
      <3>1. task[w].job \in Jobs /\ number[w] \in Nat
        BY <1>18 DEF RecordAttempt, WorkType, Task
      <3>2. Append(rows[task[w].job], number[w]) \in Seq(Nat)
        BY <3>1 DEF DbType
      <3> QED
        BY <1>18, <3>1, <3>2 DEF RecordAttempt, DbType
    <2>2. ProcessType'
      BY <1>18, SpendType DEF RecordAttempt, ProcessType, Reaches, Misses, Kinds
    <2>3. WorkType'
      BY <1>18 DEF RecordAttempt, WorkType, GoTo
    <2> QED
      BY <1>18, <2>1, <2>2, <2>3, Frame DEF RecordAttempt, dbVars, pollVars, workVars, history
  <1>19. ASSUME NEW w \in Workers, UpdateJob(w)
        PROVE  TypeOK'
    <2>1. DbType'
      <3>1. task[w].job \in Jobs
        BY <1>19 DEF UpdateJob, WorkType, Task
      <3>2. job[task[w].job] \in Row
        BY <3>1 DEF DbType
      <3> DEFINE r == job[task[w].job]
                 written == IF Decision(w) = "DELIVERED" THEN Completed(r)
                            ELSE Failed(r, Decision(w))
      <3>3. written \in Row
        BY <3>2, RowTypes, DecisionType
      <3>4. job' = [job EXCEPT ![task[w].job] = written] \/ job' = job
        BY <1>19 DEF UpdateJob
      <3>5. job' \in [Jobs -> Row]
        BY <3>1, <3>3, <3>4 DEF DbType
      <3> QED
        BY <1>19, <3>5 DEF UpdateJob, DbType
    <2>2. ProcessType'
      BY <1>19, SpendType DEF UpdateJob, ProcessType, Reaches, Misses, Kinds
    <2>3. WorkType'
      BY <1>19 DEF UpdateJob, WorkType, GoTo
    <2> QED
      BY <1>19, <2>1, <2>2, <2>3, Frame DEF UpdateJob, dbVars, pollVars, workVars, history
  <1>20. ASSUME NEW w \in Workers, ReportStatus(w)
        PROVE  TypeOK'
    <2>1. DbType'
      BY <1>20, DecisionType DEF ReportStatus, DbType, WorkType, Task
    <2>2. ProcessType'
      BY <1>20, SpendType DEF ReportStatus, ProcessType, Reaches, Misses, Kinds
    <2>3. WorkType'
      BY <1>20 DEF ReportStatus, WorkType, Finish, GoTo, Answers
    <2> QED
      BY <1>20, <2>1, <2>2, <2>3, Frame DEF ReportStatus, dbVars, pollVars, workVars, history
  <1>21. CASE BeginShutdown
    <2>1. ProcessType'
      BY <1>21, SpendType DEF BeginShutdown, ProcessType, Kinds
    <2> QED
      BY <1>21, <2>1, Frame DEF BeginShutdown, dbVars, pollVars, workVars, history
  <1>22. CASE Crash
    <2>1. ProcessType'
      BY <1>22, SpendType DEF Crash, Vanish, ProcessType, Kinds
    <2>2. PollType'
      BY <1>22, BoundsAssumption DEF Crash, Vanish, PollType
    <2>3. QueueType'
      BY <1>22, BoundsAssumption DEF Crash, Vanish, QueueType
    <2>4. WorkType'
      BY <1>22 DEF Crash, Vanish, WorkType, Answers
    <2> QED
      BY <1>22, <2>1, <2>2, <2>3, <2>4, Frame DEF Crash, Vanish, dbVars, pollVars, workVars, history
  <1>23. CASE Exit
    <2>1. ProcessType'
      BY <1>23 DEF Exit, Vanish, ProcessType
    <2>2. PollType'
      BY <1>23, BoundsAssumption DEF Exit, Vanish, PollType
    <2>3. QueueType'
      BY <1>23, BoundsAssumption DEF Exit, Vanish, QueueType
    <2>4. WorkType'
      BY <1>23 DEF Exit, Vanish, WorkType, Answers
    <2> QED
      BY <1>23, <2>1, <2>2, <2>3, <2>4, Frame DEF Exit, Vanish, dbVars, pollVars, workVars, history
  <1>24. CASE Restart
    <2>1. ProcessType'
      BY <1>24 DEF Restart, ProcessType
    <2> QED
      BY <1>24, <2>1, Frame DEF Restart, dbVars, pollVars, workVars, history
  <1>25. CASE UNCHANGED vars
    BY <1>25, Frame DEF vars
  <1> QED
    BY <1>1, <1>2, <1>3, <1>4, <1>5, <1>6, <1>7, <1>8, <1>9, <1>10, <1>11, <1>12, <1>13, <1>14, <1>15, <1>16, <1>17, <1>18, <1>19, <1>20, <1>21, <1>22, <1>23, <1>24, <1>25 DEF Next, Poll, Work

(* Every reachable state has the declared types: in particular neither the *)
(* task channel nor the trigger channel ever exceeds its buffer.           *)
THEOREM TypeCorrect == Spec => []TypeOK
  <1>1. Init => TypeOK
    BY InitType
  <1>2. TypeOK /\ [Next]_vars => TypeOK'
    BY TypeStep
  <1> QED
    BY <1>1, <1>2, PTL DEF Spec

=============================================================================
