----------------------- MODULE DeliveryContractProofs -----------------------
(***************************************************************************)
(* DeliveryQueue keeps the contract of DeliveryContract: every step of the *)
(* poller, the workers, the clock, the operator and the process is a step  *)
(* of the contract or leaves what the outside sees of the jobs unchanged.  *)
(* On the way: DELIVERED is never a lie, a dead letter has its reason, and *)
(* the attempts of a job are numbered without gaps.                        *)
(***************************************************************************)
EXTENDS DeliveryLeaseProofs

(* A worker about to write DELIVERED got a successful answer. *)
AckedAnswers ==
    \A w \in Workers :
        pc[w] \in {"recording", "updating", "reporting"} /\ Decision(w) = "DELIVERED" =>
            task[w].job \in acked

AckInv == AckedAnswers /\ DeliveredWasAcked

LEMMA DecisionDelivered ==
    ASSUME NEW w \in Workers, Decision(w) = "DELIVERED"
    PROVE  Success(answer[w], Options(task[w]))
  BY DEF Decision, EvaluateResponse

(* Nobody forgets an acknowledgement. *)
LEMMA AckedGrows == [Next]_vars => acked \subseteq acked'
  <1> SUFFICES ASSUME [Next]_vars
               PROVE  acked \subseteq acked'
    OBVIOUS
  <1>1. ASSUME NEW w \in Workers, NEW code \in Codes \union {NetworkError}, Respond(w, code)
        PROVE  acked \subseteq acked'
    BY <1>1 DEF Respond
  <1> QED
    BY <1>1 DEF Next, Poll, Work, Ingest, Replay, StartupRecovery, TickerFires, BackoffElapses,
        LeaseExpires, TriggerFires, ClaimPendingDeliveryJobs, ClaimFails, Submit, Reject,
        LoadFails, HandOver, Dequeue, Acquire, Block, Abandon, RecordAttempt, UpdateJob,
        ReportStatus, BeginShutdown, Crash, Exit, Vanish, Restart, vars, history

(* The status each statement of delivery.sql writes. *)
LEMMA StatusWritten ==
    ASSUME NEW r \in Row
    PROVE  /\ Created.status = "PENDING"
           /\ Claimed(r).status = "PROCESSING"
           /\ Completed(r).status = "DELIVERED"
           /\ \A s : Failed(r, s).status = s
           /\ Recovered(r).status = "RETRY_WAIT"
           /\ Requeued(r).status = "PENDING"
  BY DEF Created, Claimed, Completed, Failed, Recovered, Requeued, Row

(* A row becomes DELIVERED, or its request is shown so, only by a worker's *)
(* decision.                                                               *)
LEMMA DeliveredByWorker ==
    ASSUME TypeOK, [Next]_vars, NEW j \in Jobs
    PROVE  /\ job'[j].status = "DELIVERED" =>
                \/ job[j].status = "DELIVERED"
                \/ \E w \in Workers : /\ pc[w] = "updating" /\ task[w].job = j
                                      /\ Decision(w) = "DELIVERED"
           /\ reqStatus'[j] = "DELIVERED" =>
                \/ reqStatus[j] = "DELIVERED"
                \/ \E w \in Workers : /\ pc[w] = "reporting" /\ task[w].job = j
                                      /\ Decision(w) = "DELIVERED"
  <1> DEFINE Goal ==
        /\ job'[j].status = "DELIVERED" =>
             \/ job[j].status = "DELIVERED"
             \/ \E w \in Workers : /\ pc[w] = "updating" /\ task[w].job = j
                                   /\ Decision(w) = "DELIVERED"
        /\ reqStatus'[j] = "DELIVERED" =>
             \/ reqStatus[j] = "DELIVERED"
             \/ \E w \in Workers : /\ pc[w] = "reporting" /\ task[w].job = j
                                   /\ Decision(w) = "DELIVERED"
  <1> USE DEF dbVars
  <1>1. /\ job \in [Jobs -> Row] /\ job[j] \in Row
        /\ DOMAIN reqStatus = Jobs
    BY DEF TypeOK, DbType
  <1>2. ASSUME NEW i \in Jobs, Ingest(i)
        PROVE  Goal
    BY <1>1, <1>2, StatusWritten DEF Ingest
  <1>3. ASSUME NEW i \in Jobs, Replay(i)
        PROVE  Goal
    BY <1>1, <1>3, StatusWritten DEF Replay
  <1>4. ASSUME NEW i \in Jobs, BackoffElapses(i) \/ LeaseExpires(i)
        PROVE  Goal
    <2>1. UNCHANGED reqStatus
      BY <1>4 DEF BackoffElapses, LeaseExpires
    <2> QED
      BY <1>4, <2>1, ClockStep
  <1>5. ASSUME StartupRecovery \/ TickerFires
        PROVE  Goal
    <2>1. UNCHANGED reqStatus
      BY <1>5 DEF StartupRecovery, TickerFires
    <2>2. job'[j] = Recovered(job[j]) \/ job'[j] = job[j]
      BY <1>5 DEF StartupRecovery, TickerFires, RecoverStaleDeliveryJobs
    <2> QED
      BY <1>1, <2>1, <2>2, StatusWritten
  <1>6. CASE ClaimPendingDeliveryJobs \/ ClaimFails
    <2>1. UNCHANGED reqStatus
      BY <1>6 DEF ClaimPendingDeliveryJobs, ClaimFails
    <2>2. job'[j] = Claimed(job[j]) \/ job'[j] = job[j]
      BY <1>6 DEF ClaimPendingDeliveryJobs, ClaimFails, ClaimRows
    <2> QED
      BY <1>1, <2>1, <2>2, StatusWritten
  <1>7. ASSUME NEW t \in batch, Reject(t) \/ LoadFails(t)
        PROVE  Goal
    <2>1. UNCHANGED reqStatus
      BY <1>7 DEF Reject, LoadFails, HandOver
    <2>2. job'[j] = Requeued(job[j]) \/ job'[j] = job[j]
      BY <1>1, <1>7 DEF Reject, LoadFails, Release
    <2> QED
      BY <1>1, <2>1, <2>2, StatusWritten
  <1>8. ASSUME NEW w \in Workers, UpdateJob(w)
        PROVE  Goal
    <2>1. CASE task[w].job = j /\ job' # job
      <3> DEFINE written == IF Decision(w) = "DELIVERED" THEN Completed(job[j])
                            ELSE Failed(job[j], Decision(w))
      <3>1. job' = [job EXCEPT ![j] = written] /\ pc[w] = "updating" /\ UNCHANGED reqStatus
        BY <1>8, <2>1 DEF UpdateJob
      <3>2. written.status = Decision(w)
        BY <1>1, StatusWritten
      <3> QED
        BY <1>1, <2>1, <3>1, <3>2
    <2>2. CASE task[w].job # j \/ job' = job
      BY <1>1, <1>8, <2>2 DEF UpdateJob
    <2> QED
      BY <2>1, <2>2
  <1>9. ASSUME NEW w \in Workers, ReportStatus(w)
        PROVE  Goal
    BY <1>1, <1>9 DEF ReportStatus
  <1>10. UNCHANGED <<job, reqStatus>> => Goal
    OBVIOUS
  <1> QED
    BY <1>2, <1>3, <1>4, <1>5, <1>6, <1>7, <1>8, <1>9, <1>10
    DEF Next, Poll, Work, TriggerFires, Submit, HandOver, Dequeue, Acquire, Block, Respond,
        Abandon, RecordAttempt, BeginShutdown, Crash, Exit, Vanish, Restart, vars

(* What a worker decided stays decided until it is done. *)
LEMMA AnswersStep == TypeOK /\ AckedAnswers /\ [Next]_vars => AckedAnswers'
  <1> SUFFICES ASSUME TypeOK, AckedAnswers, [Next]_vars, NEW v \in Workers,
                      (pc[v] \in {"recording", "updating", "reporting"})',
                      (Decision(v) = "DELIVERED")'
               PROVE  (task[v].job \in acked)'
    BY DEF AckedAnswers
  <1>1. CASE UNCHANGED <<task[v], answer[v]>> /\ pc[v] \in {"recording", "updating", "reporting"}
    BY <1>1, AckedGrows DEF AckedAnswers, Decision
  <1>2. ASSUME NEW w \in Workers, NEW code \in Codes \union {NetworkError}, Respond(w, code), v = w
        PROVE  (task[v].job \in acked)'
    <2>1. Success(code, Options(task[w])) => task[w].job \in acked'
      BY <1>2 DEF Respond
    <2>2. task' = task /\ answer'[w] = code
      BY <1>2 DEF Respond, TypeOK, WorkType
    <2>3. (Success(answer[w], Options(task[w])))'
      BY <1>2, DecisionDelivered DEF Decision, EvaluateResponse
    <2> QED
      BY <1>2, <2>1, <2>2, <2>3 DEF Success, Options
  <1>3. ASSUME NEW w \in Workers, Block(w), v = w
        PROVE  (task[v].job \in acked)'
    <2>1. answer'[w] = Blocked
      BY <1>3 DEF Block, TypeOK, WorkType
    <2> QED
      BY <1>3, <2>1 DEF Decision
  <1> QED
    BY <1>1, <1>2, <1>3
    DEF Next, Poll, Work, Ingest, Replay, StartupRecovery, TickerFires, BackoffElapses,
        LeaseExpires, TriggerFires, ClaimPendingDeliveryJobs, ClaimFails, Submit, Reject,
        LoadFails, HandOver, Dequeue, Acquire, Block, Respond, Abandon, RecordAttempt, UpdateJob,
        ReportStatus, BeginShutdown, Crash, Exit, Vanish, Restart, vars, workVars, GoTo, Finish,
        TypeOK, WorkType

LEMMA AckInvAlways == Spec => []AckInv
  <1>1. Init => AckInv
    BY DEF Init, AckInv, AckedAnswers, DeliveredWasAcked
  <1>2. TypeOK /\ AckInv /\ [Next]_vars => AckInv'
    <2> SUFFICES ASSUME TypeOK, AckInv, [Next]_vars
                 PROVE  DeliveredWasAcked'
      BY AnswersStep DEF AckInv
    <2> QED
      BY DeliveredByWorker, AckedGrows DEF AckInv, AckedAnswers, DeliveredWasAcked
  <1> QED
    BY <1>1, <1>2, TypeCorrect, PTL DEF Spec

(* A job, or its captured request, is shown as DELIVERED only if the       *)
(* upstream answered with success: no race, crash or replay forges it.     *)
THEOREM DeliveredIsTrue == Spec => []DeliveredWasAcked
  <1>1. AckInv => DeliveredWasAcked
    BY DEF AckInv
  <1> QED
    BY <1>1, AckInvAlways, PTL

(* What a step may make of a row: it leaves its status and its attempts,   *)
(* opens or claims it, or is a worker's write of its decision.             *)
Wrote(w, j) ==
    /\ pc[w] = "updating" /\ task[w].job = j
    /\ job'[j] = IF Decision(w) = "DELIVERED" THEN Completed(job[j])
                 ELSE Failed(job[j], Decision(w))

LEMMA RowMoves ==
    ASSUME TypeOK, [Next]_vars, NEW j \in Jobs
    PROVE  \/ /\ job'[j].status = job[j].status
              /\ job'[j].attempts = job[j].attempts
              /\ job'[j].max = job[j].max
           \/ job'[j].status \in Open
           \/ \E w \in Workers : Wrote(w, j)
  <1> DEFINE Goal ==
        \/ /\ job'[j].status = job[j].status
           /\ job'[j].attempts = job[j].attempts
           /\ job'[j].max = job[j].max
        \/ job'[j].status \in Open
        \/ \E w \in Workers : Wrote(w, j)
  <1>1. job \in [Jobs -> Row] /\ job[j] \in Row
    BY DEF TypeOK, DbType
  <1>2. ASSUME NEW i \in Jobs, Ingest(i)
        PROVE  Goal
    BY <1>1, <1>2, StatusWritten DEF Ingest, Open
  <1>3. ASSUME NEW i \in Jobs, Replay(i)
        PROVE  Goal
    BY <1>1, <1>3, StatusWritten DEF Replay, Open
  <1>4. ASSUME NEW i \in Jobs, BackoffElapses(i) \/ LeaseExpires(i)
        PROVE  Goal
    BY <1>4, ClockStep
  <1>5. ASSUME StartupRecovery \/ TickerFires
        PROVE  Goal
    <2>1. job'[j] = Recovered(job[j]) \/ job'[j] = job[j]
      BY <1>5 DEF StartupRecovery, TickerFires, RecoverStaleDeliveryJobs
    <2> QED
      BY <1>1, <2>1, StatusWritten DEF Open
  <1>6. CASE ClaimPendingDeliveryJobs \/ ClaimFails
    <2>1. job'[j] = Claimed(job[j]) \/ job'[j] = job[j]
      BY <1>6 DEF ClaimPendingDeliveryJobs, ClaimFails, ClaimRows
    <2> QED
      BY <1>1, <2>1, StatusWritten DEF Open
  <1>7. ASSUME NEW t \in batch, Reject(t) \/ LoadFails(t)
        PROVE  Goal
    <2>1. job'[j] = Requeued(job[j]) \/ job'[j] = job[j]
      BY <1>1, <1>7 DEF Reject, LoadFails, Release
    <2> QED
      BY <1>1, <2>1, StatusWritten DEF Open
  <1>8. ASSUME NEW w \in Workers, UpdateJob(w)
        PROVE  Goal
    <2>1. CASE task[w].job = j /\ job' # job
      BY <1>1, <1>8, <2>1 DEF UpdateJob, Wrote
    <2>2. CASE task[w].job # j \/ job' = job
      BY <1>1, <1>8, <2>2 DEF UpdateJob
    <2> QED
      BY <2>1, <2>2
  <1>9. UNCHANGED job => Goal
    OBVIOUS
  <1> QED
    BY <1>2, <1>3, <1>4, <1>5, <1>6, <1>7, <1>8, <1>9
    DEF Next, Poll, Work, TriggerFires, Submit, HandOver, Dequeue, Acquire, Block, Respond,
        Abandon, RecordAttempt, ReportStatus, BeginShutdown, Crash, Exit, Vanish, Restart, vars,
        dbVars

(* An answer that ends a job whatever attempts it has left is remembered   *)
(* by the time its worker has recorded it.                                 *)
Ends(w) == answer[w] = Blocked \/ ~(Success(answer[w], Options(task[w])) \/ Retryable(answer[w]))

RefusedAnswers ==
    \A w \in Workers :
        pc[w] \in {"recording", "updating", "reporting"} /\ Ends(w) => task[w].job \in refused

LEMMA RefusedGrows == [Next]_vars => refused \subseteq refused'
  <1> SUFFICES ASSUME [Next]_vars
               PROVE  refused \subseteq refused'
    OBVIOUS
  <1>1. ASSUME NEW w \in Workers, NEW code \in Codes \union {NetworkError}, Respond(w, code)
        PROVE  refused \subseteq refused'
    BY <1>1 DEF Respond
  <1>2. ASSUME NEW w \in Workers, Block(w)
        PROVE  refused \subseteq refused'
    BY <1>2 DEF Block
  <1> QED
    BY <1>1, <1>2 DEF Next, Poll, Work, Ingest, Replay, StartupRecovery, TickerFires,
        BackoffElapses, LeaseExpires, TriggerFires, ClaimPendingDeliveryJobs, ClaimFails, Submit,
        Reject, LoadFails, HandOver, Dequeue, Acquire, Abandon, RecordAttempt, UpdateJob,
        ReportStatus, BeginShutdown, Crash, Exit, Vanish, Restart, vars, history

LEMMA RefusedAnswersStep == TypeOK /\ RefusedAnswers /\ [Next]_vars => RefusedAnswers'
  <1> SUFFICES ASSUME TypeOK, RefusedAnswers, [Next]_vars, NEW v \in Workers,
                      (pc[v] \in {"recording", "updating", "reporting"})', Ends(v)'
               PROVE  (task[v].job \in refused)'
    BY DEF RefusedAnswers
  <1>1. CASE UNCHANGED <<task[v], answer[v]>> /\ pc[v] \in {"recording", "updating", "reporting"}
    BY <1>1, RefusedGrows DEF RefusedAnswers, Ends
  <1>2. ASSUME NEW w \in Workers, NEW code \in Codes \union {NetworkError}, Respond(w, code), v = w
        PROVE  (task[v].job \in refused)'
    <2>1. Success(code, Options(task[w])) \/ Retryable(code) \/ task[w].job \in refused'
      BY <1>2 DEF Respond
    <2>2. task' = task /\ answer'[w] = code
      BY <1>2 DEF Respond, TypeOK, WorkType
    <2>3. code # Blocked
      BY DataAssumption DEF Blocked, NetworkError
    <2> QED
      BY <1>2, <2>1, <2>2, <2>3 DEF Ends, Options
  <1>3. ASSUME NEW w \in Workers, Block(w), v = w
        PROVE  (task[v].job \in refused)'
    BY <1>3 DEF Block
  <1> QED
    BY <1>1, <1>2, <1>3
    DEF Next, Poll, Work, Ingest, Replay, StartupRecovery, TickerFires, BackoffElapses,
        LeaseExpires, TriggerFires, ClaimPendingDeliveryJobs, ClaimFails, Submit, Reject,
        LoadFails, HandOver, Dequeue, Acquire, Block, Respond, Abandon, RecordAttempt, UpdateJob,
        ReportStatus, BeginShutdown, Crash, Exit, Vanish, Restart, vars, workVars, GoTo, Finish,
        TypeOK, WorkType

(* A worker gives its job up for an answer that ends it, or because the    *)
(* attempt it counts is the last its snapshot allows.                      *)
LEMMA DecisionDead ==
    ASSUME NEW w \in Workers, task[w] \in Task, task[w].max > 0, Decision(w) = "DEAD_LETTER"
    PROVE  Ends(w) \/ task[w].attempts + 1 >= task[w].max
  BY DEF Task, Decision, EvaluateResponse, AttemptLimit, Options, Ends

LEMMA DeadStep ==
    ASSUME IInv, RefusedAnswers, DeadLetterJustified, [Next]_vars
    PROVE  DeadLetterJustified'
  <1> SUFFICES ASSUME NEW j \in Jobs, j \notin overlapped', (job[j].status = "DEAD_LETTER")'
               PROVE  (j \in refused \/ job[j].attempts >= job[j].max)'
    BY DEF DeadLetterJustified
  <1>1. TypeOK /\ JobOK(j) /\ j \notin overlapped
    BY OverlappedGrows DEF IInv
  <1>2. CASE /\ job'[j].status = job[j].status
             /\ job'[j].attempts = job[j].attempts
             /\ job'[j].max = job[j].max
    BY <1>1, <1>2, RefusedGrows DEF DeadLetterJustified
  <1>3. ASSUME NEW w \in Workers, Wrote(w, j)
        PROVE  (j \in refused \/ job[j].attempts >= job[j].max)'
    <2>1. /\ job[j] \in Row /\ job[j].attempts \in Nat /\ job[j].max \in Nat
          /\ Busy(w) /\ task[w] \in Task
      BY <1>1, <1>3 DEF Wrote, TypeOK, DbType, WorkType, Row, Busy
    <2>2. task[w] = Snapshot(j) /\ job[j].status = "PROCESSING"
      BY <1>1, <1>3, <2>1 DEF Wrote, JobOK, Held, InWorker
    <2>3. Decision(w) = "DEAD_LETTER"
      BY <1>3, <2>1, StatusWritten DEF Wrote
    <2>4. task[w].attempts = job[j].attempts /\ task[w].max = job[j].max
      BY <2>2 DEF Snapshot
    <2>5. job[j].attempts < job[j].max
      BY <1>1, <2>2 DEF JobOK, Open
    <2>6. job[j].max > 0
      BY <2>1, <2>5
    <2>7. CASE Ends(w)
      BY <1>3, <2>7, RefusedGrows DEF RefusedAnswers, Wrote
    <2>8. CASE job[j].attempts + 1 >= job[j].max
      <3>1. job'[j] = Failed(job[j], "DEAD_LETTER")
        BY <1>3, <2>3 DEF Wrote
      <3>2. job'[j].attempts = job[j].attempts + 1 /\ job'[j].max = job[j].max
        BY <2>1, <3>1 DEF Failed, Row
      <3> QED
        BY <2>8, <3>2
    <2> QED
      BY <2>1, <2>3, <2>4, <2>6, <2>7, <2>8, DecisionDead
  <1> QED
    BY <1>1, <1>2, <1>3, RowMoves DEF Open

(* A job is given up only for an answer that ends it or after its last     *)
(* allowed attempt, whatever crashes, replays and failing statements       *)
(* interleave, unless it was released under its holder.                    *)
THEOREM GivenUpForAReason == Spec => []DeadLetterJustified
  <1>1. Init => RefusedAnswers /\ DeadLetterJustified
    BY DEF Init, RefusedAnswers, DeadLetterJustified
  <1>2. IInv /\ RefusedAnswers /\ DeadLetterJustified /\ [Next]_vars
        => (RefusedAnswers /\ DeadLetterJustified)'
    BY RefusedAnswersStep, DeadStep DEF IInv
  <1> QED
    BY <1>1, <1>2, IInvAlways, PTL DEF Spec

(* What was spent stays spent. *)
LEMMA FaultsGrow ==
    ASSUME TypeOK, [Next]_vars, (spent["fault"] = 0)'
    PROVE  spent["fault"] = 0 /\ spent["fault"]' = spent["fault"]
  <1>1. spent \in [Kinds -> Nat] /\ "fault" \in Kinds
    BY DEF TypeOK, ProcessType, Kinds
  <1>2. UNCHANGED spent \/ \E k \in Kinds : Spend(k)
    BY DEF Kinds, Next, Poll, Work, Ingest, Replay, StartupRecovery, TickerFires, BackoffElapses,
        LeaseExpires, TriggerFires, ClaimPendingDeliveryJobs, ClaimFails, Submit, Reject,
        LoadFails, HandOver, Dequeue, Acquire, Block, Respond, Abandon, RecordAttempt, UpdateJob,
        ReportStatus, BeginShutdown, Crash, Exit, Vanish, Restart, vars, CountAttempts, Reaches,
        Misses
  <1> QED
    BY <1>1, <1>2 DEF Spend

(* Without a failing statement, the number a worker is about to record is  *)
(* one more than its job has attempts.  A number counted while the pool    *)
(* shuts down is wrong, but then it is not recorded either.                *)
Counted(j) ==
    /\ \A i \in DOMAIN rows[j] : rows[j][i] = i
    /\ \A w \in Workers :
          pc[w] = "recording" /\ task[w].job = j /\ mode = "up" => number[w] = Len(rows[j]) + 1

NumberInv ==
    /\ mode = "down" => \A w \in Workers : pc[w] = "idle"
    /\ spent["fault"] = 0 => \A j \in Jobs \ overlapped : Counted(j)

LEMMA NumberStep == IInv /\ NumberInv /\ [Next]_vars => NumberInv'
  <1> SUFFICES ASSUME IInv, NumberInv, [Next]_vars
               PROVE  NumberInv'
    OBVIOUS
  <1>0. TypeOK
    BY DEF IInv
  <1>1. (mode = "down" => \A w \in Workers : pc[w] = "idle")'
    BY DEF NumberInv,
        Next, Poll, Work, Ingest, Replay, StartupRecovery, TickerFires, BackoffElapses,
        LeaseExpires, TriggerFires, ClaimPendingDeliveryJobs, ClaimFails, Submit, Reject,
        LoadFails, HandOver, Dequeue, Acquire, Block, Respond, Abandon, RecordAttempt, UpdateJob,
        ReportStatus, BeginShutdown, Crash, Exit, Vanish, Restart, vars, workVars, GoTo, Finish
  <1>2. ASSUME NEW j \in Jobs, j \notin overlapped', (spent["fault"] = 0)'
        PROVE  Counted(j)'
    <2>1. j \notin overlapped /\ JobOK(j)
      BY <1>2, OverlappedGrows DEF IInv
    <2>2. spent["fault"] = 0 /\ spent["fault"]' = spent["fault"]
      BY <1>0, <1>2, FaultsGrow
    <2>3. Counted(j)
      BY <2>1, <2>2 DEF NumberInv
    <2>4. ASSUME NEW w \in Workers, RecordAttempt(w)
          PROVE  Counted(j)'
      <3>1. CASE UNCHANGED rows
        BY <1>0, <2>3, <2>4, <3>1 DEF Counted, RecordAttempt, GoTo, TypeOK, WorkType
      <3>2. CASE rows' = [rows EXCEPT ![task[w].job] = Append(@, number[w])] /\ mode = "up"
        <4>1. CASE task[w].job = j
          <5>1. /\ rows[j] \in Seq(Nat) /\ number[w] \in Nat
                /\ rows'[j] = Append(rows[j], number[w])
            BY <1>0, <3>2, <4>1 DEF TypeOK, DbType, WorkType
          <5>2. number[w] = Len(rows[j]) + 1
            BY <2>3, <2>4, <3>2, <4>1 DEF Counted, RecordAttempt
          <5>3. \A i \in DOMAIN rows'[j] : rows'[j][i] = i
            BY <2>3, <5>1, <5>2 DEF Counted
          <5>4. ASSUME NEW v \in Workers, (pc[v] = "recording" /\ task[v].job = j)'
                PROVE  FALSE
            <6>1. pc[v] = "recording" /\ v # w /\ task[v].job = j
              BY <1>0, <2>4, <5>4 DEF RecordAttempt, GoTo, TypeOK, WorkType
            <6> QED
              BY <2>1, <2>4, <4>1, <6>1 DEF JobOK, AtMostOneHolder, Busy, RecordAttempt
          <5> QED
            BY <5>3, <5>4 DEF Counted
        <4>2. CASE task[w].job # j
          <5>1. rows'[j] = rows[j]
            BY <1>0, <3>2, <4>2 DEF TypeOK, DbType
          <5> QED
            BY <1>0, <2>3, <2>4, <5>1 DEF Counted, RecordAttempt, GoTo, TypeOK, WorkType
        <4> QED
          BY <4>1, <4>2
      <3> QED
        BY <2>4, <3>1, <3>2 DEF RecordAttempt, Reaches
    <2>5. ASSUME NEW w \in Workers, CountAttempts(w), GoTo(w, "recording"),
                 UNCHANGED <<rows, mode, task>>
          PROVE  Counted(j)'
      <3>1. mode = "up" => number' = [number EXCEPT ![w] = Len(rows[task[w].job]) + 1]
        BY <1>0, <2>2, <2>5 DEF CountAttempts, Reaches, Misses, Spend, TypeOK, ProcessType, Kinds
      <3>2. ASSUME NEW v \in Workers, (pc[v] = "recording" /\ task[v].job = j /\ mode = "up")'
            PROVE  number'[v] = Len(rows'[j]) + 1
        <4>1. mode = "up" /\ task[v].job = j
          BY <2>5, <3>2
        <4>2. CASE v = w
          BY <1>0, <2>5, <3>1, <4>1, <4>2 DEF TypeOK, WorkType
        <4>3. CASE v # w
          BY <1>0, <2>3, <2>5, <3>1, <3>2, <4>1, <4>3 DEF Counted, GoTo, TypeOK, WorkType
        <4> QED
          BY <4>2, <4>3
      <3> QED
        BY <2>3, <2>5, <3>2 DEF Counted
    <2>6. CASE /\ UNCHANGED rows
               /\ mode' = "up" => mode = "up" \/ \A w \in Workers : pc'[w] = "idle"
               /\ \A w \in Workers : pc'[w] = "recording" =>
                     pc[w] = "recording" /\ UNCHANGED <<task[w], number[w]>>
      BY <2>3, <2>6 DEF Counted
    <2> QED
      BY <1>0, <2>4, <2>5, <2>6
      DEF NumberInv, Next, Poll, Work, Ingest, Replay, StartupRecovery, TickerFires,
        BackoffElapses, LeaseExpires, TriggerFires, ClaimPendingDeliveryJobs, ClaimFails, Submit,
        Reject, LoadFails, HandOver, Dequeue, Acquire, Block, Respond, Abandon, UpdateJob,
        ReportStatus, BeginShutdown, Crash, Exit, Vanish, Restart, vars, dbVars, workVars, GoTo,
        Finish, TypeOK, WorkType
  <1> QED
    BY <1>1, <1>2 DEF NumberInv

(* The attempts of a job are numbered 1, 2, 3... in the order they were    *)
(* recorded, unless a statement failed or the job was released under its   *)
(* holder; a crash or a shutdown between the count and the insert leaves   *)
(* neither a gap nor a duplicate.                                          *)
THEOREM Numbered == Spec => []AttemptsNumbered
  <1>1. Init => NumberInv
    BY DEF Init, NumberInv, Counted
  <1>2. NumberInv => AttemptsNumbered
    BY DEF NumberInv, Counted, AttemptsNumbered
  <1> QED
    BY <1>1, <1>2, NumberStep, IInvAlways, PTL DEF Spec

(* A job that is held, or whose worker is still reporting, has been        *)
(* accepted.                                                               *)
HeldExist ==
    /\ \A t \in batch : job[t.job].status # "NONE"
    /\ \A i \in DOMAIN queue : job[queue[i].job].status # "NONE"
    /\ \A w \in Workers : pc[w] # "idle" => job[task[w].job].status # "NONE"

(* No row disappears. *)
LEMMA RowsStay ==
    ASSUME TypeOK, [Next]_vars, NEW j \in Jobs, job[j].status # "NONE"
    PROVE  job'[j].status # "NONE"
  <1> USE DEF dbVars
  <1>1. job \in [Jobs -> Row] /\ job[j] \in Row
    BY DEF TypeOK, DbType
  <1>2. \/ job'[j] = job[j]
        \/ job'[j].status = job[j].status
        \/ job'[j] \in {Recovered(job[j]), Claimed(job[j]), Requeued(job[j]), Completed(job[j])}
        \/ \E s \in {"RETRY_WAIT", "DEAD_LETTER"} : job'[j] = Failed(job[j], s)
    <2>1. ASSUME NEW i \in Jobs, Ingest(i)
          PROVE  job'[j] = job[j]
      BY <1>1, <2>1 DEF Ingest
    <2>2. ASSUME NEW i \in Jobs, BackoffElapses(i) \/ LeaseExpires(i)
          PROVE  job'[j].status = job[j].status
      BY <2>2, ClockStep
    <2>3. ASSUME NEW i \in Jobs, Replay(i)
          PROVE  job'[j] \in {Requeued(job[j]), job[j]}
      BY <1>1, <2>3 DEF Replay
    <2>4. ASSUME StartupRecovery \/ TickerFires
          PROVE  job'[j] \in {Recovered(job[j]), job[j]}
      BY <1>1, <2>4 DEF StartupRecovery, TickerFires, RecoverStaleDeliveryJobs
    <2>5. ASSUME ClaimPendingDeliveryJobs \/ ClaimFails
          PROVE  job'[j] \in {Claimed(job[j]), job[j]}
      BY <1>1, <2>5 DEF ClaimPendingDeliveryJobs, ClaimFails, ClaimRows
    <2>6. ASSUME NEW t \in batch, Reject(t) \/ LoadFails(t)
          PROVE  job'[j] \in {Requeued(job[j]), job[j]}
      BY <1>1, <2>6 DEF Reject, LoadFails, Release
    <2>7. ASSUME NEW w \in Workers, UpdateJob(w)
          PROVE  \/ job'[j] \in {Completed(job[j]), job[j]}
                 \/ \E s \in {"RETRY_WAIT", "DEAD_LETTER"} : job'[j] = Failed(job[j], s)
      BY <1>1, <2>7, DecisionType DEF UpdateJob
    <2> QED
      BY <2>1, <2>2, <2>3, <2>4, <2>5, <2>6, <2>7
      DEF Next, Poll, Work, TriggerFires, Submit, Dequeue, Acquire, Block, Respond, Abandon,
          RecordAttempt, ReportStatus, BeginShutdown, Crash, Exit, Vanish, Restart, vars
  <1> QED
    BY <1>1, <1>2, StatusWritten

LEMMA HeldExistStep == TypeOK /\ HeldExist /\ [Next]_vars => HeldExist'
  <1> SUFFICES ASSUME TypeOK, HeldExist, [Next]_vars
               PROVE  HeldExist'
    OBVIOUS
  <1> USE DEF HeldExist, pollVars, workVars
  <1>1. /\ \A t \in batch : t.job \in Jobs
        /\ \A i \in DOMAIN queue : queue[i].job \in Jobs
        /\ \A w \in Workers : pc[w] # "idle" => task[w].job \in Jobs
    <2>1. \A i \in DOMAIN queue : queue[i] \in Task
      BY DEF TypeOK, QueueType
    <2> QED
      BY <2>1 DEF TypeOK, PollType, WorkType, Task
  <1>2. /\ \A t \in batch : job'[t.job].status # "NONE"
        /\ \A i \in DOMAIN queue : job'[queue[i].job].status # "NONE"
        /\ \A w \in Workers : pc[w] # "idle" => job'[task[w].job].status # "NONE"
    BY <1>1, RowsStay
  <1>3. CASE ClaimPendingDeliveryJobs
    <2> PICK S \in SUBSET Jobs : ClaimRows(S) /\ batch' = {Snapshot(k) : k \in S}
      BY <1>3 DEF ClaimPendingDeliveryJobs
    <2>1. \A t \in batch' : t.job \in Jobs /\ job[t.job].status # "NONE"
      BY DEF Snapshot, ClaimRows, Claimable
    <2> QED
      BY <1>2, <1>3, <2>1, RowsStay DEF ClaimPendingDeliveryJobs
  <1>4. ASSUME NEW t \in batch, Submit(t)
        PROVE  HeldExist'
    <2>1. queue \in Seq(Task) /\ t \in Task /\ queue' = Append(queue, t)
      BY <1>4 DEF Submit, TypeOK, PollType, QueueType
    <2>2. \A i \in DOMAIN queue' : queue'[i] = t \/ (i \in DOMAIN queue /\ queue'[i] = queue[i])
      BY <2>1
    <2> QED
      BY <1>2, <1>4, <2>2 DEF Submit, HandOver
  <1>5. ASSUME NEW w \in Workers, Dequeue(w)
        PROVE  HeldExist'
    <2>1. queue \in Seq(Task) /\ queue # <<>> /\ queue' = Tail(queue)
      BY <1>5 DEF Dequeue, TypeOK, QueueType
    <2>2. /\ 1 \in DOMAIN queue /\ Head(queue) = queue[1]
          /\ \A i \in DOMAIN queue' : i + 1 \in DOMAIN queue /\ queue'[i] = queue[i + 1]
      BY <2>1
    <2> QED
      BY <1>2, <1>5, <2>2 DEF Dequeue, GoTo, TypeOK, WorkType
  <1>6. ASSUME \/ batch' \subseteq batch /\ UNCHANGED <<queue, pc, task>>
               \/ batch' = {} /\ queue' = <<>> /\ \A v \in Workers : pc'[v] = "idle"
               \/ \E w \in Workers :
                      /\ UNCHANGED <<batch, queue>>
                      /\ pc[w] # "idle"
                      /\ \A v \in Workers \ {w} : pc'[v] = pc[v] /\ task'[v] = task[v]
                      /\ (pc'[w] = "idle" \/ task'[w] = task[w])
        PROVE  HeldExist'
    BY <1>2, <1>6
  <1> QED
    BY <1>3, <1>4, <1>5, <1>6
    DEF Next, Poll, Work, Ingest, Replay, StartupRecovery, TickerFires, BackoffElapses,
        LeaseExpires, TriggerFires, ClaimFails, Reject, LoadFails, HandOver, Acquire, Block,
        Respond, Abandon, RecordAttempt, UpdateJob, ReportStatus, BeginShutdown, Crash, Exit,
        Vanish, Restart, vars, GoTo, Finish, TypeOK, WorkType

CInv == IInv /\ AckInv /\ HeldExist

(* A statement changes what the outside sees of the one row it writes.     *)
LEMMA OutsideOfOneRow ==
    ASSUME TypeOK, NEW j \in Jobs, NEW r, job' = [job EXCEPT ![j] = r]
    PROVE  Outside' = [Outside EXCEPT ![j] = View(r.status)]
  BY DEF Outside, TypeOK, DbType

(* A row that stays open looks the same from the outside. *)
LEMMA OutsideSame ==
    ASSUME \A j \in Jobs : View(job'[j].status) = View(job[j].status)
    PROVE  Outside' = Outside
  BY DEF Outside

LEMMA Views ==
    /\ View("NONE") = "absent"
    /\ View("DELIVERED") = "delivered"
    /\ View("DEAD_LETTER") = "dead"
    /\ \A s \in Open : View(s) = "open"
    /\ \A s \in DeliveryStates : View(s) # "absent"
  BY DEF View, Open, DeliveryStates

(* The bounded events other than replays. *)
LEMMA SpendOther ==
    ASSUME TypeOK, NEW k \in Kinds, k # "replay", Spend(k)
    PROVE  spent'["replay"] = spent["replay"]
  BY DEF TypeOK, ProcessType, Spend, Kinds

LEMMA IngestSim ==
    ASSUME CInv, NEW j \in Jobs, Ingest(j)
    PROVE  Contract!Accept(j)
  <1>1. TypeOK /\ Outside[j] = "absent"
    BY Views DEF CInv, IInv, Ingest, Outside
  <1>2. Outside' = [Outside EXCEPT ![j] = View(Created.status)]
    BY <1>1, OutsideOfOneRow DEF Ingest
  <1>3. View(Created.status) = "open"
    BY Views DEF Created, Open
  <1> QED
    BY <1>1, <1>2, <1>3 DEF Ingest, Contract!Accept, history

LEMMA ReplaySim ==
    ASSUME CInv, NEW j \in Jobs, Replay(j)
    PROVE  Contract!Replay(j)
  <1>1. TypeOK /\ job[j] \in Row
    BY DEF CInv, IInv, TypeOK, DbType
  <1>2. Outside[j] # "absent"
    BY <1>1 DEF Replay, Outside, View
  <1>3. Outside' = [Outside EXCEPT ![j] = View(Requeued(job[j]).status)]
    BY <1>1, OutsideOfOneRow DEF Replay
  <1>4. View(Requeued(job[j]).status) = "open"
    BY <1>1, StatusWritten, Views DEF Open
  <1>5. spent'["replay"] = spent["replay"] + 1
    BY <1>1 DEF Replay, Spend, TypeOK, ProcessType, Kinds
  <1> QED
    BY <1>2, <1>3, <1>4, <1>5 DEF Replay, Contract!Replay

(* The clock is invisible. *)
LEMMA ClockSim ==
    ASSUME CInv, NEW i \in Jobs, BackoffElapses(i) \/ LeaseExpires(i)
    PROVE  UNCHANGED Contract!vars
  <1>1. TypeOK
    BY DEF CInv, IInv
  <1>2. Outside' = Outside
    BY <1>1, ClockStep, OutsideSame
  <1>3. "expiry" \in Kinds
    BY DEF Kinds
  <1>4. spent'["replay"] = spent["replay"]
    BY <1>1, <1>3, SpendOther DEF BackoffElapses, LeaseExpires
  <1> QED
    BY <1>2, <1>4 DEF BackoffElapses, LeaseExpires, history, Contract!vars

(* Recovery disputes the stale rows that are still held. *)
LEMMA RecoverySim ==
    ASSUME CInv, StartupRecovery \/ TickerFires
    PROVE  (\E S \in SUBSET Jobs : Contract!Dispute(S)) \/ UNCHANGED Contract!vars
  <1>1. TypeOK /\ \A j \in Jobs : job[j] \in Row
    BY DEF CInv, IInv, TypeOK, DbType
  <1>2. "fault" \in Kinds
    BY DEF Kinds
  <1>3. UNCHANGED acked /\ spent'["replay"] = spent["replay"]
    BY <1>1, <1>2, SpendOther DEF StartupRecovery, TickerFires
  <1>4. CASE RecoverStaleDeliveryJobs
    <2> DEFINE S == {j \in Jobs : Stale(job[j]) /\ Held(j)}
    <2>1. overlapped' = overlapped \union S
      BY <1>4 DEF RecoverStaleDeliveryJobs
    <2>2. \A j \in Jobs : Stale(job[j]) => View(job[j].status) = "open"
      BY Views DEF Stale, Open
    <2>3. \A j \in Jobs : View(job'[j].status) = View(job[j].status)
      <3> SUFFICES ASSUME NEW j \in Jobs
                   PROVE  View(job'[j].status) = View(job[j].status)
        OBVIOUS
      <3>1. CASE Stale(job[j])
        <4>1. job'[j].status = "RETRY_WAIT"
          BY <1>1, <1>4, <3>1, StatusWritten DEF RecoverStaleDeliveryJobs
        <4> QED
          BY <2>2, <3>1, <4>1, Views DEF Open
      <3>2. CASE ~Stale(job[j])
        BY <1>4, <3>2 DEF RecoverStaleDeliveryJobs
      <3> QED
        BY <3>1, <3>2
    <2>4. Outside' = Outside /\ \A j \in S : Outside[j] = "open"
      BY <2>2, <2>3, OutsideSame DEF Outside
    <2>5. Contract!Dispute(S)
      BY <1>3, <2>1, <2>4 DEF Contract!Dispute
    <2> QED
      BY <2>5
  <1>5. CASE UNCHANGED <<job, overlapped>>
    BY <1>3, <1>5 DEF Outside, Contract!vars
  <1> QED
    BY <1>4, <1>5 DEF StartupRecovery, TickerFires

(* So is a claim: a job stays open when it becomes PROCESSING. *)
LEMMA ClaimSim ==
    ASSUME CInv, ClaimPendingDeliveryJobs \/ ClaimFails
    PROVE  UNCHANGED Contract!vars
  <1>1. TypeOK /\ \A j \in Jobs : job[j] \in Row
    BY DEF CInv, IInv, TypeOK, DbType
  <1>2. ASSUME NEW S \in SUBSET Jobs, ClaimRows(S), NEW j \in Jobs
        PROVE  View(job'[j].status) = View(job[j].status)
    <2>1. CASE j \in S
      <3>1. job[j].status \in Open
        BY <1>2, <2>1 DEF ClaimRows, Claimable, Open
      <3>2. job'[j].status = "PROCESSING"
        BY <1>1, <1>2, <2>1, StatusWritten DEF ClaimRows
      <3> QED
        BY <3>1, <3>2, Views DEF Open
    <2>2. CASE j \notin S
      BY <1>2, <2>2 DEF ClaimRows
    <2> QED
      BY <2>1, <2>2
  <1>3. Outside' = Outside
    <2>1. CASE UNCHANGED job
      BY <2>1 DEF Outside
    <2>2. CASE \E S \in SUBSET Jobs : ClaimRows(S)
      BY <1>2, <2>2, OutsideSame
    <2> QED
      BY <2>1, <2>2 DEF ClaimPendingDeliveryJobs, ClaimFails
  <1>4. "fault" \in Kinds
    BY DEF Kinds
  <1>5. spent'["replay"] = spent["replay"]
    BY <1>1, <1>4, SpendOther DEF ClaimPendingDeliveryJobs, ClaimFails
  <1> QED
    BY <1>3, <1>5 DEF ClaimPendingDeliveryJobs, ClaimFails, history, Contract!vars

(* Releasing a job to PENDING is invisible, unless the job is disputed and *)
(* somebody settled it meanwhile.                                          *)
LEMMA ReleaseSim ==
    ASSUME CInv, NEW t \in batch, Reject(t) \/ LoadFails(t)
    PROVE  Contract!Overwrite(t.job, "open") \/ UNCHANGED Contract!vars
  <1> DEFINE j == t.job
  <1>1. TypeOK /\ j \in Jobs /\ job[j] \in Row
    BY DEF CInv, IInv, TypeOK, DbType, PollType, Task
  <1>2. "reject" \in Kinds /\ "fault" \in Kinds
    BY DEF Kinds
  <1>3. UNCHANGED <<acked, overlapped>> /\ spent'["replay"] = spent["replay"]
    BY <1>1, <1>2, SpendOther DEF Reject, LoadFails, HandOver, history
  <1>4. CASE UNCHANGED job
    BY <1>3, <1>4 DEF Outside, Contract!vars
  <1>5. CASE job' = [job EXCEPT ![j] = Requeued(job[j])]
    <2>1. Outside' = [Outside EXCEPT ![j] = View(Requeued(job[j]).status)]
      BY <1>1, <1>5, OutsideOfOneRow
    <2>2. View(Requeued(job[j]).status) = "open"
      BY <1>1, StatusWritten, Views DEF Open
    <2>3. CASE j \in overlapped
      BY <1>3, <2>1, <2>2, <2>3 DEF Contract!Overwrite
    <2>4. CASE j \notin overlapped
      <3>1. job[j].status = "PROCESSING"
        BY <1>1, <2>4 DEF CInv, IInv, JobOK, Held, InBatch
      <3>2. Outside[j] = "open"
        BY <1>1, <3>1, Views DEF Outside, Open
      <3>3. Outside' = Outside
        BY <2>1, <2>2, <3>2 DEF Outside
      <3> QED
        BY <1>3, <3>3 DEF Contract!vars
    <2> QED
      BY <2>3, <2>4
  <1> QED
    BY <1>4, <1>5 DEF Reject, LoadFails, Release

(* An answer is an acknowledgement if it is a success. *)
LEMMA AnswerSim ==
    ASSUME CInv, NEW w \in Workers, NEW code \in Codes \union {NetworkError}, Respond(w, code)
    PROVE  Contract!Acknowledge(task[w].job) \/ UNCHANGED Contract!vars
  <1> DEFINE j == task[w].job
  <1>1. TypeOK /\ j \in Jobs /\ job[j] \in Row
    BY DEF CInv, IInv, TypeOK, DbType, WorkType, Task, Respond
  <1>2. "fault" \in Kinds
    BY DEF Kinds
  <1>3. spent'["replay"] = spent["replay"]
    BY <1>1, <1>2, SpendOther DEF Respond, CountAttempts, Reaches, Misses
  <1>4. Outside' = Outside /\ UNCHANGED overlapped
    BY DEF Respond, dbVars, Outside
  <1>5. Outside[j] # "absent"
    BY <1>1 DEF CInv, HeldExist, Respond, Outside, View
  <1>6. acked' = acked \union {j} \/ acked' = acked
    BY DEF Respond
  <1> QED
    BY <1>3, <1>4, <1>5, <1>6 DEF Contract!Acknowledge, Contract!vars

(* A worker's outcome settles an open job, or overwrites a disputed one.   *)
LEMMA UpdateSim ==
    ASSUME CInv, NEW w \in Workers, UpdateJob(w)
    PROVE  \/ \E outcome \in {"delivered", "dead"} : Contract!Settle(task[w].job, outcome)
           \/ \E outcome \in {"open", "delivered", "dead"} :
                 Contract!Overwrite(task[w].job, outcome)
           \/ UNCHANGED Contract!vars
  <1> DEFINE j == task[w].job
             written == IF Decision(w) = "DELIVERED" THEN Completed(job[j])
                        ELSE Failed(job[j], Decision(w))
             outcome == View(Decision(w))
  <1>1. TypeOK /\ j \in Jobs /\ job[j] \in Row
    BY DEF CInv, IInv, TypeOK, DbType, WorkType, Task, UpdateJob
  <1>2. "fault" \in Kinds
    BY DEF Kinds
  <1>3. UNCHANGED <<acked, overlapped>> /\ spent'["replay"] = spent["replay"]
    BY <1>1, <1>2, SpendOther DEF UpdateJob, Reaches, Misses, history
  <1>4. CASE UNCHANGED job
    BY <1>3, <1>4 DEF Outside, Contract!vars
  <1>5. CASE job' = [job EXCEPT ![j] = written]
    <2>1. written.status = Decision(w)
      BY <1>1, StatusWritten
    <2>2. Outside' = [Outside EXCEPT ![j] = outcome]
      BY <1>1, <1>5, <2>1, OutsideOfOneRow
    <2>3. /\ outcome \in {"open", "delivered", "dead"}
          /\ outcome = "delivered" => Decision(w) = "DELIVERED"
      BY DecisionType, Views DEF Open
    <2>4. outcome = "delivered" => j \in acked
      BY <2>3 DEF CInv, AckInv, AckedAnswers, UpdateJob
    <2>5. CASE j \in overlapped
      BY <1>3, <2>2, <2>3, <2>4, <2>5 DEF Contract!Overwrite
    <2>6. CASE j \notin overlapped
      <3>1. job[j].status = "PROCESSING"
        BY <1>1, <2>6 DEF CInv, IInv, JobOK, Held, InWorker, UpdateJob, Busy
      <3>2. Outside[j] = "open"
        BY <1>1, <3>1, Views DEF Outside, Open
      <3>3. CASE outcome = "open"
        <4>1. Outside' = Outside
          BY <2>2, <3>2, <3>3 DEF Outside
        <4> QED
          BY <1>3, <4>1 DEF Contract!vars
      <3>4. CASE outcome # "open"
        BY <1>3, <2>2, <2>3, <2>4, <3>2, <3>4 DEF Contract!Settle
      <3> QED
        BY <3>3, <3>4
    <2> QED
      BY <2>5, <2>6
  <1> QED
    BY <1>4, <1>5 DEF UpdateJob

(* Every other step is invisible. *)
LEMMA OtherSim ==
    ASSUME CInv,
           \/ TriggerFires
           \/ \E t \in batch : Submit(t)
           \/ \E w \in Workers : \/ Dequeue(w) \/ Acquire(w) \/ Block(w) \/ Abandon(w)
                                 \/ RecordAttempt(w) \/ ReportStatus(w)
           \/ BeginShutdown \/ Crash \/ Exit \/ Restart \/ UNCHANGED vars
    PROVE  UNCHANGED Contract!vars
  <1>1. TypeOK
    BY DEF CInv, IInv
  <1>2. "fault" \in Kinds /\ "crash" \in Kinds
    BY DEF Kinds
  <1>3. UNCHANGED <<job, acked, overlapped>>
    BY DEF TriggerFires, Submit, HandOver, Dequeue, Acquire, Block, Abandon, RecordAttempt,
           ReportStatus, BeginShutdown, Crash, Exit, Vanish, Restart, vars, dbVars, history
  <1>4. spent' = spent \/ Spend("fault") \/ Spend("crash")
    BY DEF TriggerFires, Submit, Dequeue, Acquire, Block, CountAttempts, Abandon, RecordAttempt,
           ReportStatus, Reaches, Misses, BeginShutdown, Crash, Exit, Restart, vars
  <1>5. spent'["replay"] = spent["replay"]
    BY <1>1, <1>2, <1>4, SpendOther
  <1> QED
    BY <1>3, <1>5 DEF Outside, Contract!vars

(* Every step of the queue is a step of the contract or invisible. *)
LEMMA ContractStep == CInv /\ [Next]_vars => [Contract!Next]_(Contract!vars)
  <1> SUFFICES ASSUME CInv, [Next]_vars
               PROVE  Contract!Next \/ UNCHANGED Contract!vars
    OBVIOUS
  <1> USE DEF Contract!Next
  <1>1. /\ \A t \in batch : t.job \in Jobs
        /\ \A w \in Workers : pc[w] # "idle" => task[w].job \in Jobs
    BY DEF CInv, IInv, TypeOK, PollType, WorkType, Task
  <1>2. ASSUME NEW j \in Jobs, Ingest(j) \/ Replay(j) \/ BackoffElapses(j) \/ LeaseExpires(j)
        PROVE  Contract!Next \/ UNCHANGED Contract!vars
    BY <1>2, IngestSim, ReplaySim, ClockSim
  <1>3. CASE StartupRecovery \/ TickerFires
    BY <1>3, RecoverySim
  <1>4. CASE ClaimPendingDeliveryJobs \/ ClaimFails
    BY <1>4, ClaimSim
  <1>5. ASSUME NEW t \in batch, Reject(t) \/ LoadFails(t)
        PROVE  Contract!Next \/ UNCHANGED Contract!vars
    BY <1>1, <1>5, ReleaseSim
  <1>6. ASSUME NEW w \in Workers, NEW code \in Codes \union {NetworkError}, Respond(w, code)
        PROVE  Contract!Next \/ UNCHANGED Contract!vars
    <2>1. task[w].job \in Jobs
      BY <1>1, <1>6 DEF Respond
    <2> QED
      BY <1>6, <2>1, AnswerSim
  <1>7. ASSUME NEW w \in Workers, UpdateJob(w)
        PROVE  Contract!Next \/ UNCHANGED Contract!vars
    <2>1. task[w].job \in Jobs
      BY <1>1, <1>7 DEF UpdateJob
    <2> QED
      BY <1>7, <2>1, UpdateSim DEF Contract!Settled
  <1>8. ASSUME \/ TriggerFires
               \/ \E t \in batch : Submit(t)
               \/ \E w \in Workers : \/ Dequeue(w) \/ Acquire(w) \/ Block(w) \/ Abandon(w)
                                     \/ RecordAttempt(w) \/ ReportStatus(w)
               \/ BeginShutdown \/ Crash \/ Exit \/ Restart \/ UNCHANGED vars
        PROVE  Contract!Next \/ UNCHANGED Contract!vars
    BY <1>8, OtherSim
  <1> QED
    BY <1>2, <1>3, <1>4, <1>5, <1>6, <1>7, <1>8 DEF Next, Poll, Work

LEMMA ContractInit == Init => Contract!Init
  BY Views DEF Init, Contract!Init, Outside, Kinds

LEMMA HeldExistAlways == Spec => []HeldExist
  <1>1. Init => HeldExist
    BY DEF Init, HeldExist
  <1> QED
    BY <1>1, HeldExistStep, TypeCorrect, PTL DEF Spec

(* The queue implements the contract: nothing but a replay opens a settled *)
(* job that was never released under its holder, a job is settled as       *)
(* delivered only after the upstream acknowledged it, and no crash,        *)
(* shutdown or database error makes a job disappear.                       *)
THEOREM Refinement == Spec => KeepsContract
  <1>1. Spec => []CInv
    BY IInvAlways, AckInvAlways, HeldExistAlways, PTL DEF CInv
  <1> QED
    BY <1>1, ContractInit, ContractStep, PTL DEF Spec, KeepsContract, Contract!Spec

=============================================================================
