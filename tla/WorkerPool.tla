----------------------------- MODULE WorkerPool -----------------------------
(***************************************************************************)
(* The goroutine pool that runs deliveries, events and alerts              *)
(* (internal/worker/pool.go): a buffered channel of tasks, workers that    *)
(* receive from it, callers of Submit and SubmitWithTimeout, and Stop.     *)
(* The grain is one atomic operation of Go: loading or swapping the        *)
(* `closed` flag, sending to, receiving from or closing the channel, and   *)
(* cancelling the context are steps of their own.                          *)
(***************************************************************************)
EXTENDS Naturals, Sequences, FiniteSets

CONSTANTS
    Tasks,     \* tasks somebody may submit, each once
    Workers,   \* the pool's goroutines
    Stoppers,  \* callers of Stop
    QueueCap,  \* buffer of the channel
    NoTask     \* what a waiting worker runs

ASSUME PoolAssumption ==
    /\ Workers # {}
    /\ QueueCap \in Nat \ {0}
    /\ NoTask \notin Tasks

VARIABLES
    tasks,      \* the buffered channel
    shut,       \* close(p.tasks) has happened
    closed,     \* the atomic flag
    cancelled,  \* the pool's context is cancelled
    call,       \* how far the submission of each task has got
    pc,         \* where each worker is
    running,    \* the task it executes
    done,       \* tasks whose execution ended, by a return or by a panic
    stop        \* how far each call of Stop has got

vars == <<tasks, shut, closed, cancelled, call, pc, running, done, stop>>

TypeOK ==
    /\ tasks \in Seq(Tasks)
    /\ Len(tasks) <= QueueCap
    /\ shut \in BOOLEAN
    /\ closed \in BOOLEAN
    /\ cancelled \in BOOLEAN
    /\ call \in [Tasks -> {"new", "sending", "waiting", "accepted", "full", "closed", "panicked"}]
    /\ pc \in [Workers -> {"select", "executing", "draining", "clearing", "exited"}]
    /\ running \in [Workers -> Tasks \union {NoTask}]
    /\ done \in SUBSET Tasks
    /\ stop \in [Stoppers -> {"idle", "closing", "cancelling", "waiting",
                              "stopped", "late", "already", "panicked"}]

Init ==
    /\ tasks = <<>>
    /\ shut = FALSE
    /\ closed = FALSE
    /\ cancelled = FALSE
    /\ call = [t \in Tasks |-> "new"]
    /\ pc = [w \in Workers |-> "select"]
    /\ running = [w \in Workers |-> NoTask]
    /\ done = {}
    /\ stop = [s \in Stoppers |-> "idle"]
-----------------------------------------------------------------------------
(* Callers.  Both functions load the flag first and use the channel later. *)

Load(t, next) ==
    /\ call[t] = "new"
    /\ call' = [call EXCEPT ![t] = IF closed THEN "closed" ELSE next]
    /\ UNCHANGED <<tasks, shut, closed, cancelled, pc, running, done, stop>>

Submit(t) == Load(t, "sending")
SubmitWithTimeout(t) == Load(t, "waiting")

(* MUTANT: the buffer has no bound. *)
SendUnbounded(t) ==
    /\ call[t] \in {"sending", "waiting"}
    /\ ~shut
    /\ tasks' = Append(tasks, t)
    /\ call' = [call EXCEPT ![t] = "accepted"]
    /\ UNCHANGED <<shut, closed, cancelled, pc, running, done, stop>>

(* MUTANT: a send that finds the buffer full overwrites the oldest task. *)
SendOverwriting(t) ==
    /\ call[t] \in {"sending", "waiting"}
    /\ ~shut
    /\ tasks' = IF Len(tasks) < QueueCap THEN Append(tasks, t) ELSE Append(Tail(tasks), t)
    /\ call' = [call EXCEPT ![t] = "accepted"]
    /\ UNCHANGED <<shut, closed, cancelled, pc, running, done, stop>>

Send(t) ==
    /\ call[t] \in {"sending", "waiting"}
    /\ ~shut
    /\ Len(tasks) < QueueCap
    /\ tasks' = Append(tasks, t)
    /\ call' = [call EXCEPT ![t] = "accepted"]
    /\ UNCHANGED <<shut, closed, cancelled, pc, running, done, stop>>

(* A send on a closed channel panics, in a select as well.  It ends the     *)
(* caller's goroutine at least; in the poller's, the whole process.        *)
SendPanics(t) ==
    /\ call[t] \in {"sending", "waiting"}
    /\ shut
    /\ call' = [call EXCEPT ![t] = "panicked"]
    /\ UNCHANGED <<tasks, shut, closed, cancelled, pc, running, done, stop>>

(* Submit gives up at once when the buffer is full, SubmitWithTimeout when *)
(* its timer fires or the pool's context is cancelled.                     *)
GiveUp(t) ==
    /\ \/ call[t] = "sending" /\ ~shut /\ Len(tasks) = QueueCap
             /\ call' = [call EXCEPT ![t] = "full"]
       \/ call[t] = "waiting" /\ call' = [call EXCEPT ![t] = "full"]
       \/ call[t] = "waiting" /\ cancelled /\ call' = [call EXCEPT ![t] = "closed"]
    /\ UNCHANGED <<tasks, shut, closed, cancelled, pc, running, done, stop>>
-----------------------------------------------------------------------------
(* Workers.  "select" is workerLoop, "draining" is drainRemaining;         *)
(* "executing" and "clearing" are executeTask called from each.            *)

Receive(w) ==
    /\ pc[w] \in {"select", "draining"}
    /\ tasks # <<>>
    /\ running' = [running EXCEPT ![w] = Head(tasks)]
    /\ tasks' = Tail(tasks)
    /\ pc' = [pc EXCEPT ![w] = IF @ = "select" THEN "executing" ELSE "clearing"]
    /\ UNCHANGED <<shut, closed, cancelled, call, done, stop>>

(* MUTANT: a panicking task takes its worker with it. *)
ReturnUnrecovered(w) ==
    /\ pc[w] \in {"executing", "clearing"}
    /\ done' = done \union {running[w]}
    /\ running' = [running EXCEPT ![w] = NoTask]
    /\ \/ pc' = [pc EXCEPT ![w] = IF @ = "executing" THEN "select" ELSE "draining"]
       \/ pc' = [pc EXCEPT ![w] = "exited"]
    /\ UNCHANGED <<tasks, shut, closed, cancelled, call, stop>>

(* The task returns, or panics and is recovered: the worker goes on. *)
Return(w) ==
    /\ pc[w] \in {"executing", "clearing"}
    /\ done' = done \union {running[w]}
    /\ running' = [running EXCEPT ![w] = NoTask]
    /\ pc' = [pc EXCEPT ![w] = IF @ = "executing" THEN "select" ELSE "draining"]
    /\ UNCHANGED <<tasks, shut, closed, cancelled, call, stop>>

(* MUTANT: a cancelled context ends the worker without draining. *)
LeaveAtOnce(w) ==
    /\ pc[w] = "select"
    /\ cancelled
    /\ pc' = [pc EXCEPT ![w] = "exited"]
    /\ UNCHANGED <<tasks, shut, closed, cancelled, call, running, done, stop>>

(* Go picks among ready cases: a cancelled context may win over a task. *)
StartDraining(w) ==
    /\ pc[w] = "select"
    /\ cancelled
    /\ pc' = [pc EXCEPT ![w] = "draining"]
    /\ UNCHANGED <<tasks, shut, closed, cancelled, call, running, done, stop>>

(* An empty channel ends drainRemaining at once, workerLoop once it is     *)
(* closed as well.                                                         *)
Leave(w) ==
    /\ tasks = <<>>
    /\ pc[w] = "draining" \/ (pc[w] = "select" /\ shut)
    /\ pc' = [pc EXCEPT ![w] = "exited"]
    /\ UNCHANGED <<tasks, shut, closed, cancelled, call, running, done, stop>>
-----------------------------------------------------------------------------
(* Stop. *)

(* MUTANT: the flag is set without looking at its old value. *)
SetClosed(s) ==
    /\ stop[s] = "idle"
    /\ stop' = [stop EXCEPT ![s] = "closing"]
    /\ closed' = TRUE
    /\ UNCHANGED <<tasks, shut, cancelled, call, pc, running, done>>

(* CompareAndSwap: only the first caller goes on. *)
SwapClosed(s) ==
    /\ stop[s] = "idle"
    /\ stop' = [stop EXCEPT ![s] = IF closed THEN "already" ELSE "closing"]
    /\ closed' = TRUE
    /\ UNCHANGED <<tasks, shut, cancelled, call, pc, running, done>>

CloseTasks(s) ==
    /\ stop[s] = "closing"
    /\ stop' = [stop EXCEPT ![s] = IF shut THEN "panicked" ELSE "cancelling"]
    /\ shut' = TRUE
    /\ UNCHANGED <<tasks, closed, cancelled, call, pc, running, done>>

Cancel(s) ==
    /\ stop[s] = "cancelling"
    /\ stop' = [stop EXCEPT ![s] = "waiting"]
    /\ cancelled' = TRUE
    /\ UNCHANGED <<tasks, shut, closed, call, pc, running, done>>

StopReturns(s) ==
    /\ stop[s] = "waiting"
    /\ \/ (\A w \in Workers : pc[w] = "exited") /\ stop' = [stop EXCEPT ![s] = "stopped"]
       \/ stop' = [stop EXCEPT ![s] = "late"]
    /\ UNCHANGED <<tasks, shut, closed, cancelled, call, pc, running, done>>

(* Every call has returned and every worker is gone. *)
Terminated ==
    /\ \A w \in Workers : pc[w] = "exited"
    /\ \A t \in Tasks : call[t] \notin {"new", "sending", "waiting"}
    /\ \A s \in Stoppers : stop[s] \in {"stopped", "late", "already", "panicked"}
    /\ UNCHANGED vars
-----------------------------------------------------------------------------
Work(w) == Receive(w) \/ Return(w) \/ StartDraining(w) \/ Leave(w)

Stop(s) == SwapClosed(s) \/ CloseTasks(s) \/ Cancel(s) \/ StopReturns(s)

Next ==
    \/ \E t \in Tasks :
          Submit(t) \/ SubmitWithTimeout(t) \/ Send(t) \/ SendPanics(t) \/ GiveUp(t)
    \/ \E w \in Workers : Work(w)
    \/ \E s \in Stoppers : Stop(s)
    \/ Terminated

Spec == Init /\ [][Next]_vars

(* Goroutines are scheduled and tasks end: every request the gateway makes *)
(* in one is bounded by a timeout.                                         *)
FairSpec == Spec /\ \A w \in Workers : WF_vars(Work(w))
-----------------------------------------------------------------------------
(* PROPERTIES *)

InQueue(t) == \E i \in DOMAIN tasks : tasks[i] = t
InWorker(t) == \E w \in Workers : running[w] = t

(* A task whose submission returned nil is waiting, running or finished,   *)
(* and is so in one place only: none is dropped, none is run twice, none   *)
(* that was refused runs.                                                  *)
OnePlace(t) ==
    /\ call[t] = "accepted" <=> InQueue(t) \/ InWorker(t) \/ t \in done
    /\ ~(InQueue(t) /\ InWorker(t))
    /\ ~(InQueue(t) /\ t \in done)
    /\ ~(InWorker(t) /\ t \in done)
    /\ \A i, k \in DOMAIN tasks : tasks[i] = t /\ tasks[k] = t => i = k
    /\ \A v, w \in Workers : running[v] = t /\ running[w] = t => v = w

AcceptedOnce == \A t \in Tasks : OnePlace(t)

(* When Stop returns nil after waiting, every task that was ever accepted  *)
(* has been executed, whichever case each worker's select picked.          *)
StopDrains ==
    (\E s \in Stoppers : stop[s] = "stopped") =>
        \A t \in Tasks : call[t] = "accepted" => t \in done

(* No task, panicking or not, ends a worker before the pool is shut.       *)
WorkersStay == \A w \in Workers : pc[w] = "exited" => shut

(* However many goroutines call Stop, the channel is closed once.          *)
ClosedOnce == \A s \in Stoppers : stop[s] # "panicked"

(* Every accepted task is executed in the end, also one that was accepted  *)
(* just before the pool was shut.                                          *)
AcceptedRuns == \A t \in Tasks : call[t] = "accepted" ~> t \in done

(* pool.go:117 says Submit returns ErrPoolClosed if the pool is shutting   *)
(* down; the flag it loaded may be out of date when it sends.              *)
SubmitNeverPanics ==
    [][\A t \in Tasks : call[t] = "sending" => call'[t] # "panicked"]_call

=============================================================================
