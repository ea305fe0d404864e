-------------------------- MODULE WorkerPoolProofs --------------------------
(***************************************************************************)
(* Proofs about WorkerPool, for any number of tasks, workers and callers   *)
(* of Stop and any buffer: its type invariant and the safety properties of *)
(* its run.                                                                *)
(***************************************************************************)
EXTENDS WorkerPool, TLAPS

(* A worker holds a task exactly while it executes one, and is gone only   *)
(* once nothing can be sent any more and nothing is left.                  *)
WorkerOK(w) ==
    /\ pc[w] \in {"executing", "clearing"} <=> running[w] # NoTask
    /\ pc[w] \in {"draining", "clearing"} => cancelled
    /\ pc[w] = "exited" => shut /\ tasks = <<>>

(* A caller of Stop that got past the flag. *)
Stopping(s) == stop[s] \notin {"idle", "already"}

StopperOK(s) ==
    /\ Stopping(s) => closed
    /\ stop[s] = "closing" => ~shut
    /\ stop[s] \in {"cancelling", "waiting", "stopped", "late"} => shut
    /\ stop[s] # "panicked"
    /\ stop[s] = "stopped" => \A w \in Workers : pc[w] = "exited"

ShutdownOrder == (shut => closed) /\ (cancelled => shut)

OneStopper == \A s, u \in Stoppers : Stopping(s) /\ Stopping(u) => s = u

IInv ==
    /\ TypeOK
    /\ ShutdownOrder
    /\ OneStopper
    /\ \A s \in Stoppers : StopperOK(s)
    /\ \A w \in Workers : WorkerOK(w)
    /\ AcceptedOnce

USE PoolAssumption

(* The inductive invariant has the safety properties as consequences: a    *)
(* worker that is gone leaves an empty channel behind, and after a clean   *)
(* Stop all are gone.                                                      *)
LEMMA IInvImplies == IInv => AcceptedOnce /\ StopDrains /\ WorkersStay /\ ClosedOnce
<1> SUFFICES ASSUME IInv PROVE AcceptedOnce /\ StopDrains /\ WorkersStay /\ ClosedOnce
  OBVIOUS
<1>1. WorkersStay /\ ClosedOnce /\ AcceptedOnce
  BY DEF IInv, WorkerOK, StopperOK, WorkersStay, ClosedOnce
<1>2. ASSUME NEW s \in Stoppers, stop[s] = "stopped", NEW t \in Tasks, call[t] = "accepted"
      PROVE t \in done
  <2>1. \A w \in Workers : pc[w] = "exited"
    BY <1>2 DEF IInv, StopperOK
  <2>2. tasks = <<>> /\ \A w \in Workers : running[w] = NoTask
    BY <2>1 DEF IInv, WorkerOK
  <2>3. ~InQueue(t) /\ ~InWorker(t)
    BY <2>2 DEF InQueue, InWorker
  <2>4. QED
    BY <1>2, <2>3 DEF IInv, AcceptedOnce, OnePlace
<1>3. StopDrains
  BY <1>2 DEF StopDrains
<1>4. QED
  BY <1>1, <1>3

LEMMA IInvInit == Init => IInv
<1> SUFFICES ASSUME Init PROVE IInv
  OBVIOUS
<1>1. TypeOK
  <2>1. tasks \in Seq(Tasks) /\ Len(tasks) <= QueueCap
    BY DEF Init
  <2>2. QED
    BY <2>1 DEF Init, TypeOK
<1>2. ASSUME NEW t \in Tasks PROVE OnePlace(t)
  <2>1. ~InQueue(t) /\ ~InWorker(t) /\ t \notin done /\ call[t] # "accepted"
    BY DEF Init, InQueue, InWorker
  <2>2. QED
    BY <2>1 DEF OnePlace, Init
<1>3. QED
  BY <1>1, <1>2 DEF Init, IInv, ShutdownOrder, OneStopper, Stopping, StopperOK, WorkerOK,
                    AcceptedOnce
-----------------------------------------------------------------------------
(* Steps of a caller that do not reach the channel. *)
LEMMA CallStep ==
    ASSUME IInv, NEW t \in Tasks,
           Submit(t) \/ SubmitWithTimeout(t) \/ SendPanics(t) \/ GiveUp(t)
    PROVE IInv'
<1> USE DEF IInv, TypeOK
<1>1. /\ UNCHANGED <<tasks, shut, closed, cancelled, pc, running, done, stop>>
      /\ call[t] # "accepted"
      /\ \E c \in {"sending", "waiting", "full", "closed", "panicked"} :
            call' = [call EXCEPT ![t] = c]
  BY DEF Submit, SubmitWithTimeout, Load, SendPanics, GiveUp
<1>2. TypeOK'
  BY <1>1
<1>3. AcceptedOnce'
  BY <1>1 DEF AcceptedOnce, OnePlace, InQueue, InWorker
<1>4. QED
  BY <1>1, <1>2, <1>3 DEF ShutdownOrder, OneStopper, Stopping, StopperOK, WorkerOK

(* A task enters the channel. *)
LEMMA SendStep ==
    ASSUME IInv, NEW t \in Tasks, Send(t)
    PROVE IInv'
<1> USE DEF IInv, TypeOK
<1>1. /\ tasks \in Seq(Tasks) /\ Len(tasks) < QueueCap /\ tasks' = Append(tasks, t)
      /\ call[t] # "accepted" /\ call' = [call EXCEPT ![t] = "accepted"]
      /\ ~shut
      /\ UNCHANGED <<shut, closed, cancelled, pc, running, done, stop>>
  BY DEF Send
<1>2. /\ DOMAIN tasks' = DOMAIN tasks \union {Len(tasks) + 1}
      /\ Len(tasks) + 1 \notin DOMAIN tasks
      /\ tasks'[Len(tasks) + 1] = t
      /\ \A i \in DOMAIN tasks : tasks'[i] = tasks[i]
  BY <1>1
<1>3. TypeOK'
  BY <1>1
<1>4. ASSUME NEW u \in Tasks PROVE OnePlace(u)'
  <2>1. OnePlace(u)
    BY DEF AcceptedOnce
  <2>2. CASE u = t
    BY <1>1, <1>2, <2>1, <2>2 DEF OnePlace, InQueue, InWorker
  <2>3. CASE u # t
    BY <1>1, <1>2, <2>1, <2>3 DEF OnePlace, InQueue, InWorker
  <2>4. QED
    BY <2>2, <2>3
<1>5. QED
  BY <1>1, <1>3, <1>4 DEF ShutdownOrder, OneStopper, Stopping, StopperOK, WorkerOK, AcceptedOnce

(* A task moves from the channel to a worker. *)
LEMMA ReceiveStep ==
    ASSUME IInv, NEW w \in Workers, Receive(w)
    PROVE IInv'
<1> USE DEF IInv, TypeOK
<1>1. /\ tasks \in Seq(Tasks) /\ tasks # <<>> /\ tasks' = Tail(tasks)
      /\ UNCHANGED <<shut, closed, cancelled, call, done, stop>>
  BY DEF Receive
<1>2. /\ 1 \in DOMAIN tasks /\ Head(tasks) = tasks[1] /\ Head(tasks) \in Tasks
      /\ \A i \in DOMAIN tasks' :
            i + 1 \in DOMAIN tasks /\ i + 1 # 1 /\ tasks'[i] = tasks[i + 1]
      /\ \A i \in DOMAIN tasks : i # 1 => i - 1 \in DOMAIN tasks' /\ tasks'[i - 1] = tasks[i]
  BY <1>1
<1>3. /\ running[w] = NoTask /\ running' = [running EXCEPT ![w] = Head(tasks)]
      /\ pc[w] \in {"select", "draining"}
      /\ pc' = [pc EXCEPT ![w] = IF @ = "select" THEN "executing" ELSE "clearing"]
  BY DEF Receive, WorkerOK
<1>4. TypeOK'
  BY <1>1, <1>2, <1>3
<1>5. ASSUME NEW u \in Tasks PROVE OnePlace(u)'
  <2>1. OnePlace(u)
    BY DEF AcceptedOnce
  <2>2. CASE u = Head(tasks)
    <3>1. InWorker(u)' /\ InQueue(u)
      BY <1>2, <1>3, <2>2 DEF InWorker, InQueue
    <3>2. ~InQueue(u)'
      BY <1>2, <2>1, <2>2 DEF OnePlace, InQueue
    <3>3. QED
      BY <1>1, <1>2, <1>3, <2>1, <2>2, <3>1, <3>2 DEF OnePlace, InQueue, InWorker
  <2>3. CASE u # Head(tasks)
    <3>1. InQueue(u)' <=> InQueue(u)
      BY <1>2, <2>3 DEF InQueue
    <3>2. InWorker(u)' <=> InWorker(u)
      BY <1>3, <2>3 DEF InWorker
    <3>3. QED
      BY <1>1, <1>2, <1>3, <2>1, <2>3, <3>1, <3>2 DEF OnePlace
  <2>4. QED
    BY <2>2, <2>3
<1>6. \A v \in Workers : WorkerOK(v)'
  BY <1>1, <1>2, <1>3 DEF WorkerOK, ShutdownOrder
<1>7. \A s \in Stoppers : StopperOK(s)'
  BY <1>1, <1>3 DEF StopperOK, Stopping
<1>8. QED
  BY <1>1, <1>4, <1>5, <1>6, <1>7 DEF ShutdownOrder, OneStopper, Stopping, AcceptedOnce

(* A worker is done with its task. *)
LEMMA ReturnStep ==
    ASSUME IInv, NEW w \in Workers, Return(w)
    PROVE IInv'
<1> USE DEF IInv, TypeOK
<1>1. /\ running[w] \in Tasks /\ running' = [running EXCEPT ![w] = NoTask]
      /\ done' = done \union {running[w]}
      /\ pc[w] \in {"executing", "clearing"}
      /\ pc' = [pc EXCEPT ![w] = IF @ = "executing" THEN "select" ELSE "draining"]
      /\ UNCHANGED <<tasks, shut, closed, cancelled, call, stop>>
  BY DEF Return, WorkerOK
<1>2. TypeOK'
  BY <1>1
<1>3. ASSUME NEW u \in Tasks PROVE OnePlace(u)'
  BY <1>1 DEF AcceptedOnce, OnePlace, InQueue, InWorker
<1>4. \A v \in Workers : WorkerOK(v)'
  BY <1>1 DEF WorkerOK, ShutdownOrder
<1>5. \A s \in Stoppers : StopperOK(s)'
  BY <1>1 DEF StopperOK, Stopping
<1>6. QED
  BY <1>1, <1>2, <1>3, <1>4, <1>5 DEF ShutdownOrder, OneStopper, Stopping, AcceptedOnce

(* A worker that sees the context cancelled, or leaves. *)
LEMMA MoveStep ==
    ASSUME IInv, NEW w \in Workers, StartDraining(w) \/ Leave(w)
    PROVE IInv'
<1> USE DEF IInv, TypeOK
<1>1. /\ UNCHANGED <<tasks, shut, closed, cancelled, call, running, done, stop>>
      /\ pc[w] \in {"select", "draining"}
      /\ \/ cancelled /\ pc' = [pc EXCEPT ![w] = "draining"]
         \/ shut /\ tasks = <<>> /\ pc' = [pc EXCEPT ![w] = "exited"]
  BY DEF StartDraining, Leave, WorkerOK, ShutdownOrder
<1>2. TypeOK'
  BY <1>1
<1>3. AcceptedOnce'
  BY <1>1 DEF AcceptedOnce, OnePlace, InQueue, InWorker
<1>4. \A v \in Workers : WorkerOK(v)'
  BY <1>1 DEF WorkerOK
<1>5. \A s \in Stoppers : StopperOK(s)'
  BY <1>1 DEF StopperOK, Stopping
<1>6. QED
  BY <1>1, <1>2, <1>3, <1>4, <1>5 DEF ShutdownOrder, OneStopper, Stopping

LEMMA StopStep ==
    ASSUME IInv, NEW s \in Stoppers, Stop(s)
    PROVE IInv'
<1> USE DEF IInv, TypeOK
<1>1. UNCHANGED <<tasks, call, pc, running, done>>
  BY DEF Stop, SwapClosed, CloseTasks, Cancel, StopReturns
<1>2. AcceptedOnce'
  BY <1>1 DEF AcceptedOnce, OnePlace, InQueue, InWorker
<1>3. CASE SwapClosed(s)
  BY <1>1, <1>2, <1>3 DEF SwapClosed, ShutdownOrder, OneStopper, Stopping, StopperOK, WorkerOK
<1>4. CASE CloseTasks(s)
  BY <1>1, <1>2, <1>4 DEF CloseTasks, ShutdownOrder, OneStopper, Stopping, StopperOK, WorkerOK
<1>5. CASE Cancel(s)
  BY <1>1, <1>2, <1>5 DEF Cancel, ShutdownOrder, OneStopper, Stopping, StopperOK, WorkerOK
<1>6. CASE StopReturns(s)
  BY <1>1, <1>2, <1>6 DEF StopReturns, ShutdownOrder, OneStopper, Stopping, StopperOK, WorkerOK
<1>7. QED
  BY <1>3, <1>4, <1>5, <1>6 DEF Stop

LEMMA IInvStep == IInv /\ [Next]_vars => IInv'
<1> SUFFICES ASSUME IInv, [Next]_vars PROVE IInv'
  OBVIOUS
<1>1. ASSUME NEW w \in Workers, Work(w) PROVE IInv'
  BY <1>1, ReceiveStep, ReturnStep, MoveStep DEF Work
<1>2. CASE UNCHANGED vars
  BY <1>2 DEF vars, IInv, TypeOK, ShutdownOrder, OneStopper, Stopping, StopperOK, WorkerOK,
              AcceptedOnce, OnePlace, InQueue, InWorker
<1>3. QED
  BY <1>1, <1>2, CallStep, SendStep, StopStep DEF Next, Terminated

LEMMA IInvAlways == Spec => []IInv
  BY IInvInit, IInvStep, PTL DEF Spec

(* The types of all variables. *)
THEOREM TypeCorrect == Spec => []TypeOK
<1>1. IInv => TypeOK
  BY DEF IInv
<1>2. QED
  BY <1>1, IInvAlways, PTL

(* No accepted task is dropped or run twice. *)
THEOREM NoTaskLost == Spec => []AcceptedOnce
  BY IInvAlways, IInvImplies, PTL

(* A clean Stop has drained the pool. *)
THEOREM Drained == Spec => []StopDrains
  BY IInvAlways, IInvImplies, PTL

(* No worker is lost before the pool is shut. *)
THEOREM Staffed == Spec => []WorkersStay
  BY IInvAlways, IInvImplies, PTL

(* The channel is closed once. *)
THEOREM CloseOnce == Spec => []ClosedOnce
  BY IInvAlways, IInvImplies, PTL
=============================================================================
