--------------------------- MODULE IngestionProofs ---------------------------
(***************************************************************************)
(* Proofs about Ingestion, for any number of requests, payloads, targets   *)
(* and crashes: its type invariant and the four safety properties of its   *)
(* run, from one inductive invariant.                                      *)
(***************************************************************************)
EXTENDS Ingestion, TLAPS

(* How far a request has got bounds what can be stored of it. *)
Underway(r) ==
    pc[r] \in {"unsent", "arrived", "checked", "resolved"} =>
        captured[r] = "none" /\ jobs[r] = NoTarget /\ reply[r] = "none"

Genuine(r) == pc[r] \in {"checked", "resolved", "stored"} => r \notin Forged

Stored(r) ==
    /\ pc[r] = "stored" =>
          reply[r] = "none" /\ captured[r] = IF Blocks(r) THEN "blocked" ELSE "received"
    /\ pc[r] = "lost" => reply[r] = "none"

(* What a job says of its request. *)
Queued(r) ==
    HasJob(r) =>
        /\ captured[r] = "received"
        /\ ~Blocks(r)
        /\ ~dup[r]
        /\ r \notin Forged
        /\ reply[r] \in {"none", "ERROR", "FORWARD"}

Answered(r) ==
    /\ reply[r] \in {"FORWARD", "DUPLICATE"} => captured[r] = "received"
    /\ reply[r] = "BLOCK" => captured[r] = "blocked"

Outboxed(r) ==
    captured[r] = "received" /\ WantsJob(r) => HasJob(r) \/ KeyRegistered(r)

RequestOK(r) == Underway(r) /\ Genuine(r) /\ Stored(r) /\ Queued(r) /\ Answered(r)

IInv ==
    /\ TypeOK
    /\ \A r \in Requests : RequestOK(r)
    /\ \A r \in Requests : Outboxed(r)
    /\ OneJobPerBody

USE IngestionAssumption

(* The inductive invariant has the four properties as consequences. *)
LEMMA IInvImplies ==
    IInv => OneJobPerBody /\ OutboxComplete /\ AnsweredIsStored /\ TurnedAwayNeverQueued
BY DEF IInv, RequestOK, Outboxed, OutboxComplete, Answered, AnsweredIsStored,
       Queued, Blocks, TurnedAwayNeverQueued

LEMMA IInvInit == Init => IInv
<1> SUFFICES ASSUME Init PROVE IInv
  OBVIOUS
<1>1. TypeOK
  BY DEF Init, TypeOK, MaybeTarget, EndpointRow, Replies
<1>2. \A r \in Requests : RequestOK(r) /\ Outboxed(r)
  BY DEF Init, RequestOK, Underway, Genuine, Stored, Queued, Answered, Outboxed, HasJob
<1>3. OneJobPerBody
  BY DEF Init, OneJobPerBody, HasJob
<1>4. QED
  BY <1>1, <1>2, <1>3 DEF IInv

(* A counted event leaves the counters natural numbers. *)
LEMMA SpendType ==
    ASSUME NEW k \in Kinds, spent \in [Kinds -> Nat], Spend(k)
    PROVE spent' \in [Kinds -> Nat]
BY DEF Spend, Kinds

LEMMA TypeStep == TypeOK /\ [Next]_vars => TypeOK'
<1> SUFFICES ASSUME TypeOK, [Next]_vars PROVE TypeOK'
  OBVIOUS
<1> USE DEF TypeOK, settings, stored, handler
<1>0. \A k \in Kinds : Spend(k) => spent' \in [Kinds -> Nat]
  BY SpendType
<1>1. ASSUME NEW r \in Requests, Arrive(r) PROVE TypeOK'
  BY <1>0, <1>1 DEF Arrive, Answer, Kinds, Replies
<1>2. ASSUME NEW r \in Requests, Refuse(r) PROVE TypeOK'
  BY <1>2 DEF Refuse, Answer, Replies
<1>3. ASSUME NEW r \in Requests, RejectSignature(r) PROVE TypeOK'
  <2>1. captured' \in [Requests -> {"none", "rejected", "mocked", "blocked", "received"}]
    BY <1>3 DEF RejectSignature
  <2>2. QED
    BY <1>0, <1>3, <2>1 DEF RejectSignature, Answer, Kinds, Replies
<1>4. ASSUME NEW r \in Requests, Mock(r) PROVE TypeOK'
  BY <1>0, <1>4 DEF Mock, Answer, Kinds, Replies
<1>5. ASSUME NEW r \in Requests, CheckAndSetIdempotency(r) PROVE TypeOK'
  <2>1. keys' \in SUBSET Bodies
    BY <1>5 DEF CheckAndSetIdempotency
  <2>2. dup' \in [Requests -> BOOLEAN]
    <3>1. CASE dup' = [dup EXCEPT ![r] = Body[r] \in keys]
      <4>1. (Body[r] \in keys) \in BOOLEAN
        OBVIOUS
      <4>2. QED
        BY <3>1, <4>1, Zenon
    <3>2. CASE UNCHANGED dup
      BY <3>2
    <3>3. QED
      BY <1>5, <3>1, <3>2 DEF CheckAndSetIdempotency
  <2>3. QED
    BY <1>0, <1>5, <2>1, <2>2 DEF CheckAndSetIdempotency, Kinds
<1>6. ASSUME NEW r \in Requests, ResolveTarget(r) PROVE TypeOK'
  BY <1>0, <1>6 DEF ResolveTarget, Kinds, EndpointRow, MaybeTarget
<1>7. ASSUME NEW r \in Requests, Insert(r)
      PROVE /\ captured' \in [Requests -> {"none", "rejected", "mocked", "blocked", "received"}]
            /\ jobs' \in [Requests -> MaybeTarget]
  BY <1>7 DEF Insert
<1>8. ASSUME NEW r \in Requests, Persist(r) PROVE TypeOK'
  BY <1>7, <1>8 DEF Persist
<1>9. ASSUME NEW r \in Requests, PersistFails(r) PROVE TypeOK'
  BY <1>0, <1>7, <1>9 DEF PersistFails, Answer, Kinds, Replies
<1>10. ASSUME NEW r \in Requests, Respond(r) PROVE TypeOK'
  BY <1>10 DEF Respond, Answer, Replies
<1>11. ASSUME NEW b \in Bodies, ExpireKey(b) PROVE TypeOK'
  BY <1>11 DEF ExpireKey
<1>12. CASE Configure
  BY <1>0, <1>12 DEF Configure, Kinds
<1>13. CASE Crash
  BY <1>0, <1>13 DEF Crash, Kinds
<1>14. CASE Quiet \/ UNCHANGED vars
  BY <1>14 DEF Quiet, vars
<1>15. QED
  BY <1>1, <1>2, <1>3, <1>4, <1>5, <1>6, <1>8, <1>9, <1>10, <1>11, <1>12, <1>13, <1>14
     DEF Next, Handle

THEOREM TypeCorrect == Spec => []TypeOK
<1>1. Init => TypeOK
  BY IInvInit DEF IInv
<1>2. QED
  BY <1>1, TypeStep, PTL DEF Spec
-----------------------------------------------------------------------------
(* A step that leaves the table of jobs alone keeps what is said of other  *)
(* requests, when their own state stays the same.                          *)
Same(q) ==
    /\ pc'[q] = pc[q] /\ seen'[q] = seen[q] /\ dup'[q] = dup[q] /\ target'[q] = target[q]
    /\ captured'[q] = captured[q] /\ jobs'[q] = jobs[q] /\ reply'[q] = reply[q]

LEMMA SameOK ==
    ASSUME NEW q \in Requests, RequestOK(q), Same(q)
    PROVE RequestOK(q)'
BY DEF RequestOK, Underway, Genuine, Stored, Queued, Answered, Same, HasJob, Blocks

(* No job disappears. *)
LEMMA OutboxedStays ==
    ASSUME NEW q \in Requests, Outboxed(q), Same(q),
           \A p \in Requests : HasJob(p) => HasJob(p)'
    PROVE Outboxed(q)'
BY DEF Outboxed, Same, HasJob, WantsJob, Blocks, KeyRegistered, SameBody

(* Steps of a handler that has not stored anything yet, or has no more to. *)
LEMMA QuietStep ==
    ASSUME IInv, NEW r \in Requests,
           \/ Arrive(r) \/ Refuse(r) \/ RejectSignature(r) \/ Mock(r)
           \/ CheckAndSetIdempotency(r) \/ ResolveTarget(r) \/ Respond(r)
    PROVE /\ \A q \in Requests : RequestOK(q)' /\ Outboxed(q)'
          /\ OneJobPerBody'
<1> USE DEF IInv, TypeOK, settings, stored, handler
<1>1. jobs' = jobs
  BY DEF Arrive, Refuse, RejectSignature, Mock, CheckAndSetIdempotency, ResolveTarget, Respond
<1>2. OneJobPerBody'
  BY <1>1 DEF OneJobPerBody, HasJob, SameBody
<1>3. \A q \in Requests \ {r} : Same(q)
  BY DEF Same, Arrive, Refuse, RejectSignature, Mock, CheckAndSetIdempotency, ResolveTarget,
         Respond, Answer
<1>4. \A q \in Requests \ {r} : RequestOK(q)' /\ Outboxed(q)'
  <2> TAKE q \in Requests \ {r}
  <2>1. RequestOK(q)'
    BY <1>3, SameOK
  <2>2. Outboxed(q)'
    BY <1>1, <1>3, OutboxedStays DEF HasJob
  <2>3. QED
    BY <2>1, <2>2
<1>5. RequestOK(r)'
  <2> USE DEF RequestOK, Underway, Genuine, Stored, Queued, Answered, HasJob, Blocks
  <2>1. CASE Arrive(r)
    BY <2>1 DEF Arrive, Answer
  <2>2. CASE Refuse(r)
    BY <2>2 DEF Refuse, Answer
  <2>3. CASE RejectSignature(r)
    BY <2>3 DEF RejectSignature, Answer
  <2>4. CASE Mock(r)
    BY <2>4 DEF Mock, Answer
  <2>5. CASE CheckAndSetIdempotency(r)
    BY <2>5 DEF CheckAndSetIdempotency
  <2>6. CASE ResolveTarget(r)
    BY <2>6 DEF ResolveTarget
  <2>7. CASE Respond(r)
    BY <2>7 DEF Respond, Answer
  <2>8. QED
    BY <2>1, <2>2, <2>3, <2>4, <2>5, <2>6, <2>7
<1>6. Outboxed(r)'
  <2>1. CASE Respond(r)
    BY <2>1 DEF Respond, Answer, Outboxed, WantsJob, Blocks, HasJob, KeyRegistered, SameBody
  <2>2. CASE ~Respond(r)
    <3>1. captured'[r] # "received"
      BY <2>2 DEF RequestOK, Underway, Arrive, Refuse, RejectSignature, Mock,
                  CheckAndSetIdempotency, ResolveTarget
    <3>2. QED
      BY <3>1 DEF Outboxed
  <2>3. QED
    BY <2>1, <2>2
<1>7. QED
  BY <1>2, <1>4, <1>5, <1>6

(* The transaction, whether or not its commit is confirmed. *)
LEMMA InsertStep ==
    ASSUME IInv, TypeOK', NEW r \in Requests, pc[r] = "resolved", Insert(r),
           UNCHANGED handler,
           \/ pc' = [pc EXCEPT ![r] = "stored"] /\ UNCHANGED reply
           \/ Answer(r, "ERROR")
    PROVE /\ \A q \in Requests : RequestOK(q)' /\ Outboxed(q)'
          /\ OneJobPerBody'
<1> USE DEF IInv, TypeOK, handler
<1>1. captured[r] = "none" /\ jobs[r] = NoTarget /\ reply[r] = "none" /\ r \notin Forged
  BY DEF RequestOK, Underway, Genuine
<1>2. \A q \in Requests \ {r} : Same(q)
  BY DEF Same, Insert, Answer
<1>3. \A p \in Requests : HasJob(p) => HasJob(p)'
  BY <1>1, <1>2 DEF HasJob, Same
<1>4. HasJob(r)' <=> WantsJob(r) /\ ~KeyRegistered(r)
  BY <1>1 DEF HasJob, Insert, WantsJob
<1>5. \A q \in Requests \ {r} : RequestOK(q)' /\ Outboxed(q)'
  BY <1>2, <1>3, SameOK, OutboxedStays
<1>6. RequestOK(r)'
  BY <1>1, <1>4 DEF RequestOK, Underway, Genuine, Stored, Queued, Answered, Blocks, WantsJob,
                    Insert, Answer, HasJob
<1>7. Outboxed(r)'
  BY <1>3, <1>4 DEF Outboxed, WantsJob, Blocks, KeyRegistered, SameBody
<1>8. OneJobPerBody'
  BY <1>2, <1>4 DEF OneJobPerBody, KeyRegistered, SameBody, HasJob, Same
<1>9. QED
  BY <1>5, <1>6, <1>7, <1>8

(* A transaction that is rolled back. *)
LEMMA RollbackStep ==
    ASSUME IInv, NEW r \in Requests, pc[r] = "resolved", UNCHANGED stored,
           UNCHANGED handler, Answer(r, "ERROR")
    PROVE /\ \A q \in Requests : RequestOK(q)' /\ Outboxed(q)'
          /\ OneJobPerBody'
<1> USE DEF IInv, TypeOK, stored, handler, Answer
<1>1. \A q \in Requests \ {r} : RequestOK(q)' /\ Outboxed(q)'
  BY SameOK, OutboxedStays DEF Same, HasJob
<1>2. RequestOK(r)' /\ Outboxed(r)'
  BY DEF RequestOK, Underway, Genuine, Stored, Queued, Answered, Outboxed, HasJob, Blocks
<1>3. OneJobPerBody'
  BY DEF OneJobPerBody, HasJob, SameBody
<1>4. QED
  BY <1>1, <1>2, <1>3

LEMMA IInvStep == IInv /\ [Next]_vars => IInv'
<1> SUFFICES ASSUME IInv, [Next]_vars PROVE IInv'
  OBVIOUS
<1>0. TypeOK'
  BY TypeStep DEF IInv
<1> DEFINE Goal == (\A q \in Requests : RequestOK(q)' /\ Outboxed(q)') /\ OneJobPerBody'
<1>1. ASSUME NEW r \in Requests, Handle(r) PROVE Goal
  <2>1. CASE Persist(r)
    BY <1>0, <2>1, InsertStep DEF Persist
  <2>2. CASE PersistFails(r)
    <3>1. CASE Insert(r)
      BY <1>0, <2>2, <3>1, InsertStep DEF PersistFails
    <3>2. CASE UNCHANGED stored
      BY <2>2, <3>2, RollbackStep DEF PersistFails
    <3>3. QED
      BY <2>2, <3>1, <3>2 DEF PersistFails
  <2>3. CASE ~Persist(r) /\ ~PersistFails(r)
    BY <1>1, <2>3, QuietStep DEF Handle
  <2>4. QED
    BY <2>1, <2>2, <2>3
<1>2. ASSUME \A q \in Requests : Same(q) PROVE Goal
  <2>1. \A q \in Requests : RequestOK(q)' /\ Outboxed(q)'
    BY <1>2, SameOK, OutboxedStays DEF IInv, Same, HasJob
  <2>2. OneJobPerBody'
    BY <1>2 DEF IInv, OneJobPerBody, HasJob, SameBody, Same
  <2>3. QED
    BY <2>1, <2>2
<1>3. ASSUME (\E b \in Bodies : ExpireKey(b)) \/ Configure \/ Quiet \/ UNCHANGED vars
      PROVE Goal
  <2>1. UNCHANGED <<stored, pc, handler, reply>>
    BY <1>3 DEF ExpireKey, Configure, Quiet, vars
  <2>2. QED
    BY <1>2, <2>1 DEF stored, handler, Same
<1>4. ASSUME Crash PROVE Goal
  <2> USE <1>4 DEF Crash, settings, stored, handler
  <2>1. \A q \in Requests : RequestOK(q)'
    BY DEF IInv, TypeOK, RequestOK, Underway, Genuine, Stored, Queued, Answered, InFlight,
           HasJob, Blocks
  <2>2. \A q \in Requests : Outboxed(q)'
    BY DEF IInv, Outboxed, WantsJob, Blocks, HasJob, KeyRegistered, SameBody
  <2>3. OneJobPerBody'
    BY DEF IInv, OneJobPerBody, HasJob, SameBody
  <2>4. QED
    BY <2>1, <2>2, <2>3
<1>5. Goal
  BY <1>1, <1>3, <1>4 DEF Next
<1>6. QED
  BY <1>0, <1>5 DEF IInv

LEMMA IInvAlways == Spec => []IInv
  BY IInvInit, IInvStep, PTL DEF Spec

(* One delivery job per payload, whatever Valkey forgets. *)
THEOREM OneJob == Spec => []OneJobPerBody
  BY IInvAlways, IInvImplies, PTL

(* The outbox is transactional through every crash and failed commit. *)
THEOREM Outbox == Spec => []OutboxComplete
  BY IInvAlways, IInvImplies, PTL

(* What was answered as accepted, duplicate or blocked is in the database. *)
THEOREM AnswersStored == Spec => []AnsweredIsStored
  BY IInvAlways, IInvImplies, PTL

(* A request that was turned away has no delivery job. *)
THEOREM TurnedAway == Spec => []TurnedAwayNeverQueued
  BY IInvAlways, IInvImplies, PTL
=============================================================================
