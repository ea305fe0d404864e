------------------------------ MODULE Ingestion ------------------------------
(***************************************************************************)
(* One endpoint's ingestion pipeline: what a request handler does from the *)
(* arrival of a webhook to its answer (ProcessWebhook in                   *)
(* internal/service/ingestion_service.go).  Handlers run concurrently and  *)
(* share the endpoint's settings, the idempotency keys in Valkey and the   *)
(* database; the process may crash under them, and Valkey and the database *)
(* may fail or lose an answer.  The provider may send one body many times. *)
(***************************************************************************)
EXTENDS Naturals, FiniteSets

CONSTANTS
    Requests,  \* deliveries of webhooks by the provider
    Bodies,    \* payloads
    Body,      \* the payload of each request
    Empty,     \* payloads of no bytes: they have no idempotency key
    Hostile,   \* payloads with a finding the policy blocks
    Forged,    \* requests whose signature does not verify
    Modes,     \* the modes the endpoint may be put in
    Targets,   \* upstream URLs
    NoTarget,  \* no upstream is configured
    Limit,     \* how often each kind of event below may happen
    Budget     \* how many of these events may happen in all

(* The events whose number a run bounds: the process crashing, a call of   *)
(* Valkey or the database failing, the operator changing a setting.        *)
Kinds == {"crash", "fault", "change"}

ASSUME IngestionAssumption ==
    /\ Body \in [Requests -> Bodies]
    /\ Modes \subseteq {"PASS", "BLOCK", "MOCK", "CAPTURE_ONLY"}
    /\ NoTarget \notin Targets
    /\ Limit \in [Kinds -> Nat]
    /\ Budget \in Nat

VARIABLES
    endpoint,  \* the endpoint's row: active, mode, upstream
    forward,   \* its forwarding target, when that is enabled
    keys,      \* payloads whose idempotency key is alive in Valkey
    captured,  \* captured_requests: what was stored for each request
    jobs,      \* delivery_jobs: the target of each request's job
    pc,        \* where each handler is
    seen,      \* the endpoint row it read
    dup,       \* whether it found the key taken
    target,    \* the target it resolved
    reply,     \* its answer
    spent      \* how often each kind of bounded event happened

settings == <<endpoint, forward>>
stored == <<captured, jobs>>
handler == <<seen, dup, target>>
vars == <<settings, keys, stored, pc, handler, reply, spent>>

MaybeTarget == Targets \union {NoTarget}

EndpointRow == [active : BOOLEAN, mode : Modes, upstream : MaybeTarget]

Replies == {"none", "NOT_FOUND", "REFUSED", "UNSIGNED", "MOCK", "ERROR",
            "BLOCK", "DUPLICATE", "FORWARD"}

TypeOK ==
    /\ endpoint \in EndpointRow
    /\ forward \in MaybeTarget
    /\ keys \in SUBSET Bodies
    /\ captured \in [Requests -> {"none", "rejected", "mocked", "blocked", "received"}]
    /\ jobs \in [Requests -> MaybeTarget]
    /\ pc \in [Requests -> {"unsent", "arrived", "checked", "resolved", "stored",
                            "answered", "lost"}]
    /\ seen \in [Requests -> EndpointRow]
    /\ dup \in [Requests -> BOOLEAN]
    /\ target \in [Requests -> MaybeTarget]
    /\ reply \in [Requests -> Replies]
    /\ spent \in [Kinds -> Nat]

Init ==
    /\ endpoint \in {e \in EndpointRow : e.active}
    /\ forward \in MaybeTarget
    /\ keys = {}
    /\ captured = [r \in Requests |-> "none"]
    /\ jobs = [r \in Requests |-> NoTarget]
    /\ pc = [r \in Requests |-> "unsent"]
    /\ seen = [r \in Requests |-> endpoint]
    /\ dup = [r \in Requests |-> FALSE]
    /\ target = [r \in Requests |-> NoTarget]
    /\ reply = [r \in Requests |-> "none"]
    /\ spent = [k \in Kinds |-> 0]

Spend(k) ==
    /\ spent[k] < Limit[k]
    /\ spent["crash"] + spent["fault"] + spent["change"] < Budget
    /\ spent' = [spent EXCEPT ![k] = @ + 1]

HasJob(r) == jobs[r] # NoTarget
SameBody(q, r) == Body[q] = Body[r] /\ Body[r] \notin Empty

(* Decided from the findings and from the mode the handler read. *)
Blocks(r) == seen[r].mode = "BLOCK" \/ Body[r] \in Hostile

(* shouldCreateDeliveryJob: MOCK never gets that far. *)
WantsJob(r) == ~Blocks(r) /\ ~dup[r] /\ target[r] # NoTarget
-----------------------------------------------------------------------------
(* The operator's side, and the time to live of the keys. *)

Configure ==
    /\ Spend("change")
    /\ \/ endpoint' \in EndpointRow \ {endpoint} /\ UNCHANGED forward
       \/ forward' \in MaybeTarget \ {forward} /\ UNCHANGED endpoint
    /\ UNCHANGED <<keys, stored, pc, handler, reply>>

ExpireKey(b) ==
    /\ b \in keys
    /\ keys' = keys \ {b}
    /\ UNCHANGED <<settings, stored, pc, handler, reply, spent>>
-----------------------------------------------------------------------------
Answer(r, a) ==
    /\ pc' = [pc EXCEPT ![r] = "answered"]
    /\ reply' = [reply EXCEPT ![r] = a]

(* The handler reads the endpoint's row; an unknown or passive endpoint,   *)
(* or any error of the query, is answered with 404.                        *)
Arrive(r) ==
    /\ pc[r] = "unsent"
    /\ \/ /\ endpoint.active
          /\ pc' = [pc EXCEPT ![r] = "arrived"]
          /\ seen' = [seen EXCEPT ![r] = endpoint]
          /\ UNCHANGED <<reply, spent>>
       \/ /\ IF endpoint.active THEN Spend("fault") ELSE UNCHANGED spent
          /\ Answer(r, "NOT_FOUND")
          /\ UNCHANGED seen
    /\ UNCHANGED <<settings, keys, stored, dup, target>>

(* The payload is too large, or the client exceeded its rate. *)
Refuse(r) ==
    /\ pc[r] = "arrived"
    /\ Answer(r, "REFUSED")
    /\ UNCHANGED <<settings, keys, stored, handler, spent>>

(* The signature is missing or wrong, or the endpoint's signature settings *)
(* cannot be loaded; the attempt is stored unless that fails too.          *)
RejectSignature(r) ==
    /\ pc[r] = "arrived"
    /\ IF r \in Forged THEN UNCHANGED spent ELSE Spend("fault")
    /\ captured' \in {captured, [captured EXCEPT ![r] = "rejected"]}
    /\ Answer(r, "UNSIGNED")
    /\ UNCHANGED <<settings, keys, jobs, handler>>

(* An endpoint in mock mode answers from its rules. *)
Mock(r) ==
    /\ pc[r] = "arrived"
    /\ r \notin Forged
    /\ seen[r].mode = "MOCK"
    /\ \/ captured' = [captured EXCEPT ![r] = "mocked"] /\ UNCHANGED spent
       \/ UNCHANGED captured /\ Spend("fault")
    /\ Answer(r, "MOCK")
    /\ UNCHANGED <<settings, keys, jobs, handler>>

(* MUTANT: the key is made of the request's id instead of its payload. *)
KeyPerRequest(r) ==
    /\ pc[r] = "arrived"
    /\ r \notin Forged
    /\ seen[r].mode # "MOCK"
    /\ pc' = [pc EXCEPT ![r] = "checked"]
    /\ keys' = keys \union {r}
    /\ dup' = [dup EXCEPT ![r] = r \in keys]
    /\ UNCHANGED <<settings, stored, seen, target, reply, spent>>

(* SETNX: the first request of a payload takes the key, the others are     *)
(* duplicates.  With an error nothing is a duplicate, though the key may   *)
(* have been taken.                                                        *)
CheckAndSetIdempotency(r) ==
    /\ pc[r] = "arrived"
    /\ r \notin Forged
    /\ seen[r].mode # "MOCK"
    /\ pc' = [pc EXCEPT ![r] = "checked"]
    /\ \/ Body[r] \in Empty /\ UNCHANGED <<keys, dup, spent>>
       \/ /\ Body[r] \notin Empty
          /\ keys' = keys \union {Body[r]}
          /\ dup' = [dup EXCEPT ![r] = Body[r] \in keys]
          /\ UNCHANGED spent
       \/ /\ Body[r] \notin Empty
          /\ keys' \in {keys, keys \union {Body[r]}}
          /\ UNCHANGED dup
          /\ Spend("fault")
    /\ UNCHANGED <<settings, stored, seen, target, reply>>

(* The forwarding configuration wins over the endpoint's own upstream, and *)
(* is passed over when it cannot be loaded.                                *)
ResolveTarget(r) ==
    /\ pc[r] = "checked"
    /\ pc' = [pc EXCEPT ![r] = "resolved"]
    /\ \/ /\ target' = [target EXCEPT ![r] = IF forward # NoTarget THEN forward
                                            ELSE seen[r].upstream]
          /\ UNCHANGED spent
       \/ target' = [target EXCEPT ![r] = seen[r].upstream] /\ Spend("fault")
    /\ UNCHANGED <<settings, keys, stored, seen, dup, reply>>

(* The unique index on (endpoint, idempotency key) turns the insert of a   *)
(* second job into no row at all, which is not an error.                   *)
KeyRegistered(r) == \E q \in Requests : HasJob(q) /\ SameBody(q, r)

(* MUTANT: the job is inserted whatever the index holds. *)
InsertAlways(r) ==
    /\ captured' = [captured EXCEPT ![r] = IF Blocks(r) THEN "blocked" ELSE "received"]
    /\ jobs' = IF WantsJob(r) THEN [jobs EXCEPT ![r] = target[r]] ELSE jobs

(* MUTANT: a failing insert of the job does not roll the request back. *)
InsertSeparately(r) ==
    /\ captured' = [captured EXCEPT ![r] = IF Blocks(r) THEN "blocked" ELSE "received"]
    /\ jobs' \in {jobs, IF WantsJob(r) /\ ~KeyRegistered(r)
                        THEN [jobs EXCEPT ![r] = target[r]] ELSE jobs}

(* MUTANT: the policy's decision is not asked when the job is created. *)
InsertUnblocked(r) ==
    /\ captured' = [captured EXCEPT ![r] = IF Blocks(r) THEN "blocked" ELSE "received"]
    /\ jobs' = IF ~dup[r] /\ target[r] # NoTarget /\ ~KeyRegistered(r)
               THEN [jobs EXCEPT ![r] = target[r]] ELSE jobs

(* The transaction: the captured request, and its job if there is to be one. *)
Insert(r) ==
    /\ captured' = [captured EXCEPT ![r] = IF Blocks(r) THEN "blocked" ELSE "received"]
    /\ jobs' = IF WantsJob(r) /\ ~KeyRegistered(r)
               THEN [jobs EXCEPT ![r] = target[r]] ELSE jobs

Persist(r) ==
    /\ pc[r] = "resolved"
    /\ Insert(r)
    /\ pc' = [pc EXCEPT ![r] = "stored"]
    /\ UNCHANGED <<settings, keys, handler, reply, spent>>

(* MUTANT: a failed transaction is not reported to the caller. *)
PersistFailsSilently(r) ==
    /\ pc[r] = "resolved"
    /\ Spend("fault")
    /\ Insert(r) \/ UNCHANGED stored
    /\ pc' = [pc EXCEPT ![r] = "stored"]
    /\ UNCHANGED <<settings, keys, handler, reply>>

(* The transaction is rolled back, or it commits and the answer is lost:   *)
(* both are answered with 500.                                             *)
PersistFails(r) ==
    /\ pc[r] = "resolved"
    /\ Spend("fault")
    /\ Insert(r) \/ UNCHANGED stored
    /\ Answer(r, "ERROR")
    /\ UNCHANGED <<settings, keys, handler>>

(* A blocked duplicate is answered as blocked. *)
Respond(r) ==
    /\ pc[r] = "stored"
    /\ Answer(r, IF Blocks(r) THEN "BLOCK" ELSE IF dup[r] THEN "DUPLICATE" ELSE "FORWARD")
    /\ UNCHANGED <<settings, keys, stored, handler, spent>>

InFlight(r) == pc[r] \in {"arrived", "checked", "resolved", "stored"}

(* The process dies and restarts: its handlers never answer. *)
Crash ==
    /\ Spend("crash")
    /\ pc' = [r \in Requests |-> IF InFlight(r) THEN "lost" ELSE pc[r]]
    /\ UNCHANGED <<settings, keys, stored, handler, reply>>

(* Every webhook has been dealt with. *)
Quiet ==
    /\ \A r \in Requests : pc[r] \in {"answered", "lost"}
    /\ UNCHANGED vars
-----------------------------------------------------------------------------
Handle(r) ==
    \/ Arrive(r)
    \/ Refuse(r)
    \/ RejectSignature(r)
    \/ Mock(r)
    \/ CheckAndSetIdempotency(r)
    \/ ResolveTarget(r)
    \/ Persist(r)
    \/ PersistFails(r)
    \/ Respond(r)

Next ==
    \/ \E r \in Requests : Handle(r)
    \/ \E b \in Bodies : ExpireKey(b)
    \/ Configure
    \/ Crash
    \/ Quiet

Spec == Init /\ [][Next]_vars
-----------------------------------------------------------------------------
(* PROPERTIES *)

(* However often a payload is sent, and whatever Valkey forgets or fails   *)
(* to answer, the database holds one delivery job for it.                  *)
OneJobPerBody ==
    \A q, r \in Requests : HasJob(q) /\ HasJob(r) /\ SameBody(q, r) => q = r

(* The outbox is transactional: a stored request that is to be forwarded   *)
(* has its job, or an earlier request of the same payload has one, also    *)
(* when the process crashed before the answer.                             *)
OutboxComplete ==
    \A r \in Requests :
        captured[r] = "received" /\ WantsJob(r) => HasJob(r) \/ KeyRegistered(r)

(* What was stored survives the answer: no webhook is answered as accepted,*)
(* as a duplicate or as blocked unless its request is in the database.     *)
AnsweredIsStored ==
    \A r \in Requests :
        /\ reply[r] \in {"FORWARD", "DUPLICATE"} => captured[r] = "received"
        /\ reply[r] = "BLOCK" => captured[r] = "blocked"

(* A request the pipeline turned away is never delivered upstream, whatever*)
(* the operator changes meanwhile and however often it is sent again.      *)
TurnedAwayNeverQueued ==
    \A r \in Requests :
        HasJob(r) =>
            /\ captured[r] = "received"
            /\ Body[r] \notin Hostile
            /\ r \notin Forged
            /\ reply[r] \in {"none", "ERROR", "FORWARD"}

(* Claims of the source that the code does not keep; see README.md.        *)

(* The answer to a duplicate says "this webhook was processed before"      *)
(* (ingestion_service.go:597): once no other handler has the payload in    *)
(* hand, an earlier request of it has been stored for processing.          *)
DuplicateWasProcessed ==
    \A r \in Requests :
        /\ reply[r] = "DUPLICATE"
        /\ \A q \in Requests : Body[q] = Body[r] => ~InFlight(q)
        => \E q \in Requests \ {r} : SameBody(q, r) /\ ~dup[q] /\ captured[q] = "received"

=============================================================================
