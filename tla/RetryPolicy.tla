---------------------------- MODULE RetryPolicy ----------------------------
(***************************************************************************)
(* What the gateway concludes from one answer of the upstream              *)
(* (internal/delivery/retry.go).  An answer is an HTTP status code, or     *)
(* NetworkError when the request produced no response at all.              *)
(***************************************************************************)
EXTENDS Integers, DeliveryState

(* client.Do returned an error: no status code was read. *)
NetworkError == 0

(* The answers that only mean "not now": another attempt may succeed. *)
Retryable(code) == code = NetworkError \/ code \in {408, 425, 429} \/ code >= 500

Success(code, opts) ==
    \/ code \in 200 .. 299
    \/ code = 409 /\ opts.treatConflictAsDone

(* Every non-positive limit stands for the default of three attempts. *)
AttemptLimit(opts) == IF opts.maxRetries <= 0 THEN 3 ELSE opts.maxRetries

(* MUTANT: one attempt too many is allowed. *)
EvaluateOneTooMany(code, attempt, opts) ==
    IF Success(code, opts) THEN "DELIVERED"
    ELSE IF Retryable(code) /\ attempt <= AttemptLimit(opts) THEN "RETRY_WAIT"
    ELSE "DEAD_LETTER"

(* MUTANT: the status code, 0 without a response, is read before the error. *)
EvaluateStatusFirst(code, attempt, opts) ==
    IF code < 300 THEN "DELIVERED"
    ELSE IF Retryable(code) /\ attempt < AttemptLimit(opts) THEN "RETRY_WAIT"
    ELSE "DEAD_LETTER"

(* NextState of the decision taken after the attempt numbered `attempt`. *)
EvaluateResponse(code, attempt, opts) ==
    IF Success(code, opts) THEN "DELIVERED"
    ELSE IF Retryable(code) /\ attempt < AttemptLimit(opts) THEN "RETRY_WAIT"
    ELSE "DEAD_LETTER"

=============================================================================
