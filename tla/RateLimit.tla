------------------------------ MODULE RateLimit ------------------------------
(***************************************************************************)
(* The rate limiter (internal/security/ratelimit and RateLimitIncrement of *)
(* internal/valkey) for one key.  A call counts itself in Valkey; when it  *)
(* is the first of a window it sets the counter's time to live with a      *)
(* second command.  A call that gets no answer from Valkey is counted in   *)
(* memory instead, whether or not Valkey has counted it.  The limit is a   *)
(* setting of the endpoint; one that is not positive counts no call.       *)
(*                                                                         *)
(* INCR and TTL travel in one pipeline and are one step here.              *)
(***************************************************************************)
EXTENDS Naturals, FiniteSetsExt

CONSTANTS
    Callers,   \* requests that ask for the key (bound)
    Limits,    \* how many calls an endpoint may let pass in a window
    Window,    \* the length of a window
    Latest     \* how far the clock runs (bound)

ASSUME RateLimitAssumption ==
    Limits \subseteq Nat \ {0} /\ Window \in Nat \ {0} /\ Latest \in Nat

Instants == 0 .. Latest
Never == Latest + Window + 1     \* a counter without a time to live

VARIABLES
    limit,      \* the endpoint's setting
    clock,
    counter,    \* Valkey's counter (no count: the key is missing) and its expiry
    membucket,  \* the bucket in memory, if any, and the time it resets
    asking,     \* where each call is
    began,      \* when it counted itself in Valkey, and the count it saw
    forgotten,  \* whether the last EXPIRE of the counter was lost
    passed      \* which store let each call pass, if any, and when it counted it

limitVars == <<limit, clock, counter, membucket, asking, began, forgotten, passed>>

NoCounter == [count |-> 0, expiry |-> Never]
NoMemBucket == [count |-> 0, reset |-> 0]

Stores == {"valkey", "memory"}

LimitTypeOK ==
    /\ limit \in Limits
    /\ clock \in Instants
    /\ counter \in [count : Nat, expiry : 0 .. Never]
    /\ membucket \in [count : Nat, reset : Nat]
    /\ asking \in [Callers -> {"new", "counted", "unanswered", "allowed", "refused"}]
    /\ began \in [Callers -> [at : Instants, count : Nat]]
    /\ forgotten \in BOOLEAN
    /\ passed \in [Callers -> [store : Stores \union {"none"}, at : Instants]]

LimitInit ==
    /\ limit \in Limits
    /\ clock = 0
    /\ counter = NoCounter
    /\ membucket = NoMemBucket
    /\ asking = [r \in Callers |-> "new"]
    /\ began = [r \in Callers |-> [at |-> 0, count |-> 0]]
    /\ forgotten = FALSE
    /\ passed = [r \in Callers |-> [store |-> "none", at |-> 0]]

-----------------------------------------------------------------------------
Decide(r, store, at, count) ==
    IF count > limit
    THEN asking' = [asking EXCEPT ![r] = "refused"] /\ UNCHANGED passed
    ELSE /\ asking' = [asking EXCEPT ![r] = "allowed"]
         /\ passed' = [passed EXCEPT ![r] = [store |-> store, at |-> at]]

(* INCR and TTL: with a time to live in place the decision follows at once. *)
RateLimitIncrement(r) ==
    /\ asking[r] = "new"
    /\ counter' = [counter EXCEPT !.count = @ + 1]
    /\ LET count == counter.count + 1 IN
       IF count = 1 \/ counter.expiry = Never
       THEN /\ asking' = [asking EXCEPT ![r] = "counted"]
            /\ began' = [began EXCEPT ![r] = [at |-> clock, count |-> count]]
            /\ UNCHANGED passed
       ELSE Decide(r, "valkey", clock, count) /\ UNCHANGED began
    /\ UNCHANGED <<clock, membucket, forgotten>>

(* EXPIRE; its error is not looked at, and it has no effect on a key that   *)
(* is gone.                                                                *)
Expire(r) ==
    /\ asking[r] = "counted"
    /\ Decide(r, "valkey", began[r].at, began[r].count)
    /\ began' = [began EXCEPT ![r] = [at |-> 0, count |-> 0]]
    /\ \/ /\ counter' = IF counter.count = 0 THEN counter
                        ELSE [counter EXCEPT !.expiry = clock + Window]
          /\ forgotten' = FALSE
       \/ UNCHANGED counter /\ forgotten' = TRUE
    /\ UNCHANGED <<clock, membucket>>

(* Valkey does not answer; it may have counted the call all the same.      *)
IncrementFails(r) ==
    /\ asking[r] = "new"
    /\ asking' = [asking EXCEPT ![r] = "unanswered"]
    /\ \/ UNCHANGED <<counter, forgotten>>
       \/ /\ counter' = [counter EXCEPT !.count = @ + 1]
          /\ forgotten' = (forgotten \/ counter.count = 0)
    /\ UNCHANGED <<clock, membucket, began, passed>>

(* MUTANT: the new bucket resets as soon as the clock moves.               *)
NewBucketShort == [count |-> 1, reset |-> clock]

NewBucket == [count |-> 1, reset |-> clock + Window]

(* Under the limiter's mutex.                                              *)
AllowInMemory(r) ==
    /\ asking[r] = "unanswered"
    /\ membucket' = IF membucket.count = 0 \/ clock > membucket.reset THEN NewBucket
                    ELSE [membucket EXCEPT !.count = @ + 1]
    /\ Decide(r, "memory", clock, membucket'.count)
    /\ UNCHANGED <<clock, counter, began, forgotten>>

(* Valkey drops the key whose time is up.                                  *)
Tick ==
    /\ clock < Latest
    /\ clock' = clock + 1
    /\ IF counter.expiry <= clock'
       THEN counter' = NoCounter
       ELSE UNCHANGED counter
    /\ UNCHANGED <<membucket, asking, began, forgotten, passed>>

LimitNext ==
    /\ UNCHANGED limit
    /\ \/ \E r \in Callers :
             RateLimitIncrement(r) \/ Expire(r) \/ IncrementFails(r) \/ AllowInMemory(r)
       \/ Tick

LimitSpec == LimitInit /\ [][LimitNext]_limitVars

-----------------------------------------------------------------------------
(* The windows are fixed, so a burst may pass on each side of the end of   *)
(* one: each store lets at most twice the limit pass in any span as long   *)
(* as a window, whatever commands are late or lost.  And a counter without *)
(* a time to live, which would refuse everyone, is one that a call is      *)
(* about to give one, or whose EXPIRE was lost: the next call repairs it.  *)
Passed(store, span) == {r \in Callers : passed[r].store = store /\ passed[r].at \in span}

LimitHolds ==
    /\ \A store \in Stores, from \in Instants :
          Cardinality(Passed(store, from .. from + Window)) <= 2 * limit
    /\ counter.count > 0 /\ counter.expiry = Never =>
          forgotten \/ \E r \in Callers : asking[r] = "counted"
=============================================================================
