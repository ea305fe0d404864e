-------------------------- MODULE DeliveryContract --------------------------
(***************************************************************************)
(* What the delivery outbox promises the rest of the gateway about a job,  *)
(* with no queue, lease, worker or process in sight.  An accepted job is   *)
(* open until it is settled; it is settled as delivered only after the     *)
(* upstream acknowledged it; a settled job is opened again only by an      *)
(* operator's replay; and no job is ever forgotten.                        *)
(*                                                                         *)
(* A job released while somebody still worked on it is disputed: its late  *)
(* holder may overwrite the status.  Even then "delivered" is never a lie. *)
(***************************************************************************)
EXTENDS Naturals

CONSTANT Jobs

VARIABLES
    state,     \* what the outside sees of each job
    acked,     \* jobs the upstream acknowledged
    disputed,  \* jobs released under a holder
    replays    \* replays ordered so far

vars == <<state, acked, disputed, replays>>

Settled == {"delivered", "dead"}

TypeOK ==
    /\ state \in [Jobs -> {"absent", "open"} \union Settled]
    /\ acked \in SUBSET Jobs
    /\ disputed \in SUBSET Jobs
    /\ replays \in Nat

Init ==
    /\ state = [j \in Jobs |-> "absent"]
    /\ acked = {}
    /\ disputed = {}
    /\ replays = 0

Accept(j) ==
    /\ state[j] = "absent"
    /\ state' = [state EXCEPT ![j] = "open"]
    /\ UNCHANGED <<acked, disputed, replays>>

Acknowledge(j) ==
    /\ state[j] # "absent"
    /\ acked' = acked \union {j}
    /\ UNCHANGED <<state, disputed, replays>>

Settle(j, outcome) ==
    /\ state[j] = "open"
    /\ outcome = "delivered" => j \in acked
    /\ state' = [state EXCEPT ![j] = outcome]
    /\ UNCHANGED <<acked, disputed, replays>>

Replay(j) ==
    /\ state[j] # "absent"
    /\ state' = [state EXCEPT ![j] = "open"]
    /\ replays' = replays + 1
    /\ disputed' \in {disputed, disputed \union {j}}
    /\ UNCHANGED acked

(* Leases ran out under their holders. *)
Dispute(S) ==
    /\ \A j \in S : state[j] = "open"
    /\ disputed' = disputed \union S
    /\ UNCHANGED <<state, acked, replays>>

Overwrite(j, outcome) ==
    /\ j \in disputed
    /\ outcome = "delivered" => j \in acked
    /\ state' = [state EXCEPT ![j] = outcome]
    /\ UNCHANGED <<acked, disputed, replays>>

Next ==
    \/ \E j \in Jobs : Accept(j) \/ Acknowledge(j) \/ Replay(j)
    \/ \E j \in Jobs, outcome \in Settled : Settle(j, outcome)
    \/ \E S \in SUBSET Jobs : Dispute(S)
    \/ \E j \in Jobs, outcome \in {"open"} \union Settled : Overwrite(j, outcome)

Spec == Init /\ [][Next]_vars
=============================================================================
