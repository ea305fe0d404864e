-------------------------- MODULE MCDeliveryQueue --------------------------
(* Small instances of DeliveryQueue for TLC. *)
EXTENDS DeliveryQueue, TLC

CONSTANTS j1, j2, w1, w2, e1

OneEndpoint == [j \in Jobs |-> e1]

EachOnce == [k \in Kinds |-> 1]
OnlyExpiry == [k \in Kinds |-> IF k = "expiry" THEN 1 ELSE 0]

WorkerSymmetry == Permutations(Workers)
=============================================================================
