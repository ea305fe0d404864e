--------------------------- MODULE DeliveryState ---------------------------
(***************************************************************************)
(* The upstream life cycle of an accepted webhook, and which moves in it   *)
(* the program calls legal (internal/delivery/state.go).                   *)
(***************************************************************************)

DeliveryStates ==
    {"NOT_CONFIGURED", "PENDING", "PROCESSING", "RETRY_WAIT", "DELIVERED", "DEAD_LETTER"}

Terminal == {"DELIVERED", "DEAD_LETTER", "NOT_CONFIGURED"}

(* The statuses a worker may still pick up, or has picked up. *)
Open == {"PENDING", "PROCESSING", "RETRY_WAIT"}

CanTransition(from, to) ==
    \/ from = to
    \/ from = "PENDING" /\ to \in {"PROCESSING", "DEAD_LETTER"}
    \/ from = "PROCESSING" /\ to \in {"DELIVERED", "RETRY_WAIT", "DEAD_LETTER"}
    \/ from = "RETRY_WAIT" /\ to \in {"PROCESSING", "DEAD_LETTER"}
    \/ from \in Terminal /\ to = "PENDING"

=============================================================================
