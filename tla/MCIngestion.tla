---------------------------- MODULE MCIngestion ----------------------------
(* Small instances of Ingestion for TLC. *)
EXTENDS Ingestion, TLC

CONSTANTS r1, r2, r3, r4, clean, hostile, u1

(* One request carries a payload the policy blocks, all others the same. *)
AllButOneClean == [r \in Requests |-> IF r = r3 THEN hostile ELSE clean]

EachOnce == [k \in Kinds |-> 1]
OneFault == [k \in Kinds |-> IF k = "fault" THEN 1 ELSE 0]

(* r1 and r2 send the same genuine payload. *)
TwinSymmetry == Permutations({r1, r2})
=============================================================================
