---------------------------- MODULE MCWorkerPool ----------------------------
(* Small instances of WorkerPool for TLC. *)
EXTENDS WorkerPool, TLC

PoolSymmetry ==
    Permutations(Tasks) \union Permutations(Workers) \union Permutations(Stoppers)
=============================================================================
