----------------------------- MODULE MCSidePaths -----------------------------
(* The side paths for TLC. *)
EXTENDS SidePaths, TLC

CONSTANTS hook, post, hit, chat1, chat2, r1, r2, r3, r4, f1, f2, suite, single

MCSeverity == hit :> 2
MCMinSeverity == chat1 :> 1 @@ chat2 :> 3

SideSymmetry == Permutations(Callers) \union Permutations(Retriers)
=============================================================================
