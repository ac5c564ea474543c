---------------------------- MODULE MCAccessCache ----------------------------
(* Instances of AccessCache for TLC. *)
EXTENDS AccessCache, TLC
SameCallers == Permutations(Callers)
=============================================================================
