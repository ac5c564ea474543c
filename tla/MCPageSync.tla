----------------------------- MODULE MCPageSync -----------------------------
(* An instance of PageSync for TLC: a page with two bodies of one chunk. *)
EXTENDS PageSync, TLC
CONSTANTS b1, b2, x, y, w1, m1
MCContent == b1 :> {x} @@ b2 :> {y}
MCFirstBody == [d \in Docs |-> b1]
MCModelOf == w1 :> m1
=============================================================================
