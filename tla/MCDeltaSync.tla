----------------------------- MODULE MCDeltaSync -----------------------------
(* Instances of DeltaSync for TLC: bodies that swap, repeat and drop chunks. *)
EXTENDS DeltaSync
CONSTANTS x, y, z
MCContents == {<<x>>, <<x, y>>, <<y, x>>, <<x, x, z>>}
=============================================================================
