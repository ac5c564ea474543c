---------------------------- MODULE MCOutlineSync ----------------------------
(* Instances of OutlineSync for TLC. *)
EXTENDS OutlineSync
=============================================================================
