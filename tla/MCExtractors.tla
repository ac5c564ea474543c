---------------------------- MODULE MCExtractors ----------------------------
(* Instances of Extractors for TLC. *)
EXTENDS Extractors
=============================================================================
