---------------------------- MODULE MCSendBlocks ----------------------------
(* Instances of SendBlocks for TLC. *)
EXTENDS SendBlocks
=============================================================================
