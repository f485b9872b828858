---------------------------- MODULE MCChainSync ----------------------------
(* Instances of ChainSync for TLC. *)
EXTENDS ChainSync
=============================================================================
