------------------------------ MODULE MCMerkle ------------------------------
(* Instances of Merkle for TLC. *)
EXTENDS Merkle
=============================================================================
