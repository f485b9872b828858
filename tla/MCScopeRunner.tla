---------------------------- MODULE MCScopeRunner ----------------------------
(* Instances of ScopeRunner for TLC. *)
EXTENDS ScopeRunner
=============================================================================
