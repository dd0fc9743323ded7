---------------------------- MODULE MC_ZkRegistry ----------------------------
(* TLC instances of ZkRegistry. *)
EXTENDS ZkRegistry
=============================================================================
