---------------------------- MODULE MC_ZkWatcher ----------------------------
(* TLC instances of ZkWatcher. *)
EXTENDS ZkWatcher
=============================================================================
