-------------------------- MODULE MC_CacheSelector --------------------------
(* TLC instances of CacheSelector. *)
EXTENDS CacheSelector
=============================================================================
