---------------------------- MODULE MC_RpcClient ----------------------------
(* TLC instances of RpcClient. *)
EXTENDS RpcClient, TLC

\* Calls are interchangeable: connections and attempts are named after them.
CallSymmetry == Permutations(Calls)
=============================================================================
