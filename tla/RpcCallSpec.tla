----------------------------- MODULE RpcCallSpec -----------------------------
(***************************************************************************)
(* What rpcClient.Call promises its caller, with connections, retries,     *)
(* goroutines and the pool left out: a Call returns exactly once; nil      *)
(* means that a provider has answered this very request; 408 means that    *)
(* the caller's context was done; and every Call returns.                  *)
(***************************************************************************)
CONSTANTS Calls

VARIABLES
  status,    \* [Calls -> "idle", "pending", or what Call returned]
  expired,   \* the Calls whose context is done
  answered   \* the Calls a provider has answered without an error

vars == <<status, expired, answered>>

Init ==
  /\ status = [c \in Calls |-> "idle"]
  /\ expired = {}
  /\ answered = {}

Begin(c) ==
  /\ status[c] = "idle"
  /\ status' = [status EXCEPT ![c] = "pending"]
  /\ UNCHANGED <<expired, answered>>

Answer(c) ==
  /\ status[c] # "idle"
  /\ answered' = answered \cup {c}
  /\ UNCHANGED <<status, expired>>

Expire(c) ==
  /\ expired' = expired \cup {c}
  /\ UNCHANGED <<status, answered>>

Finish(c, r) ==
  /\ status[c] = "pending" \/ (status[c] = "idle" /\ r # "nil")
  /\ r = "nil" => c \in answered
  /\ r = "timeout" => c \in expired
  /\ status' = [status EXCEPT ![c] = r]
  /\ UNCHANGED <<expired, answered>>

Next == \E c \in Calls :
  Begin(c) \/ Answer(c) \/ Expire(c) \/ \E r \in {"nil", "err", "timeout"} : Finish(c, r)

Spec == Init /\ [][Next]_vars

\* Every Call that has begun returns.
Returns == \A c \in Calls : (status[c] = "pending") ~> (status[c] \in {"nil", "err", "timeout"})
=============================================================================
