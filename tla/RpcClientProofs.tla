--------------------------- MODULE RpcClientProofs ---------------------------
(***************************************************************************)
(* Proofs about RpcClient, for every number of Calls, Retries, every pool  *)
(* size and both transports: its types, and, by the inductive invariant    *)
(* ConnInv, that connections are used exclusively and that a caller only   *)
(* ever gets the answer to its own request.                                *)
(***************************************************************************)
EXTENDS RpcClient, SequenceTheorems, TLAPS

\* Attempts are pairs of a Call and a loop index.
LEMMA AttemptFacts ==
  /\ \A a \in Attempts : Owner(a) \in Calls
  /\ None \notin Attempts /\ None \notin Calls /\ "torn" \notin Calls
BY ClientAssumption DEF Attempts, Owner

\* How pairs, Owner and Index fit together.
LEMMA IndexFacts ==
  /\ Retries \in Nat
  /\ \A a \in Attempts : Index(a) \in 1 .. Retries
  /\ \A c \in Calls, i \in 1 .. Retries :
       <<c, i>> \in Attempts /\ Owner(<<c, i>>) = c /\ Index(<<c, i>>) = i
  /\ \A a \in Attempts : a = <<Owner(a), Index(a)>>
BY ClientAssumption DEF Attempts, Owner, Index

\* rpc_client.go, rpc_pool.go, rpc_stream.go: the state of the client is well
\* typed, and an attempt never uses a connection it has not got.
THEOREM TypeCorrect == Spec => []TypeOK
<1>1. Init => TypeOK
  <2>1. Init => CallTypes
    BY DEF Init, CallTypes
  <2>2. Init => AttemptTypes
    BY DEF Init, AttemptTypes, Outcome
  <2>3. Init => FlagTypes
    <3>1. Init => done \in BOOLEAN
      BY DEF Init
    <3>2. Init => FlagTypes!1 /\ FlagTypes!2 /\ FlagTypes!3 /\ FlagTypes!4
      BY DEF Init
    <3>3. QED
      BY <3>1, <3>2 DEF FlagTypes
  <2>4. Init => CountTypes
    BY IndexFacts DEF Init, CountTypes
  <2>5. Init => QueueTypes
    BY DEF Init, QueueTypes
  <2>6. Init => Connects
    BY DEF Init, Connects
  <2>7. QED
    BY <2>1, <2>2, <2>3, <2>4, <2>5, <2>6 DEF TypeOK
<1>2. TypeOK /\ [Next]_vars => TypeOK'
  <2> SUFFICES ASSUME TypeOK, [Next]_vars PROVE TypeOK'
    OBVIOUS
  <2> USE AttemptFacts DEF TypeOK, Outcome, callVars, attVars, subVars, poolVars,
        wireVars, gcVars
  <2>1. ASSUME NEW c \in Calls, CallStart(c) PROVE TypeOK'
    <3>1. FlagTypes'
      BY <2>1 DEF FlagTypes, CallStart, Return, StartAttempt
    <3>2. CountTypes'
      BY <2>1, IndexFacts DEF CountTypes, CallStart, Return, StartAttempt
    <3>3. CallTypes'
      BY <2>1 DEF CallTypes, CallStart, Return, StartAttempt
    <3>4. AttemptTypes'
      BY <2>1 DEF AttemptTypes, CallStart, Return, StartAttempt
    <3>5. QueueTypes'
      BY <2>1 DEF QueueTypes, CallStart, Return, StartAttempt
    <3>6. Connects'
      BY <2>1 DEF Connects, CallStart, Return, StartAttempt, AttemptTypes
    <3>7. QED
      BY <3>1, <3>2, <3>3, <3>4, <3>5, <3>6
  <2>2. ASSUME NEW c \in Calls, CallTimeout(c) PROVE TypeOK'
    <3>1. FlagTypes'
      BY <2>2 DEF FlagTypes, CallTimeout, Return
    <3>2. CountTypes'
      BY <2>2 DEF CountTypes, CallTimeout, Return
    <3>3. CallTypes'
      BY <2>2 DEF CallTypes, CallTimeout, Return
    <3>4. AttemptTypes'
      BY <2>2 DEF AttemptTypes, CallTimeout, Return
    <3>5. QueueTypes'
      BY <2>2 DEF QueueTypes, CallTimeout, Return
    <3>6. Connects'
      BY <2>2 DEF Connects, CallTimeout, Return, AttemptTypes
    <3>7. QED
      BY <3>1, <3>2, <3>3, <3>4, <3>5, <3>6
  <2>3. ASSUME NEW c \in Calls, CallReceive(c) PROVE TypeOK'
    <3>0. Tail(callCh[c]) \in Seq(Outcome)
      BY <2>3, HeadTailProperties DEF CallReceive, QueueTypes
    <3>1. FlagTypes'
      BY <2>3, <3>0 DEF FlagTypes, CallReceive, Return, StartAttempt
    <3>2. CountTypes'
      BY <2>3, <3>0, IndexFacts DEF CountTypes, CallReceive, Return, StartAttempt
    <3>3. CallTypes'
      BY <2>3, <3>0 DEF CallTypes, CallReceive, Return, StartAttempt
    <3>4. AttemptTypes'
      <4>1. \A x : [att EXCEPT ![x] = "get"] \in [Attempts -> {"none", "get", "dial",
                    "run", "release", "store", "gc", "deliver", "done"}]
        BY DEF AttemptTypes
      <4>2. \/ att' = [att EXCEPT ![<<c, cur[c] + 1>>] = "get"]
            \/ att' = att
        BY <2>3 DEF CallReceive, StartAttempt
      <4>3. QED
        BY <2>3, <4>1, <4>2 DEF AttemptTypes, CallReceive
    <3>5. QueueTypes'
      BY <2>3, <3>0 DEF QueueTypes, CallReceive, Return, StartAttempt
    <3>6. Connects'
      BY <2>3, <3>0 DEF Connects, CallReceive, Return, StartAttempt, AttemptTypes
    <3>7. QED
      BY <3>1, <3>2, <3>3, <3>4, <3>5, <3>6
  <2>4. ASSUME NEW c \in Calls, CtxExpire(c) PROVE TypeOK'
    <3>1. FlagTypes'
      BY <2>4 DEF FlagTypes, CtxExpire
    <3>2. CountTypes'
      BY <2>4 DEF CountTypes, CtxExpire
    <3>3. CallTypes'
      BY <2>4 DEF CallTypes, CtxExpire
    <3>4. AttemptTypes'
      BY <2>4 DEF AttemptTypes, CtxExpire
    <3>5. QueueTypes'
      BY <2>4 DEF QueueTypes, CtxExpire
    <3>6. Connects'
      BY <2>4 DEF Connects, CtxExpire, AttemptTypes
    <3>7. QED
      BY <3>1, <3>2, <3>3, <3>4, <3>5, <3>6
  <2>5. ASSUME NEW a \in Attempts, NextFail(a) PROVE TypeOK'
    <3>1. FlagTypes'
      BY <2>5 DEF FlagTypes, NextFail
    <3>2. CountTypes'
      BY <2>5 DEF CountTypes, NextFail
    <3>3. CallTypes'
      BY <2>5 DEF CallTypes, NextFail
    <3>4. AttemptTypes'
      BY <2>5 DEF AttemptTypes, NextFail
    <3>5. QueueTypes'
      BY <2>5 DEF QueueTypes, NextFail
    <3>6. Connects'
      BY <2>5 DEF Connects, NextFail, AttemptTypes
    <3>7. QED
      BY <3>1, <3>2, <3>3, <3>4, <3>5, <3>6
  <2>6. ASSUME NEW a \in Attempts, GetConn(a) PROVE TypeOK'
    <3>0. /\ \A i \in 1 .. Len(pool) : pool[i] \in Attempts
          /\ \A i \in 1 .. Len(pool) : SubSeq(pool, 1, i - 1) \in Seq(Attempts)
          /\ Len(pool) \in Nat
      BY ElementOfSeq, LenProperties, SubSeqProperties DEF QueueTypes
    <3>1. FlagTypes'
      BY <2>6, <3>0 DEF FlagTypes, GetConn, ClientClose, Connected
    <3>2. CountTypes'
      BY <2>6, <3>0 DEF CountTypes, GetConn, ClientClose, Connected
    <3>3. CallTypes'
      BY <2>6, <3>0 DEF CallTypes, GetConn, ClientClose, Connected
    <3>4. AttemptTypes'
      <4>1. PICK i \in 0 .. Len(pool) : GetConn(a)!2!(i)
        BY <2>6 DEF GetConn
      <4>2. CASE i = 0
        BY <2>6, <4>1, <4>2 DEF AttemptTypes, GetConn
      <4>3. CASE i > 0
        <5>1. pool[i] \in Attempts
          BY <4>3, <3>0
        <5>2. QED
          BY <2>6, <4>1, <4>3, <5>1 DEF AttemptTypes, GetConn, Connected
      <4>4. QED
        BY <4>2, <4>3
    <3>5. QueueTypes'
      <4>1. pool' \in Seq(Attempts)
        <5>1. PICK i \in 0 .. Len(pool) : GetConn(a)!2!(i)
          BY <2>6 DEF GetConn
        <5>2. CASE i = 0
          BY <5>1, <5>2
        <5>3. CASE i > 0
          BY <5>1, <5>3, <3>0
        <5>4. QED
          BY <5>2, <5>3
      <4>2. QED
        BY <2>6, <4>1 DEF QueueTypes, GetConn
    <3>6. Connects'
      BY <2>6, <3>0 DEF Connects, GetConn, ClientClose, Connected, AttemptTypes
    <3>7. QED
      BY <3>1, <3>2, <3>3, <3>4, <3>5, <3>6
  <2>7. ASSUME NEW a \in Attempts, Dial(a) PROVE TypeOK'
    <3>1. FlagTypes'
      BY <2>7 DEF FlagTypes, Dial, Connected
    <3>2. CountTypes'
      BY <2>7 DEF CountTypes, Dial, Connected
    <3>3. CallTypes'
      BY <2>7 DEF CallTypes, Dial, Connected
    <3>4. AttemptTypes'
      BY <2>7 DEF AttemptTypes, Dial, Connected
    <3>5. QueueTypes'
      BY <2>7 DEF QueueTypes, Dial, Connected
    <3>6. Connects'
      BY <2>7 DEF Connects, Dial, Connected, AttemptTypes
    <3>7. QED
      BY <3>1, <3>2, <3>3, <3>4, <3>5, <3>6
  <2>8. ASSUME NEW a \in Attempts, AttemptSelect(a) PROVE TypeOK'
    <3>1. FlagTypes'
      BY <2>8 DEF FlagTypes, AttemptSelect
    <3>2. CountTypes'
      BY <2>8 DEF CountTypes, AttemptSelect
    <3>3. CallTypes'
      BY <2>8 DEF CallTypes, AttemptSelect
    <3>4. AttemptTypes'
      BY <2>8 DEF AttemptTypes, AttemptSelect
    <3>5. QueueTypes'
      BY <2>8 DEF QueueTypes, AttemptSelect
    <3>6. Connects'
      BY <2>8 DEF Connects, AttemptSelect, AttemptTypes
    <3>7. QED
      BY <3>1, <3>2, <3>3, <3>4, <3>5, <3>6
  <2>9. ASSUME NEW a \in Attempts, Release(a) PROVE TypeOK'
    <3>1. FlagTypes'
      BY <2>9 DEF FlagTypes, Release, PoolConnClose, ClientClose
    <3>2. CountTypes'
      BY <2>9 DEF CountTypes, Release, PoolConnClose, ClientClose
    <3>3. CallTypes'
      BY <2>9 DEF CallTypes, Release, PoolConnClose, ClientClose
    <3>4. AttemptTypes'
      BY <2>9 DEF AttemptTypes, Release, PoolConnClose, ClientClose
    <3>5. QueueTypes'
      BY <2>9 DEF QueueTypes, Release, PoolConnClose, ClientClose
    <3>6. Connects'
      BY <2>9 DEF Connects, Release, PoolConnClose, ClientClose, AttemptTypes
    <3>7. QED
      BY <3>1, <3>2, <3>3, <3>4, <3>5, <3>6
  <2>10. ASSUME NEW a \in Attempts, Store(a) PROVE TypeOK'
    <3>0. Append(pool, conn[a]) \in Seq(Attempts)
      BY <2>10, AppendProperties DEF Store, QueueTypes, Connects
    <3>1. FlagTypes'
      BY <2>10, <3>0 DEF FlagTypes, Store, ClientClose
    <3>2. CountTypes'
      BY <2>10, <3>0 DEF CountTypes, Store, ClientClose
    <3>3. CallTypes'
      BY <2>10, <3>0 DEF CallTypes, Store, ClientClose
    <3>4. AttemptTypes'
      BY <2>10, <3>0 DEF AttemptTypes, Store, ClientClose
    <3>5. QueueTypes'
      BY <2>10, <3>0 DEF QueueTypes, Store, ClientClose
    <3>6. Connects'
      BY <2>10, <3>0 DEF Connects, Store, ClientClose, AttemptTypes
    <3>7. QED
      BY <3>1, <3>2, <3>3, <3>4, <3>5, <3>6
  <2>11. ASSUME NEW a \in Attempts, GcPut(a) PROVE TypeOK'
    <3>0. Append(gcCh, a) \in Seq(Attempts)
      BY AppendProperties DEF QueueTypes
    <3>1. FlagTypes'
      BY <2>11, <3>0 DEF FlagTypes, GcPut
    <3>2. CountTypes'
      BY <2>11, <3>0 DEF CountTypes, GcPut
    <3>3. CallTypes'
      BY <2>11, <3>0 DEF CallTypes, GcPut
    <3>4. AttemptTypes'
      BY <2>11, <3>0 DEF AttemptTypes, GcPut
    <3>5. QueueTypes'
      BY <2>11, <3>0 DEF QueueTypes, GcPut
    <3>6. Connects'
      BY <2>11, <3>0 DEF Connects, GcPut, AttemptTypes
    <3>7. QED
      BY <3>1, <3>2, <3>3, <3>4, <3>5, <3>6
  <2>12. ASSUME NEW a \in Attempts, Deliver(a) PROVE TypeOK'
    <3>0. Append(callCh[Owner(a)], gerr[a]) \in Seq(Outcome)
      BY AppendProperties DEF QueueTypes, AttemptTypes
    <3>1. FlagTypes'
      BY <2>12, <3>0 DEF FlagTypes, Deliver
    <3>2. CountTypes'
      BY <2>12, <3>0 DEF CountTypes, Deliver
    <3>3. CallTypes'
      BY <2>12, <3>0 DEF CallTypes, Deliver
    <3>4. AttemptTypes'
      BY <2>12, <3>0 DEF AttemptTypes, Deliver
    <3>5. QueueTypes'
      BY <2>12, <3>0 DEF QueueTypes, Deliver
    <3>6. Connects'
      BY <2>12, <3>0 DEF Connects, Deliver, AttemptTypes
    <3>7. QED
      BY <3>1, <3>2, <3>3, <3>4, <3>5, <3>6
  <2>13. ASSUME NEW a \in Attempts, SubFail(a) PROVE TypeOK'
    <3>1. FlagTypes'
      BY <2>13 DEF FlagTypes, SubFail, SubEnd
    <3>2. CountTypes'
      BY <2>13 DEF CountTypes, SubFail, SubEnd
    <3>3. CallTypes'
      BY <2>13 DEF CallTypes, SubFail, SubEnd
    <3>4. AttemptTypes'
      BY <2>13 DEF AttemptTypes, SubFail, SubEnd
    <3>5. QueueTypes'
      BY <2>13 DEF QueueTypes, SubFail, SubEnd
    <3>6. Connects'
      BY <2>13 DEF Connects, SubFail, SubEnd, AttemptTypes
    <3>7. QED
      BY <3>1, <3>2, <3>3, <3>4, <3>5, <3>6
  <2>14. ASSUME NEW a \in Attempts, Send(a) PROVE TypeOK'
    <3>0. Append(reqs[conn[a]], Owner(a)) \in Seq(Calls)
      BY <2>14, AppendProperties DEF Send, QueueTypes, Connects
    <3>1. FlagTypes'
      BY <2>14, <3>0 DEF FlagTypes, Send
    <3>2. CountTypes'
      BY <2>14, <3>0 DEF CountTypes, Send
    <3>3. CallTypes'
      BY <2>14, <3>0 DEF CallTypes, Send
    <3>4. AttemptTypes'
      BY <2>14, <3>0 DEF AttemptTypes, Send
    <3>5. QueueTypes'
      BY <2>14, <3>0 DEF QueueTypes, Send
    <3>6. Connects'
      BY <2>14, <3>0 DEF Connects, Send, AttemptTypes
    <3>7. QED
      BY <3>1, <3>2, <3>3, <3>4, <3>5, <3>6
  <2>15. ASSUME NEW a \in Attempts, RecvHeader(a) PROVE TypeOK'
    <3>0. /\ Tail(rsps[conn[a]]) \in Seq([to : Calls, err : BOOLEAN])
          /\ Head(rsps[conn[a]]).to \in Calls
      <4>1. rsps[conn[a]] \in Seq([to : Calls, err : BOOLEAN])
        BY <2>15 DEF RecvHeader, QueueTypes, Connects
      <4>2. /\ Head(rsps[conn[a]]) \in [to : Calls, err : BOOLEAN]
            /\ Tail(rsps[conn[a]]) \in Seq([to : Calls, err : BOOLEAN])
        BY <2>15, <4>1, HeadTailProperties DEF RecvHeader
      <4>3. QED
        BY <4>2
    <3>1. FlagTypes'
      BY <2>15, <3>0 DEF FlagTypes, RecvHeader, SubEnd
    <3>2. CountTypes'
      BY <2>15, <3>0 DEF CountTypes, RecvHeader, SubEnd
    <3>3. CallTypes'
      BY <2>15, <3>0 DEF CallTypes, RecvHeader, SubEnd
    <3>4. AttemptTypes'
      <4>1. CASE Head(rsps[conn[a]]).err
        BY <2>15, <4>1 DEF AttemptTypes, RecvHeader, SubEnd, Outcome,
                           attVars, poolVars, gcVars
      <4>2. CASE ~Head(rsps[conn[a]]).err
        BY <2>15, <3>0, <4>2 DEF AttemptTypes, RecvHeader, Outcome,
                                 attVars, poolVars, gcVars
      <4>3. QED
        BY <4>1, <4>2
    <3>5. QueueTypes'
      BY <2>15, <3>0 DEF QueueTypes, RecvHeader, SubEnd
    <3>6. Connects'
      BY <2>15, <3>0 DEF Connects, RecvHeader, SubEnd, AttemptTypes
    <3>7. QED
      BY <3>1, <3>2, <3>3, <3>4, <3>5, <3>6
  <2>16. ASSUME NEW a \in Attempts, RecvBody(a) PROVE TypeOK'
    <3>1. FlagTypes'
      BY <2>16 DEF FlagTypes, RecvBody, SubEnd
    <3>2. CountTypes'
      BY <2>16 DEF CountTypes, RecvBody, SubEnd
    <3>3. CallTypes'
      BY <2>16 DEF CallTypes, RecvBody, SubEnd, Connects
    <3>4. AttemptTypes'
      BY <2>16 DEF AttemptTypes, RecvBody, SubEnd
    <3>5. QueueTypes'
      BY <2>16 DEF QueueTypes, RecvBody, SubEnd
    <3>6. Connects'
      BY <2>16 DEF Connects, RecvBody, SubEnd, AttemptTypes
    <3>7. QED
      BY <3>1, <3>2, <3>3, <3>4, <3>5, <3>6
  <2>17. ASSUME NEW a \in Attempts, Provide(a) PROVE TypeOK'
    <3>0. /\ Head(reqs[a]) \in Calls /\ Tail(reqs[a]) \in Seq(Calls)
          /\ \A err \in BOOLEAN : Append(rsps[a], [to |-> Head(reqs[a]), err |-> err])
                                    \in Seq([to : Calls, err : BOOLEAN])
      <4>1. Head(reqs[a]) \in Calls /\ Tail(reqs[a]) \in Seq(Calls)
        BY <2>17, HeadTailProperties DEF Provide, QueueTypes
      <4>2. \A err \in BOOLEAN : [to |-> Head(reqs[a]), err |-> err] \in [to : Calls, err : BOOLEAN]
        BY <4>1
      <4>3. QED
        BY <4>1, <4>2, AppendProperties DEF QueueTypes
    <3>1. FlagTypes'
      BY <2>17, <3>0 DEF FlagTypes, Provide
    <3>2. CountTypes'
      BY <2>17, <3>0 DEF CountTypes, Provide
    <3>3. CallTypes'
      BY <2>17, <3>0 DEF CallTypes, Provide
    <3>4. AttemptTypes'
      BY <2>17, <3>0 DEF AttemptTypes, Provide
    <3>5. QueueTypes'
      BY <2>17, <3>0 DEF QueueTypes, Provide
    <3>6. Connects'
      BY <2>17, <3>0 DEF Connects, Provide, AttemptTypes
    <3>7. QED
      BY <3>1, <3>2, <3>3, <3>4, <3>5, <3>6
  <2>18. ASSUME NEW a \in Attempts, Age(a) PROVE TypeOK'
    <3>1. FlagTypes'
      BY <2>18 DEF FlagTypes, Age
    <3>2. CountTypes'
      BY <2>18 DEF CountTypes, Age
    <3>3. CallTypes'
      BY <2>18 DEF CallTypes, Age
    <3>4. AttemptTypes'
      BY <2>18 DEF AttemptTypes, Age
    <3>5. QueueTypes'
      BY <2>18 DEF QueueTypes, Age
    <3>6. Connects'
      BY <2>18 DEF Connects, Age, AttemptTypes
    <3>7. QED
      BY <3>1, <3>2, <3>3, <3>4, <3>5, <3>6
  <2>19. ASSUME GcTake PROVE TypeOK'
    <3>0. Head(gcCh) \in Attempts /\ Tail(gcCh) \in Seq(Attempts)
      BY <2>19, HeadTailProperties DEF GcTake, QueueTypes
    <3>1. FlagTypes'
      BY <2>19, <3>0 DEF FlagTypes, GcTake
    <3>2. CountTypes'
      BY <2>19, <3>0 DEF CountTypes, GcTake
    <3>3. CallTypes'
      BY <2>19, <3>0 DEF CallTypes, GcTake
    <3>4. AttemptTypes'
      BY <2>19, <3>0 DEF AttemptTypes, GcTake
    <3>5. QueueTypes'
      BY <2>19, <3>0 DEF QueueTypes, GcTake
    <3>6. Connects'
      BY <2>19, <3>0 DEF Connects, GcTake, AttemptTypes
    <3>7. QED
      BY <3>1, <3>2, <3>3, <3>4, <3>5, <3>6
  <2>20. ASSUME GcClose PROVE TypeOK'
    <3>1. FlagTypes'
      BY <2>20 DEF FlagTypes, GcClose, PoolConnClose, ClientClose
    <3>2. CountTypes'
      BY <2>20 DEF CountTypes, GcClose, PoolConnClose, ClientClose
    <3>3. CallTypes'
      BY <2>20 DEF CallTypes, GcClose, PoolConnClose, ClientClose
    <3>4. AttemptTypes'
      BY <2>20 DEF AttemptTypes, GcClose, PoolConnClose, ClientClose
    <3>5. QueueTypes'
      BY <2>20 DEF QueueTypes, GcClose, PoolConnClose, ClientClose
    <3>6. Connects'
      BY <2>20 DEF Connects, GcClose, PoolConnClose, ClientClose, AttemptTypes
    <3>7. QED
      BY <3>1, <3>2, <3>3, <3>4, <3>5, <3>6
  <2>21. ASSUME GcExit PROVE TypeOK'
    <3>1. FlagTypes'
      BY <2>21 DEF FlagTypes, GcExit
    <3>2. CountTypes'
      BY <2>21 DEF CountTypes, GcExit
    <3>3. CallTypes'
      BY <2>21 DEF CallTypes, GcExit
    <3>4. AttemptTypes'
      BY <2>21 DEF AttemptTypes, GcExit
    <3>5. QueueTypes'
      BY <2>21 DEF QueueTypes, GcExit
    <3>6. Connects'
      BY <2>21 DEF Connects, GcExit, AttemptTypes
    <3>7. QED
      BY <3>1, <3>2, <3>3, <3>4, <3>5, <3>6
  <2>22. ASSUME Close PROVE TypeOK'
    <3>1. FlagTypes'
      BY <2>22 DEF FlagTypes, Close
    <3>2. CountTypes'
      BY <2>22 DEF CountTypes, Close
    <3>3. CallTypes'
      BY <2>22 DEF CallTypes, Close
    <3>4. AttemptTypes'
      BY <2>22 DEF AttemptTypes, Close
    <3>5. QueueTypes'
      BY <2>22 DEF QueueTypes, Close
    <3>6. Connects'
      BY <2>22 DEF Connects, Close, AttemptTypes
    <3>7. QED
      BY <3>1, <3>2, <3>3, <3>4, <3>5, <3>6
  <2>23. ASSUME UNCHANGED vars PROVE TypeOK'
    BY <2>23 DEF vars, FlagTypes, CountTypes, CallTypes, AttemptTypes, QueueTypes, Connects
  <2>24. QED
    BY <2>1, <2>2, <2>3, <2>4, <2>5, <2>6, <2>7, <2>8, <2>9, <2>10, <2>11, <2>12,
       <2>13, <2>14, <2>15, <2>16, <2>17, <2>18, <2>19, <2>20, <2>21, <2>22, <2>23
       DEF Next, CallStep, AttemptStep, SubStep, GcStep
<1>3. QED
  BY <1>1, <1>2, PTL DEF Spec

\* What is in the pool does not change while pool does not.
LEMMA PoolFrame ==
  ASSUME UNCHANGED pool
  PROVE  \A k : InPool(k)' <=> InPool(k)
BY DEF InPool

\* What is on the wire does not change while reqs and rsps do not.
LEMMA WireFrame ==
  ASSUME UNCHANGED wireVars
  PROVE  \A k : (Quiet(k)' <=> Quiet(k)) /\ \A c : Asked(k, c)' <=> Asked(k, c)
BY DEF Quiet, Asked, wireVars

\* poolConn.Close leaves its connection closed and destroyed.
LEMMA CloseFacts ==
  ASSUME TypeOK, Stages, NEW k, PoolConnClose(k)
  PROVE  /\ \A x \in Attempts : open'[x] => open[x]
         /\ \A x \in Attempts : created'[x] = "zero" => ~open'[x]
         /\ k \in Attempts => ~open'[k]
<1>1. CASE created[k] = "zero"
  BY <1>1 DEF PoolConnClose, Stages
<1>2. CASE created[k] # "zero"
  <2>1. \A x \in Attempts : open'[x] => open[x] /\ x # k
    BY <1>2 DEF PoolConnClose, ClientClose
  <2>2. created' = [created EXCEPT ![k] = "zero"]
    BY <1>2 DEF PoolConnClose
  <2>3. QED
    BY <2>1, <2>2 DEF Stages, TypeOK, AttemptTypes
<1>3. QED
  BY <1>1, <1>2

\* call, pool.getConn, pool.release, gc: ConnInv is an invariant.
THEOREM ConnInvariant == Spec => []ConnInv
<1>1. Init => ConnInv
  <2>1. Init => Stages
    BY AttemptFacts DEF Init, Stages, Fresh, Quiet, InPool
  <2>2. Init => Holding
    BY AttemptFacts DEF Init, Holding, Holds, Busy, InPool
  <2>3. Init => PoolDistinct
    BY DEF Init, PoolDistinct
  <2>4. Init => OnWire
    BY AttemptFacts DEF Init, OnWire, Quiet, Holds, InPool
  <2>5. Init => OwnResponse
    BY DEF Init, OwnResponse
  <2>6. Init => Started
    BY DEF Init, Started
  <2>7. QED
    BY <2>1, <2>2, <2>3, <2>4, <2>5, <2>6 DEF ConnInv
<1>2. TypeOK /\ ConnInv /\ [Next]_vars => ConnInv'
  <2> SUFFICES ASSUME TypeOK, ConnInv, [Next]_vars PROVE ConnInv'
    OBVIOUS
  <2> USE AttemptFacts DEF TypeOK, ConnInv, AttemptTypes, Connects, Outcome, attVars,
        subVars, poolVars
  <2>1. ASSUME NEW c \in Calls, CallStart(c) PROVE ConnInv'
    <3>1. \A k : InPool(k)' <=> InPool(k)
      BY <2>1, PoolFrame DEF CallStart, poolVars
    <3>2. \A k : (Quiet(k)' <=> Quiet(k)) /\ \A x : Asked(k, x)' <=> Asked(k, x)
      BY <2>1, WireFrame DEF CallStart
    <3>0. \/ \E x \in Attempts : att[x] = "none" /\ att' = [att EXCEPT ![x] = "get"]
          \/ att' = att
      <4>1. \/ att' = att
            \/ /\ cur[c] + 1 \in 1 .. Retries
               /\ att' = [att EXCEPT ![<<c, cur[c] + 1>>] = "get"]
        <5>1. cur[c] = 0
          BY <2>1 DEF CallStart, Started
        <5>2. \/ att' = att
              \/ Retries > 0 /\ att' = [att EXCEPT ![<<c, 1>>] = "get"]
          BY <2>1, ClientAssumption DEF CallStart, StartAttempt
        <5>3. QED
          BY <5>1, <5>2, IndexFacts
      <4>2. ASSUME cur[c] + 1 \in 1 .. Retries
            PROVE  <<c, cur[c] + 1>> \in Attempts /\ att[<<c, cur[c] + 1>>] = "none"
        BY <4>2, IndexFacts DEF Started, CountTypes
      <4>3. QED
        BY <4>1, <4>2
    <3>3. Started'
      <4>1. \/ pc' = [pc EXCEPT ![c] = "done"] /\ UNCHANGED <<cur, att>>
            \/ /\ cur[c] + 1 \in 1 .. Retries
               /\ \A x \in Calls : pc'[x] = "idle" => x # c /\ pc[x] = "idle"
               /\ cur' = [cur EXCEPT ![c] = cur[c] + 1]
               /\ att' = [att EXCEPT ![<<c, cur[c] + 1>>] = "get"]
        <5>1. cur[c] = 0
          BY <2>1 DEF CallStart, Started
        <5>2. \/ pc' = [pc EXCEPT ![c] = "done"] /\ UNCHANGED <<cur, att>>
              \/ /\ Retries > 0
                 /\ pc' = [pc EXCEPT ![c] = "wait"]
                 /\ cur' = [cur EXCEPT ![c] = 1]
                 /\ att' = [att EXCEPT ![<<c, 1>>] = "get"]
          BY <2>1, ClientAssumption DEF CallStart, StartAttempt, Return
        <5>3. QED
          BY <5>1, <5>2, IndexFacts DEF CallTypes
      <4>2. CASE pc' = [pc EXCEPT ![c] = "done"] /\ UNCHANGED <<cur, att>>
        BY <4>2 DEF Started, CallTypes
      <4>3. CASE /\ cur[c] + 1 \in 1 .. Retries
                 /\ \A x \in Calls : pc'[x] = "idle" => x # c /\ pc[x] = "idle"
                 /\ cur' = [cur EXCEPT ![c] = cur[c] + 1]
                 /\ att' = [att EXCEPT ![<<c, cur[c] + 1>>] = "get"]
        <5>1. ASSUME NEW x \in Calls, pc'[x] = "idle" PROVE cur'[x] = 0
          BY <4>3, <5>1 DEF Started, CountTypes
        <5>2. ASSUME NEW x \in Attempts, att'[x] # "none" PROVE Index(x) <= cur'[Owner(x)]
          <6>1. CASE x = <<c, cur[c] + 1>>
            BY <4>3, <6>1, IndexFacts DEF CountTypes
          <6>2. CASE x # <<c, cur[c] + 1>>
            <7>1. Index(x) <= cur[Owner(x)]
              BY <4>3, <5>2, <6>2 DEF Started
            <7>2. QED
              BY <4>3, <7>1, IndexFacts DEF CountTypes
          <6>3. QED
            BY <6>1, <6>2
        <5>3. QED
          BY <5>1, <5>2 DEF Started
      <4>4. QED
        BY <4>1, <4>2, <4>3
    <3>4. Stages'
      BY <2>1, <3>0, <3>1, <3>2 DEF Stages, Fresh, CallStart
    <3>5. Holding'
      <4>1. ASSUME NEW x \in Attempts, NEW y \in Attempts, Holds(x)', Holds(y)',
                   conn'[x] = conn'[y]
            PROVE  x = y
        BY <4>1, <2>1, <3>0, <3>1 DEF Holding, Holds, CallStart, Stages, Fresh
      <4>2. ASSUME NEW x \in Attempts, Holds(x)' PROVE ~InPool(conn[x])'
        BY <4>2, <2>1, <3>0, <3>1 DEF Holding, Holds, CallStart, Stages, Fresh
      <4>3. ASSUME NEW x \in Attempts, Busy(x)', ~Holds(x)'
            PROVE  /\ ~open'[conn'[x]] /\ ~InPool(conn[x])'
                   /\ \A y \in Attempts : Holds(y)' => conn'[y] # conn'[x]
        BY <4>3, <2>1, <3>0, <3>1 DEF Holding, Holds, Busy, CallStart, Stages, Fresh
      <4>4. QED
        BY <4>1, <4>2, <4>3 DEF Holding
    <3>6. PoolDistinct'
      BY <2>1 DEF PoolDistinct, CallStart
    <3>7. OnWire'
      BY <2>1, <3>0, <3>1, <3>2 DEF Stages, Fresh, OnWire, Holds, CallStart
    <3>8. OwnResponse'
      BY <2>1 DEF OwnResponse, CallStart
    <3>9. QED
      BY <3>3, <3>4, <3>5, <3>6, <3>7, <3>8
  <2>2. ASSUME NEW c \in Calls, CallTimeout(c) PROVE ConnInv'
    <3>1. \A k : InPool(k)' <=> InPool(k)
      BY <2>2, PoolFrame DEF CallTimeout, poolVars
    <3>2. \A k : (Quiet(k)' <=> Quiet(k)) /\ \A x : Asked(k, x)' <=> Asked(k, x)
      BY <2>2, WireFrame DEF CallTimeout
    <3>3. Started'
      BY <2>2 DEF Started, CallTimeout, Return, callVars
    <3>4. Stages'
      BY <2>2, <3>1, <3>2 DEF Stages, Fresh, CallTimeout, Return
    <3>5. Holding'
      BY <2>2, <3>1, <3>2 DEF Stages, Fresh, Holding, Holds, Busy, CallTimeout, Return
    <3>6. PoolDistinct'
      BY <2>2 DEF PoolDistinct, CallTimeout
    <3>7. OnWire'
      BY <2>2, <3>1, <3>2 DEF Stages, Fresh, OnWire, Holds, CallTimeout, Return
    <3>8. OwnResponse'
      BY <2>2 DEF OwnResponse, CallTimeout
    <3>9. QED
      BY <3>3, <3>4, <3>5, <3>6, <3>7, <3>8
  <2>3. ASSUME NEW c \in Calls, CallReceive(c) PROVE ConnInv'
    <3>1. \A k : InPool(k)' <=> InPool(k)
      BY <2>3, PoolFrame DEF CallReceive, poolVars
    <3>2. \A k : (Quiet(k)' <=> Quiet(k)) /\ \A x : Asked(k, x)' <=> Asked(k, x)
      BY <2>3, WireFrame DEF CallReceive
    <3>0. \/ \E x \in Attempts : att[x] = "none" /\ att' = [att EXCEPT ![x] = "get"]
          \/ att' = att
      <4>1. \/ att' = att
            \/ /\ cur[c] + 1 \in 1 .. Retries
               /\ att' = [att EXCEPT ![<<c, cur[c] + 1>>] = "get"]
        BY <2>3, IndexFacts DEF CallReceive, StartAttempt, Started, CountTypes
      <4>2. ASSUME cur[c] + 1 \in 1 .. Retries
            PROVE  <<c, cur[c] + 1>> \in Attempts /\ att[<<c, cur[c] + 1>>] = "none"
        BY <4>2, IndexFacts DEF Started, CountTypes
      <4>3. QED
        BY <4>1, <4>2
    <3>3. Started'
      <4>1. \/ pc' = [pc EXCEPT ![c] = "done"] /\ UNCHANGED <<cur, att>>
            \/ /\ cur[c] + 1 \in 1 .. Retries
               /\ \A x \in Calls : pc'[x] = "idle" => x # c /\ pc[x] = "idle"
               /\ cur' = [cur EXCEPT ![c] = cur[c] + 1]
               /\ att' = [att EXCEPT ![<<c, cur[c] + 1>>] = "get"]
        BY <2>3, IndexFacts DEF Started, CallReceive, Return, StartAttempt, CountTypes, CallTypes
      <4>2. CASE pc' = [pc EXCEPT ![c] = "done"] /\ UNCHANGED <<cur, att>>
        BY <4>2 DEF Started, CallTypes
      <4>3. CASE /\ cur[c] + 1 \in 1 .. Retries
                 /\ \A x \in Calls : pc'[x] = "idle" => x # c /\ pc[x] = "idle"
                 /\ cur' = [cur EXCEPT ![c] = cur[c] + 1]
                 /\ att' = [att EXCEPT ![<<c, cur[c] + 1>>] = "get"]
        <5>1. ASSUME NEW x \in Calls, pc'[x] = "idle" PROVE cur'[x] = 0
          BY <4>3, <5>1 DEF Started, CountTypes
        <5>2. ASSUME NEW x \in Attempts, att'[x] # "none" PROVE Index(x) <= cur'[Owner(x)]
          <6>1. CASE x = <<c, cur[c] + 1>>
            BY <4>3, <6>1, IndexFacts DEF CountTypes
          <6>2. CASE x # <<c, cur[c] + 1>>
            <7>1. Index(x) <= cur[Owner(x)]
              BY <4>3, <5>2, <6>2 DEF Started
            <7>2. QED
              BY <4>3, <7>1, IndexFacts DEF CountTypes
          <6>3. QED
            BY <6>1, <6>2
        <5>3. QED
          BY <5>1, <5>2 DEF Started
      <4>4. QED
        BY <4>1, <4>2, <4>3
    <3>4. Stages'
      BY <2>3, <3>0, <3>1, <3>2 DEF Stages, Fresh, CallReceive
    <3>5. Holding'
      <4>1. ASSUME NEW x \in Attempts, NEW y \in Attempts, Holds(x)', Holds(y)',
                   conn'[x] = conn'[y]
            PROVE  x = y
        BY <4>1, <2>3, <3>0, <3>1 DEF Holding, Holds, CallReceive, Stages, Fresh
      <4>2. ASSUME NEW x \in Attempts, Holds(x)' PROVE ~InPool(conn[x])'
        BY <4>2, <2>3, <3>0, <3>1 DEF Holding, Holds, CallReceive, Stages, Fresh
      <4>3. ASSUME NEW x \in Attempts, Busy(x)', ~Holds(x)'
            PROVE  /\ ~open'[conn'[x]] /\ ~InPool(conn[x])'
                   /\ \A y \in Attempts : Holds(y)' => conn'[y] # conn'[x]
        BY <4>3, <2>3, <3>0, <3>1 DEF Holding, Holds, Busy, CallReceive, Stages, Fresh
      <4>4. QED
        BY <4>1, <4>2, <4>3 DEF Holding
    <3>6. PoolDistinct'
      BY <2>3 DEF PoolDistinct, CallReceive
    <3>7. OnWire'
      BY <2>3, <3>0, <3>1, <3>2 DEF Stages, Fresh, OnWire, Holds, CallReceive
    <3>8. OwnResponse'
      BY <2>3 DEF OwnResponse, CallReceive
    <3>9. QED
      BY <3>3, <3>4, <3>5, <3>6, <3>7, <3>8
  <2>4. ASSUME NEW c \in Calls, CtxExpire(c) PROVE ConnInv'
    <3>1. \A k : InPool(k)' <=> InPool(k)
      BY <2>4, PoolFrame DEF CtxExpire, poolVars
    <3>2. \A k : (Quiet(k)' <=> Quiet(k)) /\ \A x : Asked(k, x)' <=> Asked(k, x)
      BY <2>4, WireFrame DEF CtxExpire
    <3>3. Started'
      BY <2>4 DEF Started, CtxExpire, callVars
    <3>4. Stages'
      BY <2>4, <3>1, <3>2 DEF Stages, Fresh, CtxExpire
    <3>5. Holding'
      BY <2>4, <3>1, <3>2 DEF Stages, Fresh, Holding, Holds, Busy, CtxExpire
    <3>6. PoolDistinct'
      BY <2>4 DEF PoolDistinct, CtxExpire
    <3>7. OnWire'
      BY <2>4, <3>1, <3>2 DEF Stages, Fresh, OnWire, Holds, CtxExpire
    <3>8. OwnResponse'
      BY <2>4 DEF OwnResponse, CtxExpire
    <3>9. QED
      BY <3>3, <3>4, <3>5, <3>6, <3>7, <3>8
  <2>5. ASSUME NEW a \in Attempts, NextFail(a) PROVE ConnInv'
    <3>1. \A k : InPool(k)' <=> InPool(k)
      BY <2>5, PoolFrame DEF NextFail, poolVars
    <3>2. \A k : (Quiet(k)' <=> Quiet(k)) /\ \A x : Asked(k, x)' <=> Asked(k, x)
      BY <2>5, WireFrame DEF NextFail
    <3>3. Started'
      BY <2>5 DEF Started, NextFail, callVars
    <3>4. Stages'
      BY <2>5, <3>1, <3>2 DEF Stages, Fresh, NextFail
    <3>5. Holding'
      BY <2>5, <3>1, <3>2 DEF Stages, Fresh, Holding, Holds, Busy, NextFail
    <3>6. PoolDistinct'
      BY <2>5 DEF PoolDistinct, NextFail
    <3>7. OnWire'
      BY <2>5, <3>1, <3>2 DEF Stages, Fresh, OnWire, Holds, NextFail
    <3>8. OwnResponse'
      BY <2>5 DEF OwnResponse, NextFail
    <3>9. QED
      BY <3>3, <3>4, <3>5, <3>6, <3>7, <3>8
  <2>6. ASSUME NEW a \in Attempts, GetConn(a) PROVE ConnInv'
    <3>2. \A k : (Quiet(k)' <=> Quiet(k)) /\ \A x : Asked(k, x)' <=> Asked(k, x)
      BY <2>6, WireFrame DEF GetConn
    <3>0. PICK i \in 0 .. Len(pool) : GetConn(a)!2!(i)
      BY <2>6 DEF GetConn
    <3>1. \A k : InPool(k)' => InPool(k) /\ (i > 0 => k # pool[i])
      <4>1. Len(pool) \in Nat /\ \A j \in 1 .. Len(pool) : pool[j] \in Attempts
        BY LenProperties, ElementOfSeq DEF QueueTypes
      <4>2. CASE i = 0
        BY <3>0, <4>2 DEF InPool
      <4>3. CASE i > 0
        <5>1. \A j \in 1 .. i - 1 : pool[j] \in Attempts
          BY <4>1, <4>3
        <5>2. /\ Len(SubSeq(pool, 1, i - 1)) = i - 1
              /\ \A j \in 1 .. i - 1 : SubSeq(pool, 1, i - 1)[j] = pool[j]
          BY <4>1, <4>3, <5>1, SubSeqProperties
        <5>3. pool' = SubSeq(pool, 1, i - 1)
          BY <3>0, <4>3
        <5>4. QED
          BY <4>1, <4>3, <5>2, <5>3 DEF InPool, PoolDistinct
      <4>4. QED
        BY <4>2, <4>3
    <3>0a. /\ \A k \in Attempts : open'[k] => open[k]
           /\ \/ att' = [att EXCEPT ![a] = "dial"] /\ UNCHANGED <<conn, sub>>
              \/ \E k \in Attempts :
                   /\ InPool(k) /\ ~InPool(k)' /\ ~Fresh(k)
                   /\ conn' = [conn EXCEPT ![a] = k]
                   /\ att' = [att EXCEPT ![a] = "run"]
                   /\ sub' = [sub EXCEPT ![a] = "send"]
      <4>1. \A k \in Attempts : open'[k] => open[k]
        BY <3>0 DEF ClientClose
      <4>2. CASE i = 0
        BY <3>0, <4>1, <4>2
      <4>3. CASE i > 0
        <5>1. i \in 1 .. Len(pool)
          BY <4>3, LenProperties DEF QueueTypes
        <5>2. PICK k \in Attempts : k = pool[i]
          BY <5>1, ElementOfSeq DEF QueueTypes
        <5>3. InPool(k) /\ ~InPool(k)' /\ ~Fresh(k)
          BY <3>1, <4>3, <5>1, <5>2 DEF Stages, InPool
        <5>4. QED
          BY <3>0, <4>1, <4>3, <5>2, <5>3 DEF Connected
      <4>4. QED
        BY <4>2, <4>3
    <3>0b. UNCHANGED <<created, gerr, subCh, got>> /\ att[a] = "get"
      BY <2>6 DEF GetConn
    <3>0c. \A k : InPool(k)' => InPool(k)
      BY <3>1
    <3>3. Started'
      BY <2>6 DEF Started, GetConn, ClientClose, Connected, callVars
    <3>4. Stages'
      BY <3>0a, <3>0b, <3>0c, <3>2 DEF Stages, Fresh
    <3>5. Holding'
      <4>1. ASSUME NEW x \in Attempts, NEW y \in Attempts, Holds(x)', Holds(y)',
                   conn'[x] = conn'[y]
            PROVE  x = y
        BY <4>1, <3>0a, <3>0b, <3>0c DEF Holding, Holds, Stages, Fresh
      <4>2. ASSUME NEW x \in Attempts, Holds(x)' PROVE ~InPool(conn[x])'
        BY <4>2, <3>0a, <3>0b, <3>0c DEF Holding, Holds, Stages, Fresh
      <4>3. ASSUME NEW x \in Attempts, Busy(x)', ~Holds(x)'
            PROVE  /\ ~open'[conn'[x]] /\ ~InPool(conn[x])'
                   /\ \A y \in Attempts : Holds(y)' => conn'[y] # conn'[x]
        BY <4>3, <3>0a, <3>0b, <3>0c DEF Holding, Holds, Busy, Stages, Fresh
      <4>4. QED
        BY <4>1, <4>2, <4>3 DEF Holding
    <3>6. PoolDistinct'
      <4>1. Len(pool) \in Nat /\ \A j \in 1 .. Len(pool) : pool[j] \in Attempts
        BY LenProperties, ElementOfSeq DEF QueueTypes
      <4>2. CASE i = 0
        BY <3>0, <4>2 DEF PoolDistinct
      <4>3. CASE i > 0
        <5>1. \A j \in 1 .. i - 1 : pool[j] \in Attempts
          BY <4>1, <4>3
        <5>2. /\ Len(SubSeq(pool, 1, i - 1)) = i - 1
              /\ \A j \in 1 .. i - 1 : SubSeq(pool, 1, i - 1)[j] = pool[j]
          BY <4>1, <4>3, <5>1, SubSeqProperties
        <5>3. pool' = SubSeq(pool, 1, i - 1)
          BY <3>0, <4>3
        <5>4. QED
          BY <4>1, <4>3, <5>2, <5>3 DEF PoolDistinct
      <4>4. QED
        BY <4>2, <4>3
    <3>7. OnWire'
      <4>1. ASSUME NEW k \in Attempts, InPool(k)' PROVE Quiet(k)'
        BY <4>1, <3>0a, <3>0b, <3>0c, <3>2 DEF OnWire, Stages, Fresh
      <4>2. ASSUME NEW x \in Attempts, Holds(x)'
            PROVE  /\ sub'[x] \in {"send", "decode"} => Quiet(conn'[x])
                   /\ subCh'[x] = "nil" => Quiet(conn'[x])
                   /\ sub'[x] = "recv" => Asked(conn'[x], Owner(x))
        <5>1. CASE x # a
          BY <4>2, <5>1, <3>0a, <3>0b, <3>0c, <3>2 DEF OnWire, Holds, Stages, Fresh
        <5>2. CASE x = a
          BY <4>2, <5>2, <3>0a, <3>0b, <3>0c, <3>2 DEF OnWire, Holds, Stages, Fresh
        <5>3. QED
          BY <5>1, <5>2
      <4>3. QED
        BY <4>1, <4>2, <3>2 DEF OnWire
    <3>8. OwnResponse'
      BY <2>6 DEF OwnResponse, GetConn
    <3>9. QED
      BY <3>3, <3>4, <3>5, <3>6, <3>7, <3>8
  <2>7. ASSUME NEW a \in Attempts, Dial(a) PROVE ConnInv'
    <3>1. \A k : InPool(k)' <=> InPool(k)
      BY <2>7, PoolFrame DEF Dial, poolVars
    <3>2. \A k : (Quiet(k)' <=> Quiet(k)) /\ \A x : Asked(k, x)' <=> Asked(k, x)
      BY <2>7, WireFrame DEF Dial
    <3>0. /\ Quiet(a) /\ ~InPool(a) /\ conn[a] = None /\ att[a] = "dial"
          /\ \A x \in Attempts : conn[x] # a
      BY <2>7 DEF Stages, Fresh, Dial
    <3>0a. \/ /\ open' = [open EXCEPT ![a] = TRUE]
              /\ conn' = [conn EXCEPT ![a] = a]
              /\ att' = [att EXCEPT ![a] = "run"]
              /\ sub' = [sub EXCEPT ![a] = "send"]
           \/ att' = [att EXCEPT ![a] = "deliver"] /\ UNCHANGED <<open, conn, sub>>
      BY <2>7 DEF Dial, Connected
    <3>3. Started'
      BY <2>7 DEF Started, Dial, Connected, callVars
    <3>4. Stages'
      BY <2>7, <3>0, <3>0a, <3>1, <3>2 DEF Stages, Fresh, Dial, FlagTypes
    <3>5. Holding'
      <4>1. ASSUME NEW x \in Attempts, NEW y \in Attempts, Holds(x)', Holds(y)',
                   conn'[x] = conn'[y]
            PROVE  x = y
        BY <4>1, <3>0, <3>0a, <3>1 DEF Holding, Holds, Stages, Fresh, FlagTypes
      <4>2. ASSUME NEW x \in Attempts, Holds(x)' PROVE ~InPool(conn[x])'
        BY <4>2, <3>0, <3>0a, <3>1 DEF Holding, Holds, Stages, Fresh, FlagTypes
      <4>3. ASSUME NEW x \in Attempts, Busy(x)', ~Holds(x)'
            PROVE  /\ ~open'[conn'[x]] /\ ~InPool(conn[x])'
                   /\ \A y \in Attempts : Holds(y)' => conn'[y] # conn'[x]
        BY <4>3, <3>0, <3>0a, <3>1 DEF Holding, Holds, Busy, Stages, Fresh, FlagTypes
      <4>4. QED
        BY <4>1, <4>2, <4>3 DEF Holding
    <3>6. PoolDistinct'
      BY <2>7 DEF PoolDistinct, Dial
    <3>7. OnWire'
      <4>1. ASSUME NEW k \in Attempts, InPool(k)' PROVE Quiet(k)'
        BY <4>1, <2>7, <3>0, <3>0a, <3>1, <3>2 DEF OnWire, Stages, Fresh, Dial
      <4>2. ASSUME NEW x \in Attempts, Holds(x)'
            PROVE  /\ sub'[x] \in {"send", "decode"} => Quiet(conn'[x])
                   /\ subCh'[x] = "nil" => Quiet(conn'[x])
                   /\ sub'[x] = "recv" => Asked(conn'[x], Owner(x))
        <5>1. CASE x # a
          BY <4>2, <5>1, <2>7, <3>0, <3>0a, <3>1, <3>2 DEF OnWire, Holds, Stages, Fresh, Dial
        <5>2. CASE x = a
          BY <4>2, <5>2, <2>7, <3>0, <3>0a, <3>1, <3>2 DEF OnWire, Holds, Stages, Fresh, Dial
        <5>3. QED
          BY <5>1, <5>2
      <4>3. QED
        BY <4>1, <4>2, <3>2 DEF OnWire
    <3>8. OwnResponse'
      BY <2>7 DEF OwnResponse, Dial
    <3>9. QED
      BY <3>3, <3>4, <3>5, <3>6, <3>7, <3>8
  <2>8. ASSUME NEW a \in Attempts, AttemptSelect(a) PROVE ConnInv'
    <3>1. \A k : InPool(k)' <=> InPool(k)
      BY <2>8, PoolFrame DEF AttemptSelect, poolVars
    <3>2. \A k : (Quiet(k)' <=> Quiet(k)) /\ \A x : Asked(k, x)' <=> Asked(k, x)
      BY <2>8, WireFrame DEF AttemptSelect
    <3>0. \A x \in Attempts : Holds(x)' => Holds(x)
      BY <2>8 DEF AttemptSelect, Holds
    <3>3. Started'
      BY <2>8 DEF Started, AttemptSelect, callVars
    <3>4. Stages'
      BY <2>8, <3>1, <3>2, <3>0 DEF Stages, Fresh, AttemptSelect
    <3>5. Holding'
      BY <2>8, <3>1, <3>2, <3>0 DEF Stages, Fresh, Holding, Holds, Busy, AttemptSelect
    <3>6. PoolDistinct'
      BY <2>8 DEF PoolDistinct, AttemptSelect
    <3>7. OnWire'
      BY <2>8, <3>0, <3>1, <3>2 DEF OnWire, AttemptSelect
    <3>8. OwnResponse'
      BY <2>8 DEF OwnResponse, AttemptSelect
    <3>9. QED
      BY <3>3, <3>4, <3>5, <3>6, <3>7, <3>8
  <2>9. ASSUME NEW a \in Attempts, Release(a) PROVE ConnInv'
    <3>1. \A k : InPool(k)' <=> InPool(k)
      BY <2>9, PoolFrame DEF Release, poolVars
    <3>2. \A k : (Quiet(k)' <=> Quiet(k)) /\ \A x : Asked(k, x)' <=> Asked(k, x)
      BY <2>9, WireFrame DEF Release
    <3>0. /\ \A k \in Attempts : open'[k] => open[k]
          /\ \A k \in Attempts : created'[k] = "zero" => ~open'[k]
          /\ att[a] = "release" /\ Streaming /\ conn[a] \in Attempts
          /\ UNCHANGED <<conn, gerr, sub, subCh, got>>
          /\ \/ att' = [att EXCEPT ![a] = "gc"] /\ ~open'[conn[a]]
             \/ att' = [att EXCEPT ![a] = "store"] /\ gerr[a] = "nil"
      <4>1. att[a] = "release" /\ Streaming /\ conn[a] \in Attempts
        BY <2>9 DEF Release, Stages
      <4>2. \/ PoolConnClose(conn[a]) /\ att' = [att EXCEPT ![a] = "gc"]
            \/ /\ UNCHANGED <<open, created>> /\ gerr[a] = "nil"
               /\ att' = [att EXCEPT ![a] = "store"]
        BY <2>9 DEF Release
      <4>3. CASE PoolConnClose(conn[a]) /\ att' = [att EXCEPT ![a] = "gc"]
        BY <2>9, <4>1, <4>3, CloseFacts DEF Release
      <4>4. CASE /\ UNCHANGED <<open, created>> /\ gerr[a] = "nil"
                 /\ att' = [att EXCEPT ![a] = "store"]
        BY <2>9, <4>1, <4>4 DEF Release, Stages
      <4>5. QED
        BY <4>2, <4>3, <4>4
    <3>3. Started'
      BY <2>9 DEF Started, Release, PoolConnClose, ClientClose, callVars
    <3>4. Stages'
      BY <3>0, <3>1, <3>2 DEF Stages, Fresh
    <3>5. Holding'
      <4>1. ASSUME NEW x \in Attempts, NEW y \in Attempts, Holds(x)', Holds(y)',
                   conn'[x] = conn'[y]
            PROVE  x = y
        BY <4>1, <3>0, <3>1 DEF Holding, Holds, Stages
      <4>2. ASSUME NEW x \in Attempts, Holds(x)' PROVE ~InPool(conn[x])'
        BY <4>2, <3>0, <3>1 DEF Holding, Holds, Stages
      <4>3. ASSUME NEW x \in Attempts, Busy(x)', ~Holds(x)'
            PROVE  /\ ~open'[conn'[x]] /\ ~InPool(conn[x])'
                   /\ \A y \in Attempts : Holds(y)' => conn'[y] # conn'[x]
        BY <4>3, <3>0, <3>1 DEF Holding, Holds, Busy, Stages
      <4>4. QED
        BY <4>1, <4>2, <4>3 DEF Holding
    <3>6. PoolDistinct'
      BY <2>9 DEF PoolDistinct, Release
    <3>7. OnWire'
      BY <3>0, <3>1, <3>2 DEF OnWire, Holds
    <3>8. OwnResponse'
      BY <2>9 DEF OwnResponse, Release
    <3>9. QED
      BY <3>3, <3>4, <3>5, <3>6, <3>7, <3>8
  <2>10. ASSUME NEW a \in Attempts, Store(a) PROVE ConnInv'
    <3>2. \A k : (Quiet(k)' <=> Quiet(k)) /\ \A x : Asked(k, x)' <=> Asked(k, x)
      BY <2>10, WireFrame DEF Store
    <3>0. /\ att[a] = "store" /\ att' = [att EXCEPT ![a] = "gc"] /\ Streaming
          /\ \A k \in Attempts : open'[k] => open[k]
          /\ UNCHANGED <<conn, gerr, sub, subCh, got, created>>
          /\ subCh[a] = "nil" /\ sub[a] = "done" /\ conn[a] \in Attempts /\ Holds(a)
      BY <2>10 DEF Store, ClientClose, Stages, Holds
    <3>1. \A k : InPool(k)' => InPool(k) \/ k = conn[a]
      <4>1. Len(pool) \in Nat
        BY DEF QueueTypes
      <4>2. /\ Len(Append(pool, conn[a])) = Len(pool) + 1
            /\ \A j \in 1 .. Len(pool) : Append(pool, conn[a])[j] = pool[j]
            /\ Append(pool, conn[a])[Len(pool) + 1] = conn[a]
        BY <3>0, AppendProperties DEF QueueTypes
      <4>3. pool' = pool \/ pool' = Append(pool, conn[a])
        BY <2>10 DEF Store
      <4>4. QED
        BY <4>1, <4>2, <4>3 DEF InPool
    <3>3. Started'
      BY <2>10 DEF Started, Store, ClientClose, callVars
    <3>4. Stages'
      BY <3>0, <3>1, <3>2 DEF Stages, Fresh
    <3>5. Holding'
      <4>1. ASSUME NEW x \in Attempts, NEW y \in Attempts, Holds(x)', Holds(y)',
                   conn'[x] = conn'[y]
            PROVE  x = y
        BY <4>1, <3>0, <3>1 DEF Holding, Holds, Stages
      <4>2. ASSUME NEW x \in Attempts, Holds(x)' PROVE ~InPool(conn[x])'
        BY <4>2, <3>0, <3>1 DEF Holding, Holds, Stages
      <4>3. ASSUME NEW x \in Attempts, Busy(x)', ~Holds(x)'
            PROVE  /\ ~open'[conn'[x]] /\ ~InPool(conn[x])'
                   /\ \A y \in Attempts : Holds(y)' => conn'[y] # conn'[x]
        BY <4>3, <3>0, <3>1 DEF Holding, Holds, Busy, Stages
      <4>4. QED
        BY <4>1, <4>2, <4>3 DEF Holding
    <3>6. PoolDistinct'
      <4>1. Len(pool) \in Nat /\ ~InPool(conn[a])
        BY <3>0 DEF QueueTypes, Holding
      <4>2. /\ Len(Append(pool, conn[a])) = Len(pool) + 1
            /\ \A j \in 1 .. Len(pool) : Append(pool, conn[a])[j] = pool[j]
            /\ Append(pool, conn[a])[Len(pool) + 1] = conn[a]
        BY <3>0, AppendProperties DEF QueueTypes
      <4>3. pool' = pool \/ pool' = Append(pool, conn[a])
        BY <2>10 DEF Store
      <4>4. CASE pool' = pool
        BY <4>4 DEF PoolDistinct
      <4>5. CASE pool' = Append(pool, conn[a])
        <5>1. ASSUME NEW i \in 1 .. Len(pool) + 1, NEW j \in 1 .. Len(pool) + 1,
                     i < j, pool'[i] = pool'[j]
              PROVE  FALSE
          <6>0. i \in 1 .. Len(pool)
            BY <4>1, <5>1
          <6>1. i \in 1 .. Len(pool) /\ pool'[i] = pool[i]
            BY <4>2, <4>5, <6>0
          <6>2. CASE j \in 1 .. Len(pool)
            <7>1. pool'[j] = pool[j]
              BY <4>2, <4>5, <6>2
            <7>2. i = j
              BY <5>1, <6>1, <6>2, <7>1 DEF PoolDistinct
            <7>3. QED
              BY <4>1, <5>1, <7>2
          <6>3. CASE j = Len(pool) + 1
            BY <4>1, <4>2, <4>5, <5>1, <6>1, <6>3 DEF InPool
          <6>4. QED
            BY <4>1, <6>2, <6>3
        <5>2. QED
          BY <4>1, <4>2, <4>5, <5>1 DEF PoolDistinct
      <4>6. QED
        BY <4>3, <4>4, <4>5
    <3>7. OnWire'
      BY <3>0, <3>1, <3>2 DEF OnWire, Holds
    <3>8. OwnResponse'
      BY <2>10 DEF OwnResponse, Store
    <3>9. QED
      BY <3>3, <3>4, <3>5, <3>6, <3>7, <3>8
  <2>11. ASSUME NEW a \in Attempts, GcPut(a) PROVE ConnInv'
    <3>1. \A k : InPool(k)' <=> InPool(k)
      BY <2>11, PoolFrame DEF GcPut, poolVars
    <3>2. \A k : (Quiet(k)' <=> Quiet(k)) /\ \A x : Asked(k, x)' <=> Asked(k, x)
      BY <2>11, WireFrame DEF GcPut
    <3>3. Started'
      BY <2>11 DEF Started, GcPut, callVars
    <3>4. Stages'
      BY <2>11, <3>1, <3>2 DEF Stages, Fresh, GcPut
    <3>5. Holding'
      BY <2>11, <3>1, <3>2 DEF Stages, Fresh, Holding, Holds, Busy, GcPut
    <3>6. PoolDistinct'
      BY <2>11 DEF PoolDistinct, GcPut
    <3>7. OnWire'
      BY <2>11, <3>1, <3>2 DEF Stages, Fresh, OnWire, Holds, GcPut
    <3>8. OwnResponse'
      BY <2>11 DEF OwnResponse, GcPut
    <3>9. QED
      BY <3>3, <3>4, <3>5, <3>6, <3>7, <3>8
  <2>12. ASSUME NEW a \in Attempts, Deliver(a) PROVE ConnInv'
    <3>1. \A k : InPool(k)' <=> InPool(k)
      BY <2>12, PoolFrame DEF Deliver, poolVars
    <3>2. \A k : (Quiet(k)' <=> Quiet(k)) /\ \A x : Asked(k, x)' <=> Asked(k, x)
      BY <2>12, WireFrame DEF Deliver
    <3>3. Started'
      BY <2>12 DEF Started, Deliver, callVars
    <3>4. Stages'
      BY <2>12, <3>1, <3>2 DEF Stages, Fresh, Deliver
    <3>5. Holding'
      BY <2>12, <3>1, <3>2 DEF Stages, Fresh, Holding, Holds, Busy, Deliver
    <3>6. PoolDistinct'
      BY <2>12 DEF PoolDistinct, Deliver
    <3>7. OnWire'
      BY <2>12, <3>1, <3>2 DEF Stages, Fresh, OnWire, Holds, Deliver
    <3>8. OwnResponse'
      BY <2>12 DEF OwnResponse, Deliver
    <3>9. QED
      BY <3>3, <3>4, <3>5, <3>6, <3>7, <3>8
  <2>13. ASSUME NEW a \in Attempts, SubFail(a) PROVE ConnInv'
    <3>1. \A k : InPool(k)' <=> InPool(k)
      BY <2>13, PoolFrame DEF SubFail, poolVars
    <3>2. \A k : (Quiet(k)' <=> Quiet(k)) /\ \A x : Asked(k, x)' <=> Asked(k, x)
      BY <2>13, WireFrame DEF SubFail
    <3>3. Started'
      BY <2>13 DEF Started, SubFail, SubEnd, callVars
    <3>4. Stages'
      BY <2>13, <3>1, <3>2 DEF Stages, Fresh, SubFail, SubEnd
    <3>5. Holding'
      BY <2>13, <3>1, <3>2 DEF Stages, Fresh, Holding, Holds, Busy, SubFail, SubEnd
    <3>6. PoolDistinct'
      BY <2>13 DEF PoolDistinct, SubFail
    <3>7. OnWire'
      BY <2>13, <3>1, <3>2 DEF Stages, Fresh, OnWire, Holds, SubFail, SubEnd
    <3>8. OwnResponse'
      BY <2>13 DEF OwnResponse, SubFail
    <3>9. QED
      BY <3>3, <3>4, <3>5, <3>6, <3>7, <3>8
  <2>14. ASSUME NEW a \in Attempts, Send(a) PROVE ConnInv'
    <3>1. \A k : InPool(k)' <=> InPool(k)
      BY <2>14, PoolFrame DEF Send, poolVars
    <3>0. Holds(a) /\ conn[a] \in Attempts /\ ~InPool(conn[a]) /\ ~Fresh(conn[a])
      BY <2>14 DEF Send, Holding, Busy, Stages
    <3>0a. /\ \A k \in Attempts \ {conn[a]} :
                (Quiet(k)' <=> Quiet(k)) /\ \A x : Asked(k, x)' <=> Asked(k, x)
           /\ Asked(conn[a], Owner(a))'
      <4>1. Quiet(conn[a])
        BY <2>14, <3>0 DEF Send, OnWire
      <4>2. Append(<<>>, Owner(a)) = <<Owner(a)>>
        OBVIOUS
      <4>3. QED
        BY <2>14, <3>0, <4>1, <4>2 DEF Send, Quiet, Asked, QueueTypes
    <3>3. Started'
      BY <2>14 DEF Started, Send, callVars
    <3>4. Stages'
      BY <2>14, <3>0, <3>0a, <3>1 DEF Stages, Fresh, Send
    <3>5. Holding'
      BY <2>14, <3>1, <3>0, <3>0a DEF Stages, Fresh, Holding, Holds, Busy, Send
    <3>6. PoolDistinct'
      BY <2>14 DEF PoolDistinct, Send
    <3>7. OnWire'
      BY <2>14, <3>0, <3>0a, <3>1 DEF Holding, OnWire, Holds, Send, Stages
    <3>8. OwnResponse'
      BY <2>14 DEF OwnResponse, Send
    <3>9. QED
      BY <3>3, <3>4, <3>5, <3>6, <3>7, <3>8
  <2>15. ASSUME NEW a \in Attempts, RecvHeader(a) PROVE ConnInv'
    <3>1. \A k : InPool(k)' <=> InPool(k)
      BY <2>15, PoolFrame DEF RecvHeader, poolVars
    <3>0. Holds(a) /\ conn[a] \in Attempts /\ ~InPool(conn[a]) /\ ~Fresh(conn[a])
      BY <2>15 DEF RecvHeader, Holding, Busy, Stages
    <3>0a. /\ \A k \in Attempts \ {conn[a]} :
                (Quiet(k)' <=> Quiet(k)) /\ \A x : Asked(k, x)' <=> Asked(k, x)
           /\ Quiet(conn[a])'
           /\ Head(rsps[conn[a]]).to = Owner(a)
      <4>1. Asked(conn[a], Owner(a)) /\ rsps[conn[a]] # <<>>
        BY <2>15, <3>0 DEF RecvHeader, OnWire
      <4>2. PICK err \in BOOLEAN : /\ reqs[conn[a]] = <<>>
                                   /\ rsps[conn[a]] = <<[to |-> Owner(a), err |-> err]>>
        BY <4>1 DEF Asked
      <4>3. Tail(rsps[conn[a]]) = <<>> /\ Head(rsps[conn[a]]).to = Owner(a)
        BY <4>2
      <4>4. QED
        BY <2>15, <3>0, <4>2, <4>3 DEF RecvHeader, Quiet, Asked, QueueTypes
    <3>0b. /\ UNCHANGED <<att, conn, gerr, open, created>> /\ sub[a] = "recv"
           /\ \/ sub' = [sub EXCEPT ![a] = "done"] /\ subCh' = [subCh EXCEPT ![a] = "err"]
                 /\ got' = got
              \/ sub' = [sub EXCEPT ![a] = "decode"] /\ subCh' = subCh
                 /\ got' = [got EXCEPT ![a] = Owner(a)]
      BY <2>15, <3>0a DEF RecvHeader, SubEnd
    <3>3. Started'
      BY <2>15 DEF Started, RecvHeader, SubEnd, callVars
    <3>4. Stages'
      BY <3>0, <3>0a, <3>0b, <3>1 DEF Stages, Fresh
    <3>5. Holding'
      BY <2>15, <3>1, <3>0, <3>0a DEF Stages, Fresh, Holding, Holds, Busy, RecvHeader, SubEnd
    <3>6. PoolDistinct'
      BY <2>15 DEF PoolDistinct, RecvHeader
    <3>7. OnWire'
      BY <3>0, <3>0a, <3>0b, <3>1 DEF Holding, OnWire, Holds, Stages
    <3>8. OwnResponse'
      BY <2>15 DEF OwnResponse, RecvHeader
    <3>9. QED
      BY <3>3, <3>4, <3>5, <3>6, <3>7, <3>8
  <2>16. ASSUME NEW a \in Attempts, RecvBody(a) PROVE ConnInv'
    <3>1. \A k : InPool(k)' <=> InPool(k)
      BY <2>16, PoolFrame DEF RecvBody, poolVars
    <3>2. \A k : (Quiet(k)' <=> Quiet(k)) /\ \A x : Asked(k, x)' <=> Asked(k, x)
      BY <2>16, WireFrame DEF RecvBody
    <3>0. Holds(a) => Quiet(conn[a])
      BY <2>16 DEF OnWire, RecvBody
    <3>0a. \A x \in Attempts : Holds(x)' <=> Holds(x)
      BY <2>16 DEF RecvBody, Holds
    <3>3. Started'
      BY <2>16 DEF Started, RecvBody, SubEnd, callVars
    <3>4. Stages'
      BY <2>16, <3>1, <3>2, <3>0, <3>0a DEF Stages, Fresh, RecvBody, SubEnd
    <3>5. Holding'
      BY <2>16, <3>1, <3>2, <3>0, <3>0a DEF Stages, Fresh, Holding, Holds, Busy, RecvBody, SubEnd
    <3>6. PoolDistinct'
      BY <2>16 DEF PoolDistinct, RecvBody
    <3>7. OnWire'
      <4>1. ASSUME NEW k \in Attempts, InPool(k)' PROVE Quiet(k)'
        BY <4>1, <2>16, <3>0, <3>0a, <3>1, <3>2 DEF OnWire, RecvBody, SubEnd, Stages
      <4>2. ASSUME NEW x \in Attempts, Holds(x)'
            PROVE  /\ sub'[x] \in {"send", "decode"} => Quiet(conn'[x])
                   /\ subCh'[x] = "nil" => Quiet(conn'[x])
                   /\ sub'[x] = "recv" => Asked(conn'[x], Owner(x))
        <5>1. CASE x # a
          BY <4>2, <5>1, <2>16, <3>0, <3>0a, <3>1, <3>2 DEF OnWire, RecvBody, SubEnd, Stages
        <5>2. CASE x = a
          BY <4>2, <5>2, <2>16, <3>0, <3>0a, <3>1, <3>2 DEF OnWire, RecvBody, SubEnd, Stages
        <5>3. QED
          BY <5>1, <5>2
      <4>3. QED
        BY <4>1, <4>2, <3>2 DEF OnWire
    <3>8. OwnResponse'
      BY <2>16 DEF OwnResponse, RecvBody, Stages, CallTypes
    <3>9. QED
      BY <3>3, <3>4, <3>5, <3>6, <3>7, <3>8
  <2>17. ASSUME NEW a \in Attempts, Provide(a) PROVE ConnInv'
    <3>1. \A k : InPool(k)' <=> InPool(k)
      BY <2>17, PoolFrame DEF Provide, poolVars
    <3>0. /\ \A k \in Attempts \ {a} :
               (Quiet(k)' <=> Quiet(k)) /\ \A x : Asked(k, x)' <=> Asked(k, x)
          /\ ~Quiet(a)
          /\ \A x : Asked(a, x) => Asked(a, x)'
      <4>1. \A k \in Attempts \ {a} :
               (Quiet(k)' <=> Quiet(k)) /\ \A x : Asked(k, x)' <=> Asked(k, x)
        BY <2>17 DEF Provide, Quiet, Asked, QueueTypes
      <4>2. ASSUME NEW x, Asked(a, x) PROVE Asked(a, x)'
        <5>1. reqs[a] = <<x>> /\ rsps[a] = <<>>
          BY <2>17, <4>2 DEF Provide, Asked
        <5>2. PICK err \in BOOLEAN :
                rsps' = [rsps EXCEPT ![a] = Append(@, [to |-> Head(reqs[a]), err |-> err])]
          BY <2>17 DEF Provide
        <5>3. Head(<<x>>) = x /\ Tail(<<x>>) = <<>>
          OBVIOUS
        <5>4. Append(<<>>, [to |-> x, err |-> err]) = <<[to |-> x, err |-> err]>>
          OBVIOUS
        <5>5. rsps'[a] = <<[to |-> x, err |-> err]>>
          BY <5>1, <5>2, <5>3, <5>4 DEF QueueTypes
        <5>6. reqs'[a] = <<>>
          BY <2>17, <5>1, <5>3 DEF Provide, QueueTypes
        <5>7. QED
          BY <5>5, <5>6 DEF Asked
      <4>3. QED
        BY <2>17, <4>1, <4>2 DEF Provide, Quiet
    <3>3. Started'
      BY <2>17 DEF Started, Provide, callVars
    <3>4. Stages'
      BY <2>17, <3>0, <3>1 DEF Stages, Fresh, Provide
    <3>5. Holding'
      BY <2>17, <3>1, <3>0 DEF Stages, Fresh, Holding, Holds, Busy, Provide
    <3>6. PoolDistinct'
      BY <2>17 DEF PoolDistinct, Provide
    <3>7. OnWire'
      BY <2>17, <3>0, <3>1 DEF OnWire, Holds, Provide
    <3>8. OwnResponse'
      BY <2>17 DEF OwnResponse, Provide
    <3>9. QED
      BY <3>3, <3>4, <3>5, <3>6, <3>7, <3>8
  <2>18. ASSUME NEW a \in Attempts, Age(a) PROVE ConnInv'
    <3>1. \A k : InPool(k)' <=> InPool(k)
      BY <2>18, PoolFrame DEF Age, poolVars
    <3>2. \A k : (Quiet(k)' <=> Quiet(k)) /\ \A x : Asked(k, x)' <=> Asked(k, x)
      BY <2>18, WireFrame DEF Age
    <3>3. Started'
      BY <2>18 DEF Started, Age, callVars
    <3>4. Stages'
      BY <2>18, <3>1, <3>2 DEF Stages, Fresh, Age
    <3>5. Holding'
      BY <2>18, <3>1, <3>2 DEF Stages, Fresh, Holding, Holds, Busy, Age
    <3>6. PoolDistinct'
      BY <2>18 DEF PoolDistinct, Age
    <3>7. OnWire'
      BY <2>18, <3>1, <3>2 DEF Stages, Fresh, OnWire, Holds, Age
    <3>8. OwnResponse'
      BY <2>18 DEF OwnResponse, Age
    <3>9. QED
      BY <3>3, <3>4, <3>5, <3>6, <3>7, <3>8
  <2>19. ASSUME GcTake PROVE ConnInv'
    <3>1. \A k : InPool(k)' <=> InPool(k)
      BY <2>19, PoolFrame DEF GcTake, poolVars
    <3>2. \A k : (Quiet(k)' <=> Quiet(k)) /\ \A x : Asked(k, x)' <=> Asked(k, x)
      BY <2>19, WireFrame DEF GcTake
    <3>3. Started'
      BY <2>19 DEF Started, GcTake, callVars
    <3>4. Stages'
      BY <2>19, <3>1, <3>2 DEF Stages, Fresh, GcTake
    <3>5. Holding'
      BY <2>19, <3>1, <3>2 DEF Stages, Fresh, Holding, Holds, Busy, GcTake
    <3>6. PoolDistinct'
      BY <2>19 DEF PoolDistinct, GcTake
    <3>7. OnWire'
      BY <2>19, <3>1, <3>2 DEF Stages, Fresh, OnWire, Holds, GcTake
    <3>8. OwnResponse'
      BY <2>19 DEF OwnResponse, GcTake
    <3>9. QED
      BY <3>3, <3>4, <3>5, <3>6, <3>7, <3>8
  <2>20. ASSUME GcClose PROVE ConnInv'
    <3>1. \A k : InPool(k)' <=> InPool(k)
      BY <2>20, PoolFrame DEF GcClose, poolVars
    <3>2. \A k : (Quiet(k)' <=> Quiet(k)) /\ \A x : Asked(k, x)' <=> Asked(k, x)
      BY <2>20, WireFrame DEF GcClose
    <3>0. /\ \A k \in Attempts : open'[k] => open[k]
          /\ \A k \in Attempts : created'[k] = "zero" => ~open'[k]
      BY <2>20, CloseFacts DEF GcClose
    <3>3. Started'
      BY <2>20 DEF Started, GcClose, PoolConnClose, ClientClose, callVars
    <3>4. Stages'
      BY <2>20, <3>0, <3>1, <3>2 DEF Stages, Fresh, GcClose
    <3>5. Holding'
      <4>1. ASSUME NEW x \in Attempts, NEW y \in Attempts, Holds(x)', Holds(y)',
                   conn'[x] = conn'[y]
            PROVE  x = y
        BY <4>1, <2>20, <3>0, <3>1 DEF Holding, Holds, GcClose
      <4>2. ASSUME NEW x \in Attempts, Holds(x)' PROVE ~InPool(conn[x])'
        BY <4>2, <2>20, <3>0, <3>1 DEF Holding, Holds, GcClose
      <4>3. ASSUME NEW x \in Attempts, Busy(x)', ~Holds(x)'
            PROVE  /\ ~open'[conn'[x]] /\ ~InPool(conn[x])'
                   /\ \A y \in Attempts : Holds(y)' => conn'[y] # conn'[x]
        BY <4>3, <2>20, <3>0, <3>1 DEF Holding, Holds, Busy, GcClose
      <4>4. QED
        BY <4>1, <4>2, <4>3 DEF Holding
    <3>6. PoolDistinct'
      BY <2>20 DEF PoolDistinct, GcClose
    <3>7. OnWire'
      BY <2>20, <3>1, <3>2, <3>0 DEF Stages, Fresh, OnWire, Holds, GcClose, PoolConnClose, ClientClose
    <3>8. OwnResponse'
      BY <2>20 DEF OwnResponse, GcClose
    <3>9. QED
      BY <3>3, <3>4, <3>5, <3>6, <3>7, <3>8
  <2>21. ASSUME GcExit PROVE ConnInv'
    <3>1. \A k : InPool(k)' <=> InPool(k)
      BY <2>21, PoolFrame DEF GcExit, poolVars
    <3>2. \A k : (Quiet(k)' <=> Quiet(k)) /\ \A x : Asked(k, x)' <=> Asked(k, x)
      BY <2>21, WireFrame DEF GcExit
    <3>3. Started'
      BY <2>21 DEF Started, GcExit, callVars
    <3>4. Stages'
      BY <2>21, <3>1, <3>2 DEF Stages, Fresh, GcExit
    <3>5. Holding'
      BY <2>21, <3>1, <3>2 DEF Stages, Fresh, Holding, Holds, Busy, GcExit
    <3>6. PoolDistinct'
      BY <2>21 DEF PoolDistinct, GcExit
    <3>7. OnWire'
      BY <2>21, <3>1, <3>2 DEF Stages, Fresh, OnWire, Holds, GcExit
    <3>8. OwnResponse'
      BY <2>21 DEF OwnResponse, GcExit
    <3>9. QED
      BY <3>3, <3>4, <3>5, <3>6, <3>7, <3>8
  <2>22. ASSUME Close PROVE ConnInv'
    <3>1. \A k : InPool(k)' <=> InPool(k)
      BY <2>22, PoolFrame DEF Close, poolVars
    <3>2. \A k : (Quiet(k)' <=> Quiet(k)) /\ \A x : Asked(k, x)' <=> Asked(k, x)
      BY <2>22, WireFrame DEF Close
    <3>3. Started'
      BY <2>22 DEF Started, Close, callVars
    <3>4. Stages'
      BY <2>22, <3>1, <3>2 DEF Stages, Fresh, Close
    <3>5. Holding'
      BY <2>22, <3>1, <3>2 DEF Stages, Fresh, Holding, Holds, Busy, Close
    <3>6. PoolDistinct'
      BY <2>22 DEF PoolDistinct, Close
    <3>7. OnWire'
      BY <2>22, <3>1, <3>2 DEF Stages, Fresh, OnWire, Holds, Close
    <3>8. OwnResponse'
      BY <2>22 DEF OwnResponse, Close
    <3>9. QED
      BY <3>3, <3>4, <3>5, <3>6, <3>7, <3>8
  <2>23. ASSUME UNCHANGED vars PROVE ConnInv'
    <3>1. \A k : InPool(k)' <=> InPool(k)
      BY <2>23, PoolFrame DEF vars
    <3>2. \A k : (Quiet(k)' <=> Quiet(k)) /\ \A x : Asked(k, x)' <=> Asked(k, x)
      BY <2>23, WireFrame DEF vars, wireVars
    <3>3. Started' /\ PoolDistinct' /\ OwnResponse'
      BY <2>23 DEF vars, Started, PoolDistinct, OwnResponse
    <3>4. Stages'
      BY <2>23, <3>1, <3>2 DEF vars, Stages, Fresh
    <3>5. Holding'
      BY <2>23, <3>1, <3>2 DEF vars, Holding, Holds, Busy
    <3>6. OnWire'
      BY <2>23, <3>1, <3>2 DEF vars, OnWire, Holds
    <3>7. QED
      BY <3>3, <3>4, <3>5, <3>6
  <2>24. QED
    BY <2>1, <2>2, <2>3, <2>4, <2>5, <2>6, <2>7, <2>8, <2>9, <2>10, <2>11, <2>12,
       <2>13, <2>14, <2>15, <2>16, <2>17, <2>18, <2>19, <2>20, <2>21, <2>22, <2>23
       DEF Next, CallStep, AttemptStep, SubStep, GcStep
<1>3. QED
  BY <1>1, <1>2, TypeCorrect, PTL DEF Spec

\* rpcStream.Recv compares no sequence numbers; nevertheless the response
\* object of a Call never holds the answer to another Call's request.
THEOREM ResponseIsOwn == Spec => []OwnResponse
BY ConnInvariant, PTL DEF ConnInv

\* pool.release: what lies in the pool has no exchange going on.
THEOREM PoolIsQuiet == Spec => []PooledQuiet
<1>1. ConnInv => PooledQuiet
  BY DEF ConnInv, OnWire, Quiet, PooledQuiet
<1>2. QED
  BY <1>1, ConnInvariant, PTL

\* call, pool.getConn, pool.release: no two goroutines share an open
\* connection, and none uses a connection that lies in the pool.
THEOREM ConnectionIsExclusive == Spec => []ConnExclusive
<1>1. ConnInv => ConnExclusive
  <2> SUFFICES ASSUME ConnInv, NEW a \in Attempts, NEW b \in Attempts
               PROVE  /\ Busy(a) /\ Busy(b) /\ a # b /\ conn[a] = conn[b] => ~open[conn[a]]
                      /\ Busy(a) => ~InPool(conn[a])
    BY DEF ConnExclusive
  <2>1. Busy(a) => ~InPool(conn[a])
    BY DEF ConnInv, Holding
  <2>2. ASSUME Busy(a), Busy(b), a # b, conn[a] = conn[b] PROVE ~open[conn[a]]
    BY <2>2 DEF ConnInv, Holding
  <2>3. QED
    BY <2>1, <2>2
<1>2. QED
  BY <1>1, ConnInvariant, PTL
=============================================================================
