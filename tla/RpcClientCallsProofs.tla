------------------------- MODULE RpcClientCallsProofs -------------------------
(***************************************************************************)
(* Further proofs about RpcClient, for every number of Calls and Retries,  *)
(* every pool size and both transports: what rpcClient.Call gives its      *)
(* caller.  An attempt that gives up at the deadline leaves its goroutine  *)
(* behind, with the caller's response object in its hands; the invariant   *)
(* CallInv says when such a goroutine may exist at all, and what is known  *)
(* of the answer at every stage it passes on its way back to Call.         *)
(***************************************************************************)
EXTENDS RpcClientProofs

\* The attempt is under way, and the attempt is past its select.
Moving == {"get", "dial", "run", "release", "store", "gc", "deliver"}
Ending == {"release", "store", "gc", "deliver"}
Live(a) == att[a] \in Moving

\* Attempts take turns: one is under way only while it is the loop's current
\* one and nothing waits in the channel of Call, and once Call has returned
\* only if the context is done.
TurnInv ==
  /\ \A a \in Attempts : Live(a) =>
       /\ Index(a) = cur[Owner(a)]
       /\ callCh[Owner(a)] = <<>>
       /\ pc[Owner(a)] = "done" => ctxDone[Owner(a)]
  /\ \A c \in Calls : callCh[c] \in {<<>>, <<"nil">>, <<"err">>}
  /\ \A c \in Calls : pc[c] = "idle" => callCh[c] = <<>>

\* Goroutines are only abandoned at the deadline, and an attempt that reports
\* no error has had a good outcome from its goroutine.
LeaveInv ==
  \A a \in Attempts :
    /\ Busy(a) /\ att[a] # "run" => ctxDone[Owner(a)]
    /\ att[a] \in Ending /\ gerr[a] = "nil" => subCh[a] = "nil"

\* Wherever a good answer is on its way, the provider has given it; and only
\* Calls that have begun are asked about.
AnswerInv ==
  /\ \A a \in Attempts : sub[a] = "decode" \/ subCh[a] = "nil" => Owner(a) \in answered
  /\ \A c \in Calls : callCh[c] = <<"nil">> => c \in answered
  /\ \A k \in Attempts : \A i \in 1 .. Len(rsps[k]) :
       ~rsps[k][i].err => rsps[k][i].to \in answered
  /\ \A k \in Attempts : \A i \in 1 .. Len(reqs[k]) : pc[reqs[k][i]] # "idle"

\* Until the deadline a good outcome means that the response object is filled,
\* and a Call that returned in time has left nothing behind.
FillInv ==
  /\ \A a \in Attempts : Live(a) /\ subCh[a] = "nil" /\ ~ctxDone[Owner(a)] =>
       rsp[Owner(a)] = Owner(a)
  /\ \A c \in Calls : callCh[c] = <<"nil">> /\ ~ctxDone[c] => rsp[c] = c
  /\ \A a \in Attempts : pc[Owner(a)] = "done" /\ inTime[Owner(a)] => ~Busy(a) /\ ~Live(a)

CallInv == TurnInv /\ LeaveInv /\ AnswerInv

-----------------------------------------------------------------------------
\* What the steps of an attempt that do not report to Call change.
LEMMA AttemptMoves ==
  ASSUME NEW a \in Attempts,
         \/ NextFail(a) \/ GetConn(a) \/ Dial(a) \/ AttemptSelect(a)
         \/ Release(a) \/ Store(a) \/ GcPut(a)
  PROVE  /\ UNCHANGED <<callVars, ctxDone, rsp, answered, subCh, got, wireVars>>
         /\ Live(a)
         /\ \E s \in Moving : att' = [att EXCEPT ![a] = s]
<1>1. CASE NextFail(a)
  BY <1>1 DEF NextFail, Live, Moving, callVars, subVars, wireVars
<1>2. CASE GetConn(a)
  BY <1>2 DEF GetConn, Connected, Live, Moving, callVars, subVars, wireVars
<1>3. CASE Dial(a)
  BY <1>3 DEF Dial, Connected, Live, Moving, callVars, subVars, wireVars
<1>4. CASE AttemptSelect(a)
  BY <1>4 DEF AttemptSelect, Live, Moving, callVars, subVars, wireVars
<1>5. CASE Release(a)
  BY <1>5 DEF Release, Live, Moving, callVars, subVars, wireVars
<1>6. CASE Store(a)
  BY <1>6 DEF Store, Live, Moving, callVars, subVars, wireVars
<1>7. CASE GcPut(a)
  BY <1>7 DEF GcPut, Live, Moving, callVars, subVars, wireVars
<1>8. QED
  BY <1>1, <1>2, <1>3, <1>4, <1>5, <1>6, <1>7

\* The steps that leave Call, its attempts and their outcomes alone.
LEMMA OthersRest ==
  ASSUME \/ \E a \in Attempts : SubStep(a) \/ Provide(a) \/ Age(a)
         \/ GcStep \/ Close \/ UNCHANGED vars
  PROVE  UNCHANGED <<callVars, ctxDone, attVars>>
BY DEF SubStep, SubFail, Send, RecvHeader, RecvBody, Provide, Age, GcStep, GcTake,
       GcClose, GcExit, Close, vars, callVars, attVars

\* An attempt without a connection has not started its goroutine.
LEMMA FreshFacts ==
  ASSUME TypeOK, ConnInv, NEW a \in Attempts, Fresh(a)
  PROVE  sub[a] = "none" /\ subCh[a] = "empty"
<1>1. sub[a] = "none"
  BY AttemptFacts DEF ConnInv, Stages, TypeOK, Connects
<1>2. subCh[a] = "empty"
  BY <1>1 DEF ConnInv, Stages
<1>3. QED
  BY <1>1, <1>2

\* The next attempt of a Call, and every attempt of one that has not begun, has
\* not been started.
LEMMA NotStarted ==
  ASSUME TypeOK, ConnInv, NEW a \in Attempts,
         Index(a) > cur[Owner(a)] \/ pc[Owner(a)] = "idle"
  PROVE  att[a] = "none"
<1>1. Index(a) \in Nat /\ Index(a) > 0 /\ cur[Owner(a)] \in Nat /\ Owner(a) \in Calls
  BY IndexFacts, AttemptFacts DEF TypeOK, CountTypes
<1>2. QED
  BY <1>1 DEF ConnInv, Started

\* The outcome of an attempt waits in the channel of Call when no attempt of the
\* Call is under way.
LEMMA ReceiveFacts ==
  ASSUME TypeOK, TurnInv, NEW c \in Calls, CallReceive(c)
  PROVE  /\ callCh'[c] = <<>> /\ \A d \in Calls : d # c => callCh'[d] = callCh[d]
         /\ \A a \in Attempts : Owner(a) = c => ~Live(a)
         /\ Head(callCh[c]) = "nil" => callCh[c] = <<"nil">>
<1>1. callCh[c] \in Seq(Outcome) /\ callCh[c] # <<>> /\ Len(callCh[c]) = 1
  BY DEF CallReceive, TurnInv, TypeOK, QueueTypes
<1>2. Tail(callCh[c]) \in Seq(Outcome) /\ Len(Tail(callCh[c])) = 0
  BY <1>1, HeadTailProperties
<1>3. Tail(callCh[c]) = <<>>
  BY <1>2, EmptySeq
<1>4. callCh'[c] = <<>> /\ \A d \in Calls : d # c => callCh'[d] = callCh[d]
  BY <1>3 DEF CallReceive, TypeOK, QueueTypes
<1>5. \A a \in Attempts : Owner(a) = c => ~Live(a)
  BY <1>1 DEF TurnInv
<1>6. Head(<<"err">>) = "err"
  OBVIOUS
<1>7. QED
  BY <1>1, <1>4, <1>5, <1>6 DEF TurnInv

-----------------------------------------------------------------------------
\* Attempts take turns.
LEMMA TurnKept ==
  ASSUME TypeOK, ConnInv, TurnInv, [Next]_vars
  PROVE  TurnInv'
<1> USE AttemptFacts
<1>1. ASSUME NEW c \in Calls, CallStart(c) PROVE TurnInv'
  <2>1. \A a \in Attempts : Owner(a) = c => att[a] = "none"
    BY <1>1, NotStarted DEF CallStart
  <2>2. UNCHANGED <<callCh, ctxDone>> /\ pc[c] = "idle"
    BY <1>1 DEF CallStart
  <2>3. ASSUME UNCHANGED <<cur, att>>, pc' = [pc EXCEPT ![c] = "done"] PROVE TurnInv'
    BY <2>1, <2>2, <2>3 DEF TurnInv, Live, Moving, TypeOK, CallTypes
  <2>4. ASSUME Retries # 0, pc' = [pc EXCEPT ![c] = "wait"], StartAttempt(c, 1)
        PROVE  TurnInv'
    <3>1. <<c, 1>> \in Attempts /\ Owner(<<c, 1>>) = c /\ Index(<<c, 1>>) = 1
      BY <2>4, IndexFacts
    <3>2. \A a \in Attempts : a # <<c, 1>> => att'[a] = att[a]
      BY <2>4, <3>1 DEF StartAttempt, TypeOK, AttemptTypes
    <3>3. cur'[c] = 1 /\ \A d \in Calls : d # c => cur'[d] = cur[d]
      BY <2>4 DEF StartAttempt, TypeOK, CountTypes
    <3>4. \A d \in Calls : pc'[d] = IF d = c THEN "wait" ELSE pc[d]
      BY <2>4 DEF TypeOK, CallTypes
    <3>5. ASSUME NEW a \in Attempts, Live(a)'
          PROVE  /\ Index(a) = cur'[Owner(a)] /\ callCh'[Owner(a)] = <<>>
                 /\ pc'[Owner(a)] = "done" => ctxDone'[Owner(a)]
      BY <2>1, <2>2, <3>1, <3>2, <3>3, <3>4, <3>5 DEF TurnInv, Live, Moving
    <3>6. QED
      BY <2>2, <3>4, <3>5 DEF TurnInv
  <2>5. QED
    BY <1>1, <2>3, <2>4 DEF CallStart, Return
<1>2. ASSUME NEW c \in Calls, CallTimeout(c) PROVE TurnInv'
  BY <1>2 DEF CallTimeout, Return, attVars, TurnInv, Live, TypeOK, CallTypes
<1>3. ASSUME NEW c \in Calls, CallReceive(c) PROVE TurnInv'
  <2>1. \A a \in Attempts : Owner(a) = c => ~Live(a)
    BY <1>3, ReceiveFacts
  <2>2. /\ callCh'[c] = <<>> /\ \A d \in Calls : d # c => callCh'[d] = callCh[d]
        /\ UNCHANGED ctxDone /\ pc[c] = "wait"
    BY <1>3, ReceiveFacts DEF CallReceive
  <2>3. ASSUME UNCHANGED <<cur, att>>, pc' = [pc EXCEPT ![c] = "done"] PROVE TurnInv'
    BY <2>1, <2>2, <2>3 DEF TurnInv, Live, TypeOK, CallTypes
  <2>4. ASSUME cur[c] < Retries, pc' = pc, StartAttempt(c, cur[c] + 1)
        PROVE  TurnInv'
    <3> DEFINE n == cur[c] + 1
    <3>1. n \in 1 .. Retries
      BY <2>4, IndexFacts DEF TypeOK, CountTypes
    <3> HIDE DEF n
    <3>1a. <<c, n>> \in Attempts /\ Owner(<<c, n>>) = c /\ Index(<<c, n>>) = n
      BY <3>1, IndexFacts
    <3>2. \A a \in Attempts : a # <<c, n>> => att'[a] = att[a]
      BY <2>4, <3>1a DEF StartAttempt, TypeOK, AttemptTypes, n
    <3>3. cur'[c] = n /\ \A d \in Calls : d # c => cur'[d] = cur[d]
      BY <2>4 DEF StartAttempt, TypeOK, CountTypes, n
    <3>5. ASSUME NEW a \in Attempts, Live(a)'
          PROVE  /\ Index(a) = cur'[Owner(a)] /\ callCh'[Owner(a)] = <<>>
                 /\ pc'[Owner(a)] = "done" => ctxDone'[Owner(a)]
      BY <2>1, <2>2, <2>4, <3>1a, <3>2, <3>3, <3>5 DEF TurnInv, Live
    <3>6. QED
      BY <2>2, <2>4, <3>5 DEF TurnInv
  <2>5. QED
    BY <1>3, <2>3, <2>4 DEF CallReceive, Return
<1>4. ASSUME NEW c \in Calls, CtxExpire(c) PROVE TurnInv'
  BY <1>4 DEF CtxExpire, callVars, attVars, TurnInv, Live, TypeOK, FlagTypes
<1>5. ASSUME NEW a \in Attempts, Deliver(a) PROVE TurnInv'
  <2>1. callCh[Owner(a)] = <<>> /\ Index(a) = cur[Owner(a)] /\ gerr[a] \in {"nil", "err"}
    BY <1>5 DEF Deliver, TurnInv, Live, Moving, TypeOK, AttemptTypes, Outcome
  <2>2. /\ callCh'[Owner(a)] \in {<<"nil">>, <<"err">>}
        /\ \A d \in Calls : d # Owner(a) => callCh'[d] = callCh[d]
    BY <1>5, <2>1 DEF Deliver, TypeOK, QueueTypes
  <2>3. \A b \in Attempts : Live(b)' => Live(b) /\ b # a
    BY <1>5 DEF Deliver, Live, Moving, TypeOK, AttemptTypes
  <2>4. \A b \in Attempts : Live(b) /\ Owner(b) = Owner(a) => b = a
    BY <2>1, IndexFacts DEF TurnInv
  <2>5. UNCHANGED <<pc, cur, ctxDone>> /\ pc[Owner(a)] # "idle"
    <3>1. UNCHANGED <<pc, cur, ctxDone>>
      BY <1>5 DEF Deliver
    <3>2. QED
      BY <1>5, <3>1, NotStarted DEF Deliver
  <2>6. QED
    BY <2>2, <2>3, <2>4, <2>5 DEF TurnInv
<1>6. ASSUME NEW a \in Attempts,
             \/ NextFail(a) \/ GetConn(a) \/ Dial(a) \/ AttemptSelect(a)
             \/ Release(a) \/ Store(a) \/ GcPut(a)
      PROVE  TurnInv'
  <2>1. \A b \in Attempts : Live(b)' <=> Live(b)
    BY <1>6, AttemptMoves DEF Live, TypeOK, AttemptTypes
  <2>2. UNCHANGED <<callVars, ctxDone>>
    BY <1>6, AttemptMoves
  <2>3. QED
    BY <2>1, <2>2 DEF TurnInv, callVars
<1>7. ASSUME UNCHANGED <<callVars, ctxDone, attVars>> PROVE TurnInv'
  BY <1>7 DEF callVars, attVars, TurnInv, Live
<1>8. QED
  BY <1>1, <1>2, <1>3, <1>4, <1>5, <1>6, <1>7, OthersRest
     DEF Next, CallStep, AttemptStep

-----------------------------------------------------------------------------
\* Goroutines are only abandoned at the deadline.
LEMMA LeaveKept ==
  ASSUME TypeOK, ConnInv, LeaveInv, [Next]_vars
  PROVE  LeaveInv'
<1> USE AttemptFacts
<1>1. ASSUME NEW c \in Calls, CallStart(c) PROVE LeaveInv'
  <2>1. \A a \in Attempts : Owner(a) = c => sub[a] = "none"
    BY <1>1, NotStarted, FreshFacts DEF CallStart, Fresh
  <2>2. \A a \in Attempts : att'[a] = att[a] \/ (Owner(a) = c /\ att'[a] = "get")
    <3>1. \/ UNCHANGED att
          \/ Retries # 0 /\ att' = [att EXCEPT ![<<c, 1>>] = "get"]
      BY <1>1 DEF CallStart, StartAttempt
    <3>2. Retries # 0 => <<c, 1>> \in Attempts /\ Owner(<<c, 1>>) = c
      BY IndexFacts
    <3>3. QED
      BY <3>1, <3>2 DEF TypeOK, AttemptTypes
  <2>3. UNCHANGED <<sub, subCh, gerr, ctxDone>>
    BY <1>1 DEF CallStart, subVars
  <2>4. QED
    BY <2>1, <2>2, <2>3 DEF LeaveInv, Busy, Ending
<1>2. ASSUME NEW c \in Calls, CallTimeout(c) PROVE LeaveInv'
  BY <1>2 DEF CallTimeout, attVars, subVars, LeaveInv, Busy
<1>3. ASSUME NEW c \in Calls, CallReceive(c) PROVE LeaveInv'
  <2>1. \A a \in Attempts : att'[a] = att[a] \/ (att'[a] = "get" /\ sub[a] = "none")
    <3>1. CASE UNCHANGED att
      BY <3>1
    <3>2. CASE cur[c] < Retries /\ StartAttempt(c, cur[c] + 1)
      <4> DEFINE n == cur[c] + 1
      <4>1. n \in 1 .. Retries /\ n > cur[c]
        BY <3>2, IndexFacts DEF TypeOK, CountTypes
      <4>2. att' = [att EXCEPT ![<<c, n>>] = "get"]
        BY <3>2 DEF StartAttempt
      <4> HIDE DEF n
      <4>3. <<c, n>> \in Attempts /\ Owner(<<c, n>>) = c /\ Index(<<c, n>>) = n
        BY <4>1, IndexFacts
      <4>4. sub[<<c, n>>] = "none"
        BY <4>1, <4>3, NotStarted, FreshFacts DEF Fresh
      <4>5. QED
        BY <4>2, <4>3, <4>4 DEF TypeOK, AttemptTypes
    <3>3. QED
      BY <1>3, <3>1, <3>2 DEF CallReceive
  <2>2. UNCHANGED <<sub, subCh, gerr, ctxDone>>
    BY <1>3 DEF CallReceive, subVars
  <2>3. QED
    BY <2>1, <2>2 DEF LeaveInv, Busy, Ending
<1>4. ASSUME NEW c \in Calls, CtxExpire(c) PROVE LeaveInv'
  BY <1>4 DEF CtxExpire, attVars, subVars, LeaveInv, Busy, TypeOK, FlagTypes
<1>5. ASSUME NEW a \in Attempts, NextFail(a) PROVE LeaveInv'
  <2>1. sub[a] = "none"
    BY <1>5, FreshFacts DEF NextFail, Fresh
  <2>2. QED
    BY <1>5, <2>1 DEF NextFail, subVars, LeaveInv, Busy, Ending, TypeOK, AttemptTypes
<1>6. ASSUME NEW a \in Attempts, GetConn(a) PROVE LeaveInv'
  <2>1. sub[a] = "none"
    BY <1>6, FreshFacts DEF GetConn, Fresh
  <2>2. \/ att' = [att EXCEPT ![a] = "dial"] /\ UNCHANGED sub
        \/ att' = [att EXCEPT ![a] = "run"] /\ sub' = [sub EXCEPT ![a] = "send"]
    BY <1>6 DEF GetConn, Connected
  <2>3. UNCHANGED <<subCh, gerr, ctxDone>>
    BY <1>6 DEF GetConn
  <2>4. QED
    BY <2>1, <2>2, <2>3 DEF LeaveInv, Busy, Ending, TypeOK, AttemptTypes
<1>7. ASSUME NEW a \in Attempts, Dial(a) PROVE LeaveInv'
  <2>1. sub[a] = "none"
    BY <1>7, FreshFacts DEF Dial, Fresh
  <2>2. QED
    BY <1>7, <2>1 DEF Dial, Connected, LeaveInv, Busy, Ending, TypeOK, AttemptTypes
<1>8. ASSUME NEW a \in Attempts, AttemptSelect(a) PROVE LeaveInv'
  <2>1. subCh[a] # "empty" => sub[a] = "done"
    BY DEF ConnInv, Stages
  <2>2. UNCHANGED <<sub, subCh, ctxDone>>
    BY <1>8 DEF AttemptSelect, subVars
  <2>3. QED
    BY <1>8, <2>1, <2>2 DEF AttemptSelect, LeaveInv, Busy, Ending, TypeOK, AttemptTypes
<1>9. ASSUME NEW a \in Attempts, Release(a) \/ Store(a) \/ GcPut(a) \/ Deliver(a)
      PROVE  LeaveInv'
  <2>1. /\ att[a] \in Ending
        /\ \E s \in {"store", "gc", "deliver", "done"} : att' = [att EXCEPT ![a] = s]
        /\ UNCHANGED <<sub, subCh, gerr, ctxDone>>
    BY <1>9 DEF Release, Store, GcPut, Deliver, subVars, Ending
  <2>2. QED
    BY <2>1 DEF LeaveInv, Busy, Ending, TypeOK, AttemptTypes
<1>10. ASSUME NEW a \in Attempts, SubStep(a) PROVE LeaveInv'
  <2>1. /\ Busy(a) /\ UNCHANGED <<att, gerr, ctxDone>>
        /\ \E s \in {"recv", "decode", "done"} : sub' = [sub EXCEPT ![a] = s]
        /\ subCh' = subCh \/ \E o \in Outcome : subCh' = [subCh EXCEPT ![a] = o]
    BY <1>10 DEF SubStep, SubFail, Send, RecvHeader, RecvBody, SubEnd, Busy, attVars, Outcome
  <2>2. subCh[a] = "empty"
    BY <2>1 DEF Busy, ConnInv, Stages, TypeOK, AttemptTypes
  <2>3. QED
    BY <2>1, <2>2 DEF LeaveInv, Busy, TypeOK, AttemptTypes
<1>11. ASSUME UNCHANGED <<att, gerr, sub, subCh, ctxDone>> PROVE LeaveInv'
  BY <1>11 DEF LeaveInv, Busy
<1>12. ASSUME \/ \E a \in Attempts : Provide(a) \/ Age(a)
              \/ GcStep \/ Close \/ UNCHANGED vars
       PROVE  UNCHANGED <<att, gerr, sub, subCh, ctxDone>>
  BY <1>12 DEF Provide, Age, GcStep, GcTake, GcClose, GcExit, Close, vars, attVars, subVars
<1>13. QED
  BY <1>1, <1>2, <1>3, <1>4, <1>5, <1>6, <1>7, <1>8, <1>9, <1>10, <1>11, <1>12
     DEF Next, CallStep, AttemptStep

-----------------------------------------------------------------------------
\* A queue that loses its head holds nothing new.
LEMMA TakenFrom ==
  ASSUME NEW S, NEW s \in Seq(S), s # <<>>
  PROVE  /\ Head(s) = s[1] /\ 1 \in 1 .. Len(s)
         /\ \A i \in 1 .. Len(Tail(s)) : \E j \in 1 .. Len(s) : Tail(s)[i] = s[j]
<1>1. Len(s) \in Nat /\ Len(s) # 0 /\ Head(s) = s[1]
  BY LenProperties, EmptySeq, HeadTailProperties
<1>2. Len(Tail(s)) = Len(s) - 1 /\ \A i \in 1 .. Len(Tail(s)) : Tail(s)[i] = s[i + 1]
  BY HeadTailProperties
<1>3. \A i \in 1 .. Len(s) - 1 : i + 1 \in 1 .. Len(s)
  BY <1>1
<1>4. QED
  BY <1>1, <1>2, <1>3

\* A queue with x put at its end holds nothing else new.
LEMMA PutAtEnd ==
  ASSUME NEW S, NEW s \in Seq(S), NEW x \in S, NEW i \in 1 .. Len(Append(s, x))
  PROVE  Append(s, x)[i] = x \/ \E j \in 1 .. Len(s) : Append(s, x)[i] = s[j]
<1>1. /\ Len(Append(s, x)) = Len(s) + 1 /\ Append(s, x)[Len(s) + 1] = x
      /\ \A j \in 1 .. Len(s) : Append(s, x)[j] = s[j]
  BY AppendProperties
<1>2. Len(s) \in Nat
  BY LenProperties
<1>3. QED
  BY <1>1, <1>2

\* A good answer on its way has been given.
LEMMA AnswerKept ==
  ASSUME TypeOK, ConnInv, ConnInv', TurnInv, LeaveInv, AnswerInv, [Next]_vars
  PROVE  AnswerInv'
<1> USE AttemptFacts
<1>1. ASSUME NEW c \in Calls, CallStart(c) \/ CallTimeout(c) PROVE AnswerInv'
  <2>1. UNCHANGED <<callCh, subVars, wireVars, answered>>
    BY <1>1 DEF CallStart, CallTimeout
  <2>2. \A d \in Calls : pc'[d] = "idle" => pc[d] = "idle"
    BY <1>1 DEF CallStart, CallTimeout, Return, TypeOK, CallTypes
  <2>3. \A k \in Attempts : \A i \in 1 .. Len(reqs[k]) : reqs[k][i] \in Calls
    BY ElementOfSeq DEF TypeOK, QueueTypes
  <2>4. QED
    BY <2>1, <2>2, <2>3 DEF AnswerInv, subVars, wireVars
<1>2. ASSUME NEW c \in Calls, CallReceive(c) PROVE AnswerInv'
  <2>1. UNCHANGED <<subVars, wireVars, answered>>
    BY <1>2 DEF CallReceive
  <2>2. \A d \in Calls : pc'[d] = "idle" => pc[d] = "idle"
    BY <1>2 DEF CallReceive, Return, TypeOK, CallTypes
  <2>3. \A k \in Attempts : \A i \in 1 .. Len(reqs[k]) : reqs[k][i] \in Calls
    BY ElementOfSeq DEF TypeOK, QueueTypes
  <2>4. \A d \in Calls : callCh'[d] = <<"nil">> => callCh[d] = <<"nil">>
    <3>1. Len(<<"nil">>) = 1 /\ Len(<<>>) = 0
      OBVIOUS
    <3>2. QED
      BY <1>2, <3>1, ReceiveFacts
  <2>5. QED
    BY <2>1, <2>2, <2>3, <2>4 DEF AnswerInv, subVars, wireVars
<1>3. ASSUME NEW a \in Attempts,
             \/ NextFail(a) \/ GetConn(a) \/ Dial(a) \/ AttemptSelect(a)
             \/ Release(a) \/ Store(a) \/ GcPut(a)
      PROVE  AnswerInv'
  <2>1. UNCHANGED <<callVars, answered, subCh, wireVars>>
    BY <1>3, AttemptMoves
  <2>2. sub' = sub \/ sub' = [sub EXCEPT ![a] = "send"]
    BY <1>3 DEF NextFail, GetConn, Dial, Connected, AttemptSelect, Release, Store, GcPut,
                subVars
  <2>3. \A b \in Attempts : sub'[b] = "decode" => sub[b] = "decode"
    BY <2>2 DEF TypeOK, AttemptTypes
  <2>4. QED
    BY <2>1, <2>3 DEF AnswerInv, callVars, wireVars
<1>4. ASSUME NEW a \in Attempts, Deliver(a) PROVE AnswerInv'
  <2>1. UNCHANGED <<pc, subVars, wireVars, answered>>
    BY <1>4 DEF Deliver
  <2>2. callCh[Owner(a)] = <<>>
    BY <1>4 DEF Deliver, TurnInv, Live, Moving
  <2>3. callCh'[Owner(a)] = <<gerr[a]>> /\ \A d \in Calls : d # Owner(a) => callCh'[d] = callCh[d]
    BY <1>4, <2>2 DEF Deliver, TypeOK, QueueTypes
  <2>4. gerr[a] = "nil" => Owner(a) \in answered
    BY <1>4 DEF Deliver, LeaveInv, Ending, AnswerInv
  <2>5. QED
    BY <2>1, <2>3, <2>4 DEF AnswerInv, subVars, wireVars
<1>5. ASSUME NEW a \in Attempts, SubFail(a) PROVE AnswerInv'
  <2>1. UNCHANGED <<callVars, wireVars, answered>>
    BY <1>5 DEF SubFail
  <2>2. \A b \in Attempts : /\ sub'[b] = "decode" => sub[b] = "decode"
                            /\ subCh'[b] = "nil" => subCh[b] = "nil"
    BY <1>5 DEF SubFail, SubEnd, TypeOK, AttemptTypes
  <2>3. QED
    BY <2>1, <2>2 DEF AnswerInv, callVars, wireVars
<1>6. ASSUME NEW a \in Attempts, Send(a) PROVE AnswerInv'
  <2>1. UNCHANGED <<callVars, subCh, rsps, answered>>
    BY <1>6 DEF Send
  <2>2. \A b \in Attempts : sub'[b] = "decode" => sub[b] = "decode"
    BY <1>6 DEF Send, TypeOK, AttemptTypes
  <2>3. pc[Owner(a)] # "idle"
    BY <1>6, NotStarted, FreshFacts DEF Send, Fresh
  <2>4. conn[a] \in Attempts /\ reqs[conn[a]] \in Seq(Calls)
    BY <1>6 DEF Send, TypeOK, Connects, QueueTypes
  <2>5. ASSUME NEW k \in Attempts, NEW i \in 1 .. Len(reqs'[k]) PROVE pc[reqs'[k][i]] # "idle"
    <3>1. CASE k = conn[a]
      <4>1. reqs'[k] = Append(reqs[k], Owner(a))
        BY <1>6, <2>4, <3>1 DEF Send, TypeOK, QueueTypes
      <4>2. reqs'[k][i] = Owner(a) \/ \E j \in 1 .. Len(reqs[k]) : reqs'[k][i] = reqs[k][j]
        BY <2>4, <3>1, <4>1, PutAtEnd
      <4>3. QED
        BY <2>3, <4>2 DEF AnswerInv
    <3>2. CASE k # conn[a]
      BY <1>6, <3>2 DEF Send, AnswerInv, TypeOK, QueueTypes
    <3>3. QED
      BY <3>1, <3>2
  <2>6. QED
    BY <2>1, <2>2, <2>5 DEF AnswerInv, callVars
<1>7. ASSUME NEW a \in Attempts, RecvHeader(a) PROVE AnswerInv'
  <2>1. UNCHANGED <<callVars, reqs, answered>>
    BY <1>7 DEF RecvHeader
  <2> DEFINE k == conn[a]
  <2>2. k \in Attempts /\ rsps[k] \in Seq([to : Calls, err : BOOLEAN]) /\ rsps[k] # <<>>
    BY <1>7 DEF RecvHeader, TypeOK, Connects, QueueTypes
  <2>3. /\ Head(rsps[k]) = rsps[k][1] /\ 1 \in 1 .. Len(rsps[k])
        /\ \A i \in 1 .. Len(Tail(rsps[k])) : \E j \in 1 .. Len(rsps[k]) :
             Tail(rsps[k])[i] = rsps[k][j]
    BY <2>2, TakenFrom
  <2>4. rsps' = [rsps EXCEPT ![k] = Tail(rsps[k])]
    BY <1>7 DEF RecvHeader
  <2>5. \A l \in Attempts : \A i \in 1 .. Len(rsps'[l]) :
          ~rsps'[l][i].err => rsps'[l][i].to \in answered
    <3> SUFFICES ASSUME NEW l \in Attempts, NEW i \in 1 .. Len(rsps'[l]), ~rsps'[l][i].err
                 PROVE  rsps'[l][i].to \in answered
      OBVIOUS
    <3>1. rsps'[l] = IF l = k THEN Tail(rsps[k]) ELSE rsps[l]
      BY <2>2, <2>4 DEF TypeOK, QueueTypes
    <3>2. PICK j \in 1 .. Len(rsps[l]) : rsps'[l][i] = rsps[l][j]
      BY <2>3, <3>1
    <3>3. QED
      BY <3>2 DEF AnswerInv
  <2>6. \/ SubEnd(a, "err")
        \/ /\ sub' = [sub EXCEPT ![a] = "decode"] /\ UNCHANGED subCh
           /\ got' = [got EXCEPT ![a] = rsps[k][1].to] /\ ~rsps[k][1].err
    BY <1>7, <2>3 DEF RecvHeader
  <2>7. ASSUME NEW b \in Attempts, sub'[b] = "decode" \/ subCh'[b] = "nil"
        PROVE  Owner(b) \in answered
    <3>1. CASE b # a \/ SubEnd(a, "err")
      BY <2>6, <2>7, <3>1 DEF SubEnd, AnswerInv, TypeOK, AttemptTypes
    <3>2. CASE b = a /\ ~SubEnd(a, "err")
      <4>1. got'[a] = Owner(a)
        BY <2>6, <3>2 DEF ConnInv, Stages, TypeOK, AttemptTypes
      <4>2. got'[a] = rsps[k][1].to /\ rsps[k][1].to \in answered
        BY <2>2, <2>3, <2>6, <3>2 DEF AnswerInv, TypeOK, AttemptTypes
      <4>3. QED
        BY <3>2, <4>1, <4>2
    <3>3. QED
      BY <3>1, <3>2
  <2>8. QED
    BY <2>1, <2>5, <2>7 DEF AnswerInv, callVars
<1>8. ASSUME NEW a \in Attempts, RecvBody(a) PROVE AnswerInv'
  <2>1. UNCHANGED <<callVars, wireVars, answered>> /\ Owner(a) \in answered
    BY <1>8 DEF RecvBody, AnswerInv
  <2>2. \A b \in Attempts : b # a => sub'[b] = sub[b] /\ subCh'[b] = subCh[b]
    BY <1>8 DEF RecvBody, SubEnd, TypeOK, AttemptTypes
  <2>3. QED
    BY <2>1, <2>2 DEF AnswerInv, callVars, wireVars
<1>9. ASSUME NEW k \in Attempts, Provide(k) PROVE AnswerInv'
  <2> DEFINE c == Head(reqs[k])
  <2>1. UNCHANGED <<callVars, subVars>> /\ answered \subseteq answered'
    BY <1>9 DEF Provide
  <2>2. /\ reqs[k] \in Seq(Calls) /\ reqs[k] # <<>> /\ c \in Calls
        /\ rsps[k] \in Seq([to : Calls, err : BOOLEAN])
    BY <1>9, HeadTailProperties DEF Provide, TypeOK, QueueTypes
  <2>3. ASSUME NEW l \in Attempts, NEW i \in 1 .. Len(reqs'[l]) PROVE pc[reqs'[l][i]] # "idle"
    <3>1. reqs'[l] = IF l = k THEN Tail(reqs[k]) ELSE reqs[l]
      BY <1>9 DEF Provide, TypeOK, QueueTypes
    <3>2. PICK j \in 1 .. Len(reqs[l]) : reqs'[l][i] = reqs[l][j]
      BY <2>2, <3>1, TakenFrom
    <3>3. QED
      BY <3>2 DEF AnswerInv
  <2>4. PICK err \in BOOLEAN :
          /\ rsps' = [rsps EXCEPT ![k] = Append(@, [to |-> c, err |-> err])]
          /\ answered' = IF err THEN answered ELSE answered \cup {c}
    BY <1>9 DEF Provide
  <2>5. ASSUME NEW l \in Attempts, NEW i \in 1 .. Len(rsps'[l]), ~rsps'[l][i].err
        PROVE  rsps'[l][i].to \in answered'
    <3> DEFINE x == [to |-> c, err |-> err]
    <3>0. x \in [to : Calls, err : BOOLEAN] /\ x.err = err /\ x.to = c
      BY <2>2
    <3>1. rsps'[l] = IF l = k THEN Append(rsps[k], x) ELSE rsps[l]
      BY <2>4 DEF TypeOK, QueueTypes
    <3> HIDE DEF x
    <3>2. (l = k /\ rsps'[l][i] = x) \/ \E j \in 1 .. Len(rsps[l]) : rsps'[l][i] = rsps[l][j]
      <4>1. CASE l = k
        BY <2>2, <3>0, <3>1, <4>1, PutAtEnd
      <4>2. CASE l # k
        BY <3>1, <4>2
      <4>3. QED
        BY <4>1, <4>2
    <3>3. CASE rsps'[l][i] = x
      BY <2>4, <2>5, <3>0, <3>3
    <3>4. CASE \E j \in 1 .. Len(rsps[l]) : rsps'[l][i] = rsps[l][j]
      BY <2>1, <2>5, <3>4 DEF AnswerInv
    <3>5. QED
      BY <3>2, <3>3, <3>4
  <2>6. QED
    BY <2>1, <2>3, <2>5 DEF AnswerInv, callVars, subVars
<1>10. ASSUME \/ \E c \in Calls : CtxExpire(c)
              \/ \E a \in Attempts : Age(a)
              \/ GcStep \/ Close \/ UNCHANGED vars
       PROVE  AnswerInv'
  <2>1. UNCHANGED <<callVars, subVars, wireVars, answered>>
    BY <1>10 DEF CtxExpire, Age, GcStep, GcTake, GcClose, GcExit, Close, vars, callVars,
                 subVars, wireVars
  <2>2. QED
    BY <2>1 DEF AnswerInv, callVars, subVars, wireVars
<1>11. QED
  BY <1>1, <1>2, <1>3, <1>4, <1>5, <1>6, <1>7, <1>8, <1>9, <1>10
     DEF Next, CallStep, AttemptStep, SubStep

-----------------------------------------------------------------------------
\* Until the deadline, only the goroutine of the attempt under way has the
\* caller's response object.
LEMMA OneWriter ==
  ASSUME TypeOK, TurnInv, LeaveInv, NEW a \in Attempts, NEW b \in Attempts,
         Busy(a), ~ctxDone[Owner(a)], Live(b), Owner(b) = Owner(a)
  PROVE  a = b
<1>1. Live(a)
  BY DEF LeaveInv, Live, Moving
<1>2. QED
  BY <1>1, IndexFacts DEF TurnInv

\* Until the deadline, answers stay where they belong.
LEMMA FillKept ==
  ASSUME Retries # 0, TypeOK, ConnInv, TurnInv, LeaveInv, FillInv, AnswerStays, [Next]_vars
  PROVE  FillInv' /\ AnswerStays'
<1> USE AttemptFacts
<1>1. ASSUME NEW c \in Calls, CallStart(c) PROVE FillInv' /\ AnswerStays'
  <2>1. \A a \in Attempts : Owner(a) = c => sub[a] = "none" /\ subCh[a] = "empty" /\ ~Live(a)
    BY <1>1, NotStarted, FreshFacts DEF CallStart, Fresh, Live, Moving
  <2>2. UNCHANGED <<callCh, ctxDone, rsp, sub, subCh>>
    BY <1>1 DEF CallStart, subVars
  <2>3. \A d \in Calls : d # c => /\ pc'[d] = pc[d] /\ result'[d] = result[d]
                                  /\ inTime'[d] = inTime[d]
    BY <1>1 DEF CallStart, Return, TypeOK, CallTypes, FlagTypes
  <2>4. \/ UNCHANGED att /\ pc'[c] = "done" /\ result'[c] # "nil"
        \/ att' = [att EXCEPT ![<<c, 1>>] = "get"] /\ pc'[c] = "wait"
    BY <1>1 DEF CallStart, Return, StartAttempt, TypeOK, CallTypes
  <2>5. <<c, 1>> \in Attempts /\ Owner(<<c, 1>>) = c
    BY IndexFacts
  <2>6. \A a \in Attempts : Owner(a) # c => att'[a] = att[a]
    BY <2>4, <2>5 DEF TypeOK, AttemptTypes
  <2>7. \A a \in Attempts : Owner(a) = c /\ pc'[c] = "done" => ~Live(a)'
    BY <2>1, <2>4 DEF Live
  <2>8. \A a \in Attempts : Live(a)' /\ subCh'[a] = "nil" => Live(a)
    BY <2>1, <2>2, <2>6 DEF Live
  <2>9. \A a \in Attempts : pc'[Owner(a)] = "done" /\ inTime'[Owner(a)] => ~Busy(a)' /\ ~Live(a)'
    BY <2>1, <2>2, <2>3, <2>6, <2>7 DEF FillInv, Busy, Live
  <2>10. FillInv'
    BY <2>2, <2>8, <2>9 DEF FillInv
  <2>11. AnswerStays'
    BY <2>2, <2>3, <2>4 DEF AnswerStays
  <2>12. QED
    BY <2>10, <2>11
<1>2. ASSUME NEW c \in Calls, CallTimeout(c) PROVE FillInv' /\ AnswerStays'
  <2>1. UNCHANGED <<callCh, ctxDone, rsp, sub, subCh, att>>
    BY <1>2 DEF CallTimeout, attVars, subVars
  <2>2. /\ ~inTime'[c]
        /\ \A d \in Calls : d # c => /\ pc'[d] = pc[d] /\ result'[d] = result[d]
                                     /\ inTime'[d] = inTime[d]
    BY <1>2 DEF CallTimeout, Return, TypeOK, CallTypes, FlagTypes
  <2>3. FillInv'
    BY <2>1, <2>2 DEF FillInv, Live, Busy
  <2>4. AnswerStays'
    BY <2>1, <2>2 DEF AnswerStays
  <2>5. QED
    BY <2>3, <2>4
<1>3. ASSUME NEW c \in Calls, CallReceive(c) PROVE FillInv' /\ AnswerStays'
  <2>1. UNCHANGED <<ctxDone, rsp, sub, subCh>> /\ pc[c] = "wait"
    BY <1>3 DEF CallReceive, subVars
  <2>2. /\ callCh'[c] = <<>> /\ \A d \in Calls : d # c => callCh'[d] = callCh[d]
        /\ \A a \in Attempts : Owner(a) = c => ~Live(a)
        /\ Head(callCh[c]) = "nil" => callCh[c] = <<"nil">>
    BY <1>3, ReceiveFacts
  <2>3. \A d \in Calls : callCh'[d] = <<"nil">> => callCh[d] = <<"nil">>
    <3>1. Len(<<"nil">>) = 1 /\ Len(<<>>) = 0
      OBVIOUS
    <3>2. QED
      BY <2>2, <3>1
  <2>4. \A a \in Attempts : Owner(a) = c /\ ~ctxDone[c] => ~Busy(a)
    BY <2>2 DEF LeaveInv, Live, Moving
  <2>5. CASE UNCHANGED <<cur, att>> /\ \E r \in {"nil", "err"} :
               Return(c, r) /\ (r = "nil" => Head(callCh[c]) = "nil")
    <3>1. /\ pc'[c] = "done" /\ inTime'[c] = ~ctxDone[c]
          /\ result'[c] = "nil" => callCh[c] = <<"nil">>
          /\ \A d \in Calls : d # c => /\ pc'[d] = pc[d] /\ result'[d] = result[d]
                                       /\ inTime'[d] = inTime[d]
      BY <2>2, <2>5 DEF Return, TypeOK, CallTypes, FlagTypes
    <3>2. FillInv'
      BY <2>1, <2>2, <2>3, <2>4, <2>5, <3>1 DEF FillInv, Live, Busy
    <3>3. AnswerStays'
      BY <2>1, <3>1 DEF AnswerStays, FillInv
    <3>4. QED
      BY <3>2, <3>3
  <2>6. CASE cur[c] < Retries /\ StartAttempt(c, cur[c] + 1) /\ UNCHANGED <<pc, result, inTime>>
    <3> DEFINE n == cur[c] + 1
    <3>1. n \in 1 .. Retries /\ n > cur[c]
      BY <2>6, IndexFacts DEF TypeOK, CountTypes
    <3>2. att' = [att EXCEPT ![<<c, n>>] = "get"]
      BY <2>6 DEF StartAttempt
    <3> HIDE DEF n
    <3>3. <<c, n>> \in Attempts /\ Owner(<<c, n>>) = c /\ Index(<<c, n>>) = n
      BY <3>1, IndexFacts
    <3>4. subCh[<<c, n>>] = "empty"
      BY <3>1, <3>3, NotStarted, FreshFacts DEF Fresh
    <3>5. \A a \in Attempts : a # <<c, n>> => (Live(a)' <=> Live(a))
      BY <3>2, <3>3 DEF Live, TypeOK, AttemptTypes
    <3>6. FillInv'
      BY <2>1, <2>3, <2>6, <3>3, <3>4, <3>5 DEF FillInv, Busy
    <3>7. AnswerStays'
      BY <2>1, <2>6 DEF AnswerStays
    <3>8. QED
      BY <3>6, <3>7
  <2>7. QED
    BY <1>3, <2>5, <2>6 DEF CallReceive
<1>4. ASSUME NEW c \in Calls, CtxExpire(c) PROVE FillInv' /\ AnswerStays'
  <2>1. UNCHANGED <<callVars, rsp, att, sub, subCh>>
    BY <1>4 DEF CtxExpire, attVars, subVars
  <2>2. \A d \in Calls : ctxDone[d] => ctxDone'[d]
    BY <1>4 DEF CtxExpire, TypeOK, FlagTypes
  <2>3. FillInv'
    BY <2>1, <2>2 DEF FillInv, Live, Busy, callVars
  <2>4. AnswerStays'
    BY <2>1 DEF AnswerStays, callVars
  <2>5. QED
    BY <2>3, <2>4
<1>5. ASSUME NEW a \in Attempts,
             \/ NextFail(a) \/ GetConn(a) \/ Dial(a) \/ AttemptSelect(a)
             \/ Release(a) \/ Store(a) \/ GcPut(a)
      PROVE  FillInv' /\ AnswerStays'
  <2>1. UNCHANGED <<callVars, ctxDone, rsp, subCh>> /\ Live(a)
    BY <1>5, AttemptMoves
  <2>2. \A b \in Attempts : Live(b)' <=> Live(b)
    BY <1>5, AttemptMoves DEF Live, TypeOK, AttemptTypes
  <2>3. sub' = sub \/ sub' = [sub EXCEPT ![a] = "send"]
    BY <1>5 DEF NextFail, GetConn, Dial, Connected, AttemptSelect, Release, Store, GcPut,
                subVars
  <2>4. \A b \in Attempts : Busy(b)' => Busy(b) \/ Live(b)
    BY <2>1, <2>3 DEF Busy, TypeOK, AttemptTypes
  <2>5. FillInv'
    BY <2>1, <2>2, <2>4 DEF FillInv, callVars
  <2>6. AnswerStays'
    BY <2>1 DEF AnswerStays, callVars
  <2>7. QED
    BY <2>5, <2>6
<1>6. ASSUME NEW a \in Attempts, Deliver(a) PROVE FillInv' /\ AnswerStays'
  <2>1. UNCHANGED <<pc, result, inTime, ctxDone, rsp, sub, subCh>>
    BY <1>6 DEF Deliver, subVars
  <2>2. callCh[Owner(a)] = <<>> /\ Live(a)
    BY <1>6 DEF Deliver, TurnInv, Live, Moving
  <2>3. callCh'[Owner(a)] = <<gerr[a]>> /\ \A d \in Calls : d # Owner(a) => callCh'[d] = callCh[d]
    BY <1>6, <2>2 DEF Deliver, TypeOK, QueueTypes
  <2>4. gerr[a] = "nil" => subCh[a] = "nil"
    BY <1>6 DEF Deliver, LeaveInv, Ending
  <2>5. \A b \in Attempts : Live(b)' => Live(b)
    BY <1>6 DEF Deliver, Live, Moving, TypeOK, AttemptTypes
  <2>6. FillInv'
    BY <2>1, <2>2, <2>3, <2>4, <2>5 DEF FillInv, Busy
  <2>7. AnswerStays'
    BY <2>1 DEF AnswerStays
  <2>8. QED
    BY <2>6, <2>7
<1>7. ASSUME NEW a \in Attempts, SubFail(a) \/ Send(a) \/ RecvHeader(a)
      PROVE  FillInv' /\ AnswerStays'
  <2>1. UNCHANGED <<callVars, ctxDone, rsp, att>> /\ Busy(a)
    BY <1>7 DEF SubFail, Send, RecvHeader, attVars, Busy
  <2>2. \A b \in Attempts : /\ Busy(b)' => Busy(b)
                            /\ subCh'[b] = "nil" => subCh[b] = "nil"
    BY <1>7 DEF SubFail, Send, RecvHeader, SubEnd, Busy, TypeOK, AttemptTypes
  <2>3. FillInv'
    BY <2>1, <2>2 DEF FillInv, Live, callVars
  <2>4. AnswerStays'
    BY <2>1 DEF AnswerStays, callVars
  <2>5. QED
    BY <2>3, <2>4
<1>8. ASSUME NEW a \in Attempts, RecvBody(a) PROVE FillInv' /\ AnswerStays'
  <2> DEFINE c == Owner(a)
  <2>1. UNCHANGED <<callVars, ctxDone, att>> /\ Busy(a) /\ got[a] = c
    BY <1>8 DEF RecvBody, attVars, Busy, ConnInv, Stages
  <2>2. ~(pc[c] = "done" /\ inTime[c])
    BY <2>1 DEF FillInv
  <2>3. \A d \in Calls : d # c => rsp'[d] = rsp[d]
    BY <1>8 DEF RecvBody, TypeOK, CallTypes
  <2>4. /\ \A b \in Attempts : b # a => sub'[b] = sub[b] /\ subCh'[b] = subCh[b]
        /\ ~Busy(a)' /\ (subCh'[a] = "nil" => rsp'[c] = c)
    BY <1>8, <2>1 DEF RecvBody, SubEnd, Busy, TypeOK, AttemptTypes, CallTypes
  <2>5. ASSUME NEW b \in Attempts, Live(b)', subCh'[b] = "nil", ~ctxDone'[Owner(b)]
        PROVE  rsp'[Owner(b)] = Owner(b)
    <3>1. CASE Owner(b) # c
      BY <2>1, <2>3, <2>4, <2>5, <3>1 DEF FillInv, Live
    <3>2. CASE Owner(b) = c
      <4>1. b = a
        BY <2>1, <2>5, <3>2, OneWriter DEF Live
      <4>2. QED
        BY <2>4, <2>5, <4>1
    <3>3. QED
      BY <3>1, <3>2
  <2>6. ASSUME NEW d \in Calls, callCh'[d] = <<"nil">>, ~ctxDone'[d] PROVE rsp'[d] = d
    <3>1. CASE d = c
      <4>1. Live(a)
        BY <2>1, <2>6, <3>1 DEF LeaveInv, Live, Moving
      <4>2. callCh[d] = <<>>
        BY <3>1, <4>1 DEF TurnInv
      <4>3. QED
        BY <2>1, <2>6, <4>2 DEF callVars
    <3>2. CASE d # c
      BY <2>1, <2>3, <2>6, <3>2 DEF FillInv, callVars
    <3>3. QED
      BY <3>1, <3>2
  <2>7. ASSUME NEW b \in Attempts, pc'[Owner(b)] = "done", inTime'[Owner(b)]
        PROVE  ~Busy(b)' /\ ~Live(b)'
    BY <2>1, <2>4, <2>7 DEF FillInv, Busy, Live, callVars
  <2>8. FillInv'
    BY <2>5, <2>6, <2>7 DEF FillInv
  <2>9. AnswerStays'
    BY <2>1, <2>2, <2>3 DEF AnswerStays, callVars
  <2>10. QED
    BY <2>8, <2>9
<1>9. ASSUME \/ \E a \in Attempts : Provide(a) \/ Age(a)
             \/ GcStep \/ Close \/ UNCHANGED vars
      PROVE  FillInv' /\ AnswerStays'
  <2>1. UNCHANGED <<callVars, ctxDone, rsp, att, sub, subCh>>
    BY <1>9 DEF Provide, Age, GcStep, GcTake, GcClose, GcExit, Close, vars, callVars,
                attVars, subVars
  <2>2. FillInv'
    BY <2>1 DEF FillInv, Live, Busy, callVars
  <2>3. AnswerStays'
    BY <2>1 DEF AnswerStays, callVars
  <2>4. QED
    BY <2>2, <2>3
<1>10. QED
  BY <1>1, <1>2, <1>3, <1>4, <1>5, <1>6, <1>7, <1>8, <1>9
     DEF Next, CallStep, AttemptStep, SubStep

-----------------------------------------------------------------------------
\* Nothing has begun.
LEMMA InitCalls == Init => CallInv /\ FillInv /\ AnswerStays
<1> SUFFICES ASSUME Init PROVE CallInv /\ FillInv /\ AnswerStays
  OBVIOUS
<1>1. /\ \A c \in Calls : pc[c] = "idle" /\ callCh[c] = <<>>
      /\ \A a \in Attempts : /\ att[a] = "none" /\ sub[a] = "none" /\ subCh[a] = "empty"
                             /\ reqs[a] = <<>> /\ rsps[a] = <<>>
  BY DEF Init
<1>2. TurnInv
  BY <1>1 DEF TurnInv, Live, Moving
<1>3. LeaveInv
  BY <1>1 DEF LeaveInv, Busy, Ending
<1>4. Len(<<>>) = 0 /\ Len(<<"nil">>) = 1
  OBVIOUS
<1>5. AnswerInv
  BY <1>1, <1>4 DEF AnswerInv
<1>6. FillInv
  BY <1>1, <1>4, AttemptFacts DEF FillInv, Live, Moving
<1>7. AnswerStays
  BY <1>1 DEF AnswerStays
<1>8. QED
  BY <1>2, <1>3, <1>5, <1>6, <1>7 DEF CallInv

\* rpcClient.Call and call: the invariant.
LEMMA CallInvariant == Spec => []CallInv
<1>1. TypeOK /\ ConnInv /\ ConnInv' /\ CallInv /\ [Next]_vars => CallInv'
  BY TurnKept, LeaveKept, AnswerKept DEF CallInv
<1>2. QED
  BY <1>1, InitCalls, TypeCorrect, ConnInvariant, PTL DEF Spec

\* Call: what Call returned without an error before its deadline stays whole in
\* the caller's object for ever, whatever the goroutines of its attempts do.
\* (Without retries the loop of Call is not entered at all, and it returns nil.)
THEOREM AnswersStay ==
  ASSUME Retries # 0
  PROVE  Spec => []AnswerStays
<1>1. TypeOK /\ ConnInv /\ CallInv /\ FillInv /\ AnswerStays /\ [Next]_vars
        => FillInv' /\ AnswerStays'
  BY FillKept DEF CallInv
<1>2. QED
  BY <1>1, InitCalls, TypeCorrect, ConnInvariant, CallInvariant, PTL DEF Spec

\* Call: a goroutine only writes to the object of a Call that has returned when
\* the Call's context is done.
THEOREM LateWritesExpired == Spec => NoLateWrite
<1>1. TypeOK /\ CallInv /\ [Next]_vars => [WritesInTime]_vars
  <2> SUFFICES ASSUME TypeOK, CallInv, Next, NEW c \in Calls, pc[c] = "done", rsp'[c] # rsp[c]
               PROVE  ctxDone[c]
    BY DEF WritesInTime
  <2>1. rsp' # rsp
    OBVIOUS
  <2>2. PICK a \in Attempts : RecvBody(a)
    BY <2>1 DEF Next, CallStart, CallStep, CallTimeout, CallReceive, CtxExpire, AttemptStep,
                NextFail, GetConn, Dial, AttemptSelect, Release, Store, GcPut, Deliver,
                SubStep, SubFail, Send, RecvHeader, Provide, Age, GcStep, GcTake, GcClose,
                GcExit, Close
  <2>3. Owner(a) = c /\ Busy(a)
    BY <2>2, AttemptFacts DEF RecvBody, Busy, TypeOK, CallTypes
  <2>4. CASE att[a] # "run"
    BY <2>3, <2>4 DEF CallInv, LeaveInv
  <2>5. CASE att[a] = "run"
    BY <2>3, <2>5 DEF CallInv, TurnInv, Live, Moving
  <2>6. QED
    BY <2>4, <2>5
<1>2. QED
  BY <1>1, TypeCorrect, CallInvariant, PTL DEF Spec, NoLateWrite

-----------------------------------------------------------------------------
\* The state of a Call as its caller sees it.
Shown(p, r) == CASE p = "idle" -> "idle"
                 [] p = "wait" -> "pending"
                 [] p = "done" -> r
Status == [c \in Calls |-> Shown(pc[c], result[c])]
Expired == {c \in Calls : ctxDone[c]}

\* A step that only concerns Call c shows as a change of its state.
LEMMA StatusChanges ==
  ASSUME NEW c \in Calls, NEW s,
         \A d \in Calls : d # c => pc'[d] = pc[d] /\ result'[d] = result[d],
         \/ pc'[c] = "wait" /\ s = "pending"
         \/ pc'[c] = "done" /\ s = result'[c]
  PROVE  Status' = [Status EXCEPT ![c] = s]
<1>1. Shown(pc'[c], result'[c]) = s
  BY DEF Shown
<1>2. Status' = [d \in Calls |-> IF d = c THEN s ELSE Shown(pc[d], result[d])]
  BY <1>1 DEF Status
<1>3. QED
  BY <1>2 DEF Status

\* Begin, Finish, Expire and Answer of the abstract specification, in terms of
\* Status and Expired.
LEMMA PromiseSteps ==
  ASSUME NEW c \in Calls, NEW r \in {"nil", "err", "timeout"}
  PROVE  /\ (/\ Status[c] = "idle" /\ Status' = [Status EXCEPT ![c] = "pending"]
             /\ UNCHANGED <<Expired, answered>>) => Promise!Next
         /\ (/\ Status[c] # "idle" /\ answered' = answered \cup {c}
             /\ UNCHANGED <<Status, Expired>>) => Promise!Next
         /\ (/\ Expired' = Expired \cup {c} /\ UNCHANGED <<Status, answered>>) => Promise!Next
         /\ (/\ Status[c] = "pending" \/ (Status[c] = "idle" /\ r # "nil")
             /\ r = "nil" => c \in answered
             /\ r = "timeout" => c \in Expired
             /\ Status' = [Status EXCEPT ![c] = r]
             /\ UNCHANGED <<Expired, answered>>) => Promise!Next
<1>1. ASSUME Status[c] = "idle", Status' = [Status EXCEPT ![c] = "pending"],
             UNCHANGED <<Expired, answered>>
      PROVE  Promise!Begin(c)
  BY <1>1 DEF Promise!Begin, Status, Shown, Expired
<1>2. ASSUME Status[c] # "idle", answered' = answered \cup {c}, UNCHANGED <<Status, Expired>>
      PROVE  Promise!Answer(c)
  BY <1>2 DEF Promise!Answer, Status, Shown, Expired
<1>3. ASSUME Expired' = Expired \cup {c}, UNCHANGED <<Status, answered>>
      PROVE  Promise!Expire(c)
  BY <1>3 DEF Promise!Expire, Status, Shown, Expired
<1>4. ASSUME Status[c] = "pending" \/ (Status[c] = "idle" /\ r # "nil"),
             r = "nil" => c \in answered, r = "timeout" => c \in Expired,
             Status' = [Status EXCEPT ![c] = r], UNCHANGED <<Expired, answered>>
      PROVE  Promise!Finish(c, r)
  BY <1>4 DEF Promise!Finish, Status, Shown, Expired
<1>5. QED
  BY <1>1, <1>2, <1>3, <1>4 DEF Promise!Next

\* Call implements RpcCallSpec: it returns once, with nil only what a provider
\* has answered to this very request, with 408 only when the context is done.
THEOREM PromiseKept ==
  ASSUME Retries # 0
  PROVE  Spec => ImplementsPromise
<1>1. Init => Promise!Init
  BY DEF Init, Promise!Init
<1>2. TypeOK /\ ConnInv /\ CallInv /\ [Next]_vars => [Promise!Next]_(Promise!vars)
  <2> SUFFICES ASSUME TypeOK, ConnInv, CallInv, [Next]_vars
               PROVE  [Promise!Next]_(Promise!vars)
    OBVIOUS
  <2> USE AttemptFacts
  <2>0. SUFFICES Promise!Next \/ UNCHANGED <<Status, Expired, answered>>
    BY DEF Promise!vars, Status, Shown, Expired
  <2>1. ASSUME NEW c \in Calls, CallStart(c) PROVE Promise!Next
    <3>1. \A d \in Calls : d # c => pc'[d] = pc[d] /\ result'[d] = result[d]
      BY <2>1 DEF CallStart, Return, TypeOK, CallTypes
    <3>2. UNCHANGED <<Expired, answered>> /\ Status[c] = "idle"
      BY <2>1 DEF CallStart, Expired, Status, Shown
    <3>3. \/ pc'[c] = "wait"
          \/ pc'[c] = "done" /\ result'[c] = "err"
          \/ pc'[c] = "done" /\ result'[c] = "timeout" /\ c \in Expired
      BY <2>1 DEF CallStart, Return, TypeOK, CallTypes, Expired
    <3>4. CASE pc'[c] = "wait"
      <4>1. Status' = [Status EXCEPT ![c] = "pending"]
        BY <3>1, <3>4, StatusChanges
      <4>2. QED
        BY <3>2, <4>1, PromiseSteps
    <3>5. CASE pc'[c] = "done" /\ result'[c] = "err"
      <4>1. Status' = [Status EXCEPT ![c] = "err"]
        BY <3>1, <3>5, StatusChanges
      <4>2. QED
        BY <3>2, <4>1, PromiseSteps
    <3>6. CASE pc'[c] = "done" /\ result'[c] = "timeout" /\ c \in Expired
      <4>1. Status' = [Status EXCEPT ![c] = "timeout"]
        BY <3>1, <3>6, StatusChanges
      <4>2. QED
        BY <3>2, <3>6, <4>1, PromiseSteps
    <3>7. QED
      BY <3>3, <3>4, <3>5, <3>6
  <2>2. ASSUME NEW c \in Calls, CallTimeout(c) PROVE Promise!Next
    <3>1. /\ \A d \in Calls : d # c => pc'[d] = pc[d] /\ result'[d] = result[d]
          /\ pc'[c] = "done" /\ result'[c] = "timeout"
      BY <2>2 DEF CallTimeout, Return, TypeOK, CallTypes
    <3>2. UNCHANGED <<Expired, answered>> /\ Status[c] = "pending" /\ c \in Expired
      BY <2>2 DEF CallTimeout, Expired, Status, Shown
    <3>3. Status' = [Status EXCEPT ![c] = "timeout"]
      BY <3>1, StatusChanges
    <3>4. QED
      BY <3>2, <3>3, PromiseSteps
  <2>3. ASSUME NEW c \in Calls, CallReceive(c)
        PROVE  Promise!Next \/ UNCHANGED <<Status, Expired, answered>>
    <3>1. UNCHANGED <<Expired, answered>> /\ Status[c] = "pending"
      BY <2>3 DEF CallReceive, Expired, Status, Shown
    <3>2. CASE UNCHANGED <<pc, result>>
      BY <3>1, <3>2 DEF Status
    <3>3. CASE Return(c, "err")
      <4>1. /\ \A d \in Calls : d # c => pc'[d] = pc[d] /\ result'[d] = result[d]
            /\ pc'[c] = "done" /\ result'[c] = "err"
        BY <3>3 DEF Return, TypeOK, CallTypes
      <4>2. Status' = [Status EXCEPT ![c] = "err"]
        BY <4>1, StatusChanges
      <4>3. QED
        BY <3>1, <4>2, PromiseSteps
    <3>4. CASE Return(c, "nil") /\ Head(callCh[c]) = "nil"
      <4>1. /\ \A d \in Calls : d # c => pc'[d] = pc[d] /\ result'[d] = result[d]
            /\ pc'[c] = "done" /\ result'[c] = "nil"
        BY <3>4 DEF Return, TypeOK, CallTypes
      <4>2. Status' = [Status EXCEPT ![c] = "nil"]
        BY <4>1, StatusChanges
      <4>3. c \in answered
        BY <2>3, <3>4, ReceiveFacts DEF CallInv, AnswerInv
      <4>4. QED
        BY <3>1, <4>2, <4>3, PromiseSteps
    <3>5. QED
      BY <2>3, <3>2, <3>3, <3>4 DEF CallReceive
  <2>4. ASSUME NEW c \in Calls, CtxExpire(c) PROVE Promise!Next
    <3>1. Expired' = Expired \cup {c}
      BY <2>4 DEF CtxExpire, Expired, TypeOK, FlagTypes
    <3>2. UNCHANGED <<Status, answered>>
      BY <2>4 DEF CtxExpire, callVars, Status
    <3>3. QED
      BY <3>1, <3>2, PromiseSteps
  <2>5. ASSUME NEW k \in Attempts, Provide(k)
        PROVE  Promise!Next \/ UNCHANGED <<Status, Expired, answered>>
    <3>1. UNCHANGED <<Status, Expired>>
      BY <2>5 DEF Provide, callVars, Status, Expired
    <3>2. PICK c \in Calls : /\ answered' = answered \/ answered' = answered \cup {c}
                             /\ pc[c] # "idle"
      <4>1. reqs[k] \in Seq(Calls) /\ reqs[k] # <<>>
        BY <2>5 DEF Provide, TypeOK, QueueTypes
      <4>2. Head(reqs[k]) \in Calls /\ Head(reqs[k]) = reqs[k][1] /\ 1 \in 1 .. Len(reqs[k])
        BY <4>1, HeadTailProperties, TakenFrom
      <4>3. QED
        BY <2>5, <4>2 DEF Provide, CallInv, AnswerInv
    <3>3. Status[c] # "idle"
      BY <3>2 DEF Status, Shown, TypeOK, CallTypes
    <3>4. QED
      BY <3>1, <3>2, <3>3, PromiseSteps
  <2>6. ASSUME \/ \E a \in Attempts : AttemptStep(a) \/ SubStep(a) \/ Age(a)
               \/ GcStep \/ Close \/ UNCHANGED vars
        PROVE  UNCHANGED <<Status, Expired, answered>>
    <3>1. UNCHANGED <<pc, result, ctxDone, answered>>
      BY <2>6 DEF AttemptStep, NextFail, GetConn, Dial, AttemptSelect, Release, Store, GcPut,
                  Deliver, SubStep, SubFail, Send, RecvHeader, RecvBody, Age, GcStep, GcTake,
                  GcClose, GcExit, Close, vars, callVars
    <3>2. QED
      BY <3>1 DEF Status, Expired
  <2>7. QED
    BY <2>1, <2>2, <2>3, <2>4, <2>5, <2>6 DEF Next, CallStep
<1>3. QED
  BY <1>1, <1>2, TypeCorrect, ConnInvariant, CallInvariant, PTL
     DEF Spec, ImplementsPromise, Promise!Spec
=============================================================================
