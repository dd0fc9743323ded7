------------------------------ MODULE RpcClient ------------------------------
(***************************************************************************)
(* The RPC client: rpcClient.Call and rpcClient.call (rpc_client.go), the  *)
(* connection pool (rpc_pool.go), the stream a request is sent on          *)
(* (rpc_stream.go) and the garbage collecting goroutine gc.                *)
(*                                                                         *)
(* Every Call runs up to Retries attempts, one after the other, each in a  *)
(* goroutine of its own that starts a further goroutine (the "sub"         *)
(* goroutine) to send the request and receive the response.  An attempt    *)
(* that gives up at the deadline leaves its sub goroutine running.  The    *)
(* response is never compared with the sequence number of the request      *)
(* (rpcStream.Recv), so that a caller only ever gets the answer to its own *)
(* request rests on who holds a connection, and when.                      *)
(*                                                                         *)
(* Data is abstracted: one provider address (the pools of two addresses    *)
(* share nothing), a request is named by its Call, a response by the Call  *)
(* whose request it answers.  A connection is named by the attempt that    *)
(* dialled it.                                                             *)
(***************************************************************************)
EXTENDS Naturals, Sequences, FiniteSets

CONSTANTS
  Calls,      \* the invocations of rpcClient.Call
  Retries,    \* CallOptions.Retries: how many attempts a Call may make
  PoolSize,   \* Options.PoolSize
  GcCap,      \* capacity of gcCh (CLEAN_CHANNEL_SIZE)
  Streaming,  \* Request.Stream(): TRUE for dubbo over tcp, FALSE for jsonrpc
  MayClose,   \* whether the user calls rpcClient.Close in this instance
  None        \* no connection, no job, no response

ASSUME ClientAssumption ==
  /\ Retries \in Nat /\ PoolSize \in Nat /\ GcCap \in Nat \ {0}
  /\ Streaming \in BOOLEAN /\ MayClose \in BOOLEAN
  /\ None \notin Calls /\ "torn" \notin Calls /\ None # "torn"
  /\ None \notin Calls \X (1 .. Retries)

Attempts == Calls \X (1 .. Retries)
Owner(a) == a[1]
Index(a) == a[2]

VARIABLES
  pc,       \* [Calls -> where Call is]
  result,   \* [Calls -> what Call returned]
  cur,      \* [Calls -> loop index i, counted from 1]
  ctxDone,  \* [Calls -> whether the context of the Call is done]
  callCh,   \* [Calls -> the channel ch of Call]
  rsp,      \* [Calls -> what the caller's response object holds]
  inTime,   \* [Calls -> history: Call returned before its context was done]
  att,      \* [Attempts -> where call is]
  conn,     \* [Attempts -> the connection of the attempt]
  gerr,     \* [Attempts -> the variable gerr of call]
  sub,      \* [Attempts -> where the send/receive goroutine is]
  subCh,    \* [Attempts -> the channel ch of call]
  got,      \* [Attempts -> the response read off the wire, not yet decoded]
  strClosed,\* [Attempts -> rpcStream.closed is closed]
  pool,     \* pool.conns[key]
  open,     \* [Attempts -> the transport connection is open]
  created,  \* [Attempts -> poolConn.created]: "zero", "live", or "old" (past the ttl)
  reqs,     \* [Attempts -> requests on the wire, towards the provider]
  rsps,     \* [Attempts -> responses on the wire, towards the client]
  gcCh,     \* the channel gcCh, of attempts (their streams)
  gcJob,    \* the stream gc is closing
  gc,       \* where the gc goroutine is
  done,     \* rpcClient.done is closed
  answered  \* history: the Calls some provider has answered without an error

callVars == <<pc, result, cur, callCh, inTime>>
attVars  == <<att, conn, gerr>>
subVars  == <<sub, subCh, got>>
poolVars == <<pool, open, created>>
wireVars == <<reqs, rsps>>
gcVars   == <<gcCh, gcJob, gc, done>>
vars == <<pc, result, cur, ctxDone, callCh, rsp, inTime, att, conn, gerr, sub, subCh,
          got, strClosed, pool, open, created, reqs, rsps, gcCh, gcJob, gc,
          done, answered>>

Outcome == {"nil", "err"}

(***************************************************************************)
(* The type invariant.                                                     *)
(***************************************************************************)
FlagTypes ==
  /\ ctxDone \in [Calls -> BOOLEAN]
  /\ inTime \in [Calls -> BOOLEAN]
  /\ strClosed \in [Attempts -> BOOLEAN]
  /\ open \in [Attempts -> BOOLEAN]
  /\ done \in BOOLEAN

CountTypes == cur \in [Calls -> 0 .. Retries]

CallTypes ==
  /\ pc \in [Calls -> {"idle", "wait", "done"}]
  /\ result \in [Calls -> {"none", "nil", "err", "timeout"}]
  /\ rsp \in [Calls -> Calls \cup {None, "torn"}]
  /\ answered \in SUBSET Calls

AttemptTypes ==
  /\ att \in [Attempts -> {"none", "get", "dial", "run", "release", "store",
                           "gc", "deliver", "done"}]
  /\ conn \in [Attempts -> Attempts \cup {None}]
  /\ gerr \in [Attempts -> Outcome]
  /\ sub \in [Attempts -> {"none", "send", "recv", "decode", "done"}]
  /\ subCh \in [Attempts -> Outcome \cup {"empty"}]
  /\ got \in [Attempts -> Calls \cup {None}]
  /\ created \in [Attempts -> {"zero", "live", "old"}]
  /\ gcJob \in Attempts \cup {None}
  /\ gc \in {"select", "close", "exit"}
  /\ gc = "close" => gcJob \in Attempts

QueueTypes ==
  /\ callCh \in [Calls -> Seq(Outcome)]
  /\ pool \in Seq(Attempts)
  /\ reqs \in [Attempts -> Seq(Calls)]
  /\ rsps \in [Attempts -> Seq([to : Calls, err : BOOLEAN])]
  /\ gcCh \in Seq(Attempts)

\* An attempt has a connection from getConn on, before its goroutine starts.
Connects ==
  \A a \in Attempts :
    /\ sub[a] # "none" => conn[a] \in Attempts
    /\ att[a] \in {"run", "release", "store", "gc"} => sub[a] # "none"
    /\ sub[a] = "decode" => got[a] \in Calls

TypeOK == /\ FlagTypes /\ CountTypes /\ CallTypes /\ AttemptTypes
          /\ QueueTypes /\ Connects

Init ==
  /\ pc = [c \in Calls |-> "idle"]
  /\ result = [c \in Calls |-> "none"]
  /\ cur = [c \in Calls |-> 0]
  /\ ctxDone = [c \in Calls |-> FALSE]
  /\ callCh = [c \in Calls |-> <<>>]
  /\ rsp = [c \in Calls |-> None]
  /\ inTime = [c \in Calls |-> FALSE]
  /\ att = [a \in Attempts |-> "none"]
  /\ conn = [a \in Attempts |-> None]
  /\ gerr = [a \in Attempts |-> "nil"]
  /\ sub = [a \in Attempts |-> "none"]
  /\ subCh = [a \in Attempts |-> "empty"]
  /\ got = [a \in Attempts |-> None]
  /\ strClosed = [a \in Attempts |-> FALSE]
  /\ pool = <<>>
  /\ open = [a \in Attempts |-> FALSE]
  /\ created = [a \in Attempts |-> "zero"]
  /\ reqs = [a \in Attempts |-> <<>>]
  /\ rsps = [a \in Attempts |-> <<>>]
  /\ gcCh = <<>>
  /\ gcJob = None
  /\ gc = "select"
  /\ done = FALSE
  /\ answered = {}

-----------------------------------------------------------------------------
(***************************************************************************)
(* Closing a connection.  ClientClose(S) is transport.Client.Close on the  *)
(* connections S.  PoolConnClose(k) is poolConn.Close: a sync.Once around  *)
(* it that also zeroes created, so created = "zero" tells the Once is used *)
(* up.                                                                     *)
(***************************************************************************)
ClientClose(S) == open' = [k \in Attempts |-> open[k] /\ k \notin S]

PoolConnClose(k) ==
  IF created[k] = "zero"
  THEN UNCHANGED <<open, created>>
  ELSE ClientClose({k}) /\ created' = [created EXCEPT ![k] = "zero"]

(***************************************************************************)
(* rpcClient.Call.                                                         *)
(***************************************************************************)
Return(c, r) ==
  /\ pc' = [pc EXCEPT ![c] = "done"]
  /\ result' = [result EXCEPT ![c] = r]
  /\ inTime' = [inTime EXCEPT ![c] = ~ctxDone[c]]

\* Iteration i of the retry loop: start the attempt's goroutine.
StartAttempt(c, i) ==
  /\ cur' = [cur EXCEPT ![c] = i]
  /\ att' = [att EXCEPT ![<<c, i>>] = "get"]

\* Call, up to the first select of its loop: the selector may fail, the
\* context may be done, there may be nothing to try (the loop returns gerr,
\* which is nil).  The user does not start a Call once Close has begun.
CallStart(c) ==
  /\ pc[c] = "idle" /\ ~done
  /\ \/ /\ Return(c, "err")
        /\ UNCHANGED <<cur, att>>
     \/ /\ ctxDone[c]
        /\ Return(c, "timeout")
        /\ UNCHANGED <<cur, att>>
     \/ /\ ~ctxDone[c]
        /\ IF Retries = 0
           THEN Return(c, "nil") /\ UNCHANGED <<cur, att>>
           ELSE /\ pc' = [pc EXCEPT ![c] = "wait"]
                /\ StartAttempt(c, 1)
                /\ UNCHANGED <<result, inTime>>
  /\ UNCHANGED <<ctxDone, callCh, rsp, conn, gerr, subVars, strClosed, poolVars,
                 wireVars, gcVars, answered>>

\* Mutant: Call only looks at its context once the attempt has reported.
CallTimeoutLate(c) ==
  /\ pc[c] = "wait" /\ ctxDone[c] /\ callCh[c] # <<>>
  /\ Return(c, "timeout")
  /\ UNCHANGED <<cur, ctxDone, callCh, rsp, attVars, subVars, strClosed, poolVars,
                 wireVars, gcVars, answered>>

\* Call's select, case <-ctx.Done().
CallTimeout(c) ==
  /\ pc[c] = "wait" /\ ctxDone[c]
  /\ Return(c, "timeout")
  /\ UNCHANGED <<cur, ctxDone, callCh, rsp, attVars, subVars, strClosed, poolVars,
                 wireVars, gcVars, answered>>

\* Mutant: gerr is shadowed in the loop, the last error is lost.
CallReceiveShadowed(c) ==
  /\ pc[c] = "wait" /\ callCh[c] # <<>>
  /\ callCh' = [callCh EXCEPT ![c] = Tail(@)]
  /\ IF Head(callCh[c]) = "err" /\ cur[c] < Retries
     THEN StartAttempt(c, cur[c] + 1) /\ UNCHANGED <<pc, result, inTime>>
     ELSE Return(c, "nil") /\ UNCHANGED <<cur, att>>
  /\ UNCHANGED <<ctxDone, rsp, conn, gerr, subVars, strClosed, poolVars, wireVars,
                 gcVars, answered>>

\* Call's select, case err := <-ch: return nil, go round the loop, or return
\* the last error.  When the context is done too, select may still choose
\* this case and start another attempt.
CallReceive(c) ==
  /\ pc[c] = "wait" /\ callCh[c] # <<>>
  /\ callCh' = [callCh EXCEPT ![c] = Tail(@)]
  /\ \/ /\ Head(callCh[c]) = "nil"
        /\ Return(c, "nil")
        /\ UNCHANGED <<cur, att>>
     \/ /\ Head(callCh[c]) = "err" /\ cur[c] < Retries
        /\ StartAttempt(c, cur[c] + 1)
        /\ UNCHANGED <<pc, result, inTime>>
     \/ /\ Head(callCh[c]) = "err" /\ cur[c] = Retries
        /\ Return(c, "err")
        /\ UNCHANGED <<cur, att>>
  /\ UNCHANGED <<ctxDone, rsp, conn, gerr, subVars, strClosed, poolVars, wireVars,
                 gcVars, answered>>

\* The deadline of the context passes, or the user cancels it.  Call drops
\* the cancel function of the context it makes, so this comes sooner or later.
CtxExpire(c) ==
  /\ ~ctxDone[c]
  /\ ctxDone' = [ctxDone EXCEPT ![c] = TRUE]
  /\ UNCHANGED <<callVars, rsp, attVars, subVars, strClosed, poolVars, wireVars,
                 gcVars, answered>>

-----------------------------------------------------------------------------
(***************************************************************************)
(* rpcClient.call, one attempt.                                            *)
(***************************************************************************)
\* The select of call reads conn, so the attempt and its sub goroutine start
\* together once there is a connection k.
Connected(a, k) ==
  /\ conn' = [conn EXCEPT ![a] = k]
  /\ att' = [att EXCEPT ![a] = "run"]
  /\ sub' = [sub EXCEPT ![a] = "send"]

\* pool.getConn pops from the tail and skips the connections past their ttl;
\* now - 0 exceeds every ttl, so the destroyed ones too.  PopsTo(i): it stops
\* at position i of the pool; at 0 if none is left.
PopsTo(i) ==
  /\ i > 0 => created[pool[i]] = "live"
  /\ \A j \in (i + 1) .. Len(pool) : created[pool[j]] # "live"

\* next(reqID) fails: the attempt reports an error.
NextFail(a) ==
  /\ att[a] = "get"
  /\ gerr' = [gerr EXCEPT ![a] = "err"]
  /\ att' = [att EXCEPT ![a] = "deliver"]
  /\ UNCHANGED <<callVars, ctxDone, rsp, conn, subVars, strClosed, poolVars,
                 wireVars, gcVars, answered>>

\* Mutant: an off-by-one leaves the connection taken in the pool.
GetConnKeeps(a) ==
  /\ att[a] = "get"
  /\ \E i \in 0 .. Len(pool) :
       /\ PopsTo(i)
       /\ ClientClose({pool[j] : j \in (i + 1) .. Len(pool)})
       /\ pool' = SubSeq(pool, 1, i)
       /\ IF i = 0
          THEN att' = [att EXCEPT ![a] = "dial"] /\ UNCHANGED <<conn, sub>>
          ELSE Connected(a, pool[i])
  /\ UNCHANGED <<callVars, ctxDone, rsp, gerr, subCh, got, strClosed, created,
                 wireVars, gcVars, answered>>

\* pool.getConn, the part under the lock: close what is too old, and take
\* the first good connection from the tail, or go on to dial.
GetConn(a) ==
  /\ att[a] = "get"
  /\ \E i \in 0 .. Len(pool) :
       /\ PopsTo(i)
       /\ ClientClose({pool[j] : j \in (i + 1) .. Len(pool)})
       /\ \/ /\ i = 0
             /\ pool' = <<>>
             /\ att' = [att EXCEPT ![a] = "dial"]
             /\ UNCHANGED <<conn, sub>>
          \/ /\ i > 0
             /\ pool' = SubSeq(pool, 1, i - 1)
             /\ Connected(a, pool[i])
  /\ UNCHANGED <<callVars, ctxDone, rsp, gerr, subCh, got, strClosed, created,
                 wireVars, gcVars, answered>>

\* Mutant: call goes on after a failed Dial.
DialGoesOn(a) ==
  /\ att[a] = "dial"
  /\ gerr' = [gerr EXCEPT ![a] = "err"]
  /\ att' = [att EXCEPT ![a] = "run"]
  /\ UNCHANGED <<callVars, ctxDone, rsp, conn, subVars, strClosed, poolVars,
                 wireVars, gcVars, answered>>

\* pool.getConn, after the unlock: tr.Dial gives a new connection or fails.
\* On failure call returns before its defer is set up.
Dial(a) ==
  /\ att[a] = "dial"
  /\ \/ /\ open' = [open EXCEPT ![a] = TRUE]
        /\ created' = [created EXCEPT ![a] = "live"]
        /\ Connected(a, a)
        /\ UNCHANGED gerr
     \/ /\ gerr' = [gerr EXCEPT ![a] = "err"]
        /\ att' = [att EXCEPT ![a] = "deliver"]
        /\ UNCHANGED <<open, created, conn, sub>>
  /\ UNCHANGED <<callVars, ctxDone, rsp, subCh, got, strClosed, pool,
                 wireVars, gcVars, answered>>

\* Mutant: the timeout is not recorded in gerr, which the deferred function reads.
AttemptSelectNilErr(a) ==
  /\ att[a] = "run"
  /\ \/ subCh[a] # "empty" /\ gerr' = [gerr EXCEPT ![a] = subCh[a]]
     \/ ctxDone[Owner(a)] /\ UNCHANGED gerr
  /\ att' = [att EXCEPT ![a] = IF Streaming THEN "release" ELSE "gc"]
  /\ UNCHANGED <<callVars, ctxDone, rsp, conn, subVars, strClosed, poolVars,
                 wireVars, gcVars, answered>>

\* Mutant: an attempt gives up on a timer of its own, before the deadline.
AttemptSelectEarly(a) ==
  /\ att[a] = "run"
  /\ \/ subCh[a] # "empty" /\ gerr' = [gerr EXCEPT ![a] = subCh[a]]
     \/ gerr' = [gerr EXCEPT ![a] = "err"]
  /\ att' = [att EXCEPT ![a] = IF Streaming THEN "release" ELSE "gc"]
  /\ UNCHANGED <<callVars, ctxDone, rsp, conn, subVars, strClosed, poolVars,
                 wireVars, gcVars, answered>>

\* The select of call: the sub goroutine's outcome, or ctx.Done().  The
\* deferred function runs next; it only uses the pool for streaming requests.
AttemptSelect(a) ==
  /\ att[a] = "run"
  /\ \/ subCh[a] # "empty" /\ gerr' = [gerr EXCEPT ![a] = subCh[a]]
     \/ ctxDone[Owner(a)] /\ gerr' = [gerr EXCEPT ![a] = "err"]
  /\ att' = [att EXCEPT ![a] = IF Streaming THEN "release" ELSE "gc"]
  /\ UNCHANGED <<callVars, ctxDone, rsp, conn, subVars, strClosed, poolVars,
                 wireVars, gcVars, answered>>

\* Mutant: release ignores the error of the attempt.
ReleaseIgnoresErr(a) ==
  /\ att[a] = "release"
  /\ att' = [att EXCEPT ![a] = IF created[conn[a]] = "zero" THEN "gc" ELSE "store"]
  /\ UNCHANGED <<callVars, ctxDone, rsp, conn, gerr, subVars, strClosed, poolVars,
                 wireVars, gcVars, answered>>

\* pool.release up to its lock: a destroyed connection is dropped, one with
\* an error is closed.
Release(a) ==
  /\ att[a] = "release"
  /\ IF created[conn[a]] = "zero" \/ gerr[a] = "err"
     THEN /\ att' = [att EXCEPT ![a] = "gc"]
          /\ PoolConnClose(conn[a])
     ELSE /\ att' = [att EXCEPT ![a] = "store"]
          /\ UNCHANGED <<open, created>>
  /\ UNCHANGED <<callVars, ctxDone, rsp, conn, gerr, subVars, strClosed, pool,
                 wireVars, gcVars, answered>>

\* pool.release, the part under the lock: keep the connection, or close the
\* transport (not through poolConn.Close) when the pool is full.
Store(a) ==
  /\ att[a] = "store"
  /\ att' = [att EXCEPT ![a] = "gc"]
  /\ IF Len(pool) >= PoolSize
     THEN ClientClose({conn[a]}) /\ UNCHANGED pool
     ELSE pool' = Append(pool, conn[a]) /\ UNCHANGED open
  /\ UNCHANGED <<callVars, ctxDone, rsp, conn, gerr, subVars, strClosed, created,
                 wireVars, gcVars, answered>>

\* c.gcCh <- stream, which blocks while the channel is full.
GcPut(a) ==
  /\ att[a] = "gc" /\ Len(gcCh) < GcCap
  /\ gcCh' = Append(gcCh, a)
  /\ att' = [att EXCEPT ![a] = "deliver"]
  /\ UNCHANGED <<callVars, ctxDone, rsp, conn, gerr, subVars, strClosed, poolVars,
                 wireVars, gcJob, gc, done, answered>>

\* Mutant: the channel of Call is unbuffered, and nobody waits after a timeout.
ChCapNone == 0
\* ch <- call(index), which blocks while the channel is full.
ChCap == Retries
Deliver(a) ==
  /\ att[a] = "deliver" /\ Len(callCh[Owner(a)]) < ChCap
  /\ callCh' = [callCh EXCEPT ![Owner(a)] = Append(@, gerr[a])]
  /\ att' = [att EXCEPT ![a] = "done"]
  /\ UNCHANGED <<pc, result, cur, inTime, ctxDone, rsp, conn, gerr, subVars,
                 strClosed, poolVars, wireVars, gcVars, answered>>

-----------------------------------------------------------------------------
(***************************************************************************)
(* The sub goroutine of an attempt: stream.Send, then stream.Recv.         *)
(***************************************************************************)
SubEnd(a, outcome) ==
  /\ sub' = [sub EXCEPT ![a] = "done"]
  /\ subCh' = [subCh EXCEPT ![a] = outcome]

\* The goroutine fails: the stream or the connection is closed, the network
\* or the codec reports an error, the read deadline passes, or it panics.
SubFail(a) ==
  /\ sub[a] \in {"send", "recv"}
  /\ SubEnd(a, "err")
  /\ UNCHANGED <<callVars, ctxDone, rsp, attVars, got, strClosed, poolVars, wireVars,
                 gcVars, answered>>

\* rpcStream.Send writes the request to an open connection; rpcStream.Recv
\* finds the stream open and starts to read.
Send(a) ==
  /\ sub[a] = "send" /\ ~strClosed[a] /\ open[conn[a]]
  /\ sub' = [sub EXCEPT ![a] = "recv"]
  /\ reqs' = [reqs EXCEPT ![conn[a]] = Append(@, Owner(a))]
  /\ UNCHANGED <<callVars, ctxDone, rsp, attVars, subCh, got, strClosed, poolVars,
                 rsps, gcVars, answered>>

\* rpcStream.Recv, ReadResponseHeader: takes the next response of the
\* connection, whoever it is for.  An error response ends the attempt.
RecvHeader(a) ==
  /\ sub[a] = "recv" /\ open[conn[a]] /\ rsps[conn[a]] # <<>>
  /\ rsps' = [rsps EXCEPT ![conn[a]] = Tail(@)]
  /\ IF Head(rsps[conn[a]]).err
     THEN SubEnd(a, "err") /\ UNCHANGED got
     ELSE /\ sub' = [sub EXCEPT ![a] = "decode"]
          /\ got' = [got EXCEPT ![a] = Head(rsps[conn[a]]).to]
          /\ UNCHANGED subCh
  /\ UNCHANGED <<callVars, ctxDone, rsp, attVars, strClosed, poolVars, reqs, gcVars,
                 answered>>

\* rpcStream.Recv, ReadResponseBody: decodes into the caller's object.  A
\* decoder that fails, or whose buffer gc resets meanwhile, may leave the
\* object half written.
RecvBody(a) ==
  /\ sub[a] = "decode"
  /\ \/ /\ SubEnd(a, "nil")
        /\ rsp' = [rsp EXCEPT ![Owner(a)] = got[a]]
     \/ /\ SubEnd(a, "err")
        /\ \/ UNCHANGED rsp
           \/ rsp' = [rsp EXCEPT ![Owner(a)] = "torn"]
  /\ UNCHANGED <<callVars, ctxDone, attVars, got, strClosed, poolVars, wireVars,
                 gcVars, answered>>

-----------------------------------------------------------------------------
(***************************************************************************)
(* The provider (external) and time.                                       *)
(***************************************************************************)
\* The provider answers the requests of a connection in order, with a
\* result or with an error.  It may also never answer.
Provide(k) ==
  /\ reqs[k] # <<>>
  /\ reqs' = [reqs EXCEPT ![k] = Tail(@)]
  /\ \E err \in BOOLEAN :
       /\ rsps' = [rsps EXCEPT ![k] = Append(@, [to |-> Head(reqs[k]), err |-> err])]
       /\ answered' = IF err THEN answered ELSE answered \cup {Head(reqs[k])}
  /\ UNCHANGED <<callVars, ctxDone, rsp, attVars, subVars, strClosed, poolVars,
                 gcVars>>

\* The ttl of a connection passes.
Age(k) ==
  /\ created[k] = "live"
  /\ created' = [created EXCEPT ![k] = "old"]
  /\ UNCHANGED <<callVars, ctxDone, rsp, attVars, subVars, strClosed, pool, open,
                 wireVars, gcVars, answered>>

-----------------------------------------------------------------------------
(***************************************************************************)
(* rpcClient.gc and rpcClient.Close.                                       *)
(***************************************************************************)
\* gc takes a stream; rpcStream.Close closes its channel.
GcTake ==
  /\ gc = "select" /\ gcCh # <<>>
  /\ gc' = "close"
  /\ gcJob' = Head(gcCh)
  /\ gcCh' = Tail(gcCh)
  /\ strClosed' = [strClosed EXCEPT ![Head(gcCh)] = TRUE]
  /\ UNCHANGED <<callVars, ctxDone, rsp, attVars, subVars, poolVars, wireVars, done,
                 answered>>

\* Mutant: gc closes the stream and forgets the connection.
GcCloseForgets ==
  /\ gc = "close"
  /\ gc' = "select"
  /\ gcJob' = None
  /\ UNCHANGED <<callVars, ctxDone, rsp, attVars, subVars, strClosed, poolVars,
                 wireVars, gcCh, done, answered>>

\* rpcStream.Close goes on to rpcCodec.Close and poolConn.Close.
\* httpTransportClient.Close waits for the mutex Recv holds while it reads.
GcClose ==
  /\ gc = "close"
  /\ Streaming \/ sub[gcJob] # "recv"
  /\ PoolConnClose(conn[gcJob])
  /\ gc' = "select"
  /\ gcJob' = None
  /\ UNCHANGED <<callVars, ctxDone, rsp, attVars, subVars, strClosed, pool, wireVars,
                 gcCh, done, answered>>

\* gc's select, case <-c.done.
GcExit ==
  /\ gc = "select" /\ done
  /\ gc' = "exit"
  /\ UNCHANGED <<callVars, ctxDone, rsp, attVars, subVars, strClosed, poolVars,
                 wireVars, gcCh, gcJob, done, answered>>

\* rpcClient.Close: close(c.done), then it waits for gc.
Close ==
  /\ MayClose /\ ~done
  /\ done' = TRUE
  /\ UNCHANGED <<callVars, ctxDone, rsp, attVars, subVars, strClosed, poolVars,
                 wireVars, gcCh, gcJob, gc, answered>>

-----------------------------------------------------------------------------
CallStep(c) == CallTimeout(c) \/ CallReceive(c)
AttemptStep(a) == \/ NextFail(a) \/ GetConn(a) \/ Dial(a) \/ AttemptSelect(a)
                  \/ Release(a) \/ Store(a) \/ GcPut(a) \/ Deliver(a)
SubStep(a) == SubFail(a) \/ Send(a) \/ RecvHeader(a) \/ RecvBody(a)
GcStep == GcTake \/ GcClose \/ GcExit

Next ==
  \/ \E c \in Calls : CallStart(c) \/ CallStep(c) \/ CtxExpire(c)
  \/ \E a \in Attempts : AttemptStep(a) \/ SubStep(a) \/ Provide(a) \/ Age(a)
  \/ GcStep
  \/ Close

Spec == Init /\ [][Next]_vars

\* Goroutines that can run do, deadlines pass.  Nothing makes the user call or
\* the provider answer.  A network operation ends at the latest with its
\* deadline (SubFail).
Fairness ==
  /\ \A c \in Calls : WF_vars(CallStep(c)) /\ WF_vars(CtxExpire(c))
  /\ \A a \in Attempts : WF_vars(AttemptStep(a)) /\ WF_vars(SubStep(a))
  /\ WF_vars(GcStep)

FairSpec == Spec /\ Fairness

-----------------------------------------------------------------------------
(***************************************************************************)
(* Properties.                                                             *)
(***************************************************************************)
Busy(a) == sub[a] \in {"send", "recv", "decode"}
InPool(k) == \E i \in 1 .. Len(pool) : pool[i] = k

\* call, pool.getConn, pool.release: no two send/receive goroutines use the
\* same open connection, and none uses a connection that lies in the pool,
\* although attempts abandon their goroutine at the deadline.
ConnExclusive ==
  \A a, b \in Attempts :
    /\ Busy(a) /\ Busy(b) /\ a # b /\ conn[a] = conn[b] => ~open[conn[a]]
    /\ Busy(a) => ~InPool(conn[a])

\* rpcStream.Recv never compares sequence numbers: still, no caller's
\* response object ever holds the answer to someone else's request.
OwnResponse == \A c \in Calls : rsp[c] \in {None, "torn", c}

\* pool.release: a connection in the pool carries neither
\* a request awaiting its answer nor an answer nobody has read.
PooledQuiet ==
  \A k \in Attempts : InPool(k) => reqs[k] = <<>> /\ rsps[k] = <<>>

\* Call: when Call has returned nil before its context was done, the
\* response object holds the whole answer, and no abandoned goroutine spoils
\* it later on.
AnswerStays ==
  \A c \in Calls : pc[c] = "done" /\ result[c] = "nil" /\ inTime[c] => rsp[c] = c

\* Call: the caller's object only changes after Call has returned if the
\* context is done by then (the goroutine abandoned at the deadline).
WritesInTime == \A c \in Calls : pc[c] = "done" /\ rsp'[c] # rsp[c] => ctxDone[c]
NoLateWrite == [][WritesInTime]_vars

\* call, gc: every attempt comes to an end, even if nobody reads its result.
AttemptsEnd ==
  \A a \in Attempts : (att[a] # "none") ~> (att[a] = "done")

\* gc: every connection that was dialled is closed in the end.
ConnsReclaimed ==
  \A k \in Attempts : open[k] ~> ~open[k]

\* rpcClient.Call implements what RpcCallSpec promises its caller.
Promise == INSTANCE RpcCallSpec WITH
  status   <- [c \in Calls |-> CASE pc[c] = "idle" -> "idle"
                                 [] pc[c] = "wait" -> "pending"
                                 [] pc[c] = "done" -> result[c]],
  expired  <- {c \in Calls : ctxDone[c]},
  answered <- answered

ImplementsPromise == Promise!Spec
CallReturns == Promise!Returns

(***************************************************************************)
(* The inductive invariant behind OwnResponse and ConnExclusive.           *)
(***************************************************************************)
\* An attempt holds its connection from getConn until pool.release; over
\* http, where nothing is pooled, for ever.
Holds(a) == /\ conn[a] # None
            /\ ~Streaming \/ att[a] \in {"run", "release", "store"}

Quiet(k) == reqs[k] = <<>> /\ rsps[k] = <<>>

\* The attempt has not asked for a connection, or none was free to reuse.
Fresh(a) == att[a] \in {"none", "get", "dial"}

\* The attempts of a Call are started in the order of the loop.
Started ==
  /\ \A a \in Attempts : att[a] # "none" => Index(a) <= cur[Owner(a)]
  /\ \A c \in Calls : pc[c] = "idle" => cur[c] = 0

\* How far an attempt, its goroutine and the connection it dials have got.
Stages ==
  \A a \in Attempts :
    /\ Fresh(a) => conn[a] = None /\ Quiet(a) /\ ~InPool(a)
    /\ conn[a] # None => sub[a] # "none" /\ ~Fresh(conn[a])
    /\ subCh[a] # "empty" => sub[a] = "done"
    /\ att[a] \in {"release", "store"} /\ gerr[a] = "nil" => subCh[a] = "nil"
    /\ att[a] = "store" => gerr[a] = "nil"
    /\ att[a] \in {"release", "store"} => Streaming
    /\ created[a] = "zero" => ~open[a]
    /\ sub[a] = "decode" => got[a] = Owner(a)

\* A connection is held by one attempt, or lies in the pool once, or neither;
\* a goroutine whose attempt no longer holds its connection can only see it
\* closed, out of the pool and out of use.
Holding ==
  /\ \A a, b \in Attempts : Holds(a) /\ Holds(b) /\ conn[a] = conn[b] => a = b
  /\ \A a \in Attempts : Holds(a) => ~InPool(conn[a])
  /\ \A a \in Attempts : Busy(a) /\ ~Holds(a) =>
       /\ ~open[conn[a]] /\ ~InPool(conn[a])
       /\ \A b \in Attempts : Holds(b) => conn[b] # conn[a]

PoolDistinct == \A i, j \in 1 .. Len(pool) : pool[i] = pool[j] => i = j

\* The request of Call c, or its answer, is all there is on connection k.
Asked(k, c) ==
  \/ reqs[k] = <<c>> /\ rsps[k] = <<>>
  \/ reqs[k] = <<>> /\ \E err \in BOOLEAN : rsps[k] = <<[to |-> c, err |-> err]>>

\* What is on the wire of a connection, by the stage of its holder.
OnWire ==
  /\ \A k \in Attempts : InPool(k) => Quiet(k)
  /\ \A a \in Attempts : Holds(a) =>
       /\ sub[a] \in {"send", "decode"} => Quiet(conn[a])
       /\ subCh[a] = "nil" => Quiet(conn[a])
       /\ sub[a] = "recv" => Asked(conn[a], Owner(a))

ConnInv == Started /\ Stages /\ Holding /\ PoolDistinct /\ OnWire /\ OwnResponse

(***************************************************************************)
(* What comments in the code say, and the code does not do.                *)
(***************************************************************************)
\* rpc_pool.go, release: the connection is put back "for reuse": a
\* connection in the pool has not been closed.
PooledUsable == \A k \in Attempts : InPool(k) => open[k]
=============================================================================
