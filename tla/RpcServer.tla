------------------------------ MODULE RpcServer ------------------------------
(***************************************************************************)
(* The server: Handle registers services, Start listens on every address   *)
(* of the configuration and runs an accept loop for each, handlePkg serves *)
(* a connection, Stop ends the listeners.  With it the sockets and         *)
(* listeners of both transports, the server's half of jsonrpc, and at the  *)
(* other end of a connection the client of the http transport.             *)
(* Sources: server/*.go, transport/*.go, codec/jsonrpc/*.go.               *)
(***************************************************************************)
EXTENDS Integers, Sequences, FiniteSets

CONSTANTS
  Protocols,    \* Options.ConfList: the protocol of each address
  ServiceConf,  \* Options.ServiceConfList: <<[service, version, protocol], ..>>
  Handlers,     \* what is passed to Handle: records [service, version, methods]
  Packages,     \* what clients send: records [service, method, form]; form is
                \*   "ok" or what is wrong: "type": an unknown content type;
                \*   "header": JSON that is no JSON-RPC request; "body": the
                \*   parameters do not fit the method
  Sig,          \* the signature of each method, as reflection shows it
  Conns,        \* connections clients may open
  MaxConn,      \* DefaultMAXConnNum, capacity of a listener's semaphore
  FreeCap,      \* FREE_LIST_SIZE
  MaxReqs,      \* bound: requests sent, shared evenly by the clients
  MaxActors,    \* bound: addresses, clients, concurrent calls of Handle and Stop
  None

ASSUME ServerAssumption ==
  /\ MaxConn \in Nat \ {0} /\ FreeCap \in Nat /\ MaxReqs \in Nat /\ MaxActors \in Nat
  /\ IsFiniteSet(Conns) /\ IsFiniteSet(Handlers) /\ Len(Protocols) \in Nat \ {0}
  /\ Len(ServiceConf) \in Nat
  /\ None \notin Conns \X Nat

VARIABLES
  tcp,       \* the transport: tcp or http
  n,         \* number of addresses configured
  peers,     \* the clients of this behaviour
  mayStop,   \* whether Stop is called in this behaviour
  start,     \* Start: "listen", "spawn", "ok", "err"
  i,         \* its loop variable
  listener,  \* its variables listener (0 is nil) and rpc, which the
  rpc,       \*   goroutines capture
  lis,       \* net.Listener of each address: "none", "open", "closed"
  acc,       \* the accept goroutine of each address
  on,        \* the listener it accepts on
  sem,       \* slots taken of each listener's semaphore
  fin,       \* the goroutine of each address that waits for done
  done,      \* the channel done is closed
  stop,      \* Stop: "idle", "wait", "close", "done"
  reg,       \* opts.Registry: "open", "closed", "nil"
  panicked,  \* a goroutine without recover has panicked: the process is gone
  hpc,       \* Handle, for each handler
  todo,      \*   the pairs of its loops that are left
  hreg,      \*   its copy of opts.Registry
  services,  \* serviceMap of each rpcServer
  published, \* what Registry.Register was told: <<service, address>>
  conn,      \* each connection, at the server:
             \*   st: where handlePkg is; at: the address dialled; servo: the
             \*   rpcServer that serves it; isOpen: its socket is open;
             \*   inQ, outQ: packages in transit, to the server and back;
             \*   cur: the package being served; fails: serveRequest will
             \*   return an error; req, resp: the request and the response
             \*   object in use; pending, cseq: jsonrpc's <<number, id>> of
             \*   requests not answered, and its last number; sseq:
             \*   rpcStream.seq; reqQ: the request whose header the http
             \*   socket uses for responses (0: none)
  freeReq,   \* the free lists of each rpcServer
  freeRsp,
  cl         \* each connection, at the client: st; stream: DialOptions.Stream;
             \*   r, bl: the channel r and the backlog; sent: requests sent

startVars == <<start, i, listener, rpc>>
accVars == <<acc, on>>
stopVars == <<done, stop, reg>>
lifeVars == <<startVars, accVars, stopVars, lis, fin>>
handleVars == <<hpc, todo, hreg, services, published>>
vars == <<tcp, n, peers, mayStop, lifeVars, sem, panicked, handleVars, conn, freeReq, freeRsp, cl>>

Addrs == 1 .. Len(Protocols)
Used == 1 .. n
Least(S) == CHOOSE x \in S : \A y \in S : x <= y

(***************************************************************************)
(* Handle                                                                  *)
(***************************************************************************)
\* Which methods can be called, and how.  The type of the context argument
\* is not looked at.
prepareMethod(s) ==
  CASE ~s.exported \/ s.out # <<"error">>                       -> "none"
    [] s.numIn = 3 /\ s.streamer                                -> "stream"
    [] s.numIn = 4 /\ s.argExported /\ s.replyPtr /\ s.replyExported -> "unary"
    [] OTHER                                                    -> "none"

Suitable(h) == {m \in h.methods : prepareMethod(Sig[m]) # "none"}

\* The rounds of Handle's two loops that register something: the k-th round
\* is for a service configuration and an address.
ConfOf(k) == ((k - 1) \div n) + 1
AddrOf(k) == ((k - 1) % n) + 1
Rounds(h) ==
  {k \in 1 .. Len(ServiceConf) * n :
     LET s == ServiceConf[ConfOf(k)] IN
       /\ s.service = h.service /\ s.version = h.version
       /\ Protocols[AddrOf(k)] = s.protocol}

HandleBegin(h) ==
  /\ hpc[h] = "idle"
  /\ hreg' = [hreg EXCEPT ![h] = reg]
  /\ todo' = [todo EXCEPT ![h] = Rounds(h)]
  /\ hpc' = [hpc EXCEPT ![h] = IF Rounds(h) = {} THEN "failed" ELSE "register"]
  /\ UNCHANGED <<services, published>>

\* rpcServer.register, under both locks.
register(h) ==
  LET a == AddrOf(Least(todo[h])) IN
    /\ hpc[h] = "register"
    /\ IF h.service \in DOMAIN services[a] \/ Suitable(h) = {}
         THEN /\ hpc' = [hpc EXCEPT ![h] = "failed"]
              /\ UNCHANGED services
         ELSE /\ hpc' = [hpc EXCEPT ![h] = "publish"]
              /\ services' = [services EXCEPT ![a] =
                   [s \in DOMAIN @ \cup {h.service} |->
                      IF s = h.service THEN Suitable(h) ELSE @[s]]]
    /\ UNCHANGED <<todo, hreg, published>>

\* Mutant: one registration is enough for Handle to be done.
PublishOne(h) ==
  /\ hpc[h] = "publish" /\ hreg[h] # "nil" /\ reg = "open"
  /\ published' = published \cup {<<h.service, AddrOf(Least(todo[h]))>>}
  /\ hpc' = [hpc EXCEPT ![h] = "ok"]
  /\ UNCHANGED <<todo, hreg, services>>

\* config.Registry.Register (the registry is external: it may refuse, and
\* does once it is closed).
Publish(h) ==
  LET k == Least(todo[h]) IN
    /\ hpc[h] = "publish"
    /\ hreg[h] # "nil"
    /\ \/ /\ reg = "open"
          /\ published' = published \cup {<<h.service, AddrOf(k)>>}
          /\ todo' = [todo EXCEPT ![h] = @ \ {k}]
          /\ hpc' = [hpc EXCEPT ![h] = IF todo[h] = {k} THEN "ok" ELSE "register"]
       \/ /\ hpc' = [hpc EXCEPT ![h] = "failed"]
          /\ UNCHANGED <<published, todo>>
    /\ UNCHANGED <<hreg, services>>

HandleNext ==
  /\ \E h \in Handlers : HandleBegin(h) \/ register(h) \/ Publish(h)
  /\ UNCHANGED <<tcp, n, peers, mayStop, lifeVars, sem, panicked, conn, freeReq, freeRsp, cl>>

\* Handle after Stop: a call on a nil registry.
HandlePanic ==
  /\ \E h \in Handlers : hpc[h] = "publish" /\ hreg[h] = "nil"
  /\ panicked' = TRUE
  /\ UNCHANGED <<tcp, n, peers, mayStop, lifeVars, sem, handleVars, conn, freeReq, freeRsp, cl>>

(***************************************************************************)
(* Start, its goroutines, the listeners, Stop                              *)
(***************************************************************************)
\* Transport.Listen: when it fails, the variable listener is nil.
Listen(a) ==
  \/ /\ lis' = [lis EXCEPT ![a] = "open"]
     /\ listener' = a
  \/ /\ listener' = 0
     /\ UNCHANGED lis

StartListen ==
  /\ start = "listen"
  /\ Listen(i)
  /\ start' = IF listener' = 0 THEN "err" ELSE "spawn"
  /\ UNCHANGED <<accVars, stopVars, conn, i, rpc, fin, sem, panicked>>

StartSpawn ==
  /\ start = "spawn"
  /\ rpc' = i
  /\ acc' = [acc EXCEPT ![i] = "new"]
  /\ fin' = [fin EXCEPT ![i] = "wait"]
  /\ i' = i + 1
  /\ start' = IF i = n THEN "ok" ELSE "listen"
  /\ UNCHANGED <<stopVars, conn, listener, lis, on, sem, panicked>>

\* The goroutine evaluates the captured variable listener.
AcceptBegin(a) ==
  /\ acc[a] = "new"
  /\ IF listener = 0
       THEN panicked' = TRUE /\ UNCHANGED <<accVars>>
       ELSE /\ on' = [on EXCEPT ![a] = listener]
            /\ acc' = [acc EXCEPT ![a] = "acquire"]
            /\ UNCHANGED panicked
  /\ UNCHANGED <<startVars, stopVars, conn, lis, fin, sem>>

acquire(a) ==
  /\ acc[a] = "acquire" /\ sem[on[a]] < MaxConn
  /\ sem' = [sem EXCEPT ![on[a]] = @ + 1]
  /\ acc' = [acc EXCEPT ![a] = "accept"]
  /\ UNCHANGED <<startVars, stopVars, conn, lis, on, fin, panicked>>

\* A connection is accepted and gets a goroutine.
Accept(a) ==
  /\ acc[a] = "accept" /\ lis[on[a]] = "open"
  /\ \E c \in Conns :
       /\ conn[c].st = "dialled" /\ conn[c].at = on[a]
       /\ conn' = [conn EXCEPT ![c].st = "accepted", ![c].isOpen = TRUE]
  /\ acc' = [acc EXCEPT ![a] = "acquire"]
  /\ UNCHANGED <<startVars, stopVars, lis, on, fin, panicked, sem>>

\* Mutant: every error is taken for a temporary one.
AcceptRetry(a) ==
  /\ acc[a] = "accept"
  /\ sem' = [sem EXCEPT ![on[a]] = @ - 1]
  /\ acc' = [acc EXCEPT ![a] = "acquire"]
  /\ UNCHANGED <<startVars, stopVars, conn, lis, on, fin, panicked>>

\* An error of net.Listener.Accept: a temporary one, or the listener is closed.
AcceptError(a) ==
  /\ acc[a] = "accept"
  /\ sem' = [sem EXCEPT ![on[a]] = @ - 1]
  /\ acc' = [acc EXCEPT ![a] = IF lis[on[a]] = "closed" THEN "ended" ELSE "acquire"]
  /\ UNCHANGED <<startVars, stopVars, conn, lis, on, fin, panicked>>

\* Mutant: the goroutine closes the captured variable listener.
CloseCaptured(a) ==
  /\ fin[a] = "wait" /\ done
  /\ lis' = [lis EXCEPT ![listener] = "closed"]
  /\ fin' = [fin EXCEPT ![a] = "ended"]
  /\ UNCHANGED <<startVars, accVars, stopVars, conn, panicked, sem>>

\* The goroutine that waits for done closes its own listener; connections
\* nobody has accepted are reset.
CloseListener(a) ==
  /\ fin[a] = "wait" /\ done
  /\ lis' = [lis EXCEPT ![a] = "closed"]
  /\ fin' = [fin EXCEPT ![a] = "ended"]
  /\ conn' = [c \in Conns |-> IF conn[c].st = "dialled" /\ conn[c].at = a
                                THEN [conn[c] EXCEPT !.st = "closed"] ELSE conn[c]]
  /\ UNCHANGED <<startVars, accVars, stopVars, panicked, sem>>

StopBegin ==
  /\ mayStop /\ stop = "idle"
  /\ done' = TRUE /\ stop' = "wait"
  /\ UNCHANGED <<startVars, accVars, conn, lis, fin, reg, panicked, sem>>

\* wg.Wait, then Registry.Close.
StopWait ==
  /\ stop = "wait"
  /\ \A a \in Addrs : acc[a] \in {"none", "ended"} /\ fin[a] \in {"none", "ended"}
  /\ stop' = "close" /\ reg' = "closed"
  /\ UNCHANGED <<startVars, accVars, conn, lis, fin, done, panicked, sem>>

StopEnd ==
  /\ stop = "close"
  /\ stop' = "done" /\ reg' = "nil"
  /\ UNCHANGED <<startVars, accVars, conn, lis, fin, done, panicked, sem>>

LifeFrame == UNCHANGED <<tcp, n, peers, mayStop, handleVars, freeReq, freeRsp, cl>>
LifeNext ==
  /\ \/ StartListen \/ StartSpawn \/ StopBegin \/ StopWait \/ StopEnd
     \/ \E a \in Addrs : AcceptBegin(a) \/ acquire(a) \/ Accept(a) \/ AcceptError(a)
                           \/ CloseListener(a)
  /\ LifeFrame

(***************************************************************************)
(* A connection at the server: handlePkg and what it calls                 *)
(***************************************************************************)
Update(c, rec) == conn' = [conn EXCEPT ![c] = rec]

\* Socket.Send: what is written after either end has closed is lost.
Sent(c, k, msg) ==
  IF k.isOpen /\ cl[c].st # "closed" THEN [k EXCEPT !.outQ = Append(@, msg)] ELSE k

\* A response; the http socket gives it the header of the request in reqQ.
Answer(id, k) == [id |-> id, header |-> k.reqQ]

\* Mutant: Close without the Once.
ReleaseAgain(c) == sem' = IF tcp THEN sem ELSE [sem EXCEPT ![conn[c].at] = @ - 1]

\* Socket.Close: http runs it once and frees the listener's slot; tcp does not.
Release(c) ==
  sem' = IF conn[c].isOpen /\ ~tcp THEN [sem EXCEPT ![conn[c].at] = @ - 1] ELSE sem

\* getRequest and getResponse: an object of the free list, or a new one,
\* named by the package it is made for.
Taken(free, c) == IF free = <<>> THEN <<c, conn[c].cur.id>> ELSE Head(free)
\* Mutant: the object stays in the list.
RestAll(free) == free
Rest(free) == IF free = <<>> THEN free ELSE Tail(free)
\* Mutant: no limit.
FreedAlways(free, o) == Append(free, o)
\* freeRequest and freeRsponse: a full list drops the object.
Freed(free, o) == IF Len(free) < FreeCap THEN Append(free, o) ELSE free

\* The goroutine of the connection evaluates the captured variable rpc.
ServeConn(c) ==
  /\ conn[c].st = "accepted"
  /\ Update(c, [conn[c] EXCEPT !.st = "recv", !.servo = rpc])
  /\ UNCHANGED <<sem, freeReq, freeRsp>>

\* Mutant: the package is served again.
RecvTwice(c) ==
  LET k == conn[c] p == Head(k.inQ) IN
    /\ k.st = "recv" /\ ~tcp /\ k.isOpen /\ k.inQ # <<>>
    /\ Update(c, [k EXCEPT !.cur = p, !.st = "read"])
    /\ UNCHANGED <<sem, freeReq, freeRsp>>

\* newCodec: the content types there is a codec for.
newCodec(p) == p.form # "type"

\* httpTransportSocket.Recv, and newCodec on the content type: an unknown one
\* is answered in plain text.  The header kept for the response is that of a
\* request received before, when there is one.
Recv(c) ==
  LET k == conn[c]
      p == Head(k.inQ)
      q == [k EXCEPT !.inQ = Tail(@), !.cur = p, !.reqQ = IF @ = 0 THEN p.id ELSE @]
  IN /\ k.st = "recv" /\ ~tcp /\ k.isOpen /\ k.inQ # <<>>
     /\ Update(c, IF newCodec(p)
                    THEN [q EXCEPT !.st = "read"]
                    ELSE [Sent(c, q, Answer(0, q)) EXCEPT !.st = "closing"])
     /\ UNCHANGED <<sem, freeReq, freeRsp>>

\* tcpTransportSocket.Recv reads into an empty buffer: a package without
\* header, hence without content type.
RecvTcp(c) ==
  /\ conn[c].st = "recv" /\ tcp
  /\ Update(c, [Sent(c, conn[c], Answer(0, conn[c])) EXCEPT !.st = "closing"])
  /\ UNCHANGED <<sem, freeReq, freeRsp>>

\* The client has closed, the read deadline has passed, or the socket is
\* closed (which panics, and handlePkg recovers).
RecvError(c) ==
  /\ conn[c].st = "recv" /\ ~tcp /\ (conn[c].isOpen => conn[c].inQ = <<>>)
  /\ Update(c, [conn[c] EXCEPT !.st = "closing"])
  /\ UNCHANGED <<sem, freeReq, freeRsp>>

\* serverCodec.ReadHeader: the request gets the codec's next number.
ReadHeader(k, p) ==
  [k EXCEPT !.cseq = @ + 1, !.sseq = k.cseq + 1,
            !.pending = @ \cup {<<k.cseq + 1, p.id>>}]

\* rpcCodec.ReadRequestHeader and serverCodec.ReadBody, on what decodes.
ReadRequestHeader(k, p) == IF p.form = "header" THEN k ELSE ReadHeader(k, p)
ReadBody(p) == p.form # "body"

\* readRequest: a new codec, the header, the service and the method, the
\* body.  When the header cannot be decoded the request object is lost.
readRequest(c) ==
  LET k == conn[c]
      a == k.servo
      p == k.cur
      found == p.service \in DOMAIN services[a] /\ p.method \in services[a][p.service]
      kind == prepareMethod(Sig[p.method])
      ok == found /\ (kind = "stream" \/ ReadBody(p))
  IN /\ k.st = "read"
     /\ freeReq' = [freeReq EXCEPT ![a] = Rest(@)]
     /\ Update(c, IF p.form = "header"
                    THEN [k EXCEPT !.st = "closing", !.cur = None]
                    ELSE [ReadRequestHeader(k, p) EXCEPT !.st = IF ok THEN kind ELSE "reply",
                             !.fails = ~ok,
                             !.req = Taken(freeReq[a], c)])
     /\ UNCHANGED <<sem, freeRsp>>

\* service.call: the method returns, with or without an error.
MethodReturn(c) ==
  /\ conn[c].st \in {"unary", "stream"} /\ Sig[conn[c].cur.method].context
  /\ Update(c, [conn[c] EXCEPT !.st = "reply"])
  /\ UNCHANGED <<sem, freeReq, freeRsp>>

\* The method panics, or cannot be called with a context.
MethodPanic(c) ==
  /\ conn[c].st \in {"unary", "stream"}
  /\ Update(c, [conn[c] EXCEPT !.st = "closing", !.cur = None, !.req = None,
                                 !.pending = {}, !.cseq = 0, !.sseq = 0])
  /\ UNCHANGED <<sem, freeReq, freeRsp>>

\* serverCodec.Write: the id is that of the request with the given number;
\* a number that is not pending is an error, and nothing is sent.
Written(c, k, num) ==
  IF \E x \in k.pending : x[1] = num
    THEN LET x == CHOOSE y \in k.pending : y[1] = num
         IN Sent(c, [k EXCEPT !.pending = @ \ {x}], Answer(x[2], k))
    ELSE k

StreamSend(c) ==
  /\ conn[c].st = "stream" /\ conn[c].pending # {}
  /\ Update(c, Written(c, conn[c], conn[c].sseq))
  /\ UNCHANGED <<sem, freeReq, freeRsp>>

\* rpcStream.Recv: the next package, read by the same codec.
StreamRecv(c) ==
  LET k == conn[c] p == Head(k.inQ) IN
    /\ k.st = "stream" /\ k.isOpen /\ k.inQ # <<>>
    /\ Update(c, [ReadRequestHeader(k, p) EXCEPT !.inQ = Tail(@)])
    /\ UNCHANGED <<sem, freeReq, freeRsp>>

\* rpcStream.Close closes the socket under handlePkg.
StreamClose(c) ==
  /\ conn[c].st = "stream" /\ conn[c].isOpen
  /\ Release(c)
  /\ Update(c, [conn[c] EXCEPT !.isOpen = FALSE])
  /\ UNCHANGED <<freeReq, freeRsp>>

\* Mutant: waits for a response object to be free.
sendWhenFree(c) ==
  LET a == conn[c].servo IN
    /\ conn[c].st = "reply" /\ freeRsp[a] # <<>>
    /\ freeRsp' = [freeRsp EXCEPT ![a] = Tail(@)]
    /\ Update(c, [conn[c] EXCEPT !.st = "write", !.resp = Head(freeRsp[a])])
    /\ UNCHANGED <<sem, freeReq>>

\* sendResponse takes a response object, writes, and frees it; serveRequest
\* or call frees the request.  A write error is only logged.
sendResponse(c) ==
  LET a == conn[c].servo IN
    /\ conn[c].st = "reply"
    /\ freeRsp' = [freeRsp EXCEPT ![a] = Rest(@)]
    /\ Update(c, [conn[c] EXCEPT !.st = "write", !.resp = Taken(freeRsp[a], c)])
    /\ UNCHANGED <<sem, freeReq>>

\* The end of serveRequest: after an error handlePkg closes the socket.
serveRequest(k) ==
  [k EXCEPT !.st = IF k.fails THEN "closing" ELSE "recv", !.cur = None,
            !.req = None, !.resp = None, !.pending = {}, !.cseq = 0, !.sseq = 0]

WriteResponse(c) ==
  LET k == Written(c, conn[c], 1)
      a == k.servo
  IN /\ k.st = "write"
     /\ freeRsp' = [freeRsp EXCEPT ![a] = Freed(@, k.resp)]
     /\ freeReq' = [freeReq EXCEPT ![a] = Freed(@, k.req)]
     /\ Update(c, serveRequest(k))
     /\ UNCHANGED sem

\* The deferred function of handlePkg.
HandlePkgEnd(c) ==
  /\ conn[c].st = "closing"
  /\ Release(c)
  /\ Update(c, [conn[c] EXCEPT !.st = "closed", !.isOpen = FALSE, !.inQ = <<>>,
                                !.cur = None, !.fails = FALSE, !.reqQ = 0])
  /\ UNCHANGED <<freeReq, freeRsp>>

ServeFrame == UNCHANGED <<tcp, n, peers, mayStop, lifeVars, panicked, handleVars, cl>>
ServeStep(c) ==
  /\ \/ ServeConn(c) \/ Recv(c) \/ RecvTcp(c) \/ RecvError(c) \/ readRequest(c)
     \/ MethodReturn(c) \/ MethodPanic(c) \/ StreamSend(c) \/ StreamRecv(c)
     \/ StreamClose(c) \/ sendResponse(c) \/ WriteResponse(c) \/ HandlePkgEnd(c)
  /\ ServeFrame

(***************************************************************************)
(* The client's end of a connection: httpTransportClient                   *)
(***************************************************************************)
Dial(c) ==
  /\ c \in peers /\ cl[c].st = "none"
  /\ \E a \in Used : lis[a] = "open" /\ Update(c, [conn[c] EXCEPT !.st = "dialled", !.at = a])
  /\ \E b \in BOOLEAN : cl' = [cl EXCEPT ![c].st = "idle", ![c].stream = b]

\* Send: the request goes to the backlog, its head to the channel r if there
\* is room, and the bytes to the connection.  Streaming methods are called by
\* clients that dialled for a stream.
Send(c) ==
  LET k == cl[c]
      id == k.sent + 1
      b == Append(k.bl, id)
  IN /\ k.st = "idle" /\ id * Cardinality(peers) <= MaxReqs
     /\ \E p \in Packages :
          /\ k.stream <=> prepareMethod(Sig[p.method]) = "stream"
          /\ Update(c, [conn[c] EXCEPT !.inQ = Append(@,
               [id |-> id, service |-> p.service, method |-> p.method, form |-> p.form])])
     /\ cl' = [cl EXCEPT ![c] = [k EXCEPT !.sent = id,
                 !.st = IF k.stream THEN "idle" ELSE "sent",
                 !.r = IF @ = 0 THEN Head(b) ELSE @,
                 !.bl = IF k.r = 0 THEN Tail(b) ELSE b]]

\* Recv takes the request from r, unless the connection is for a stream, and
\* reads a response.  (That Close waits for it is in RpcClient.)
ClientRecv(c) ==
  LET k == cl[c] IN
    /\ IF k.stream THEN k.st = "idle" ELSE k.st = "sent" /\ k.r # 0
    /\ conn[c].outQ # <<>>
    /\ Update(c, [conn[c] EXCEPT !.outQ = Tail(@)])
    /\ cl' = [cl EXCEPT ![c].st = "idle", ![c].r = IF k.stream THEN @ ELSE 0]

\* Close, at any time: also what follows when Send or Recv fails.
Close(c) ==
  /\ cl[c].st \in {"idle", "sent"}
  /\ cl' = [cl EXCEPT ![c].st = "closed", ![c].r = 0, ![c].bl = <<>>, ![c].sent = 0]
  /\ Update(c, [conn[c] EXCEPT !.outQ = <<>>])

PeerStep(c) ==
  /\ Dial(c) \/ Send(c) \/ ClientRecv(c) \/ Close(c)
  /\ UNCHANGED <<tcp, n, peers, mayStop, lifeVars, sem, panicked, handleVars, freeReq, freeRsp>>

(***************************************************************************)
(* The specification                                                       *)
(***************************************************************************)
\* Handle was called before for the handlers outside "later", where it succeeds.
Init ==
  /\ tcp \in BOOLEAN /\ n \in Addrs /\ peers \in SUBSET Conns /\ mayStop \in BOOLEAN
  /\ \E later \in SUBSET Handlers :
       LET reach(h) == {AddrOf(k) : k \in Rounds(h)}
           succeeds(h) == /\ Suitable(h) # {} /\ Rounds(h) # {}
                          /\ Cardinality(reach(h)) = Cardinality(Rounds(h))
           before == {h \in Handlers \ later : succeeds(h)} IN
       /\ n + Cardinality(peers) + Cardinality(later) + (IF mayStop THEN 1 ELSE 0) = MaxActors
       /\ \A g, h \in before : g.service = h.service => g = h
       /\ hpc = [h \in Handlers |-> CASE h \in later -> "idle"
                                      [] h \in before -> "ok"
                                      [] OTHER -> "failed"]
       /\ published = UNION {{h.service} \X reach(h) : h \in before}
       /\ services = [a \in Addrs |->
            [s \in {h.service : h \in {g \in before : a \in reach(g)}} |->
               Suitable(CHOOSE h \in before : h.service = s)]]
  /\ todo = [h \in Handlers |-> {}]
  /\ hreg = [h \in Handlers |-> "nil"]
  /\ start = "listen" /\ i = 1 /\ listener = 0 /\ rpc = 0
  /\ lis = [a \in Addrs |-> "none"] /\ acc = [a \in Addrs |-> "none"]
  /\ on = [a \in Addrs |-> 0] /\ sem = [a \in Addrs |-> 0]
  /\ fin = [a \in Addrs |-> "none"]
  /\ done = FALSE /\ stop = "idle" /\ reg = "open" /\ panicked = FALSE
  /\ conn = [c \in Conns |-> [st |-> "none", at |-> 0, servo |-> 0, isOpen |-> FALSE,
               inQ |-> <<>>, outQ |-> <<>>, cur |-> None, fails |-> FALSE,
               req |-> None, resp |-> None, pending |-> {}, cseq |-> 0, sseq |-> 0,
               reqQ |-> 0]]
  /\ freeReq = [a \in Addrs |-> <<>>] /\ freeRsp = [a \in Addrs |-> <<>>]
  /\ cl = [c \in Conns |-> [st |-> "none", stream |-> FALSE, r |-> 0, bl |-> <<>>, sent |-> 0]]

Next ==
  /\ ~panicked
  /\ \/ HandleNext \/ HandlePanic \/ LifeNext
     \/ \E c \in Conns : ServeStep(c) \/ PeerStep(c)

Spec == Init /\ [][Next]_vars

\* Weak fairness of goroutines that can go on.  Not of calls of Start, Stop and
\* Handle, nor of the clients; nor of errors of Accept and Recv, unless the
\* listener, the socket or the client is closed.  The methods of handlers
\* return or panic.
Work(c) ==
  /\ ~panicked
  /\ \/ ServeConn(c) \/ Recv(c) \/ RecvTcp(c) \/ readRequest(c) \/ MethodReturn(c)
     \/ MethodPanic(c) \/ sendResponse(c) \/ WriteResponse(c) \/ HandlePkgEnd(c)
     \/ (~conn[c].isOpen \/ cl[c].st = "closed") /\ RecvError(c)
  /\ ServeFrame

Loop(a) ==
  /\ ~panicked
  /\ \/ AcceptBegin(a) \/ acquire(a) \/ Accept(a)
     \/ on[a] # 0 /\ lis[on[a]] = "closed" /\ AcceptError(a)
  /\ LifeFrame

Closer(a) == ~panicked /\ CloseListener(a) /\ LifeFrame

StartGoesOn == ~panicked /\ (StartSpawn \/ (i > 1 /\ StartListen)) /\ LifeFrame
StopGoesOn == ~panicked /\ (StopWait \/ StopEnd) /\ LifeFrame

FairSpec ==
  /\ Spec
  /\ \A c \in Conns : WF_vars(Work(c))
  /\ \A a \in Addrs : WF_vars(Loop(a)) /\ WF_vars(Closer(a))
  /\ WF_vars(StartGoesOn) /\ WF_vars(StopGoesOn)

(***************************************************************************)
(* Properties                                                              *)
(***************************************************************************)
Objects == Conns \X (1 .. MaxReqs)
Package == [id : 1 .. MaxReqs, service : {p.service : p \in Packages},
            method : {p.method : p \in Packages}, form : {p.form : p \in Packages}]
Reply == [id : 0 .. MaxReqs, header : 0 .. MaxReqs]
Stages == {"none", "dialled", "accepted", "recv", "read", "unary", "stream", "reply", "write",
           "closing", "closed"}

LifeTypes ==
  /\ n \in Addrs /\ peers \subseteq Conns /\ {tcp, mayStop, done, panicked} \subseteq BOOLEAN
  /\ start \in {"listen", "spawn", "ok", "err"} /\ i \in 1 .. n + 1
  /\ listener \in 0 .. n /\ rpc \in 0 .. n
  /\ lis \in [Addrs -> {"none", "open", "closed"}]
  /\ acc \in [Addrs -> {"none", "new", "acquire", "accept", "ended"}]
  /\ on \in [Addrs -> 0 .. n]
  /\ fin \in [Addrs -> {"none", "wait", "ended"}]
  /\ stop \in {"idle", "wait", "close", "done"} /\ reg \in {"open", "closed", "nil"}
SlotTypes == sem \in [Addrs -> 0 .. MaxConn]
HandleTypes ==
  /\ hpc \in [Handlers -> {"idle", "register", "publish", "ok", "failed"}]
  /\ todo \in [Handlers -> SUBSET (1 .. Len(ServiceConf) * n)]
  /\ hreg \in [Handlers -> {"open", "closed", "nil"}]
  /\ published \subseteq {h.service : h \in Handlers} \X Addrs
  /\ DOMAIN services = Addrs
Connection == [st : Stages, at : 0 .. n, servo : 0 .. n, isOpen : BOOLEAN,
               inQ : Seq(Package), outQ : Seq(Reply), cur : Package \cup {None},
               fails : BOOLEAN, req : Objects \cup {None}, resp : Objects \cup {None},
               pending : SUBSET ((1 .. MaxReqs) \X (1 .. MaxReqs)),
               cseq : 0 .. MaxReqs, sseq : 0 .. MaxReqs, reqQ : 0 .. MaxReqs]
Client == [st : {"none", "idle", "sent", "closed"}, stream : BOOLEAN,
           r : 0 .. MaxReqs, bl : Seq(1 .. MaxReqs), sent : 0 .. MaxReqs]
ConnTypes ==
  /\ conn \in [Conns -> Connection] /\ cl \in [Conns -> Client]
  /\ \A c \in Conns : Len(conn[c].inQ) <= MaxReqs
PoolTypes ==
  /\ freeReq \in [Addrs -> Seq(Objects)] /\ freeRsp \in [Addrs -> Seq(Objects)]
  /\ \A a \in Addrs : Len(freeReq[a]) <= FreeCap /\ Len(freeRsp[a]) <= FreeCap
TypeOK == LifeTypes /\ SlotTypes /\ HandleTypes /\ ConnTypes /\ PoolTypes

\* getRequest, freeRequest, getResponse, freeRsponse: no object is used by two
\* connections, or lies in a free list while it is used, or twice.
Exclusive(used, free) ==
  /\ \A c, d \in Conns : c # d /\ used[c] # None => used[c] # used[d]
  /\ \A c \in Conns, a \in Addrs : \A x \in 1 .. Len(free[a]) : free[a][x] # used[c]
  /\ \A a, b \in Addrs : \A x \in 1 .. Len(free[a]), y \in 1 .. Len(free[b]) :
       free[a][x] = free[b][y] => a = b /\ x = y
ObjectsExclusive ==
  /\ Exclusive([c \in Conns |-> conn[c].req], freeReq)
  /\ Exclusive([c \in Conns |-> conn[c].resp], freeRsp)

\* httpTransportListener: the slots taken are those of the open connections
\* and of loops that wait in Accept, whatever closes a socket and how often.
\* The tcp socket never frees its slot (it may have more).
SlotsExact ==
  \A l \in Addrs :
    LET users == Cardinality({a \in Addrs : acc[a] = "accept" /\ on[a] = l})
                   + Cardinality({c \in Conns : conn[c].isOpen /\ conn[c].at = l})
    IN IF tcp THEN sem[l] >= users ELSE sem[l] = users

\* handlePkg, serveRequest: a client that waits for each answer never finds an
\* answer to an earlier request, nor two answers, on its connection.
AnswerOwn ==
  \A c \in Conns : ~cl[c].stream =>
    /\ Len(conn[c].outQ) <= 1
    /\ \A x \in 1 .. Len(conn[c].outQ) : conn[c].outQ[x].id \in {0, cl[c].sent}

\* Handle: what the registry was told is in the service map of its address,
\* also when Handle fails half way; when it succeeds, nothing is missing.
Advertised ==
  /\ \A x \in published : x[1] \in DOMAIN services[x[2]]
  /\ \A h \in Handlers : hpc[h] = "ok" =>
       \A k \in Rounds(h) : <<h.service, AddrOf(k)>> \in published

\* Stop returns, unless an accept loop waits for ever for a slot of a
\* listener at its limit.
StopReturns ==
  (stop = "wait") ~>
    \/ stop = "done" \/ panicked
    \/ []\E a \in Addrs : acc[a] = "acquire" /\ sem[on[a]] = MaxConn

\* Stop, Start: once done is closed, every listener is closed in the end, also
\* those that Start opens meanwhile.
ListenersClose == done ~> (panicked \/ [](\A a \in Addrs : lis[a] # "open"))

\* handlePkg: every package that is received is dealt with.
PackageServed ==
  \A c \in Conns : (conn[c].cur # None) ~> (conn[c].cur = None \/ panicked)

\* server.go: the array rpc is there to listen on several addresses: a
\* connection is served by the rpcServer of the address it was made to.
ServedAtOwnAddr == \A c \in Conns : conn[c].servo # 0 => conn[c].servo = conn[c].at
=============================================================================
