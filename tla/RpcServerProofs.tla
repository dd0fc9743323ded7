-------------------------- MODULE RpcServerProofs ---------------------------
(***************************************************************************)
(* Proofs about RpcServer, for every configuration, set of connections and *)
(* bound: its types, the slots of the listeners' semaphores, and what      *)
(* Handle advertises.                                                      *)
(***************************************************************************)
EXTENDS RpcServer, FiniteSetTheorems, SequenceTheorems, WellFoundedInduction, TLAPS

-----------------------------------------------------------------------------
(***************************************************************************)
(* The inductive invariant.                                                *)
(***************************************************************************)
Calling == {"unary", "stream", "reply", "write"}
Serving == {"read"} \cup Calling
Running == {"accepted", "recv", "closing"} \cup Serving
Active == {"idle", "sent"}

\* Start: its loop variable is an address while it loops; no accept loop runs
\* for an address it has not come to; an accept loop implies that the captured
\* variable rpc is set, and one that accepts has a listener.
LoopInv ==
  /\ start \in {"listen", "spawn"} => i <= n
  /\ \A a \in Addrs : /\ a >= i => acc[a] = "none"
                      /\ acc[a] # "none" => rpc >= 1
                      /\ acc[a] \in {"acquire", "accept"} => on[a] >= 1

\* handlePkg: what a connection k holds at each stage.
ServeInv(k) ==
  /\ k.st # "none" => k.at >= 1
  /\ k.st \in Running => rpc >= 1
  /\ k.st \in Running \ {"accepted"} => k.servo >= 1
  /\ k.isOpen => k.st \in Running
  /\ k.st \in Serving => k.cur \in Package
  /\ k.st \in Calling => k.req \in Objects
  /\ k.st \notin Calling => k.req = None /\ k.cseq = 0 /\ k.pending = {}
  /\ k.st = "write" => k.resp \in Objects
  /\ k.st # "write" => k.resp = None

\* The packages of a connection k with the client m: those in transit are
\* numbered upwards, from beyond what the server has received, up to what the
\* client has sent.
NumberInv(c, k, m) ==
  /\ \A x, y \in 1 .. Len(k.inQ) : x <= y => k.inQ[y].id >= k.inQ[x].id + (y - x)
  /\ \A x \in 1 .. Len(k.inQ) : k.inQ[x].id >= k.cseq + x
  /\ k.st \in Serving => \A x \in 1 .. Len(k.inQ) : k.inQ[x].id >= k.cur.id + x
  /\ m.st \in Active => /\ \A x \in 1 .. Len(k.inQ) : k.inQ[x].id <= m.sent
                        /\ k.cseq <= m.sent
                        /\ k.st \in Serving => k.cur.id <= m.sent
  /\ m.st # "none" => c \in peers
  /\ m.st = "none" => k.st = "none" /\ k.inQ = <<>> /\ k.outQ = <<>>

ConnOK(c) ==
  /\ conn[c] \in Connection /\ cl[c] \in Client
  /\ ServeInv(conn[c]) /\ NumberInv(c, conn[c], cl[c])

ConnInv ==
  /\ conn \in [Conns -> Connection] /\ cl \in [Conns -> Client]
  /\ \A c \in Conns : ConnOK(c)

-----------------------------------------------------------------------------
(***************************************************************************)
(* Operators.                                                              *)
(***************************************************************************)
\* Taking the head of a queue.
LEMMA TailFacts ==
  ASSUME NEW S, NEW q \in Seq(S), q # <<>>
  PROVE  /\ Len(q) \in Nat /\ Len(q) >= 1 /\ Head(q) = q[1] /\ Head(q) \in S
         /\ Tail(q) \in Seq(S) /\ Len(Tail(q)) = Len(q) - 1
         /\ \A x \in 1 .. Len(Tail(q)) : x + 1 \in 1 .. Len(q) /\ Tail(q)[x] = q[x + 1]
BY HeadTailProperties, LenProperties, EmptySeq

\* Appending to a queue.
LEMMA AppendFacts ==
  ASSUME NEW S, NEW q \in Seq(S), NEW e \in S
  PROVE  /\ Append(q, e) \in Seq(S) /\ Len(Append(q, e)) = Len(q) + 1 /\ Len(q) \in Nat
         /\ Append(q, e)[Len(q) + 1] = e
         /\ \A x \in 1 .. Len(q) : Append(q, e)[x] = q[x]
BY AppendProperties, LenProperties

\* prepareMethod knows three kinds of methods.
LEMMA MethodKinds ==
  ASSUME NEW s
  PROVE  prepareMethod(s) \in {"none", "unary", "stream"}
BY DEF prepareMethod

\* Handle's loops: the next round is the least of those left.
LEMMA LeastFacts ==
  ASSUME NEW S \in SUBSET Nat, S # {}
  PROVE  Least(S) \in S
<1>1. PICK x \in S : \A y \in S : ~(<<y, x>> \in OpToRel(<, Nat))
  BY NatLessThanWellFounded, WFMin
<1>2. \A y \in S : ~(y < x)  BY <1>1 DEF OpToRel
<1>3. \E z \in S : \A y \in S : z <= y  BY <1>2
<1>. QED  BY <1>3 DEF Least

\* Handle's loops: every round is for an address that is used.
LEMMA AddrFacts ==
  ASSUME LifeTypes, NEW k \in Nat \ {0}
  PROVE  AddrOf(k) \in 1 .. n /\ AddrOf(k) \in Addrs
<1>1. n \in Nat \ {0} /\ n <= Len(Protocols)  BY ServerAssumption DEF LifeTypes, Addrs
<1>2. (k - 1) % n \in 0 .. (n - 1)  BY <1>1
<1>. QED  BY <1>1, <1>2, ServerAssumption DEF AddrOf, Addrs

\* Send: requests are shared by the clients, of which there is one.
LEMMA ShareFacts ==
  ASSUME NEW x \in Nat, NEW y \in Nat \ {0}, x * y <= MaxReqs
  PROVE  x <= MaxReqs
<1>1. MaxReqs \in Nat  BY ServerAssumption
<1>2. y >= 1  OBVIOUS
<1>3. x * y >= x  BY <1>2
<1>. QED  BY <1>1, <1>3

\* The fields of a connection.
LEMMA ConnFields ==
  ASSUME NEW k \in Connection
  PROVE  /\ k.st \in Stages /\ k.at \in 0 .. n /\ k.servo \in 0 .. n
         /\ k.inQ \in Seq(Package) /\ k.outQ \in Seq(Reply) /\ k.cur \in Package \cup {None}
         /\ k.req \in Objects \cup {None} /\ k.resp \in Objects \cup {None}
         /\ k.pending \in SUBSET ((1 .. MaxReqs) \X (1 .. MaxReqs))
         /\ k.cseq \in 0 .. MaxReqs /\ k.sseq \in 0 .. MaxReqs /\ k.reqQ \in 0 .. MaxReqs
BY DEF Connection

\* The fields of a client.
LEMMA ClientFields ==
  ASSUME NEW m \in Client
  PROVE  /\ m.st \in {"none", "idle", "sent", "closed"} /\ m.r \in 0 .. MaxReqs
         /\ m.bl \in Seq(1 .. MaxReqs) /\ m.sent \in 0 .. MaxReqs
BY DEF Client

\* Answer makes a response.
LEMMA AnswerFacts ==
  ASSUME NEW k \in Connection, NEW x \in 0 .. MaxReqs
  PROVE  Answer(x, k) \in Reply /\ Answer(x, k).id = x
BY DEF Answer, Reply, Connection

\* Socket.Send changes the packages on their way to the client, and adds one at most.
LEMMA SentFacts ==
  ASSUME NEW c \in Conns, NEW k \in Connection, NEW msg \in Reply
  PROVE  LET r == Sent(c, k, msg) IN
           /\ r \in Connection
           /\ \/ r.outQ = k.outQ
              \/ r.outQ = Append(k.outQ, msg) /\ cl[c].st # "closed"
           /\ r.st = k.st /\ r.at = k.at /\ r.servo = k.servo /\ r.isOpen = k.isOpen
           /\ r.inQ = k.inQ /\ r.cur = k.cur /\ r.fails = k.fails
           /\ r.req = k.req /\ r.resp = k.resp /\ r.pending = k.pending
           /\ r.cseq = k.cseq /\ r.sseq = k.sseq /\ r.reqQ = k.reqQ
<1> DEFINE q == Append(k.outQ, msg)
           s == [k EXCEPT !.outQ = q]
<1>1. k.outQ \in Seq(Reply)  BY ConnFields
<1>2. q \in Seq(Reply)  BY <1>1, AppendFacts
<1> HIDE DEF q
<1>3. s \in Connection  BY <1>2 DEF Connection
<1>4. /\ s.outQ = q /\ s.st = k.st /\ s.at = k.at /\ s.servo = k.servo /\ s.isOpen = k.isOpen
      /\ s.inQ = k.inQ /\ s.cur = k.cur /\ s.fails = k.fails
      /\ s.req = k.req /\ s.resp = k.resp /\ s.pending = k.pending
      /\ s.cseq = k.cseq /\ s.sseq = k.sseq /\ s.reqQ = k.reqQ
  BY DEF Connection
<1> HIDE DEF s
<1>5. Sent(c, k, msg) = IF k.isOpen /\ cl[c].st # "closed" THEN s ELSE k
  BY DEF Sent, s, q
<1>6. CASE k.isOpen /\ cl[c].st # "closed"
  <2>1. Sent(c, k, msg) = s  BY <1>5, <1>6
  <2>. QED  BY <1>3, <1>4, <1>6, <2>1 DEF q
<1>7. CASE ~(k.isOpen /\ cl[c].st # "closed")
  <2>1. Sent(c, k, msg) = k  BY <1>5, <1>7
  <2>. QED  BY <2>1
<1>. QED  BY <1>6, <1>7

-----------------------------------------------------------------------------
(***************************************************************************)
(* What each step does to a connection.                                    *)
(***************************************************************************)
SameSocket(k, r) == r.at = k.at /\ r.isOpen = k.isOpen
SameTransit(k, r) == r.inQ = k.inQ /\ r.outQ = k.outQ
SameObjects(k, r) == r.req = k.req /\ r.resp = k.resp
SameCodec(k, r) == r.pending = k.pending /\ r.cseq = k.cseq

\* A step of one connection.
Touches(c) ==
  conn' \in [Conns -> Connection] /\ \A d \in Conns \ {c} : conn'[d] = conn[d]

\* Update changes one connection.
LEMMA UpdateFacts ==
  ASSUME ConnInv, NEW c \in Conns, NEW r \in Connection, Update(c, r)
  PROVE  Touches(c) /\ conn'[c] = r
BY DEF ConnInv, Update, Touches

\* ServeConn: the connection is served by the rpcServer captured.
LEMMA ServeConnEffect ==
  ASSUME LifeTypes, ConnInv, NEW c \in Conns, ServeConn(c)
  PROVE  LET k == conn[c] r == conn'[c] IN
           /\ Touches(c) /\ k.st = "accepted"
           /\ r.st = "recv" /\ r.servo = rpc
           /\ SameSocket(k, r) /\ SameTransit(k, r) /\ SameObjects(k, r)
           /\ SameCodec(k, r) /\ r.cur = k.cur
<1> DEFINE k == conn[c]
           r == [k EXCEPT !.st = "recv", !.servo = rpc]
<1>1. k \in Connection /\ MaxReqs \in Nat  BY ServerAssumption DEF ConnInv
<1>2. rpc \in 0 .. n
  BY DEF LifeTypes
<1>3. r \in Connection  BY <1>1, <1>2 DEF Connection, Stages
<1>4. r.st = "recv" /\ r.servo = rpc
      /\ SameSocket(k, r) /\ SameTransit(k, r) /\ SameObjects(k, r)
      /\ SameCodec(k, r) /\ r.cur = k.cur
  BY <1>1 DEF Connection, SameSocket, SameTransit, SameObjects, SameCodec
<1> HIDE DEF r
<1>5. Update(c, r)  BY DEF ServeConn, r
<1>6. Touches(c) /\ conn'[c] = r  BY <1>3, <1>5, UpdateFacts
<1>. QED  BY <1>4, <1>6 DEF ServeConn
\* Recv fails: the connection is to be closed.
LEMMA RecvErrorEffect ==
  ASSUME ConnInv, NEW c \in Conns, RecvError(c)
  PROVE  LET k == conn[c] r == conn'[c] IN
           /\ Touches(c) /\ k.st = "recv"
           /\ r.st = "closing"
           /\ SameSocket(k, r) /\ SameTransit(k, r) /\ SameObjects(k, r)
           /\ SameCodec(k, r) /\ r.servo = k.servo /\ r.cur = k.cur
<1> DEFINE k == conn[c]
           r == [k EXCEPT !.st = "closing"]
<1>1. k \in Connection /\ MaxReqs \in Nat  BY ServerAssumption DEF ConnInv
<1>3. r \in Connection  BY <1>1 DEF Connection, Stages
<1>4. r.st = "closing"
      /\ SameSocket(k, r) /\ SameTransit(k, r) /\ SameObjects(k, r)
      /\ SameCodec(k, r) /\ r.servo = k.servo /\ r.cur = k.cur
  BY <1>1 DEF Connection, SameSocket, SameTransit, SameObjects, SameCodec
<1> HIDE DEF r
<1>5. Update(c, r)  BY DEF RecvError, r
<1>6. Touches(c) /\ conn'[c] = r  BY <1>3, <1>5, UpdateFacts
<1>. QED  BY <1>4, <1>6 DEF RecvError
\* service.call returns: the answer is due.
LEMMA MethodReturnEffect ==
  ASSUME ConnInv, NEW c \in Conns, MethodReturn(c)
  PROVE  LET k == conn[c] r == conn'[c] IN
           /\ Touches(c) /\ k.st \in {"unary", "stream"}
           /\ r.st = "reply"
           /\ SameSocket(k, r) /\ SameTransit(k, r) /\ SameObjects(k, r)
           /\ SameCodec(k, r) /\ r.servo = k.servo /\ r.cur = k.cur
<1> DEFINE k == conn[c]
           r == [k EXCEPT !.st = "reply"]
<1>1. k \in Connection /\ MaxReqs \in Nat  BY ServerAssumption DEF ConnInv
<1>3. r \in Connection  BY <1>1 DEF Connection, Stages
<1>4. r.st = "reply"
      /\ SameSocket(k, r) /\ SameTransit(k, r) /\ SameObjects(k, r)
      /\ SameCodec(k, r) /\ r.servo = k.servo /\ r.cur = k.cur
  BY <1>1 DEF Connection, SameSocket, SameTransit, SameObjects, SameCodec
<1> HIDE DEF r
<1>5. Update(c, r)  BY DEF MethodReturn, r
<1>6. Touches(c) /\ conn'[c] = r  BY <1>3, <1>5, UpdateFacts
<1>. QED  BY <1>4, <1>6 DEF MethodReturn
\* A method panics: handlePkg recovers and closes; the codec is gone.
LEMMA MethodPanicEffect ==
  ASSUME ConnInv, NEW c \in Conns, MethodPanic(c)
  PROVE  LET k == conn[c] r == conn'[c] IN
           /\ Touches(c) /\ k.st \in {"unary", "stream"}
           /\ r.st = "closing" /\ r.cur = None /\ r.req = None /\ r.pending = {}
           /\ r.cseq = 0
           /\ SameSocket(k, r) /\ SameTransit(k, r) /\ r.servo = k.servo
           /\ r.resp = k.resp
<1> DEFINE k == conn[c]
           e == {}
           z == 0
           r == [k EXCEPT !.st = "closing", !.cur = None, !.req = None, !.pending = e, !.cseq = z, !.sseq = z]
<1>1. k \in Connection /\ MaxReqs \in Nat  BY ServerAssumption DEF ConnInv
<1>2. z \in 0 .. MaxReqs /\ e \in SUBSET ((1 .. MaxReqs) \X (1 .. MaxReqs))
  BY <1>1
<1> HIDE DEF e, z
<1>3. r \in Connection  BY <1>1, <1>2 DEF Connection, Stages
<1>4. r.st = "closing" /\ r.cur = None /\ r.req = None /\ r.pending = e /\ r.cseq = z
      /\ SameSocket(k, r) /\ SameTransit(k, r) /\ r.servo = k.servo
      /\ r.resp = k.resp
  BY <1>1 DEF Connection, SameSocket, SameTransit, SameObjects, SameCodec
<1> HIDE DEF r
<1>5. Update(c, r)  BY DEF MethodPanic, r, e, z
<1>6. Touches(c) /\ conn'[c] = r  BY <1>3, <1>5, UpdateFacts
<1>. QED  BY <1>4, <1>6 DEF MethodPanic, e, z
\* rpcStream.Close: the socket is closed under handlePkg.
LEMMA StreamCloseEffect ==
  ASSUME ConnInv, NEW c \in Conns, StreamClose(c)
  PROVE  LET k == conn[c] r == conn'[c] IN
           /\ Touches(c) /\ k.st = "stream" /\ k.isOpen
           /\ r.isOpen = FALSE
           /\ SameTransit(k, r) /\ SameObjects(k, r) /\ SameCodec(k, r) /\ r.st = k.st
           /\ r.at = k.at /\ r.servo = k.servo /\ r.cur = k.cur
<1> DEFINE k == conn[c]
           r == [k EXCEPT !.isOpen = FALSE]
<1>1. k \in Connection /\ MaxReqs \in Nat  BY ServerAssumption DEF ConnInv
<1>3. r \in Connection  BY <1>1 DEF Connection, Stages
<1>4. r.isOpen = FALSE
      /\ SameTransit(k, r) /\ SameObjects(k, r) /\ SameCodec(k, r) /\ r.st = k.st
      /\ r.at = k.at /\ r.servo = k.servo /\ r.cur = k.cur
  BY <1>1 DEF Connection, SameSocket, SameTransit, SameObjects, SameCodec
<1> HIDE DEF r
<1>5. Update(c, r)  BY DEF StreamClose, r
<1>6. Touches(c) /\ conn'[c] = r  BY <1>3, <1>5, UpdateFacts
<1>. QED  BY <1>4, <1>6 DEF StreamClose
\* The deferred function of handlePkg closes the socket.
LEMMA HandlePkgEndEffect ==
  ASSUME ConnInv, NEW c \in Conns, HandlePkgEnd(c)
  PROVE  LET k == conn[c] r == conn'[c] IN
           /\ Touches(c) /\ k.st = "closing"
           /\ r.st = "closed" /\ r.isOpen = FALSE /\ r.inQ = <<>> /\ r.cur = None
           /\ SameObjects(k, r) /\ SameCodec(k, r) /\ r.at = k.at /\ r.servo = k.servo
           /\ r.outQ = k.outQ
<1> DEFINE k == conn[c]
           e == <<>>
           z == 0
           r == [k EXCEPT !.st = "closed", !.isOpen = FALSE, !.inQ = e, !.cur = None, !.fails = FALSE, !.reqQ = z]
<1>1. k \in Connection /\ MaxReqs \in Nat  BY ServerAssumption DEF ConnInv
<1>2. z \in 0 .. MaxReqs /\ e \in Seq(Package)
  BY <1>1
<1> HIDE DEF e, z
<1>3. r \in Connection  BY <1>1, <1>2 DEF Connection, Stages
<1>4. r.st = "closed" /\ r.isOpen = FALSE /\ r.inQ = e /\ r.cur = None
      /\ SameObjects(k, r) /\ SameCodec(k, r) /\ r.at = k.at /\ r.servo = k.servo
      /\ r.outQ = k.outQ
  BY <1>1 DEF Connection, SameSocket, SameTransit, SameObjects, SameCodec
<1> HIDE DEF r
<1>5. Update(c, r)  BY DEF HandlePkgEnd, r, e, z
<1>6. Touches(c) /\ conn'[c] = r  BY <1>3, <1>5, UpdateFacts
<1>. QED  BY <1>4, <1>6 DEF HandlePkgEnd, e, z

\* The server sends an answer numbered x at most.
Replies(c, k, r, x) ==
  \/ r.outQ = k.outQ
  \/ cl[c].st # "closed" /\ \E a \in Reply : a.id = x /\ r.outQ = Append(k.outQ, a)

\* Socket.Send, and the next stage.
LEMMA SentStageFacts ==
  ASSUME NEW c \in Conns, NEW k \in Connection, NEW x \in 0 .. MaxReqs, NEW s \in Stages
  PROVE  LET r == [Sent(c, k, Answer(x, k)) EXCEPT !.st = s] IN
           /\ r \in Connection /\ r.st = s /\ Replies(c, k, r, x)
           /\ SameSocket(k, r) /\ SameObjects(k, r) /\ SameCodec(k, r)
           /\ r.inQ = k.inQ /\ r.servo = k.servo /\ r.cur = k.cur
<1> DEFINE t == Sent(c, k, Answer(x, k))
           r == [t EXCEPT !.st = s]
<1>1. Answer(x, k) \in Reply /\ Answer(x, k).id = x  BY AnswerFacts
<1>2. /\ t \in Connection
      /\ t.outQ = k.outQ \/ (t.outQ = Append(k.outQ, Answer(x, k)) /\ cl[c].st # "closed")
      /\ t.at = k.at /\ t.servo = k.servo /\ t.isOpen = k.isOpen
      /\ t.inQ = k.inQ /\ t.cur = k.cur /\ t.req = k.req /\ t.resp = k.resp
      /\ t.pending = k.pending /\ t.cseq = k.cseq
  BY <1>1, SentFacts
<1> HIDE DEF t
<1>3. r \in Connection  BY <1>2 DEF Connection
<1>4. /\ r.st = s /\ r.outQ = t.outQ /\ r.at = t.at /\ r.servo = t.servo /\ r.isOpen = t.isOpen
      /\ r.inQ = t.inQ /\ r.cur = t.cur /\ r.req = t.req /\ r.resp = t.resp
      /\ r.pending = t.pending /\ r.cseq = t.cseq
  BY <1>2 DEF Connection
<1> HIDE DEF r
<1>5. Replies(c, k, r, x)  BY <1>1, <1>2, <1>4 DEF Replies
<1>6. SameSocket(k, r) /\ SameObjects(k, r) /\ SameCodec(k, r)
  BY <1>2, <1>4 DEF SameSocket, SameObjects, SameCodec
<1>7. r.inQ = k.inQ /\ r.servo = k.servo /\ r.cur = k.cur /\ r.st = s  BY <1>2, <1>4
<1>. QED  BY <1>3, <1>5, <1>6, <1>7 DEF r, t

\* httpTransportSocket.Recv: the next package becomes the one being served; one
\* of an unknown content type is answered and the connection is to be closed.
LEMMA RecvEffect ==
  ASSUME ConnInv, NEW c \in Conns, Recv(c)
  PROVE  LET k == conn[c] r == conn'[c] IN
           /\ Touches(c) /\ k.st = "recv" /\ ~tcp /\ k.isOpen /\ k.inQ # <<>>
           /\ r.inQ = Tail(k.inQ) /\ r.cur = Head(k.inQ) /\ r.servo = k.servo
           /\ SameSocket(k, r) /\ SameObjects(k, r) /\ SameCodec(k, r)
           /\ \/ r.st = "read" /\ r.outQ = k.outQ
              \/ r.st = "closing" /\ Replies(c, k, r, 0)
<1> DEFINE k == conn[c]
           p == Head(k.inQ)
           t == Tail(k.inQ)
           z == IF k.reqQ = 0 THEN p.id ELSE k.reqQ
           q == [k EXCEPT !.inQ = t, !.cur = p, !.reqQ = z]
<1>1. k \in Connection /\ MaxReqs \in Nat /\ k.inQ \in Seq(Package) /\ k.inQ # <<>>
  BY ServerAssumption, ConnFields DEF ConnInv, Recv
<1>2. p \in Package /\ t \in Seq(Package)  BY <1>1, TailFacts
<1>3. z \in 0 .. MaxReqs
  <2>1. p.id \in 1 .. MaxReqs  BY <1>2 DEF Package
  <2>2. k.reqQ \in 0 .. MaxReqs  BY <1>1, ConnFields
  <2>. QED  BY <1>1, <2>1, <2>2
<1> HIDE DEF t, z, p
<1>4. q \in Connection  BY <1>1, <1>2, <1>3 DEF Connection
<1>5. /\ q.inQ = t /\ q.cur = p /\ q.servo = k.servo /\ q.outQ = k.outQ /\ q.st = k.st
      /\ SameSocket(k, q) /\ SameObjects(k, q) /\ SameCodec(k, q)
  BY <1>1 DEF Connection, SameSocket, SameObjects, SameCodec
<1>6. k.st = "recv" /\ ~tcp /\ k.isOpen  BY DEF Recv
<1>7. Update(c, IF newCodec(p) THEN [q EXCEPT !.st = "read"]
                ELSE [Sent(c, q, Answer(0, q)) EXCEPT !.st = "closing"])
  BY DEF Recv, p, t, z
<1> HIDE DEF q
<1>8. CASE newCodec(p)
  <2> DEFINE r == [q EXCEPT !.st = "read"]
  <2>1. r \in Connection  BY <1>4 DEF Connection, Stages
  <2>2. /\ r.st = "read" /\ r.inQ = q.inQ /\ r.cur = q.cur /\ r.servo = q.servo
        /\ r.outQ = q.outQ
        /\ SameSocket(q, r) /\ SameObjects(q, r) /\ SameCodec(q, r)
    BY <1>4 DEF Connection, SameSocket, SameObjects, SameCodec
  <2> HIDE DEF r
  <2>3. Update(c, r)  BY <1>7, <1>8 DEF r
  <2>4. Touches(c) /\ conn'[c] = r  BY <2>1, <2>3, UpdateFacts
  <2>5. SameSocket(k, r) /\ SameObjects(k, r) /\ SameCodec(k, r)
    BY <1>5, <2>2 DEF SameSocket, SameObjects, SameCodec
  <2>. QED  BY <1>1, <1>5, <1>6, <2>2, <2>4, <2>5 DEF p, t
<1>9. CASE ~newCodec(p)
  <2> DEFINE z0 == 0
             r == [Sent(c, q, Answer(z0, q)) EXCEPT !.st = "closing"]
  <2>1. z0 \in 0 .. MaxReqs /\ "closing" \in Stages  BY <1>1 DEF Stages
  <2> HIDE DEF z0
  <2>2. /\ r \in Connection /\ r.st = "closing" /\ Replies(c, q, r, z0)
        /\ SameSocket(q, r) /\ SameObjects(q, r) /\ SameCodec(q, r)
        /\ r.inQ = q.inQ /\ r.servo = q.servo /\ r.cur = q.cur
    BY <1>4, <2>1, SentStageFacts
  <2> HIDE DEF r
  <2>3. Update(c, r)  BY <1>7, <1>9 DEF r, z0
  <2>4. Touches(c) /\ conn'[c] = r  BY <2>2, <2>3, UpdateFacts
  <2>5. SameSocket(k, r) /\ SameObjects(k, r) /\ SameCodec(k, r)
    BY <1>5, <2>2 DEF SameSocket, SameObjects, SameCodec
  <2>6. Replies(c, k, r, 0)  BY <1>5, <2>2 DEF Replies, z0
  <2>. QED  BY <1>1, <1>5, <1>6, <2>2, <2>4, <2>5, <2>6 DEF p, t
<1>. QED  BY <1>8, <1>9

\* tcpTransportSocket.Recv: an answer in plain text, and the end.
LEMMA RecvTcpEffect ==
  ASSUME ConnInv, NEW c \in Conns, RecvTcp(c)
  PROVE  LET k == conn[c] r == conn'[c] IN
           /\ Touches(c) /\ k.st = "recv" /\ tcp /\ r.st = "closing" /\ Replies(c, k, r, 0)
           /\ SameSocket(k, r) /\ SameObjects(k, r) /\ SameCodec(k, r)
           /\ r.inQ = k.inQ /\ r.servo = k.servo /\ r.cur = k.cur
<1> DEFINE k == conn[c]
           z == 0
           r == [Sent(c, k, Answer(z, k)) EXCEPT !.st = "closing"]
<1>1. k \in Connection /\ z \in 0 .. MaxReqs /\ "closing" \in Stages
  BY ServerAssumption DEF ConnInv, Stages
<1> HIDE DEF z
<1>2. /\ r \in Connection /\ r.st = "closing" /\ Replies(c, k, r, z)
      /\ SameSocket(k, r) /\ SameObjects(k, r) /\ SameCodec(k, r)
      /\ r.inQ = k.inQ /\ r.servo = k.servo /\ r.cur = k.cur
  BY <1>1, SentStageFacts
<1> HIDE DEF r
<1>3. Update(c, r) /\ k.st = "recv" /\ tcp  BY DEF RecvTcp, r, z
<1>4. Touches(c) /\ conn'[c] = r  BY <1>2, <1>3, UpdateFacts
<1>. QED  BY <1>2, <1>3, <1>4 DEF z

\* serverCodec.ReadHeader numbers the request.
LEMMA ReadHeaderFacts ==
  ASSUME NEW k \in Connection, NEW p \in Package, k.cseq + 1 <= MaxReqs
  PROVE  LET r == ReadHeader(k, p) IN
           /\ r \in Connection /\ r.cseq = k.cseq + 1
           /\ r.pending = k.pending \cup {<<k.cseq + 1, p.id>>}
           /\ SameSocket(k, r) /\ SameTransit(k, r) /\ SameObjects(k, r)
           /\ r.st = k.st /\ r.servo = k.servo /\ r.cur = k.cur
<1> DEFINE s == k.cseq + 1
           e == k.pending \cup {<<k.cseq + 1, p.id>>}
           r == [k EXCEPT !.cseq = s, !.sseq = s, !.pending = e]
<1>1. s \in 1 .. MaxReqs /\ s \in 0 .. MaxReqs  BY ServerAssumption, ConnFields
<1>2. e \in SUBSET ((1 .. MaxReqs) \X (1 .. MaxReqs))
  <2>1. p.id \in 1 .. MaxReqs  BY DEF Package
  <2>. QED  BY <1>1, <2>1, ConnFields
<1>3. ReadHeader(k, p) = r  BY DEF ReadHeader
<1> HIDE DEF s, e
<1>4. r \in Connection  BY <1>1, <1>2 DEF Connection
<1>5. /\ r.cseq = s /\ r.pending = e
      /\ SameSocket(k, r) /\ SameTransit(k, r) /\ SameObjects(k, r)
      /\ r.st = k.st /\ r.servo = k.servo /\ r.cur = k.cur
  BY DEF Connection, SameSocket, SameTransit, SameObjects
<1> HIDE DEF r
<1>. QED  BY <1>3, <1>4, <1>5 DEF s, e

\* serverCodec.Write answers a pending request with the number num, if there is one.
Answers(c, k, r, num) ==
  \/ r.outQ = k.outQ
  \/ cl[c].st # "closed" /\ \E x \in k.pending, a \in Reply :
       x[1] = num /\ a.id = x[2] /\ r.outQ = Append(k.outQ, a)

\* serverCodec.Write.
LEMMA WrittenFacts ==
  ASSUME NEW c \in Conns, NEW k \in Connection, NEW num
  PROVE  LET r == Written(c, k, num) IN
           /\ r \in Connection /\ Answers(c, k, r, num) /\ r.pending \subseteq k.pending
           /\ SameSocket(k, r) /\ SameObjects(k, r) /\ r.cseq = k.cseq
           /\ r.inQ = k.inQ /\ r.servo = k.servo /\ r.cur = k.cur /\ r.st = k.st
<1>1. CASE \E x \in k.pending : x[1] = num
  <2> DEFINE x == CHOOSE y \in k.pending : y[1] = num
             e == k.pending \ {x}
             q == [k EXCEPT !.pending = e]
             a == Answer(x[2], k)
  <2>1. x \in k.pending /\ x[1] = num  BY <1>1
  <2>2. e \subseteq k.pending /\ k.pending \in SUBSET ((1 .. MaxReqs) \X (1 .. MaxReqs))
    BY ConnFields
  <2>3. x[2] \in 0 .. MaxReqs
    <3>1. x \in (1 .. MaxReqs) \X (1 .. MaxReqs)  BY <2>1, <2>2
    <3>2. x[2] \in 1 .. MaxReqs  BY <3>1
    <3>. QED  BY <3>2, ServerAssumption
  <2>4. a \in Reply /\ a.id = x[2]  BY <2>3, AnswerFacts
  <2>5. Written(c, k, num) = Sent(c, q, a)  BY <1>1 DEF Written
  <2> HIDE DEF x, e, a
  <2>6. q \in Connection  BY <2>2 DEF Connection
  <2>7. /\ q.pending = e /\ q.outQ = k.outQ /\ q.inQ = k.inQ /\ q.servo = k.servo
        /\ q.cur = k.cur /\ q.st = k.st /\ q.cseq = k.cseq
        /\ q.at = k.at /\ q.isOpen = k.isOpen /\ q.req = k.req /\ q.resp = k.resp
    BY DEF Connection
  <2> HIDE DEF q
  <2> DEFINE r == Sent(c, q, a)
  <2>8. /\ r \in Connection
        /\ r.outQ = q.outQ \/ (r.outQ = Append(q.outQ, a) /\ cl[c].st # "closed")
        /\ r.st = q.st /\ r.at = q.at /\ r.servo = q.servo /\ r.isOpen = q.isOpen
        /\ r.inQ = q.inQ /\ r.cur = q.cur /\ r.req = q.req /\ r.resp = q.resp
        /\ r.pending = q.pending /\ r.cseq = q.cseq
    BY <2>4, <2>6, SentFacts
  <2> HIDE DEF r
  <2>9. Answers(c, k, r, num)  BY <2>1, <2>4, <2>7, <2>8 DEF Answers
  <2>10. SameSocket(k, r) /\ SameObjects(k, r)  BY <2>7, <2>8 DEF SameSocket, SameObjects
  <2>11. /\ r.pending \subseteq k.pending /\ r.cseq = k.cseq /\ r.inQ = k.inQ
         /\ r.servo = k.servo /\ r.cur = k.cur /\ r.st = k.st
    BY <2>2, <2>7, <2>8
  <2>. QED  BY <2>5, <2>8, <2>9, <2>10, <2>11 DEF r
<1>2. CASE ~\E x \in k.pending : x[1] = num
  <2>1. Written(c, k, num) = k  BY <1>2 DEF Written
  <2>. QED  BY <2>1 DEF Answers, SameSocket, SameObjects
<1>. QED  BY <1>1, <1>2

\* Handle registers only methods that can be called.
CallableInv ==
  \A a \in Addrs : \A s \in DOMAIN services[a] : \A m \in services[a][s] :
    prepareMethod(Sig[m]) # "none"

\* getRequest and getResponse: an object, and the list without it.
LEMMA TakenFacts ==
  ASSUME NEW c \in Conns, conn[c].cur \in Package, NEW free \in Seq(Objects)
  PROVE  /\ Taken(free, c) \in Objects
         /\ Rest(free) \in Seq(Objects) /\ Len(Rest(free)) <= Len(free)
<1>1. CASE free = <<>>
  <2>1. conn[c].cur.id \in 1 .. MaxReqs  BY DEF Package
  <2>. QED  BY <1>1, <2>1, LenProperties DEF Taken, Rest, Objects
<1>2. CASE free # <<>>  BY <1>2, TailFacts DEF Taken, Rest
<1>. QED  BY <1>1, <1>2

\* The rpcServer of a connection that is being served.
LEMMA ServoFacts ==
  ASSUME LifeTypes, ConnInv, NEW c \in Conns, conn[c].st \in Serving
  PROVE  conn[c].servo \in 1 .. n /\ conn[c].servo \in Addrs
<1>1. conn[c] \in Connection /\ ServeInv(conn[c])  BY DEF ConnInv, ConnOK
<1>2. conn[c].servo \in 0 .. n /\ conn[c].servo >= 1
  BY <1>1, ConnFields DEF ServeInv, Running, Serving, Calling
<1>3. n \in 1 .. Len(Protocols) /\ Len(Protocols) \in Nat
  BY ServerAssumption DEF LifeTypes, Addrs
<1>. QED  BY <1>2, <1>3 DEF Addrs

\* readRequest: the request gets an object, a number and a kind, or the
\* connection is to be closed.
LEMMA ReadRequestEffect ==
  ASSUME LifeTypes, ConnInv, PoolTypes, CallableInv, NEW c \in Conns, readRequest(c)
  PROVE  LET k == conn[c] r == conn'[c] IN
           /\ Touches(c) /\ k.st = "read"
           /\ SameSocket(k, r) /\ SameTransit(k, r) /\ r.servo = k.servo /\ r.resp = k.resp
           /\ \/ r.st = "closing" /\ r.cur = None /\ r.req = k.req /\ SameCodec(k, r)
              \/ /\ r.st \in {"unary", "stream", "reply"} /\ r.cur = k.cur
                 /\ r.st \in {"unary", "stream"} => r.st = prepareMethod(Sig[k.cur.method])
                 /\ r.req = Taken(freeReq[k.servo], c) /\ r.cseq = k.cseq + 1
                 /\ r.pending = k.pending \cup {<<k.cseq + 1, k.cur.id>>}
<1> DEFINE k == conn[c]
           a == k.servo
           p == k.cur
           found == p.service \in DOMAIN services[a] /\ p.method \in services[a][p.service]
           kind == prepareMethod(Sig[p.method])
           ok == found /\ (kind = "stream" \/ ReadBody(p))
           o == Taken(freeReq[a], c)
<1>1. k \in Connection /\ k.st = "read" /\ ServeInv(k)  BY DEF ConnInv, ConnOK, readRequest
<1>2. p \in Package /\ k.cseq = 0 /\ a \in Addrs
  BY <1>1, ServoFacts DEF ServeInv, Serving, Calling
<1>3. Update(c, IF p.form = "header" THEN [k EXCEPT !.st = "closing", !.cur = None]
                ELSE [ReadRequestHeader(k, p) EXCEPT !.st = IF ok THEN kind ELSE "reply",
                        !.fails = ~ok, !.req = o])
  BY DEF readRequest
<1>4. CASE p.form = "header"
  <2> DEFINE r == [k EXCEPT !.st = "closing", !.cur = None]
  <2>1. r \in Connection  BY <1>1 DEF Connection, Stages
  <2>2. /\ r.st = "closing" /\ r.cur = None /\ r.req = k.req /\ SameCodec(k, r)
        /\ SameSocket(k, r) /\ SameTransit(k, r) /\ r.servo = k.servo /\ r.resp = k.resp
    BY <1>1 DEF Connection, SameSocket, SameTransit, SameCodec
  <2>3. Update(c, r)  BY <1>3, <1>4
  <2> HIDE DEF r
  <2>4. Touches(c) /\ conn'[c] = r  BY <2>1, <2>3, UpdateFacts
  <2>. QED  BY <1>1, <2>2, <2>4
<1>5. CASE p.form # "header"
  <2> DEFINE h == ReadHeader(k, p)
             s == IF ok THEN kind ELSE "reply"
             f == ~ok
             r == [h EXCEPT !.st = s, !.fails = f, !.req = o]
  <2>1. k.cseq + 1 <= MaxReqs
    <3>1. p.id \in 1 .. MaxReqs  BY <1>2 DEF Package
    <3>. QED  BY <1>2, <3>1, ServerAssumption
  <2>2. /\ h \in Connection /\ h.cseq = k.cseq + 1
        /\ h.pending = k.pending \cup {<<k.cseq + 1, p.id>>}
        /\ SameSocket(k, h) /\ SameTransit(k, h) /\ SameObjects(k, h)
        /\ h.servo = k.servo /\ h.cur = k.cur
    BY <1>1, <1>2, <2>1, ReadHeaderFacts
  <2>3. o \in Objects
    <3>1. freeReq[a] \in Seq(Objects)  BY <1>2 DEF PoolTypes
    <3>. QED  BY <1>2, <3>1, TakenFacts
  <2>4. s \in {"unary", "stream", "reply"} /\ (s \in {"unary", "stream"} => s = kind)
    <3>1. CASE ok
      <4>1. kind # "none"  BY <1>2, <3>1 DEF CallableInv
      <4>2. kind \in {"none", "unary", "stream"}  BY MethodKinds
      <4>. QED  BY <3>1, <4>1, <4>2
    <3>2. CASE ~ok
      <4>1. s = "reply"  BY <3>2
      <4>. QED  BY <4>1
    <3>. QED  BY <3>1, <3>2
  <2>5. f \in BOOLEAN  OBVIOUS
  <2>6. Update(c, r)  BY <1>3, <1>5 DEF ReadRequestHeader
  <2> HIDE DEF h, s, f, o, ok, found, kind
  <2>7. r \in Connection  BY <2>2, <2>3, <2>4, <2>5 DEF Connection, Stages
  <2>8. /\ r.st = s /\ r.req = o /\ r.cseq = h.cseq /\ r.pending = h.pending
        /\ SameSocket(h, r) /\ SameTransit(h, r) /\ r.servo = h.servo /\ r.resp = h.resp
        /\ r.cur = h.cur
    BY <2>2 DEF Connection, SameSocket, SameTransit
  <2> HIDE DEF r
  <2>9. Touches(c) /\ conn'[c] = r  BY <2>6, <2>7, UpdateFacts
  <2>10. SameSocket(k, r) /\ SameTransit(k, r) /\ r.servo = k.servo /\ r.resp = k.resp
    BY <2>2, <2>8 DEF SameSocket, SameTransit, SameObjects
  <2>11. /\ r.st \in {"unary", "stream", "reply"} /\ r.cur = k.cur
         /\ r.st \in {"unary", "stream"} => r.st = prepareMethod(Sig[k.cur.method])
         /\ r.req = Taken(freeReq[k.servo], c) /\ r.cseq = k.cseq + 1
         /\ r.pending = k.pending \cup {<<k.cseq + 1, k.cur.id>>}
    BY <2>2, <2>4, <2>8 DEF kind, o
  <2>. QED  BY <1>1, <2>9, <2>10, <2>11
<1>. QED  BY <1>4, <1>5

\* rpcStream.Send.
LEMMA StreamSendEffect ==
  ASSUME ConnInv, NEW c \in Conns, StreamSend(c)
  PROVE  LET k == conn[c] r == conn'[c] IN
           /\ Touches(c) /\ k.st = "stream" /\ r.st = "stream"
           /\ r.outQ = k.outQ \/ (cl[c].st # "closed" /\ r.outQ \in Seq(Reply))
           /\ r.pending \subseteq k.pending
           /\ SameSocket(k, r) /\ SameObjects(k, r) /\ r.cseq = k.cseq
           /\ r.inQ = k.inQ /\ r.servo = k.servo /\ r.cur = k.cur
<1> DEFINE k == conn[c]
           r == Written(c, k, k.sseq)
<1>1. k \in Connection /\ k.st = "stream" /\ Update(c, r)  BY DEF ConnInv, StreamSend
<1>2. /\ r \in Connection /\ Answers(c, k, r, k.sseq) /\ r.pending \subseteq k.pending
      /\ SameSocket(k, r) /\ SameObjects(k, r) /\ r.cseq = k.cseq
      /\ r.inQ = k.inQ /\ r.servo = k.servo /\ r.cur = k.cur /\ r.st = k.st
  BY <1>1, WrittenFacts
<1> HIDE DEF r
<1>3. Touches(c) /\ conn'[c] = r  BY <1>1, <1>2, UpdateFacts
<1>4. r.outQ = k.outQ \/ (cl[c].st # "closed" /\ r.outQ \in Seq(Reply))
  BY <1>2, ConnFields DEF Answers
<1>. QED  BY <1>1, <1>2, <1>3, <1>4

\* rpcStream.Recv: the next package is read by the same codec.
LEMMA StreamRecvEffect ==
  ASSUME ConnInv, NEW c \in Conns, StreamRecv(c)
  PROVE  LET k == conn[c] r == conn'[c] IN
           /\ Touches(c) /\ k.st = "stream" /\ r.st = "stream" /\ k.inQ # <<>>
           /\ r.inQ = Tail(k.inQ) /\ r.outQ = k.outQ
           /\ SameSocket(k, r) /\ SameObjects(k, r)
           /\ r.servo = k.servo /\ r.cur = k.cur
           /\ r.cseq \in {k.cseq, k.cseq + 1}
<1> DEFINE k == conn[c]
           p == Head(k.inQ)
           t == Tail(k.inQ)
           h == ReadRequestHeader(k, p)
           r == [h EXCEPT !.inQ = t]
<1>1. /\ k \in Connection /\ k.inQ \in Seq(Package) /\ k.inQ # <<>> /\ k.st = "stream"
      /\ NumberInv(c, k, cl[c])
  BY ConnFields DEF ConnInv, ConnOK, StreamRecv
<1>2. p \in Package /\ t \in Seq(Package) /\ p = k.inQ[1] /\ 1 \in 1 .. Len(k.inQ)
  BY <1>1, TailFacts
<1>3. k.cseq + 1 <= MaxReqs
  <2>1. p.id \in 1 .. MaxReqs  BY <1>2 DEF Package
  <2>2. p.id >= k.cseq + 1  BY <1>1, <1>2 DEF NumberInv
  <2>3. k.cseq \in 0 .. MaxReqs  BY <1>1, ConnFields
  <2>. QED  BY <2>1, <2>2, <2>3, ServerAssumption
<1>4. /\ h \in Connection /\ h.cseq \in {k.cseq, k.cseq + 1}
      /\ SameSocket(k, h) /\ SameTransit(k, h) /\ SameObjects(k, h)
      /\ h.st = k.st /\ h.servo = k.servo /\ h.cur = k.cur
  <2>1. CASE p.form = "header"
    <3>1. h = k  BY <2>1 DEF ReadRequestHeader
    <3>. QED  BY <1>1, <3>1 DEF SameSocket, SameTransit, SameObjects
  <2>2. CASE p.form # "header"
    <3>1. h = ReadHeader(k, p)  BY <2>2 DEF ReadRequestHeader
    <3>. QED  BY <1>1, <1>2, <1>3, <3>1, ReadHeaderFacts
  <2>. QED  BY <2>1, <2>2
<1>5. Update(c, r)
  <2>1. h.inQ = k.inQ  BY <1>4 DEF SameTransit
  <2>. QED  BY <2>1 DEF StreamRecv
<1> HIDE DEF h, t
<1>6. r \in Connection  BY <1>2, <1>4 DEF Connection
<1>7. /\ r.inQ = t /\ r.outQ = h.outQ /\ r.st = h.st /\ r.servo = h.servo /\ r.cur = h.cur
      /\ r.cseq = h.cseq /\ SameSocket(h, r) /\ SameObjects(h, r)
  BY <1>4 DEF Connection, SameSocket, SameObjects
<1> HIDE DEF r
<1>8. Touches(c) /\ conn'[c] = r  BY <1>5, <1>6, UpdateFacts
<1>9. r.outQ = k.outQ /\ SameSocket(k, r) /\ SameObjects(k, r)
  BY <1>4, <1>7 DEF SameSocket, SameObjects, SameTransit
<1>. QED  BY <1>1, <1>4, <1>7, <1>8, <1>9 DEF t

\* sendResponse takes a response object.
LEMMA SendResponseEffect ==
  ASSUME LifeTypes, ConnInv, PoolTypes, NEW c \in Conns, sendResponse(c)
  PROVE  LET k == conn[c] r == conn'[c] IN
           /\ Touches(c) /\ k.st = "reply" /\ r.st = "write"
           /\ r.resp = Taken(freeRsp[k.servo], c) /\ r.req = k.req
           /\ SameSocket(k, r) /\ SameTransit(k, r) /\ SameCodec(k, r)
           /\ r.servo = k.servo /\ r.cur = k.cur
<1> DEFINE k == conn[c]
           o == Taken(freeRsp[k.servo], c)
           r == [k EXCEPT !.st = "write", !.resp = o]
<1>1. k \in Connection /\ k.st = "reply" /\ ServeInv(k)  BY DEF ConnInv, ConnOK, sendResponse
<1>2. k.cur \in Package /\ k.servo \in Addrs
  BY <1>1, ServoFacts DEF ServeInv, Serving, Calling
<1>3. o \in Objects
  <2>1. freeRsp[k.servo] \in Seq(Objects)  BY <1>2 DEF PoolTypes
  <2>. QED  BY <1>2, <2>1, TakenFacts
<1>4. Update(c, r)  BY DEF sendResponse
<1> HIDE DEF o
<1>5. r \in Connection  BY <1>1, <1>3 DEF Connection, Stages
<1>6. /\ r.st = "write" /\ r.resp = o /\ r.req = k.req
      /\ SameSocket(k, r) /\ SameTransit(k, r) /\ SameCodec(k, r)
      /\ r.servo = k.servo /\ r.cur = k.cur
  BY <1>1 DEF Connection, SameSocket, SameTransit, SameCodec
<1> HIDE DEF r
<1>7. Touches(c) /\ conn'[c] = r  BY <1>4, <1>5, UpdateFacts
<1>. QED  BY <1>1, <1>6, <1>7 DEF o

\* serveRequest ends: the answer is written, objects and codec are let go.
LEMMA WriteResponseEffect ==
  ASSUME ConnInv, NEW c \in Conns, WriteResponse(c)
  PROVE  LET k == conn[c] r == conn'[c] IN
           /\ Touches(c) /\ k.st = "write" /\ r.st \in {"closing", "recv"}
           /\ Answers(c, k, r, 1) /\ r.cur = None /\ r.req = None /\ r.resp = None
           /\ r.pending = {} /\ r.cseq = 0
           /\ SameSocket(k, r) /\ r.inQ = k.inQ /\ r.servo = k.servo
           /\ freeRsp' = [freeRsp EXCEPT ![k.servo] = Freed(@, k.resp)]
           /\ freeReq' = [freeReq EXCEPT ![k.servo] = Freed(@, k.req)]
<1> DEFINE k == conn[c]
           t == Written(c, k, 1)
           s == IF t.fails THEN "closing" ELSE "recv"
           e == {}
           z == 0
           r == [t EXCEPT !.st = s, !.cur = None, !.req = None, !.resp = None,
                          !.pending = e, !.cseq = z, !.sseq = z]
<1>1. k \in Connection /\ MaxReqs \in Nat  BY ServerAssumption DEF ConnInv
<1>2. /\ t \in Connection /\ Answers(c, k, t, 1) /\ t.st = k.st
      /\ SameSocket(k, t) /\ SameObjects(k, t) /\ t.inQ = k.inQ /\ t.servo = k.servo
  BY <1>1, WrittenFacts
<1>3. s \in {"closing", "recv"}  OBVIOUS
<1>4. z \in 0 .. MaxReqs /\ e \in SUBSET ((1 .. MaxReqs) \X (1 .. MaxReqs))  BY <1>1
<1>5. Update(c, r) /\ t.st = "write"  BY DEF WriteResponse, serveRequest
<1>6. /\ freeRsp' = [freeRsp EXCEPT ![t.servo] = Freed(@, t.resp)]
      /\ freeReq' = [freeReq EXCEPT ![t.servo] = Freed(@, t.req)]
  BY DEF WriteResponse
<1> HIDE DEF t, s, e, z
<1>7. r \in Connection  BY <1>2, <1>3, <1>4 DEF Connection, Stages
<1>8. /\ r.st = s /\ r.cur = None /\ r.req = None /\ r.resp = None /\ r.pending = e
      /\ r.cseq = z /\ SameSocket(t, r) /\ SameTransit(t, r) /\ r.servo = t.servo
  BY <1>2 DEF Connection, SameSocket, SameTransit
<1> HIDE DEF r
<1>9. Touches(c) /\ conn'[c] = r  BY <1>5, <1>7, UpdateFacts
<1>10. Answers(c, k, r, 1) /\ SameSocket(k, r) /\ r.inQ = k.inQ /\ r.servo = k.servo
  BY <1>2, <1>8 DEF Answers, SameSocket, SameTransit
<1>11. /\ freeRsp' = [freeRsp EXCEPT ![k.servo] = Freed(@, k.resp)]
       /\ freeReq' = [freeReq EXCEPT ![k.servo] = Freed(@, k.req)]
  BY <1>2, <1>6 DEF SameObjects
<1>. QED  BY <1>2, <1>3, <1>5, <1>8, <1>9, <1>10, <1>11 DEF e, z

\* A step of one client.
TouchesClient(c) ==
  cl' \in [Conns -> Client] /\ \A d \in Conns \ {c} : cl'[d] = cl[d]

\* Listener.Accept: a connection that was dialled gets a socket.
LEMMA AcceptEffect ==
  ASSUME ConnInv, NEW a \in Addrs, Accept(a)
  PROVE  \E c \in Conns :
           /\ Touches(c) /\ conn[c].st = "dialled" /\ conn[c].at = on[a]
           /\ conn'[c].st = "accepted" /\ conn'[c].isOpen /\ conn'[c].at = conn[c].at
           /\ SameTransit(conn[c], conn'[c]) /\ SameObjects(conn[c], conn'[c])
           /\ SameCodec(conn[c], conn'[c])
           /\ conn'[c].servo = conn[c].servo /\ conn'[c].cur = conn[c].cur
<1>1. PICK c \in Conns :
        /\ conn[c].st = "dialled" /\ conn[c].at = on[a]
        /\ conn' = [conn EXCEPT ![c].st = "accepted", ![c].isOpen = TRUE]
  BY DEF Accept
<1> DEFINE k == conn[c]
           r == [k EXCEPT !.st = "accepted", !.isOpen = TRUE]
<1>2. k \in Connection  BY DEF ConnInv
<1>3. r \in Connection  BY <1>2 DEF Connection, Stages
<1>4. /\ r.st = "accepted" /\ r.isOpen /\ r.at = k.at /\ r.servo = k.servo /\ r.cur = k.cur
      /\ SameTransit(k, r) /\ SameObjects(k, r) /\ SameCodec(k, r)
  BY <1>2 DEF Connection, SameTransit, SameObjects, SameCodec
<1>5. conn' = [conn EXCEPT ![c] = r]
  BY <1>1 DEF ConnInv
<1> HIDE DEF r
<1>6. Touches(c) /\ conn'[c] = r  BY <1>3, <1>5, UpdateFacts DEF Update
<1>. QED  BY <1>1, <1>4, <1>6

\* The end of a listener: connections that nobody has accepted are reset.
LEMMA CloseListenerEffect ==
  ASSUME ConnInv, NEW a \in Addrs, CloseListener(a)
  PROVE  /\ conn' \in [Conns -> Connection]
         /\ \A c \in Conns : LET k == conn[c] r == conn'[c] IN
              \/ r = k
              \/ /\ k.st = "dialled" /\ r.st = "closed"
                 /\ SameSocket(k, r) /\ SameTransit(k, r) /\ SameObjects(k, r)
                 /\ SameCodec(k, r) /\ r.servo = k.servo /\ r.cur = k.cur
<1>1. ASSUME NEW c \in Conns
      PROVE  LET k == conn[c] r == conn'[c] IN
             /\ r \in Connection
             /\ \/ r = k
                \/ /\ k.st = "dialled" /\ r.st = "closed"
                   /\ SameSocket(k, r) /\ SameTransit(k, r) /\ SameObjects(k, r)
                   /\ SameCodec(k, r) /\ r.servo = k.servo /\ r.cur = k.cur
  <2> DEFINE k == conn[c]
             r == [k EXCEPT !.st = "closed"]
  <2>1. k \in Connection  BY DEF ConnInv
  <2>2. r \in Connection  BY <2>1 DEF Connection, Stages
  <2>3. /\ r.st = "closed"
        /\ SameSocket(k, r) /\ SameTransit(k, r) /\ SameObjects(k, r)
        /\ SameCodec(k, r) /\ r.servo = k.servo /\ r.cur = k.cur
    BY <2>1 DEF Connection, SameSocket, SameTransit, SameObjects, SameCodec
  <2>4. conn'[c] = IF k.st = "dialled" /\ k.at = a THEN r ELSE k
    BY DEF CloseListener
  <2> HIDE DEF r
  <2>5. CASE k.st = "dialled" /\ k.at = a
    <3>1. conn'[c] = r  BY <2>4, <2>5
    <3>. QED  BY <2>2, <2>3, <2>5, <3>1
  <2>6. CASE ~(k.st = "dialled" /\ k.at = a)
    <3>1. conn'[c] = k  BY <2>4, <2>6
    <3>. QED  BY <2>1, <3>1
  <2>. QED  BY <2>5, <2>6
<1>2. conn' = [c \in Conns |-> conn'[c]]  BY DEF CloseListener
<1>3. conn' \in [Conns -> Connection]  BY <1>1, <1>2
<1>. QED  BY <1>1, <1>3

\* Transport.Dial.
LEMMA DialEffect ==
  ASSUME LifeTypes, ConnInv, NEW c \in Conns, Dial(c)
  PROVE  LET k == conn[c] r == conn'[c] m == cl[c] w == cl'[c] IN
           /\ Touches(c) /\ TouchesClient(c) /\ c \in peers
           /\ m.st = "none" /\ w.st = "idle" /\ w.sent = m.sent
           /\ r.st = "dialled" /\ r.at \in 1 .. n /\ r.isOpen = k.isOpen
           /\ SameTransit(k, r) /\ SameObjects(k, r) /\ SameCodec(k, r)
           /\ r.servo = k.servo /\ r.cur = k.cur
<1>1. PICK a \in Used : Update(c, [conn[c] EXCEPT !.st = "dialled", !.at = a])  BY DEF Dial
<1>2. PICK b \in BOOLEAN : cl' = [cl EXCEPT ![c].st = "idle", ![c].stream = b]  BY DEF Dial
<1> DEFINE k == conn[c]
           r == [k EXCEPT !.st = "dialled", !.at = a]
           m == cl[c]
           w == [m EXCEPT !.st = "idle", !.stream = b]
<1>3. k \in Connection /\ m \in Client /\ c \in peers /\ m.st = "none"  BY DEF ConnInv, Dial
<1>4. a \in 1 .. n /\ a \in 0 .. n
  <2>1. n \in 1 .. Len(Protocols) /\ Len(Protocols) \in Nat
    BY ServerAssumption DEF LifeTypes, Addrs
  <2>. QED  BY <2>1 DEF Used
<1>5. r \in Connection  BY <1>3, <1>4 DEF Connection, Stages
<1>6. /\ r.st = "dialled" /\ r.at = a /\ r.isOpen = k.isOpen
      /\ SameTransit(k, r) /\ SameObjects(k, r) /\ SameCodec(k, r)
      /\ r.servo = k.servo /\ r.cur = k.cur
  BY <1>3 DEF Connection, SameTransit, SameObjects, SameCodec
<1>7. w \in Client /\ w.st = "idle" /\ w.sent = m.sent  BY <1>3 DEF Client
<1>8. cl' = [cl EXCEPT ![c] = w]  BY <1>2 DEF ConnInv
<1>9. Update(c, r)  BY <1>1
<1> HIDE DEF r, w
<1>10. Touches(c) /\ conn'[c] = r  BY <1>5, <1>9, UpdateFacts
<1>11. TouchesClient(c) /\ cl'[c] = w  BY <1>7, <1>8 DEF TouchesClient, ConnInv
<1>. QED  BY <1>3, <1>4, <1>6, <1>7, <1>10, <1>11

\* httpTransportClient.Send: a package with the next number.
LEMMA SendEffect ==
  ASSUME ConnInv, LifeTypes, NEW c \in Conns, Send(c)
  PROVE  LET k == conn[c] r == conn'[c] m == cl[c] w == cl'[c] IN
           /\ Touches(c) /\ TouchesClient(c)
           /\ m.st = "idle" /\ w.sent = m.sent + 1 /\ w.stream = m.stream
           /\ w.st \in Active /\ (~m.stream => w.st = "sent")
           /\ \E p \in Package :
                /\ p.id = m.sent + 1 /\ r.inQ = Append(k.inQ, p)
                /\ m.stream <=> prepareMethod(Sig[p.method]) = "stream"
           /\ SameSocket(k, r) /\ SameObjects(k, r) /\ SameCodec(k, r)
           /\ r.st = k.st /\ r.outQ = k.outQ /\ r.servo = k.servo /\ r.cur = k.cur
<1> DEFINE k == conn[c]
           m == cl[c]
           id == m.sent + 1
           b == Append(m.bl, id)
<1>1. k \in Connection /\ m \in Client /\ NumberInv(c, k, m) /\ m.st = "idle"
  BY DEF ConnInv, ConnOK, Send
<1>2. id \in 1 .. MaxReqs
  <2>1. c \in peers  BY <1>1 DEF NumberInv
  <2>2. IsFiniteSet(peers)  BY ServerAssumption, FS_Subset DEF LifeTypes
  <2>3. Cardinality(peers) \in Nat \ {0}
    BY <2>1, <2>2, FS_CardinalityType, FS_EmptySet
  <2>4. id * Cardinality(peers) <= MaxReqs  BY DEF Send
  <2>5. m.sent \in Nat  BY <1>1, ClientFields
  <2>6. id \in Nat  BY <2>5
  <2>7. id <= MaxReqs  BY <2>3, <2>4, <2>6, ShareFacts
  <2>. QED  BY <2>5, <2>7, ServerAssumption
<1>3. PICK p \in Packages :
        /\ m.stream <=> prepareMethod(Sig[p.method]) = "stream"
        /\ Update(c, [k EXCEPT !.inQ = Append(@,
              [id |-> id, service |-> p.service, method |-> p.method, form |-> p.form])])
  BY DEF Send
<1> DEFINE e == [id |-> id, service |-> p.service, method |-> p.method, form |-> p.form]
           q == Append(k.inQ, e)
           r == [k EXCEPT !.inQ = q]
<1>4. e \in Package /\ e.id = id /\ e.method = p.method  BY <1>2 DEF Package
<1>5. q \in Seq(Package)
  <2>1. k.inQ \in Seq(Package)  BY <1>1, ConnFields
  <2> HIDE DEF e
  <2>. QED  BY <1>4, <2>1, AppendFacts
<1>6. Update(c, r)  BY <1>3
<1> HIDE DEF q, e
<1>7. r \in Connection  BY <1>1, <1>5 DEF Connection
<1>8. /\ r.inQ = q /\ r.st = k.st /\ r.outQ = k.outQ /\ r.servo = k.servo /\ r.cur = k.cur
      /\ SameSocket(k, r) /\ SameObjects(k, r) /\ SameCodec(k, r)
  BY <1>1 DEF Connection, SameSocket, SameObjects, SameCodec
<1> HIDE DEF r
<1>9. Touches(c) /\ conn'[c] = r  BY <1>6, <1>7, UpdateFacts
<1> DEFINE s == IF m.stream THEN "idle" ELSE "sent"
           v == IF m.r = 0 THEN Head(b) ELSE m.r
           l == IF m.r = 0 THEN Tail(b) ELSE b
           w == [m EXCEPT !.sent = id, !.st = s, !.r = v, !.bl = l]
<1>10. cl' = [cl EXCEPT ![c] = w]  BY DEF Send
<1>11. b \in Seq(1 .. MaxReqs) /\ b # <<>> /\ m.r \in 0 .. MaxReqs
  <2>1. m.bl \in Seq(1 .. MaxReqs) /\ m.r \in 0 .. MaxReqs  BY <1>1, ClientFields
  <2> HIDE DEF id
  <2>2. b \in Seq(1 .. MaxReqs) /\ Len(b) = Len(m.bl) + 1 /\ Len(m.bl) \in Nat
    BY <1>2, <2>1, AppendFacts
  <2>3. b # <<>>  BY <2>2, EmptySeq
  <2>. QED  BY <2>1, <2>2, <2>3
<1>12. Head(b) \in 1 .. MaxReqs /\ Tail(b) \in Seq(1 .. MaxReqs)
  <2> HIDE DEF b
  <2>. QED  BY <1>11, TailFacts
<1>13. s \in {"idle", "sent"} /\ (~m.stream => s = "sent")  OBVIOUS
<1> HIDE DEF b, s
<1>14. v \in 0 .. MaxReqs /\ l \in Seq(1 .. MaxReqs)
  <2>1. Head(b) \in 0 .. MaxReqs  BY <1>12, ServerAssumption
  <2>2. v \in 0 .. MaxReqs  BY <1>11, <2>1
  <2>3. l \in Seq(1 .. MaxReqs)
    <3>1. CASE m.r = 0  BY <1>12, <3>1
    <3>2. CASE m.r # 0  BY <1>11, <3>2
    <3>. QED  BY <3>1, <3>2
  <2>. QED  BY <2>2, <2>3
<1>15. id \in 0 .. MaxReqs  BY <1>2, ServerAssumption
<1> HIDE DEF v, l, id
<1>16. w \in Client  BY <1>1, <1>13, <1>14, <1>15 DEF Client
<1>17. w.sent = id /\ w.st = s /\ w.stream = m.stream  BY <1>1 DEF Client
<1> HIDE DEF w
<1>18. TouchesClient(c) /\ cl'[c] = w  BY <1>10, <1>16 DEF TouchesClient, ConnInv
<1>19. \E x \in Package :
         /\ x.id = m.sent + 1 /\ r.inQ = Append(k.inQ, x)
         /\ m.stream <=> prepareMethod(Sig[x.method]) = "stream"
  BY <1>3, <1>4, <1>8 DEF q, id
<1>20. w.st \in Active /\ (~m.stream => w.st = "sent")  BY <1>13, <1>17 DEF Active
<1>. QED  BY <1>1, <1>8, <1>9, <1>17, <1>18, <1>19, <1>20 DEF id

\* httpTransportClient.Recv.
LEMMA ClientRecvEffect ==
  ASSUME ConnInv, NEW c \in Conns, ClientRecv(c)
  PROVE  LET k == conn[c] r == conn'[c] m == cl[c] w == cl'[c] IN
           /\ Touches(c) /\ TouchesClient(c)
           /\ m.st \in Active /\ (~m.stream => m.st = "sent")
           /\ w.st = "idle" /\ w.sent = m.sent /\ w.stream = m.stream
           /\ k.outQ # <<>> /\ r.outQ = Tail(k.outQ)
           /\ SameSocket(k, r) /\ SameObjects(k, r) /\ SameCodec(k, r)
           /\ r.st = k.st /\ r.inQ = k.inQ /\ r.servo = k.servo /\ r.cur = k.cur
<1> DEFINE k == conn[c]
           m == cl[c]
           q == Tail(k.outQ)
           r == [k EXCEPT !.outQ = q]
           z == IF m.stream THEN m.r ELSE 0
           w == [m EXCEPT !.st = "idle", !.r = z]
<1>1. k \in Connection /\ m \in Client  BY DEF ConnInv
<1>2. k.outQ # <<>> /\ Update(c, r) /\ m.st \in Active /\ (~m.stream => m.st = "sent")
  BY DEF ClientRecv, Active
<1>3. cl' = [cl EXCEPT ![c] = w]  BY DEF ClientRecv, ConnInv
<1>4. k.outQ \in Seq(Reply)  BY <1>1, ConnFields
<1>5. q \in Seq(Reply)  BY <1>2, <1>4, TailFacts
<1>6. z \in 0 .. MaxReqs  BY <1>1, ClientFields, ServerAssumption
<1> HIDE DEF q, z
<1>7. r \in Connection  BY <1>1, <1>5 DEF Connection
<1>8. /\ r.outQ = q /\ r.st = k.st /\ r.inQ = k.inQ /\ r.servo = k.servo /\ r.cur = k.cur
      /\ SameSocket(k, r) /\ SameObjects(k, r) /\ SameCodec(k, r)
  BY <1>1 DEF Connection, SameSocket, SameObjects, SameCodec
<1>9. w \in Client  BY <1>1, <1>6 DEF Client
<1>10. w.st = "idle" /\ w.sent = m.sent /\ w.stream = m.stream  BY <1>1 DEF Client
<1> HIDE DEF r, w
<1>11. Touches(c) /\ conn'[c] = r  BY <1>2, <1>7, UpdateFacts
<1>12. TouchesClient(c) /\ cl'[c] = w  BY <1>3, <1>9 DEF TouchesClient, ConnInv
<1>. QED  BY <1>2, <1>8, <1>10, <1>11, <1>12 DEF q

\* httpTransportClient.Close.
LEMMA CloseEffect ==
  ASSUME ConnInv, NEW c \in Conns, Close(c)
  PROVE  LET k == conn[c] r == conn'[c] m == cl[c] w == cl'[c] IN
           /\ Touches(c) /\ TouchesClient(c) /\ m.st \in Active
           /\ w.st = "closed" /\ w.sent = 0 /\ w.stream = m.stream /\ r.outQ = <<>>
           /\ SameSocket(k, r) /\ SameObjects(k, r) /\ SameCodec(k, r)
           /\ r.st = k.st /\ r.inQ = k.inQ /\ r.servo = k.servo /\ r.cur = k.cur
<1> DEFINE k == conn[c]
           m == cl[c]
           q == <<>>
           z == 0
           r == [k EXCEPT !.outQ = q]
           w == [m EXCEPT !.st = "closed", !.r = z, !.bl = q, !.sent = z]
<1>1. k \in Connection /\ m \in Client  BY DEF ConnInv
<1>2. Update(c, r) /\ m.st \in Active  BY DEF Close, Active
<1>3. cl' = [cl EXCEPT ![c] = w]  BY DEF Close, ConnInv
<1>4. q \in Seq(Reply) /\ q \in Seq(1 .. MaxReqs) /\ z \in 0 .. MaxReqs  BY ServerAssumption
<1> HIDE DEF q, z
<1>5. r \in Connection  BY <1>1, <1>4 DEF Connection
<1>6. /\ r.outQ = q /\ r.st = k.st /\ r.inQ = k.inQ /\ r.servo = k.servo /\ r.cur = k.cur
      /\ SameSocket(k, r) /\ SameObjects(k, r) /\ SameCodec(k, r)
  BY <1>1 DEF Connection, SameSocket, SameObjects, SameCodec
<1>7. w \in Client  BY <1>1, <1>4 DEF Client
<1>8. w.st = "closed" /\ w.sent = z /\ w.stream = m.stream  BY <1>1 DEF Client
<1> HIDE DEF r, w
<1>9. Touches(c) /\ conn'[c] = r  BY <1>2, <1>5, UpdateFacts
<1>10. TouchesClient(c) /\ cl'[c] = w  BY <1>3, <1>7 DEF TouchesClient, ConnInv
<1>. QED  BY <1>2, <1>6, <1>8, <1>9, <1>10 DEF q, z

-----------------------------------------------------------------------------
(***************************************************************************)
(* Connections.                                                            *)
(***************************************************************************)
\* A step of one connection and its client keeps what holds of the others.
LEMMA OneConn ==
  ASSUME ConnInv, NEW c \in Conns, n' = n, peers' = peers, rpc' = rpc,
         Touches(c), TouchesClient(c),
         ServeInv(conn'[c]), NumberInv(c, conn'[c], cl'[c])
  PROVE  ConnInv'
<1>1. Connection' = Connection /\ Client' = Client  BY DEF Connection, Client
<1>2. ASSUME NEW d \in Conns PROVE ConnOK(d)'
  <2>1. conn'[d] \in Connection /\ cl'[d] \in Client  BY DEF Touches, TouchesClient
  <2>2. ServeInv(conn'[d]) /\ NumberInv(d, conn'[d], cl'[d])
    <3>1. CASE d = c  BY <3>1
    <3>2. CASE d # c
      <4>1. conn'[d] = conn[d] /\ cl'[d] = cl[d]  BY <3>2 DEF Touches, TouchesClient
      <4>. QED  BY <4>1 DEF ConnInv, ConnOK
    <3>. QED  BY <3>1, <3>2
  <2>3. ServeInv(conn[d])' /\ NumberInv(d, conn[d], cl[d])'
    BY <2>2 DEF ServeInv, NumberInv
  <2>. QED  BY <1>1, <2>1, <2>3 DEF ConnOK
<1>. QED  BY <1>1, <1>2 DEF ConnInv, Touches, TouchesClient

\* The numbers of a connection whose packages stay where they are.
LEMMA NumbersStay ==
  ASSUME NEW c, NEW k, NEW r, NEW m, NumberInv(c, k, m), r.inQ = k.inQ, r.cseq = k.cseq,
         r.st \in Serving => k.st \in Serving /\ r.cur = k.cur,
         m.st # "none"
  PROVE  NumberInv(c, r, m)
BY DEF NumberInv

\* The numbers of the packages in transit when the first is received.
LEMMA TailNumbers ==
  ASSUME NEW c, NEW k, NEW r, NEW m, NumberInv(c, k, m),
         k.inQ \in Seq(Package), k.inQ # <<>>, r.inQ = Tail(k.inQ), k.cseq \in Nat,
         MaxReqs \in Nat, \A x \in 1 .. Len(k.inQ) : k.inQ[x].id \in 1 .. MaxReqs
  PROVE  /\ \A x, y \in 1 .. Len(r.inQ) : x <= y => r.inQ[y].id >= r.inQ[x].id + (y - x)
         /\ \A x \in 1 .. Len(r.inQ) : r.inQ[x].id >= k.cseq + x + 1
         /\ m.st \in Active => \A x \in 1 .. Len(r.inQ) : r.inQ[x].id <= m.sent
<1>1. /\ Len(k.inQ) \in Nat /\ Len(r.inQ) = Len(k.inQ) - 1
      /\ \A x \in 1 .. Len(r.inQ) : x + 1 \in 1 .. Len(k.inQ) /\ r.inQ[x] = k.inQ[x + 1]
  BY TailFacts
<1>2. ASSUME NEW x \in 1 .. Len(r.inQ), NEW y \in 1 .. Len(r.inQ), x <= y
      PROVE  r.inQ[y].id >= r.inQ[x].id + (y - x)
  <2>1. k.inQ[y + 1].id >= k.inQ[x + 1].id + ((y + 1) - (x + 1))
    BY <1>1, <1>2 DEF NumberInv
  <2>2. k.inQ[y + 1].id \in 1 .. MaxReqs /\ k.inQ[x + 1].id \in 1 .. MaxReqs  BY <1>1
  <2>. QED  BY <1>1, <2>1, <2>2
<1>3. ASSUME NEW x \in 1 .. Len(r.inQ) PROVE r.inQ[x].id >= k.cseq + x + 1
  <2>1. k.inQ[x + 1].id >= k.cseq + (x + 1)  BY <1>1 DEF NumberInv
  <2>2. k.inQ[x + 1].id \in 1 .. MaxReqs  BY <1>1
  <2>. QED  BY <1>1, <2>1, <2>2
<1>4. ASSUME m.st \in Active, NEW x \in 1 .. Len(r.inQ) PROVE r.inQ[x].id <= m.sent
  BY <1>1, <1>4 DEF NumberInv
<1>. QED  BY <1>2, <1>3, <1>4

\* A connection the server knows has a client.
LEMMA Dialled ==
  ASSUME ConnInv, NEW c \in Conns, conn[c].st # "none"
  PROVE  cl[c].st # "none"
BY DEF ConnInv, ConnOK, NumberInv

\* Every step of a connection at the server.
LEMMA ServeKeeps ==
  ASSUME LifeTypes, PoolTypes, CallableInv, ConnInv, NEW c \in Conns, ServeStep(c)
  PROVE  ConnInv'
<1> DEFINE k == conn[c]
           r == conn'[c]
           m == cl[c]
<1>1. n' = n /\ peers' = peers /\ rpc' = rpc /\ cl' = cl
  BY DEF ServeStep, ServeFrame, lifeVars, startVars
<1>2. k \in Connection /\ m \in Client /\ ServeInv(k) /\ NumberInv(c, k, m)
  BY DEF ConnInv, ConnOK
<1>3. TouchesClient(c)  BY <1>1 DEF TouchesClient, ConnInv
<1>4. SUFFICES Touches(c) /\ ServeInv(r) /\ NumberInv(c, r, m)
  BY <1>1, <1>3, OneConn
<1>5. k.st \in Stages /\ k.cseq \in 0 .. MaxReqs /\ k.cseq \in Nat /\ m.sent \in 0 .. MaxReqs
      /\ k.inQ \in Seq(Package) /\ Len(k.inQ) \in Nat /\ MaxReqs \in Nat
  BY <1>2, ConnFields, ClientFields, LenProperties, ServerAssumption
<1>6. \A x \in 1 .. Len(k.inQ) : k.inQ[x].id \in 1 .. MaxReqs
  <2>1. ASSUME NEW x \in 1 .. Len(k.inQ) PROVE k.inQ[x] \in Package
    BY <1>5, ElementOfSeq
  <2>. QED  BY <2>1 DEF Package
<1>7. ASSUME ServeConn(c) PROVE Touches(c) /\ ServeInv(r) /\ NumberInv(c, r, m)
  <2>1. /\ Touches(c) /\ k.st = "accepted" /\ r.st = "recv" /\ r.servo = rpc
        /\ SameSocket(k, r) /\ SameTransit(k, r) /\ SameObjects(k, r) /\ SameCodec(k, r)
    BY <1>7, ServeConnEffect
  <2> HIDE DEF k, r, m
  <2>2. ServeInv(r)
    BY <1>2, <2>1 DEF ServeInv, Running, Serving, Calling, SameSocket, SameObjects, SameCodec
  <2>3. m.st # "none"  BY <2>1, Dialled DEF k, m
  <2>4. NumberInv(c, r, m)
    BY <1>2, <2>1, <2>3, NumbersStay DEF Serving, Calling, SameTransit, SameCodec
  <2>. QED  BY <2>1, <2>2, <2>4
<1>8. ASSUME Recv(c) PROVE Touches(c) /\ ServeInv(r) /\ NumberInv(c, r, m)
  <2>1. /\ Touches(c) /\ k.st = "recv" /\ k.inQ # <<>>
        /\ r.inQ = Tail(k.inQ) /\ r.cur = Head(k.inQ) /\ r.servo = k.servo
        /\ SameSocket(k, r) /\ SameObjects(k, r) /\ SameCodec(k, r)
        /\ r.st \in {"read", "closing"}
    BY <1>8, RecvEffect
  <2>2. m.st # "none"  BY <2>1, Dialled
  <2> HIDE DEF k, r, m
  <2>3. /\ r.cur = k.inQ[1] /\ r.cur \in Package /\ 1 \in 1 .. Len(k.inQ)
        /\ Len(r.inQ) = Len(k.inQ) - 1
        /\ \A x \in 1 .. Len(r.inQ) : x + 1 \in 1 .. Len(k.inQ) /\ r.inQ[x] = k.inQ[x + 1]
    BY <1>5, <2>1, TailFacts
  <2>4. ServeInv(r)
    BY <1>2, <2>1, <2>3
    DEF ServeInv, Running, Serving, Calling, SameSocket, SameObjects, SameCodec
  <2>5. k.cseq = 0 /\ r.cseq = 0
    BY <1>2, <2>1 DEF ServeInv, Calling, SameCodec
  <2>6. /\ \A x, y \in 1 .. Len(r.inQ) : x <= y => r.inQ[y].id >= r.inQ[x].id + (y - x)
        /\ \A x \in 1 .. Len(r.inQ) : r.inQ[x].id >= k.cseq + x + 1
        /\ m.st \in Active => \A x \in 1 .. Len(r.inQ) : r.inQ[x].id <= m.sent
    BY <1>2, <1>5, <1>6, <2>1, TailNumbers
  <2>7. \A x \in 1 .. Len(r.inQ) : r.inQ[x].id >= r.cur.id + x
    <3> SUFFICES ASSUME NEW x \in 1 .. Len(r.inQ) PROVE r.inQ[x].id >= r.cur.id + x
      OBVIOUS
    <3>1. k.inQ[x + 1].id >= k.inQ[1].id + ((x + 1) - 1)
      <4> DEFINE y == x + 1
      <4>1. y \in 1 .. Len(k.inQ) /\ 1 <= y  BY <2>3
      <4> HIDE DEF y
      <4>2. k.inQ[y].id >= k.inQ[1].id + (y - 1)  BY <1>2, <2>3, <4>1 DEF NumberInv
      <4>. QED  BY <4>2 DEF y
    <3>2. k.inQ[x + 1].id \in 1 .. MaxReqs /\ k.inQ[1].id \in 1 .. MaxReqs
      BY <1>6, <2>3
    <3>. QED  BY <1>5, <2>3, <3>1, <3>2
  <2>8. \A x \in 1 .. Len(r.inQ) : r.inQ[x].id >= r.cseq + x
    <3> SUFFICES ASSUME NEW x \in 1 .. Len(r.inQ) PROVE r.inQ[x].id >= r.cseq + x
      OBVIOUS
    <3>1. k.inQ[x + 1].id \in 1 .. MaxReqs  BY <1>6, <2>3
    <3>. QED  BY <1>5, <2>3, <2>5, <2>6, <3>1
  <2>9. m.st \in Active => r.cseq <= m.sent /\ r.cur.id <= m.sent
    BY <1>2, <1>5, <2>3, <2>5 DEF NumberInv
  <2>10. m.st # "none" => c \in peers  BY <1>2 DEF NumberInv
  <2>11. NumberInv(c, r, m)
    BY <2>2, <2>6, <2>7, <2>8, <2>9, <2>10 DEF NumberInv
  <2>. QED  BY <2>1, <2>4, <2>11
<1>9. ASSUME RecvTcp(c) \/ RecvError(c)
      PROVE  Touches(c) /\ ServeInv(r) /\ NumberInv(c, r, m)
  <2>1. /\ Touches(c) /\ k.st = "recv" /\ r.st = "closing"
        /\ SameSocket(k, r) /\ SameObjects(k, r) /\ SameCodec(k, r)
        /\ r.inQ = k.inQ /\ r.servo = k.servo /\ r.cur = k.cur
    BY <1>9, RecvTcpEffect, RecvErrorEffect DEF SameTransit
  <2>2. m.st # "none"  BY <2>1, Dialled
  <2> HIDE DEF k, r, m
  <2>3. ServeInv(r)
    BY <1>2, <2>1 DEF ServeInv, Running, Serving, Calling, SameSocket, SameObjects, SameCodec
  <2>4. NumberInv(c, r, m)
    BY <1>2, <2>1, <2>2, NumbersStay DEF Serving, Calling, SameCodec
  <2>. QED  BY <2>1, <2>3, <2>4
<1>10. ASSUME readRequest(c) PROVE Touches(c) /\ ServeInv(r) /\ NumberInv(c, r, m)
  <2>1. /\ Touches(c) /\ k.st = "read"
        /\ SameSocket(k, r) /\ SameTransit(k, r) /\ r.servo = k.servo /\ r.resp = k.resp
        /\ \/ r.st = "closing" /\ r.cur = None /\ r.req = k.req /\ SameCodec(k, r)
           \/ /\ r.st \in {"unary", "stream", "reply"} /\ r.cur = k.cur
              /\ r.req = Taken(freeReq[k.servo], c) /\ r.cseq = k.cseq + 1
    BY <1>10, ReadRequestEffect
  <2>2. m.st # "none"  BY <2>1, Dialled
  <2>3. k.servo \in Addrs  BY <2>1, ServoFacts DEF Serving
  <2>4. k.cur \in Package  BY <1>2, <2>1 DEF ServeInv, Serving
  <2>5. Taken(freeReq[k.servo], c) \in Objects
    <3>1. freeReq[k.servo] \in Seq(Objects)  BY <2>3 DEF PoolTypes
    <3>. QED  BY <2>4, <3>1, TakenFacts
  <2> HIDE DEF k, r, m
  <2>6. ServeInv(r)
    BY <1>2, <2>1, <2>4, <2>5
    DEF ServeInv, Running, Serving, Calling, SameSocket, SameCodec
  <2>7. k.cur.id \in 1 .. MaxReqs  BY <2>4 DEF Package
  <2>8. k.cseq = 0  BY <1>2, <2>1 DEF ServeInv, Calling
  <2>9. NumberInv(c, r, m)
    <3>1. CASE r.st = "closing"
      BY <1>2, <2>1, <2>2, <3>1, NumbersStay DEF Serving, Calling, SameTransit, SameCodec
    <3>2. CASE r.st # "closing"
      <4>1. r.inQ = k.inQ /\ r.cur = k.cur /\ r.cseq = 1 /\ r.st \in Serving /\ k.st \in Serving
        BY <2>1, <2>8, <3>2 DEF SameTransit, Serving, Calling
      <4>2. \A x \in 1 .. Len(k.inQ) : k.inQ[x].id >= 1 + x
        <5> SUFFICES ASSUME NEW x \in 1 .. Len(k.inQ) PROVE k.inQ[x].id >= 1 + x
          OBVIOUS
        <5>1. k.inQ[x].id >= k.cur.id + x  BY <1>2, <4>1 DEF NumberInv
        <5>. QED  BY <1>5, <1>6, <2>7, <5>1
      <4>3. m.st \in Active => 1 <= m.sent
        BY <1>2, <1>5, <2>7, <4>1 DEF NumberInv
      <4>. QED  BY <1>2, <2>2, <4>1, <4>2, <4>3 DEF NumberInv
    <3>. QED  BY <3>1, <3>2
  <2>. QED  BY <2>1, <2>6, <2>9
<1>11. ASSUME MethodReturn(c) PROVE Touches(c) /\ ServeInv(r) /\ NumberInv(c, r, m)
  <2>1. /\ Touches(c) /\ k.st \in {"unary", "stream"} /\ r.st = "reply"
        /\ SameSocket(k, r) /\ SameTransit(k, r) /\ SameObjects(k, r) /\ SameCodec(k, r)
        /\ r.servo = k.servo /\ r.cur = k.cur
    BY <1>11, MethodReturnEffect
  <2>2. m.st # "none"  BY <2>1, Dialled
  <2> HIDE DEF k, r, m
  <2>3. ServeInv(r)
    BY <1>2, <2>1 DEF ServeInv, Running, Serving, Calling, SameSocket, SameObjects, SameCodec
  <2>4. NumberInv(c, r, m)
    BY <1>2, <2>1, <2>2, NumbersStay DEF Serving, Calling, SameTransit, SameCodec
  <2>. QED  BY <2>1, <2>3, <2>4
<1>12. ASSUME MethodPanic(c) PROVE Touches(c) /\ ServeInv(r) /\ NumberInv(c, r, m)
  <2>1. /\ Touches(c) /\ k.st \in {"unary", "stream"} /\ r.st = "closing"
        /\ r.req = None /\ r.pending = {} /\ r.cseq = 0 /\ r.resp = k.resp
        /\ SameSocket(k, r) /\ SameTransit(k, r) /\ r.servo = k.servo
    BY <1>12, MethodPanicEffect
  <2>2. m.st # "none"  BY <2>1, Dialled
  <2> HIDE DEF k, r, m
  <2>3. ServeInv(r)
    BY <1>2, <2>1 DEF ServeInv, Running, Serving, Calling, SameSocket
  <2>4. NumberInv(c, r, m)
    BY <1>2, <1>5, <1>6, <2>1, <2>2 DEF NumberInv, Serving, Calling, SameTransit
  <2>. QED  BY <2>1, <2>3, <2>4
<1>13. ASSUME StreamSend(c) PROVE Touches(c) /\ ServeInv(r) /\ NumberInv(c, r, m)
  <2>1. /\ Touches(c) /\ k.st = "stream" /\ r.st = "stream"
        /\ SameSocket(k, r) /\ SameObjects(k, r) /\ r.cseq = k.cseq
        /\ r.inQ = k.inQ /\ r.servo = k.servo /\ r.cur = k.cur
    BY <1>13, StreamSendEffect
  <2>2. m.st # "none"  BY <2>1, Dialled
  <2> HIDE DEF k, r, m
  <2>3. ServeInv(r)
    BY <1>2, <2>1 DEF ServeInv, Running, Serving, Calling, SameSocket, SameObjects
  <2>4. NumberInv(c, r, m)
    BY <1>2, <2>1, <2>2, NumbersStay DEF Serving, Calling
  <2>. QED  BY <2>1, <2>3, <2>4
<1>14. ASSUME StreamRecv(c) PROVE Touches(c) /\ ServeInv(r) /\ NumberInv(c, r, m)
  <2>1. /\ Touches(c) /\ k.st = "stream" /\ r.st = "stream" /\ k.inQ # <<>>
        /\ r.inQ = Tail(k.inQ) /\ SameSocket(k, r) /\ SameObjects(k, r)
        /\ r.servo = k.servo /\ r.cur = k.cur /\ r.cseq \in {k.cseq, k.cseq + 1}
    BY <1>14, StreamRecvEffect
  <2>2. m.st # "none"  BY <2>1, Dialled
  <2> HIDE DEF k, r, m
  <2>3. ServeInv(r)
    BY <1>2, <2>1 DEF ServeInv, Running, Serving, Calling, SameSocket, SameObjects
  <2>4. /\ 1 \in 1 .. Len(k.inQ) /\ Len(r.inQ) = Len(k.inQ) - 1
        /\ \A x \in 1 .. Len(r.inQ) : x + 1 \in 1 .. Len(k.inQ) /\ r.inQ[x] = k.inQ[x + 1]
    BY <1>5, <2>1, TailFacts
  <2>5. k.cur.id \in 1 .. MaxReqs
    BY <1>2, <2>1 DEF ServeInv, Serving, Calling, Package
  <2>6. /\ \A x, y \in 1 .. Len(r.inQ) : x <= y => r.inQ[y].id >= r.inQ[x].id + (y - x)
        /\ \A x \in 1 .. Len(r.inQ) : r.inQ[x].id >= k.cseq + x + 1
        /\ m.st \in Active => \A x \in 1 .. Len(r.inQ) : r.inQ[x].id <= m.sent
    BY <1>2, <1>5, <1>6, <2>1, TailNumbers
  <2>7. \A x \in 1 .. Len(r.inQ) : r.inQ[x].id >= r.cur.id + x /\ r.inQ[x].id >= r.cseq + x
    <3> SUFFICES ASSUME NEW x \in 1 .. Len(r.inQ)
                 PROVE  r.inQ[x].id >= r.cur.id + x /\ r.inQ[x].id >= r.cseq + x
      OBVIOUS
    <3>1. k.inQ[x + 1].id >= k.cur.id + (x + 1)
      BY <1>2, <2>1, <2>4 DEF NumberInv, Serving, Calling
    <3>2. k.inQ[x + 1].id \in 1 .. MaxReqs  BY <1>6, <2>4
    <3>3. r.inQ[x] = k.inQ[x + 1] /\ r.inQ[x].id >= k.cseq + x + 1  BY <2>4, <2>6
    <3>4. r.inQ[x].id >= r.cur.id + x
      <4> DEFINE u == r.inQ[x].id
                 v == r.cur.id
      <4>1. u \in 1 .. MaxReqs /\ v \in 1 .. MaxReqs  BY <2>1, <2>5, <3>2, <3>3
      <4>2. u >= v + (x + 1)  BY <2>1, <3>1, <3>3
      <4>3. x \in Nat  BY <1>5, <2>4
      <4> HIDE DEF u, v
      <4>4. u >= v + x  BY <4>1, <4>2, <4>3, ServerAssumption
      <4>. QED  BY <4>4 DEF u, v
    <3>5. r.inQ[x].id >= r.cseq + x
      <4>1. CASE r.cseq = k.cseq  BY <1>5, <3>2, <3>3, <4>1
      <4>2. CASE r.cseq = k.cseq + 1  BY <1>5, <3>2, <3>3, <4>2
      <4>. QED  BY <2>1, <4>1, <4>2
    <3>. QED  BY <3>4, <3>5
  <2>8. m.st \in Active => r.cseq <= m.sent /\ r.cur.id <= m.sent
    <3> SUFFICES ASSUME m.st \in Active PROVE r.cseq <= m.sent /\ r.cur.id <= m.sent
      OBVIOUS
    <3>1. /\ k.inQ[1].id >= k.cseq + 1 /\ k.inQ[1].id <= m.sent /\ k.cur.id <= m.sent
          /\ k.cseq <= m.sent
      BY <1>2, <2>1, <2>4 DEF NumberInv, Serving, Calling
    <3>2. k.inQ[1].id \in 1 .. MaxReqs  BY <1>6, <2>4
    <3>. QED  BY <1>5, <2>1, <2>5, <3>1, <3>2
  <2>9. m.st # "none" => c \in peers  BY <1>2 DEF NumberInv
  <2>10. NumberInv(c, r, m)
    BY <2>2, <2>6, <2>7, <2>8, <2>9 DEF NumberInv
  <2>. QED  BY <2>1, <2>3, <2>10
<1>15. ASSUME StreamClose(c) PROVE Touches(c) /\ ServeInv(r) /\ NumberInv(c, r, m)
  <2>1. /\ Touches(c) /\ k.st = "stream" /\ r.st = k.st /\ r.isOpen = FALSE /\ r.at = k.at
        /\ SameTransit(k, r) /\ SameObjects(k, r) /\ SameCodec(k, r)
        /\ r.servo = k.servo /\ r.cur = k.cur
    BY <1>15, StreamCloseEffect
  <2>2. m.st # "none"  BY <2>1, Dialled
  <2> HIDE DEF k, r, m
  <2>3. ServeInv(r)
    BY <1>2, <2>1 DEF ServeInv, Running, Serving, Calling, SameObjects, SameCodec
  <2>4. NumberInv(c, r, m)
    BY <1>2, <2>1, <2>2, NumbersStay DEF Serving, Calling, SameTransit, SameCodec
  <2>. QED  BY <2>1, <2>3, <2>4
<1>16. ASSUME sendResponse(c) PROVE Touches(c) /\ ServeInv(r) /\ NumberInv(c, r, m)
  <2>1. /\ Touches(c) /\ k.st = "reply" /\ r.st = "write"
        /\ r.resp = Taken(freeRsp[k.servo], c) /\ r.req = k.req
        /\ SameSocket(k, r) /\ SameTransit(k, r) /\ SameCodec(k, r)
        /\ r.servo = k.servo /\ r.cur = k.cur
    BY <1>16, SendResponseEffect
  <2>2. m.st # "none"  BY <2>1, Dialled
  <2>3. k.servo \in Addrs /\ k.cur \in Package
    BY <1>2, <2>1, ServoFacts DEF ServeInv, Serving, Calling
  <2>4. Taken(freeRsp[k.servo], c) \in Objects
    <3>1. freeRsp[k.servo] \in Seq(Objects)  BY <2>3 DEF PoolTypes
    <3>. QED  BY <2>3, <3>1, TakenFacts
  <2> HIDE DEF k, r, m
  <2>5. ServeInv(r)
    BY <1>2, <2>1, <2>4 DEF ServeInv, Running, Serving, Calling, SameSocket, SameCodec
  <2>6. NumberInv(c, r, m)
    BY <1>2, <2>1, <2>2, NumbersStay DEF Serving, Calling, SameTransit, SameCodec
  <2>. QED  BY <2>1, <2>5, <2>6
<1>17. ASSUME WriteResponse(c) PROVE Touches(c) /\ ServeInv(r) /\ NumberInv(c, r, m)
  <2>1. /\ Touches(c) /\ k.st = "write" /\ r.st \in {"closing", "recv"}
        /\ r.cur = None /\ r.req = None /\ r.resp = None /\ r.pending = {} /\ r.cseq = 0
        /\ SameSocket(k, r) /\ r.inQ = k.inQ /\ r.servo = k.servo
    BY <1>17, WriteResponseEffect
  <2>2. m.st # "none"  BY <2>1, Dialled
  <2> HIDE DEF k, r, m
  <2>3. ServeInv(r)
    BY <1>2, <2>1 DEF ServeInv, Running, Serving, Calling, SameSocket
  <2>4. NumberInv(c, r, m)
    BY <1>2, <1>5, <1>6, <2>1, <2>2 DEF NumberInv, Serving, Calling
  <2>. QED  BY <2>1, <2>3, <2>4
<1>18. ASSUME HandlePkgEnd(c) PROVE Touches(c) /\ ServeInv(r) /\ NumberInv(c, r, m)
  <2>1. /\ Touches(c) /\ k.st = "closing" /\ r.st = "closed" /\ r.isOpen = FALSE
        /\ r.inQ = <<>> /\ SameObjects(k, r) /\ SameCodec(k, r) /\ r.at = k.at
    BY <1>18, HandlePkgEndEffect
  <2>2. m.st # "none"  BY <2>1, Dialled
  <2> HIDE DEF k, r, m
  <2>3. ServeInv(r)
    BY <1>2, <2>1 DEF ServeInv, Running, Serving, Calling, SameObjects, SameCodec
  <2>4. Len(r.inQ) = 0  BY <2>1
  <2>5. NumberInv(c, r, m)
    BY <1>2, <2>1, <2>2, <2>4 DEF NumberInv, Serving, Calling, SameCodec
  <2>. QED  BY <2>1, <2>3, <2>5
<1>. QED
  BY <1>7, <1>8, <1>9, <1>10, <1>11, <1>12, <1>13, <1>14, <1>15, <1>16, <1>17, <1>18
  DEF ServeStep

\* Every step of a client.
LEMMA PeerKeeps ==
  ASSUME LifeTypes, ConnInv, NEW c \in Conns, PeerStep(c)
  PROVE  ConnInv'
<1> DEFINE k == conn[c]
           r == conn'[c]
           m == cl[c]
           w == cl'[c]
<1>1. n' = n /\ peers' = peers /\ rpc' = rpc  BY DEF PeerStep, lifeVars, startVars
<1>2. k \in Connection /\ m \in Client /\ ServeInv(k) /\ NumberInv(c, k, m)
  BY DEF ConnInv, ConnOK
<1>3. SUFFICES Touches(c) /\ TouchesClient(c) /\ ServeInv(r) /\ NumberInv(c, r, w)
  BY <1>1, OneConn
<1>4. /\ k.cseq \in Nat /\ m.sent \in Nat
      /\ k.inQ \in Seq(Package) /\ Len(k.inQ) \in Nat /\ MaxReqs \in Nat
  BY <1>2, ConnFields, ClientFields, LenProperties, ServerAssumption
<1>5. \A x \in 1 .. Len(k.inQ) : k.inQ[x].id \in 1 .. MaxReqs
  <2>1. ASSUME NEW x \in 1 .. Len(k.inQ) PROVE k.inQ[x] \in Package
    BY <1>4, ElementOfSeq
  <2>. QED  BY <2>1 DEF Package
<1>6. ASSUME Dial(c)
      PROVE  Touches(c) /\ TouchesClient(c) /\ ServeInv(r) /\ NumberInv(c, r, w)
  <2>1. /\ Touches(c) /\ TouchesClient(c) /\ c \in peers
        /\ m.st = "none" /\ w.st = "idle" /\ w.sent = m.sent
        /\ r.st = "dialled" /\ r.at \in 1 .. n /\ r.isOpen = k.isOpen
        /\ SameTransit(k, r) /\ SameObjects(k, r) /\ SameCodec(k, r)
    BY <1>6, DialEffect
  <2> HIDE DEF k, r, m, w
  <2>2. k.st = "none" /\ k.inQ = <<>>  BY <1>2, <2>1 DEF NumberInv
  <2>3. ServeInv(r)
    BY <1>2, <2>1, <2>2
    DEF ServeInv, Running, Serving, Calling, SameObjects, SameCodec
  <2>4. Len(r.inQ) = 0 /\ r.cseq = 0
    BY <1>2, <2>1, <2>2 DEF SameTransit, SameCodec, ServeInv, Calling
  <2>5. NumberInv(c, r, w)
    BY <1>4, <2>1, <2>4 DEF NumberInv, Serving, Calling, Active
  <2>. QED  BY <2>1, <2>3, <2>5
<1>7. ASSUME Send(c)
      PROVE  Touches(c) /\ TouchesClient(c) /\ ServeInv(r) /\ NumberInv(c, r, w)
  <2>1. /\ Touches(c) /\ TouchesClient(c)
        /\ m.st = "idle" /\ w.sent = m.sent + 1 /\ w.st \in Active
        /\ \E p \in Package : p.id = m.sent + 1 /\ r.inQ = Append(k.inQ, p)
        /\ SameSocket(k, r) /\ SameObjects(k, r) /\ SameCodec(k, r)
        /\ r.st = k.st /\ r.servo = k.servo /\ r.cur = k.cur
    BY <1>7, SendEffect
  <2>2. PICK p \in Package : p.id = m.sent + 1 /\ r.inQ = Append(k.inQ, p)  BY <2>1
  <2> HIDE DEF k, r, m, w
  <2>3. ServeInv(r)
    BY <1>2, <2>1 DEF ServeInv, SameSocket, SameObjects, SameCodec
  <2>4. /\ Len(r.inQ) = Len(k.inQ) + 1 /\ r.inQ[Len(k.inQ) + 1] = p
        /\ \A x \in 1 .. Len(k.inQ) : r.inQ[x] = k.inQ[x]
    BY <1>4, <2>2, AppendFacts
  <2>5. /\ \A x \in 1 .. Len(k.inQ) : k.inQ[x].id <= m.sent
        /\ k.cseq <= m.sent /\ (k.st \in Serving => k.cur.id <= m.sent)
    BY <1>2, <2>1 DEF NumberInv, Active
  <2>6. \A x \in 1 .. Len(k.inQ) : k.inQ[x].id + (Len(k.inQ) - x) <= m.sent
    <3> SUFFICES ASSUME NEW x \in 1 .. Len(k.inQ)
                 PROVE  k.inQ[x].id + (Len(k.inQ) - x) <= m.sent
      OBVIOUS
    <3> DEFINE y == Len(k.inQ)
    <3>1. y \in 1 .. Len(k.inQ) /\ x <= y  BY <1>4
    <3>2. k.inQ[y].id >= k.inQ[x].id + (y - x)  BY <1>2, <3>1 DEF NumberInv
    <3>3. k.inQ[y].id \in 1 .. MaxReqs /\ k.inQ[x].id \in 1 .. MaxReqs /\ k.inQ[y].id <= m.sent
      BY <1>5, <2>5, <3>1
    <3>4. y \in Nat /\ x \in Nat  BY <1>4
    <3> DEFINE u == k.inQ[y].id
               v == k.inQ[x].id
    <3>5. u \in Nat /\ v \in Nat /\ u <= m.sent /\ u >= v + (y - x)  BY <1>4, <3>2, <3>3
    <3>6. v + (y - x) <= m.sent
      <4> HIDE DEF u, v, y
      <4>. QED  BY <1>4, <3>4, <3>5
    <3>. QED  BY <3>6
  <2>7. \A x, y \in 1 .. Len(r.inQ) : x <= y => r.inQ[y].id >= r.inQ[x].id + (y - x)
    <3> SUFFICES ASSUME NEW x \in 1 .. Len(r.inQ), NEW y \in 1 .. Len(r.inQ), x <= y
                 PROVE  r.inQ[y].id >= r.inQ[x].id + (y - x)
      OBVIOUS
    <3>0. x <= y  OBVIOUS
    <3>1. CASE y <= Len(k.inQ)
      <4>1. x \in 1 .. Len(k.inQ) /\ y \in 1 .. Len(k.inQ)  BY <1>4, <2>4, <3>1
      <4>2. k.inQ[y].id >= k.inQ[x].id + (y - x)  BY <1>2, <3>0, <4>1 DEF NumberInv
      <4>3. r.inQ[x] = k.inQ[x] /\ r.inQ[y] = k.inQ[y]  BY <2>4, <4>1
      <4>. QED  BY <4>2, <4>3
    <3>2. CASE y = Len(k.inQ) + 1 /\ x <= Len(k.inQ)
      <4>1. x \in 1 .. Len(k.inQ) /\ k.inQ[x].id \in 1 .. MaxReqs  BY <1>4, <1>5, <2>4, <3>2
      <4>2. r.inQ[y].id = m.sent + 1 /\ r.inQ[x] = k.inQ[x]  BY <2>2, <2>4, <3>2, <4>1
      <4>3. k.inQ[x].id + (Len(k.inQ) - x) <= m.sent  BY <2>6, <4>1
      <4> DEFINE l == Len(k.inQ)
                 v == k.inQ[x].id
                 u == r.inQ[y].id
      <4>4. /\ l \in Nat /\ v \in Nat /\ x \in Nat /\ y = l + 1 /\ u = m.sent + 1
            /\ v + (l - x) <= m.sent /\ r.inQ[x].id = v
        BY <1>4, <3>2, <4>1, <4>2, <4>3
      <4>5. u >= v + (y - x)
        <5> HIDE DEF l, v, u
        <5>. QED  BY <1>4, <4>4
      <4>. QED  BY <4>4, <4>5
    <3>3. CASE y = Len(k.inQ) + 1 /\ x = y
      <4>1. r.inQ[y].id = m.sent + 1 /\ r.inQ[x].id = m.sent + 1  BY <2>2, <2>4, <3>3
      <4>. QED  BY <1>4, <3>3, <4>1
    <3>. QED  BY <1>4, <2>4, <3>1, <3>2, <3>3
  <2>8. ASSUME NEW z \in Nat, z <= m.sent, \A x \in 1 .. Len(k.inQ) : k.inQ[x].id >= z + x
        PROVE  \A x \in 1 .. Len(r.inQ) : r.inQ[x].id >= z + x
    <3> SUFFICES ASSUME NEW x \in 1 .. Len(r.inQ) PROVE r.inQ[x].id >= z + x
      OBVIOUS
    <3>1. CASE x <= Len(k.inQ)
      <4>1. x \in 1 .. Len(k.inQ)  BY <1>4, <2>4, <3>1
      <4>. QED  BY <2>4, <2>8, <4>1
    <3>2. CASE x = Len(k.inQ) + 1
      <4>1. r.inQ[x].id = m.sent + 1  BY <2>2, <2>4, <3>2
      <4>2. CASE Len(k.inQ) = 0  BY <1>4, <2>8, <3>2, <4>1, <4>2
      <4>3. CASE Len(k.inQ) # 0
        <5> DEFINE y == Len(k.inQ)
        <5>1. y \in 1 .. Len(k.inQ)  BY <1>4, <4>3
        <5>2. k.inQ[y].id >= z + y /\ k.inQ[y].id <= m.sent /\ k.inQ[y].id \in 1 .. MaxReqs
          BY <1>5, <2>5, <2>8, <5>1
        <5>. QED  BY <1>4, <2>8, <3>2, <4>1, <5>1, <5>2
      <4>. QED  BY <4>2, <4>3
    <3>. QED  BY <1>4, <2>4, <3>1, <3>2
  <2>9. \A x \in 1 .. Len(r.inQ) : r.inQ[x].id >= r.cseq + x
    <3>1. r.cseq = k.cseq  BY <2>1 DEF SameCodec
    <3>2. \A x \in 1 .. Len(k.inQ) : k.inQ[x].id >= k.cseq + x  BY <1>2 DEF NumberInv
    <3>. QED  BY <1>4, <2>5, <2>8, <3>1, <3>2
  <2>10. r.st \in Serving => \A x \in 1 .. Len(r.inQ) : r.inQ[x].id >= r.cur.id + x
    <3> SUFFICES ASSUME k.st \in Serving
                 PROVE  \A x \in 1 .. Len(r.inQ) : r.inQ[x].id >= k.cur.id + x
      BY <2>1
    <3>1. k.cur.id \in 1 .. MaxReqs  BY <1>2 DEF ServeInv, Package
    <3>2. k.cur.id \in Nat /\ k.cur.id <= m.sent  BY <2>5, <3>1
    <3>3. \A x \in 1 .. Len(k.inQ) : k.inQ[x].id >= k.cur.id + x  BY <1>2 DEF NumberInv
    <3>. QED  BY <2>8, <3>2, <3>3
  <2>11. \A x \in 1 .. Len(r.inQ) : r.inQ[x].id <= w.sent
    <3> SUFFICES ASSUME NEW x \in 1 .. Len(r.inQ) PROVE r.inQ[x].id <= w.sent
      OBVIOUS
    <3>1. CASE x <= Len(k.inQ)
      <4>1. x \in 1 .. Len(k.inQ)  BY <1>4, <2>4, <3>1
      <4>2. r.inQ[x] = k.inQ[x] /\ k.inQ[x].id <= m.sent /\ k.inQ[x].id \in 1 .. MaxReqs
        BY <1>5, <2>4, <2>5, <4>1
      <4>. QED  BY <1>4, <2>1, <4>2
    <3>2. CASE x = Len(k.inQ) + 1
      <4>1. r.inQ[x].id = m.sent + 1  BY <2>2, <2>4, <3>2
      <4>. QED  BY <1>4, <2>1, <4>1
    <3>. QED  BY <1>4, <2>4, <3>1, <3>2
  <2>12. r.cseq <= w.sent /\ (r.st \in Serving => r.cur.id <= w.sent)
    <3>1. r.cseq <= w.sent  BY <1>4, <2>1, <2>5 DEF SameCodec
    <3>2. ASSUME r.st \in Serving PROVE r.cur.id <= w.sent
      <4>1. k.cur.id \in 1 .. MaxReqs  BY <1>2, <2>1, <3>2 DEF ServeInv, Package
      <4>. QED  BY <1>4, <2>1, <2>5, <3>2, <4>1
    <3>. QED  BY <3>1, <3>2
  <2>13. w.st # "none" /\ c \in peers  BY <1>2, <2>1 DEF NumberInv, Active
  <2>14. NumberInv(c, r, w)
    BY <2>7, <2>9, <2>10, <2>11, <2>12, <2>13 DEF NumberInv
  <2>. QED  BY <2>1, <2>3, <2>14
<1>8. ASSUME ClientRecv(c)
      PROVE  Touches(c) /\ TouchesClient(c) /\ ServeInv(r) /\ NumberInv(c, r, w)
  <2>1. /\ Touches(c) /\ TouchesClient(c)
        /\ m.st \in Active /\ w.st = "idle" /\ w.sent = m.sent
        /\ SameSocket(k, r) /\ SameObjects(k, r) /\ SameCodec(k, r)
        /\ r.st = k.st /\ r.inQ = k.inQ /\ r.servo = k.servo /\ r.cur = k.cur
    BY <1>8, ClientRecvEffect
  <2> HIDE DEF k, r, m, w
  <2>2. ServeInv(r)
    BY <1>2, <2>1 DEF ServeInv, SameSocket, SameObjects, SameCodec
  <2>3. NumberInv(c, r, w)
    BY <1>2, <2>1 DEF NumberInv, Active, SameCodec
  <2>. QED  BY <2>1, <2>2, <2>3
<1>9. ASSUME Close(c)
      PROVE  Touches(c) /\ TouchesClient(c) /\ ServeInv(r) /\ NumberInv(c, r, w)
  <2>1. /\ Touches(c) /\ TouchesClient(c) /\ m.st \in Active /\ w.st = "closed"
        /\ SameSocket(k, r) /\ SameObjects(k, r) /\ SameCodec(k, r)
        /\ r.st = k.st /\ r.inQ = k.inQ /\ r.servo = k.servo /\ r.cur = k.cur
    BY <1>9, CloseEffect
  <2> HIDE DEF k, r, m, w
  <2>2. ServeInv(r)
    BY <1>2, <2>1 DEF ServeInv, SameSocket, SameObjects, SameCodec
  <2>3. NumberInv(c, r, w)
    BY <1>2, <2>1 DEF NumberInv, Active, SameCodec
  <2>. QED  BY <2>1, <2>2, <2>3
<1>. QED  BY <1>6, <1>7, <1>8, <1>9 DEF PeerStep

\* Steps that leave connections alone.
LEMMA ConnFrame ==
  ASSUME ConnInv, conn' = conn, cl' = cl, n' = n, peers' = peers, rpc >= 1 => rpc' >= 1
  PROVE  ConnInv'
<1>1. Connection' = Connection /\ Client' = Client  BY DEF Connection, Client
<1>2. ASSUME NEW c \in Conns PROVE ConnOK(c)'
  <2>1. conn[c] \in Connection /\ cl[c] \in Client
        /\ ServeInv(conn[c]) /\ NumberInv(c, conn[c], cl[c])
    BY DEF ConnInv, ConnOK
  <2>2. ServeInv(conn[c])'  BY <2>1 DEF ServeInv
  <2>3. NumberInv(c, conn[c], cl[c])'  BY <2>1 DEF NumberInv
  <2>. QED  BY <1>1, <2>1, <2>2, <2>3 DEF ConnOK
<1>. QED  BY <1>1, <1>2 DEF ConnInv

\* The steps of Start, Stop and the listeners keep what holds of connections.
LEMMA LifeKeepsConn ==
  ASSUME LifeTypes, LoopInv, ConnInv, LifeNext
  PROVE  ConnInv'
<1>1. n' = n /\ peers' = peers /\ cl' = cl  BY DEF LifeNext, LifeFrame
<1>2. ASSUME NEW a \in Addrs, Accept(a) PROVE ConnInv'
  <2>1. PICK c \in Conns :
           /\ Touches(c) /\ conn[c].st = "dialled" /\ conn[c].at = on[a]
           /\ conn'[c].st = "accepted" /\ conn'[c].isOpen /\ conn'[c].at = conn[c].at
           /\ SameTransit(conn[c], conn'[c]) /\ SameObjects(conn[c], conn'[c])
           /\ SameCodec(conn[c], conn'[c])
           /\ conn'[c].servo = conn[c].servo /\ conn'[c].cur = conn[c].cur
    BY <1>2, AcceptEffect
  <2> DEFINE k == conn[c]
             r == conn'[c]
  <2>2. ServeInv(k) /\ NumberInv(c, k, cl[c])  BY DEF ConnInv, ConnOK
  <2>3. rpc >= 1 /\ rpc' = rpc  BY <1>2 DEF Accept, LoopInv, startVars
  <2>4. cl[c].st # "none"  BY <2>1, Dialled
  <2>5. TouchesClient(c)  BY <1>1 DEF TouchesClient, ConnInv
  <2> HIDE DEF k, r
  <2>6. ServeInv(r)
    BY <2>1, <2>2, <2>3
    DEF k, r, ServeInv, Running, Serving, Calling, SameObjects, SameCodec
  <2>7. NumberInv(c, r, cl[c])
    BY <2>1, <2>2, <2>4, NumbersStay DEF k, r, Serving, Calling, SameTransit, SameCodec
  <2>. QED  BY <1>1, <2>1, <2>3, <2>5, <2>6, <2>7, OneConn DEF r
<1>3. ASSUME NEW a \in Addrs, CloseListener(a) PROVE ConnInv'
  <2>1. Connection' = Connection /\ Client' = Client /\ rpc' = rpc
    BY <1>1, <1>3 DEF Connection, Client, CloseListener, startVars
  <2>2. ASSUME NEW c \in Conns PROVE ConnOK(c)'
    <3> DEFINE k == conn[c]
               r == conn'[c]
    <3>1. r \in Connection /\
          \/ r = k
          \/ /\ k.st = "dialled" /\ r.st = "closed"
             /\ SameSocket(k, r) /\ SameTransit(k, r) /\ SameObjects(k, r)
             /\ SameCodec(k, r) /\ r.servo = k.servo /\ r.cur = k.cur
      BY <1>3, CloseListenerEffect
    <3>2. ServeInv(k) /\ NumberInv(c, k, cl[c]) /\ cl[c] \in Client  BY DEF ConnInv, ConnOK
    <3>3. k.st = "dialled" => cl[c].st # "none"  BY Dialled
    <3> HIDE DEF k, r
    <3>4. ServeInv(r)
      BY <3>1, <3>2
      DEF ServeInv, Running, Serving, Calling, SameSocket, SameObjects, SameCodec
    <3>5. NumberInv(c, r, cl[c])
      BY <3>1, <3>2, <3>3, NumbersStay DEF Serving, Calling, SameTransit, SameCodec
    <3>6. ServeInv(conn[c])'  BY <2>1, <3>4 DEF ServeInv, r
    <3>7. NumberInv(c, conn[c], cl[c])'  BY <1>1, <3>5 DEF NumberInv, r
    <3>. QED  BY <1>1, <2>1, <3>1, <3>2, <3>6, <3>7 DEF ConnOK, r
  <2>3. conn' \in [Conns -> Connection]  BY <1>3, CloseListenerEffect
  <2>. QED  BY <1>1, <2>1, <2>2, <2>3 DEF ConnInv
<1>4. CASE StartSpawn
  <2>1. rpc' >= 1 /\ conn' = conn  BY <1>4 DEF StartSpawn, LifeTypes
  <2>. QED  BY <1>1, <2>1, ConnFrame
<1>5. CASE StartListen \/ StopBegin \/ StopWait \/ StopEnd
           \/ \E a \in Addrs : AcceptBegin(a) \/ acquire(a) \/ AcceptError(a)
  <2>1. rpc' = rpc /\ conn' = conn
    BY <1>5
    DEF StartListen, StopBegin, StopWait, StopEnd, AcceptBegin, acquire, AcceptError, startVars
  <2>. QED  BY <1>1, <2>1, ConnFrame
<1>. QED  BY <1>2, <1>3, <1>4, <1>5 DEF LifeNext

-----------------------------------------------------------------------------
(***************************************************************************)
(* Start, Stop and the listeners.                                          *)
(***************************************************************************)
\* Steps that are not of Start, Stop or a listener.
LEMMA LifeStays ==
  ASSUME LifeTypes, LoopInv, UNCHANGED <<tcp, n, peers, mayStop, lifeVars>>,
         panicked' \in BOOLEAN
  PROVE  LifeTypes' /\ LoopInv'
<1>1. UNCHANGED <<start, i, listener, rpc, acc, on, done, stop, reg, lis, fin>>
  BY DEF lifeVars, startVars, accVars, stopVars
<1>2. Addrs' = Addrs  BY DEF Addrs
<1>. QED  BY <1>1, <1>2 DEF LifeTypes, LoopInv

\* The steps of Start, Stop and the listeners.
LEMMA LifeKeeps ==
  ASSUME LifeTypes, LoopInv, LifeNext
  PROVE  LifeTypes' /\ LoopInv'
<1>1. UNCHANGED <<tcp, n, peers, mayStop>> /\ Addrs' = Addrs
  BY DEF LifeNext, LifeFrame, Addrs
<1>2. n \in Nat \ {0} /\ Addrs = 1 .. Len(Protocols) /\ Len(Protocols) \in Nat /\ n <= Len(Protocols)
  BY ServerAssumption DEF LifeTypes, Addrs
<1>3. ASSUME StartListen PROVE LifeTypes' /\ LoopInv'
  <2>1. UNCHANGED <<i, rpc, acc, on, done, stop, reg, fin, panicked>> /\ start = "listen"
    BY <1>3 DEF StartListen, accVars, stopVars
  <2>2. i \in 1 .. n /\ i \in Addrs  BY <1>2, <2>1 DEF LoopInv, LifeTypes
  <2>3. /\ lis' \in [Addrs -> {"none", "open", "closed"}] /\ listener' \in 0 .. n
        /\ start' \in {"listen", "spawn", "ok", "err"}
    BY <1>2, <1>3, <2>2 DEF StartListen, Listen, LifeTypes
  <2>4. LifeTypes'  BY <1>1, <2>1, <2>3 DEF LifeTypes
  <2>5. LoopInv'  BY <1>1, <2>1, <2>2 DEF LoopInv
  <2>. QED  BY <2>4, <2>5
<1>4. ASSUME StartSpawn PROVE LifeTypes' /\ LoopInv'
  <2>1. UNCHANGED <<listener, lis, on, done, stop, reg, panicked>> /\ start = "spawn"
    BY <1>4 DEF StartSpawn, stopVars
  <2>2. i \in 1 .. n /\ i \in Addrs  BY <1>2, <2>1 DEF LoopInv, LifeTypes
  <2>3. /\ rpc' = i /\ i' = i + 1 /\ start' = (IF i = n THEN "ok" ELSE "listen")
        /\ acc' = [acc EXCEPT ![i] = "new"] /\ fin' = [fin EXCEPT ![i] = "wait"]
    BY <1>4 DEF StartSpawn
  <2>4. LifeTypes'
    <3>1. start' \in {"listen", "ok"} /\ i' \in 1 .. n + 1 /\ rpc' \in 0 .. n  BY <1>2, <2>2, <2>3
    <3>2. /\ acc' \in [Addrs -> {"none", "new", "acquire", "accept", "ended"}]
          /\ fin' \in [Addrs -> {"none", "wait", "ended"}]
      BY <2>2, <2>3 DEF LifeTypes
    <3>. QED  BY <1>1, <2>1, <3>1, <3>2 DEF LifeTypes
  <2>5. start' \in {"listen", "spawn"} => i' <= n  BY <1>2, <2>2, <2>3
  <2>6. ASSUME NEW a \in Addrs
        PROVE  /\ a >= i' => acc'[a] = "none"
               /\ acc'[a] # "none" => rpc' >= 1
               /\ acc'[a] \in {"acquire", "accept"} => on'[a] >= 1
    <3>1. CASE a = i
      <4>1. acc'[a] = "new"  BY <2>2, <2>3, <3>1 DEF LifeTypes
      <4>. QED  BY <1>2, <2>2, <2>3, <3>1, <4>1
    <3>2. CASE a # i
      <4>1. acc'[a] = acc[a]  BY <2>3, <3>2 DEF LifeTypes
      <4>2. a >= i + 1 => a >= i  BY <1>2, <2>2
      <4>. QED  BY <1>2, <2>1, <2>2, <2>3, <4>1, <4>2 DEF LoopInv
    <3>. QED  BY <3>1, <3>2
  <2>. QED  BY <1>1, <2>4, <2>5, <2>6 DEF LoopInv
<1>5. ASSUME NEW a \in Addrs, AcceptBegin(a) \/ acquire(a) \/ Accept(a) \/ AcceptError(a)
      PROVE  LifeTypes' /\ LoopInv'
  <2>1. UNCHANGED <<start, i, listener, rpc, done, stop, reg, lis, fin>>
    BY <1>5 DEF AcceptBegin, acquire, Accept, AcceptError, startVars, stopVars
  <2>2. acc[a] \in {"new", "acquire", "accept"}
    BY <1>5 DEF AcceptBegin, acquire, Accept, AcceptError
  <2>3. /\ panicked' \in BOOLEAN
        /\ acc' \in [Addrs -> {"none", "new", "acquire", "accept", "ended"}]
        /\ on' \in [Addrs -> 0 .. n]
        /\ \A b \in Addrs \ {a} : acc'[b] = acc[b] /\ on'[b] = on[b]
        /\ acc'[a] \in {"acquire", "accept"} => on'[a] >= 1
    <3>1. CASE AcceptBegin(a)
      <4>1. CASE listener = 0
        <5>1. panicked' = TRUE /\ acc' = acc /\ on' = on /\ acc[a] = "new"
          BY <3>1, <4>1 DEF AcceptBegin, accVars
        <5>. QED  BY <5>1 DEF LifeTypes
      <4>2. CASE listener # 0
        <5>1. listener \in 1 .. n  BY <1>2, <4>2 DEF LifeTypes
        <5>2. /\ panicked' = panicked /\ on' = [on EXCEPT ![a] = listener]
              /\ acc' = [acc EXCEPT ![a] = "acquire"]
          BY <3>1, <4>2 DEF AcceptBegin
        <5>3. on' \in [Addrs -> 0 .. n] /\ on'[a] >= 1  BY <1>2, <5>1, <5>2 DEF LifeTypes
        <5>. QED  BY <5>2, <5>3 DEF LifeTypes
      <4>. QED  BY <4>1, <4>2
    <3>2. CASE acquire(a)  BY <1>2, <2>2, <3>2 DEF acquire, LifeTypes, LoopInv
    <3>3. CASE Accept(a)  BY <1>2, <2>2, <3>3 DEF Accept, LifeTypes, LoopInv
    <3>4. CASE AcceptError(a)
      <4>1. UNCHANGED <<on, panicked>> /\ acc[a] = "accept"  BY <3>4 DEF AcceptError
      <4>2. \E x \in {"ended", "acquire"} : acc' = [acc EXCEPT ![a] = x]  BY <3>4 DEF AcceptError
      <4>. QED  BY <4>1, <4>2 DEF LifeTypes, LoopInv
    <3>. QED  BY <1>5, <3>1, <3>2, <3>3, <3>4
  <2>4. LifeTypes'  BY <1>1, <2>1, <2>3 DEF LifeTypes
  <2>5. LoopInv'  BY <1>1, <2>1, <2>2, <2>3 DEF LoopInv
  <2>. QED  BY <2>4, <2>5
<1>6. ASSUME NEW a \in Addrs, CloseListener(a) PROVE LifeTypes' /\ LoopInv'
  <2>1. UNCHANGED <<start, i, listener, rpc, acc, on, done, stop, reg, panicked>>
    BY <1>6 DEF CloseListener, startVars, accVars, stopVars
  <2>2. /\ lis' \in [Addrs -> {"none", "open", "closed"}]
        /\ fin' \in [Addrs -> {"none", "wait", "ended"}]
    BY <1>6 DEF CloseListener, LifeTypes
  <2>. QED  BY <1>1, <2>1, <2>2 DEF LifeTypes, LoopInv
<1>7. ASSUME StopBegin \/ StopWait \/ StopEnd PROVE LifeTypes' /\ LoopInv'
  <2>1. UNCHANGED <<start, i, listener, rpc, acc, on, lis, fin, panicked>>
    BY <1>7 DEF StopBegin, StopWait, StopEnd, startVars, accVars
  <2>2. /\ done' \in BOOLEAN /\ stop' \in {"idle", "wait", "close", "done"}
        /\ reg' \in {"open", "closed", "nil"}
    BY <1>7 DEF StopBegin, StopWait, StopEnd, LifeTypes
  <2>. QED  BY <1>1, <2>1, <2>2 DEF LifeTypes, LoopInv
<1>. QED  BY <1>3, <1>4, <1>5, <1>6, <1>7 DEF LifeNext

-----------------------------------------------------------------------------
(***************************************************************************)
(* The free lists.                                                         *)
(***************************************************************************)
\* freeRequest and freeRsponse keep a list within its limit.
LEMMA FreedFacts ==
  ASSUME NEW free \in Seq(Objects), NEW o \in Objects, Len(free) <= FreeCap
  PROVE  Freed(free, o) \in Seq(Objects) /\ Len(Freed(free, o)) <= FreeCap
<1>1. Len(free) \in Nat /\ FreeCap \in Nat  BY LenProperties, ServerAssumption
<1>2. CASE Len(free) < FreeCap
  <2>1. Freed(free, o) = Append(free, o)  BY <1>2 DEF Freed
  <2>. QED  BY <1>1, <1>2, <2>1, AppendFacts
<1>3. CASE ~(Len(free) < FreeCap)
  <2>1. Freed(free, o) = free  BY <1>3 DEF Freed
  <2>. QED  BY <2>1
<1>. QED  BY <1>2, <1>3

\* Every step of a connection keeps the free lists within their limit.
LEMMA PoolKeeps ==
  ASSUME LifeTypes, ConnInv, PoolTypes, NEW c \in Conns, ServeStep(c)
  PROVE  PoolTypes'
<1> DEFINE a == conn[c].servo
<1>1. Addrs' = Addrs /\ Objects' = Objects /\ FreeCap \in Nat  BY ServerAssumption DEF Addrs, Objects
<1>2. ServeInv(conn[c])  BY DEF ConnInv, ConnOK
<1>3. SUFFICES /\ freeReq' \in [Addrs -> Seq(Objects)] /\ freeRsp' \in [Addrs -> Seq(Objects)]
               /\ \A b \in Addrs : Len(freeReq'[b]) <= FreeCap /\ Len(freeRsp'[b]) <= FreeCap
  BY <1>1 DEF PoolTypes
<1>4. CASE UNCHANGED <<freeReq, freeRsp>>  BY <1>4 DEF PoolTypes
<1>5. CASE readRequest(c)
  <2>1. conn[c].st = "read"  BY <1>5 DEF readRequest
  <2>2. a \in Addrs /\ conn[c].cur \in Package  BY <1>2, <2>1, ServoFacts DEF Serving, ServeInv
  <2>3. freeReq[a] \in Seq(Objects) /\ Len(freeReq[a]) <= FreeCap  BY <2>2 DEF PoolTypes
  <2> DEFINE q == Rest(freeReq[a])
  <2>4. q \in Seq(Objects) /\ Len(q) <= FreeCap
    <3>1. q \in Seq(Objects) /\ Len(q) <= Len(freeReq[a])  BY <2>2, <2>3, TakenFacts
    <3>2. Len(q) \in Nat /\ Len(freeReq[a]) \in Nat  BY <2>3, <3>1, LenProperties
    <3>. QED  BY <1>1, <2>3, <3>1, <3>2
  <2>5. freeReq' = [freeReq EXCEPT ![a] = q] /\ freeRsp' = freeRsp  BY <1>5 DEF readRequest
  <2> HIDE DEF q
  <2>. QED  BY <2>2, <2>4, <2>5 DEF PoolTypes
<1>6. CASE sendResponse(c)
  <2>1. conn[c].st = "reply"  BY <1>6 DEF sendResponse
  <2>2. a \in Addrs /\ conn[c].cur \in Package
    BY <1>2, <2>1, ServoFacts DEF Serving, Calling, ServeInv
  <2>3. freeRsp[a] \in Seq(Objects) /\ Len(freeRsp[a]) <= FreeCap  BY <2>2 DEF PoolTypes
  <2> DEFINE q == Rest(freeRsp[a])
  <2>4. q \in Seq(Objects) /\ Len(q) <= FreeCap
    <3>1. q \in Seq(Objects) /\ Len(q) <= Len(freeRsp[a])  BY <2>2, <2>3, TakenFacts
    <3>2. Len(q) \in Nat /\ Len(freeRsp[a]) \in Nat  BY <2>3, <3>1, LenProperties
    <3>. QED  BY <1>1, <2>3, <3>1, <3>2
  <2>5. freeRsp' = [freeRsp EXCEPT ![a] = q] /\ freeReq' = freeReq  BY <1>6 DEF sendResponse
  <2> HIDE DEF q
  <2>. QED  BY <2>2, <2>4, <2>5 DEF PoolTypes
<1>7. CASE WriteResponse(c)
  <2>1. /\ conn[c].st = "write"
        /\ freeRsp' = [freeRsp EXCEPT ![a] = Freed(@, conn[c].resp)]
        /\ freeReq' = [freeReq EXCEPT ![a] = Freed(@, conn[c].req)]
    BY <1>7, WriteResponseEffect
  <2>2. a \in Addrs /\ conn[c].req \in Objects /\ conn[c].resp \in Objects
    BY <1>2, <2>1, ServoFacts DEF Serving, Calling, ServeInv
  <2>3. /\ freeRsp[a] \in Seq(Objects) /\ Len(freeRsp[a]) <= FreeCap
        /\ freeReq[a] \in Seq(Objects) /\ Len(freeReq[a]) <= FreeCap
    BY <2>2 DEF PoolTypes
  <2> DEFINE p == Freed(freeRsp[a], conn[c].resp)
             q == Freed(freeReq[a], conn[c].req)
  <2>4. p \in Seq(Objects) /\ Len(p) <= FreeCap /\ q \in Seq(Objects) /\ Len(q) <= FreeCap
    BY <2>2, <2>3, FreedFacts
  <2>5. freeRsp' = [freeRsp EXCEPT ![a] = p] /\ freeReq' = [freeReq EXCEPT ![a] = q]
    BY <2>1
  <2> HIDE DEF p, q
  <2>. QED  BY <2>2, <2>4, <2>5 DEF PoolTypes
<1>. QED
  BY <1>4, <1>5, <1>6, <1>7
  DEF ServeStep, ServeConn, Recv, RecvTcp, RecvError, MethodReturn, MethodPanic, StreamSend,
      StreamRecv, StreamClose, HandlePkgEnd

-----------------------------------------------------------------------------
(***************************************************************************)
(* Handle.                                                                 *)
(***************************************************************************)
\* Handle, while it runs: rounds are left, and what is about to be published
\* is registered.  Unless it failed, the rounds that are not left are published.
TodoInv(h) ==
  /\ hpc[h] \in {"register", "publish"} => todo[h] # {} /\ todo[h] \subseteq Rounds(h)
  /\ hpc[h] = "publish" => h.service \in DOMAIN services[AddrOf(Least(todo[h]))]
  /\ hpc[h] \in {"register", "publish", "ok"} =>
       \A k \in Rounds(h) \ todo[h] : <<h.service, AddrOf(k)>> \in published
  /\ hpc[h] = "ok" => todo[h] = {}

HandleInv ==
  /\ HandleTypes /\ CallableInv
  /\ \A h \in Handlers : TodoInv(h)
  /\ \A x \in published : x[1] \in DOMAIN services[x[2]]

\* The rounds of Handle's loops do not change.
LEMMA RoundsFacts ==
  ASSUME LifeTypes, NEW h
  PROVE  /\ Rounds(h) \subseteq 1 .. Len(ServiceConf) * n
         /\ Rounds(h) \subseteq Nat \ {0}
         /\ \A k \in Rounds(h) : AddrOf(k) \in Addrs
<1>1. Rounds(h) \subseteq 1 .. Len(ServiceConf) * n  BY DEF Rounds
<1>2. n \in Nat /\ Len(ServiceConf) \in Nat  BY ServerAssumption DEF LifeTypes, Addrs
<1>3. Len(ServiceConf) * n \in Nat  BY <1>2
<1>4. Rounds(h) \subseteq Nat \ {0}
  <2> DEFINE z == Len(ServiceConf) * n
  <2>1. z \in Nat /\ Rounds(h) \subseteq 1 .. z  BY <1>1, <1>3
  <2> HIDE DEF z
  <2>. QED  BY <2>1
<1>. QED  BY <1>1, <1>4, AddrFacts

\* Steps that are not of Handle.
LEMMA HandleStays ==
  ASSUME HandleInv, n' = n, UNCHANGED handleVars
  PROVE  HandleInv'
<1>1. UNCHANGED <<hpc, todo, hreg, services, published>>  BY DEF handleVars
<1>2. Addrs' = Addrs /\ HandleTypes'  BY <1>1 DEF Addrs, HandleTypes, HandleInv
<1>3. CallableInv'  BY <1>1, <1>2 DEF CallableInv, HandleInv
<1>4. ASSUME NEW h \in Handlers PROVE TodoInv(h)'
  <2>1. TodoInv(h)  BY DEF HandleInv
  <2>2. Rounds(h)' = Rounds(h)  BY DEF Rounds, ConfOf, AddrOf
  <2>3. \A k : AddrOf(k)' = AddrOf(k)  BY DEF AddrOf
  <2>4. Least(todo[h])' = Least(todo[h])  BY <1>1 DEF Least
  <2>5. AddrOf(Least(todo[h]))' = AddrOf(Least(todo[h]))  BY <2>4 DEF AddrOf
  <2>. QED  BY <1>1, <2>1, <2>2, <2>3, <2>5 DEF TodoInv
<1>. QED  BY <1>1, <1>2, <1>3, <1>4 DEF HandleInv

\* The steps of Handle.
LEMMA HandleKeeps ==
  ASSUME LifeTypes, HandleInv, HandleNext
  PROVE  HandleInv'
<1>1. n' = n /\ Addrs' = Addrs /\ reg' = reg
  BY DEF HandleNext, Addrs, lifeVars, stopVars
<1>2. PICK h \in Handlers : HandleBegin(h) \/ register(h) \/ Publish(h)  BY DEF HandleNext
<1>3. ASSUME NEW g PROVE Rounds(g)' = Rounds(g)  BY <1>1 DEF Rounds, ConfOf, AddrOf
<1>4. \A k : AddrOf(k)' = AddrOf(k)  BY <1>1 DEF AddrOf
<1>5. ASSUME NEW g \in Handlers, todo'[g] = todo[g]
      PROVE  AddrOf(Least(todo[g]))' = AddrOf(Least(todo[g]))
  <2>1. Least(todo[g])' = Least(todo[g])  BY <1>5 DEF Least
  <2>. QED  BY <1>1, <2>1 DEF AddrOf
<1>6. HandleTypes  BY DEF HandleInv
<1>7. ASSUME \A a \in Addrs : DOMAIN services[a] \subseteq DOMAIN services'[a],
             published \subseteq published',
             NEW g \in Handlers, hpc'[g] = hpc[g], todo'[g] = todo[g]
      PROVE  TodoInv(g)'
  <2>1. TodoInv(g)  BY DEF HandleInv
  <2>2. hpc[g] = "publish" => AddrOf(Least(todo[g])) \in Addrs
    <3> SUFFICES ASSUME hpc[g] = "publish" PROVE AddrOf(Least(todo[g])) \in Addrs
      OBVIOUS
    <3>1. todo[g] # {} /\ todo[g] \subseteq Rounds(g)  BY <2>1 DEF TodoInv
    <3>2. todo[g] \in SUBSET Nat  BY <3>1, RoundsFacts
    <3>3. Least(todo[g]) \in Rounds(g)  BY <3>1, <3>2, LeastFacts
    <3>. QED  BY <3>3, RoundsFacts
  <2>3. hpc[g] = "publish" => g.service \in DOMAIN services'[AddrOf(Least(todo[g]))]
    BY <1>7, <2>1, <2>2 DEF TodoInv
  <2>4. AddrOf(Least(todo[g]))' = AddrOf(Least(todo[g]))  BY <1>5, <1>7
  <2>. QED  BY <1>3, <1>4, <1>7, <2>1, <2>3, <2>4 DEF TodoInv
<1>8. CASE HandleBegin(h)
  <2>1. /\ services' = services /\ published' = published
        /\ hreg' = [hreg EXCEPT ![h] = reg]
        /\ todo' = [todo EXCEPT ![h] = Rounds(h)]
        /\ hpc' = [hpc EXCEPT ![h] = IF Rounds(h) = {} THEN "failed" ELSE "register"]
    BY <1>8 DEF HandleBegin
  <2>2. /\ hpc' \in [Handlers -> {"idle", "register", "publish", "ok", "failed"}]
        /\ hpc'[h] = (IF Rounds(h) = {} THEN "failed" ELSE "register")
        /\ todo'[h] = Rounds(h)
        /\ \A g \in Handlers \ {h} : hpc'[g] = hpc[g] /\ todo'[g] = todo[g]
    BY <1>6, <2>1 DEF HandleTypes
  <2>3. Rounds(h) \in SUBSET (1 .. Len(ServiceConf) * n)  BY RoundsFacts
  <2>4. /\ todo' \in [Handlers -> SUBSET (1 .. Len(ServiceConf) * n)]
        /\ hreg' \in [Handlers -> {"open", "closed", "nil"}]
    BY <1>6, <2>1, <2>3 DEF HandleTypes, LifeTypes
  <2>5. HandleTypes'  BY <1>1, <1>6, <2>1, <2>2, <2>4 DEF HandleTypes
  <2>6. TodoInv(h)'  BY <1>3, <2>2 DEF TodoInv
  <2>7. \A g \in Handlers : TodoInv(g)'
    <3>1. \A g \in Handlers \ {h} : TodoInv(g)'  BY <1>7, <2>1, <2>2
    <3>. QED  BY <2>6, <3>1
  <2>8. CallableInv'  BY <1>1, <2>1 DEF CallableInv, HandleInv
  <2>. QED  BY <2>1, <2>5, <2>7, <2>8 DEF HandleInv
<1>9. ASSUME hpc[h] \in {"register", "publish"}
      PROVE  /\ Least(todo[h]) \in Rounds(h) /\ Least(todo[h]) \in todo[h]
             /\ AddrOf(Least(todo[h])) \in Addrs
             /\ todo[h] \subseteq Rounds(h)
             /\ \A k \in Rounds(h) \ todo[h] : <<h.service, AddrOf(k)>> \in published
  <2>1. TodoInv(h)  BY DEF HandleInv
  <2>2. todo[h] # {} /\ todo[h] \subseteq Rounds(h)  BY <1>9, <2>1 DEF TodoInv
  <2>3. todo[h] \in SUBSET Nat  BY <2>2, RoundsFacts
  <2>4. Least(todo[h]) \in todo[h]  BY <2>2, <2>3, LeastFacts
  <2>. QED  BY <1>9, <2>1, <2>2, <2>4, RoundsFacts DEF TodoInv
<1>10. CASE register(h)
  <2> DEFINE a == AddrOf(Least(todo[h]))
  <2>1. hpc[h] = "register" /\ UNCHANGED <<todo, hreg, published>>  BY <1>10 DEF register
  <2>2. a \in Addrs /\ TodoInv(h)  BY <1>9, <2>1 DEF HandleInv
  <2>3. CASE h.service \in DOMAIN services[a] \/ Suitable(h) = {}
    <3>1. services' = services /\ hpc' = [hpc EXCEPT ![h] = "failed"]
      BY <1>10, <2>3 DEF register
    <3>2. HandleTypes'  BY <1>1, <1>6, <2>1, <3>1 DEF HandleTypes
    <3>3. \A g \in Handlers \ {h} : TodoInv(g)'  BY <1>6, <1>7, <2>1, <3>1 DEF HandleTypes
    <3>4. hpc'[h] = "failed"  BY <1>6, <3>1 DEF HandleTypes
    <3>5. TodoInv(h)'  BY <3>4 DEF TodoInv
    <3>6. CallableInv'  BY <1>1, <3>1 DEF CallableInv, HandleInv
    <3>. QED  BY <2>1, <3>1, <3>2, <3>3, <3>5, <3>6 DEF HandleInv
  <2>4. CASE ~(h.service \in DOMAIN services[a] \/ Suitable(h) = {})
    <3> DEFINE f == [s \in DOMAIN services[a] \cup {h.service} |->
                       IF s = h.service THEN Suitable(h) ELSE services[a][s]]
    <3>1. /\ hpc' = [hpc EXCEPT ![h] = "publish"]
          /\ services' = [services EXCEPT ![a] = f]
      BY <1>10, <2>4 DEF register
    <3>2. /\ DOMAIN f = DOMAIN services[a] \cup {h.service}
          /\ \A s \in DOMAIN f : f[s] = IF s = h.service THEN Suitable(h) ELSE services[a][s]
      OBVIOUS
    <3> HIDE DEF f
    <3>3. /\ DOMAIN services' = Addrs /\ services'[a] = f
          /\ \A b \in Addrs \ {a} : services'[b] = services[b]
      BY <1>6, <2>2, <3>1 DEF HandleTypes
    <3>4. \A b \in Addrs : DOMAIN services[b] \subseteq DOMAIN services'[b]
      BY <3>2, <3>3
    <3>5. HandleTypes'  BY <1>1, <1>6, <2>1, <3>1, <3>3 DEF HandleTypes
    <3>6. \A g \in Handlers \ {h} : TodoInv(g)'  BY <1>6, <1>7, <2>1, <3>1, <3>4 DEF HandleTypes
    <3>7. TodoInv(h)'
      <4>1. hpc'[h] = "publish" /\ todo'[h] = todo[h]  BY <1>6, <2>1, <3>1 DEF HandleTypes
      <4>2. AddrOf(Least(todo[h]))' = a  BY <1>5, <4>1
      <4>3. h.service \in DOMAIN services'[a]  BY <3>2, <3>3
      <4>4. todo[h] # {} /\ todo[h] \subseteq Rounds(h)  BY <2>1, <2>2 DEF TodoInv
      <4>5. \A k \in Rounds(h) \ todo[h] : <<h.service, AddrOf(k)>> \in published  BY <1>9, <2>1
      <4>. QED  BY <1>3, <1>4, <2>1, <4>1, <4>2, <4>3, <4>4, <4>5 DEF TodoInv
    <3>8. ASSUME NEW b \in Addrs, NEW s \in DOMAIN services'[b], NEW m \in services'[b][s]
          PROVE  prepareMethod(Sig[m]) # "none"
      <4>1. CASE b = a /\ s = h.service  BY <3>2, <3>3, <3>8, <4>1 DEF Suitable
      <4>2. CASE ~(b = a /\ s = h.service)
        <5>1. s \in DOMAIN services[b] /\ services'[b][s] = services[b][s]
          BY <3>2, <3>3, <3>8, <4>2
        <5>. QED  BY <3>8, <5>1 DEF CallableInv, HandleInv
      <4>. QED  BY <4>1, <4>2
    <3>9. CallableInv'  BY <1>1, <3>8 DEF CallableInv
    <3>10. ASSUME NEW x \in published' PROVE x[1] \in DOMAIN services'[x[2]]
      <4>1. x \in published /\ x[2] \in Addrs  BY <1>6, <2>1 DEF HandleTypes
      <4>. QED  BY <3>4, <4>1 DEF HandleInv
    <3>. QED  BY <3>5, <3>6, <3>7, <3>9, <3>10 DEF HandleInv
  <2>. QED  BY <2>3, <2>4
<1>11. CASE Publish(h)
  <2> DEFINE k == Least(todo[h])
  <2>1. hpc[h] = "publish" /\ UNCHANGED <<hreg, services>>  BY <1>11 DEF Publish
  <2>2. /\ k \in Rounds(h) /\ k \in todo[h] /\ AddrOf(k) \in Addrs /\ todo[h] \subseteq Rounds(h)
        /\ h.service \in DOMAIN services[AddrOf(k)]
        /\ \A z \in Rounds(h) \ todo[h] : <<h.service, AddrOf(z)>> \in published
    BY <1>9, <2>1 DEF HandleInv, TodoInv
  <2>3. CallableInv'  BY <1>1, <2>1 DEF CallableInv, HandleInv
  <2>4. CASE hpc' = [hpc EXCEPT ![h] = "failed"] /\ UNCHANGED <<published, todo>>
    <3>1. HandleTypes'  BY <1>1, <1>6, <2>1, <2>4 DEF HandleTypes
    <3>2. \A g \in Handlers \ {h} : TodoInv(g)'  BY <1>6, <1>7, <2>1, <2>4 DEF HandleTypes
    <3>3. hpc'[h] = "failed"  BY <1>6, <2>4 DEF HandleTypes
    <3>4. TodoInv(h)'  BY <3>3 DEF TodoInv
    <3>. QED  BY <2>1, <2>3, <2>4, <3>1, <3>2, <3>4 DEF HandleInv
  <2>5. CASE /\ published' = published \cup {<<h.service, AddrOf(k)>>}
             /\ todo' = [todo EXCEPT ![h] = @ \ {k}]
             /\ hpc' = [hpc EXCEPT ![h] = IF todo[h] = {k} THEN "ok" ELSE "register"]
    <3>1. /\ hpc' \in [Handlers -> {"idle", "register", "publish", "ok", "failed"}]
          /\ hpc'[h] = (IF todo[h] = {k} THEN "ok" ELSE "register")
          /\ todo'[h] = todo[h] \ {k}
          /\ todo' \in [Handlers -> SUBSET (1 .. Len(ServiceConf) * n)]
          /\ \A g \in Handlers \ {h} : hpc'[g] = hpc[g] /\ todo'[g] = todo[g]
      <4> HIDE DEF k
      <4>. QED  BY <1>6, <2>5 DEF HandleTypes
    <3>2. HandleTypes'
      <4> HIDE DEF k
      <4>. QED  BY <1>1, <1>6, <2>1, <2>2, <2>5, <3>1 DEF HandleTypes
    <3>3. \A g \in Handlers \ {h} : TodoInv(g)'  BY <1>7, <2>1, <2>5, <3>1
    <3>4. \A z \in Rounds(h) \ todo'[h] : <<h.service, AddrOf(z)>> \in published'
      <4> HIDE DEF k
      <4>. QED  BY <2>2, <2>5, <3>1
    <3>5. TodoInv(h)'
      <4> HIDE DEF k
      <4>. QED  BY <1>3, <1>4, <2>2, <3>1, <3>4 DEF TodoInv
    <3>6. \A x \in published' : x[1] \in DOMAIN services'[x[2]]
      <4> HIDE DEF k
      <4>. QED  BY <2>1, <2>2, <2>5 DEF HandleInv
    <3>. QED  BY <2>3, <3>2, <3>3, <3>5, <3>6 DEF HandleInv
  <2>. QED  BY <1>11, <2>4, <2>5 DEF Publish
<1>. QED  BY <1>2, <1>8, <1>10, <1>11

-----------------------------------------------------------------------------
(***************************************************************************)
(* The slots of a listener's semaphore.                                    *)
(***************************************************************************)
\* The loops that wait in Accept on a listener, and its open connections.
Accepting(l) == {a \in Addrs : acc[a] = "accept" /\ on[a] = l}
Open(l) == {c \in Conns : conn[c].isOpen /\ conn[c].at = l}

SlotOK(l) ==
  LET users == Cardinality(Accepting(l)) + Cardinality(Open(l))
  IN IF tcp THEN sem[l] >= users ELSE sem[l] = users

SlotInv == SlotTypes /\ SlotsExact

\* SlotsExact, listener by listener.
LEMMA SlotsEach ==
  SlotsExact <=> \A l \in Addrs : SlotOK(l)
BY DEF SlotsExact, SlotOK, Accepting, Open

\* The users of a listener's slots are finitely many.
LEMMA UsersFacts ==
  ASSUME NEW l
  PROVE  /\ IsFiniteSet(Accepting(l)) /\ IsFiniteSet(Open(l))
         /\ Cardinality(Accepting(l)) \in Nat /\ Cardinality(Open(l)) \in Nat
<1>1. IsFiniteSet(Addrs)
  <2>1. 1 \in Int /\ Len(Protocols) \in Int  BY ServerAssumption
  <2>. QED  BY <2>1, FS_Interval DEF Addrs
<1>2. IsFiniteSet(Conns)  BY ServerAssumption
<1>3. Accepting(l) \subseteq Addrs /\ Open(l) \subseteq Conns  BY DEF Accepting, Open
<1>4. IsFiniteSet(Accepting(l)) /\ IsFiniteSet(Open(l))  BY <1>1, <1>2, <1>3, FS_Subset
<1>. QED  BY <1>4, FS_CardinalityType

\* Steps that change no slot and no user of one.
LEMMA SlotsStay ==
  ASSUME SlotInv, sem' = sem, tcp' = tcp,
         \A l \in Addrs : Accepting(l)' = Accepting(l) /\ Open(l)' = Open(l)
  PROVE  SlotInv'
<1>1. Addrs' = Addrs  BY DEF Addrs
<1>2. SlotTypes'  BY <1>1 DEF SlotInv, SlotTypes
<1>3. ASSUME NEW l \in Addrs PROVE SlotOK(l)'
  <2>1. SlotOK(l)  BY SlotsEach DEF SlotInv
  <2>2. Accepting(l)' = Accepting(l) /\ Open(l)' = Open(l)  OBVIOUS
  <2>. QED  BY <2>1, <2>2 DEF SlotOK
<1>4. SlotsExact'  BY <1>1, <1>3 DEF SlotsExact, SlotOK, Accepting, Open
<1>. QED  BY <1>2, <1>4 DEF SlotInv

\* A step at one listener l that takes or frees as many slots as it has users
\* more or less (tcp: it may free fewer).
SlotMoved(l, u, v, x) ==
  /\ u \in Nat /\ v \in Nat /\ x \in Int /\ x <= MaxConn
  /\ sem' = [sem EXCEPT ![l] = x]
  /\ \A b \in Addrs \ {l} : Accepting(b)' = Accepting(b) /\ Open(b)' = Open(b)
  /\ u = Cardinality(Accepting(l)) + Cardinality(Open(l))
  /\ v = Cardinality(Accepting(l)') + Cardinality(Open(l)')
  /\ IF tcp THEN x + u >= sem[l] + v ELSE x + u = sem[l] + v

\* Such a step keeps the slots and their users together.
LEMMA SlotsMove ==
  ASSUME SlotInv, tcp' = tcp, NEW l \in Addrs, NEW u, NEW v, NEW x, SlotMoved(l, u, v, x)
  PROVE  SlotInv'
<1> USE DEF SlotMoved
<1>1. Addrs' = Addrs /\ MaxConn \in Nat  BY ServerAssumption DEF Addrs
<1>2. sem[l] \in Nat /\ sem'[l] = x /\ (IF tcp THEN sem[l] >= u ELSE sem[l] = u)
  <2>1. SlotOK(l)  BY SlotsEach DEF SlotInv
  <2>2. IF tcp THEN sem[l] >= u ELSE sem[l] = u  BY <2>1 DEF SlotOK
  <2>. QED  BY <1>1, <2>2 DEF SlotInv, SlotTypes
<1>3. (IF tcp THEN x >= v ELSE x = v) /\ x \in 0 .. MaxConn  BY <1>1, <1>2
<1>4. SlotTypes'  BY <1>1, <1>3 DEF SlotInv, SlotTypes
<1>5. SlotOK(l)'  BY <1>2, <1>3 DEF SlotOK
<1>6. ASSUME NEW b \in Addrs \ {l} PROVE SlotOK(b)'
  <2>1. SlotOK(b) /\ sem'[b] = sem[b]  BY SlotsEach DEF SlotInv, SlotTypes
  <2>2. Accepting(b)' = Accepting(b) /\ Open(b)' = Open(b)  OBVIOUS
  <2>. QED  BY <2>1, <2>2 DEF SlotOK
<1>7. \A b \in Addrs : SlotOK(b)'  BY <1>5, <1>6
<1>8. SlotsExact'  BY <1>1, <1>7 DEF SlotsExact, SlotOK, Accepting, Open
<1>. QED  BY <1>4, <1>8 DEF SlotInv

\* Steps of a connection that neither open nor close its socket.
LEMMA OpenStays ==
  ASSUME conn' \in [Conns -> Connection], \A c \in Conns : SameSocket(conn[c], conn'[c]),
         NEW l
  PROVE  Open(l)' = Open(l)
BY DEF Open, SameSocket

\* The steps of Start, Stop and the listeners.
LEMMA LifeKeepsSlots ==
  ASSUME LifeTypes, LoopInv, ConnInv, SlotInv, LifeNext
  PROVE  SlotInv'
<1>1. tcp' = tcp /\ Addrs' = Addrs  BY DEF LifeNext, LifeFrame, Addrs
<1>2. n \in Nat \ {0} /\ Addrs = 1 .. Len(Protocols) /\ Len(Protocols) \in Nat
      /\ n <= Len(Protocols) /\ MaxConn \in Nat
  BY ServerAssumption DEF LifeTypes, Addrs
<1>3. ASSUME NEW a \in Addrs, acc[a] \in {"acquire", "accept"}
      PROVE  /\ on[a] \in Addrs /\ sem[on[a]] \in 0 .. MaxConn /\ SlotOK(on[a])
  <2>1. on[a] \in Addrs  BY <1>2, <1>3 DEF LifeTypes, LoopInv
  <2>. QED  BY <2>1, SlotsEach DEF SlotInv, SlotTypes
<1>4. CASE StartListen \/ StopBegin \/ StopWait \/ StopEnd
  <2>1. sem' = sem /\ acc' = acc /\ on' = on /\ conn' = conn
    BY <1>4 DEF StartListen, StopBegin, StopWait, StopEnd, accVars
  <2>2. \A l \in Addrs : Accepting(l)' = Accepting(l) /\ Open(l)' = Open(l)
    BY <1>1, <2>1 DEF Accepting, Open
  <2>. QED  BY <1>1, <2>1, <2>2, SlotsStay
<1>5. CASE StartSpawn
  <2>1. /\ sem' = sem /\ on' = on /\ conn' = conn
        /\ acc' = [acc EXCEPT ![i] = "new"] /\ i \in Addrs /\ acc[i] = "none"
    BY <1>2, <1>5 DEF StartSpawn, LoopInv, LifeTypes
  <2>2. \A l \in Addrs : Accepting(l)' = Accepting(l) /\ Open(l)' = Open(l)
    BY <1>1, <2>1 DEF Accepting, Open, LifeTypes
  <2>. QED  BY <1>1, <2>1, <2>2, SlotsStay
<1>6. ASSUME NEW a \in Addrs, AcceptBegin(a) PROVE SlotInv'
  <2>1. /\ sem' = sem /\ conn' = conn /\ acc[a] = "new"
        /\ \/ acc' = acc /\ on' = on
           \/ acc' = [acc EXCEPT ![a] = "acquire"] /\ on' = [on EXCEPT ![a] = listener]
    BY <1>6 DEF AcceptBegin, accVars
  <2>2. \A l \in Addrs : Accepting(l)' = Accepting(l) /\ Open(l)' = Open(l)
    BY <1>1, <2>1 DEF Accepting, Open, LifeTypes
  <2>. QED  BY <1>1, <2>1, <2>2, SlotsStay
<1>7. ASSUME NEW a \in Addrs, acquire(a) PROVE SlotInv'
  <2>1. acc[a] = "acquire"  BY <1>7 DEF acquire
  <2>2. PICK l \in Addrs : l = on[a] /\ sem[l] \in 0 .. MaxConn  BY <1>3, <2>1
  <2>3. /\ sem[l] < MaxConn /\ sem' = [sem EXCEPT ![l] = sem[l] + 1]
        /\ acc' = [acc EXCEPT ![a] = "accept"] /\ on' = on /\ conn' = conn
    BY <1>7, <2>2 DEF acquire
  <2>4. /\ \A b \in Addrs \ {l} : Accepting(b)' = Accepting(b)
        /\ Accepting(l)' = Accepting(l) \cup {a} /\ a \notin Accepting(l)
    BY <1>1, <2>1, <2>2, <2>3 DEF Accepting, LifeTypes
  <2>5. \A b \in Addrs : Open(b)' = Open(b)  BY <2>3 DEF Open
  <2> DEFINE u == Cardinality(Accepting(l))
             o == Cardinality(Open(l))
  <2>6. u \in Nat /\ o \in Nat /\ Cardinality(Accepting(l)') = u + 1
    BY <2>4, UsersFacts, FS_AddElement
  <2>7. Cardinality(Open(l)') = o  BY <2>5
  <2>8. /\ u + o \in Nat /\ (u + 1) + o \in Nat
        /\ sem[l] + 1 \in Int /\ sem[l] + 1 <= MaxConn
        /\ (sem[l] + 1) + (u + o) = sem[l] + ((u + 1) + o)
    <3> HIDE DEF u, o
    <3>. QED  BY <1>2, <2>2, <2>3, <2>6
  <2>9. SlotMoved(l, u + o, (u + 1) + o, sem[l] + 1)
    BY <2>3, <2>4, <2>5, <2>6, <2>7, <2>8 DEF SlotMoved
  <2>. QED  BY <1>1, <2>9, SlotsMove
<1>8. ASSUME NEW a \in Addrs, AcceptError(a) PROVE SlotInv'
  <2>1. acc[a] = "accept"  BY <1>8 DEF AcceptError
  <2>2. PICK l \in Addrs : l = on[a] /\ sem[l] \in 0 .. MaxConn  BY <1>3, <2>1
  <2>3. PICK e \in {"ended", "acquire"} :
          /\ acc' = [acc EXCEPT ![a] = e] /\ on' = on /\ conn' = conn
          /\ sem' = [sem EXCEPT ![l] = sem[l] - 1]
    BY <1>8, <2>2 DEF AcceptError
  <2>4. /\ \A b \in Addrs \ {l} : Accepting(b)' = Accepting(b)
        /\ Accepting(l)' = Accepting(l) \ {a} /\ a \in Accepting(l)
    BY <1>1, <2>1, <2>2, <2>3 DEF Accepting, LifeTypes
  <2>5. \A b \in Addrs : Open(b)' = Open(b)  BY <2>3 DEF Open
  <2> DEFINE u == Cardinality(Accepting(l))
             o == Cardinality(Open(l))
  <2>6. /\ u \in Nat /\ o \in Nat /\ Cardinality(Accepting(l)') = u - 1
        /\ Cardinality(Accepting(l)') \in Nat
    <3>1. IsFiniteSet(Accepting(l)) /\ u \in Nat /\ o \in Nat  BY UsersFacts
    <3>2. Cardinality(Accepting(l) \ {a}) = u - 1 /\ IsFiniteSet(Accepting(l) \ {a})
      BY <2>4, <3>1, FS_RemoveElement
    <3>3. Cardinality(Accepting(l) \ {a}) \in Nat  BY <3>2, FS_CardinalityType
    <3>. QED  BY <2>4, <3>1, <3>2, <3>3
  <2>7. Cardinality(Open(l)') = o  BY <2>5
  <2>8. /\ u + o \in Nat /\ (u - 1) + o \in Nat
        /\ sem[l] - 1 \in Int /\ sem[l] - 1 <= MaxConn
        /\ (sem[l] - 1) + (u + o) = sem[l] + ((u - 1) + o)
    <3> HIDE DEF u, o
    <3>. QED  BY <1>2, <2>2, <2>3, <2>6
  <2>9. SlotMoved(l, u + o, (u - 1) + o, sem[l] - 1)
    BY <2>3, <2>4, <2>5, <2>6, <2>7, <2>8 DEF SlotMoved
  <2>. QED  BY <1>1, <2>9, SlotsMove
<1>9. ASSUME NEW a \in Addrs, Accept(a) PROVE SlotInv'
  <2>1. acc[a] = "accept" /\ acc' = [acc EXCEPT ![a] = "acquire"] /\ on' = on /\ sem' = sem
    BY <1>9 DEF Accept
  <2>2. PICK l \in Addrs : l = on[a] /\ sem[l] \in 0 .. MaxConn  BY <1>3, <2>1
  <2>3. PICK c \in Conns :
           /\ Touches(c) /\ conn[c].st = "dialled" /\ conn[c].at = l
           /\ conn'[c].isOpen /\ conn'[c].at = l
    BY <1>9, <2>2, AcceptEffect
  <2>4. /\ \A b \in Addrs \ {l} : Accepting(b)' = Accepting(b)
        /\ Accepting(l)' = Accepting(l) \ {a} /\ a \in Accepting(l)
    BY <1>1, <2>1, <2>2 DEF Accepting, LifeTypes
  <2>5. ~conn[c].isOpen
    BY <2>3 DEF ConnInv, ConnOK, ServeInv, Running, Serving, Calling
  <2>6. /\ \A b \in Addrs \ {l} : Open(b)' = Open(b)
        /\ Open(l)' = Open(l) \cup {c} /\ c \notin Open(l)
    BY <2>3, <2>5 DEF Open, Touches
  <2> DEFINE u == Cardinality(Accepting(l))
             o == Cardinality(Open(l))
  <2>7. /\ u \in Nat /\ o \in Nat /\ Cardinality(Accepting(l)') = u - 1
        /\ Cardinality(Accepting(l)') \in Nat
    <3>1. IsFiniteSet(Accepting(l)) /\ u \in Nat /\ o \in Nat  BY UsersFacts
    <3>2. Cardinality(Accepting(l) \ {a}) = u - 1 /\ IsFiniteSet(Accepting(l) \ {a})
      BY <2>4, <3>1, FS_RemoveElement
    <3>3. Cardinality(Accepting(l) \ {a}) \in Nat  BY <3>2, FS_CardinalityType
    <3>. QED  BY <2>4, <3>1, <3>2, <3>3
  <2>8. Cardinality(Open(l)') = o + 1  BY <2>6, UsersFacts, FS_AddElement
  <2>9. sem' = [sem EXCEPT ![l] = sem[l]]  BY <2>1 DEF SlotInv, SlotTypes
  <2>10. SlotMoved(l, u + o, (u - 1) + (o + 1), sem[l])
    BY <1>2, <2>2, <2>4, <2>6, <2>7, <2>8, <2>9 DEF SlotMoved
  <2>. QED  BY <1>1, <2>10, SlotsMove
<1>10. ASSUME NEW a \in Addrs, CloseListener(a) PROVE SlotInv'
  <2>1. sem' = sem /\ acc' = acc /\ on' = on  BY <1>10 DEF CloseListener, accVars
  <2>2. \A c \in Conns : SameSocket(conn[c], conn'[c])
    BY <1>10, CloseListenerEffect DEF SameSocket
  <2>3. \A l \in Addrs : Accepting(l)' = Accepting(l) /\ Open(l)' = Open(l)
    BY <1>1, <1>10, <2>1, <2>2, CloseListenerEffect, OpenStays DEF Accepting
  <2>. QED  BY <1>1, <2>1, <2>3, SlotsStay
<1>. QED  BY <1>4, <1>5, <1>6, <1>7, <1>8, <1>9, <1>10 DEF LifeNext

\* The steps of a connection at the server.
LEMMA ServeKeepsSlots ==
  ASSUME LifeTypes, ConnInv, SlotInv, PoolTypes, CallableInv, NEW c \in Conns, ServeStep(c)
  PROVE  SlotInv'
<1> DEFINE k == conn[c]
           r == conn'[c]
<1>1. tcp' = tcp /\ Addrs' = Addrs /\ acc' = acc /\ on' = on
  BY DEF ServeStep, ServeFrame, Addrs, lifeVars, accVars
<1>2. \A l \in Addrs : Accepting(l)' = Accepting(l)  BY <1>1 DEF Accepting
<1>3. ASSUME sem' = sem, Touches(c), SameSocket(k, r) PROVE SlotInv'
  <2>1. conn' \in [Conns -> Connection] /\ \A d \in Conns : SameSocket(conn[d], conn'[d])
    BY <1>3 DEF Touches, SameSocket
  <2>2. \A l \in Addrs : Open(l)' = Open(l)  BY <2>1, OpenStays
  <2>. QED  BY <1>1, <1>2, <1>3, <2>2, SlotsStay
<1>4. ASSUME Release(c), Touches(c), k.st \in Running, r.at = k.at, r.isOpen = FALSE
      PROVE  SlotInv'
  <2>1. CASE ~k.isOpen
    <3>1. sem' = sem  BY <1>4, <2>1 DEF Release
    <3>2. SameSocket(k, r)
      <4>1. k \in Connection  BY DEF ConnInv
      <4>2. k.isOpen \in BOOLEAN  BY <4>1 DEF Connection
      <4>. QED  BY <1>4, <2>1, <4>2 DEF SameSocket
    <3>. QED  BY <1>3, <1>4, <3>1, <3>2
  <2>2. CASE k.isOpen
    <3>1. k \in Connection /\ ServeInv(k)  BY DEF ConnInv, ConnOK
    <3>2. k.at \in 0 .. n /\ k.at >= 1  BY <1>4, <3>1, ConnFields DEF ServeInv, Running, Serving, Calling
    <3>3. n \in 1 .. Len(Protocols) /\ Len(Protocols) \in Nat /\ MaxConn \in Nat
      BY ServerAssumption DEF LifeTypes, Addrs
    <3>4. k.at \in Addrs  BY <3>2, <3>3 DEF Addrs
    <3>5. PICK l \in Addrs : l = k.at  BY <3>4
    <3>6. sem[l] \in 0 .. MaxConn  BY DEF SlotInv, SlotTypes
    <3>7. /\ \A b \in Addrs \ {l} : Open(b)' = Open(b)
          /\ Open(l)' = Open(l) \ {c} /\ c \in Open(l)
      BY <1>4, <2>2, <3>5 DEF Open, Touches
    <3> DEFINE u == Cardinality(Accepting(l))
               o == Cardinality(Open(l))
               x == IF tcp THEN sem[l] ELSE sem[l] - 1
    <3>8. u \in Nat /\ o \in Nat /\ Cardinality(Open(l)') = o - 1 /\ Cardinality(Open(l)') \in Nat
      <4>1. IsFiniteSet(Open(l)) /\ u \in Nat /\ o \in Nat  BY UsersFacts
      <4>2. Cardinality(Open(l) \ {c}) = o - 1 /\ IsFiniteSet(Open(l) \ {c})
        BY <3>7, <4>1, FS_RemoveElement
      <4>3. Cardinality(Open(l) \ {c}) \in Nat  BY <4>2, FS_CardinalityType
      <4>. QED  BY <3>7, <4>1, <4>2, <4>3
    <3>9. sem' = [sem EXCEPT ![l] = x]
      <4>1. CASE tcp  BY <1>4, <4>1 DEF Release, SlotInv, SlotTypes
      <4>2. CASE ~tcp  BY <1>4, <2>2, <3>5, <4>2 DEF Release
      <4>. QED  BY <4>1, <4>2
    <3>10. Cardinality(Accepting(l)') = u  BY <1>2
    <3>11. x \in Int /\ x <= MaxConn /\ (IF tcp THEN x = sem[l] ELSE x = sem[l] - 1)  BY <3>3, <3>6
    <3> HIDE DEF x
    <3>12. SlotMoved(l, u + o, u + (o - 1), x)
      BY <1>2, <3>6, <3>7, <3>8, <3>9, <3>10, <3>11 DEF SlotMoved
    <3>. QED  BY <1>1, <3>12, SlotsMove
  <2>. QED  BY <2>1, <2>2
<1>5. CASE ServeConn(c)  BY <1>3, <1>5, ServeConnEffect DEF ServeConn
<1>6. CASE Recv(c)  BY <1>3, <1>6, RecvEffect DEF Recv
<1>7. CASE RecvTcp(c)  BY <1>3, <1>7, RecvTcpEffect DEF RecvTcp
<1>8. CASE RecvError(c)  BY <1>3, <1>8, RecvErrorEffect DEF RecvError
<1>9. CASE readRequest(c)  BY <1>3, <1>9, ReadRequestEffect DEF readRequest
<1>10. CASE MethodReturn(c)  BY <1>3, <1>10, MethodReturnEffect DEF MethodReturn
<1>11. CASE MethodPanic(c)  BY <1>3, <1>11, MethodPanicEffect DEF MethodPanic
<1>12. CASE StreamSend(c)  BY <1>3, <1>12, StreamSendEffect DEF StreamSend
<1>13. CASE StreamRecv(c)  BY <1>3, <1>13, StreamRecvEffect DEF StreamRecv
<1>14. CASE StreamClose(c)
  BY <1>4, <1>14, StreamCloseEffect DEF StreamClose, Running, Serving, Calling
<1>15. CASE sendResponse(c)  BY <1>3, <1>15, SendResponseEffect DEF sendResponse
<1>16. CASE WriteResponse(c)  BY <1>3, <1>16, WriteResponseEffect DEF WriteResponse
<1>17. CASE HandlePkgEnd(c)
  BY <1>4, <1>17, HandlePkgEndEffect DEF HandlePkgEnd, Running
<1>. QED
  BY <1>5, <1>6, <1>7, <1>8, <1>9, <1>10, <1>11, <1>12, <1>13, <1>14, <1>15, <1>16, <1>17
  DEF ServeStep

\* The steps of a client.
LEMMA PeerKeepsSlots ==
  ASSUME LifeTypes, ConnInv, SlotInv, NEW c \in Conns, PeerStep(c)
  PROVE  SlotInv'
<1>1. tcp' = tcp /\ Addrs' = Addrs /\ acc' = acc /\ on' = on /\ sem' = sem
  BY DEF PeerStep, Addrs, lifeVars, accVars
<1>2. \A l \in Addrs : Accepting(l)' = Accepting(l)  BY <1>1 DEF Accepting
<1>3. CASE Dial(c)
  <2>1. /\ Touches(c) /\ conn'[c].isOpen = conn[c].isOpen /\ conn[c].st = "none"
    <3>1. Touches(c) /\ conn'[c].isOpen = conn[c].isOpen /\ cl[c].st = "none"
      BY <1>3, DialEffect
    <3>. QED  BY <3>1, Dialled
  <2>2. ~conn[c].isOpen
    BY <2>1 DEF ConnInv, ConnOK, ServeInv, Running, Serving, Calling
  <2>3. \A l \in Addrs : Open(l)' = Open(l)  BY <2>1, <2>2 DEF Open, Touches
  <2>. QED  BY <1>1, <1>2, <2>3, SlotsStay
<1>4. CASE Send(c) \/ ClientRecv(c) \/ Close(c)
  <2>1. Touches(c) /\ SameSocket(conn[c], conn'[c])
    BY <1>4, SendEffect, ClientRecvEffect, CloseEffect
  <2>2. conn' \in [Conns -> Connection] /\ \A d \in Conns : SameSocket(conn[d], conn'[d])
    BY <2>1 DEF Touches, SameSocket
  <2>3. \A l \in Addrs : Open(l)' = Open(l)  BY <2>2, OpenStays
  <2>. QED  BY <1>1, <1>2, <2>3, SlotsStay
<1>. QED  BY <1>3, <1>4 DEF PeerStep

-----------------------------------------------------------------------------
(***************************************************************************)
(* The initial states, and every step.                                     *)
(***************************************************************************)
ServerInv == LifeTypes /\ LoopInv /\ ConnInv /\ PoolTypes /\ HandleInv /\ SlotInv

\* A server without connections, where Handle was called before for some handlers.
LEMMA InitInv ==
  ASSUME Init
  PROVE  ServerInv
<1>1. LifeTypes /\ LoopInv
  <2>1. Len(Protocols) \in Nat \ {0} /\ n \in 1 .. Len(Protocols)
    BY ServerAssumption DEF Init, Addrs
  <2>2. /\ tcp \in BOOLEAN /\ peers \subseteq Conns /\ mayStop \in BOOLEAN
        /\ start = "listen" /\ i = 1 /\ listener = 0 /\ rpc = 0
        /\ lis = [a \in Addrs |-> "none"] /\ acc = [a \in Addrs |-> "none"]
        /\ on = [a \in Addrs |-> 0] /\ fin = [a \in Addrs |-> "none"]
        /\ done = FALSE /\ stop = "idle" /\ reg = "open" /\ panicked = FALSE
    BY DEF Init
  <2>3. LifeTypes
    <3>1. n \in Addrs /\ i \in 1 .. n + 1 /\ listener \in 0 .. n /\ rpc \in 0 .. n /\ 0 \in 0 .. n
      BY <2>1, <2>2 DEF Addrs
    <3>2. /\ lis \in [Addrs -> {"none", "open", "closed"}]
          /\ acc \in [Addrs -> {"none", "new", "acquire", "accept", "ended"}]
          /\ on \in [Addrs -> 0 .. n] /\ fin \in [Addrs -> {"none", "wait", "ended"}]
      BY <2>2, <3>1
    <3>3. {tcp, mayStop, done, panicked} \subseteq BOOLEAN  BY <2>2
    <3>. QED  BY <2>2, <3>1, <3>2, <3>3 DEF LifeTypes
  <2>4. LoopInv  BY <2>1, <2>2 DEF LoopInv
  <2>. QED  BY <2>3, <2>4
<1>2. ConnInv
  <2> DEFINE z == 0
             e == <<>>
             s == {}
             k == [st |-> "none", at |-> z, servo |-> z, isOpen |-> FALSE,
                   inQ |-> e, outQ |-> e, cur |-> None, fails |-> FALSE,
                   req |-> None, resp |-> None, pending |-> s, cseq |-> z, sseq |-> z,
                   reqQ |-> z]
             m == [st |-> "none", stream |-> FALSE, r |-> z, bl |-> e, sent |-> z]
  <2>1. conn = [c \in Conns |-> k] /\ cl = [c \in Conns |-> m]  BY DEF Init
  <2>2. n \in Nat /\ MaxReqs \in Nat  BY <1>1, ServerAssumption DEF LifeTypes, Addrs
  <2>3. /\ z \in 0 .. n /\ z \in 0 .. MaxReqs /\ e \in Seq(Package) /\ e \in Seq(Reply)
        /\ e \in Seq(1 .. MaxReqs) /\ s \in SUBSET ((1 .. MaxReqs) \X (1 .. MaxReqs))
        /\ "none" \in Stages /\ Len(e) = 0
    BY <2>2 DEF Stages
  <2>4. z = 0 /\ e = <<>> /\ s = {}  OBVIOUS
  <2> HIDE DEF z, e, s
  <2>5. k \in Connection /\ m \in Client  BY <2>3 DEF Connection, Client
  <2>6. /\ k.st = "none" /\ k.isOpen = FALSE /\ k.inQ = e /\ k.outQ = e
        /\ k.req = None /\ k.resp = None /\ k.pending = s /\ k.cseq = z /\ m.st = "none"
    OBVIOUS
  <2> HIDE DEF k, m
  <2>7. ServeInv(k)  BY <2>4, <2>6 DEF ServeInv, Running, Serving, Calling
  <2>8. ASSUME NEW c \in Conns PROVE NumberInv(c, k, m)
    <3>1. 1 .. Len(k.inQ) = {}  BY <2>3, <2>6
    <3>. QED  BY <2>4, <2>6, <3>1 DEF NumberInv, Serving, Calling, Active
  <2>9. ASSUME NEW c \in Conns PROVE ConnOK(c)
    <3>1. conn[c] = k /\ cl[c] = m  BY <2>1
    <3>. QED  BY <2>5, <2>7, <2>8, <3>1 DEF ConnOK
  <2>. QED  BY <2>1, <2>5, <2>9 DEF ConnInv
<1>3. PoolTypes
  <2> DEFINE e == <<>>
  <2>1. freeReq = [a \in Addrs |-> e] /\ freeRsp = [a \in Addrs |-> e]  BY DEF Init
  <2>2. e \in Seq(Objects) /\ Len(e) = 0 /\ FreeCap \in Nat  BY ServerAssumption
  <2> HIDE DEF e
  <2>. QED  BY <2>1, <2>2 DEF PoolTypes
<1>4. HandleInv
  <2> DEFINE reach(h) == {AddrOf(k) : k \in Rounds(h)}
  <2>1. PICK later \in SUBSET Handlers, before \in SUBSET Handlers :
          /\ before \cap later = {}
          /\ \A g, h \in before : g.service = h.service => g = h
          /\ hpc = [h \in Handlers |-> CASE h \in later -> "idle"
                                         [] h \in before -> "ok"
                                         [] OTHER -> "failed"]
          /\ published = UNION {{h.service} \X reach(h) : h \in before}
          /\ services = [a \in Addrs |->
               [s \in {h.service : h \in {g \in before : a \in reach(g)}} |->
                  Suitable(CHOOSE h \in before : h.service = s)]]
    <3>1. PICK later \in SUBSET Handlers :
            LET succeeds(h) == /\ Suitable(h) # {} /\ Rounds(h) # {}
                               /\ Cardinality(reach(h)) = Cardinality(Rounds(h))
                before == {h \in Handlers \ later : succeeds(h)} IN
            /\ \A g, h \in before : g.service = h.service => g = h
            /\ hpc = [h \in Handlers |-> CASE h \in later -> "idle"
                                           [] h \in before -> "ok"
                                           [] OTHER -> "failed"]
            /\ published = UNION {{h.service} \X reach(h) : h \in before}
            /\ services = [a \in Addrs |->
                 [s \in {h.service : h \in {g \in before : a \in reach(g)}} |->
                    Suitable(CHOOSE h \in before : h.service = s)]]
      BY DEF Init
    <3> DEFINE bef == {h \in Handlers \ later :
                         /\ Suitable(h) # {} /\ Rounds(h) # {}
                         /\ Cardinality(reach(h)) = Cardinality(Rounds(h))}
    <3>2. bef \in SUBSET Handlers /\ bef \cap later = {}  OBVIOUS
    <3>. QED  BY <3>1, <3>2
  <2>2. todo = [h \in Handlers |-> {}] /\ hreg = [h \in Handlers |-> "nil"]  BY DEF Init
  <2>3. ASSUME NEW h \in before PROVE reach(h) \subseteq Addrs  BY <1>1, RoundsFacts
  <2>4. HandleTypes
    <3>1. hpc \in [Handlers -> {"idle", "register", "publish", "ok", "failed"}]  BY <2>1
    <3>2. /\ todo \in [Handlers -> SUBSET (1 .. Len(ServiceConf) * n)]
          /\ hreg \in [Handlers -> {"open", "closed", "nil"}]
      BY <2>2
    <3>3. published \subseteq {h.service : h \in Handlers} \X Addrs  BY <2>1, <2>3
    <3>4. DOMAIN services = Addrs  BY <2>1
    <3>. QED  BY <3>1, <3>2, <3>3, <3>4 DEF HandleTypes
  <2>5. CallableInv
    <3> SUFFICES ASSUME NEW a \in Addrs, NEW s \in DOMAIN services[a], NEW m \in services[a][s]
                 PROVE  prepareMethod(Sig[m]) # "none"
      BY DEF CallableInv
    <3>1. services[a][s] = Suitable(CHOOSE h \in before : h.service = s)  BY <2>1
    <3>. QED  BY <3>1 DEF Suitable
  <2>6. ASSUME NEW x \in published PROVE x[1] \in DOMAIN services[x[2]]
    <3>1. PICK h \in before : x \in {h.service} \X reach(h)  BY <2>1
    <3>2. x[1] = h.service /\ x[2] \in reach(h) /\ x[2] \in Addrs  BY <2>3, <3>1
    <3>. QED  BY <2>1, <3>2
  <2>7. ASSUME NEW h \in Handlers PROVE TodoInv(h)
    <3>1. todo[h] = {}  BY <2>2
    <3>2. hpc[h] \in {"idle", "ok", "failed"} /\ (hpc[h] = "ok" => h \in before)  BY <2>1
    <3>3. h \in before => \A k \in Rounds(h) : <<h.service, AddrOf(k)>> \in published
      BY <2>1
    <3>. QED  BY <3>1, <3>2, <3>3 DEF TodoInv
  <2>. QED  BY <2>4, <2>5, <2>6, <2>7 DEF HandleInv
<1>5. SlotInv
  <2>1. /\ sem = [a \in Addrs |-> 0] /\ acc = [a \in Addrs |-> "none"]
        /\ \A c \in Conns : ~conn[c].isOpen
    BY DEF Init
  <2>2. SlotTypes  BY <2>1, ServerAssumption DEF SlotTypes
  <2>3. \A l \in Addrs : Accepting(l) = {} /\ Open(l) = {}  BY <2>1 DEF Accepting, Open
  <2>4. \A l \in Addrs : SlotOK(l)  BY <2>1, <2>3, FS_EmptySet DEF SlotOK
  <2>. QED  BY <2>2, <2>4, SlotsEach DEF SlotInv
<1>. QED  BY <1>1, <1>2, <1>3, <1>4, <1>5 DEF ServerInv

\* Every step keeps the invariant.
LEMMA StepInv ==
  ASSUME ServerInv, [Next]_vars
  PROVE  ServerInv'
<1> USE DEF ServerInv
<1>1. ASSUME UNCHANGED <<tcp, n, peers, mayStop, lifeVars, sem, conn, freeReq, freeRsp, cl>>,
             panicked' \in BOOLEAN, HandleInv'
      PROVE  ServerInv'
  <2>1. UNCHANGED <<acc, on, rpc>>  BY <1>1 DEF lifeVars, startVars, accVars
  <2>2. LifeTypes' /\ LoopInv'  BY <1>1, LifeStays
  <2>3. ConnInv'  BY <1>1, <2>1, ConnFrame
  <2>4. PoolTypes'  BY <1>1 DEF PoolTypes, Addrs, Objects
  <2>5. SlotInv'
    <3>1. \A l \in Addrs : Accepting(l)' = Accepting(l) /\ Open(l)' = Open(l)
      BY <1>1, <2>1 DEF Accepting, Open, Addrs
    <3>. QED  BY <1>1, <3>1, SlotsStay
  <2>. QED  BY <1>1, <2>2, <2>3, <2>4, <2>5
<1>2. panicked \in BOOLEAN  BY DEF LifeTypes
<1>3. CASE UNCHANGED vars
  <2>1. UNCHANGED <<tcp, n, peers, mayStop, lifeVars, sem, conn, freeReq, freeRsp, cl,
                    panicked, handleVars>>
    BY <1>3 DEF vars
  <2>2. HandleInv'  BY <2>1, HandleStays
  <2>. QED  BY <1>1, <1>2, <2>1, <2>2
<1>4. CASE HandleNext
  <2>1. UNCHANGED <<tcp, n, peers, mayStop, lifeVars, sem, conn, freeReq, freeRsp, cl, panicked>>
    BY <1>4 DEF HandleNext
  <2>2. HandleInv'  BY <1>4, HandleKeeps
  <2>. QED  BY <1>1, <1>2, <2>1, <2>2
<1>5. CASE HandlePanic
  <2>1. /\ UNCHANGED <<tcp, n, peers, mayStop, lifeVars, sem, conn, freeReq, freeRsp, cl, handleVars>>
        /\ panicked' \in BOOLEAN
    BY <1>5 DEF HandlePanic
  <2>2. HandleInv'  BY <2>1, HandleStays
  <2>. QED  BY <1>1, <2>1, <2>2
<1>6. CASE LifeNext
  <2>1. n' = n /\ UNCHANGED <<handleVars, freeReq, freeRsp>>  BY <1>6 DEF LifeNext, LifeFrame
  <2>2. LifeTypes' /\ LoopInv'  BY <1>6, LifeKeeps
  <2>3. ConnInv'  BY <1>6, LifeKeepsConn
  <2>4. PoolTypes'  BY <2>1 DEF PoolTypes, Addrs, Objects
  <2>5. HandleInv'  BY <2>1, HandleStays
  <2>6. SlotInv'  BY <1>6, LifeKeepsSlots
  <2>. QED  BY <2>2, <2>3, <2>4, <2>5, <2>6
<1>7. ASSUME NEW c \in Conns, ServeStep(c) PROVE ServerInv'
  <2>1. UNCHANGED <<tcp, n, peers, mayStop, lifeVars, panicked, handleVars>>
    BY <1>7 DEF ServeStep, ServeFrame
  <2>2. LifeTypes' /\ LoopInv'  BY <1>2, <2>1, LifeStays
  <2>3. CallableInv  BY DEF HandleInv
  <2>4. ConnInv'  BY <1>7, <2>3, ServeKeeps
  <2>5. PoolTypes'  BY <1>7, PoolKeeps
  <2>6. HandleInv'  BY <2>1, HandleStays
  <2>7. SlotInv'  BY <1>7, <2>3, ServeKeepsSlots
  <2>. QED  BY <2>2, <2>4, <2>5, <2>6, <2>7
<1>8. ASSUME NEW c \in Conns, PeerStep(c) PROVE ServerInv'
  <2>1. UNCHANGED <<tcp, n, peers, mayStop, lifeVars, panicked, handleVars, freeReq, freeRsp>>
    BY <1>8 DEF PeerStep
  <2>2. LifeTypes' /\ LoopInv'  BY <1>2, <2>1, LifeStays
  <2>3. ConnInv'  BY <1>8, PeerKeeps
  <2>4. PoolTypes'  BY <2>1 DEF PoolTypes, Addrs, Objects
  <2>5. HandleInv'  BY <2>1, HandleStays
  <2>6. SlotInv'  BY <1>8, PeerKeepsSlots
  <2>. QED  BY <2>2, <2>3, <2>4, <2>5, <2>6
<1>. QED  BY <1>3, <1>4, <1>5, <1>6, <1>7, <1>8 DEF Next

\* The packages in transit to a server are never more than the requests sent.
LEMMA QueueBound ==
  ASSUME ConnInv, NEW c \in Conns
  PROVE  Len(conn[c].inQ) <= MaxReqs
<1> DEFINE q == conn[c].inQ
           y == Len(q)
<1>1. conn[c] \in Connection /\ NumberInv(c, conn[c], cl[c])  BY DEF ConnInv, ConnOK
<1>2. q \in Seq(Package) /\ conn[c].cseq \in Nat /\ y \in Nat /\ MaxReqs \in Nat
  BY <1>1, ConnFields, LenProperties, ServerAssumption
<1>3. CASE y = 0  BY <1>2, <1>3
<1>4. CASE y # 0
  <2>1. y \in 1 .. Len(q)  BY <1>2, <1>4
  <2>2. q[y] \in Package  BY <1>2, <2>1, ElementOfSeq
  <2>3. q[y].id \in 1 .. MaxReqs  BY <2>2 DEF Package
  <2>4. q[y].id >= conn[c].cseq + y  BY <1>1, <2>1 DEF NumberInv
  <2> DEFINE v == q[y].id
  <2>5. v \in Nat /\ v <= MaxReqs /\ v >= conn[c].cseq + y  BY <1>2, <2>3, <2>4
  <2>6. y <= MaxReqs
    <3> HIDE DEF v, y
    <3>. QED  BY <1>2, <2>5
  <2>. QED  BY <2>6
<1>. QED  BY <1>3, <1>4

-----------------------------------------------------------------------------
\* The invariant holds for ever.
LEMMA ServerInvariant == Spec => []ServerInv
BY InitInv, StepInv, PTL DEF Spec

\* The state keeps its type: the free lists (getRequest, freeRequest,
\* getResponse, freeRsponse) stay within FREE_LIST_SIZE, the semaphore of a
\* listener within DefaultMAXConnNum, and what is in transit within what is sent.
THEOREM TypeCorrect == Spec => []TypeOK
<1>1. ServerInv => TypeOK
  BY QueueBound
  DEF ServerInv, TypeOK, HandleInv, SlotInv, ConnTypes, ConnInv
<1>. QED  BY <1>1, ServerInvariant, PTL

\* httpTransportListener and httpTransportSocket.Close: the slots taken are
\* those of the open connections and of the loops in Accept, whatever closes a
\* socket and how often; with tcp never fewer.
THEOREM SlotsCounted == Spec => []SlotsExact
<1>1. ServerInv => SlotsExact  BY DEF ServerInv, SlotInv
<1>. QED  BY <1>1, ServerInvariant, PTL

\* server.Handle: a service that the registry was told of is registered with
\* the rpcServer of that address, and when Handle succeeds every configured
\* address is told.
THEOREM AdvertisedServed == Spec => []Advertised
<1>1. ServerInv => Advertised
  BY DEF ServerInv, HandleInv, TodoInv, Advertised
<1>. QED  BY <1>1, ServerInvariant, PTL
=============================================================================
