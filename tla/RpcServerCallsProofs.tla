------------------------ MODULE RpcServerCallsProofs ------------------------
(***************************************************************************)
(* Proofs about the calls RpcServer serves: whose answer a client finds,   *)
(* and who uses the objects of the free lists.  Both rest on ServerInv.    *)
(***************************************************************************)
EXTENDS RpcServerProofs

-----------------------------------------------------------------------------
(***************************************************************************)
(* Answers.                                                                *)
(***************************************************************************)
Live == Stages \ {"closing", "closed"}

\* A client that waits for each answer has one request under way: in transit,
\* or being served, or answered.  The codec has no other number pending.
OneCall(k, m) ==
  /\ Len(k.outQ) <= 1
  /\ \A x \in 1 .. Len(k.outQ) : k.outQ[x].id \in {0, m.sent}
  /\ m.st = "idle" => \A x \in 1 .. Len(k.outQ) : k.outQ[x].id = 0
  /\ k.st # "stream"
  /\ \A x \in 1 .. Len(k.inQ) : prepareMethod(Sig[k.inQ[x].method]) # "stream"
  /\ k.st \in Serving => prepareMethod(Sig[k.cur.method]) # "stream"
  /\ k.st \in Live /\ k.inQ # <<>> =>
       k.st \notin Serving /\ k.outQ = <<>> /\ Len(k.inQ) = 1 /\ m.st # "idle"
  /\ k.st \in Serving => k.outQ = <<>> /\ m.st # "idle"
  /\ k.st \in Live /\ k.outQ # <<>> => m.st # "idle"
  /\ k.st \in Live /\ m.st = "sent" => \A x \in 1 .. Len(k.inQ) : k.inQ[x].id = m.sent
  /\ k.st \in Serving /\ m.st = "sent" => k.cur.id = m.sent
  /\ k.st \in Calling => k.pending \subseteq {<<1, k.cur.id>>}

\* tcp answers only when it closes; nothing waits for a client that has closed.
OneInv(k, m) ==
  /\ tcp /\ k.st \in Live => k.outQ = <<>> /\ k.st \notin Serving
  /\ m.st \in {"none", "closed"} => k.outQ = <<>>
  /\ ~m.stream => OneCall(k, m)

CallsInv == \A c \in Conns : OneInv(conn[c], cl[c])

\* One connection and its client change.
LEMMA OneCallChanges ==
  ASSUME CallsInv, NEW c \in Conns, Touches(c), TouchesClient(c), tcp' = tcp,
         OneInv(conn'[c], cl'[c])
  PROVE  CallsInv'
<1>1. ASSUME NEW d \in Conns PROVE OneInv(conn[d], cl[d])'
  <2>1. OneInv(conn'[d], cl'[d])
    <3>1. CASE d = c  BY <3>1
    <3>2. CASE d # c
      <4>1. conn'[d] = conn[d] /\ cl'[d] = cl[d]  BY <3>2 DEF Touches, TouchesClient
      <4>. QED  BY <4>1 DEF CallsInv
    <3>. QED  BY <3>1, <3>2
  <2>. QED  BY <2>1 DEF OneInv, OneCall
<1>. QED  BY <1>1 DEF CallsInv

\* No connection and no client changes.
LEMMA CallsStay ==
  ASSUME CallsInv, conn' = conn, cl' = cl, tcp' = tcp
  PROVE  CallsInv'
BY DEF CallsInv, OneInv, OneCall

\* A socket sends at most one answer.
LEMMA ReplyFacts ==
  ASSUME NEW c, NEW k, NEW r, NEW x, Replies(c, k, r, x), k.outQ = <<>>
  PROVE  /\ r.outQ # <<>> => cl[c].st # "closed"
         /\ Len(r.outQ) <= 1 /\ \A y \in 1 .. Len(r.outQ) : r.outQ[y].id = x
<1>1. CASE r.outQ = k.outQ  BY <1>1
<1>2. CASE cl[c].st # "closed" /\ \E a \in Reply : a.id = x /\ r.outQ = Append(k.outQ, a)
  <2>1. PICK a \in Reply : a.id = x /\ r.outQ = Append(k.outQ, a)  BY <1>2
  <2>2. r.outQ = <<a>>  BY <2>1
  <2>. QED  BY <1>2, <2>1, <2>2
<1>. QED  BY <1>1, <1>2 DEF Replies

\* A stage changes that is not one of the service of a package.
LEMMA StageStays ==
  ASSUME NEW k, NEW r, NEW m, OneInv(k, m), k.st \in Live, r.st \in Stages \ Serving,
         SameTransit(k, r)
  PROVE  OneInv(r, m)
BY DEF OneInv, OneCall, SameTransit, Live, Serving, Calling

\* The steps of a connection at the server.
LEMMA ServeKeepsCalls ==
  ASSUME LifeTypes, PoolTypes, CallableInv, ConnInv, CallsInv, NEW c \in Conns, ServeStep(c)
  PROVE  CallsInv'
<1> DEFINE k == conn[c]
           r == conn'[c]
           m == cl[c]
<1>1. tcp' = tcp /\ cl' = cl  BY DEF ServeStep, ServeFrame
<1>2. k \in Connection /\ m \in Client /\ ServeInv(k) /\ OneInv(k, m) /\ NumberInv(c, k, m)
  BY DEF ConnInv, ConnOK, CallsInv
<1>3. SUFFICES Touches(c) /\ OneInv(r, m)
  <2>1. TouchesClient(c) /\ cl'[c] = m  BY <1>1 DEF TouchesClient, ConnInv
  <2>. QED  BY <1>1, <2>1, <1>3, OneCallChanges
<1>4. CASE ServeConn(c)
  <2>1. Touches(c) /\ k.st = "accepted" /\ r.st = "recv" /\ SameTransit(k, r)
    BY <1>4, ServeConnEffect
  <2> HIDE DEF k, r, m
  <2>. QED  BY <1>2, <2>1, StageStays DEF Stages, Serving, Calling, Live
<1>5. CASE RecvError(c)
  <2>1. Touches(c) /\ k.st = "recv" /\ r.st = "closing" /\ SameTransit(k, r)
    BY <1>5, RecvErrorEffect
  <2> HIDE DEF k, r, m
  <2>. QED  BY <1>2, <2>1, StageStays DEF Stages, Serving, Calling, Live
<1>6. CASE RecvTcp(c)
  <2>1. Touches(c) /\ k.st = "recv" /\ tcp /\ r.st = "closing" /\ Replies(c, k, r, 0) /\ r.inQ = k.inQ
    BY <1>6, RecvTcpEffect
  <2>2. cl[c].st = m.st /\ m.st # "none"  BY <2>1, Dialled
  <2> HIDE DEF k, r, m
  <2>3. k.outQ = <<>>  BY <1>2, <2>1 DEF OneInv, Live, Stages
  <2>4. /\ r.outQ # <<>> => m.st # "closed"
        /\ Len(r.outQ) <= 1 /\ \A y \in 1 .. Len(r.outQ) : r.outQ[y].id = 0
    BY <2>1, <2>2, <2>3, ReplyFacts
  <2>5. ~m.stream => OneCall(r, m)
    BY <1>2, <2>1, <2>4 DEF OneInv, OneCall, Live, Serving, Calling
  <2>. QED  BY <2>1, <2>2, <2>4, <2>5 DEF OneInv, Live
<1>7. CASE Recv(c)
  <2>1. /\ Touches(c) /\ k.st = "recv" /\ ~tcp /\ k.inQ # <<>>
        /\ r.inQ = Tail(k.inQ) /\ r.cur = Head(k.inQ)
        /\ \/ r.st = "read" /\ r.outQ = k.outQ
           \/ r.st = "closing" /\ Replies(c, k, r, 0)
    BY <1>7, RecvEffect
  <2>2. cl[c].st = m.st /\ m.st # "none"  BY <2>1, Dialled
  <2>3. k.inQ \in Seq(Package)  BY <1>2, ConnFields
  <2> HIDE DEF k, r, m
  <2>4. Len(k.inQ) \in Nat /\ Len(r.inQ) = Len(k.inQ) - 1 /\ r.cur = k.inQ[1] /\ 1 \in 1 .. Len(k.inQ)
    BY <2>1, <2>3, TailFacts
  <2>5. ASSUME ~m.stream PROVE OneCall(r, m) /\ (r.outQ # <<>> => m.st # "closed")
    <3>1. OneCall(k, m) /\ k.st \in Live  BY <1>2, <2>1, <2>5 DEF OneInv, Live, Stages
    <3>2. k.outQ = <<>> /\ Len(k.inQ) = 1 /\ m.st # "idle"  BY <2>1, <3>1 DEF OneCall
    <3>3. Len(r.inQ) = 0 /\ 1 .. Len(r.inQ) = {} /\ r.inQ = <<>>
      <4>1. Tail(k.inQ) \in Seq(Package)  BY <2>1, <2>3, TailFacts
      <4>2. Len(r.inQ) = 0  BY <2>4, <3>2
      <4>3. r.inQ = <<>>  BY <2>1, <4>1, <4>2, EmptySeq
      <4>. QED  BY <4>2, <4>3
    <3>4. prepareMethod(Sig[r.cur.method]) # "stream" /\ (m.st = "sent" => r.cur.id = m.sent)
      BY <2>4, <3>1 DEF OneCall
    <3>5. /\ r.outQ # <<>> => m.st # "closed" /\ r.st = "closing"
          /\ Len(r.outQ) <= 1 /\ \A y \in 1 .. Len(r.outQ) : r.outQ[y].id = 0
      <4>1. CASE r.st = "read" /\ r.outQ = k.outQ  BY <3>2, <4>1
      <4>2. CASE r.st = "closing" /\ Replies(c, k, r, 0)  BY <2>2, <3>2, <4>2, ReplyFacts
      <4>. QED  BY <2>1, <4>1, <4>2
    <3>6. r.st = "read" => r.outQ = <<>>  BY <3>5
    <3>7. r.st \in {"read", "closing"}  BY <2>1
    <3>. QED  BY <3>2, <3>3, <3>4, <3>5, <3>6, <3>7 DEF OneCall, Live, Serving, Calling
  <2>6. m.st \in {"none", "closed"} => r.outQ = <<>>
    <3> SUFFICES ASSUME m.st = "closed" PROVE r.outQ = <<>>
      BY <2>2
    <3>1. k.outQ = <<>>  BY <1>2 DEF OneInv
    <3>2. r.outQ = k.outQ  BY <2>1, <2>2 DEF Replies
    <3>. QED  BY <3>1, <3>2
  <2>. QED  BY <2>1, <2>5, <2>6 DEF OneInv
<1>8. CASE readRequest(c)
  <2>1. /\ Touches(c) /\ k.st = "read" /\ SameTransit(k, r)
        /\ \/ r.st = "closing"
           \/ /\ r.st \in {"unary", "stream", "reply"} /\ r.cur = k.cur
              /\ r.st \in {"unary", "stream"} => r.st = prepareMethod(Sig[k.cur.method])
              /\ r.pending = k.pending \cup {<<k.cseq + 1, k.cur.id>>}
    BY <1>8, ReadRequestEffect
  <2> HIDE DEF k, r, m
  <2>2. k.pending = {} /\ k.cseq = 0  BY <1>2, <2>1 DEF ServeInv, Calling
  <2>3. CASE r.st = "closing"
    BY <1>2, <2>1, <2>3, StageStays DEF Stages, Serving, Calling, Live
  <2>4. CASE /\ r.st \in {"unary", "stream", "reply"} /\ r.cur = k.cur
             /\ r.st \in {"unary", "stream"} => r.st = prepareMethod(Sig[k.cur.method])
             /\ r.pending = k.pending \cup {<<k.cseq + 1, k.cur.id>>}
    <3>1. r.pending = {<<1, k.cur.id>>}  BY <2>2, <2>4
    <3>2. k.st \in Live /\ k.st \in Serving  BY <2>1 DEF Live, Serving, Stages
    <3>3. ~m.stream => OneCall(r, m)
      BY <1>2, <2>1, <2>4, <3>1, <3>2 DEF OneInv, OneCall, SameTransit
    <3>4. ~tcp  BY <1>2, <3>2 DEF OneInv
    <3>. QED  BY <1>2, <2>1, <3>3, <3>4 DEF OneInv, SameTransit
  <2>. QED  BY <2>1, <2>3, <2>4
<1>9. CASE MethodReturn(c)
  <2>1. /\ Touches(c) /\ k.st \in {"unary", "stream"} /\ r.st = "reply" /\ SameTransit(k, r)
        /\ SameCodec(k, r) /\ r.cur = k.cur
    BY <1>9, MethodReturnEffect
  <2> HIDE DEF k, r, m
  <2>2. k.st \in Live /\ k.st \in Serving /\ k.st \in Calling
    BY <2>1 DEF Live, Serving, Calling, Stages
  <2>. QED  BY <1>2, <2>1, <2>2 DEF OneInv, OneCall, SameTransit, SameCodec
<1>10. CASE MethodPanic(c)
  <2>1. Touches(c) /\ k.st \in {"unary", "stream"} /\ r.st = "closing" /\ SameTransit(k, r)
    BY <1>10, MethodPanicEffect
  <2> HIDE DEF k, r, m
  <2>. QED  BY <1>2, <2>1, StageStays DEF Stages, Serving, Calling, Live
<1>11. ASSUME k.st = "stream", r.st = "stream", r.outQ = k.outQ \/ cl[c].st # "closed"
       PROVE  OneInv(r, m)
  <2>1. cl[c].st = m.st /\ m.st # "none"  BY <1>11, Dialled
  <2> HIDE DEF k, r, m
  <2>2. m.stream /\ ~tcp
    BY <1>2, <1>11 DEF OneInv, OneCall, Live, Stages, Serving, Calling, Client
  <2>. QED  BY <1>2, <1>11, <2>1, <2>2 DEF OneInv
<1>12. CASE StreamSend(c)  BY <1>11, <1>12, StreamSendEffect
<1>13. CASE StreamRecv(c)  BY <1>11, <1>13, StreamRecvEffect
<1>14. CASE StreamClose(c)  BY <1>11, <1>14, StreamCloseEffect DEF SameTransit
<1>15. CASE sendResponse(c)
  <2>1. /\ Touches(c) /\ k.st = "reply" /\ r.st = "write" /\ SameTransit(k, r)
        /\ SameCodec(k, r) /\ r.cur = k.cur
    BY <1>15, SendResponseEffect
  <2> HIDE DEF k, r, m
  <2>2. k.st \in Live /\ k.st \in Serving /\ k.st \in Calling
    BY <2>1 DEF Live, Serving, Calling, Stages
  <2>. QED  BY <1>2, <2>1, <2>2 DEF OneInv, OneCall, SameTransit, SameCodec
<1>16. CASE WriteResponse(c)
  <2>1. /\ Touches(c) /\ k.st = "write" /\ r.st \in {"closing", "recv"}
        /\ Answers(c, k, r, 1) /\ r.inQ = k.inQ
    BY <1>16, WriteResponseEffect
  <2>2. cl[c].st = m.st /\ m.st # "none"  BY <2>1, Dialled
  <2> HIDE DEF k, r, m
  <2>3. k.st \in Live /\ k.st \in Serving /\ k.st \in Calling
    BY <2>1 DEF Live, Serving, Calling, Stages
  <2>4. ASSUME ~m.stream PROVE OneCall(r, m)
    <3>1. OneCall(k, m)  BY <1>2, <2>4 DEF OneInv
    <3>2. /\ k.outQ = <<>> /\ m.st # "idle" /\ k.pending \subseteq {<<1, k.cur.id>>}
          /\ k.inQ = <<>> /\ (m.st = "sent" => k.cur.id = m.sent)
      BY <2>3, <3>1 DEF OneCall
    <3>3. Replies(c, k, r, k.cur.id)
      <4>1. CASE r.outQ = k.outQ  BY <4>1 DEF Replies
      <4>2. CASE cl[c].st # "closed" /\ \E x \in k.pending, a \in Reply :
                   x[1] = 1 /\ a.id = x[2] /\ r.outQ = Append(k.outQ, a)
        <5>1. PICK x \in k.pending, a \in Reply : a.id = x[2] /\ r.outQ = Append(k.outQ, a)
          BY <4>2
        <5>2. x = <<1, k.cur.id>>  BY <3>2
        <5>3. a.id = k.cur.id  BY <5>1, <5>2
        <5>. QED  BY <4>2, <5>1, <5>3 DEF Replies
      <4>. QED  BY <2>1, <4>1, <4>2 DEF Answers
    <3>4. /\ r.outQ # <<>> => m.st # "closed"
          /\ Len(r.outQ) <= 1 /\ \A y \in 1 .. Len(r.outQ) : r.outQ[y].id = k.cur.id
      BY <2>2, <3>2, <3>3, ReplyFacts
    <3>5. m.st \in {"sent", "closed"}  BY <1>2, <2>2, <3>2, ClientFields
    <3>6. \A y \in 1 .. Len(r.outQ) : r.outQ[y].id \in {0, m.sent}
      <4>1. CASE m.st = "sent"  BY <3>2, <3>4, <4>1
      <4>2. CASE m.st = "closed"
        <5>1. r.outQ = <<>>  BY <3>4, <4>2
        <5>. QED  BY <5>1
      <4>. QED  BY <3>5, <4>1, <4>2
    <3>7. r.inQ = <<>>  BY <2>1, <3>2
    <3>8. 1 .. Len(r.inQ) = {}  BY <3>7
    <3>. QED  BY <2>1, <3>2, <3>4, <3>6, <3>7, <3>8 DEF OneCall, Serving, Calling
  <2>5. m.st \in {"none", "closed"} => r.outQ = <<>>
    BY <1>2, <2>1, <2>2 DEF OneInv, Answers
  <2>6. ~tcp  BY <1>2, <2>3 DEF OneInv
  <2>. QED  BY <2>1, <2>4, <2>5, <2>6 DEF OneInv
<1>17. CASE HandlePkgEnd(c)
  <2>1. Touches(c) /\ k.st = "closing" /\ r.st = "closed" /\ r.inQ = <<>> /\ r.outQ = k.outQ
    BY <1>17, HandlePkgEndEffect
  <2> HIDE DEF k, r, m
  <2>2. 1 .. Len(r.inQ) = {}  BY <2>1
  <2>. QED  BY <1>2, <2>1, <2>2 DEF OneInv, OneCall, Live, Serving, Calling
<1>18. QED
  BY <1>4, <1>5, <1>6, <1>7, <1>8, <1>9, <1>10, <1>12, <1>13, <1>14, <1>15, <1>16, <1>17
  DEF ServeStep

\* The steps of a client.
LEMMA PeerKeepsCalls ==
  ASSUME LifeTypes, ConnInv, CallsInv, NEW c \in Conns, PeerStep(c)
  PROVE  CallsInv'
<1> DEFINE k == conn[c]
           r == conn'[c]
           m == cl[c]
           w == cl'[c]
<1>1. tcp' = tcp  BY DEF PeerStep
<1>2. k \in Connection /\ m \in Client /\ OneInv(k, m) /\ NumberInv(c, k, m) /\ ServeInv(k)
  BY DEF ConnInv, ConnOK, CallsInv
<1>3. k.outQ \in Seq(Reply) /\ k.inQ \in Seq(Package) /\ m.sent \in Nat
  <2>1. m.sent \in 0 .. MaxReqs /\ MaxReqs \in Nat  BY <1>2, ClientFields, ServerAssumption
  <2>. QED  BY <1>2, <2>1, ConnFields
<1>4. SUFFICES Touches(c) /\ TouchesClient(c) /\ OneInv(r, w)
  BY <1>1, <1>4, OneCallChanges
<1>5. CASE Dial(c)
  <2>1. /\ Touches(c) /\ TouchesClient(c) /\ m.st = "none" /\ w.st = "idle"
        /\ r.st = "dialled" /\ SameTransit(k, r)
    BY <1>5, DialEffect
  <2> HIDE DEF k, r, m, w
  <2>2. r.inQ = <<>> /\ r.outQ = <<>>  BY <1>2, <2>1 DEF NumberInv, SameTransit
  <2>3. Len(r.outQ) = 0 /\ 1 .. Len(r.inQ) = {} /\ 1 .. Len(r.outQ) = {}  BY <2>2
  <2>. QED  BY <2>1, <2>2, <2>3 DEF OneInv, OneCall, Serving, Calling
<1>6. CASE Send(c)
  <2>1. /\ Touches(c) /\ TouchesClient(c)
        /\ m.st = "idle" /\ w.sent = m.sent + 1 /\ w.stream = m.stream
        /\ w.st \in Active /\ (~m.stream => w.st = "sent")
        /\ r.st = k.st /\ r.outQ = k.outQ /\ r.cur = k.cur /\ r.pending = k.pending
    BY <1>6, SendEffect DEF SameCodec
  <2>2. PICK p \in Package :
          /\ p.id = m.sent + 1 /\ r.inQ = Append(k.inQ, p)
          /\ m.stream <=> prepareMethod(Sig[p.method]) = "stream"
    BY <1>6, SendEffect
  <2> HIDE DEF k, r, m, w
  <2>3. /\ Len(k.inQ) \in Nat /\ Len(r.inQ) = Len(k.inQ) + 1 /\ r.inQ[Len(k.inQ) + 1] = p
        /\ \A x \in 1 .. Len(k.inQ) : r.inQ[x] = k.inQ[x]
    BY <1>3, <2>2, AppendFacts
  <2>4. ASSUME ~m.stream PROVE OneCall(r, w)
    <3>1. OneCall(k, m)  BY <1>2, <2>4 DEF OneInv
    <3>2. k.st \notin Serving  BY <2>1, <3>1 DEF OneCall
    <3>3. k.st \in Live => k.inQ = <<>> /\ k.outQ = <<>>  BY <2>1, <3>1 DEF OneCall
    <3>4. k.st \in Live => Len(r.inQ) = 1 /\ \A x \in 1 .. Len(r.inQ) : r.inQ[x] = p
      <4> SUFFICES ASSUME k.st \in Live
                   PROVE  Len(r.inQ) = 1 /\ \A x \in 1 .. Len(r.inQ) : r.inQ[x] = p
        OBVIOUS
      <4>1. Len(k.inQ) = 0  BY <3>3
      <4>. QED  BY <2>3, <4>1
    <3>5. \A x \in 1 .. Len(r.inQ) : prepareMethod(Sig[r.inQ[x].method]) # "stream"
      <4> SUFFICES ASSUME NEW x \in 1 .. Len(r.inQ)
                   PROVE  prepareMethod(Sig[r.inQ[x].method]) # "stream"
        OBVIOUS
      <4>1. CASE x \in 1 .. Len(k.inQ)  BY <2>3, <3>1, <4>1 DEF OneCall
      <4>2. CASE x = Len(k.inQ) + 1  BY <2>2, <2>3, <2>4, <4>2
      <4>. QED  BY <2>3, <4>1, <4>2
    <3>6. Len(r.outQ) <= 1 /\ \A x \in 1 .. Len(r.outQ) : r.outQ[x].id = 0
      BY <2>1, <3>1 DEF OneCall
    <3>. QED  BY <2>1, <2>2, <2>4, <3>1, <3>2, <3>3, <3>4, <3>5, <3>6 DEF OneCall, Serving
  <2>. QED  BY <1>2, <2>1, <2>4 DEF OneInv, Active
<1>7. CASE ClientRecv(c)
  <2>1. /\ Touches(c) /\ TouchesClient(c)
        /\ m.st \in Active /\ (~m.stream => m.st = "sent")
        /\ w.st = "idle" /\ w.sent = m.sent /\ w.stream = m.stream
        /\ k.outQ # <<>> /\ r.outQ = Tail(k.outQ) /\ r.pending = k.pending
        /\ r.st = k.st /\ r.inQ = k.inQ /\ r.cur = k.cur
    BY <1>7, ClientRecvEffect DEF SameCodec
  <2> HIDE DEF k, r, m, w
  <2>2. Len(k.outQ) \in Nat /\ Len(r.outQ) = Len(k.outQ) - 1 /\ Len(k.outQ) >= 1 /\ r.outQ \in Seq(Reply)
    BY <1>3, <2>1, TailFacts
  <2>3. ASSUME ~m.stream PROVE OneCall(r, w)
    <3>1. OneCall(k, m)  BY <1>2, <2>3 DEF OneInv
    <3>2. Len(k.outQ) = 1
      <4>1. Len(k.outQ) <= 1  BY <3>1 DEF OneCall
      <4> DEFINE l == Len(k.outQ)
      <4>2. l \in Nat /\ l >= 1 /\ l <= 1  BY <2>2, <4>1
      <4>3. l = 1
        <5> HIDE DEF l
        <5>. QED  BY <4>2
      <4>. QED  BY <4>3
    <3>3. Len(r.outQ) = 0  BY <2>2, <3>2
    <3>4. r.outQ = <<>>  BY <2>2, <3>3, EmptySeq
    <3>5. 1 .. Len(r.outQ) = {}  BY <3>3
    <3>6. k.st \notin Serving /\ (k.st \in Live => k.inQ = <<>>)  BY <2>1, <3>1 DEF OneCall
    <3>. QED  BY <2>1, <3>1, <3>3, <3>4, <3>5, <3>6 DEF OneCall, Serving
  <2>4. ~(tcp /\ k.st \in Live)  BY <1>2, <2>1 DEF OneInv
  <2>. QED  BY <2>1, <2>3, <2>4 DEF OneInv
<1>8. CASE Close(c)
  <2>1. /\ Touches(c) /\ TouchesClient(c) /\ m.st \in Active
        /\ w.st = "closed" /\ w.stream = m.stream /\ r.outQ = <<>>
        /\ r.st = k.st /\ r.inQ = k.inQ /\ r.cur = k.cur /\ r.pending = k.pending
    BY <1>8, CloseEffect DEF SameCodec
  <2> HIDE DEF k, r, m, w
  <2>2. Len(r.outQ) = 0 /\ 1 .. Len(r.outQ) = {}  BY <2>1
  <2>. QED  BY <1>2, <2>1, <2>2 DEF OneInv, OneCall
<1>9. QED  BY <1>5, <1>6, <1>7, <1>8 DEF PeerStep

\* The steps of Start, Stop and the listeners.
LEMMA LifeKeepsCalls ==
  ASSUME LifeTypes, ConnInv, CallsInv, LifeNext
  PROVE  CallsInv'
<1>1. tcp' = tcp /\ cl' = cl  BY DEF LifeNext, LifeFrame
<1>2. ASSUME NEW a \in Addrs, Accept(a) PROVE CallsInv'
  <2>1. PICK c \in Conns :
           /\ Touches(c) /\ conn[c].st = "dialled" /\ conn'[c].st = "accepted"
           /\ SameTransit(conn[c], conn'[c])
    BY <1>2, AcceptEffect
  <2>2. TouchesClient(c) /\ cl'[c] = cl[c]  BY <1>1 DEF TouchesClient, ConnInv
  <2>3. OneInv(conn[c], cl[c])  BY DEF CallsInv
  <2>4. OneInv(conn'[c], cl[c])
    BY <2>1, <2>3, StageStays DEF Stages, Serving, Calling, Live
  <2>. QED  BY <1>1, <2>1, <2>2, <2>4, OneCallChanges
<1>3. ASSUME NEW a \in Addrs, CloseListener(a) PROVE CallsInv'
  <2>1. ASSUME NEW c \in Conns PROVE OneInv(conn[c], cl[c])'
    <3>1. OneInv(conn[c], cl[c])  BY DEF CallsInv
    <3>2. \/ conn'[c] = conn[c]
          \/ /\ conn[c].st = "dialled" /\ conn'[c].st = "closed"
             /\ SameTransit(conn[c], conn'[c])
      BY <1>3, CloseListenerEffect
    <3>3. OneInv(conn'[c], cl[c])
      BY <3>1, <3>2, StageStays DEF Stages, Serving, Calling, Live
    <3>. QED  BY <1>1, <3>3 DEF OneInv, OneCall
  <2>. QED  BY <2>1 DEF CallsInv
<1>4. CASE StartListen \/ StartSpawn \/ StopBegin \/ StopWait \/ StopEnd
           \/ \E a \in Addrs : AcceptBegin(a) \/ acquire(a) \/ AcceptError(a)
  <2>1. conn' = conn
    BY <1>4 DEF StartListen, StartSpawn, StopBegin, StopWait, StopEnd, AcceptBegin, acquire, AcceptError
  <2>. QED  BY <1>1, <2>1, CallsStay
<1>. QED  BY <1>2, <1>3, <1>4 DEF LifeNext

\* Every step.
LEMMA StepCalls ==
  ASSUME ServerInv, CallsInv, [Next]_vars
  PROVE  CallsInv'
<1> USE DEF ServerInv
<1>1. CASE UNCHANGED vars \/ HandleNext \/ HandlePanic
  <2>1. conn' = conn /\ cl' = cl /\ tcp' = tcp  BY <1>1 DEF vars, HandleNext, HandlePanic
  <2>. QED  BY <2>1, CallsStay
<1>2. CASE LifeNext  BY <1>2, LifeKeepsCalls
<1>3. ASSUME NEW c \in Conns, ServeStep(c) PROVE CallsInv'
  <2>1. CallableInv  BY DEF HandleInv
  <2>. QED  BY <1>3, <2>1, ServeKeepsCalls
<1>4. ASSUME NEW c \in Conns, PeerStep(c) PROVE CallsInv'  BY <1>4, PeerKeepsCalls
<1>. QED  BY <1>1, <1>2, <1>3, <1>4 DEF Next

\* handlePkg, serveRequest, serverCodec.Write: a client that waits for each
\* answer finds at most one on its connection, and it answers the request it
\* sent last (or is the plain text of an unknown content type).
THEOREM AnswersOwn == Spec => []AnswerOwn
<1>1. Init => CallsInv
  <2> SUFFICES ASSUME Init, NEW c \in Conns PROVE OneInv(conn[c], cl[c])
    BY DEF CallsInv
  <2>1. conn[c].st = "none" /\ conn[c].inQ = <<>> /\ conn[c].outQ = <<>> /\ cl[c].st = "none"
    BY DEF Init
  <2>2. Len(conn[c].outQ) = 0 /\ 1 .. Len(conn[c].inQ) = {} /\ 1 .. Len(conn[c].outQ) = {}
    BY <2>1
  <2>. QED  BY <2>1, <2>2 DEF OneInv, OneCall, Serving, Calling
<1>2. CallsInv => AnswerOwn  BY DEF CallsInv, OneInv, OneCall, AnswerOwn
<1>. QED  BY <1>1, <1>2, StepCalls, ServerInvariant, PTL DEF Spec

-----------------------------------------------------------------------------
(***************************************************************************)
(* The free lists.                                                         *)
(***************************************************************************)
\* An object is in use, or in a free list.
Named(used, free, o) ==
  \/ \E c \in Conns : used[c] = o
  \/ \E a \in Addrs : \E x \in 1 .. Len(free[a]) : free[a][x] = o

\* The request numbered id of a connection k with the client m has been
\* received: it is before what is in transit and not after what is served, and
\* in the stages "fresh" before what is served.
Past(k, m, id, fresh) ==
  /\ \A x \in 1 .. Len(k.inQ) : id < k.inQ[x].id
  /\ k.st \in Serving => id <= k.cur.id
  /\ k.st \in fresh => id < k.cur.id
  /\ m.st # "closed" => id <= m.sent

ObjTypes(used, free) ==
  used \in [Conns -> Objects \cup {None}] /\ free \in [Addrs -> Seq(Objects)]

\* A pool of objects: nothing is used twice, and every object was made for a
\* request that has been received.
PoolInv(used, free, fresh) ==
  /\ Exclusive(used, free)
  /\ \A d \in Conns, id \in 1 .. MaxReqs :
       Named(used, free, <<d, id>>) => Past(conn[d], cl[d], id, fresh)

Requests == [c \in Conns |-> conn[c].req]
Responses == [c \in Conns |-> conn[c].resp]
ObjectsInv ==
  /\ PoolInv(Requests, freeReq, {"read"})
  /\ PoolInv(Responses, freeRsp, {"read", "unary", "stream", "reply"})

\* None is not an object.
LEMMA NoneFacts == None \notin Objects
<1>1. ASSUME None \in Objects PROVE FALSE
  <2>1. PICK c \in Conns, x \in 1 .. MaxReqs : None = <<c, x>>  BY <1>1 DEF Objects
  <2>2. x \in Nat  OBVIOUS
  <2>. QED  BY <2>1, <2>2, ServerAssumption
<1>. QED  BY <1>1

\* getRequest, getResponse: the head of a free list is taken into use.
LEMMA TakeFree ==
  ASSUME NEW used, NEW free, ObjTypes(used, free), Exclusive(used, free),
         NEW c \in Conns, used[c] = None, NEW a \in Addrs, free[a] # <<>>,
         NEW f, NEW u, f = [free EXCEPT ![a] = Tail(@)], u = [used EXCEPT ![c] = Head(free[a])]
  PROVE  Exclusive(u, f) /\ \A o \in Objects : Named(u, f, o) => Named(used, free, o)
<1> DEFINE q == free[a]
           t == Tail(q)
<1>1. q \in Seq(Objects) /\ used \in [Conns -> Objects \cup {None}]  BY DEF ObjTypes
<1>2. /\ Len(q) \in Nat /\ Len(q) >= 1 /\ Head(q) = q[1] /\ Len(t) = Len(q) - 1
      /\ \A x \in 1 .. Len(t) : x + 1 \in 1 .. Len(q) /\ t[x] = q[x + 1]
  BY <1>1, TailFacts
<1>3. f[a] = t /\ \A b \in Addrs \ {a} : f[b] = free[b]  BY DEF ObjTypes
<1>4. u[c] = q[1] /\ (\A d \in Conns \ {c} : u[d] = used[d]) /\ 1 \in 1 .. Len(q)
  BY <1>1, <1>2
<1> HIDE DEF t
<1>5. ASSUME NEW b \in Addrs, NEW x \in 1 .. Len(f[b])
      PROVE  \E y \in 1 .. Len(free[b]) :
               f[b][x] = free[b][y] /\ (b = a => y = x + 1) /\ (b # a => y = x)
  <2>1. CASE b = a
    <3>1. x \in 1 .. Len(t)  BY <1>3, <2>1
    <3>. QED  BY <1>2, <1>3, <2>1, <3>1
  <2>2. CASE b # a  BY <1>3, <2>2
  <2>. QED  BY <2>1, <2>2
<1>6. ASSUME NEW d \in Conns, NEW e \in Conns, d # e, u[d] # None PROVE u[d] # u[e]
  <2>1. CASE d = c  BY <1>4, <1>6, <2>1 DEF Exclusive
  <2>2. CASE e = c  BY <1>4, <1>6, <2>2 DEF Exclusive
  <2>3. CASE d # c /\ e # c  BY <1>4, <1>6, <2>3 DEF Exclusive
  <2>. QED  BY <2>1, <2>2, <2>3
<1>7. ASSUME NEW d \in Conns, NEW b \in Addrs, NEW x \in 1 .. Len(f[b]) PROVE f[b][x] # u[d]
  <2>1. PICK y \in 1 .. Len(free[b]) : f[b][x] = free[b][y] /\ (b = a => y = x + 1)  BY <1>5
  <2>2. CASE d # c  BY <1>4, <2>1, <2>2 DEF Exclusive
  <2>3. CASE d = c
    <3>1. free[b][y] = free[a][1] => b = a /\ y = 1  BY <1>4 DEF Exclusive
    <3>2. ~(b = a /\ y = 1)
      <4>1. x >= 1 /\ x \in Nat  BY <1>7
      <4>. QED  BY <2>1, <4>1
    <3>. QED  BY <1>4, <2>1, <2>3, <3>1, <3>2
  <2>. QED  BY <2>2, <2>3
<1>8. ASSUME NEW b \in Addrs, NEW d \in Addrs, NEW x \in 1 .. Len(f[b]), NEW y \in 1 .. Len(f[d]),
             f[b][x] = f[d][y]
      PROVE  b = d /\ x = y
  <2>1. PICK v \in 1 .. Len(free[b]) :
           f[b][x] = free[b][v] /\ (b = a => v = x + 1) /\ (b # a => v = x)
    BY <1>5
  <2>2. PICK w \in 1 .. Len(free[d]) :
           f[d][y] = free[d][w] /\ (d = a => w = y + 1) /\ (d # a => w = y)
    BY <1>5
  <2>3. b = d /\ v = w  BY <1>8, <2>1, <2>2 DEF Exclusive
  <2>4. x \in Nat /\ y \in Nat  BY <1>8
  <2>. QED  BY <2>1, <2>2, <2>3, <2>4
<1>9. Exclusive(u, f)  BY <1>6, <1>7, <1>8 DEF Exclusive
<1>10. ASSUME NEW o \in Objects, Named(u, f, o) PROVE Named(used, free, o)
  <2>1. CASE \E d \in Conns : u[d] = o  BY <1>4, <2>1 DEF Named
  <2>2. CASE \E b \in Addrs : \E x \in 1 .. Len(f[b]) : f[b][x] = o
    <3>1. PICK b \in Addrs : \E x \in 1 .. Len(f[b]) : f[b][x] = o  BY <2>2
    <3>2. PICK x \in 1 .. Len(f[b]) : f[b][x] = o  BY <3>1
    <3>3. \E y \in 1 .. Len(free[b]) : f[b][x] = free[b][y]  BY <1>5
    <3>. QED  BY <3>2, <3>3 DEF Named
  <2>. QED  BY <1>10, <2>1, <2>2 DEF Named
<1>. QED  BY <1>9, <1>10

\* readRequest, when the header cannot be decoded: an object is taken and lost.
Loses(free, a, f) == a \in Addrs /\ free[a] # <<>> /\ f = [free EXCEPT ![a] = Tail(@)]

\* The other objects remain.
LEMMA LoseFree ==
  ASSUME NEW used, NEW free, ObjTypes(used, free), Exclusive(used, free),
         NEW a, NEW f, Loses(free, a, f)
  PROVE  Exclusive(used, f) /\ \A o \in Objects : Named(used, f, o) => Named(used, free, o)
<1> USE DEF Loses
<1> DEFINE q == free[a]
           t == Tail(q)
<1>1. q \in Seq(Objects)  BY DEF ObjTypes
<1>2. /\ Len(q) \in Nat /\ Len(t) = Len(q) - 1
      /\ \A x \in 1 .. Len(t) : x + 1 \in 1 .. Len(q) /\ t[x] = q[x + 1]
  BY <1>1, TailFacts
<1>3. f[a] = t /\ \A b \in Addrs \ {a} : f[b] = free[b]  BY DEF ObjTypes
<1> HIDE DEF t
<1>4. ASSUME NEW b \in Addrs, NEW x \in 1 .. Len(f[b])
      PROVE  \E y \in 1 .. Len(free[b]) :
               f[b][x] = free[b][y] /\ (b = a => y = x + 1) /\ (b # a => y = x)
  <2>1. CASE b = a
    <3>1. x \in 1 .. Len(t)  BY <1>3, <2>1
    <3>. QED  BY <1>2, <1>3, <2>1, <3>1
  <2>2. CASE b # a  BY <1>3, <2>2
  <2>. QED  BY <2>1, <2>2
<1>5. ASSUME NEW d \in Conns, NEW b \in Addrs, NEW x \in 1 .. Len(f[b]) PROVE f[b][x] # used[d]
  BY <1>4 DEF Exclusive
<1>6. ASSUME NEW b \in Addrs, NEW d \in Addrs, NEW x \in 1 .. Len(f[b]), NEW y \in 1 .. Len(f[d]),
             f[b][x] = f[d][y]
      PROVE  b = d /\ x = y
  <2>1. PICK v \in 1 .. Len(free[b]) :
           f[b][x] = free[b][v] /\ (b = a => v = x + 1) /\ (b # a => v = x)
    BY <1>4
  <2>2. PICK w \in 1 .. Len(free[d]) :
           f[d][y] = free[d][w] /\ (d = a => w = y + 1) /\ (d # a => w = y)
    BY <1>4
  <2>3. b = d /\ v = w  BY <1>6, <2>1, <2>2 DEF Exclusive
  <2>4. x \in Nat /\ y \in Nat  BY <1>6
  <2>. QED  BY <2>1, <2>2, <2>3, <2>4
<1>7. Exclusive(used, f)  BY <1>5, <1>6 DEF Exclusive
<1>8. ASSUME NEW o \in Objects, Named(used, f, o) PROVE Named(used, free, o)
  <2>1. CASE \E d \in Conns : used[d] = o  BY <2>1 DEF Named
  <2>2. CASE \E b \in Addrs : \E x \in 1 .. Len(f[b]) : f[b][x] = o
    <3>1. PICK b \in Addrs : \E x \in 1 .. Len(f[b]) : f[b][x] = o  BY <2>2
    <3>2. PICK x \in 1 .. Len(f[b]) : f[b][x] = o  BY <3>1
    <3>3. \E y \in 1 .. Len(free[b]) : f[b][x] = free[b][y]  BY <1>4
    <3>. QED  BY <3>2, <3>3 DEF Named
  <2>. QED  BY <1>8, <2>1, <2>2 DEF Named
<1>. QED  BY <1>7, <1>8

\* getRequest, getResponse, when the list is empty: a new object.
LEMMA TakeNew ==
  ASSUME NEW used, NEW free, ObjTypes(used, free), Exclusive(used, free),
         NEW c \in Conns, NEW o \in Objects, ~Named(used, free, o),
         NEW u, u = [used EXCEPT ![c] = o]
  PROVE  Exclusive(u, free) /\ \A p \in Objects : Named(u, free, p) => p = o \/ Named(used, free, p)
<1>1. used \in [Conns -> Objects \cup {None}]  BY DEF ObjTypes
<1>2. u[c] = o /\ (\A d \in Conns \ {c} : u[d] = used[d] /\ used[d] # o)  BY <1>1 DEF Named
<1>3. \A b \in Addrs : \A x \in 1 .. Len(free[b]) : free[b][x] # o  BY DEF Named
<1>4. Exclusive(u, free)  BY <1>2, <1>3 DEF Exclusive
<1>5. ASSUME NEW p \in Objects, Named(u, free, p) PROVE p = o \/ Named(used, free, p)
  BY <1>2, <1>5 DEF Named
<1>. QED  BY <1>4, <1>5

\* The connection stops using its object.
LEMMA DropUsed ==
  ASSUME NEW used, NEW free, ObjTypes(used, free), Exclusive(used, free),
         NEW c \in Conns, NEW u, u = [used EXCEPT ![c] = None]
  PROVE  Exclusive(u, free) /\ \A p \in Objects : Named(u, free, p) => Named(used, free, p)
<1>1. used \in [Conns -> Objects \cup {None}]  BY DEF ObjTypes
<1>2. u[c] = None /\ (\A d \in Conns \ {c} : u[d] = used[d])  BY <1>1
<1>3. \A b \in Addrs : \A x \in 1 .. Len(free[b]) : free[b][x] # None
  <2> SUFFICES ASSUME NEW b \in Addrs, NEW x \in 1 .. Len(free[b]) PROVE free[b][x] # None
    OBVIOUS
  <2>1. free[b] \in Seq(Objects)  BY DEF ObjTypes
  <2>2. free[b][x] \in Objects  BY <2>1, ElementOfSeq
  <2>. QED  BY <2>2, NoneFacts
<1>4. Exclusive(u, free)
  <2>1. ASSUME NEW d \in Conns, NEW e \in Conns, d # e, u[d] # None PROVE u[d] # u[e]
    <3>1. d # c /\ u[d] = used[d]  BY <1>2, <2>1
    <3>2. CASE e = c  BY <1>2, <2>1, <3>2
    <3>3. CASE e # c  BY <1>2, <2>1, <3>1, <3>3 DEF Exclusive
    <3>. QED  BY <3>2, <3>3
  <2>2. ASSUME NEW d \in Conns, NEW b \in Addrs, NEW x \in 1 .. Len(free[b])
        PROVE  free[b][x] # u[d]
    BY <1>2, <1>3 DEF Exclusive
  <2>. QED  BY <2>1, <2>2 DEF Exclusive
<1>5. ASSUME NEW p \in Objects, Named(u, free, p) PROVE Named(used, free, p)
  BY <1>2, <1>5, NoneFacts DEF Named
<1>. QED  BY <1>4, <1>5

\* freeRequest, freeRsponse: the object goes to the list, unless it is full.
Frees(used, free, c, a, u, f) ==
  /\ c \in Conns /\ used[c] \in Objects /\ a \in Addrs
  /\ u = [used EXCEPT ![c] = None] /\ f = [free EXCEPT ![a] = Freed(@, used[c])]

\* It is then not used, and once in the list.
LEMMA FreeUsed ==
  ASSUME NEW used, NEW free, ObjTypes(used, free), Exclusive(used, free),
         NEW c, NEW a, NEW u, NEW f, Frees(used, free, c, a, u, f)
  PROVE  Exclusive(u, f) /\ \A p \in Objects : Named(u, f, p) => Named(used, free, p)
<1> USE DEF Frees
<1>0. PICK o \in Objects : o = used[c]  OBVIOUS
<1> DEFINE q == free[a]
           t == Append(q, o)
<1>1. /\ q \in Seq(Objects) /\ used \in [Conns -> Objects \cup {None}]
      /\ free \in [Addrs -> Seq(Objects)]
  BY DEF ObjTypes
<1>2. Exclusive(u, free) /\ \A p \in Objects : Named(u, free, p) => Named(used, free, p)
  BY DropUsed
<1>3. CASE ~(Len(q) < FreeCap)
  <2>1. f = free  BY <1>1, <1>3 DEF Freed
  <2>. QED  BY <1>2, <2>1
<1>4. CASE Len(q) < FreeCap
  <2>1. f = [free EXCEPT ![a] = t]  BY <1>0, <1>4 DEF Freed
  <2>2. f[a] = t /\ \A b \in Addrs \ {a} : f[b] = free[b]  BY <1>1, <2>1
  <2>3. /\ Len(q) \in Nat /\ Len(t) = Len(q) + 1 /\ t[Len(q) + 1] = o
        /\ \A x \in 1 .. Len(q) : t[x] = q[x]
    BY <1>1, AppendFacts
  <2> DEFINE new(b, x) == b = a /\ x = Len(q) + 1
  <2> HIDE DEF t
  <2>4. ASSUME NEW b \in Addrs, NEW x \in 1 .. Len(f[b])
        PROVE  \/ new(b, x) /\ f[b][x] = o
               \/ x \in 1 .. Len(free[b]) /\ f[b][x] = free[b][x]
    <3>1. CASE b = a
      <4>1. x \in 1 .. Len(q) + 1  BY <2>2, <2>3, <3>1
      <4>2. x = Len(q) + 1 \/ x \in 1 .. Len(q)  BY <2>3, <4>1
      <4>. QED  BY <2>2, <2>3, <3>1, <4>2
    <3>2. CASE b # a  BY <2>2, <3>2
    <3>. QED  BY <3>1, <3>2
  <2>5. /\ \A b \in Addrs : \A x \in 1 .. Len(free[b]) : free[b][x] # o
        /\ \A d \in Conns \ {c} : u[d] = used[d] /\ used[d] # o
        /\ u[c] = None /\ o # None
    BY <1>0, <1>1, NoneFacts DEF Exclusive
  <2>6. ASSUME NEW d \in Conns, NEW b \in Addrs, NEW x \in 1 .. Len(f[b]) PROVE f[b][x] # u[d]
    <3>1. CASE f[b][x] = o  BY <2>5, <3>1
    <3>2. CASE x \in 1 .. Len(free[b]) /\ f[b][x] = free[b][x]  BY <1>2, <3>2 DEF Exclusive
    <3>. QED  BY <2>4, <3>1, <3>2
  <2>7. ASSUME NEW b \in Addrs, NEW d \in Addrs, NEW x \in 1 .. Len(f[b]), NEW y \in 1 .. Len(f[d]),
               f[b][x] = f[d][y]
        PROVE  b = d /\ x = y
    <3>1. CASE new(b, x) /\ f[b][x] = o /\ new(d, y)  BY <3>1
    <3>2. CASE f[b][x] = o /\ y \in 1 .. Len(free[d]) /\ f[d][y] = free[d][y]  BY <2>5, <2>7, <3>2
    <3>3. CASE f[d][y] = o /\ x \in 1 .. Len(free[b]) /\ f[b][x] = free[b][x]  BY <2>5, <2>7, <3>3
    <3>4. CASE /\ x \in 1 .. Len(free[b]) /\ f[b][x] = free[b][x]
               /\ y \in 1 .. Len(free[d]) /\ f[d][y] = free[d][y]
      BY <1>2, <2>7, <3>4 DEF Exclusive
    <3>. QED  BY <2>4, <3>1, <3>2, <3>3, <3>4
  <2>8. Exclusive(u, f)  BY <1>2, <2>6, <2>7 DEF Exclusive
  <2>9. ASSUME NEW p \in Objects, Named(u, f, p) PROVE Named(used, free, p)
    <3>1. CASE \E d \in Conns : u[d] = p  BY <2>5, <3>1, NoneFacts DEF Named
    <3>2. CASE \E b \in Addrs : \E x \in 1 .. Len(f[b]) : f[b][x] = p
      <4>1. PICK b \in Addrs : \E x \in 1 .. Len(f[b]) : f[b][x] = p  BY <3>2
      <4>2. PICK x \in 1 .. Len(f[b]) : f[b][x] = p  BY <4>1
      <4>3. CASE f[b][x] = o
        <5>1. used[c] = p /\ c \in Conns  BY <1>0, <4>2, <4>3
        <5>. QED  BY <5>1 DEF Named
      <4>4. CASE x \in 1 .. Len(free[b]) /\ f[b][x] = free[b][x]  BY <4>2, <4>4 DEF Named
      <4>. QED  BY <2>4, <4>3, <4>4
    <3>. QED  BY <2>9, <3>1, <3>2 DEF Named
  <2>. QED  BY <2>8, <2>9
<1>. QED  BY <1>3, <1>4

ReqFresh == {"read"}
RspFresh == {"read", "unary", "stream", "reply"}

\* PoolInv of the next state, of its objects in use u and its free lists f.
PoolNext(u, f, fresh) ==
  /\ Exclusive(u, f)
  /\ \A d \in Conns, id \in 1 .. MaxReqs :
       Named(u, f, <<d, id>>) => Past(conn'[d], cl'[d], id, fresh)

\* Both pools, in the next state.
LEMMA PoolsNext ==
  ASSUME PoolNext(Requests', freeReq', ReqFresh), PoolNext(Responses', freeRsp', RspFresh)
  PROVE  ObjectsInv'
<1>1. PoolInv(Requests, freeReq, {"read"})'
  BY DEF PoolNext, PoolInv, ReqFresh, Addrs, Exclusive, Named, Past, Serving, Calling
<1>2. PoolInv(Responses, freeRsp, {"read", "unary", "stream", "reply"})'
  BY DEF PoolNext, PoolInv, RspFresh, Addrs, Exclusive, Named, Past, Serving, Calling
<1>. QED  BY <1>1, <1>2 DEF ObjectsInv

\* What happens to the packages of a connection: they stay, one is received,
\* or they are lost; what is being served stays the same, or is what was received.
Onward(k, r, fresh) ==
  /\ \/ r.inQ = k.inQ
     \/ k.inQ # <<>> /\ r.inQ = Tail(k.inQ)
     \/ r.inQ = <<>>
  /\ r.st \in Serving =>
       \/ k.st \in Serving /\ r.cur = k.cur /\ (r.st \in fresh => k.st \in fresh)
       \/ k.inQ # <<>> /\ r.cur = Head(k.inQ)

\* Then a request that was received before remains so.
LEMMA PastKept ==
  ASSUME NEW k \in Connection, NEW r, NEW m, NEW id \in 1 .. MaxReqs,
         NEW fresh \in SUBSET Serving, Past(k, m, id, fresh), Onward(k, r, fresh)
  PROVE  Past(r, m, id, fresh)
<1>1. k.inQ \in Seq(Package) /\ MaxReqs \in Nat /\ id \in Nat  BY ConnFields, ServerAssumption
<1>2. \A x \in 1 .. Len(r.inQ) : id < r.inQ[x].id
  <2>1. CASE r.inQ = k.inQ  BY <2>1 DEF Past
  <2>2. CASE k.inQ # <<>> /\ r.inQ = Tail(k.inQ)
    <3> SUFFICES ASSUME NEW x \in 1 .. Len(r.inQ) PROVE id < r.inQ[x].id
      OBVIOUS
    <3> DEFINE y == x + 1
    <3>1. y \in 1 .. Len(k.inQ) /\ r.inQ[x] = k.inQ[y]  BY <1>1, <2>2, TailFacts
    <3> HIDE DEF y
    <3>. QED  BY <3>1 DEF Past
  <2>3. CASE r.inQ = <<>>
    <3>1. 1 .. Len(r.inQ) = {}  BY <2>3
    <3>. QED  BY <3>1
  <2>. QED  BY <2>1, <2>2, <2>3 DEF Onward
<1>3. ASSUME r.st \in Serving PROVE id <= r.cur.id /\ (r.st \in fresh => id < r.cur.id)
  <2>1. CASE k.st \in Serving /\ r.cur = k.cur /\ (r.st \in fresh => k.st \in fresh)
    BY <2>1 DEF Past
  <2>2. CASE k.inQ # <<>> /\ r.cur = Head(k.inQ)
    <3>1. r.cur = k.inQ[1] /\ 1 \in 1 .. Len(k.inQ) /\ r.cur \in Package  BY <1>1, <2>2, TailFacts
    <3>2. r.cur.id \in 1 .. MaxReqs  BY <3>1 DEF Package
    <3>3. r.cur.id \in Nat /\ id < r.cur.id  BY <3>1, <3>2 DEF Past
    <3>. QED  BY <1>1, <3>3
  <2>. QED  BY <1>3, <2>1, <2>2 DEF Onward
<1>. QED  BY <1>2, <1>3 DEF Past

\* A pool whose objects stay the same, but for one that is made for the
\* package being served.
LEMMA PoolChanges ==
  ASSUME NEW used, NEW free, NEW u, NEW f, NEW fresh, PoolInv(used, free, fresh),
         NEW c \in Conns, Touches(c), TouchesClient(c), Exclusive(u, f),
         \A id \in 1 .. MaxReqs :
           Past(conn[c], cl[c], id, fresh) => Past(conn'[c], cl'[c], id, fresh),
         \A o \in Objects : Named(u, f, o) =>
           \/ Named(used, free, o)
           \/ o = <<c, conn[c].cur.id>> /\ Past(conn'[c], cl'[c], conn[c].cur.id, fresh)
  PROVE  PoolNext(u, f, fresh)
<1> SUFFICES ASSUME NEW d \in Conns, NEW id \in 1 .. MaxReqs, Named(u, f, <<d, id>>)
             PROVE  Past(conn'[d], cl'[d], id, fresh)
  BY DEF PoolNext
<1>1. <<d, id>> \in Objects  BY DEF Objects
<1>2. CASE Named(used, free, <<d, id>>)
  <2>1. Past(conn[d], cl[d], id, fresh)  BY <1>2 DEF PoolInv
  <2>2. CASE d = c  BY <2>1, <2>2
  <2>3. CASE d # c
    <3>1. conn'[d] = conn[d] /\ cl'[d] = cl[d]  BY <2>3 DEF Touches, TouchesClient
    <3>. QED  BY <2>1, <3>1
  <2>. QED  BY <2>2, <2>3
<1>3. CASE <<d, id>> = <<c, conn[c].cur.id>> /\ Past(conn'[c], cl'[c], conn[c].cur.id, fresh)
  <2>1. d = c /\ id = conn[c].cur.id  BY <1>3
  <2>. QED  BY <1>3, <2>1
<1>. QED  BY <1>1, <1>2, <1>3

\* The objects in use, when one connection changes.
LEMMA UsedChanges ==
  ASSUME ConnInv, NEW c \in Conns, Touches(c)
  PROVE  /\ Requests' = [Requests EXCEPT ![c] = conn'[c].req]
         /\ Responses' = [Responses EXCEPT ![c] = conn'[c].resp]
         /\ conn'[c].req = conn[c].req => Requests' = Requests
         /\ conn'[c].resp = conn[c].resp => Responses' = Responses
<1>1. \A d \in Conns \ {c} : conn'[d] = conn[d]  BY DEF Touches
<1>2. Requests' = [d \in Conns |-> conn'[d].req] /\ Responses' = [d \in Conns |-> conn'[d].resp]
  BY DEF Requests, Responses
<1>. QED  BY <1>1, <1>2 DEF Requests, Responses

\* The objects in use are objects.
LEMMA PoolObjects ==
  ASSUME ConnInv, PoolTypes
  PROVE  ObjTypes(Requests, freeReq) /\ ObjTypes(Responses, freeRsp)
<1>1. \A c \in Conns : conn[c].req \in Objects \cup {None} /\ conn[c].resp \in Objects \cup {None}
  BY ConnFields DEF ConnInv
<1>. QED  BY <1>1 DEF ObjTypes, Requests, Responses, PoolTypes

\* readRequest and sendResponse take an object for the package being served.
Takes(used, free, fresh, c, a, u, f) ==
  /\ c \in Conns /\ used[c] = None /\ conn[c].cur \in Package /\ conn[c].st \in fresh
  /\ a \in Addrs
  /\ u = [used EXCEPT ![c] = Taken(free[a], c)] /\ f = [free EXCEPT ![a] = Rest(@)]

\* It is from the list, or new.
LEMMA PoolTakes ==
  ASSUME NEW used, NEW free, NEW fresh, ObjTypes(used, free), PoolInv(used, free, fresh),
         NEW c, NEW a, NEW u, NEW f, Takes(used, free, fresh, c, a, u, f)
  PROVE  /\ Exclusive(u, f)
         /\ \A o \in Objects : Named(u, f, o) => Named(used, free, o) \/ o = <<c, conn[c].cur.id>>
<1> USE DEF Takes
<1>1. Exclusive(used, free) /\ free \in [Addrs -> Seq(Objects)]  BY DEF PoolInv, ObjTypes
<1>2. CASE free[a] = <<>>
  <2> DEFINE o == <<c, conn[c].cur.id>>
  <2>1. conn[c].cur.id \in 1 .. MaxReqs  BY DEF Package
  <2>2. o \in Objects  BY <2>1 DEF Objects
  <2>3. ~Named(used, free, o)
    <3>1. ASSUME Named(used, free, o) PROVE FALSE
      <4>1. Past(conn[c], cl[c], conn[c].cur.id, fresh)  BY <2>1, <3>1 DEF PoolInv
      <4>2. conn[c].cur.id < conn[c].cur.id  BY <4>1 DEF Past
      <4>3. conn[c].cur.id \in Nat  BY <2>1
      <4>. QED  BY <4>2, <4>3
    <3>. QED  BY <3>1
  <2>4. u = [used EXCEPT ![c] = o] /\ f = free  BY <1>1, <1>2 DEF Taken, Rest
  <2> HIDE DEF o
  <2>5. Exclusive(u, free) /\ \A p \in Objects : Named(u, free, p) => p = o \/ Named(used, free, p)
    BY <1>1, <2>2, <2>3, <2>4, TakeNew
  <2>. QED  BY <2>4, <2>5 DEF o
<1>3. CASE free[a] # <<>>
  <2>1. u = [used EXCEPT ![c] = Head(free[a])] /\ f = [free EXCEPT ![a] = Tail(@)]
    BY <1>3 DEF Taken, Rest
  <2>2. Exclusive(u, f) /\ \A o \in Objects : Named(u, f, o) => Named(used, free, o)
    BY <1>1, <1>3, <2>1, TakeFree
  <2>. QED  BY <2>2
<1>. QED  BY <1>2, <1>3

\* The package being served has been received.
LEMMA CurrentPast ==
  ASSUME ConnInv, NEW c \in Conns, conn[c].st \in Serving, NEW r, NEW fresh,
         r.inQ = conn[c].inQ, r.cur = conn[c].cur, r.st \notin fresh
  PROVE  Past(r, cl[c], conn[c].cur.id, fresh)
<1> DEFINE k == conn[c]
           id == k.cur.id
<1>1. k \in Connection /\ cl[c] \in Client /\ ServeInv(k) /\ NumberInv(c, k, cl[c])
  BY DEF ConnInv, ConnOK
<1>2. id \in 1 .. MaxReqs /\ MaxReqs \in Nat  BY <1>1, ServerAssumption DEF ServeInv, Package
<1>3. ASSUME NEW x \in 1 .. Len(k.inQ) PROVE id < k.inQ[x].id
  <2>1. k.inQ[x] \in Package  BY <1>1, <1>3, ConnFields, ElementOfSeq
  <2>2. k.inQ[x].id \in 1 .. MaxReqs  BY <2>1 DEF Package
  <2>3. k.inQ[x].id >= id + x  BY <1>1 DEF NumberInv
  <2> DEFINE v == k.inQ[x].id
  <2>4. v \in Nat /\ id \in Nat /\ x \in Nat /\ x >= 1 /\ v >= id + x  BY <1>2, <2>2, <2>3
  <2>5. id < v
    <3> HIDE DEF v, id
    <3>. QED  BY <2>4
  <2>. QED  BY <2>5
<1>4. cl[c].st # "closed" => id <= cl[c].sent
  <2>1. cl[c].st # "none"  BY <1>1, Dialled DEF Serving, Calling
  <2>2. cl[c].st # "closed" => cl[c].st \in Active  BY <1>1, <2>1, ClientFields DEF Active
  <2>. QED  BY <1>1, <2>2 DEF NumberInv
<1>5. id <= id  BY <1>2
<1>. QED  BY <1>3, <1>4, <1>5 DEF Past

\* The steps of a connection at the server.
LEMMA ServeKeepsObjects ==
  ASSUME LifeTypes, PoolTypes, CallableInv, ConnInv, ObjectsInv, NEW c \in Conns, ServeStep(c)
  PROVE  ObjectsInv'
<1> DEFINE k == conn[c]
           r == conn'[c]
           m == cl[c]
<1>1. cl' = cl /\ TouchesClient(c)  BY DEF ServeStep, ServeFrame, TouchesClient, ConnInv
<1>2. k \in Connection /\ ServeInv(k)  BY DEF ConnInv, ConnOK
<1>3. /\ PoolInv(Requests, freeReq, ReqFresh) /\ PoolInv(Responses, freeRsp, RspFresh)
      /\ Exclusive(Requests, freeReq) /\ Exclusive(Responses, freeRsp)
      /\ ObjTypes(Requests, freeReq) /\ ObjTypes(Responses, freeRsp)
      /\ Requests[c] = k.req /\ Responses[c] = k.resp
  BY PoolObjects DEF ObjectsInv, PoolInv, ReqFresh, RspFresh, Requests, Responses
<1>4. ReqFresh \in SUBSET Serving /\ RspFresh \in SUBSET Serving
  BY DEF ReqFresh, RspFresh, Serving, Calling
\* The pool of requests, and of responses, after a step of this connection.
<1>5. ASSUME Touches(c), Onward(k, r, ReqFresh), Exclusive(Requests', freeReq'),
             \A o \in Objects : Named(Requests', freeReq', o) =>
               Named(Requests, freeReq, o) \/ (o = <<c, k.cur.id>> /\ Past(r, m, k.cur.id, ReqFresh))
      PROVE  PoolNext(Requests', freeReq', ReqFresh)
  <2>1. \A id \in 1 .. MaxReqs : Past(k, m, id, ReqFresh) => Past(r, m, id, ReqFresh)
    BY <1>2, <1>4, <1>5, PastKept
  <2>2. cl'[c] = m  BY <1>1
  <2>. QED  BY <1>1, <1>3, <1>5, <2>1, <2>2, PoolChanges
<1>6. ASSUME Touches(c), Onward(k, r, RspFresh), Exclusive(Responses', freeRsp'),
             \A o \in Objects : Named(Responses', freeRsp', o) =>
               Named(Responses, freeRsp, o) \/ (o = <<c, k.cur.id>> /\ Past(r, m, k.cur.id, RspFresh))
      PROVE  PoolNext(Responses', freeRsp', RspFresh)
  <2>1. \A id \in 1 .. MaxReqs : Past(k, m, id, RspFresh) => Past(r, m, id, RspFresh)
    BY <1>2, <1>4, <1>6, PastKept
  <2>2. cl'[c] = m  BY <1>1
  <2>. QED  BY <1>1, <1>3, <1>6, <2>1, <2>2, PoolChanges
<1>7. ASSUME Touches(c), Onward(k, r, ReqFresh), r.req = k.req, freeReq' = freeReq
      PROVE  PoolNext(Requests', freeReq', ReqFresh)
  <2>1. Requests' = Requests  BY <1>7, UsedChanges
  <2>. QED  BY <1>3, <1>5, <1>7, <2>1
<1>8. ASSUME Touches(c), Onward(k, r, RspFresh), r.resp = k.resp, freeRsp' = freeRsp
      PROVE  PoolNext(Responses', freeRsp', RspFresh)
  <2>1. Responses' = Responses  BY <1>8, UsedChanges
  <2>. QED  BY <1>3, <1>6, <1>8, <2>1
\* Steps that take and free no object.
<1>9. ASSUME Touches(c), Onward(k, r, ReqFresh), Onward(k, r, RspFresh), SameObjects(k, r),
             UNCHANGED <<freeReq, freeRsp>>
      PROVE  ObjectsInv'
  BY <1>7, <1>8, <1>9, PoolsNext DEF SameObjects
<1>10. CASE ServeConn(c)
  <2>1. /\ Touches(c) /\ r.st = "recv" /\ SameTransit(k, r) /\ SameObjects(k, r)
        /\ UNCHANGED <<freeReq, freeRsp>>
    BY <1>10, ServeConnEffect DEF ServeConn
  <2>2. Onward(k, r, ReqFresh) /\ Onward(k, r, RspFresh)
    BY <2>1 DEF Onward, SameTransit, Serving, Calling
  <2>. QED  BY <1>9, <2>1, <2>2
<1>11. CASE Recv(c)
  <2>1. /\ Touches(c) /\ k.inQ # <<>> /\ r.inQ = Tail(k.inQ) /\ r.cur = Head(k.inQ)
        /\ SameObjects(k, r) /\ UNCHANGED <<freeReq, freeRsp>>
    BY <1>11, RecvEffect DEF Recv
  <2>2. Onward(k, r, ReqFresh) /\ Onward(k, r, RspFresh)  BY <2>1 DEF Onward
  <2>. QED  BY <1>9, <2>1, <2>2
<1>12. CASE RecvTcp(c)
  <2>1. /\ Touches(c) /\ r.st = "closing" /\ r.inQ = k.inQ /\ SameObjects(k, r)
        /\ UNCHANGED <<freeReq, freeRsp>>
    BY <1>12, RecvTcpEffect DEF RecvTcp
  <2>2. Onward(k, r, ReqFresh) /\ Onward(k, r, RspFresh)
    BY <2>1 DEF Onward, Serving, Calling
  <2>. QED  BY <1>9, <2>1, <2>2
<1>13. CASE RecvError(c)
  <2>1. /\ Touches(c) /\ r.st = "closing" /\ SameTransit(k, r) /\ SameObjects(k, r)
        /\ UNCHANGED <<freeReq, freeRsp>>
    BY <1>13, RecvErrorEffect DEF RecvError
  <2>2. Onward(k, r, ReqFresh) /\ Onward(k, r, RspFresh)
    BY <2>1 DEF Onward, SameTransit, Serving, Calling
  <2>. QED  BY <1>9, <2>1, <2>2
<1>14. CASE readRequest(c)
  <2>1. /\ Touches(c) /\ k.st = "read" /\ SameTransit(k, r) /\ r.resp = k.resp
        /\ \/ r.st = "closing" /\ r.req = k.req
           \/ /\ r.st \in {"unary", "stream", "reply"} /\ r.cur = k.cur
              /\ r.req = Taken(freeReq[k.servo], c)
    BY <1>14, ReadRequestEffect
  <2>2. freeReq' = [freeReq EXCEPT ![k.servo] = Rest(@)] /\ freeRsp' = freeRsp
    BY <1>14 DEF readRequest
  <2>3. k.servo \in Addrs  BY <2>1, ServoFacts DEF Serving
  <2>4. k.req = None /\ k.cur \in Package  BY <1>2, <2>1 DEF ServeInv, Serving, Calling
  <2>5. Onward(k, r, ReqFresh) /\ Onward(k, r, RspFresh)
    BY <2>1 DEF Onward, SameTransit, Serving, Calling, ReqFresh, RspFresh
  <2>6. PoolNext(Responses', freeRsp', RspFresh)  BY <1>8, <2>1, <2>2, <2>5
  <2>7. CASE r.st = "closing" /\ r.req = k.req
    <3>1. Requests' = Requests  BY <2>1, <2>7, UsedChanges
    <3>2. /\ Exclusive(Requests, freeReq')
          /\ \A o \in Objects : Named(Requests, freeReq', o) => Named(Requests, freeReq, o)
      <4>1. CASE freeReq[k.servo] = <<>>
        <5>1. freeReq' = freeReq  BY <2>2, <4>1 DEF Rest, PoolTypes
        <5>. QED  BY <1>3, <5>1
      <4>2. CASE freeReq[k.servo] # <<>>
        <5>1. freeReq' = [freeReq EXCEPT ![k.servo] = Tail(@)]  BY <2>2, <4>2 DEF Rest
        <5>2. Loses(freeReq, k.servo, freeReq')  BY <2>3, <4>2, <5>1 DEF Loses
        <5>. QED  BY <1>3, <5>2, LoseFree
      <4>. QED  BY <4>1, <4>2
    <3>3. PoolNext(Requests', freeReq', ReqFresh)  BY <1>5, <2>1, <2>5, <3>1, <3>2
    <3>. QED  BY <2>6, <3>3, PoolsNext
  <2>8. CASE /\ r.st \in {"unary", "stream", "reply"} /\ r.cur = k.cur
             /\ r.req = Taken(freeReq[k.servo], c)
    <3>1. Requests' = [Requests EXCEPT ![c] = Taken(freeReq[k.servo], c)]
      BY <2>1, <2>8, UsedChanges
    <3>2. k.st \in ReqFresh  BY <2>1 DEF ReqFresh
    <3>3. /\ Exclusive(Requests', freeReq')
          /\ \A o \in Objects : Named(Requests', freeReq', o) =>
               Named(Requests, freeReq, o) \/ o = <<c, k.cur.id>>
      <4>1. Takes(Requests, freeReq, ReqFresh, c, k.servo, Requests', freeReq')
        BY <1>3, <2>2, <2>3, <2>4, <3>1, <3>2 DEF Takes
      <4>. QED  BY <1>3, <4>1, PoolTakes
    <3>4. Past(r, m, k.cur.id, ReqFresh)
      BY <2>1, <2>8, CurrentPast DEF SameTransit, Serving, ReqFresh
    <3>5. PoolNext(Requests', freeReq', ReqFresh)  BY <1>5, <2>1, <2>5, <3>3, <3>4
    <3>. QED  BY <2>6, <3>5, PoolsNext
  <2>. QED  BY <2>1, <2>7, <2>8
<1>15. CASE MethodReturn(c)
  <2>1. /\ Touches(c) /\ k.st \in {"unary", "stream"} /\ r.st = "reply"
        /\ SameTransit(k, r) /\ SameObjects(k, r) /\ r.cur = k.cur
        /\ UNCHANGED <<freeReq, freeRsp>>
    BY <1>15, MethodReturnEffect DEF MethodReturn
  <2>2. Onward(k, r, ReqFresh) /\ Onward(k, r, RspFresh)
    BY <2>1 DEF Onward, SameTransit, Serving, Calling, ReqFresh, RspFresh
  <2>. QED  BY <1>9, <2>1, <2>2
<1>16. CASE MethodPanic(c)
  <2>1. /\ Touches(c) /\ r.st = "closing" /\ r.req = None /\ SameTransit(k, r)
        /\ r.resp = k.resp /\ UNCHANGED <<freeReq, freeRsp>>
    BY <1>16, MethodPanicEffect DEF MethodPanic
  <2>2. Onward(k, r, ReqFresh) /\ Onward(k, r, RspFresh)
    BY <2>1 DEF Onward, SameTransit, Serving, Calling
  <2>3. Requests' = [Requests EXCEPT ![c] = None]  BY <2>1, UsedChanges
  <2>4. /\ Exclusive(Requests', freeReq)
        /\ \A o \in Objects : Named(Requests', freeReq, o) => Named(Requests, freeReq, o)
    BY <1>3, <2>3, DropUsed
  <2>5. PoolNext(Requests', freeReq', ReqFresh)  BY <1>5, <2>1, <2>2, <2>4
  <2>6. PoolNext(Responses', freeRsp', RspFresh)  BY <1>8, <2>1, <2>2
  <2>. QED  BY <2>5, <2>6, PoolsNext
<1>17. CASE StreamSend(c)
  <2>1. /\ Touches(c) /\ k.st = "stream" /\ r.st = "stream" /\ r.inQ = k.inQ /\ SameObjects(k, r)
        /\ r.cur = k.cur /\ UNCHANGED <<freeReq, freeRsp>>
    BY <1>17, StreamSendEffect DEF StreamSend
  <2>2. Onward(k, r, ReqFresh) /\ Onward(k, r, RspFresh)
    BY <2>1 DEF Onward, Serving, Calling
  <2>. QED  BY <1>9, <2>1, <2>2
<1>18. CASE StreamRecv(c)
  <2>1. /\ Touches(c) /\ k.st = "stream" /\ r.st = "stream" /\ k.inQ # <<>> /\ r.inQ = Tail(k.inQ)
        /\ SameObjects(k, r) /\ r.cur = k.cur /\ UNCHANGED <<freeReq, freeRsp>>
    BY <1>18, StreamRecvEffect DEF StreamRecv
  <2>2. Onward(k, r, ReqFresh) /\ Onward(k, r, RspFresh)
    BY <2>1 DEF Onward, Serving, Calling
  <2>. QED  BY <1>9, <2>1, <2>2
<1>19. CASE StreamClose(c)
  <2>1. /\ Touches(c) /\ k.st = "stream" /\ r.st = k.st /\ SameTransit(k, r) /\ SameObjects(k, r)
        /\ r.cur = k.cur /\ UNCHANGED <<freeReq, freeRsp>>
    BY <1>19, StreamCloseEffect DEF StreamClose
  <2>2. Onward(k, r, ReqFresh) /\ Onward(k, r, RspFresh)
    BY <2>1 DEF Onward, SameTransit, Serving, Calling
  <2>. QED  BY <1>9, <2>1, <2>2
<1>20. CASE sendResponse(c)
  <2>1. /\ Touches(c) /\ k.st = "reply" /\ r.st = "write" /\ SameTransit(k, r)
        /\ r.resp = Taken(freeRsp[k.servo], c) /\ r.req = k.req /\ r.cur = k.cur
    BY <1>20, SendResponseEffect
  <2>2. freeRsp' = [freeRsp EXCEPT ![k.servo] = Rest(@)] /\ freeReq' = freeReq
    BY <1>20 DEF sendResponse
  <2>3. k.servo \in Addrs /\ k.st \in Serving /\ k.st \in RspFresh
    BY <2>1, ServoFacts DEF Serving, Calling, RspFresh
  <2>4. k.resp = None /\ k.cur \in Package  BY <1>2, <2>1, <2>3 DEF ServeInv
  <2>5. Onward(k, r, ReqFresh) /\ Onward(k, r, RspFresh)
    BY <2>1 DEF Onward, SameTransit, Serving, Calling, ReqFresh, RspFresh
  <2>6. PoolNext(Requests', freeReq', ReqFresh)  BY <1>7, <2>1, <2>2, <2>5
  <2>7. Responses' = [Responses EXCEPT ![c] = Taken(freeRsp[k.servo], c)]
    BY <2>1, UsedChanges
  <2>8. /\ Exclusive(Responses', freeRsp')
        /\ \A o \in Objects : Named(Responses', freeRsp', o) =>
             Named(Responses, freeRsp, o) \/ o = <<c, k.cur.id>>
    <3>1. Takes(Responses, freeRsp, RspFresh, c, k.servo, Responses', freeRsp')
      BY <1>3, <2>2, <2>3, <2>4, <2>7 DEF Takes
    <3>. QED  BY <1>3, <3>1, PoolTakes
  <2>9. Past(r, m, k.cur.id, RspFresh)
    BY <2>1, <2>3, CurrentPast DEF SameTransit, RspFresh
  <2>10. PoolNext(Responses', freeRsp', RspFresh)  BY <1>6, <2>1, <2>5, <2>8, <2>9
  <2>. QED  BY <2>6, <2>10, PoolsNext
<1>21. CASE WriteResponse(c)
  <2>1. /\ Touches(c) /\ k.st = "write" /\ r.st \in {"closing", "recv"} /\ r.inQ = k.inQ
        /\ r.req = None /\ r.resp = None
        /\ freeRsp' = [freeRsp EXCEPT ![k.servo] = Freed(@, k.resp)]
        /\ freeReq' = [freeReq EXCEPT ![k.servo] = Freed(@, k.req)]
    BY <1>21, WriteResponseEffect
  <2>2. k.servo \in Addrs /\ k.req \in Objects /\ k.resp \in Objects
    BY <1>2, <2>1, ServoFacts DEF Serving, Calling, ServeInv
  <2>3. Onward(k, r, ReqFresh) /\ Onward(k, r, RspFresh)
    BY <2>1 DEF Onward, Serving, Calling
  <2>4. Requests' = [Requests EXCEPT ![c] = None] /\ Responses' = [Responses EXCEPT ![c] = None]
    BY <2>1, UsedChanges
  <2>5. /\ Exclusive(Requests', freeReq')
        /\ \A o \in Objects : Named(Requests', freeReq', o) => Named(Requests, freeReq, o)
    <3>1. Frees(Requests, freeReq, c, k.servo, Requests', freeReq')
      BY <1>3, <2>1, <2>2, <2>4 DEF Frees
    <3>. QED  BY <1>3, <3>1, FreeUsed
  <2>6. /\ Exclusive(Responses', freeRsp')
        /\ \A o \in Objects : Named(Responses', freeRsp', o) => Named(Responses, freeRsp, o)
    <3>1. Frees(Responses, freeRsp, c, k.servo, Responses', freeRsp')
      BY <1>3, <2>1, <2>2, <2>4 DEF Frees
    <3>. QED  BY <1>3, <3>1, FreeUsed
  <2>7. PoolNext(Requests', freeReq', ReqFresh)  BY <1>5, <2>1, <2>3, <2>5
  <2>8. PoolNext(Responses', freeRsp', RspFresh)  BY <1>6, <2>1, <2>3, <2>6
  <2>. QED  BY <2>7, <2>8, PoolsNext
<1>22. CASE HandlePkgEnd(c)
  <2>1. /\ Touches(c) /\ r.st = "closed" /\ r.inQ = <<>> /\ SameObjects(k, r)
        /\ UNCHANGED <<freeReq, freeRsp>>
    BY <1>22, HandlePkgEndEffect DEF HandlePkgEnd
  <2>2. Onward(k, r, ReqFresh) /\ Onward(k, r, RspFresh)
    BY <2>1 DEF Onward, Serving, Calling
  <2>. QED  BY <1>9, <2>1, <2>2
<1>. QED
  BY <1>10, <1>11, <1>12, <1>13, <1>14, <1>15, <1>16, <1>17, <1>18, <1>19, <1>20, <1>21, <1>22
  DEF ServeStep

\* Steps that change only the packages in transit to the server, the stage
\* outside the service of a package, and the client.
LEMMA PastSteps ==
  ASSUME ConnInv, ObjectsInv, NEW c \in Conns, Touches(c), TouchesClient(c),
         SameObjects(conn[c], conn'[c]), UNCHANGED <<freeReq, freeRsp>>,
         \A f \in {ReqFresh, RspFresh}, id \in 1 .. MaxReqs :
           Past(conn[c], cl[c], id, f) => Past(conn'[c], cl'[c], id, f)
  PROVE  ObjectsInv'
<1>1. Requests' = Requests /\ Responses' = Responses  BY UsedChanges DEF SameObjects
<1>2. PoolInv(Requests, freeReq, ReqFresh) /\ PoolInv(Responses, freeRsp, RspFresh)
      /\ Exclusive(Requests, freeReq) /\ Exclusive(Responses, freeRsp)
  BY DEF ObjectsInv, PoolInv, ReqFresh, RspFresh
<1>3. PoolNext(Requests', freeReq', ReqFresh)  BY <1>1, <1>2, PoolChanges
<1>4. PoolNext(Responses', freeRsp', RspFresh)  BY <1>1, <1>2, PoolChanges
<1>. QED  BY <1>3, <1>4, PoolsNext

\* The steps of a client.
LEMMA PeerKeepsObjects ==
  ASSUME LifeTypes, ConnInv, ObjectsInv, NEW c \in Conns, PeerStep(c)
  PROVE  ObjectsInv'
<1> DEFINE k == conn[c]
           r == conn'[c]
           m == cl[c]
           w == cl'[c]
<1>1. UNCHANGED <<freeReq, freeRsp>>  BY DEF PeerStep
<1>2. k \in Connection /\ m \in Client  BY DEF ConnInv
<1>3. m.sent \in Nat /\ k.inQ \in Seq(Package)
  <2>1. m.sent \in 0 .. MaxReqs /\ MaxReqs \in Nat  BY <1>2, ClientFields, ServerAssumption
  <2>. QED  BY <1>2, <2>1, ConnFields
<1>4. RspFresh \subseteq Serving /\ ReqFresh \subseteq Serving  BY DEF ReqFresh, RspFresh, Serving, Calling
<1>5. SUFFICES ASSUME NEW f \in {ReqFresh, RspFresh}, NEW id \in 1 .. MaxReqs, Past(k, m, id, f)
               PROVE  Touches(c) /\ TouchesClient(c) /\ SameObjects(k, r) /\ Past(r, w, id, f)
  <2>1. Touches(c) /\ TouchesClient(c) /\ SameObjects(k, r)
    BY DialEffect, SendEffect, ClientRecvEffect, CloseEffect DEF PeerStep
  <2>. QED  BY <1>1, <1>5, <2>1, PastSteps
<1>6. CASE Dial(c)
  <2>1. /\ Touches(c) /\ TouchesClient(c) /\ m.st = "none" /\ w.sent = m.sent
        /\ r.st = "dialled" /\ SameTransit(k, r) /\ SameObjects(k, r)
    BY <1>6, DialEffect
  <2> HIDE DEF k, r, m, w
  <2>. QED  BY <1>4, <1>5, <2>1 DEF Past, SameTransit, Serving, Calling
<1>7. CASE Send(c)
  <2>1. /\ Touches(c) /\ TouchesClient(c) /\ SameObjects(k, r)
        /\ m.st = "idle" /\ w.sent = m.sent + 1 /\ r.st = k.st /\ r.cur = k.cur
    BY <1>7, SendEffect
  <2>2. PICK p \in Package : p.id = m.sent + 1 /\ r.inQ = Append(k.inQ, p)
    BY <1>7, SendEffect
  <2> HIDE DEF k, r, m, w
  <2>3. /\ Len(k.inQ) \in Nat /\ Len(r.inQ) = Len(k.inQ) + 1 /\ r.inQ[Len(k.inQ) + 1] = p
        /\ \A x \in 1 .. Len(k.inQ) : r.inQ[x] = k.inQ[x]
    BY <1>3, <2>2, AppendFacts
  <2>4. id \in Nat /\ id <= m.sent /\ id < m.sent + 1 /\ id <= w.sent
    BY <1>3, <1>5, <2>1, ServerAssumption DEF Past
  <2>5. ASSUME NEW x \in 1 .. Len(r.inQ) PROVE id < r.inQ[x].id
    <3>1. CASE x \in 1 .. Len(k.inQ)  BY <1>5, <2>3, <3>1 DEF Past
    <3>2. CASE x = Len(k.inQ) + 1  BY <2>2, <2>3, <2>4, <3>2
    <3>. QED  BY <2>3, <3>1, <3>2
  <2>. QED  BY <1>5, <2>1, <2>4, <2>5 DEF Past
<1>8. CASE ClientRecv(c)
  <2>1. /\ Touches(c) /\ TouchesClient(c) /\ SameObjects(k, r)
        /\ m.st \in Active /\ w.sent = m.sent /\ r.st = k.st /\ r.inQ = k.inQ /\ r.cur = k.cur
    BY <1>8, ClientRecvEffect
  <2> HIDE DEF k, r, m, w
  <2>. QED  BY <1>5, <2>1 DEF Past, Active
<1>9. CASE Close(c)
  <2>1. /\ Touches(c) /\ TouchesClient(c) /\ SameObjects(k, r)
        /\ w.st = "closed" /\ r.st = k.st /\ r.inQ = k.inQ /\ r.cur = k.cur
    BY <1>9, CloseEffect
  <2> HIDE DEF k, r, m, w
  <2>. QED  BY <1>5, <2>1 DEF Past
<1>. QED  BY <1>6, <1>7, <1>8, <1>9 DEF PeerStep

\* No connection changes its objects.
LEMMA ObjectsStay ==
  ASSUME ObjectsInv, conn' = conn, cl' = cl, UNCHANGED <<freeReq, freeRsp>>
  PROVE  ObjectsInv'
<1>1. Requests' = Requests /\ Responses' = Responses  BY DEF Requests, Responses
<1>2. PoolNext(Requests', freeReq', ReqFresh) /\ PoolNext(Responses', freeRsp', RspFresh)
  BY <1>1 DEF ObjectsInv, PoolInv, PoolNext, ReqFresh, RspFresh
<1>. QED  BY <1>2, PoolsNext

\* The steps of Start, Stop and the listeners.
LEMMA LifeKeepsObjects ==
  ASSUME ConnInv, ObjectsInv, LifeNext
  PROVE  ObjectsInv'
<1>1. cl' = cl /\ UNCHANGED <<freeReq, freeRsp>>  BY DEF LifeNext, LifeFrame
<1>2. ASSUME NEW a \in Addrs, Accept(a) PROVE ObjectsInv'
  <2>1. PICK c \in Conns :
           /\ Touches(c) /\ conn'[c].st = "accepted"
           /\ SameTransit(conn[c], conn'[c]) /\ SameObjects(conn[c], conn'[c])
    BY <1>2, AcceptEffect
  <2>2. TouchesClient(c) /\ cl'[c] = cl[c]  BY <1>1 DEF TouchesClient, ConnInv
  <2>3. ASSUME NEW f \in {ReqFresh, RspFresh}, NEW id \in 1 .. MaxReqs,
               Past(conn[c], cl[c], id, f)
        PROVE  Past(conn'[c], cl'[c], id, f)
    BY <2>1, <2>2, <2>3 DEF Past, SameTransit, Serving, Calling, ReqFresh, RspFresh
  <2>. QED  BY <1>1, <2>1, <2>2, <2>3, PastSteps
<1>3. ASSUME NEW a \in Addrs, CloseListener(a) PROVE ObjectsInv'
  <2>1. \A c \in Conns :
          /\ conn'[c].req = conn[c].req /\ conn'[c].resp = conn[c].resp
          /\ \/ conn'[c] = conn[c]
             \/ conn'[c].st = "closed" /\ conn'[c].inQ = conn[c].inQ
    BY <1>3, CloseListenerEffect DEF SameObjects, SameTransit
  <2>2. Requests' = Requests /\ Responses' = Responses
    <3>1. Requests' = [d \in Conns |-> conn'[d].req] /\ Responses' = [d \in Conns |-> conn'[d].resp]
      BY DEF Requests, Responses
    <3>. QED  BY <2>1, <3>1 DEF Requests, Responses
  <2>3. ASSUME NEW c \in Conns, NEW f \in {ReqFresh, RspFresh}, NEW id \in 1 .. MaxReqs,
               Past(conn[c], cl[c], id, f)
        PROVE  Past(conn'[c], cl'[c], id, f)
    BY <1>1, <2>1, <2>3 DEF Past, Serving, Calling, ReqFresh, RspFresh
  <2>4. PoolNext(Requests', freeReq', ReqFresh) /\ PoolNext(Responses', freeRsp', RspFresh)
    <3>1. PoolInv(Requests, freeReq, ReqFresh) /\ PoolInv(Responses, freeRsp, RspFresh)
      BY DEF ObjectsInv, ReqFresh, RspFresh
    <3>. QED  BY <1>1, <2>2, <2>3, <3>1 DEF PoolInv, PoolNext
  <2>. QED  BY <2>4, PoolsNext
<1>4. CASE StartListen \/ StartSpawn \/ StopBegin \/ StopWait \/ StopEnd
           \/ \E a \in Addrs : AcceptBegin(a) \/ acquire(a) \/ AcceptError(a)
  <2>1. conn' = conn
    BY <1>4 DEF StartListen, StartSpawn, StopBegin, StopWait, StopEnd, AcceptBegin, acquire, AcceptError
  <2>. QED  BY <1>1, <2>1, ObjectsStay
<1>. QED  BY <1>2, <1>3, <1>4 DEF LifeNext

\* Every step.
LEMMA StepObjects ==
  ASSUME ServerInv, ObjectsInv, [Next]_vars
  PROVE  ObjectsInv'
<1> USE DEF ServerInv
<1>1. CASE UNCHANGED vars \/ HandleNext \/ HandlePanic
  <2>1. conn' = conn /\ cl' = cl /\ UNCHANGED <<freeReq, freeRsp>>
    BY <1>1 DEF vars, HandleNext, HandlePanic
  <2>. QED  BY <2>1, ObjectsStay
<1>2. CASE LifeNext  BY <1>2, LifeKeepsObjects
<1>3. ASSUME NEW c \in Conns, ServeStep(c) PROVE ObjectsInv'
  <2>1. CallableInv  BY DEF HandleInv
  <2>. QED  BY <1>3, <2>1, ServeKeepsObjects
<1>4. ASSUME NEW c \in Conns, PeerStep(c) PROVE ObjectsInv'  BY <1>4, PeerKeepsObjects
<1>. QED  BY <1>1, <1>2, <1>3, <1>4 DEF Next

\* getRequest, freeRequest, getResponse, freeRsponse: no object is used by two
\* connections at a time, or lies in a free list while it is used, or twice.
THEOREM ObjectsOwned == Spec => []ObjectsExclusive
<1>1. Init => ObjectsInv
  <2> SUFFICES ASSUME Init PROVE ObjectsInv
    OBVIOUS
  <2>1. /\ \A c \in Conns : conn[c].req = None /\ conn[c].resp = None
        /\ \A a \in Addrs : freeReq[a] = <<>> /\ freeRsp[a] = <<>>
    BY DEF Init
  <2>2. \A a \in Addrs : 1 .. Len(freeReq[a]) = {} /\ 1 .. Len(freeRsp[a]) = {}
    BY <2>1
  <2>3. Exclusive(Requests, freeReq) /\ Exclusive(Responses, freeRsp)
    BY <2>1, <2>2 DEF Exclusive, Requests, Responses
  <2>4. \A d \in Conns, id \in 1 .. MaxReqs : <<d, id>> # None
    BY NoneFacts DEF Objects
  <2>5. \A d \in Conns, id \in 1 .. MaxReqs :
          ~Named(Requests, freeReq, <<d, id>>) /\ ~Named(Responses, freeRsp, <<d, id>>)
    BY <2>1, <2>2, <2>4 DEF Named, Requests, Responses
  <2>. QED  BY <2>3, <2>5 DEF ObjectsInv, PoolInv
<1>2. ObjectsInv => ObjectsExclusive
  BY DEF ObjectsInv, PoolInv, ObjectsExclusive, Requests, Responses
<1>. QED  BY <1>1, <1>2, StepObjects, ServerInvariant, PTL DEF Spec
=============================================================================
