---------------------------- MODULE HessianCodec ----------------------------
(***************************************************************************)
(* A call over a connection of the dubbo protocol, as the client's codec   *)
(* sees it: packRequest writes the arguments, the other end answers with a *)
(* package in any form of the grammar, the network cuts the package into   *)
(* pieces, ReadHeader and ReadBody read it and ReflectResponse stores the  *)
(* value.  POJOs are registered before, by the program or by the encoder.  *)
(* Sources: codec/hessian/{hessian,request,response,pojo}.go,              *)
(* client/rpc_codec.go, transport/tcp_transport.go (client).               *)
(*                                                                         *)
(* What a package has besides, texts for the version, the path and the     *)
(* method, and the magic number, is the same in all calls and left out.    *)
(***************************************************************************)
EXTENDS HessianScalarForms

CONSTANTS
  Arguments,    \* the lists of arguments of the calls
  Answers(_),   \* the values the other end answers with, under a registry
  Pieces,       \* lengths of the first read, besides all that has come
  MaxClasses,   \* bound on the classes that are registered by the program
  MaxNew        \* bound on those that the encoder registers in a request

\* The serialization of values that are not scalars (see HessianRequest):
CONSTANTS
  Pack(_, _),          \* packRequest of the arguments, under a registry: [st, b, p]
  DecodeOther(_, _),   \* Decode, after the tag of a value that is not a scalar
  OtherForms(_, _),    \* the forms of a value, for a reader with a registry
  OtherMeaning(_),     \* what the decoder is expected to make of the value
  Registries           \* the registries that the program can make

HEADER_LENGTH == 16
BufferSize == 4096      \* of the codec's bufio.Reader, and of a read of the connection

VARIABLES
  pojo,   \* the registry of POJOs
  phase,  \* "idle", "sent", "answered", "body" (the header is read), "done"
  req,    \* the request: [args, st, b]
  rsp,    \* the package of the other end: [serial, status, type, v, form]
  net,    \* the number of its bytes that are still in the network
  buf,    \* the number of bytes that the codec's reader has
  first,  \* the number of bytes of the first read
  res     \* what the call returns: [st, want, got, read], with the type of the
          \*   result, what was decoded, and whether to the end of the body

vars == <<pojo, phase, req, rsp, net, buf, first, res>>

NoReq == [args |-> <<>>, st |-> "none", b |-> <<>>]
NoForm == [b |-> <<>>, odd |-> FALSE]
NoRsp == [serial |-> 0, status |-> 0, type |-> 0, v |-> Null, form |-> NoForm]
NoRes == [st |-> "none", want |-> [k |-> "none", n |-> 0], got |-> Null, read |-> FALSE]

Init ==
  /\ pojo = NoPOJO
  /\ phase = "idle"
  /\ req = NoReq
  /\ rsp = NoRsp
  /\ net = 0 /\ buf = 0 /\ first = 0
  /\ res = NoRes

(***************************************************************************)
(* Registration.                                                           *)
(***************************************************************************)
RegisterClass(t) ==
  /\ phase = "idle"
  /\ Len(pojo.list) < MaxClasses
  /\ pojo' = Registered(t, pojo)
  /\ UNCHANGED <<phase, req, rsp, net, buf, first, res>>

\* The registry after one type after the other was registered.
RegisterAll(ts, p) ==
  LET after[i \in 0 .. Len(ts)] ==
        IF i = 0 THEN p ELSE RegisterPOJO(ts[i], after[i - 1]).p
  IN after[Len(ts)]

ASSUME BoundsAssumption == MaxClasses \in Nat /\ MaxNew \in Nat

ASSUME RegistriesAssumption ==
  /\ NoPOJO \in Registries
  /\ \A p \in Registries, t \in DOMAIN Types :
       Len(p.list) < MaxClasses => Registered(t, p) \in Registries

\* All that packRequest does to the registry is to register types, and without
\* arguments it does nothing.
ASSUME PackAssumption ==
  \A p \in Registries :
    /\ Pack(<<>>, p).p = p
    /\ \A args \in Arguments :
         /\ Pack(args, p).st \in {"ok", "panic"}
         /\ \E ts \in SeqOf(DOMAIN Types, MaxNew) : Pack(args, p).p = RegisterAll(ts, p)

(***************************************************************************)
(* The request.  getArgsTypeList fails for a value of no known type, and   *)
(* nothing is written then.                                                *)
(***************************************************************************)
getArgType(v) == IF v.k \in {"enum", "uint"} THEN "" ELSE v.k

Write(args) ==
  LET typed == \A x \in DOMAIN args : getArgType(args[x]) # ""
      e == Pack(args, pojo)
  IN /\ phase = "idle"
     /\ req' = [args |-> args, st |-> IF typed THEN e.st ELSE "err",
                b |-> IF typed /\ e.st = "ok" THEN e.b ELSE <<>>]
     /\ pojo' = IF typed THEN e.p ELSE pojo
     /\ IF typed /\ e.st = "ok"
          THEN phase' = "sent" /\ UNCHANGED res
          ELSE phase' = "done" /\ res' = [res EXCEPT !.st = "err"]
     /\ UNCHANGED <<rsp, net, buf, first>>

(***************************************************************************)
(* The other end (external): a value, an exception (type 0) or no value    *)
(* (type 2), in any form; the serialization id is not zero in a package of *)
(* a right one.  Only a call without arguments is answered: the reading    *)
(* does not depend on them.                                                *)
(***************************************************************************)
OK == 20
SERVER_ERROR == 80

AnswerForms(v, p) == IF v.k \in ScalarKinds THEN ScalarForms(v, "any") ELSE OtherForms(v, p)
AnswerMeaning(v) == IF v.k \in ScalarKinds THEN v ELSE OtherMeaning(v)

ASSUME FormsAssumption ==
  \A p \in Registries : \A v \in Answers(p) :
    v.k \notin ScalarKinds => \A f \in OtherForms(v, p) : f.b \in Seq(0 .. 255)

Body(type, form) == <<144 + type>> \o (IF type = 2 THEN <<>> ELSE form.b)
BodyLen == Len(Body(rsp.type, rsp.form))

Package(serial, status, type, v, f) ==
  /\ rsp' = [serial |-> serial, status |-> status, type |-> type, v |-> v,
             form |-> [b |-> f.b, odd |-> f.odd]]
  /\ net' = HEADER_LENGTH + Len(Body(type, f))

Answer(v) ==
  /\ phase = "sent" /\ req.args = <<>>
  /\ \E f \in AnswerForms(v, pojo) : Package(2, OK, 1, v, f)
  /\ phase' = "answered"
  /\ UNCHANGED <<pojo, req, buf, first, res>>

AnswerNothing ==
  /\ phase = "sent" /\ req.args = <<>>
  /\ \E serial \in {0, 2}, status \in {OK, SERVER_ERROR}, type \in {0, 2} :
       Package(serial, status, type, Null, [b |-> <<78>>, odd |-> FALSE])
  /\ phase' = "answered"
  /\ UNCHANGED <<pojo, req, buf, first, res>>

(***************************************************************************)
(* Reading.  A read takes what has come, at most a buffer full; it fails   *)
(* when the connection ends or the time is up.                             *)
(***************************************************************************)
Least(m, n) == IF m < n THEN m ELSE n
Due == Least(net, BufferSize)

Return(st) == phase' = "done" /\ res' = [res EXCEPT !.st = st]

\* Mutant: the error of a read of the body is ignored.
RecvFailHeader ==
  /\ phase \in {"sent", "answered"}
  /\ Return("err")
  /\ UNCHANGED <<pojo, req, rsp, net, buf, first>>

RecvFail ==
  /\ phase \in {"sent", "answered"} \/ (phase = "body" /\ BodyLen > BufferSize)
  /\ Return("err")
  /\ UNCHANGED <<pojo, req, rsp, net, buf, first>>

\* Mutant: the error of Peek is ignored.
PeekAny(n) == n >= 0

\* Peek(n): all n bytes or an error.
Peek(n) == buf >= n

unpackResponseHeaer == rsp.serial # 0 /\ rsp.status = OK

\* ReadResponseHeader: a header that is short is an error, not one more read.
ReadHeader(n) ==
  /\ phase = "answered"
  /\ n \in 1 .. Due
  /\ net' = net - n
  /\ first' = n
  /\ IF n >= HEADER_LENGTH /\ unpackResponseHeaer
       THEN /\ phase' = "body"
            /\ buf' = n - HEADER_LENGTH
            /\ UNCHANGED res
       ELSE Return("err") /\ buf' = n
  /\ UNCHANGED <<pojo, req, rsp>>

\* What a decoded value can be stored in: [k, n], where n is the type of an
\* object or of the objects of a list.
ReflectResponse(v, want) ==
  CASE v.k = "null"   -> "err"
    [] v.k \in {"bool", "int", "long", "double", "string"} ->
         IF v.k = want.k THEN "ok" ELSE "panic"
    [] v.k = "object" -> IF want = [k |-> "object", n |-> v.n] THEN "ok" ELSE "panic"
    [] v.k = "binary" -> IF want.k # "binary" THEN "panic" ELSE IF v.n = 0 THEN "ok" ELSE "err"
    [] v.k = "list"   -> IF want.k # "list" THEN "panic"
                         ELSE IF v.s = <<>> THEN "ok"
                         ELSE IF want.n = 0 THEN "err"
                         ELSE IF \A x \in DOMAIN v.s : v.s[x].k = "object" /\ v.s[x].n = want.n
                           THEN "ok" ELSE "panic"
    [] v.k = "map"    -> IF want.k # "map" \/ Contains(v.s, Null) THEN "panic" ELSE "ok"
    [] OTHER          -> "panic"

DecodeValue(b, d) ==
  IF AtEnd(b, d) THEN Bad("eof", d)
  ELSE IF ScalarTag(Tag(b, d)) THEN DecodeScalar(b, Skip(b, d), Tag(b, d))
  ELSE DecodeOther(b, d)

\* The body: a type, then the value; bytes after it are not looked at.
Stored(r, want, end) ==
  [st |-> IF r.st = "ok" /\ ReflectResponse(r.v, want) = "ok" THEN "ok" ELSE "err",
   want |-> want, got |-> r.v, read |-> r.st = "ok" /\ r.d.pos = end]
Typed(type, b, want) ==
  IF type.v.n = 1 THEN Stored(DecodeValue(b, type.d), want, Len(b))
  ELSE [st |-> "err", want |-> want, got |-> Null, read |-> FALSE]
unpackResponseBody(b, want, p) == Typed(DecodeValue(b, NewDecoder(p)), b, want)

\* The results that callers ask for: of the kind of the answer, or an int.
Wanted(v) ==
  {[k |-> "int", n |-> 0],
   [k |-> v.k, n |-> IF v.k = "object" THEN v.n
                     ELSE IF v.k = "list" /\ v.s # <<>> /\ v.s[1].k = "object" THEN v.s[1].n
                     ELSE 0]}

\* A body longer than the buffer is never had: one more read follows, whatever
\* has come.
LeaveBody == phase = "body" /\ BodyLen <= BufferSize /\ phase' = "done"

ReadBody(want) ==
  /\ LeaveBody
  /\ res' = IF Peek(BodyLen) THEN unpackResponseBody(Body(rsp.type, rsp.form), want, pojo)
                             ELSE [res EXCEPT !.st = "err"]
  /\ UNCHANGED <<pojo, req, rsp, net, buf, first>>

ReadMore ==
  /\ phase = "body"
  /\ BodyLen > BufferSize
  /\ net > 0
  /\ net' = net - Due
  /\ buf' = Least(buf + Due, BufferSize)
  /\ UNCHANGED <<pojo, phase, req, rsp, first, res>>

Reading ==
  \/ \E n \in Pieces \cup {Due} : ReadHeader(n)
  \/ \E want \in Wanted(rsp.v) : ReadBody(want)
  \/ ReadMore
  \/ RecvFail

Terminated == phase = "done" /\ UNCHANGED vars

Next ==
  \/ \E t \in DOMAIN Types : RegisterClass(t)
  \/ \E args \in Arguments : Write(args)
  \/ \E v \in Answers(pojo) : Answer(v)
  \/ AnswerNothing
  \/ Reading
  \/ Terminated

\* A read of the connection ends: it has a deadline.  Only ReadBody leaves phase
\* "body" for a body that fits, and it does not wait for anything.
Spec == Init /\ [][Next]_vars /\ WF_vars(RecvFail) /\ WF_phase(LeaveBody)

(***************************************************************************)
(* Properties.                                                             *)
(***************************************************************************)
Phases == {"idle", "sent", "answered", "body", "done"}

\* Each Go type that is registered is found by its Java class, its index is that
\* of a definition of its class with its fields, and no class is known that has no
\* type.
RegistryOK(p) ==
  /\ \A g \in DOMAIN p.reg :
       LET T == Types[p.reg[g].type] IN
         /\ T.go = g /\ T.java \in DOMAIN p.j2g
         /\ p.reg[g].index \in 0 .. Len(p.list) - 1
         /\ p.list[p.reg[g].index + 1] = [java |-> T.java, fields |-> T.fields]
  /\ \A java \in DOMAIN p.j2g :
       p.j2g[java] \in DOMAIN p.reg /\ Types[getStructInfo(java, p)].java = java

\* The types, and the registry, however the program and the encoder came to
\* register the classes (pojo.go, RegisterPOJO).
TypeOK ==
  /\ phase \in Phases
  /\ req.st \in {"none", "ok", "err", "panic"} /\ res.st \in {"none", "ok", "err"}
  /\ net \in Nat /\ first \in 0 .. BufferSize /\ buf \in 0 .. BufferSize
  /\ RegistryOK(pojo)

\* The decoder reads a value of the other end for what it is, to its last byte, in
\* every form of the grammar but those that are known to be misread, and misreads
\* those: negative numbers in a compact form, x59 and x5f, lists of open length,
\* typed maps outside a field, fields the Go type has not or that are null, and
\* references after a map in a field (decode.go).
DecodeExact ==
  (phase = "done" /\ res.want.k # "none" /\ rsp.type = 1) =>
    ((res.read /\ res.got = AnswerMeaning(rsp.v)) <=> ~rsp.form.odd)

\* A call succeeds only with a value that the other end sent as a value, in a
\* package that came in one piece, and the value stored is the one sent or was
\* sent in a form that is misread (hessian.go, ReadBody; response.go).
ResponseWhole ==
  (phase = "done" /\ res.st = "ok") =>
    /\ rsp.serial # 0 /\ rsp.status = OK /\ rsp.type = 1
    /\ first = HEADER_LENGTH + BodyLen
    /\ res.want.k = res.got.k
    /\ rsp.form.odd \/ res.got = AnswerMeaning(rsp.v)

\* Every request that is sent ends, also when the answer has a body that never
\* fits the reader's buffer (rpc_codec.go, ReadResponseBody).
ReadEnds == phase = "sent" ~> phase = "done"
=============================================================================
