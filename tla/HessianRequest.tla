--------------------------- MODULE HessianRequest ---------------------------
(***************************************************************************)
(* The serialization that the codec of HessianCodec uses, and what its     *)
(* requests are: packRequest of codec/hessian/request.go.                  *)
(***************************************************************************)
EXTENDS HessianCodec, HessianGrammar

\* An error of Encode is not looked at, so that what was written of the value
\* stays.
packRequest(args, p) ==
  FoldLeft(LAMBDA e, v : IF e.st = "panic" THEN e
                         ELSE LET r == Encode(v, e) IN
                                IF r.st = "err" THEN [r EXCEPT !.st = "ok"] ELSE r,
           [st |-> "ok", b |-> <<>>, cls |-> <<>>, p |-> p], args)

\* Forms and meaning of a value that is an answer.
TopForms(v, p) == Forms(v, "any", NewWriter(p))
TopMeaning(v) == Meaning(v, "any")

\* What encode.go can write of a value: not an empty map, an empty binary, a whole
\* double of more than a byte and at most a short, an enum, a number of a Go type
\* that has no case, or an object of a type that cannot be registered because its
\* Java class has the name of a Go type.
RECURSIVE Writable(_)
Writable(v) ==
  /\ v.k \notin {"enum", "byte"}
  /\ v.k = "map" => v.s # <<>>
  /\ v.k = "binary" => v.n # 0
  /\ v.k = "double" => WritableDouble(v.n)
  /\ v.k = "object" => Types[v.n].go \in DOMAIN pojo.reg
  /\ \A x \in DOMAIN v.s : Writable(v.s[x])

\* A request that is sent is one the other end reads as these arguments, if and
\* only if packRequest can write each of them: class definitions come once, before
\* the first object, texts are cut into chunks, numbers are in a form that is
\* theirs.  What cannot be written is sent all the same, as something else.
RequestInGrammar ==
  phase = "sent" =>
    ((\E f \in Series(req.args, Anywhere(req.args), {Form(<<>>, FALSE, NewWriter(pojo))}) :
        f.b = req.b)
     <=> \A x \in DOMAIN req.args : Writable(req.args[x]))
=============================================================================
