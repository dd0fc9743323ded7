--------------------------- MODULE HessianGrammar ---------------------------
(***************************************************************************)
(* What the bytes of a value may be: the grammar of hessian 2.0 as the     *)
(* comments of codec/hessian/{encode,decode}.go quote it, production by    *)
(* production ("# string: ::= x52 b1 b0 <utf8-data> string ..."), which is *)
(* what the other end of a connection writes and understands.  It is       *)
(* written apart from the encoder and the decoder, and they are checked    *)
(* against it.                                                             *)
(*                                                                         *)
(* A form of a value is [b, odd, w]: the bytes; whether the decoder of     *)
(* decode.go is known not to read them as this value; and where the writer *)
(* is after them, [cls, met, lost, p]: the class definitions, the number   *)
(* of lists, maps and objects, the first map that was in a field (0: none  *)
(* yet), and the registry of the reading end.  The decoder also fails for  *)
(* a binary chunk longer than 4096 bytes and a date across a multiple of   *)
(* 4096; no body that long is ever decoded (see ReadBody).                 *)
(***************************************************************************)
EXTENDS Hessian, HessianScalarForms

CONSTANT Cuts    \* the lengths tried for the first chunk of a text

NewWriter(p) == [cls |-> <<>>, met |-> 0, lost |-> 0, p |-> p]

Form(b, odd, w) == [b |-> b, odd |-> odd, w |-> w]
Then(f, g) == [b |-> f.b \o g.b, odd |-> f.odd \/ g.odd, w |-> g.w]

\* string ::= x52 b1 b0 <utf8-data> string | 'S' b1 b0 <utf8-data>
\*          | [x00-x1f] <utf8-data> | [x30-x33] b0 <utf8-data>;
\* binary likewise with x41, 'B', [x20-x2f], [x34-x37].
TextForms(n, more, last, direct, room, short) ==
  LET Heads(l) == {<<last>> \o Octets(l, 2)}
                    \cup (IF l < room THEN {<<direct + l>>} ELSE {})
                    \cup (IF l < 1024 THEN {<<short + (l \div 256), l % 256>>} ELSE {})
      Part(i, j) == SubSeq(Text(n), i, j)
  IN {h \o Part(1, n) : h \in Heads(n)}
       \cup UNION {{<<more>> \o Octets(c, 2) \o Part(1, c) \o h \o Part(c + 1, n)
                     : h \in Heads(n - c)} : c \in {x \in Cuts : x < n}}

StringForms(n) == TextForms(n, 82, 83, 0, 32, 48)
BinaryForms(n) == TextForms(n, 65, 66, 32, 16, 52)

\* The names of types and classes, and numbers of things, in their shortest form.
Name(n) == <<n>> \o Text(n)
Count(n) == <<144 + n>>
TypeName == Name(9)

\* list ::= x55 type value* 'Z' | 'V' type int value* | x57 value* 'Z'
\*        | x58 int value* | [x70-77] type value* | [x78-7f] value*.
ListForms(l) ==
  LET H(b, z, odd) == [b |-> b, z |-> z, odd |-> odd] IN
    {H(<<85>> \o TypeName, <<90>>, TRUE), H(<<87>>, <<90>>, TRUE),
     H(<<86>> \o TypeName \o Count(l), <<>>, FALSE), H(<<88>> \o Count(l), <<>>, FALSE)}
      \cup IF l > 7 THEN {} ELSE {H(<<112 + l>> \o TypeName, <<>>, FALSE),
                                  H(<<120 + l>>, <<>>, FALSE)}

\* map ::= 'M' type (value value)* 'Z' | 'H' (value value)* 'Z'.
MapForms(k) ==
  {[b |-> <<77>> \o TypeName, z |-> <<90>>, odd |-> k = "any"],
   [b |-> <<72>>, z |-> <<90>>, odd |-> FALSE]}

\* class-def ::= 'C' string int string*; the fields come in any order, and the
\* class may have one that the Go type has not.
Unknown == 13
Orders(t) == LET f == Types[t].fields IN {f, Reverse(f), Append(f, Unknown)}
Definition(java, names) ==
  <<67>> \o Name(java) \o Count(Len(names))
    \o FlattenSeq([x \in 1 .. Len(names) |-> Name(names[x])])

EnumType == CHOOSE t \in DOMAIN Types : IsEnum(t)

RECURSIVE Forms(_, _, _)

\* The values vs one after the other, each where its kind in ks is expected.
Series(vs, ks, fs) ==
  FoldLeft(LAMBDA acc, x : UNION {{Then(f, g) : g \in Forms(vs[x], ks[x], f.w)} : f \in acc},
           fs, [x \in 1 .. Len(vs) |-> x])

Anywhere(vs) == [x \in 1 .. Len(vs) |-> "any"]

\* Lists and maps: in a field of an object, a null in them is not read.
Enclosed(heads, vs, k, w) ==
  LET lost == k # "any" /\ Contains(vs, Null) IN
    UNION {{Then(f, Form(h.z, FALSE, f.w)) :
              f \in Series(vs, Anywhere(vs), {Form(h.b, h.odd \/ lost, w)})} : h \in heads}

\* object ::= x4f int value* | [x60-x6f] value*.
ObjectForms(t, vs, w) ==
  LET T == Types[t]
      at == SelectInSeq(w.cls, LAMBDA c : c.java = T.java)
      known == Known(T.java, w.p)
      Of(names, idx) ==
        LET slot(x) == SelectInSeq(T.fields, LAMBDA f : f = names[x])
            vals == [x \in 1 .. Len(names) |-> IF slot(x) = 0 THEN Leaf("int", 1) ELSE vs[slot(x)]]
            ks == [x \in 1 .. Len(names) |->
                     IF IsEnum(t) \/ slot(x) = 0 THEN "any" ELSE T.kinds[slot(x)]]
            odd == ~known \/ Contains(names, Unknown)
            v1 == [w EXCEPT !.met = @ + 1,
                            !.cls = IF at = 0 THEN Append(@, [java |-> T.java, fields |-> names])
                                              ELSE @]
            def == IF at = 0 THEN Definition(T.java, names) ELSE <<>>
        IN UNION {Series(vals, ks, {Form(def \o i, odd, v1)}) : i \in {<<79>> \o Count(idx), <<96 + idx>>}}
  IN IF at # 0 THEN Of(w.cls[at].fields, at - 1)
     ELSE UNION {Of(names, Len(w.cls)) : names \in Orders(t)}

\* No field takes a reference.
Forms(v, k, w) ==
  LET Here(fs) == {Form(f.b, f.odd, w) : f \in fs}
      inside == [w EXCEPT !.met = @ + 1, !.lost = IF @ = 0 /\ v.k = "map" /\ k # "any" THEN w.met + 1 ELSE @]
  IN CASE v.k \in ScalarKinds -> Here(ScalarForms(v, k))
       [] v.k = "string" -> {Form(b, FALSE, w) : b \in StringForms(v.n)}
       [] v.k = "binary" -> {Form(b, FALSE, w) : b \in BinaryForms(v.n)}
       [] v.k = "list"   -> Enclosed(ListForms(Len(v.s)), v.s, k, inside)
       [] v.k = "map"    -> Enclosed(MapForms(k), v.s, k, inside)
       [] v.k = "object" -> ObjectForms(v.n, v.s, w)
       [] v.k = "enum"   -> ObjectForms(EnumType, <<Leaf("string", v.n)>>, w)
       [] v.k = "ref"    -> {Form(<<81>> \o Count(v.n - 1),
                                  k # "any" \/ (w.lost # 0 /\ v.n >= w.lost), w)}
       [] OTHER          -> {}

\* What the decoder is expected to make of a value where kind k is expected.
RECURSIVE Meaning(_, _)
Meaning(v, k) ==
  IF v = Null /\ k \in {"long", "enum"} THEN Leaf(IF k = "enum" THEN "int" ELSE k, 0)
  ELSE IF k \in {"list", "map"} /\ (v = Null \/ (k = "list" /\ v.s = <<>>)) THEN Zero
  ELSE LET ks == IF v.k = "object" THEN Types[v.n].kinds ELSE Anywhere(v.s) IN
         [v EXCEPT !.s = [x \in DOMAIN v.s |-> Meaning(v.s[x], ks[x])]]
=============================================================================
