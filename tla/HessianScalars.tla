--------------------------- MODULE HessianScalars ---------------------------
(***************************************************************************)
(* The hessian serialization, what of it is not recursive: bytes, numbers  *)
(* and other scalars, the lengths of texts, and the registry of POJOs.     *)
(* Sources: codec/hessian/{encode,decode,pojo,codec,const}.go.             *)
(*                                                                         *)
(* A value is a record [k, n, s]: its kind; a number; the values in it.    *)
(* A double n stands for n / 2, so odd ones are not integral.  A name, and *)
(* any text, is told by its length.  Numbers are bounded by the 32 bits of *)
(* TLC, also those of the 64-bit types.                                    *)
(***************************************************************************)
EXTENDS Integers, Sequences, SequencesExt

CONSTANT Types   \* the Go types: <<[go, java, fields, kinds], ..>>: names of the
                 \*   type, its Java class and its fields, and the fields' kinds;
                 \*   the kinds of a Java enum are <<"enum">>.  Fields for lists
                 \*   and maps are of type []interface{} and
                 \*   map[interface{}]interface{}; keys of maps are strings

Leaf(k, n) == [k |-> k, n |-> n, s |-> <<>>]
Node(k, n, s) == [k |-> k, n |-> n, s |-> s]
Null == Leaf("null", 0)
IsEnum(t) == Types[t].kinds = <<"enum">>
NameField == 4     \* "name"

\* The kinds of values that are neither text nor made of values.
ScalarKinds == {"null", "bool", "int", "long", "date", "double"}

CHUNK_SIZE == 4096
MaxInt == 2147483647
MINUTE == 60000     \* milliseconds
Between(v, low, high) == low <= v /\ v <= high

\* The Go names of types are theirs alone; a Java enum has one field.
ASSUME TypesAssumption ==
  /\ \A t, u \in DOMAIN Types : Types[t].go = Types[u].go => t = u
  /\ \A t \in DOMAIN Types : IsEnum(t) => Types[t].fields = <<NameField>>

(***************************************************************************)
(* Bytes.  Octet(v, x) is byte(v >> 8x) of a signed number.                *)
(***************************************************************************)
Shift(x) == CASE x = 0 -> 1 [] x = 1 -> 256 [] x = 2 -> 65536 [] OTHER -> 16777216
Octet(v, x) ==
  IF x > 3 THEN (IF v < 0 THEN 255 ELSE 0) ELSE (v \div Shift(x)) % 256
Octets(v, w) == [x \in 1 .. w |-> Octet(v, w - x)]

\* v is a signed number of w bytes.
Fits(v, w) == Between(v, -(Shift(w) \div 2), (Shift(w) \div 2) - 1)

\* A tag and the last w bytes of a number.
Tagged(tag, v, w) == [x \in 1 .. w + 1 |-> IF x = 1 THEN tag ELSE Octet(v, w + 1 - x)]

\* The numbers that bytes stand for: one or two without a sign, four with one.
Unsigned(s) == IF Len(s) = 1 THEN s[1] ELSE s[1] * 256 + s[2]
Signed(s) ==
  (IF s[1] > 127 THEN s[1] - 256 ELSE s[1]) * 16777216 + s[2] * 65536 + s[3] * 256 + s[4]

(***************************************************************************)
(* The registry of POJOs: list, the class definitions; j2g, from Java to   *)
(* Go names; reg, from Go names to the type and its index in list.         *)
(***************************************************************************)
NoPOJO == [list |-> <<>>, j2g |-> <<>>, reg |-> <<>>]

\* Mutant: the type is entered under the name that is looked for.
RegisterByJava(t, fields, p) ==
  LET T == Types[t] IN
    IF T.java \in DOMAIN p.reg
      THEN [index |-> -1, p |-> p]
      ELSE [index |-> Len(p.list),
            p |-> [list |-> Append(p.list, [java |-> T.java, fields |-> fields]),
                   j2g |-> [x \in DOMAIN p.j2g \cup {T.java} |->
                              IF x = T.java THEN T.go ELSE p.j2g[x]],
                   reg |-> [x \in DOMAIN p.reg \cup {T.java} |->
                              IF x = T.java THEN [type |-> t, index |-> Len(p.list)]
                                            ELSE p.reg[x]]]]

\* Registered already is what has this *Java* name as its Go name.
Register(t, fields, p) ==
  LET T == Types[t] IN
    IF T.java \in DOMAIN p.reg
      THEN [index |-> -1, p |-> p]
      ELSE [index |-> Len(p.list),
            p |-> [list |-> Append(p.list, [java |-> T.java, fields |-> fields]),
                   j2g |-> [x \in DOMAIN p.j2g \cup {T.java} |->
                              IF x = T.java THEN T.go ELSE p.j2g[x]],
                   reg |-> [x \in DOMAIN p.reg \cup {T.go} |->
                              IF x = T.go THEN [type |-> t, index |-> Len(p.list)]
                                          ELSE p.reg[x]]]]

RegisterPOJO(t, p) == Register(t, Types[t].fields, p)
RegisterJavaEnum(t, p) == Register(t, <<NameField>>, p)
Registered(t, p) == (IF IsEnum(t) THEN RegisterJavaEnum(t, p) ELSE RegisterPOJO(t, p)).p

\* The type to decode a Java class into.
Known(java, p) == java \in DOMAIN p.j2g
getStructInfo(java, p) == p.reg[p.j2g[java]].type

(***************************************************************************)
(* The encoder.                                                            *)
(***************************************************************************)
INT_DIRECT_MIN == -16
INT_DIRECT_MAX == 47
INT_BYTE_MIN == -2048
INT_BYTE_MAX == 2047
INT_SHORT_MIN == -262144
INT_SHORT_MAX == 262143
LONG_DIRECT_MIN == -8
LONG_DIRECT_MAX == 15

encInt32(v) ==
  IF Between(v, INT_DIRECT_MIN, INT_DIRECT_MAX) THEN Tagged(Octet(v + 144, 0), v, 0)
  ELSE IF Between(v, INT_BYTE_MIN, INT_BYTE_MAX) THEN Tagged(Octet(200 + (v \div Shift(1)), 0), v, 1)
  ELSE IF Between(v, INT_SHORT_MIN, INT_SHORT_MAX) THEN Tagged(Octet(212 + (v \div Shift(2)), 0), v, 2)
  ELSE Tagged(73, v, 4)

\* The limits of a byte and a short are those of ints.  No number is >= 0x80000000
\* and <= 0x7fffffff: the form x59 is never written.
encInt64(v) ==
  IF Between(v, LONG_DIRECT_MIN, LONG_DIRECT_MAX) THEN Tagged(Octet(v + 224, 0), v, 0)
  ELSE IF Between(v, INT_BYTE_MIN, INT_BYTE_MAX) THEN Tagged(Octet(248 + (v \div Shift(1)), 0), v, 1)
  ELSE IF Between(v, INT_SHORT_MIN, INT_SHORT_MAX) THEN Tagged(Octet(60 + (v \div Shift(2)), 0), v, 2)
  ELSE Tagged(76, v, 8)

encDateInMs(ms) == Tagged(74, ms, 8)

\* A short is written with the tag of a byte.
encFloat(n) ==
  LET iv == n \div 2 IN
    IF n % 2 = 1 \/ ~Fits(iv, 2) THEN Tagged(68, n, 8)
    ELSE IF iv \in {0, 1} THEN Tagged(91 + iv, iv, 0)
    ELSE IF Fits(iv, 1) THEN Tagged(93, iv, 1)
    ELSE Tagged(93, iv, 2)

EncodeScalar(v) ==
  CASE v.k = "null"   -> Tagged(78, 0, 0)
    [] v.k = "bool"   -> Tagged(IF v.n = 1 THEN 84 ELSE 70, v.n, 0)
    [] v.k = "int"    -> encInt32(v.n)
    [] v.k = "long"   -> encInt64(v.n)
    [] v.k = "date"   -> encDateInMs(v.n)
    [] v.k = "double" -> encFloat(v.n)

(***************************************************************************)
(* The decoder, over the bytes b: d is [pos, cls, refs, met, p], the bytes *)
(* read, the class definitions read, what appendRefs was called with, the  *)
(* number of lists, maps and objects met, and the registry.  A list, map   *)
(* or object is told in refs by its number.  Results are [st, v, d] with   *)
(* st "ok", "eof", "err" or "panic".                                       *)
(***************************************************************************)
NewDecoder(p) == [pos |-> 0, cls |-> <<>>, refs |-> <<>>, met |-> 0, p |-> p]

Ok(v, d) == [st |-> "ok", v |-> v, d |-> d]
Bad(st, d) == [st |-> st, v |-> Null, d |-> d]

\* What is done with a result unless it is an error.
Bind(r, F(_)) == IF r.st = "ok" THEN F(r) ELSE r

\* l bytes.
Take(b, d, l) ==
  IF d.pos + l <= Len(b) THEN Ok(SubSeq(b, d.pos + 1, d.pos + l), [d EXCEPT !.pos = @ + l])
                         ELSE Bad("err", [d EXCEPT !.pos = Len(b)])

\* readByte: the tag is 0 at the end.
Tag(b, d) == IF d.pos < Len(b) THEN b[d.pos + 1] ELSE 0
Skip(b, d) == IF d.pos < Len(b) THEN [d EXCEPT !.pos = @ + 1] ELSE d
AtEnd(b, d) == d.pos >= Len(b)

\* The difference of two bytes is a byte: it is never negative.
Diff(tag, zero) == (tag - zero) % 256

\* A number of one or two bytes, below those that the tag has.
Number(k, b, d, w, high) ==
  Bind(Take(b, d, w), LAMBDA t : Ok(Leaf(k, high * Shift(w) + Unsigned(t.v)), t.d))

Word(k, b, d) == Bind(Take(b, d, 4), LAMBDA t : Ok(Leaf(k, Signed(t.v)), t.d))

Long(k, b, d) ==
  Bind(Take(b, d, 8), LAMBDA t :
    IF SubSeq(t.v, 1, 4) = Octets(IF t.v[5] > 127 THEN -1 ELSE 0, 4)
      THEN Ok(Leaf(k, Signed(SubSeq(t.v, 5, 8))), t.d)
      ELSE Ok(Leaf("large", 0), t.d))

decInt32(b, d, tag) ==
  CASE Between(tag, 128, 191) -> Ok(Leaf("int", Diff(tag, 144)), d)
    [] Between(tag, 192, 207) -> Number("int", b, d, 1, Diff(tag, 200))
    [] Between(tag, 208, 215) -> Number("int", b, d, 2, Diff(tag, 212))
    [] tag = 73               -> Word("int", b, d)
    [] OTHER                  -> Bad("err", d)

As(k, r) == Bind(r, LAMBDA x : Ok(Leaf(k, x.v.n), x.d))
Scaled(r, f) ==
  Bind(r, LAMBDA x : IF Between(x.v.n, -(MaxInt \div f), MaxInt \div f)
                       THEN Ok(Leaf(x.v.k, x.v.n * f), x.d) ELSE Ok(Leaf("large", x.v.n), x.d))

decInt64(b, d, tag) ==
  CASE tag \in {78, 70, 91}     -> Ok(Leaf("long", 0), d)
    [] tag \in {84, 92}         -> Ok(Leaf("long", 1), d)
    [] Between(tag, 128, 215)   -> As("long", decInt32(b, d, tag))
    [] tag = 93                 -> Ok(Leaf("long", Tag(b, d)), Skip(b, d))
    [] tag = 94                 -> Number("long", b, d, 2, 0)
    [] tag \in {73, 89, 95}     -> As("long", decInt32(b, Skip(b, d), Tag(b, d)))
    [] Between(tag, 216, 239)   -> Ok(Leaf("long", Diff(tag, 224)), d)
    [] Between(tag, 240, 255)   -> Number("long", b, d, 1, Diff(tag, 248))
    [] Between(tag, 56, 63)     -> Number("long", b, d, 2, Diff(tag, 60))
    [] tag = 76                 -> Long("long", b, d)
    [] OTHER                    -> Bad("err", d)

\* The bytes are taken from the reader's buffer of 4096 bytes, in one go.
decDate(b, d, tag) ==
  LET w == IF tag = 74 THEN 8 ELSE 4 IN
    IF tag \notin {74, 75} THEN Bad("err", d)
    ELSE IF AtEnd(b, d) THEN Bad("eof", d)
    ELSE IF (d.pos % CHUNK_SIZE) + w > CHUNK_SIZE THEN Bad("err", d)
    ELSE IF tag = 74 THEN Long("date", b, d) ELSE Scaled(Word("date", b, d), MINUTE)

\* After x5f the error of decInt32 is not looked at.
decDouble(b, d, tag) ==
  LET mill == decInt32(b, Skip(b, d), Tag(b, d)) IN
    CASE tag \in {91, 92} -> Ok(Leaf("double", 2 * (tag - 91)), d)
      [] tag = 93 -> Ok(Leaf("double", 2 * Tag(b, d)), Skip(b, d))
      [] tag = 94 -> Scaled(Number("double", b, d, 2, 0), 2)
      [] tag = 95 -> Scaled(As("double", Ok(mill.v, mill.d)), 2)
      [] tag = 68 -> Long("double", b, d)
      [] tag = 89 -> mill
      [] OTHER    -> Bad("err", d)

\* Mutant: the high bits of a length of two bytes are dropped.
getStringLengthByte(b, d, tag) ==
  CASE Between(tag, 0, 31)   -> Ok(Leaf("len", tag), d)
    [] Between(tag, 48, 51)  -> Number("len", b, d, 1, 0)
    [] tag \in {82, 83}      -> Number("len", b, d, 2, 0)
    [] OTHER                 -> Bad("err", d)

getStringLength(b, d, tag) ==
  CASE Between(tag, 0, 31)   -> Ok(Leaf("len", tag), d)
    [] Between(tag, 48, 51)  -> Number("len", b, d, 1, tag - 48)
    [] tag \in {82, 83}      -> Number("len", b, d, 2, 0)
    [] OTHER                 -> Bad("err", d)

getBinaryLength(b, d, tag) ==
  CASE Between(tag, 32, 47)  -> Ok(Leaf("len", tag - 32), d)
    [] Between(tag, 52, 55)  -> Number("len", b, d, 1, tag - 52)
    [] tag \in {65, 66}      -> Number("len", b, d, 2, 0)
    [] OTHER                 -> Bad("err", d)

\* The tags after which Decode reads a scalar.
NullTag(tag) == tag \in {90, 78}
BoolTag(tag) == tag \in {84, 70}
IntTag(tag) == Between(tag, 128, 215) \/ tag = 73
LongTag(tag) == Between(tag, 216, 255) \/ Between(tag, 56, 63) \/ tag \in {89, 76}
DateTag(tag) == tag \in {74, 75}
DoubleTag(tag) == Between(tag, 91, 95) \/ tag = 68
ScalarTag(tag) ==
  NullTag(tag) \/ BoolTag(tag) \/ IntTag(tag) \/ LongTag(tag) \/ DateTag(tag) \/ DoubleTag(tag)

DecodeScalar(b, d, tag) ==
  CASE NullTag(tag)   -> Ok(Null, d)
    [] BoolTag(tag)   -> Ok(Leaf("bool", IF tag = 84 THEN 1 ELSE 0), d)
    [] IntTag(tag)    -> decInt32(b, d, tag)
    [] LongTag(tag)   -> decInt64(b, d, tag)
    [] DateTag(tag)   -> decDate(b, d, tag)
    [] DoubleTag(tag) -> decDouble(b, d, tag)
=============================================================================
