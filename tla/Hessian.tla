------------------------------- MODULE Hessian -------------------------------
(***************************************************************************)
(* The hessian serialization: the encoder and the decoder of texts and of  *)
(* values made of values, as operators on sequences of bytes.              *)
(* Sources: codec/hessian/{encode,decode,pojo}.go.                         *)
(***************************************************************************)
EXTENDS HessianScalars

Text(n) == [x \in 1 .. n |-> 97 + (x % 26)]

(***************************************************************************)
(* The encoder: e is [st, b, cls, p], with st "ok", "err" or "panic", the  *)
(* bytes, the class definitions written, and the registry.                 *)
(***************************************************************************)
\* Mutant: a text that fills a chunk is cut before the next one is begun.
ChunksEarly(tag, n) ==
  FlattenSeq([x \in 1 .. n \div CHUNK_SIZE |->
    <<tag>> \o Octets(CHUNK_SIZE, 2)
      \o SubSeq(Text(n), (x - 1) * CHUNK_SIZE + 1, x * CHUNK_SIZE)])

\* The parts of a text of length n that are not the last one, and the last one.
Chunks(tag, n) ==
  FlattenSeq([x \in 1 .. (n - 1) \div CHUNK_SIZE |->
    <<tag>> \o Octets(CHUNK_SIZE, 2)
      \o SubSeq(Text(n), (x - 1) * CHUNK_SIZE + 1, x * CHUNK_SIZE)])
LastChunk(n) == SubSeq(Text(n), ((n - 1) \div CHUNK_SIZE) * CHUNK_SIZE + 1, n)

encString(n) ==
  LET l == Len(LastChunk(n))
      head == IF l <= 31 THEN <<l>>
              ELSE IF l <= 1023 THEN <<48 + (l \div 256), Octet(l, 0)>>
              ELSE <<83>> \o Octets(l, 2)
  IN IF n = 0 THEN <<0>> ELSE Chunks(82, n) \o head \o LastChunk(n)

encBinary(n) ==
  LET l == Len(LastChunk(n))
      head == IF l <= 15 THEN <<32 + l>>
              ELSE IF l <= 1023 THEN <<52 + (l \div 256), Octet(l, 0)>>
              ELSE <<66>> \o Octets(l, 2)
  IN IF n = 0 THEN <<78>> ELSE Chunks(65, n) \o head \o LastChunk(n)

ClassDef(c) ==
  <<67>> \o encString(c.java) \o encInt32(Len(c.fields))
    \o FlattenSeq([x \in 1 .. Len(c.fields) |-> encString(c.fields[x])])

Put(e, bytes) == [e EXCEPT !.b = @ \o bytes]

RECURSIVE Encode(_, _)
EncodeAll(s, e) ==
  FoldLeft(LAMBDA acc, v : IF acc.st = "ok" THEN Encode(v, acc) ELSE acc, e, s)

encUntypedList(s, e) == EncodeAll(s, Put(e, <<88>> \o encInt32(Len(s))))

\* Of an empty map nothing is written.
encMap(s, e) ==
  LET f == EncodeAll(s, Put(e, <<72>>)) IN
    IF s = <<>> THEN e ELSE IF f.st = "ok" THEN Put(f, <<90>>) ELSE f

\* The class definition comes before the first object of the class; a type
\* that is not registered yet is registered.
encStruct(v, e) ==
  LET T == Types[v.n]
      same == SelectInSeq(e.cls, LAMBDA c : c.java = T.java)
      r == IF T.go \in DOMAIN e.p.reg THEN [index |-> e.p.reg[T.go].index, p |-> e.p]
                                      ELSE RegisterPOJO(v.n, e.p)
      found == r.index # -1
      def == IF found THEN r.p.list[r.index + 1] ELSE [java |-> 0, fields |-> <<>>]
      f == IF same # 0 THEN e
           ELSE [Put(e, IF found THEN ClassDef(def) ELSE <<>>)
                   EXCEPT !.cls = Append(@, def), !.p = r.p]
      idx == IF same # 0 THEN same - 1 ELSE Len(e.cls)
  IN EncodeAll(v.s, Put(f, IF Octet(idx, 0) <= 15 THEN <<96 + Octet(idx, 0)>>
                                                  ELSE <<79>> \o encInt32(idx)))

\* int8 and int16 are taken for int32; enums, bytes and other unsigned
\* numbers have no case; pointers are taken for structs.
Encode(v, e) ==
  CASE v.k \in ScalarKinds -> Put(e, EncodeScalar(v))
    [] v.k = "string"  -> Put(e, encString(v.n))
    [] v.k = "binary"  -> Put(e, encBinary(v.n))
    [] v.k = "list"    -> encUntypedList(v.s, e)
    [] v.k = "map"     -> encMap(v.s, e)
    [] v.k = "object"  -> encStruct(v, e)
    [] v.k \in {"int8", "pointer"} -> [e EXCEPT !.st = "panic"]
    [] OTHER           -> [e EXCEPT !.st = "err"]

(***************************************************************************)
(* The decoder.                                                            *)
(***************************************************************************)
\* The errors that callers take for something else.
Strict(r) == IF r.st = "eof" THEN Bad("err", r.d) ELSE r
NullAtEof(r) == IF r.st = "eof" THEN Ok(Null, r.d) ELSE r
Lenient(r) == IF r.st = "panic" THEN r ELSE Ok(r.v, r.d)

Meet(d) == [d EXCEPT !.met = @ + 1]
appendRefs(d) == [d EXCEPT !.met = @ + 1, !.refs = Append(@, d.met + 1)]

\* A text of b: a known one is told by its length.
Told(k, s) == IF s = Text(Len(s)) THEN Leaf(k, Len(s)) ELSE Leaf("garbled", Len(s))

StringTags == (0 .. 31) \cup (48 .. 51) \cup {82, 83}

RECURSIVE StringChunks(_, _, _, _)
StringChunks(b, d, tag, acc) ==
  Bind(getStringLength(b, d, tag), LAMBDA g : Bind(Take(b, g.d, g.v.n), LAMBDA t :
    IF tag = 82 THEN StringChunks(b, Skip(b, t.d), Tag(b, t.d), acc \o t.v)
    ELSE Ok(Told("string", acc \o t.v), t.d)))

\* Other scalars are read as their text ("garbled": not a text of the model).
Garbled(r) == Bind(r, LAMBDA x : Ok(Leaf("garbled", 0), x.d))
decString(b, d, tag) ==
  CASE tag \in StringTags             -> StringChunks(b, d, tag, <<>>)
    [] tag \in {78, 84, 70, 91, 92}   -> Ok(Leaf("garbled", 0), d)
    [] tag \in {93, 94}               -> Garbled(decDouble(b, d, tag))
    [] tag \in (128 .. 255) \cup (56 .. 63) \cup {73, 76, 89} -> Garbled(decInt64(b, d, tag))
    [] OTHER                          -> Bad("err", d)

\* A chunk that is too long ends in a null value without an error.
RECURSIVE decBinary(_, _, _, _)
decBinary(b, d, tag, acc) ==
  Bind(getBinaryLength(b, d, tag), LAMBDA g :
    IF g.v.n > CHUNK_SIZE THEN Ok(Null, g.d)
    ELSE Bind(Take(b, g.d, g.v.n), LAMBDA t :
           IF tag = 65 THEN decBinary(b, Skip(b, t.d), Tag(b, t.d), acc \o t.v)
           ELSE Ok(Told("binary", acc \o t.v), t.d)))

RECURSIVE Decode(_, _)

\* size values, one after the other.
RECURSIVE DecodeN(_, _, _, _)
DecodeN(b, d, size, acc) ==
  IF size = 0 THEN Ok(Node("list", 0, acc), d)
  ELSE Bind(Strict(Decode(b, d)), LAMBDA r : DecodeN(b, r.d, size - 1, Append(acc, r.v)))

\* decType: the name of a type, or a number after a byte that is dropped.
decType(b, d) ==
  LET f == Skip(b, d) IN
    IF AtEnd(b, d) THEN Bad("err", d)
    ELSE IF Tag(b, d) \in StringTags THEN decString(b, f, Tag(b, d))
    ELSE Bind(decInt32(b, Skip(b, f), Tag(b, f)), LAMBDA r :
           IF r.v.n \in 0 .. Len(d.cls) - 1 /\ Known(d.cls[r.v.n + 1].java, d.p)
             THEN Ok(Leaf("string", Types[getStructInfo(d.cls[r.v.n + 1].java, d.p)].go), r.d)
             ELSE Bad("err", r.d))

\* Every list but the direct ones has its length read, also those that end
\* with 'Z'; the error of decType is not looked at.
ListSize(b, d, tag) ==
  CASE tag \in 112 .. 119 -> Ok(Leaf("int", tag - 112), d)
    [] tag \in 120 .. 127 -> Ok(Leaf("int", tag - 120), d)
    [] OTHER              -> decInt32(b, Skip(b, d), Tag(b, d))

decList(b, d, tag) ==
  IF tag \notin (112 .. 127) \cup (85 .. 88) THEN Bad("err", d)
  ELSE Bind(ListSize(b, IF tag \in (112 .. 119) \cup {85, 86} THEN decType(b, d).d ELSE d, tag),
    LAMBDA size :
      IF size.v.n < 0 THEN Bad("panic", d)
      ELSE Bind(DecodeN(b, appendRefs(size.d), size.v.n, <<>>), LAMBDA r :
             IF tag \in {85, 87} THEN [r EXCEPT !.d = Skip(b, @)] ELSE r))

\* Keys and values up to the byte end.
RECURSIVE Pairs(_, _, _, _)
Pairs(b, d, end, acc) ==
  LET done == Ok(Node("map", 0, acc), Skip(b, d))
      more(k) == Bind(Decode(b, k.d), LAMBDA v : Pairs(b, v.d, end, acc \o <<k.v, v.v>>))
      after(k) == IF k.st = "eof" THEN done ELSE Bind(k, more)
  IN IF AtEnd(b, d) THEN Bad("panic", d)
     ELSE IF Tag(b, d) = end THEN done
     ELSE after(Decode(b, d))

\* A map with a type: the end is taken for 'z', and unless the type is the
\* name of a Go type there is no instance to set a value in.
RECURSIVE Setters(_, _)
Setters(b, d) ==
  IF AtEnd(b, d) THEN Bad("panic", d)
  ELSE IF Tag(b, d) = 122 THEN Ok(Null, d)
  ELSE Bind(Decode(b, d), LAMBDA k : Bind(Decode(b, k.d), LAMBDA v :
         IF v.v # Null THEN Bad("panic", v.d) ELSE Setters(b, v.d)))

decMap(b, d, tag) ==
  IF tag = 72 THEN Pairs(b, appendRefs(d), 90, <<>>)
  ELSE Bind(decType(b, d), LAMBDA t :
         IF t.v.k = "string" /\ t.v.n \in DOMAIN d.p.reg
           THEN Pairs(b, appendRefs(t.d), 122, <<>>)
           ELSE Setters(b, appendRefs(t.d)))

\* A map in a field of an object: it ends with a null key, is not among the
\* references, errors of its values are ignored and null values left out.
RECURSIVE FieldPairs(_, _, _)
FieldPairs(b, d, acc) ==
  Bind(NullAtEof(Decode(b, d)), LAMBDA k :
    IF k.v = Null THEN Ok(Node("map", 0, acc), k.d)
    ELSE Bind(Lenient(Decode(b, k.d)), LAMBDA v :
           FieldPairs(b, v.d, IF v.v = Null THEN acc ELSE acc \o <<k.v, v.v>>)))

decMapByValue(b, d) ==
  LET f == Skip(b, d) IN
    CASE Tag(b, d) = 77 -> FieldPairs(b, Meet(decString(b, Skip(b, f), Tag(b, f)).d), <<>>)
      [] Tag(b, d) = 72 -> FieldPairs(b, Meet(f), <<>>)
      [] OTHER          -> Bad("err", f)

Zero == Leaf("zero", 0)

decEnum(b, d) ==
  Bind(decString(b, Skip(b, d), Tag(b, d)),
       LAMBDA r : Ok(Leaf("enum", r.v.n), appendRefs(r.d)))

\* What decInstance makes of the value of a field.  An int is read first for an
\* enum; "nil": decInstance returns nil without error.
EnumField(int, any) ==
  IF int.st = "ok" THEN int
  ELSE Bind(any, LAMBDA r : IF r.v.k # "enum" THEN Ok(Leaf("int", 0), r.d) ELSE r)
MapField(map) == IF map.st = "err" THEN Ok(Zero, map.d) ELSE map
ListField(list) ==
  IF list.st = "err" THEN Bad("nil", list.d)
  ELSE Bind(list, LAMBDA r : IF r.v.s = <<>> THEN [r EXCEPT !.v = Zero]
                             ELSE IF Contains(r.v.s, Null) THEN Bad("panic", r.d)
                             ELSE r)
Only(kinds, any) == Bind(any, LAMBDA r : IF r.v.k \in kinds THEN r ELSE Bad("panic", r.d))

RECURSIVE decObject(_, _, _)
decField(b, d, k) ==
  LET tag == Tag(b, d)
      f == Skip(b, d)
  IN CASE k = "string" -> decString(b, f, tag)
       [] k = "int"    -> decInt32(b, f, tag)
       [] k = "long"   -> decInt64(b, f, tag)
       [] k = "enum"   -> EnumField(decInt32(b, f, tag), Decode(b, d))
       [] k = "bool"   -> Only({"bool"}, Decode(b, d))
       [] k = "double" -> IF tag = 89 THEN Bad("panic", d) ELSE decDouble(b, f, tag)
       [] k = "date"   -> decDate(b, f, tag)
       [] k = "map"    -> MapField(decMapByValue(b, d))
       [] k = "list"   -> ListField(decList(b, f, tag))
       [] k = "object" -> Only({"object", "null"}, decObject(b, f, tag))
       [] OTHER        -> Bad("err", d)

\* The fields of the class, in its order; one the type does not have is
\* passed over, but its value is not.
findField(name, t) == SelectInSeq(Types[t].fields, LAMBDA f : f = name)

Field(r, F(_)) == IF r.st = "nil" THEN Ok(Null, r.d) ELSE Bind(Strict(r), F)

RECURSIVE decInstance(_, _, _, _, _)
decInstance(b, d, t, names, acc) ==
  LET i == findField(Head(names), t) IN
    IF names = <<>> THEN Ok(Node("object", t, acc), d)
    ELSE IF i = 0 THEN decInstance(b, d, t, Tail(names), acc)
    ELSE Field(decField(b, d, Types[t].kinds[i]),
               LAMBDA r : decInstance(b, r.d, t, Tail(names), [acc EXCEPT ![i] = r.v]))

RECURSIVE FieldNames(_, _, _, _)
FieldNames(b, d, size, acc) ==
  IF size = 0 THEN Ok(Node("names", 0, acc), d)
  ELSE Bind(decString(b, Skip(b, d), Tag(b, d)),
            LAMBDA r : FieldNames(b, r.d, size - 1, Append(acc, r.v.n)))

decClassDef(b, d) ==
  Bind(decString(b, Skip(b, d), Tag(b, d)), LAMBDA c :
    Bind(decInt32(b, Skip(b, c.d), Tag(b, c.d)), LAMBDA num :
      IF num.v.n < 0 THEN Bad("panic", num.d)
      ELSE Bind(FieldNames(b, num.d, num.v.n, <<>>), LAMBDA l :
             Ok(Null, [l.d EXCEPT !.cls = Append(@, [java |-> c.v.n, fields |-> l.v.s])]))))

decObject(b, d, tag) ==
  IF tag \notin {67, 79} \cup (96 .. 111) THEN Bad("err", d)
  ELSE IF tag = 67 THEN Bind(decClassDef(b, d), LAMBDA def : Decode(b, def.d))
  ELSE Bind(IF tag = 79 THEN decInt32(b, Skip(b, d), Tag(b, d)) ELSE Ok(Leaf("int", tag - 96), d),
    LAMBDA idx :
      LET c == d.cls[idx.v.n + 1]
          t == getStructInfo(c.java, d.p)
      IN IF idx.v.n \notin 0 .. Len(d.cls) - 1 \/ ~Known(c.java, d.p) THEN Bad("err", idx.d)
         ELSE IF IsEnum(t) THEN decEnum(b, idx.d)
         ELSE decInstance(b, appendRefs(idx.d), t, c.fields,
                          [x \in 1 .. Len(Types[t].fields) |-> Zero]))

decRef(b, d) ==
  Bind(decInt32(b, Skip(b, d), Tag(b, d)), LAMBDA r :
    IF r.v.n >= Len(d.refs) THEN Bad("err", r.d)
    ELSE IF r.v.n < 0 THEN Bad("panic", r.d)
    ELSE Ok(Leaf("ref", d.refs[r.v.n + 1]), r.d))

Decode(b, d) ==
  LET tag == Tag(b, d)
      f == Skip(b, d)
  IN IF AtEnd(b, d) THEN Bad("eof", d) ELSE
     CASE ScalarTag(tag)      -> DecodeScalar(b, f, tag)
       [] tag \in StringTags  -> decString(b, f, tag)
       [] tag \in {65, 66} \cup (32 .. 47) \cup (52 .. 55) -> decBinary(b, f, tag, <<>>)
       [] tag \in (112 .. 127) \cup (85 .. 88) -> decList(b, f, tag)
       [] tag \in {77, 72}    -> decMap(b, f, tag)
       [] tag \in {67, 79} \cup (96 .. 111) -> decObject(b, f, tag)
       [] tag = 81            -> decRef(b, f)
       [] OTHER               -> Bad("err", f)
=============================================================================
