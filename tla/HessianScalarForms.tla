------------------------- MODULE HessianScalarForms -------------------------
(***************************************************************************)
(* What the bytes of a scalar may be: the productions for scalars of the   *)
(* grammar of hessian 2.0, as the comments of codec/hessian/encode.go and  *)
(* decode.go quote them.  A form is [b, odd]: the bytes, and whether the   *)
(* decoder of decode.go is known not to read them as this value.           *)
(***************************************************************************)
EXTENDS HessianScalars

\* A production that applies only to some values.
When(c, b, odd) == IF c THEN {[b |-> b, odd |-> odd]} ELSE {}

\* int ::= 'I' b3 b2 b1 b0 | [x80-xbf] | [xc0-xcf] b0 | [xd0-xd7] b1 b0.
IntForms(v) ==
  LET byte == 200 + (v \div Shift(1))
      short == 212 + (v \div Shift(2))
  IN When(TRUE, Tagged(73, v, 4), FALSE)
       \cup When(Between(v, 128 - 144, 191 - 144), Tagged(144 + v, v, 0), v < 0)
       \cup When(Between(byte, 192, 207), Tagged(byte, v, 1), v < 0)
       \cup When(Between(short, 208, 215), Tagged(short, v, 2), v < 0)

\* long ::= 'L' b7 .. b0 | [xd8-xef] | [xf0-xff] b0 | [x38-x3f] b1 b0
\*        | x59 b3 b2 b1 b0.
LongForms(v) ==
  LET byte == 248 + (v \div Shift(1))
      short == 60 + (v \div Shift(2))
  IN When(TRUE, Tagged(76, v, 8), FALSE)
       \cup When(TRUE, Tagged(89, v, 4), TRUE)
       \cup When(Between(v, 216 - 224, 239 - 224), Tagged(224 + v, v, 0), v < 0)
       \cup When(Between(byte, 240, 255), Tagged(byte, v, 1), v < 0)
       \cup When(Between(short, 56, 63), Tagged(short, v, 2), v < 0)

\* double ::= 'D' b7 .. b0 | x5b | x5c | x5d b0 | x5e b1 b0 | x5f b3 b2 b1 b0
\* (thousandths).
DoubleForms(n) ==
  LET iv == n \div 2
      whole == n % 2 = 0
  IN When(TRUE, Tagged(68, n, 8), FALSE)
       \cup When(whole /\ iv \in {0, 1}, Tagged(91 + iv, iv, 0), FALSE)
       \cup When(whole /\ Fits(iv, 1), Tagged(93, iv, 1), iv < 0)
       \cup When(whole /\ Fits(iv, 2), Tagged(94, iv, 2), iv < 0)
       \cup When(Between(n, -(MaxInt \div 500), MaxInt \div 500), Tagged(95, 500 * n, 4), TRUE)

\* The doubles that encFloat writes in a form of theirs: not the whole ones of more
\* than a byte and at most a short.
WritableDouble(n) == n % 2 = 0 => Fits(n \div 2, 1) \/ ~Fits(n \div 2, 2)

\* date ::= x4a b7 .. b0 | x4b b3 b2 b1 b0 (minutes).
DateForms(ms) ==
  When(TRUE, Tagged(74, ms, 8), FALSE)
    \cup When(ms % MINUTE = 0, Tagged(75, ms \div MINUTE, 4), FALSE)

\* null ::= 'N'; boolean ::= 'T' | 'F'.  k is the kind of the field that the value
\* is for, "any" outside of a field.  A null is the value that a long, an enum or a
\* map field has by default; no other field takes it.
ScalarForms(v, k) ==
  CASE v.k = "null"   -> When(TRUE, Tagged(78, 0, 0), k \notin {"any", "long", "enum", "map"})
    [] v.k = "bool"   -> When(TRUE, Tagged(IF v.n = 1 THEN 84 ELSE 70, v.n, 0), FALSE)
    [] v.k = "int"    -> IntForms(v.n)
    [] v.k = "long"   -> LongForms(v.n)
    [] v.k = "date"   -> DateForms(v.n)
    [] v.k = "double" -> DoubleForms(v.n)
=============================================================================
