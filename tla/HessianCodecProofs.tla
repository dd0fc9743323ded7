------------------------- MODULE HessianCodecProofs -------------------------
(***************************************************************************)
(* Proofs about HessianCodec and the scalars it reads and writes: every    *)
(* number of 32 bits in every form of the grammar, every registry, every   *)
(* way in which the bytes of an answer arrive.  What the encoder and the   *)
(* decoder do with texts, lists, maps and objects is left open: the        *)
(* theorems hold whatever Pack, DecodeOther and OtherForms are.            *)
(*                                                                         *)
(* Numbers that are too large for the provers' numerals stay behind the    *)
(* definitions that name them.                                             *)
(***************************************************************************)
EXTENDS HessianCodec, SequenceTheorems, WellFoundedInduction, TLAPS

-----------------------------------------------------------------------------
(***************************************************************************)
(* Numbers and their bytes.                                                *)
(***************************************************************************)
\* The numbers of 32 bits, which are all that TLC's integers can be.

Int32 == {v \in Int : Between(v, -MaxInt - 1, MaxInt)}

\* The bounds of a number of 32 bits.
LEMMA Int32Bounds ==
  ASSUME NEW v \in Int32
  PROVE  v \in Int /\ -2147483648 <= v /\ v <= 2147483647
BY SMT DEF Int32, Between, MaxInt

\* The weights of the bytes.
LEMMA ShiftValues == Shift(0) = 1 /\ Shift(1) = 256 /\ Shift(2) = 65536 /\ Shift(3) = 16777216
BY SMT DEF Shift

\* The highest byte, with its sign, is that of the number.
LEMMA TopByte ==
  ASSUME NEW v \in Int32
  PROVE  LET c == v \div 16777216
         IN  c \in Int /\ -128 <= c /\ c <= 127 /\ (c < 0 <=> v < 0)
<1>1. v \in Int /\ -2147483648 <= v /\ v <= 2147483647 BY Int32Bounds
<1> QED BY <1>1, SMT

\* Shifting by one byte more is shifting once more by a byte.
LEMMA Shifts ==
  ASSUME NEW v \in Int
  PROVE  v \div 65536 = (v \div 256) \div 256 /\ v \div 16777216 = (v \div 65536) \div 256
<1>1. v \div 65536 = (v \div 256) \div 256 BY SMT
<1>2. v \div 16777216 = (v \div 65536) \div 256 BY SMT
<1> QED BY <1>1, <1>2

\* The four low bytes of a number.
LEMMA OctetValues ==
  ASSUME NEW v \in Int
  PROVE  /\ Octet(v, 0) = v % 256 /\ Octet(v, 1) = (v \div 256) % 256
         /\ Octet(v, 2) = (v \div 65536) % 256 /\ Octet(v, 3) = (v \div 16777216) % 256
<1>1. v \div 1 = v BY SMT
<1> QED BY <1>1, ShiftValues, SMT DEF Octet

\* The two lowest, in a context without large numbers.
LEMMA LowOctets ==
  ASSUME NEW v \in Int
  PROVE  Octet(v, 0) = v % 256 /\ Octet(v, 1) = (v \div 256) % 256
<1>1. v \div 1 = v BY SMT
<1> QED BY <1>1, ShiftValues, SMT DEF Octet

\* The four high bytes repeat the sign.
LEMMA HighOctets ==
  ASSUME NEW v \in Int, NEW x \in 4 .. 7
  PROVE  Octet(v, x) = IF v < 0 THEN 255 ELSE 0
<1>1. x > 3 BY SMT
<1> QED BY <1>1 DEF Octet

\* Four bytes are read as the number they are of (UnpackInt32).
LEMMA WordValue ==
  ASSUME NEW v \in Int32,
         NEW s, s[1] = Octet(v, 3), s[2] = Octet(v, 2), s[3] = Octet(v, 1), s[4] = Octet(v, 0)
  PROVE  Signed(s) = v
<1> DEFINE a == v \div 256
<1> DEFINE b == v \div 65536
<1> DEFINE c == v \div 16777216
<1>0. v \in Int BY Int32Bounds
<1>a. a \in Int /\ b \in Int BY <1>0, SMT
<1>1. a \in Int /\ b \in Int /\ c \in Int /\ -128 <= c /\ c <= 127 BY <1>a, TopByte
<1>2. b = a \div 256 /\ c = b \div 256 BY <1>0, Shifts
<1>3. v = 256 * a + (v % 256) /\ a = 256 * b + (a % 256) /\ b = 256 * c + (b % 256) BY <1>0, <1>1, <1>2, SMT
<1>4. c % 256 = IF c < 0 THEN c + 256 ELSE c BY SMT, <1>1
<1>5. s[1] = c % 256 /\ s[2] = b % 256 /\ s[3] = a % 256 /\ s[4] = v % 256  BY <1>0, OctetValues
<1>6. v % 256 \in Int /\ a % 256 \in Int /\ b % 256 \in Int BY <1>0, <1>1, SMT
<1> HIDE DEF a, b, c
<1>7. s[1] \in Int /\ (IF s[1] > 127 THEN s[1] - 256 ELSE s[1]) = c BY <1>1, <1>4, <1>5, SMT
<1>8. Signed(s) = c * 16777216 + s[2] * 65536 + s[3] * 256 + s[4] BY <1>7, SMT DEF Signed
<1>9. Signed(s) = c * 16777216 + (b % 256) * 65536 + (a % 256) * 256 + (v % 256) BY <1>8, <1>5
<1> QED BY <1>0, <1>1, <1>3, <1>9, <1>6, SMT

-----------------------------------------------------------------------------
(***************************************************************************)
(* Reading: where the decoder is and what lies before it.                  *)
(***************************************************************************)
\* The bytes s are in b after those that d has read.
Occurs(s, b, d) ==
  /\ d.pos \in Nat /\ Len(b) \in Nat /\ Len(s) \in Nat
  /\ d.pos + Len(s) <= Len(b)
  /\ \A i \in 1 .. Len(s) : b[d.pos + i] = s[i]

\* r is the value v, read up to position end.
Reads(r, v, end) == r.st = "ok" /\ r.v = v /\ r.d.pos = end

\* There are w bytes in b after those that d has read.
Room(b, d, w) == w \in Nat /\ d.pos \in Nat /\ Len(b) \in Nat /\ d.pos + w <= Len(b)

\* The next w bytes are those of v.
Ahead(b, d, v, w) == Room(b, d, w) /\ \A i \in 1 .. w : b[d.pos + i] = Octet(v, w - i)

\* next(l): the l bytes that follow, when they are there.
LEMMA TakeBytes ==
  ASSUME NEW b, NEW d, NEW l, Room(b, d, l)
  PROVE  /\ Take(b, d, l).st = "ok"
         /\ Take(b, d, l).d.pos = d.pos + l
         /\ Len(Take(b, d, l).v) = l
         /\ \A i \in 1 .. l : Take(b, d, l).v[i] = b[d.pos + i]
<1>0. l \in Nat /\ d.pos \in Nat /\ Len(b) \in Nat /\ d.pos + l <= Len(b) BY DEF Room
<1> DEFINE s == SubSeq(b, d.pos + 1, d.pos + l)
<1>1. Take(b, d, l) = Ok(s, [d EXCEPT !.pos = @ + l]) BY <1>0, SMT DEF Take
<1>2. s = [i \in 1 .. l |-> b[d.pos + i]]
  <2>1. s = [i \in 1 .. (1 + (d.pos + l)) - (d.pos + 1) |-> b[(i + (d.pos + 1)) - 1]]  BY <1>0, SMT
  <2>2. (1 + (d.pos + l)) - (d.pos + 1) = l BY <1>0, SMT
  <2>3. \A i \in 1 .. l : (i + (d.pos + 1)) - 1 = d.pos + i BY <1>0, SMT
  <2> QED BY <2>1, <2>2, <2>3, SMT
<1>5. [d EXCEPT !.pos = @ + l].pos = d.pos + l BY <1>0, SMT
<1> DEFINE e == [d EXCEPT !.pos = @ + l]
<1>6. Take(b, d, l) = Ok(s, e) /\ e.pos = d.pos + l BY <1>1, <1>5
<1> HIDE DEF s
<1>3. Len(s) = l BY <1>0, <1>2, SMT
<1>4. \A i \in 1 .. l : s[i] = b[d.pos + i] BY <1>0, <1>2, SMT
<1> HIDE DEF e
<1>8. Take(b, d, l).st = "ok" /\ Take(b, d, l).d = e /\ Take(b, d, l).v = s BY <1>6, SMT DEF Ok
<1> QED BY <1>6, <1>3, <1>4, <1>8

\* readByte: the first of the bytes that follow.
LEMMA TagOf ==
  ASSUME NEW s, NEW b, NEW d, Occurs(s, b, d), Len(s) > 0
  PROVE  ~AtEnd(b, d) /\ Tag(b, d) = s[1] /\ Skip(b, d) = [d EXCEPT !.pos = @ + 1]
         /\ Skip(b, d).pos = d.pos + 1
<1>1. d.pos \in Nat /\ Len(b) \in Nat /\ Len(s) \in Nat /\ d.pos < Len(b) /\ b[d.pos + 1] = s[1] BY SMT DEF Occurs
<1>2. ~(d.pos >= Len(b)) BY <1>1, SMT
<1>3. [d EXCEPT !.pos = @ + 1].pos = d.pos + 1 BY SMT
<1> QED BY <1>1, <1>2, <1>3 DEF AtEnd, Tag, Skip

\* A tag and the bytes of a number.
LEMMA TaggedBytes ==
  ASSUME NEW tag, NEW v, NEW w \in Nat
  PROVE  /\ Len(Tagged(tag, v, w)) = w + 1
         /\ Tagged(tag, v, w)[1] = tag
         /\ \A i \in 1 .. w : Tagged(tag, v, w)[i + 1] = Octet(v, w - i)
<1>1. Len(Tagged(tag, v, w)) = w + 1 BY SMT DEF Tagged
<1>2. Tagged(tag, v, w)[1] = tag BY SMT DEF Tagged
<1>3. ASSUME NEW i \in 1 .. w PROVE Tagged(tag, v, w)[i + 1] = Octet(v, w - i)
  <2>1. i + 1 \in 1 .. w + 1 /\ i + 1 # 1 /\ w + 1 - (i + 1) = w - i BY SMT
  <2> QED BY <2>1 DEF Tagged
<1> QED BY <1>1, <1>2, <1>3

\* What is read after the tag.
LEMMA AfterTag ==
  ASSUME NEW tag, NEW v, NEW w \in Nat, NEW b, NEW d, Occurs(Tagged(tag, v, w), b, d)
  PROVE  /\ ~AtEnd(b, d) /\ Tag(b, d) = tag
         /\ d.pos \in Nat /\ Skip(b, d).pos = d.pos + 1
         /\ Ahead(b, Skip(b, d), v, w)
<1> DEFINE s == Tagged(tag, v, w)
           q == d.pos
<1>1. Len(s) = w + 1 /\ s[1] = tag /\ \A i \in 1 .. w : s[i + 1] = Octet(v, w - i) BY TaggedBytes
<1>2. Occurs(s, b, d) OBVIOUS
<1> HIDE DEF s
<1>3. ~AtEnd(b, d) /\ Tag(b, d) = s[1] /\ Skip(b, d).pos = d.pos + 1 BY <1>1, <1>2, TagOf, SMT
<1>4. q \in Nat /\ Len(b) \in Nat /\ q + Len(s) <= Len(b) /\ \A i \in 1 .. Len(s) : b[q + i] = s[i]
  BY <1>2 DEF Occurs
<1>5. Skip(b, d).pos = q + 1 BY <1>3
<1> HIDE DEF q
<1>6. ASSUME NEW i \in 1 .. w PROVE b[q + 1 + i] = Octet(v, w - i)
  <2>1. i + 1 \in 1 .. Len(s) BY <1>1, SMT
  <2>2. q + (i + 1) = q + 1 + i BY <1>4, SMT
  <2> QED BY <2>1, <2>2, <1>1, <1>4
<1>7. q + 1 \in Nat /\ q + 1 + w <= Len(b) BY <1>1, <1>4, SMT
<1>8. Ahead(b, Skip(b, d), v, w) BY <1>4, <1>5, <1>6, <1>7 DEF Ahead, Room
<1> QED BY <1>1, <1>3, <1>4, <1>8 DEF q

\* One or two bytes below the bits that the tag has.
LEMMA NumberReads ==
  ASSUME NEW k, NEW b, NEW d, NEW v, NEW w \in {1, 2}, NEW high, Ahead(b, d, v, w)
  PROVE  LET low == IF w = 1 THEN Octet(v, 0) ELSE Octet(v, 1) * 256 + Octet(v, 0)
         IN  Reads(Number(k, b, d, w, high), Leaf(k, high * Shift(w) + low), d.pos + w)
<1> DEFINE t == Take(b, d, w)
           low == IF w = 1 THEN Octet(v, 0) ELSE Octet(v, 1) * 256 + Octet(v, 0)
<1>1. (w = 1 \/ w = 2) /\ Room(b, d, w) BY DEF Ahead
<1>2. /\ t.st = "ok" /\ t.d.pos = d.pos + w /\ Len(t.v) = w
      /\ \A i \in 1 .. w : t.v[i] = b[d.pos + i]
  BY <1>1, TakeBytes
<1> HIDE DEF t
<1>3. \A i \in 1 .. w : t.v[i] = Octet(v, w - i) BY <1>2 DEF Ahead
<1>4. w = 1 => t.v[1] = Octet(v, 0) BY <1>3, SMT
<1>5. w = 2 => t.v[1] = Octet(v, 1) /\ t.v[2] = Octet(v, 0) BY <1>3, SMT
<1>6. Unsigned(t.v) = low BY <1>1, <1>2, <1>4, <1>5, SMT DEF Unsigned
<1> HIDE DEF low
<1>7. Number(k, b, d, w, high) = Ok(Leaf(k, high * Shift(w) + low), t.d) BY <1>2, <1>6 DEF Number, Bind, t
<1> QED BY <1>2, <1>7, SMT DEF Reads, Ok, low

\* Four bytes.
LEMMA WordReads ==
  ASSUME NEW k, NEW b, NEW d, NEW v \in Int32, Ahead(b, d, v, 4)
  PROVE  Reads(Word(k, b, d), Leaf(k, v), d.pos + 4)
<1> DEFINE t == Take(b, d, 4)
<1>2. /\ t.st = "ok" /\ t.d.pos = d.pos + 4 /\ Len(t.v) = 4
      /\ \A i \in 1 .. 4 : t.v[i] = b[d.pos + i]
  <2> DEFINE w == 4
  <2>1. Room(b, d, w) BY DEF Ahead
  <2>2. t = Take(b, d, w) OBVIOUS
  <2>3. w = 4 OBVIOUS
  <2> HIDE DEF w, t
  <2>4. /\ t.st = "ok" /\ t.d.pos = d.pos + w /\ Len(t.v) = w
        /\ \A i \in 1 .. w : t.v[i] = b[d.pos + i]
    BY <2>1, <2>2, TakeBytes
  <2> QED BY <2>3, <2>4
<1> HIDE DEF t
<1>3. \A i \in 1 .. 4 : t.v[i] = Octet(v, 4 - i) BY <1>2 DEF Ahead
<1>5. t.v[1] = Octet(v, 3) /\ t.v[2] = Octet(v, 2) /\ t.v[3] = Octet(v, 1) /\ t.v[4] = Octet(v, 0)
  BY <1>3, SMT
<1>6. Signed(t.v) = v BY <1>5, WordValue
<1>4. Word(k, b, d) = Ok(Leaf(k, v), t.d) BY <1>2, <1>6 DEF Word, Bind, t
<1> QED BY <1>2, <1>4, SMT DEF Reads, Ok

\* The bytes of -1 and of 0.
LEMMA SignBytes ==
  ASSUME NEW m \in Int, -1 <= m, m <= 0, NEW x \in 0 .. 3
  PROVE  Octet(m, x) = IF m < 0 THEN 255 ELSE 0
<1>1. m % 256 = IF m < 0 THEN 255 ELSE 0 BY SMT
<1> DEFINE y == Shift(x)
<1>2. y = 1 \/ y = 256 \/ y = 65536 \/ y = 16777216 BY SMT DEF Shift
<1>3. ~(x > 3) BY SMT
<1>4. Octet(m, x) = (m \div y) % 256 BY <1>3 DEF Octet
<1> HIDE DEF y
<1>5. m \div y = m BY <1>2, SMT
<1> QED BY <1>1, <1>4, <1>5

\* The sign of a byte.
LEMMA ByteSign ==
  ASSUME NEW c \in Int, -128 <= c, c <= 127
  PROVE  c % 256 \in Int /\ ((c % 256) > 127 <=> c < 0)
BY SMT

\* Eight bytes, of which the first four repeat the sign.
LEMMA LongReads ==
  ASSUME NEW k, NEW b, NEW d, NEW v \in Int32, Ahead(b, d, v, 8)
  PROVE  Reads(Long(k, b, d), Leaf(k, v), d.pos + 8)
<1>0. v \in Int BY Int32Bounds
<1> DEFINE t == Take(b, d, 8)
           c == v \div 16777216
           g == IF t.v[5] > 127 THEN -1 ELSE 0
           h == SubSeq(t.v, 1, 4)
           l == SubSeq(t.v, 5, 8)
           tv == t.v
<1>2. /\ t.st = "ok" /\ t.d.pos = d.pos + 8 /\ Len(tv) = 8
      /\ \A i \in 1 .. 8 : tv[i] = b[d.pos + i]
  <2> DEFINE w == 8
  <2>1. Room(b, d, w) BY DEF Ahead
  <2>2. t = Take(b, d, w) OBVIOUS
  <2>3. w = 8 OBVIOUS
  <2> HIDE DEF w, t
  <2>4. /\ t.st = "ok" /\ t.d.pos = d.pos + w /\ Len(t.v) = w
        /\ \A i \in 1 .. w : t.v[i] = b[d.pos + i]
    BY <2>1, <2>2, TakeBytes
  <2> QED BY <2>3, <2>4
<1>13. Long(k, b, d) = IF h = Octets(g, 4) THEN Ok(Leaf(k, Signed(l)), t.d) ELSE Ok(Leaf("large", 0), t.d)
  BY <1>2 DEF Long, Bind
<1>a. h = SubSeq(tv, 1, 4) /\ l = SubSeq(tv, 5, 8) /\ g = IF tv[5] > 127 THEN -1 ELSE 0 OBVIOUS
<1> HIDE DEF t, h, l, tv, g
<1>3. \A i \in 1 .. 8 : tv[i] = Octet(v, 8 - i) BY <1>2 DEF Ahead
<1>4. c \in Int /\ -128 <= c /\ c <= 127 /\ (c < 0 <=> v < 0) BY TopByte
<1>5. Octet(v, 3) = c % 256 BY <1>0, OctetValues
<1>6. tv[5] = Octet(v, 3) BY <1>3, SMT
<1> HIDE DEF c
<1>7. (tv[5] > 127) <=> (v < 0) BY <1>4, <1>5, <1>6, ByteSign
<1>8. g \in Int /\ -1 <= g /\ g <= 0 /\ (g < 0 <=> v < 0) BY <1>a, <1>7, SMT
<1>9. ASSUME NEW i \in 1 .. 4 PROVE tv[i] = Octet(g, 4 - i)
  <2>3. 8 - i \in 4 .. 7 /\ i \in 1 .. 8 /\ 4 - i \in 0 .. 3 BY SMT
  <2>4. Octet(v, 8 - i) = IF v < 0 THEN 255 ELSE 0 BY <1>0, <2>3, HighOctets
  <2>5. Octet(g, 4 - i) = IF g < 0 THEN 255 ELSE 0 BY <1>8, <2>3, SignBytes
  <2> QED BY <1>3, <1>8, <2>3, <2>4, <2>5
<1>10. h = Octets(g, 4)
  <2>1. h = [i \in 1 .. 4 |-> tv[i]] BY <1>a, SMT
  <2> QED BY <2>1, <1>9 DEF Octets
<1>11. l[1] = tv[5] /\ l[2] = tv[6] /\ l[3] = tv[7] /\ l[4] = tv[8] BY <1>a, <1>2, SMT
<1>12. tv[5] = Octet(v, 3) /\ tv[6] = Octet(v, 2) /\ tv[7] = Octet(v, 1) /\ tv[8] = Octet(v, 0)
  BY <1>3, SMT
<1>14. Signed(l) = v BY <1>11, <1>12, WordValue
<1>15. Long(k, b, d) = Ok(Leaf(k, v), t.d) BY <1>10, <1>13, <1>14
<1>16. t.d.pos = d.pos + 8 BY <1>2
<1> QED BY <1>15, <1>16, SMT DEF Reads, Ok

\* The difference of two bytes: negative ones come out 256 too large.
LEMMA DiffValue ==
  ASSUME NEW q \in Int, -128 <= q, q <= 127, NEW base \in Int
  PROVE  Diff(base + q, base) \in Int /\ Diff(base + q, base) = IF q < 0 THEN q + 256 ELSE q
<1>1. (base + q) - base = q BY SMT
<1>2. q % 256 \in Int /\ q % 256 = IF q < 0 THEN q + 256 ELSE q BY SMT
<1> QED BY <1>1, <1>2 DEF Diff

\* The low bytes, without a sign.
LowBytes(v, w) == IF w = 1 THEN Octet(v, 0) ELSE Octet(v, 1) * 256 + Octet(v, 0)

\* They are what remains below the tag's part.
LEMMA LowBytesValue ==
  ASSUME NEW v \in Int, NEW w \in {1, 2}
  PROVE  /\ v \div Shift(w) \in Int /\ LowBytes(v, w) \in Int
         /\ LowBytes(v, w) = v - Shift(w) * (v \div Shift(w))
         /\ (v \div Shift(w) < 0 <=> v < 0)
<1> DEFINE a == v \div 256
           c == v \div 65536
<1>1. a \in Int /\ c \in Int /\ (a < 0 <=> v < 0) /\ (c < 0 <=> v < 0) BY SMT
<1>2. v = 256 * a + (v % 256) BY SMT
<1>3. c = a \div 256 BY Shifts
<1>4. Octet(v, 0) = v % 256 /\ Octet(v, 1) = a % 256 BY LowOctets
<1>5. v % 256 \in Int BY SMT
<1>a. w = 1 \/ w = 2 BY SMT
<1>b. CASE w = 1
  <2>1. Shift(w) = 256 /\ LowBytes(v, w) = Octet(v, 0) BY <1>b, ShiftValues DEF LowBytes
  <2>2. v \div Shift(w) = a BY <2>1
  <2> HIDE DEF a, c
  <2>3. v % 256 = v - 256 * a BY <1>1, <1>2, <1>5, SMT
  <2> QED BY <1>1, <1>4, <1>5, <2>1, <2>2, <2>3
<1>c. CASE w = 2
  <2>1. Shift(w) = 65536 /\ LowBytes(v, w) = Octet(v, 1) * 256 + Octet(v, 0)
    BY <1>c, ShiftValues, SMT DEF LowBytes
  <2>2. v \div Shift(w) = c BY <2>1
  <2> HIDE DEF a, c
  <2>3. a % 256 \in Int /\ a = 256 * c + (a % 256) BY <1>1, <1>3, SMT
  <2>4. (a % 256) * 256 + (v % 256) = v - 65536 * c BY <1>1, <1>2, <1>5, <2>3, SMT
  <2>5. (a % 256) * 256 + (v % 256) \in Int BY <1>5, <2>3, SMT
  <2> QED BY <1>1, <1>4, <2>1, <2>2, <2>4, <2>5
<1> QED BY <1>a, <1>b, <1>c

\* A compact form has the right value if and only if the number is not negative.
LEMMA CompactValue ==
  ASSUME NEW v \in Int, NEW w \in {1, 2}, NEW base \in Int,
         -128 <= v \div Shift(w), v \div Shift(w) <= 127
  PROVE  LET x == Diff(base + (v \div Shift(w)), base) * Shift(w) + LowBytes(v, w)
         IN  x = v <=> ~(v < 0)
<1> DEFINE q == v \div Shift(w)
           h == Diff(base + q, base)
           s == Shift(w)
           l == LowBytes(v, w)
<1>1. q \in Int /\ l \in Int /\ l = v - s * q /\ (q < 0 <=> v < 0) BY LowBytesValue
<1>2. h \in Int /\ h = IF q < 0 THEN q + 256 ELSE q BY <1>1, DiffValue, ZenonT(60)
<1>3. s = 256 \/ s = 65536 BY ShiftValues
<1> HIDE DEF q, h, s, l
<1>4. h * s + l = v <=> ~(v < 0)
  <2>1. CASE s = 256 BY <1>1, <1>2, <2>1, SMT
  <2>2. CASE s = 65536 BY <1>1, <1>2, <2>2, SMT
  <2> QED BY <1>3, <2>1, <2>2
<1> QED BY <1>4 DEF q, h, s, l

\* What is read is one value.
LEMMA ReadsOne ==
  ASSUME NEW r, NEW k, NEW x, NEW v, NEW end, Reads(r, Leaf(k, x), end)
  PROVE  Reads(r, Leaf(k, v), end) <=> x = v
BY SMT DEF Reads, Leaf

-----------------------------------------------------------------------------
(***************************************************************************)
(* The forms, and what is read of them.                                    *)
(***************************************************************************)
\* Where Decode goes for a tag.
LEMMA Dispatch ==
  ASSUME NEW b, NEW d, NEW tag \in Int, ~AtEnd(b, d), Tag(b, d) = tag
  PROVE  /\ NullTag(tag) => DecodeValue(b, d) = Ok(Null, Skip(b, d))
         /\ BoolTag(tag) => DecodeValue(b, d) = Ok(Leaf("bool", IF tag = 84 THEN 1 ELSE 0), Skip(b, d))
         /\ IntTag(tag) => DecodeValue(b, d) = decInt32(b, Skip(b, d), tag)
         /\ LongTag(tag) => DecodeValue(b, d) = decInt64(b, Skip(b, d), tag)
         /\ DateTag(tag) => DecodeValue(b, d) = decDate(b, Skip(b, d), tag)
         /\ DoubleTag(tag) => DecodeValue(b, d) = decDouble(b, Skip(b, d), tag)
<1> DEFINE e == Skip(b, d)
<1>1. ScalarTag(tag) => DecodeValue(b, d) = DecodeScalar(b, e, tag) BY DEF DecodeValue
<1>2. /\ BoolTag(tag) => ~NullTag(tag)
      /\ IntTag(tag) => ~NullTag(tag) /\ ~BoolTag(tag)
      /\ LongTag(tag) => ~NullTag(tag) /\ ~BoolTag(tag) /\ ~IntTag(tag)
      /\ DateTag(tag) => ~NullTag(tag) /\ ~BoolTag(tag) /\ ~IntTag(tag) /\ ~LongTag(tag)
      /\ DoubleTag(tag) => ~NullTag(tag) /\ ~BoolTag(tag) /\ ~IntTag(tag) /\ ~LongTag(tag) /\ ~DateTag(tag)
  BY SMT DEF NullTag, BoolTag, IntTag, LongTag, DateTag, DoubleTag, Between
<1> HIDE DEF e
<1>3. /\ NullTag(tag) => DecodeScalar(b, e, tag) = Ok(Null, e)
      /\ BoolTag(tag) => DecodeScalar(b, e, tag) = Ok(Leaf("bool", IF tag = 84 THEN 1 ELSE 0), e)
      /\ IntTag(tag) => DecodeScalar(b, e, tag) = decInt32(b, e, tag)
      /\ LongTag(tag) => DecodeScalar(b, e, tag) = decInt64(b, e, tag)
      /\ DateTag(tag) => DecodeScalar(b, e, tag) = decDate(b, e, tag)
      /\ DoubleTag(tag) => DecodeScalar(b, e, tag) = decDouble(b, e, tag)
  BY <1>2, SMT DEF DecodeScalar
<1> QED BY <1>1, <1>3 DEF ScalarTag, e

\* One or two bytes after the tag of a compact form.
LEMMA CompactReads ==
  ASSUME NEW k, NEW b, NEW d, NEW v \in Int, NEW w \in {1, 2}, NEW base \in Int,
         NEW q, q = v \div Shift(w), -128 <= q, q <= 127, Ahead(b, d, v, w)
  PROVE  Reads(Number(k, b, d, w, Diff(base + q, base)), Leaf(k, v), d.pos + w)
           <=> ~(v < 0)
<1> DEFINE h == Diff(base + q, base)
           x == h * Shift(w) + LowBytes(v, w)
           r == Number(k, b, d, w, h)
<1>1. Reads(r, Leaf(k, x), d.pos + w) BY NumberReads, ZenonT(60) DEF LowBytes
<1>2. x = v <=> ~(v < 0) BY CompactValue, Zenon
<1> HIDE DEF h, x, r
<1>3. Reads(r, Leaf(k, v), d.pos + w) <=> x = v BY <1>1, ReadsOne
<1> QED BY <1>2, <1>3 DEF r, h

\* decInt32, by its tag.
LEMMA decInt32Cases ==
  ASSUME NEW b, NEW d, NEW tag \in Int
  PROVE  /\ Between(tag, 128, 191) => decInt32(b, d, tag) = Ok(Leaf("int", Diff(tag, 144)), d)
         /\ Between(tag, 192, 207) => decInt32(b, d, tag) = Number("int", b, d, 1, Diff(tag, 200))
         /\ Between(tag, 208, 215) => decInt32(b, d, tag) = Number("int", b, d, 2, Diff(tag, 212))
         /\ tag = 73 => decInt32(b, d, tag) = Word("int", b, d)
         /\ (~Between(tag, 128, 215) /\ tag # 73) => decInt32(b, d, tag) = Bad("err", d)
<1>1. /\ Between(tag, 192, 207) => ~Between(tag, 128, 191)
      /\ Between(tag, 208, 215) => ~Between(tag, 128, 191) /\ ~Between(tag, 192, 207)
      /\ tag = 73 => ~Between(tag, 128, 191) /\ ~Between(tag, 192, 207) /\ ~Between(tag, 208, 215)
      /\ (~Between(tag, 128, 215) /\ tag # 73) =>
           ~Between(tag, 128, 191) /\ ~Between(tag, 192, 207) /\ ~Between(tag, 208, 215) /\ tag # 73
  BY SMT DEF Between
<1> QED BY <1>1, SMT DEF decInt32

\* A form that is one byte.
LEMMA DirectReads ==
  ASSUME NEW k, NEW d, NEW v \in Int, NEW base \in Int, -128 <= v, v <= 127
  PROVE  Reads(Ok(Leaf(k, Diff(base + v, base)), d), Leaf(k, v), d.pos) <=> ~(v < 0)
<1> DEFINE x == Diff(base + v, base)
<1>1. x = v <=> ~(v < 0)
  <2>1. x \in Int /\ x = IF v < 0 THEN v + 256 ELSE v BY DiffValue
  <2> HIDE DEF x
  <2> QED BY <2>1, SMT
<1> HIDE DEF x
<1>2. Reads(Ok(Leaf(k, x), d), Leaf(k, x), d.pos) BY SMT DEF Reads, Ok
<1> QED BY <1>1, <1>2, ReadsOne DEF x

\* A form of a scalar after its tag is read.
LEMMA Begin ==
  ASSUME NEW tag, NEW v, NEW w \in Nat, NEW b, NEW d, Occurs(Tagged(tag, v, w), b, d)
  PROVE  /\ ~AtEnd(b, d) /\ Tag(b, d) = tag /\ Ahead(b, Skip(b, d), v, w)
         /\ Skip(b, d).pos \in Nat
         /\ Skip(b, d).pos = d.pos + 1
         /\ Skip(b, d).pos + w = d.pos + Len(Tagged(tag, v, w))
<1> DEFINE e == Skip(b, d)
           l == Len(Tagged(tag, v, w))
           q == d.pos
<1>1. l = w + 1 BY TaggedBytes
<1>2. ~AtEnd(b, d) /\ Tag(b, d) = tag /\ Ahead(b, e, v, w) /\ q \in Nat /\ e.pos = q + 1 BY AfterTag
<1> HIDE DEF e, l, q
<1>3. e.pos \in Nat /\ e.pos + w = q + l BY <1>1, <1>2, SMT
<1> QED BY <1>2, <1>3 DEF e, l, q

\* A compact form with w = 1 or 2 bytes after a tag base + (v \div Shift(w)).
LEMMA CompactBegin ==
  ASSUME NEW v \in Int, NEW w \in {1, 2}, NEW base \in Int, NEW low \in Int, NEW high \in Int,
         NEW b, NEW d,
         Between(base + (v \div Shift(w)), low, high), base - 128 <= low, high <= base + 127,
         Occurs(Tagged(base + (v \div Shift(w)), v, w), b, d)
  PROVE  LET q == v \div Shift(w) IN
         /\ q \in Int /\ -128 <= q /\ q <= 127 /\ base + q \in Int
         /\ ~AtEnd(b, d) /\ Tag(b, d) = base + q /\ Ahead(b, Skip(b, d), v, w)
         /\ Skip(b, d).pos + w = d.pos + Len(Tagged(base + q, v, w))
<1> DEFINE q == v \div Shift(w)
<1>1. q \in Int BY LowBytesValue
<1>2. Between(base + q, low, high) OBVIOUS
<1>a. w \in Nat BY SMT
<1>b. Occurs(Tagged(base + q, v, w), b, d) OBVIOUS
<1> HIDE DEF q
<1>3. -128 <= q /\ q <= 127 /\ base + q \in Int BY <1>1, <1>2, SMT DEF Between
<1>4. /\ ~AtEnd(b, d) /\ Tag(b, d) = base + q /\ Ahead(b, Skip(b, d), v, w)
      /\ Skip(b, d).pos + w = d.pos + Len(Tagged(base + q, v, w))
  BY <1>a, <1>b, Begin
<1> QED BY <1>1, <1>3, <1>4 DEF q

\* A compact form that is read with Number.
LEMMA CompactForm ==
  ASSUME NEW v \in Int, NEW w \in {1, 2}, NEW base \in Int, NEW low \in Int, NEW high \in Int,
         NEW b, NEW d, NEW k, NEW q, q = v \div Shift(w),
         Between(base + q, low, high), base - 128 <= low, high <= base + 127,
         Occurs(Tagged(base + q, v, w), b, d)
  PROVE  /\ base + q \in Int /\ ~AtEnd(b, d) /\ Tag(b, d) = base + q
         /\ Reads(Number(k, b, Skip(b, d), w, Diff(base + q, base)), Leaf(k, v),
                  d.pos + Len(Tagged(base + q, v, w))) <=> ~(v < 0)
<1> DEFINE e == Skip(b, d)
<1>1. /\ q \in Int /\ -128 <= q /\ q <= 127 /\ base + q \in Int
      /\ ~AtEnd(b, d) /\ Tag(b, d) = base + q /\ Ahead(b, e, v, w)
      /\ e.pos + w = d.pos + Len(Tagged(base + q, v, w))
  BY CompactBegin
<1>2. Reads(Number(k, b, e, w, Diff(base + q, base)), Leaf(k, v), e.pos + w) <=> ~(v < 0)
  BY <1>1, CompactReads, ZenonT(60)
<1> QED BY <1>1, <1>2

\* The form of a production, and the condition for it.
LEMMA WhenIs ==
  ASSUME NEW c, NEW s, NEW odd, NEW f \in When(c, s, odd)
  PROVE  c /\ f = [b |-> s, odd |-> odd]
BY SMT DEF When

\* The forms of an int.
LEMMA IntFormIs ==
  ASSUME NEW v, NEW f \in IntForms(v)
  PROVE  LET p1 == v \div Shift(1)
             p2 == v \div Shift(2)
         IN
         \/ f = [b |-> Tagged(73, v, 4), odd |-> FALSE]
         \/ Between(v, 128 - 144, 191 - 144) /\ f = [b |-> Tagged(144 + v, v, 0), odd |-> v < 0]
         \/ Between(200 + p1, 192, 207) /\ f = [b |-> Tagged(200 + p1, v, 1), odd |-> v < 0]
         \/ Between(212 + p2, 208, 215) /\ f = [b |-> Tagged(212 + p2, v, 2), odd |-> v < 0]
<1> DEFINE p1 == v \div Shift(1)
           p2 == v \div Shift(2)
<1>1. \/ f \in When(TRUE, Tagged(73, v, 4), FALSE)
      \/ f \in When(Between(v, 128 - 144, 191 - 144), Tagged(144 + v, v, 0), v < 0)
      \/ f \in When(Between(200 + p1, 192, 207), Tagged(200 + p1, v, 1), v < 0)
      \/ f \in When(Between(212 + p2, 208, 215), Tagged(212 + p2, v, 2), v < 0)
  BY DEF IntForms
<1>2. f \in When(TRUE, Tagged(73, v, 4), FALSE) => f = [b |-> Tagged(73, v, 4), odd |-> FALSE] BY WhenIs
<1>3. f \in When(Between(v, 128 - 144, 191 - 144), Tagged(144 + v, v, 0), v < 0) =>
        Between(v, 128 - 144, 191 - 144) /\ f = [b |-> Tagged(144 + v, v, 0), odd |-> v < 0]
  BY WhenIs
<1>4. f \in When(Between(200 + p1, 192, 207), Tagged(200 + p1, v, 1), v < 0) =>
        Between(200 + p1, 192, 207) /\ f = [b |-> Tagged(200 + p1, v, 1), odd |-> v < 0]
  BY WhenIs
<1>5. f \in When(Between(212 + p2, 208, 215), Tagged(212 + p2, v, 2), v < 0) =>
        Between(212 + p2, 208, 215) /\ f = [b |-> Tagged(212 + p2, v, 2), odd |-> v < 0]
  BY WhenIs
<1> QED BY <1>1, <1>2, <1>3, <1>4, <1>5

\* Every form of every int is read as it, up to its end, unless it is odd.
LEMMA IntReads ==
  ASSUME NEW v \in Int32, NEW f \in IntForms(v), NEW b, NEW d, Occurs(f.b, b, d)
  PROVE  Reads(DecodeValue(b, d), Leaf("int", v), d.pos + Len(f.b)) <=> ~f.odd
<1> DEFINE e == Skip(b, d)
           r == DecodeValue(b, d)
           end == d.pos + Len(f.b)
           p1 == v \div Shift(1)
           p2 == v \div Shift(2)
<1>0. v \in Int BY Int32Bounds
<1>1. \/ f = [b |-> Tagged(73, v, 4), odd |-> FALSE]
      \/ Between(v, 128 - 144, 191 - 144) /\ f = [b |-> Tagged(144 + v, v, 0), odd |-> v < 0]
      \/ Between(200 + p1, 192, 207) /\ f = [b |-> Tagged(200 + p1, v, 1), odd |-> v < 0]
      \/ Between(212 + p2, 208, 215) /\ f = [b |-> Tagged(212 + p2, v, 2), odd |-> v < 0]
  BY IntFormIs
<1>2. CASE f = [b |-> Tagged(73, v, 4), odd |-> FALSE]
  <2>1. 73 \in Int /\ 4 \in Nat /\ IntTag(73) /\ ~f.odd BY <1>2, SMT DEF IntTag
  <2>2. f.b = Tagged(73, v, 4) BY <1>2
  <2>3. ~AtEnd(b, d) /\ Tag(b, d) = 73 /\ Ahead(b, e, v, 4) /\ e.pos + 4 = end BY <2>1, <2>2, Begin
  <2>4. r = decInt32(b, e, 73) BY <2>1, <2>3, Dispatch
  <2>5. r = Word("int", b, e) BY <2>1, <2>4, decInt32Cases
  <2>6. Reads(Word("int", b, e), Leaf("int", v), e.pos + 4) BY <2>3, WordReads
  <2> QED BY <2>1, <2>3, <2>5, <2>6
<1>3. CASE Between(v, 128 - 144, 191 - 144) /\ f = [b |-> Tagged(144 + v, v, 0), odd |-> v < 0]
  <2> DEFINE tag == 144 + v
  <2>1. tag \in Int /\ 0 \in Nat /\ Between(tag, 128, 191) /\ IntTag(tag) /\ -128 <= v /\ v <= 127
    BY <1>0, <1>3, SMT DEF IntTag, Between
  <2>2. f.b = Tagged(tag, v, 0) /\ (f.odd <=> v < 0) BY <1>3
  <2>a. Diff(tag, 144) = Diff(144 + v, 144) OBVIOUS
  <2> HIDE DEF tag
  <2>3. ~AtEnd(b, d) /\ Tag(b, d) = tag /\ e.pos \in Nat /\ e.pos + 0 = end BY <2>1, <2>2, Begin
  <2>4. r = decInt32(b, e, tag) BY <2>1, <2>3, Dispatch
  <2>5. r = Ok(Leaf("int", Diff(144 + v, 144)), e) BY <2>1, <2>4, <2>a, decInt32Cases
  <2>6. 144 \in Int BY SMT
  <2>7. e.pos + 0 = e.pos BY <2>3, SMT
  <2>8. Reads(Ok(Leaf("int", Diff(144 + v, 144)), e), Leaf("int", v), e.pos) <=> ~(v < 0)
    BY <1>0, <2>1, <2>6, DirectReads
  <2> QED BY <2>2, <2>3, <2>5, <2>7, <2>8
<1>4. CASE Between(200 + p1, 192, 207) /\ f = [b |-> Tagged(200 + p1, v, 1), odd |-> v < 0]
  <2>1. f.b = Tagged(200 + p1, v, 1) /\ (f.odd <=> v < 0) BY <1>4
  <2>2. 1 \in {1, 2} /\ 200 \in Int /\ 192 \in Int /\ 207 \in Int /\ 200 - 128 <= 192 /\ 207 <= 200 + 127 BY SMT
  <2>3. /\ 200 + p1 \in Int /\ ~AtEnd(b, d) /\ Tag(b, d) = 200 + p1
        /\ Reads(Number("int", b, e, 1, Diff(200 + p1, 200)), Leaf("int", v), end) <=> ~(v < 0)
    BY <1>0, <1>4, <2>1, <2>2, CompactForm
  <2>4. IntTag(200 + p1) BY <1>4, <2>3, SMT DEF IntTag, Between
  <2>5. r = decInt32(b, e, 200 + p1) BY <2>3, <2>4, Dispatch
  <2>6. r = Number("int", b, e, 1, Diff(200 + p1, 200)) BY <1>4, <2>3, <2>5, decInt32Cases
  <2> QED BY <2>1, <2>3, <2>6
<1>5. CASE Between(212 + p2, 208, 215) /\ f = [b |-> Tagged(212 + p2, v, 2), odd |-> v < 0]
  <2>1. f.b = Tagged(212 + p2, v, 2) /\ (f.odd <=> v < 0) BY <1>5
  <2>2. 2 \in {1, 2} /\ 212 \in Int /\ 208 \in Int /\ 215 \in Int /\ 212 - 128 <= 208 /\ 215 <= 212 + 127 BY SMT
  <2>3. /\ 212 + p2 \in Int /\ ~AtEnd(b, d) /\ Tag(b, d) = 212 + p2
        /\ Reads(Number("int", b, e, 2, Diff(212 + p2, 212)), Leaf("int", v), end) <=> ~(v < 0)
    BY <1>0, <1>5, <2>1, <2>2, CompactForm
  <2>4. IntTag(212 + p2) BY <1>5, <2>3, SMT DEF IntTag, Between
  <2>5. r = decInt32(b, e, 212 + p2) BY <2>3, <2>4, Dispatch
  <2>6. r = Number("int", b, e, 2, Diff(212 + p2, 212)) BY <1>5, <2>3, <2>5, decInt32Cases
  <2> QED BY <2>1, <2>3, <2>6
<1> QED BY <1>1, <1>2, <1>3, <1>4, <1>5

\* Where next(l) leaves the decoder.
LEMMA TakeEnds ==
  ASSUME NEW b, NEW d, NEW l
  PROVE  \/ d.pos + l <= Len(b) /\ Take(b, d, l).st = "ok" /\ Take(b, d, l).d.pos = d.pos + l
         \/ ~(d.pos + l <= Len(b)) /\ Take(b, d, l).st = "err" /\ Take(b, d, l).v = Null
<1>1. CASE d.pos + l <= Len(b)
  <2> DEFINE e == [d EXCEPT !.pos = @ + l]
             s == SubSeq(b, d.pos + 1, d.pos + l)
  <2>1. Take(b, d, l) = Ok(s, e) BY <1>1 DEF Take
  <2>2. e.pos = d.pos + l BY SMT
  <2> HIDE DEF e, s
  <2> QED BY <1>1, <2>1, <2>2, SMT DEF Ok
<1>2. CASE ~(d.pos + l <= Len(b))
  <2> DEFINE e == [d EXCEPT !.pos = Len(b)]
  <2>1. Take(b, d, l) = Bad("err", e) BY <1>2 DEF Take
  <2> HIDE DEF e
  <2> QED BY <1>2, <2>1, SMT DEF Bad
<1> QED BY <1>1, <1>2

\* The first of four bytes.
LEMMA FirstByte ==
  ASSUME NEW b, NEW e, NEW v \in Int, Ahead(b, e, v, 4)
  PROVE  Tag(b, e) \in Int /\ Tag(b, e) = (v \div 16777216) % 256
<1>1. e.pos \in Nat /\ Len(b) \in Nat /\ e.pos + 4 <= Len(b) BY DEF Ahead, Room
<1>2. e.pos < Len(b) BY <1>1, SMT
<1>3. b[e.pos + 1] = Octet(v, 3)
  <2>1. 1 \in 1 .. 4 /\ 4 - 1 = 3 BY SMT
  <2> QED BY <2>1 DEF Ahead
<1>4. Tag(b, e) = Octet(v, 3) BY <1>2, <1>3 DEF Tag
<1>5. Octet(v, 3) = (v \div 16777216) % 256 BY OctetValues
<1>6. (v \div 16777216) % 256 \in Int BY SMT
<1> QED BY <1>4, <1>5, <1>6

\* x59 and x5f: decInt32 is called for the first of the four bytes as its tag.  It
\* does not come to their end, unless that byte is 'I' and the bytes after it are too
\* few: that is an error.
LEMMA WrongEnd ==
  ASSUME NEW b, NEW e, NEW v, NEW t \in Int, Ahead(b, e, v, 4), t = Tag(b, e)
  PROVE  LET r == decInt32(b, Skip(b, e), t) IN
         /\ r.st = "ok" => r.d.pos # e.pos + 4
         /\ r.d.pos # e.pos + 4 \/ (t = 73 /\ r.v = Null)
<1> DEFINE g == Skip(b, e)
           r == decInt32(b, g, t)
           p == e.pos
           n == Len(b)
<1>1. p \in Nat /\ n \in Nat /\ p + 4 <= n BY DEF Ahead, Room
<1>2. g.pos = p + 1
  <2>1. p < n BY <1>1, SMT
  <2>2. g = [e EXCEPT !.pos = @ + 1] BY <2>1 DEF Skip
  <2>3. [e EXCEPT !.pos = @ + 1].pos = e.pos + 1 BY SMT
  <2> QED BY <2>2, <2>3
<1>3. ASSUME NEW k, NEW w \in {1, 2}, NEW high
      PROVE  Number(k, b, g, w, high).d.pos = g.pos + w
  <2> DEFINE t1 == Take(b, g, w)
             q == g.pos
  <2>1. q = p + 1 BY <1>2
  <2>2. t1.st = "ok" /\ t1.d.pos = g.pos + w
    <3>1. q + w <= n
      <4> HIDE DEF q, n, p
      <4> QED BY <1>1, <2>1, SMT
    <3> QED BY <3>1, TakeEnds
  <2> HIDE DEF t1, q
  <2>3. Number(k, b, g, w, high) = Ok(Leaf(k, high * Shift(w) + Unsigned(t1.v)), t1.d) BY <2>2 DEF Number, Bind, t1
  <2> QED BY <2>2, <2>3, SMT DEF Ok
<1> HIDE DEF g
<1>4. CASE Between(t, 128, 191)
  <2>1. r = Ok(Leaf("int", Diff(t, 144)), g) BY <1>4, decInt32Cases
  <2>2. r.d.pos = p + 1 BY <1>2, <2>1, SMT DEF Ok
  <2> HIDE DEF r, p, n
  <2>3. r.d.pos # p + 4 BY <1>1, <2>2, SMT
  <2> QED BY <2>3 DEF r, p, n, g
<1>5. CASE Between(t, 192, 207)
  <2>1. r = Number("int", b, g, 1, Diff(t, 200)) BY <1>5, decInt32Cases
  <2>2. r.d.pos = g.pos + 1 BY <1>3, <2>1
  <2> HIDE DEF r, p, n
  <2>3. r.d.pos # p + 4 BY <1>1, <1>2, <2>2, SMT
  <2> QED BY <2>3 DEF r, p, n, g
<1>6. CASE Between(t, 208, 215)
  <2>1. r = Number("int", b, g, 2, Diff(t, 212)) BY <1>6, decInt32Cases
  <2>2. r.d.pos = g.pos + 2 BY <1>3, <2>1
  <2> HIDE DEF r, p, n
  <2>3. r.d.pos # p + 4 BY <1>1, <1>2, <2>2, SMT
  <2> QED BY <2>3 DEF r, p, n, g
<1>7. CASE t = 73
  <2> DEFINE u == Take(b, g, 4)
  <2>1. r = Word("int", b, g) BY <1>7, decInt32Cases
  <2>2. \/ u.st = "ok" /\ u.d.pos = g.pos + 4
        \/ u.st = "err" /\ u.v = Null
    BY TakeEnds
  <2> HIDE DEF u
  <2>3. r = IF u.st = "ok" THEN Ok(Leaf("int", Signed(u.v)), u.d) ELSE u BY <2>1 DEF Word, Bind, u
  <2>4. CASE u.st = "ok" /\ u.d.pos = g.pos + 4
    <3>1. r.d.pos = g.pos + 4 BY <2>3, <2>4, SMT DEF Ok
    <3> HIDE DEF r, p, n
    <3>2. r.d.pos # p + 4 BY <1>1, <1>2, <3>1, SMT
    <3> QED BY <3>2 DEF r, p, n, g
  <2>5. CASE u.st = "err" /\ u.v = Null
    <3>1. r.st = "err" /\ r.v = Null BY <2>3, <2>5
    <3> QED BY <1>7, <3>1 DEF g
  <2> QED BY <2>2, <2>4, <2>5
<1>8. CASE ~Between(t, 128, 215) /\ t # 73
  <2>1. r = Bad("err", g) BY <1>8, decInt32Cases
  <2>2. r.d.pos = p + 1 BY <1>2, <2>1, SMT DEF Bad
  <2> HIDE DEF r, p, n
  <2>3. r.d.pos # p + 4 BY <1>1, <2>2, SMT
  <2> QED BY <2>3 DEF r, p, n, g
<1>9. \/ Between(t, 128, 191) \/ Between(t, 192, 207) \/ Between(t, 208, 215)
      \/ t = 73 \/ (~Between(t, 128, 215) /\ t # 73)
  BY SMT DEF Between
<1> QED BY <1>4, <1>5, <1>6, <1>7, <1>8, <1>9

\* decInt64, by its tag, for the tags of forms of longs.
LEMMA decInt64Cases ==
  ASSUME NEW b, NEW d, NEW tag \in Int
  PROVE  /\ tag = 89 => decInt64(b, d, tag) = As("long", decInt32(b, Skip(b, d), Tag(b, d)))
         /\ Between(tag, 216, 239) => decInt64(b, d, tag) = Ok(Leaf("long", Diff(tag, 224)), d)
         /\ Between(tag, 240, 255) => decInt64(b, d, tag) = Number("long", b, d, 1, Diff(tag, 248))
         /\ Between(tag, 56, 63) => decInt64(b, d, tag) = Number("long", b, d, 2, Diff(tag, 60))
         /\ tag = 76 => decInt64(b, d, tag) = Long("long", b, d)
<1> DEFINE c1 == tag \in {78, 70, 91}
           c2 == tag \in {84, 92}
           c3 == Between(tag, 128, 215)
           c4 == tag = 93
           c5 == tag = 94
           c6 == tag \in {73, 89, 95}
           c7 == Between(tag, 216, 239)
           c8 == Between(tag, 240, 255)
           c9 == Between(tag, 56, 63)
           c10 == tag = 76
<1>1. /\ tag = 89 => c6 /\ ~c1 /\ ~c2 /\ ~c3 /\ ~c4 /\ ~c5 /\ ~c7 /\ ~c8 /\ ~c9 /\ ~c10
      /\ c7 => ~c1 /\ ~c2 /\ ~c3 /\ ~c4 /\ ~c5 /\ ~c6 /\ ~c8 /\ ~c9 /\ ~c10
      /\ c8 => ~c1 /\ ~c2 /\ ~c3 /\ ~c4 /\ ~c5 /\ ~c6 /\ ~c7 /\ ~c9 /\ ~c10
      /\ c9 => ~c1 /\ ~c2 /\ ~c3 /\ ~c4 /\ ~c5 /\ ~c6 /\ ~c7 /\ ~c8 /\ ~c10
      /\ c10 => ~c1 /\ ~c2 /\ ~c3 /\ ~c4 /\ ~c5 /\ ~c6 /\ ~c7 /\ ~c8 /\ ~c9
  BY SMT DEF Between
<1> DEFINE r1 == Ok(Leaf("long", 0), d)
           r2 == Ok(Leaf("long", 1), d)
           r3 == As("long", decInt32(b, d, tag))
           r4 == Ok(Leaf("long", Tag(b, d)), Skip(b, d))
           r5 == Number("long", b, d, 2, 0)
           r6 == As("long", decInt32(b, Skip(b, d), Tag(b, d)))
           r7 == Ok(Leaf("long", Diff(tag, 224)), d)
           r8 == Number("long", b, d, 1, Diff(tag, 248))
           r9 == Number("long", b, d, 2, Diff(tag, 60))
           r10 == Long("long", b, d)
           r11 == Bad("err", d)
<1>2. decInt64(b, d, tag) =
        CASE c1 -> r1
          [] c2 -> r2
          [] c3 -> r3
          [] c4 -> r4
          [] c5 -> r5
          [] c6 -> r6
          [] c7 -> r7
          [] c8 -> r8
          [] c9 -> r9
          [] c10 -> r10
          [] OTHER -> r11
  BY DEF decInt64
<1> HIDE DEF c1, c2, c3, c4, c5, c6, c7, c8, c9, c10, r1, r2, r3, r4, r5, r6, r7, r8, r9, r10, r11
<1>a. (c6 /\ ~c1 /\ ~c2 /\ ~c3 /\ ~c4 /\ ~c5 /\ ~c7 /\ ~c8 /\ ~c9 /\ ~c10) => decInt64(b, d, tag) = r6
  BY <1>2
<1>b. (c7 /\ ~c1 /\ ~c2 /\ ~c3 /\ ~c4 /\ ~c5 /\ ~c6 /\ ~c8 /\ ~c9 /\ ~c10) => decInt64(b, d, tag) = r7
  BY <1>2
<1>c. (c8 /\ ~c1 /\ ~c2 /\ ~c3 /\ ~c4 /\ ~c5 /\ ~c6 /\ ~c7 /\ ~c9 /\ ~c10) => decInt64(b, d, tag) = r8
  BY <1>2
<1>d. (c9 /\ ~c1 /\ ~c2 /\ ~c3 /\ ~c4 /\ ~c5 /\ ~c6 /\ ~c7 /\ ~c8 /\ ~c10) => decInt64(b, d, tag) = r9
  BY <1>2
<1>e. (c10 /\ ~c1 /\ ~c2 /\ ~c3 /\ ~c4 /\ ~c5 /\ ~c6 /\ ~c7 /\ ~c8 /\ ~c9) => decInt64(b, d, tag) = r10
  BY <1>2
<1>4. (c7 <=> Between(tag, 216, 239)) /\ (c8 <=> Between(tag, 240, 255)) /\ (c9 <=> Between(tag, 56, 63))
      /\ (c10 <=> tag = 76)
  BY DEF c7, c8, c9, c10
<1> QED BY <1>1, <1>a, <1>b, <1>c, <1>d, <1>e, <1>4 DEF r6, r7, r8, r9, r10

\* The forms of a long.
LEMMA LongFormIs ==
  ASSUME NEW v, NEW f \in LongForms(v)
  PROVE  LET p1 == v \div Shift(1)
             p2 == v \div Shift(2)
         IN
         \/ f = [b |-> Tagged(76, v, 8), odd |-> FALSE]
         \/ f = [b |-> Tagged(89, v, 4), odd |-> TRUE]
         \/ Between(v, 216 - 224, 239 - 224) /\ f = [b |-> Tagged(224 + v, v, 0), odd |-> v < 0]
         \/ Between(248 + p1, 240, 255) /\ f = [b |-> Tagged(248 + p1, v, 1), odd |-> v < 0]
         \/ Between(60 + p2, 56, 63) /\ f = [b |-> Tagged(60 + p2, v, 2), odd |-> v < 0]
<1> DEFINE p1 == v \div Shift(1)
           p2 == v \div Shift(2)
<1>1. \/ f \in When(TRUE, Tagged(76, v, 8), FALSE)
      \/ f \in When(TRUE, Tagged(89, v, 4), TRUE)
      \/ f \in When(Between(v, 216 - 224, 239 - 224), Tagged(224 + v, v, 0), v < 0)
      \/ f \in When(Between(248 + p1, 240, 255), Tagged(248 + p1, v, 1), v < 0)
      \/ f \in When(Between(60 + p2, 56, 63), Tagged(60 + p2, v, 2), v < 0)
  BY ZenonT(60) DEF LongForms
<1>2. f \in When(TRUE, Tagged(76, v, 8), FALSE) => f = [b |-> Tagged(76, v, 8), odd |-> FALSE] BY WhenIs
<1>3. f \in When(TRUE, Tagged(89, v, 4), TRUE) => f = [b |-> Tagged(89, v, 4), odd |-> TRUE] BY WhenIs, ZenonT(60)
<1>4. f \in When(Between(v, 216 - 224, 239 - 224), Tagged(224 + v, v, 0), v < 0) =>
        Between(v, 216 - 224, 239 - 224) /\ f = [b |-> Tagged(224 + v, v, 0), odd |-> v < 0]
  BY WhenIs
<1>5. f \in When(Between(248 + p1, 240, 255), Tagged(248 + p1, v, 1), v < 0) =>
        Between(248 + p1, 240, 255) /\ f = [b |-> Tagged(248 + p1, v, 1), odd |-> v < 0]
  BY WhenIs
<1>6. f \in When(Between(60 + p2, 56, 63), Tagged(60 + p2, v, 2), v < 0) =>
        Between(60 + p2, 56, 63) /\ f = [b |-> Tagged(60 + p2, v, 2), odd |-> v < 0]
  BY WhenIs
<1> QED BY <1>1, <1>2, <1>3, <1>4, <1>5, <1>6, ZenonT(30)

\* Every form of every long is read as it, up to its end, unless it is odd.
LEMMA LongFormReads ==
  ASSUME NEW v \in Int32, NEW f \in LongForms(v), NEW b, NEW d, Occurs(f.b, b, d)
  PROVE  Reads(DecodeValue(b, d), Leaf("long", v), d.pos + Len(f.b)) <=> ~f.odd
<1> DEFINE e == Skip(b, d)
           r == DecodeValue(b, d)
           end == d.pos + Len(f.b)
           p1 == v \div Shift(1)
           p2 == v \div Shift(2)
<1>0. v \in Int BY Int32Bounds
<1>1. \/ f = [b |-> Tagged(76, v, 8), odd |-> FALSE]
      \/ f = [b |-> Tagged(89, v, 4), odd |-> TRUE]
      \/ Between(v, 216 - 224, 239 - 224) /\ f = [b |-> Tagged(224 + v, v, 0), odd |-> v < 0]
      \/ Between(248 + p1, 240, 255) /\ f = [b |-> Tagged(248 + p1, v, 1), odd |-> v < 0]
      \/ Between(60 + p2, 56, 63) /\ f = [b |-> Tagged(60 + p2, v, 2), odd |-> v < 0]
  BY LongFormIs
<1>2. CASE f = [b |-> Tagged(76, v, 8), odd |-> FALSE]
  <2>1. 76 \in Int /\ 8 \in Nat /\ LongTag(76) /\ ~f.odd BY <1>2, SMT DEF LongTag
  <2>2. f.b = Tagged(76, v, 8) BY <1>2
  <2>3. ~AtEnd(b, d) /\ Tag(b, d) = 76 /\ Ahead(b, e, v, 8) /\ e.pos + 8 = end BY <2>1, <2>2, Begin
  <2>4. r = decInt64(b, e, 76) BY <2>1, <2>3, Dispatch
  <2>5. r = Long("long", b, e) BY <2>1, <2>4, decInt64Cases
  <2>6. Reads(Long("long", b, e), Leaf("long", v), e.pos + 8) BY <2>3, LongReads
  <2> QED BY <2>1, <2>3, <2>5, <2>6
<1>3. CASE f = [b |-> Tagged(89, v, 4), odd |-> TRUE]
  <2> DEFINE t == Tag(b, e)
             m == decInt32(b, Skip(b, e), t)
  <2>1. 89 \in Int /\ 4 \in Nat /\ LongTag(89) /\ f.odd BY <1>3, SMT DEF LongTag
  <2>2. f.b = Tagged(89, v, 4) BY <1>3
  <2>3. ~AtEnd(b, d) /\ Tag(b, d) = 89 /\ Ahead(b, e, v, 4) /\ e.pos + 4 = end BY <2>1, <2>2, Begin
  <2>4. r = decInt64(b, e, 89) BY <2>1, <2>3, Dispatch
  <2>5. r = As("long", m) BY <2>1, <2>4, decInt64Cases
  <2>6. t \in Int BY <1>0, <2>3, FirstByte
  <2>7. m.st = "ok" => m.d.pos # end BY <2>3, <2>6, WrongEnd
  <2> HIDE DEF m
  <2>8. r = IF m.st = "ok" THEN Ok(Leaf("long", m.v.n), m.d) ELSE m BY <2>5 DEF As, Bind
  <2>9. ~Reads(r, Leaf("long", v), end)
    <3>1. CASE m.st = "ok"
      <4>1. r.d = m.d BY <2>8, <3>1, SMT DEF Ok
      <4> QED BY <2>7, <3>1, <4>1 DEF Reads
    <3>2. CASE m.st # "ok" BY <2>8, <3>2 DEF Reads
    <3> QED BY <3>1, <3>2
  <2> QED BY <2>1, <2>9
<1>4. CASE Between(v, 216 - 224, 239 - 224) /\ f = [b |-> Tagged(224 + v, v, 0), odd |-> v < 0]
  <2> DEFINE tag == 224 + v
  <2>1. tag \in Int /\ 0 \in Nat /\ Between(tag, 216, 239) /\ LongTag(tag) /\ -128 <= v /\ v <= 127
    BY <1>0, <1>4, SMT DEF LongTag, Between
  <2>2. f.b = Tagged(tag, v, 0) /\ (f.odd <=> v < 0) BY <1>4
  <2>a. Diff(tag, 224) = Diff(224 + v, 224) OBVIOUS
  <2> HIDE DEF tag
  <2>3. ~AtEnd(b, d) /\ Tag(b, d) = tag /\ e.pos \in Nat /\ e.pos + 0 = end BY <2>1, <2>2, Begin
  <2>4. r = decInt64(b, e, tag) BY <2>1, <2>3, Dispatch
  <2>5. r = Ok(Leaf("long", Diff(224 + v, 224)), e) BY <2>1, <2>4, <2>a, decInt64Cases
  <2>6. 224 \in Int BY SMT
  <2>7. e.pos + 0 = e.pos BY <2>3, SMT
  <2>8. Reads(Ok(Leaf("long", Diff(224 + v, 224)), e), Leaf("long", v), e.pos) <=> ~(v < 0)
    BY <1>0, <2>1, <2>6, DirectReads
  <2> QED BY <2>2, <2>3, <2>5, <2>7, <2>8
<1>5. CASE Between(248 + p1, 240, 255) /\ f = [b |-> Tagged(248 + p1, v, 1), odd |-> v < 0]
  <2>1. f.b = Tagged(248 + p1, v, 1) /\ (f.odd <=> v < 0) BY <1>5
  <2>2. 1 \in {1, 2} /\ 248 \in Int /\ 240 \in Int /\ 255 \in Int /\ 248 - 128 <= 240 /\ 255 <= 248 + 127 BY SMT
  <2>3. /\ 248 + p1 \in Int /\ ~AtEnd(b, d) /\ Tag(b, d) = 248 + p1
        /\ Reads(Number("long", b, e, 1, Diff(248 + p1, 248)), Leaf("long", v), end) <=> ~(v < 0)
    BY <1>0, <1>5, <2>1, <2>2, CompactForm
  <2>4. LongTag(248 + p1) BY <1>5, <2>3, SMT DEF LongTag, Between
  <2>5. r = decInt64(b, e, 248 + p1) BY <2>3, <2>4, Dispatch
  <2>6. r = Number("long", b, e, 1, Diff(248 + p1, 248)) BY <1>5, <2>3, <2>5, decInt64Cases
  <2> QED BY <2>1, <2>3, <2>6
<1>6. CASE Between(60 + p2, 56, 63) /\ f = [b |-> Tagged(60 + p2, v, 2), odd |-> v < 0]
  <2>1. f.b = Tagged(60 + p2, v, 2) /\ (f.odd <=> v < 0) BY <1>6
  <2>2. 2 \in {1, 2} /\ 60 \in Int /\ 56 \in Int /\ 63 \in Int /\ 60 - 128 <= 56 /\ 63 <= 60 + 127 BY SMT
  <2>3. /\ 60 + p2 \in Int /\ ~AtEnd(b, d) /\ Tag(b, d) = 60 + p2
        /\ Reads(Number("long", b, e, 2, Diff(60 + p2, 60)), Leaf("long", v), end) <=> ~(v < 0)
    BY <1>0, <1>6, <2>1, <2>2, CompactForm
  <2>4. LongTag(60 + p2) BY <1>6, <2>3, SMT DEF LongTag, Between
  <2>5. r = decInt64(b, e, 60 + p2) BY <2>3, <2>4, Dispatch
  <2>6. r = Number("long", b, e, 2, Diff(60 + p2, 60)) BY <1>6, <2>3, <2>5, decInt64Cases
  <2> QED BY <2>1, <2>3, <2>6
<1> QED BY <1>1, <1>2, <1>3, <1>4, <1>5, <1>6

\* decDouble, by its tag, for the tags of forms of doubles.
LEMMA decDoubleCases ==
  ASSUME NEW b, NEW d, NEW tag \in Int
  PROVE  /\ tag \in {91, 92} => decDouble(b, d, tag) = Ok(Leaf("double", 2 * (tag - 91)), d)
         /\ tag = 93 => decDouble(b, d, tag) = Ok(Leaf("double", 2 * Tag(b, d)), Skip(b, d))
         /\ tag = 94 => decDouble(b, d, tag) = Scaled(Number("double", b, d, 2, 0), 2)
         /\ tag = 95 => decDouble(b, d, tag) =
              LET m == decInt32(b, Skip(b, d), Tag(b, d)) IN Scaled(As("double", Ok(m.v, m.d)), 2)
         /\ tag = 68 => decDouble(b, d, tag) = Long("double", b, d)
<1> DEFINE m == decInt32(b, Skip(b, d), Tag(b, d))
           r1 == Ok(Leaf("double", 2 * (tag - 91)), d)
           r2 == Ok(Leaf("double", 2 * Tag(b, d)), Skip(b, d))
           r3 == Scaled(Number("double", b, d, 2, 0), 2)
           r4 == Scaled(As("double", Ok(m.v, m.d)), 2)
           r5 == Long("double", b, d)
           r6 == Bad("err", d)
<1>1. decDouble(b, d, tag) =
        CASE tag \in {91, 92} -> r1 [] tag = 93 -> r2 [] tag = 94 -> r3 [] tag = 95 -> r4
          [] tag = 68 -> r5 [] tag = 89 -> m [] OTHER -> r6
  BY DEF decDouble
<1> HIDE DEF m, r1, r2, r3, r4, r5, r6
<1>2. /\ tag \in {91, 92} => decDouble(b, d, tag) = r1
      /\ tag = 93 => decDouble(b, d, tag) = r2
      /\ tag = 94 => decDouble(b, d, tag) = r3
      /\ tag = 95 => decDouble(b, d, tag) = r4
      /\ tag = 68 => decDouble(b, d, tag) = r5
  BY <1>1, SMT
<1> QED BY <1>2 DEF r1, r2, r3, r4, r5, m

\* A number that is multiplied after it is read.
LEMMA ScaledReads ==
  ASSUME NEW r, NEW k, NEW x, NEW end, NEW f, Reads(r, Leaf(k, x), end),
         Between(x, -(MaxInt \div f), MaxInt \div f)
  PROVE  Reads(Scaled(r, f), Leaf(k, x * f), end)
<1>1. r.st = "ok" /\ r.v = Leaf(k, x) /\ r.d.pos = end BY DEF Reads
<1>2. r.v.n = x /\ r.v.k = k BY <1>1 DEF Leaf
<1>3. Scaled(r, f) = Ok(Leaf(k, x * f), r.d) BY <1>1, <1>2 DEF Scaled, Bind
<1> DEFINE y == Leaf(k, x * f)
           e == r.d
<1>4. Scaled(r, f) = Ok(y, e) /\ e.pos = end BY <1>1, <1>3
<1> HIDE DEF y, e
<1>5. Reads(Ok(y, e), y, end) BY <1>4, SMT DEF Reads, Ok
<1> QED BY <1>4, <1>5 DEF y

\* The double n stands for n / 2.
LEMMA Halves ==
  ASSUME NEW n \in Int, n % 2 = 0
  PROVE  n \div 2 \in Int /\ n = 2 * (n \div 2) /\ n = (n \div 2) * 2
BY SMT

\* A byte that is read without its sign.
LEMMA FitsOne ==
  ASSUME NEW iv \in Int, Fits(iv, 1)
  PROVE  -128 <= iv /\ iv <= 127 /\ Octet(iv, 0) \in Int /\ (2 * Octet(iv, 0) = 2 * iv <=> ~(iv < 0))
<1>1. Between(iv, -(256 \div 2), (256 \div 2) - 1) BY ShiftValues DEF Fits
<1>2. -128 <= iv /\ iv <= 127 BY <1>1, SMT DEF Between
<1>3. iv % 256 = IF iv < 0 THEN iv + 256 ELSE iv BY <1>2, SMT
<1>4. Octet(iv, 0) = iv % 256 BY LowOctets
<1>5. iv % 256 \in Int /\ (2 * (iv % 256) = 2 * iv <=> ~(iv < 0)) BY <1>2, <1>3, SMT
<1> QED BY <1>2, <1>4, <1>5

\* A short that is read without its sign.
LEMMA FitsTwo ==
  ASSUME NEW iv \in Int, Fits(iv, 2)
  PROVE  LET x == 0 * Shift(2) + LowBytes(iv, 2) IN
         /\ x \in Int /\ 0 <= x /\ x <= 65535 /\ Between(x, -(MaxInt \div 2), MaxInt \div 2)
         /\ x * 2 = iv * 2 <=> ~(iv < 0)
<1> DEFINE l == LowBytes(iv, 2)
           x == 0 * Shift(2) + l
           c == iv \div 65536
<1>1. Between(iv, -(65536 \div 2), (65536 \div 2) - 1) BY ShiftValues DEF Fits
<1>2. -32768 <= iv /\ iv <= 32767 BY <1>1, SMT DEF Between
<1>3. c = IF iv < 0 THEN 0 - 1 ELSE 0 BY <1>2, SMT
<1>4. l = iv - 65536 * c /\ l \in Int BY ShiftValues, LowBytesValue, SMT
<1>5. x = l BY <1>4, ShiftValues, SMT
<1> HIDE DEF l, x, c
<1>6. x \in Int /\ 0 <= x /\ x <= 65535 /\ (x * 2 = iv * 2 <=> ~(iv < 0)) BY <1>2, <1>3, <1>4, <1>5, SMT
<1>7. Between(x, -(MaxInt \div 2), MaxInt \div 2) BY <1>6, SMT DEF Between, MaxInt
<1> QED BY <1>6, <1>7 DEF x, l

\* x5f, whose error is not looked at.
LEMMA MillsMisread ==
  ASSUME NEW b, NEW e, NEW n \in Int, Ahead(b, e, 500 * n, 4)
  PROVE  LET m == decInt32(b, Skip(b, e), Tag(b, e))
         IN  ~Reads(Scaled(As("double", Ok(m.v, m.d)), 2), Leaf("double", n), e.pos + 4)
<1> DEFINE t == Tag(b, e)
           m == decInt32(b, Skip(b, e), t)
           x == m.v.n
           r == Scaled(As("double", Ok(m.v, m.d)), 2)
<1>1. 500 * n \in Int BY SMT
<1>2. t \in Int /\ t = ((500 * n) \div 16777216) % 256 BY <1>1, FirstByte
<1>3. m.d.pos # e.pos + 4 \/ (t = 73 /\ m.v = Null) BY <1>2, WrongEnd
<1>4. t = 73 => n # 0
  <2>1. n = 0 => ((500 * n) \div 16777216) % 256 = 0 BY SMT
  <2> HIDE DEF t
  <2>2. 0 # 73 BY SMT
  <2> QED BY <1>2, <2>1, <2>2
<1> HIDE DEF m
<1>5. As("double", Ok(m.v, m.d)) = Ok(Leaf("double", x), m.d) BY SMT DEF As, Bind, Ok
<1>6. r = IF Between(x, -(MaxInt \div 2), MaxInt \div 2)
            THEN Ok(Leaf("double", x * 2), m.d) ELSE Ok(Leaf("large", x), m.d)
  <2> DEFINE y == Leaf("double", x)
             g == m.d
  <2>1. y.n = x /\ y.k = "double" BY DEF Leaf
  <2>2. r = Scaled(Ok(y, g), 2) BY <1>5
  <2> HIDE DEF y, g, x
  <2>3. Ok(y, g).st = "ok" /\ Ok(y, g).v = y /\ Ok(y, g).d = g BY SMT DEF Ok
  <2>4. Scaled(Ok(y, g), 2) =
          IF Between(y.n, -(MaxInt \div 2), MaxInt \div 2)
            THEN Ok(Leaf(y.k, y.n * 2), g) ELSE Ok(Leaf("large", y.n), g)
    BY <2>3 DEF Scaled, Bind
  <2> QED BY <2>1, <2>2, <2>4 DEF g, x
<1>7. r.d = m.d BY <1>6, SMT DEF Ok
<1>8. m.d.pos # e.pos + 4 => ~Reads(r, Leaf("double", n), e.pos + 4) BY <1>7 DEF Reads
<1>9. ASSUME t = 73, m.v = Null
      PROVE  ~Reads(r, Leaf("double", n), e.pos + 4)
  <2>1. x = 0 BY <1>9 DEF Null, Leaf
  <2>2. Between(0, -(MaxInt \div 2), MaxInt \div 2) /\ 0 * 2 = 0 BY SMT DEF Between, MaxInt
  <2>3. r = Ok(Leaf("double", 0), m.d) BY <1>6, <2>1, <2>2
  <2>4. r.v = Leaf("double", 0) BY <2>3, SMT DEF Ok
  <2>5. Leaf("double", 0) # Leaf("double", n) BY <1>4, <1>9, SMT DEF Leaf
  <2> QED BY <2>4, <2>5 DEF Reads
<1>10. ~Reads(r, Leaf("double", n), e.pos + 4) BY <1>3, <1>8, <1>9
<1> QED BY <1>10 DEF m

\* The forms of a double.
LEMMA DoubleFormIs ==
  ASSUME NEW n, NEW f \in DoubleForms(n)
  PROVE  LET iv == n \div 2
             whole == n % 2 = 0
         IN \/ f = [b |-> Tagged(68, n, 8), odd |-> FALSE]
            \/ whole /\ iv \in {0, 1} /\ f = [b |-> Tagged(91 + iv, iv, 0), odd |-> FALSE]
            \/ whole /\ Fits(iv, 1) /\ f = [b |-> Tagged(93, iv, 1), odd |-> iv < 0]
            \/ whole /\ Fits(iv, 2) /\ f = [b |-> Tagged(94, iv, 2), odd |-> iv < 0]
            \/ f = [b |-> Tagged(95, 500 * n, 4), odd |-> TRUE]
<1> DEFINE iv == n \div 2
           whole == n % 2 = 0
<1>1. \/ f \in When(TRUE, Tagged(68, n, 8), FALSE)
      \/ f \in When(whole /\ iv \in {0, 1}, Tagged(91 + iv, iv, 0), FALSE)
      \/ f \in When(whole /\ Fits(iv, 1), Tagged(93, iv, 1), iv < 0)
      \/ f \in When(whole /\ Fits(iv, 2), Tagged(94, iv, 2), iv < 0)
      \/ f \in When(Between(n, -(MaxInt \div 500), MaxInt \div 500), Tagged(95, 500 * n, 4), TRUE)
  BY DEF DoubleForms
<1> HIDE DEF iv, whole
<1>2. f \in When(TRUE, Tagged(68, n, 8), FALSE) => f = [b |-> Tagged(68, n, 8), odd |-> FALSE] BY WhenIs
<1>3. f \in When(whole /\ iv \in {0, 1}, Tagged(91 + iv, iv, 0), FALSE) =>
        whole /\ iv \in {0, 1} /\ f = [b |-> Tagged(91 + iv, iv, 0), odd |-> FALSE]
  BY WhenIs
<1>4. f \in When(whole /\ Fits(iv, 1), Tagged(93, iv, 1), iv < 0) =>
        whole /\ Fits(iv, 1) /\ f = [b |-> Tagged(93, iv, 1), odd |-> iv < 0]
  BY WhenIs, ZenonT(30)
<1>5. f \in When(whole /\ Fits(iv, 2), Tagged(94, iv, 2), iv < 0) =>
        whole /\ Fits(iv, 2) /\ f = [b |-> Tagged(94, iv, 2), odd |-> iv < 0]
  BY WhenIs
<1>6. f \in When(Between(n, -(MaxInt \div 500), MaxInt \div 500), Tagged(95, 500 * n, 4), TRUE) =>
        f = [b |-> Tagged(95, 500 * n, 4), odd |-> TRUE]
  BY DEF When
<1> QED BY <1>1, <1>2, <1>3, <1>4, <1>5, <1>6 DEF iv, whole

\* Every form of every double is read as it, up to its end, unless it is odd.
LEMMA DoubleFormReads ==
  ASSUME NEW n \in Int32, NEW f \in DoubleForms(n), NEW b, NEW d, Occurs(f.b, b, d)
  PROVE  Reads(DecodeValue(b, d), Leaf("double", n), d.pos + Len(f.b)) <=> ~f.odd
<1> DEFINE e == Skip(b, d)
           r == DecodeValue(b, d)
           end == d.pos + Len(f.b)
           iv == n \div 2
           whole == n % 2 = 0
<1>0. n \in Int BY Int32Bounds
<1>1. \/ f = [b |-> Tagged(68, n, 8), odd |-> FALSE]
      \/ whole /\ iv \in {0, 1} /\ f = [b |-> Tagged(91 + iv, iv, 0), odd |-> FALSE]
      \/ whole /\ Fits(iv, 1) /\ f = [b |-> Tagged(93, iv, 1), odd |-> iv < 0]
      \/ whole /\ Fits(iv, 2) /\ f = [b |-> Tagged(94, iv, 2), odd |-> iv < 0]
      \/ f = [b |-> Tagged(95, 500 * n, 4), odd |-> TRUE]
  BY DoubleFormIs
<1>a. whole => iv \in Int /\ n = 2 * iv /\ n = iv * 2 BY <1>0, Halves
<1>b. DoubleTag(68) /\ DoubleTag(91) /\ DoubleTag(92) /\ DoubleTag(93) /\ DoubleTag(94) /\ DoubleTag(95)
      /\ 68 \in Int /\ 91 \in Int /\ 92 \in Int /\ 93 \in Int /\ 94 \in Int /\ 95 \in Int
      /\ 0 \in Nat /\ 1 \in Nat /\ 2 \in Nat /\ 4 \in Nat /\ 8 \in Nat
  BY SMT DEF DoubleTag, Between
<1> HIDE DEF iv, whole
<1>2. CASE f = [b |-> Tagged(68, n, 8), odd |-> FALSE]
  <2>1. ~f.odd /\ f.b = Tagged(68, n, 8) BY <1>2
  <2>3. ~AtEnd(b, d) /\ Tag(b, d) = 68 /\ Ahead(b, e, n, 8) /\ e.pos + 8 = end BY <1>b, <2>1, Begin
  <2>4. r = decDouble(b, e, 68) BY <1>b, <2>3, Dispatch
  <2>5. r = Long("double", b, e) BY <1>b, <2>4, decDoubleCases
  <2>6. Reads(Long("double", b, e), Leaf("double", n), e.pos + 8) BY <2>3, LongReads
  <2> QED BY <2>1, <2>3, <2>5, <2>6
<1>3. CASE whole /\ iv \in {0, 1} /\ f = [b |-> Tagged(91 + iv, iv, 0), odd |-> FALSE]
  <2> DEFINE tag == 91 + iv
  <2>1. ~f.odd /\ f.b = Tagged(tag, iv, 0) BY <1>3
  <2>2. tag \in {91, 92} /\ tag \in Int /\ 2 * (tag - 91) = n BY <1>3, <1>a, SMT
  <2> HIDE DEF tag
  <2>3. ~AtEnd(b, d) /\ Tag(b, d) = tag /\ e.pos \in Nat /\ e.pos + 0 = end BY <1>b, <2>1, Begin
  <2>a. DoubleTag(tag) BY <1>b, <2>2
  <2>4. r = decDouble(b, e, tag) BY <2>2, <2>3, <2>a, Dispatch
  <2>5. r = Ok(Leaf("double", n), e) BY <2>2, <2>4, decDoubleCases
  <2>6. e.pos + 0 = e.pos BY <2>3, SMT
  <2>7. e.pos = end BY <2>3, <2>6
  <2> DEFINE y == Leaf("double", n)
  <2> HIDE DEF e, y, end, r
  <2>8. r = Ok(y, e) BY <2>5 DEF y
  <2>9. Reads(r, y, end) BY <2>7, <2>8, SMT DEF Reads, Ok
  <2> QED BY <2>1, <2>9 DEF y, r, end
<1>4. CASE whole /\ Fits(iv, 1) /\ f = [b |-> Tagged(93, iv, 1), odd |-> iv < 0]
  <2>1. (f.odd <=> iv < 0) /\ f.b = Tagged(93, iv, 1) BY <1>4
  <2>3. ~AtEnd(b, d) /\ Tag(b, d) = 93 /\ Ahead(b, e, iv, 1) /\ e.pos \in Nat /\ e.pos + 1 = end BY <1>b, <2>1, Begin
  <2>4. r = decDouble(b, e, 93) BY <1>b, <2>3, Dispatch
  <2>5. r = Ok(Leaf("double", 2 * Tag(b, e)), Skip(b, e)) BY <1>b, <2>4, decDoubleCases
  <2>6. Tag(b, e) = Octet(iv, 0) /\ Skip(b, e).pos = end
    <3>1. Room(b, e, 1) /\ b[e.pos + 1] = Octet(iv, 0)
      <4>1. 1 \in 1 .. 1 /\ 1 - 1 = 0 BY SMT
      <4> QED BY <2>3, <4>1 DEF Ahead
    <3>2. e.pos < Len(b) BY <3>1, SMT DEF Room
    <3> DEFINE g == [e EXCEPT !.pos = @ + 1]
    <3>3. g.pos = e.pos + 1 BY SMT
    <3>4. Skip(b, e) = g BY <3>2 DEF Skip
    <3> QED BY <2>3, <3>1, <3>2, <3>3, <3>4 DEF Tag
  <2>7. Octet(iv, 0) \in Int /\ (2 * Octet(iv, 0) = 2 * iv <=> ~(iv < 0)) BY <1>4, <1>a, FitsOne
  <2> DEFINE x == 2 * Octet(iv, 0)
             g == Skip(b, e)
  <2>8. r = Ok(Leaf("double", x), g) /\ g.pos = end BY <2>5, <2>6
  <2>9. x = n <=> ~(iv < 0) BY <1>4, <1>a, <2>7
  <2> HIDE DEF x, g, r, end
  <2>10. Reads(r, Leaf("double", x), end) BY <2>8, SMT DEF Reads, Ok
  <2>11. Reads(r, Leaf("double", n), end) <=> x = n BY <2>10, ReadsOne
  <2> QED BY <2>1, <2>9, <2>11 DEF r, end
<1>5. CASE whole /\ Fits(iv, 2) /\ f = [b |-> Tagged(94, iv, 2), odd |-> iv < 0]
  <2> DEFINE x == 0 * Shift(2) + LowBytes(iv, 2)
             m == Number("double", b, e, 2, 0)
  <2>1. (f.odd <=> iv < 0) /\ f.b = Tagged(94, iv, 2) BY <1>5
  <2>3. ~AtEnd(b, d) /\ Tag(b, d) = 94 /\ Ahead(b, e, iv, 2) /\ e.pos \in Nat /\ e.pos + 2 = end BY <1>b, <2>1, Begin
  <2>4. r = decDouble(b, e, 94) BY <1>b, <2>3, Dispatch
  <2>5. r = Scaled(m, 2) BY <1>b, <2>4, decDoubleCases
  <2>6. Reads(m, Leaf("double", x), end)
    <3>1. 2 \in {1, 2} BY SMT
    <3> QED BY <2>3, <3>1, NumberReads, SMTT(30) DEF LowBytes
  <2>7. Between(x, -(MaxInt \div 2), MaxInt \div 2) /\ (x * 2 = iv * 2 <=> ~(iv < 0))
    BY <1>5, <1>a, FitsTwo
  <2> HIDE DEF x, m, r, end
  <2>8. Reads(r, Leaf("double", x * 2), end) BY <2>5, <2>6, <2>7, ScaledReads
  <2>9. Reads(r, Leaf("double", n), end) <=> x * 2 = n BY <2>8, ReadsOne
  <2> QED BY <1>5, <1>a, <2>1, <2>7, <2>9 DEF r, end
<1>6. CASE f = [b |-> Tagged(95, 500 * n, 4), odd |-> TRUE]
  <2> DEFINE m == decInt32(b, Skip(b, e), Tag(b, e))
  <2>1. f.odd /\ f.b = Tagged(95, 500 * n, 4) BY <1>6
  <2>3. ~AtEnd(b, d) /\ Tag(b, d) = 95 /\ Ahead(b, e, 500 * n, 4) /\ e.pos + 4 = end BY <1>b, <2>1, Begin
  <2>4. r = decDouble(b, e, 95) BY <1>b, <2>3, Dispatch
  <2>5. r = Scaled(As("double", Ok(m.v, m.d)), 2) BY <1>b, <2>4, decDoubleCases
  <2>6. ~Reads(Scaled(As("double", Ok(m.v, m.d)), 2), Leaf("double", n), e.pos + 4)
    BY <1>0, <2>3, MillsMisread
  <2> QED BY <2>1, <2>3, <2>5, <2>6
<1> QED BY <1>1, <1>2, <1>3, <1>4, <1>5, <1>6

\* The minutes of a date.
LEMMA Minutes ==
  ASSUME NEW v \in Int32, v % MINUTE = 0
  PROVE  LET q == v \div MINUTE
         IN  q \in Int32 /\ q * MINUTE = v /\ Between(q, -(MaxInt \div MINUTE), MaxInt \div MINUTE)
<1> DEFINE q == v \div 60000
<1>0. MINUTE = 60000 BY DEF MINUTE
<1>1. v \in Int /\ -2147483648 <= v /\ v <= 2147483647 BY Int32Bounds
<1>2. v % 60000 = 0 BY <1>0
<1>3. q \in Int /\ v = 60000 * q BY <1>1, <1>2, SMT
<1> HIDE DEF q
<1>4. q >= -35791 /\ q <= 35791 BY <1>1, <1>3, SMT
<1>5. 2147483647 \div 60000 = 35791 BY SMT
<1>6. q * 60000 = v BY <1>3, SMT
<1>7. q \in Int32 BY <1>3, <1>4, SMT DEF Int32, Between, MaxInt
<1>8. Between(q, -35791, 35791) BY <1>4, SMT DEF Between
<1>9. Between(q, -(MaxInt \div 60000), MaxInt \div 60000) BY <1>5, <1>8, SMT DEF MaxInt
<1> QED BY <1>0, <1>6, <1>7, <1>9, SMT DEF q

\* The forms of a date.
LEMMA DateFormIs ==
  ASSUME NEW v, NEW f \in DateForms(v)
  PROVE  LET q == v \div MINUTE IN
         \/ f = [b |-> Tagged(74, v, 8), odd |-> FALSE]
         \/ v % MINUTE = 0 /\ f = [b |-> Tagged(75, q, 4), odd |-> FALSE]
<1> DEFINE q == v \div MINUTE
<1>1. \/ f \in When(TRUE, Tagged(74, v, 8), FALSE)
      \/ f \in When(v % MINUTE = 0, Tagged(75, q, 4), FALSE)
  BY DEF DateForms
<1>2. f \in When(TRUE, Tagged(74, v, 8), FALSE) => f = [b |-> Tagged(74, v, 8), odd |-> FALSE] BY WhenIs
<1>3. f \in When(v % MINUTE = 0, Tagged(75, q, 4), FALSE) =>
        v % MINUTE = 0 /\ f = [b |-> Tagged(75, q, 4), odd |-> FALSE]
  <2> DEFINE c == v % MINUTE = 0
             s == Tagged(75, q, 4)
  <2> HIDE DEF c, s
  <2>1. f \in When(c, s, FALSE) => c /\ f = [b |-> s, odd |-> FALSE] BY WhenIs
  <2> QED BY <2>1 DEF c, s
<1> QED BY <1>1, <1>2, <1>3

\* Every form of every date is read as it, if its bytes are in one buffer.
LEMMA DateFormReads ==
  ASSUME NEW v \in Int32, NEW f \in DateForms(v), NEW b, NEW d, Occurs(f.b, b, d),
         ((d.pos + 1) % CHUNK_SIZE) + 8 <= CHUNK_SIZE
  PROVE  ~f.odd /\ Reads(DecodeValue(b, d), Leaf("date", v), d.pos + Len(f.b))
<1> DEFINE e == Skip(b, d)
           r == DecodeValue(b, d)
           end == d.pos + Len(f.b)
           q == v \div MINUTE
<1>1. \/ f = [b |-> Tagged(74, v, 8), odd |-> FALSE]
      \/ v % MINUTE = 0 /\ f = [b |-> Tagged(75, q, 4), odd |-> FALSE]
  BY DateFormIs
<1>b. DateTag(74) /\ DateTag(75) /\ 74 \in Int /\ 75 \in Int /\ 4 \in Nat /\ 8 \in Nat /\ 74 # 75
  BY SMT DEF DateTag
<1>c. ASSUME e.pos \in Nat, e.pos = d.pos + 1
      PROVE  ~((e.pos % CHUNK_SIZE) + 8 > CHUNK_SIZE) /\ ~((e.pos % CHUNK_SIZE) + 4 > CHUNK_SIZE)
  <2> DEFINE p == (d.pos + 1) % CHUNK_SIZE
  <2>1. p \in Int /\ CHUNK_SIZE \in Int
    <3>1. d.pos + 1 \in Nat BY <1>c
    <3> QED BY <3>1, SMT DEF CHUNK_SIZE
  <2>2. p + 8 <= CHUNK_SIZE OBVIOUS
  <2> HIDE DEF p
  <2>3. ~(p + 8 > CHUNK_SIZE) /\ ~(p + 4 > CHUNK_SIZE) BY <2>1, <2>2, SMT
  <2> QED BY <1>c, <2>3 DEF p
<1>2. CASE f = [b |-> Tagged(74, v, 8), odd |-> FALSE]
  <2>1. ~f.odd /\ f.b = Tagged(74, v, 8) BY <1>2
  <2>3. ~AtEnd(b, d) /\ Tag(b, d) = 74 /\ Ahead(b, e, v, 8) /\ e.pos + 8 = end /\ e.pos \in Nat /\ e.pos = d.pos + 1
    BY <1>b, <2>1, Begin
  <2>4. r = decDate(b, e, 74) BY <1>b, <2>3, Dispatch
  <2>5. ~AtEnd(b, e) BY <2>3, SMT DEF AtEnd, Ahead, Room
  <2>6. r = Long("date", b, e) BY <1>c, <2>3, <2>4, <2>5 DEF decDate
  <2>7. Reads(Long("date", b, e), Leaf("date", v), e.pos + 8) BY <2>3, LongReads
  <2> QED BY <2>1, <2>3, <2>6, <2>7
<1>3. CASE v % MINUTE = 0 /\ f = [b |-> Tagged(75, q, 4), odd |-> FALSE]
  <2> DEFINE m == Word("date", b, e)
  <2>1. ~f.odd /\ f.b = Tagged(75, q, 4) BY <1>3
  <2>2. q \in Int32 /\ q * MINUTE = v /\ Between(q, -(MaxInt \div MINUTE), MaxInt \div MINUTE) BY <1>3, Minutes
  <2> HIDE DEF q
  <2>3. ~AtEnd(b, d) /\ Tag(b, d) = 75 /\ Ahead(b, e, q, 4) /\ e.pos + 4 = end /\ e.pos \in Nat /\ e.pos = d.pos + 1
    BY <1>b, <2>1, Begin
  <2>4. r = decDate(b, e, 75) BY <1>b, <2>3, Dispatch
  <2>5. ~AtEnd(b, e) BY <2>3, SMT DEF AtEnd, Ahead, Room
  <2>6. r = Scaled(m, MINUTE) BY <1>b, <1>c, <2>3, <2>4, <2>5 DEF decDate
  <2>7. Reads(m, Leaf("date", q), e.pos + 4) BY <2>2, <2>3, WordReads
  <2> HIDE DEF m
  <2>8. Reads(r, Leaf("date", q * MINUTE), e.pos + 4) BY <2>2, <2>6, <2>7, ScaledReads
  <2> QED BY <2>1, <2>2, <2>3, <2>8
<1> QED BY <1>1, <1>2, <1>3

-----------------------------------------------------------------------------
(***************************************************************************)
(* Scalars of all kinds.                                                   *)
(***************************************************************************)
\* The scalars: any number of 32 bits, and of bools and nulls those that there are.
IsScalar(v) ==
  /\ v = Leaf(v.k, v.n) /\ v.k \in ScalarKinds /\ v.n \in Int32
  /\ v.k = "bool" => v.n \in {0, 1}
  /\ v.k = "null" => v.n = 0

\* The next bytes of a date are in one buffer.
DateRoom(d) == ((d.pos + 1) % CHUNK_SIZE) + 8 <= CHUNK_SIZE

\* Nulls and bools are read as what they are.
LEMMA PlainReads ==
  ASSUME NEW v, IsScalar(v), v.k \in {"null", "bool"},
         NEW f \in ScalarForms(v, "any"), NEW b, NEW d, Occurs(f.b, b, d)
  PROVE  ~f.odd /\ Reads(DecodeValue(b, d), v, d.pos + Len(f.b))
<1> DEFINE e == Skip(b, d)
           r == DecodeValue(b, d)
           end == d.pos + Len(f.b)
           tag == IF v.k = "null" THEN 78 ELSE IF v.n = 1 THEN 84 ELSE 70
           x == IF v.k = "null" THEN 0 ELSE v.n
<1>1. f = [b |-> Tagged(tag, x, 0), odd |-> FALSE]
  <2>1. CASE v.k = "null"
    <3>1. ScalarForms(v, "any") = When(TRUE, Tagged(78, 0, 0), "any" \notin {"any", "long", "enum", "map"})
      BY <2>1 DEF ScalarForms
    <3>2. ("any" \notin {"any", "long", "enum", "map"}) = FALSE OBVIOUS
    <3>3. f \in When(TRUE, Tagged(78, 0, 0), FALSE) BY <3>1, <3>2
    <3>4. f = [b |-> Tagged(78, 0, 0), odd |-> FALSE] BY <3>3, WhenIs
    <3> QED BY <2>1, <3>4
  <2>2. CASE v.k = "bool"
    <3>1. ScalarForms(v, "any") = When(TRUE, Tagged(IF v.n = 1 THEN 84 ELSE 70, v.n, 0), FALSE)
      BY <2>2 DEF ScalarForms
    <3> DEFINE s == Tagged(IF v.n = 1 THEN 84 ELSE 70, v.n, 0)
    <3>2. f \in When(TRUE, s, FALSE) BY <3>1
    <3> HIDE DEF s
    <3>3. f = [b |-> s, odd |-> FALSE] BY <3>2, WhenIs
    <3>4. s = Tagged(tag, x, 0) BY <2>2 DEF s
    <3> QED BY <3>3, <3>4
  <2> QED BY <2>1, <2>2
<1>2. f.b = Tagged(tag, x, 0) /\ ~f.odd BY <1>1
<1>3. tag \in Int /\ (v.k = "null" => NullTag(tag)) /\ (v.k # "null" => BoolTag(tag))
  BY SMT DEF NullTag, BoolTag
<1>4. (v.k = "bool" /\ v.n \in {0, 1}) => (IF tag = 84 THEN 1 ELSE 0) = v.n BY SMT
<1> HIDE DEF tag, x
<1>5. 0 \in Nat BY SMT
<1>6. ~AtEnd(b, d) /\ Tag(b, d) = tag /\ e.pos \in Nat /\ e.pos + 0 = end BY <1>2, <1>5, Begin
<1>7. e.pos = end
  <2>1. e.pos + 0 = e.pos BY <1>6, SMT
  <2> QED BY <1>6, <2>1
<1>8. r = Ok(v, e)
  <2>1. CASE v.k = "null"
    <3>1. v = Null BY <2>1 DEF IsScalar, Null
    <3> QED BY <1>3, <1>6, <2>1, <3>1, Dispatch
  <2>2. CASE v.k = "bool"
    <3>1. v = Leaf("bool", IF tag = 84 THEN 1 ELSE 0) BY <1>4, <2>2 DEF IsScalar
    <3>2. v.k # "null" BY <2>2
    <3> QED BY <1>3, <1>6, <3>1, <3>2, Dispatch
  <2> QED BY <2>1, <2>2
<1> HIDE DEF e, r, end
<1>9. Reads(r, v, end) BY <1>7, <1>8, SMT DEF Reads, Ok
<1> QED BY <1>2, <1>9 DEF r, end

\* Every form of every scalar is read as it, up to its end, if and only if it is not
\* odd.
LEMMA ScalarReads ==
  ASSUME NEW v, IsScalar(v), NEW f \in ScalarForms(v, "any"), NEW b, NEW d, Occurs(f.b, b, d),
         v.k = "date" => DateRoom(d)
  PROVE  Reads(DecodeValue(b, d), v, d.pos + Len(f.b)) <=> ~f.odd
<1>1. v = Leaf(v.k, v.n) /\ v.n \in Int32 /\ v.k \in ScalarKinds BY DEF IsScalar
<1>2. CASE v.k \in {"null", "bool"} BY <1>2, PlainReads
<1>3. CASE v.k = "int"
  <2>1. f \in IntForms(v.n) BY <1>3 DEF ScalarForms
  <2> QED BY <1>1, <1>3, <2>1, IntReads
<1>4. CASE v.k = "long"
  <2>1. f \in LongForms(v.n) BY <1>4 DEF ScalarForms
  <2> QED BY <1>1, <1>4, <2>1, LongFormReads
<1>5. CASE v.k = "date"
  <2>1. f \in DateForms(v.n) BY <1>5 DEF ScalarForms
  <2>2. ((d.pos + 1) % CHUNK_SIZE) + 8 <= CHUNK_SIZE BY <1>5 DEF DateRoom
  <2>3. ~f.odd /\ Reads(DecodeValue(b, d), Leaf("date", v.n), d.pos + Len(f.b))
    BY <1>1, <2>1, <2>2, DateFormReads
  <2> QED BY <1>1, <1>5, <2>3
<1>6. CASE v.k = "double"
  <2>1. f \in DoubleForms(v.n) BY <1>6 DEF ScalarForms
  <2> QED BY <1>1, <1>6, <2>1, DoubleFormReads
<1> QED BY <1>1, <1>2, <1>3, <1>4, <1>5, <1>6 DEF ScalarKinds

-----------------------------------------------------------------------------
(***************************************************************************)
(* The encoder.                                                            *)
(***************************************************************************)
\* A production whose condition holds has its form.
LEMMA WhenHas ==
  ASSUME NEW c, c, NEW s, NEW odd
  PROVE  [b |-> s, odd |-> odd] \in When(c, s, odd)
BY DEF When

\* The byte of a tag is the tag.
LEMMA TagByte ==
  ASSUME NEW t \in Int, 0 <= t, t <= 255
  PROVE  Octet(t, 0) = t
<1>1. t % 256 = t BY SMT
<1>2. Octet(t, 0) = t % 256 BY LowOctets
<1> QED BY <1>1, <1>2

\* The limits of const.go are those of the tags of the compact forms.
LEMMA Limits ==
  ASSUME NEW v \in Int
  PROVE  LET p1 == v \div Shift(1)
             p2 == v \div Shift(2)
         IN /\ p1 \in Int /\ p2 \in Int
            /\ Between(v, INT_BYTE_MIN, INT_BYTE_MAX) => -8 <= p1 /\ p1 <= 7
            /\ Between(v, INT_SHORT_MIN, INT_SHORT_MAX) => -4 <= p2 /\ p2 <= 3
            /\ Between(v, INT_DIRECT_MIN, INT_DIRECT_MAX) => -16 <= v /\ v <= 47 /\ INT_SHORT_MIN <= v
            /\ Between(v, LONG_DIRECT_MIN, LONG_DIRECT_MAX) => -8 <= v /\ v <= 15 /\ INT_SHORT_MIN <= v
            /\ Between(v, INT_BYTE_MIN, INT_BYTE_MAX) => INT_SHORT_MIN <= v
            /\ Between(v, INT_SHORT_MIN, INT_SHORT_MAX) => INT_SHORT_MIN <= v
            /\ ~Between(v, INT_SHORT_MIN, INT_SHORT_MAX) => ~(v < 0 /\ INT_SHORT_MIN <= v)
<1>1. v \div Shift(1) = v \div 256 /\ v \div Shift(2) = v \div 65536 BY ShiftValues
<1>2. /\ v \div 256 \in Int /\ v \div 65536 \in Int
      /\ (-2048 <= v /\ v <= 2047) => -8 <= v \div 256 /\ v \div 256 <= 7
      /\ (-262144 <= v /\ v <= 262143) => -4 <= v \div 65536 /\ v \div 65536 <= 3
  BY SMT
<1>3. /\ Between(v, INT_BYTE_MIN, INT_BYTE_MAX) <=> (-2048 <= v /\ v <= 2047)
      /\ Between(v, INT_SHORT_MIN, INT_SHORT_MAX) <=> (-262144 <= v /\ v <= 262143)
  BY SMT DEF Between, INT_BYTE_MIN, INT_BYTE_MAX, INT_SHORT_MIN, INT_SHORT_MAX
<1>4. /\ Between(v, INT_DIRECT_MIN, INT_DIRECT_MAX) => -16 <= v /\ v <= 47 /\ INT_SHORT_MIN <= v
      /\ Between(v, LONG_DIRECT_MIN, LONG_DIRECT_MAX) => -8 <= v /\ v <= 15 /\ INT_SHORT_MIN <= v
      /\ Between(v, INT_BYTE_MIN, INT_BYTE_MAX) => INT_SHORT_MIN <= v
      /\ Between(v, INT_SHORT_MIN, INT_SHORT_MAX) => INT_SHORT_MIN <= v
      /\ ~Between(v, INT_SHORT_MIN, INT_SHORT_MAX) => ~(v < 0 /\ INT_SHORT_MIN <= v)
  BY SMT DEF Between, INT_BYTE_MIN, INT_BYTE_MAX, INT_SHORT_MIN, INT_SHORT_MAX,
             INT_DIRECT_MIN, INT_DIRECT_MAX, LONG_DIRECT_MIN, LONG_DIRECT_MAX
<1>5. /\ Between(v, INT_BYTE_MIN, INT_BYTE_MAX) => -8 <= v \div 256 /\ v \div 256 <= 7
      /\ Between(v, INT_SHORT_MIN, INT_SHORT_MAX) => -4 <= v \div 65536 /\ v \div 65536 <= 3
  BY <1>2, <1>3, SMT
<1> QED BY <1>1, <1>2, <1>4, <1>5, SMT

\* The numbers that are written in a compact form although they are negative.
CompactNegative(v) == v < 0 /\ INT_SHORT_MIN <= v

\* encInt32 writes a form of the int, an odd one for small negative numbers.
LEMMA IntWritten ==
  ASSUME NEW v \in Int32
  PROVE  \E f \in IntForms(v) : f.b = encInt32(v) /\ (f.odd <=> CompactNegative(v))
<1> DEFINE p1 == v \div Shift(1)
           p2 == v \div Shift(2)
           C == CompactNegative(v)
           F(s, odd) == [b |-> s, odd |-> odd]
           c0 == Between(v, INT_DIRECT_MIN, INT_DIRECT_MAX)
           c1 == Between(v, INT_BYTE_MIN, INT_BYTE_MAX)
           c2 == Between(v, INT_SHORT_MIN, INT_SHORT_MAX)
<1>0. v \in Int BY Int32Bounds
<1>1. /\ p1 \in Int /\ p2 \in Int
      /\ c1 => -8 <= p1 /\ p1 <= 7
      /\ c2 => -4 <= p2 /\ p2 <= 3
      /\ c0 => -16 <= v /\ v <= 47
  BY <1>0, Limits
<1>a. (c0 \/ c1 \/ c2 => (C <=> v < 0)) /\ (~c2 => ~C) BY <1>0, Limits DEF CompactNegative
<1> HIDE DEF c0, c1, c2, p1, p2
<1>2. /\ F(Tagged(73, v, 4), FALSE) \in IntForms(v)
      /\ Between(v, 128 - 144, 191 - 144) => F(Tagged(144 + v, v, 0), v < 0) \in IntForms(v)
      /\ Between(200 + p1, 192, 207) => F(Tagged(200 + p1, v, 1), v < 0) \in IntForms(v)
      /\ Between(212 + p2, 208, 215) => F(Tagged(212 + p2, v, 2), v < 0) \in IntForms(v)
  <2>1. F(Tagged(73, v, 4), FALSE) \in IntForms(v)
    <3>1. F(Tagged(73, v, 4), FALSE) \in When(TRUE, Tagged(73, v, 4), FALSE) BY DEF When
    <3> QED BY <3>1, ZenonT(30) DEF IntForms
  <2>2. ASSUME Between(v, 128 - 144, 191 - 144) PROVE F(Tagged(144 + v, v, 0), v < 0) \in IntForms(v)
    <3> DEFINE c == Between(v, 128 - 144, 191 - 144)
               s == Tagged(144 + v, v, 0)
               o == v < 0
    <3>1. c BY <2>2
    <3>2. \A x : x \in When(c, s, o) => x \in IntForms(v) BY ZenonT(30) DEF IntForms
    <3> HIDE DEF c, s, o
    <3>3. F(s, o) \in When(c, s, o) BY <3>1, WhenHas
    <3> QED BY <3>2, <3>3 DEF s, o
  <2>3. ASSUME Between(200 + p1, 192, 207) PROVE F(Tagged(200 + p1, v, 1), v < 0) \in IntForms(v)
    <3> DEFINE c == Between(200 + p1, 192, 207)
               s == Tagged(200 + p1, v, 1)
               o == v < 0
    <3>1. c BY <2>3
    <3>2. \A x : x \in When(c, s, o) => x \in IntForms(v) BY ZenonT(30) DEF IntForms, p1
    <3> HIDE DEF c, s, o
    <3>3. F(s, o) \in When(c, s, o) BY <3>1, WhenHas
    <3> QED BY <3>2, <3>3 DEF s, o
  <2>4. ASSUME Between(212 + p2, 208, 215) PROVE F(Tagged(212 + p2, v, 2), v < 0) \in IntForms(v)
    <3> DEFINE c == Between(212 + p2, 208, 215)
               s == Tagged(212 + p2, v, 2)
               o == v < 0
    <3>1. c BY <2>4
    <3>2. \A x : x \in When(c, s, o) => x \in IntForms(v) BY ZenonT(30) DEF IntForms, p2
    <3> HIDE DEF c, s, o
    <3>3. F(s, o) \in When(c, s, o) BY <3>1, WhenHas
    <3> QED BY <3>2, <3>3 DEF s, o
  <2> QED BY <2>1, <2>2, <2>3, <2>4
<1>b. encInt32(v) =
        IF c0 THEN Tagged(Octet(v + 144, 0), v, 0)
        ELSE IF c1 THEN Tagged(Octet(200 + p1, 0), v, 1)
        ELSE IF c2 THEN Tagged(Octet(212 + p2, 0), v, 2)
        ELSE Tagged(73, v, 4)
  BY DEF encInt32, c0, c1, c2, p1, p2
<1>c. \A s, odd : F(s, odd).b = s /\ F(s, odd).odd = odd OBVIOUS
<1>3. CASE c0
  <2>1. v + 144 = 144 + v /\ 144 + v \in Int /\ 0 <= 144 + v /\ 144 + v <= 255
        /\ Between(v, 128 - 144, 191 - 144)
    BY <1>0, <1>1, <1>3, SMT DEF Between
  <2>2. Octet(144 + v, 0) = 144 + v BY <2>1, TagByte
  <2>3. encInt32(v) = Tagged(144 + v, v, 0) BY <1>b, <1>3, <2>1, <2>2
  <2> QED BY <1>2, <1>3, <1>a, <1>c, <2>1, <2>3
<1>4. CASE ~c0 /\ c1
  <2>1. 200 + p1 \in Int /\ 0 <= 200 + p1 /\ 200 + p1 <= 255 /\ Between(200 + p1, 192, 207)
    BY <1>1, <1>4, SMT DEF Between
  <2>2. Octet(200 + p1, 0) = 200 + p1 BY <2>1, TagByte
  <2>3. encInt32(v) = Tagged(200 + p1, v, 1) BY <1>b, <1>4, <2>2
  <2> QED BY <1>2, <1>4, <1>a, <1>c, <2>1, <2>3, ZenonT(30)
<1>5. CASE ~c0 /\ ~c1 /\ c2
  <2>1. 212 + p2 \in Int /\ 0 <= 212 + p2 /\ 212 + p2 <= 255 /\ Between(212 + p2, 208, 215)
    BY <1>1, <1>5, SMT DEF Between
  <2>2. Octet(212 + p2, 0) = 212 + p2 BY <2>1, TagByte
  <2>3. encInt32(v) = Tagged(212 + p2, v, 2) BY <1>b, <1>5, <2>2
  <2> QED BY <1>2, <1>5, <1>a, <1>c, <2>1, <2>3, ZenonT(30)
<1>6. CASE ~c0 /\ ~c1 /\ ~c2
  <2>1. encInt32(v) = Tagged(73, v, 4) BY <1>b, <1>6
  <2> QED BY <1>2, <1>6, <1>a, <1>c, <2>1
<1> QED BY <1>3, <1>4, <1>5, <1>6

\* encInt64 writes a form of the long, an odd one for small negative numbers.
LEMMA LongWritten ==
  ASSUME NEW v \in Int32
  PROVE  \E f \in LongForms(v) : f.b = encInt64(v) /\ (f.odd <=> CompactNegative(v))
<1> DEFINE p1 == v \div Shift(1)
           p2 == v \div Shift(2)
           C == CompactNegative(v)
           F(s, odd) == [b |-> s, odd |-> odd]
           c0 == Between(v, LONG_DIRECT_MIN, LONG_DIRECT_MAX)
           c1 == Between(v, INT_BYTE_MIN, INT_BYTE_MAX)
           c2 == Between(v, INT_SHORT_MIN, INT_SHORT_MAX)
<1>0. v \in Int BY Int32Bounds
<1>1. /\ p1 \in Int /\ p2 \in Int
      /\ c1 => -8 <= p1 /\ p1 <= 7
      /\ c2 => -4 <= p2 /\ p2 <= 3
      /\ c0 => -8 <= v /\ v <= 15
  BY <1>0, Limits
<1>a. (c0 \/ c1 \/ c2 => (C <=> v < 0)) /\ (~c2 => ~C) BY <1>0, Limits DEF CompactNegative
<1> HIDE DEF c0, c1, c2, p1, p2
<1>2. /\ F(Tagged(76, v, 8), FALSE) \in LongForms(v)
      /\ Between(v, 216 - 224, 239 - 224) => F(Tagged(224 + v, v, 0), v < 0) \in LongForms(v)
      /\ Between(248 + p1, 240, 255) => F(Tagged(248 + p1, v, 1), v < 0) \in LongForms(v)
      /\ Between(60 + p2, 56, 63) => F(Tagged(60 + p2, v, 2), v < 0) \in LongForms(v)
  <2>1. F(Tagged(76, v, 8), FALSE) \in LongForms(v)
    <3>1. F(Tagged(76, v, 8), FALSE) \in When(TRUE, Tagged(76, v, 8), FALSE) BY DEF When
    <3> QED BY <3>1, ZenonT(30) DEF LongForms
  <2>2. ASSUME Between(v, 216 - 224, 239 - 224) PROVE F(Tagged(224 + v, v, 0), v < 0) \in LongForms(v)
    <3> DEFINE c == Between(v, 216 - 224, 239 - 224)
               s == Tagged(224 + v, v, 0)
               o == v < 0
    <3>1. c BY <2>2
    <3>2. \A x : x \in When(c, s, o) => x \in LongForms(v) BY ZenonT(30) DEF LongForms
    <3> HIDE DEF c, s, o
    <3>3. F(s, o) \in When(c, s, o) BY <3>1, WhenHas
    <3> QED BY <3>2, <3>3 DEF s, o
  <2>3. ASSUME Between(248 + p1, 240, 255) PROVE F(Tagged(248 + p1, v, 1), v < 0) \in LongForms(v)
    <3> DEFINE c == Between(248 + p1, 240, 255)
               s == Tagged(248 + p1, v, 1)
               o == v < 0
    <3>1. c BY <2>3
    <3>2. \A x : x \in When(c, s, o) => x \in LongForms(v) BY ZenonT(30) DEF LongForms, p1
    <3> HIDE DEF c, s, o
    <3>3. F(s, o) \in When(c, s, o) BY <3>1, WhenHas
    <3> QED BY <3>2, <3>3 DEF s, o
  <2>4. ASSUME Between(60 + p2, 56, 63) PROVE F(Tagged(60 + p2, v, 2), v < 0) \in LongForms(v)
    <3> DEFINE c == Between(60 + p2, 56, 63)
               s == Tagged(60 + p2, v, 2)
               o == v < 0
    <3>1. c BY <2>4
    <3>2. \A x : x \in When(c, s, o) => x \in LongForms(v) BY ZenonT(30) DEF LongForms, p2
    <3> HIDE DEF c, s, o
    <3>3. F(s, o) \in When(c, s, o) BY <3>1, WhenHas
    <3> QED BY <3>2, <3>3 DEF s, o
  <2> QED BY <2>1, <2>2, <2>3, <2>4
<1>b. encInt64(v) =
        IF c0 THEN Tagged(Octet(v + 224, 0), v, 0)
        ELSE IF c1 THEN Tagged(Octet(248 + p1, 0), v, 1)
        ELSE IF c2 THEN Tagged(Octet(60 + p2, 0), v, 2)
        ELSE Tagged(76, v, 8)
  BY DEF encInt64, c0, c1, c2, p1, p2
<1>c. \A s, odd : F(s, odd).b = s /\ F(s, odd).odd = odd OBVIOUS
<1>3. CASE c0
  <2>1. v + 224 = 224 + v /\ 224 + v \in Int /\ 0 <= 224 + v /\ 224 + v <= 255
        /\ Between(v, 216 - 224, 239 - 224)
    BY <1>0, <1>1, <1>3, SMT DEF Between
  <2>2. Octet(224 + v, 0) = 224 + v BY <2>1, TagByte
  <2>3. encInt64(v) = Tagged(224 + v, v, 0) BY <1>b, <1>3, <2>1, <2>2
  <2> QED BY <1>2, <1>3, <1>a, <1>c, <2>1, <2>3, ZenonT(30)
<1>4. CASE ~c0 /\ c1
  <2>1. 248 + p1 \in Int /\ 0 <= 248 + p1 /\ 248 + p1 <= 255 /\ Between(248 + p1, 240, 255)
    BY <1>1, <1>4, SMT DEF Between
  <2>2. Octet(248 + p1, 0) = 248 + p1 BY <2>1, TagByte
  <2>3. encInt64(v) = Tagged(248 + p1, v, 1) BY <1>b, <1>4, <2>2
  <2> QED BY <1>2, <1>4, <1>a, <1>c, <2>1, <2>3, ZenonT(30)
<1>5. CASE ~c0 /\ ~c1 /\ c2
  <2>1. 60 + p2 \in Int /\ 0 <= 60 + p2 /\ 60 + p2 <= 255 /\ Between(60 + p2, 56, 63)
    BY <1>1, <1>5, SMT DEF Between
  <2>2. Octet(60 + p2, 0) = 60 + p2 BY <2>1, TagByte
  <2>3. encInt64(v) = Tagged(60 + p2, v, 2) BY <1>b, <1>5, <2>2
  <2> QED BY <1>2, <1>5, <1>a, <1>c, <2>1, <2>3, ZenonT(30)
<1>6. CASE ~c0 /\ ~c1 /\ ~c2
  <2>1. encInt64(v) = Tagged(76, v, 8) BY <1>b, <1>6
  <2> QED BY <1>2, <1>6, <1>a, <1>c, <2>1
<1> QED BY <1>3, <1>4, <1>5, <1>6

\* encDateInMs writes a form of the date.
LEMMA DateWritten ==
  ASSUME NEW v \in Int32
  PROVE  \E f \in DateForms(v) : f.b = encDateInMs(v) /\ ~f.odd
<1> DEFINE s == Tagged(74, v, 8)
           f == [b |-> s, odd |-> FALSE]
<1>1. \A x : x \in When(TRUE, s, FALSE) => x \in DateForms(v) BY DEF DateForms
<1>2. encDateInMs(v) = s BY DEF encDateInMs
<1> HIDE DEF s
<1>3. f \in When(TRUE, s, FALSE) BY WhenHas
<1>4. f.b = s /\ ~f.odd OBVIOUS
<1> QED BY <1>1, <1>2, <1>3, <1>4

\* The doubles whose bytes, as they are written, are misread: whole numbers of a byte
\* that are negative.
ByteNegative(n) == n % 2 = 0 /\ n \div 2 < 0 /\ Fits(n \div 2, 1)

\* encFloat writes a form of a double that it can write.
LEMMA DoubleWritten ==
  ASSUME NEW n \in Int32, WritableDouble(n)
  PROVE  \E f \in DoubleForms(n) : f.b = encFloat(n) /\ (f.odd <=> ByteNegative(n))
<1> DEFINE iv == n \div 2
           whole == n % 2 = 0
           F(s, odd) == [b |-> s, odd |-> odd]
<1>0. n \in Int BY Int32Bounds
<1>1. iv \in Int /\ (n % 2 = 1 <=> ~whole) BY <1>0, SMT
<1>2. ByteNegative(n) <=> whole /\ iv < 0 /\ Fits(iv, 1) BY DEF ByteNegative
<1>3. whole => Fits(iv, 1) \/ ~Fits(iv, 2) BY DEF WritableDouble
<1>4. encFloat(n) = IF n % 2 = 1 \/ ~Fits(iv, 2) THEN Tagged(68, n, 8)
                    ELSE IF iv \in {0, 1} THEN Tagged(91 + iv, iv, 0)
                    ELSE IF Fits(iv, 1) THEN Tagged(93, iv, 1)
                    ELSE Tagged(93, iv, 2)
  BY DEF encFloat
<1>5. Fits(iv, 1) => Fits(iv, 2)
  <2> QED BY <1>1, ShiftValues, SMT DEF Fits, Between
<1>6. F(Tagged(68, n, 8), FALSE) \in DoubleForms(n)
  <2>1. F(Tagged(68, n, 8), FALSE) \in When(TRUE, Tagged(68, n, 8), FALSE) BY DEF When
  <2> QED BY <2>1 DEF DoubleForms
<1>7. ASSUME whole, iv \in {0, 1} PROVE F(Tagged(91 + iv, iv, 0), FALSE) \in DoubleForms(n)
  <2> DEFINE c == whole /\ iv \in {0, 1}
             s == Tagged(91 + iv, iv, 0)
  <2>1. c BY <1>7
  <2>2. \A x : x \in When(c, s, FALSE) => x \in DoubleForms(n) BY DEF DoubleForms
  <2> HIDE DEF c, s
  <2>3. F(s, FALSE) \in When(c, s, FALSE) BY <2>1, WhenHas
  <2> QED BY <2>2, <2>3 DEF s
<1>8. ASSUME whole, Fits(iv, 1) PROVE F(Tagged(93, iv, 1), iv < 0) \in DoubleForms(n)
  <2> DEFINE c == whole /\ Fits(iv, 1)
             s == Tagged(93, iv, 1)
             o == iv < 0
  <2>1. c BY <1>8
  <2>2. \A x : x \in When(c, s, o) => x \in DoubleForms(n) BY DEF DoubleForms
  <2> HIDE DEF c, s, o
  <2>3. F(s, o) \in When(c, s, o) BY <2>1, WhenHas
  <2> QED BY <2>2, <2>3 DEF s, o
<1>9. \A s, odd : F(s, odd).b = s /\ F(s, odd).odd = odd OBVIOUS
<1> HIDE DEF iv, whole
<1>10. CASE ~whole \/ ~Fits(iv, 2)
  <2>1. encFloat(n) = Tagged(68, n, 8) BY <1>1, <1>4, <1>10
  <2>2. ~ByteNegative(n) BY <1>2, <1>5, <1>10
  <2> QED BY <1>6, <1>9, <2>1, <2>2
<1>11. CASE whole /\ Fits(iv, 2) /\ iv \in {0, 1}
  <2>1. encFloat(n) = Tagged(91 + iv, iv, 0) BY <1>1, <1>4, <1>11
  <2>2. ~(iv < 0) BY <1>11, SMT
  <2>3. ~ByteNegative(n) BY <1>2, <2>2
  <2> QED BY <1>7, <1>9, <1>11, <2>1, <2>3
<1>12. CASE whole /\ Fits(iv, 2) /\ iv \notin {0, 1}
  <2>1. Fits(iv, 1) BY <1>3, <1>12
  <2>2. encFloat(n) = Tagged(93, iv, 1) BY <1>1, <1>4, <1>12, <2>1
  <2>3. ByteNegative(n) <=> iv < 0 BY <1>2, <1>12, <2>1
  <2> QED BY <1>8, <1>9, <1>12, <2>1, <2>2, <2>3
<1> QED BY <1>10, <1>11, <1>12

\* The lengths of the forms of doubles.
LEMMA TaggedLengths ==
  ASSUME NEW t, NEW x
  PROVE  /\ Len(Tagged(t, x, 8)) = 9 /\ Len(Tagged(t, x, 4)) = 5 /\ Len(Tagged(t, x, 2)) = 3
         /\ Len(Tagged(t, x, 1)) = 2 /\ Len(Tagged(t, x, 0)) = 1 /\ Tagged(t, x, 2)[1] = t
<1>1. Len(Tagged(t, x, 8)) = 9 BY SMT DEF Tagged
<1>2. Len(Tagged(t, x, 4)) = 5 BY SMT DEF Tagged
<1>3. Len(Tagged(t, x, 2)) = 3 BY SMT DEF Tagged
<1>4. Len(Tagged(t, x, 1)) = 2 BY SMT DEF Tagged
<1>5. Len(Tagged(t, x, 0)) = 1 BY SMT DEF Tagged
<1>6. Tagged(t, x, 2)[1] = t BY SMT DEF Tagged
<1> QED BY <1>1, <1>2, <1>3, <1>4, <1>5, <1>6

\* What is written of any other double, x5d and two bytes, is not a form of it, and
\* is read as one of a byte.
LEMMA DoubleUnwritable ==
  ASSUME NEW n \in Int32, ~WritableDouble(n)
  PROVE  /\ encFloat(n) = Tagged(93, n \div 2, 2)
         /\ \A f \in DoubleForms(n) : f.b # encFloat(n)
<1> DEFINE iv == n \div 2
           whole == n % 2 = 0
           s == Tagged(93, iv, 2)
<1>0. n \in Int BY Int32Bounds
<1>1. iv \in Int /\ (n % 2 = 1 <=> ~whole) BY <1>0, SMT
<1>2. whole /\ ~Fits(iv, 1) /\ Fits(iv, 2) BY DEF WritableDouble
<1>3. iv \notin {0, 1}
  <2>1. Shift(1) = 256 BY ShiftValues
  <2>2. ~Between(iv, -(256 \div 2), (256 \div 2) - 1) BY <1>2, <2>1 DEF Fits
  <2> HIDE DEF iv
  <2> QED BY <1>1, <2>2, SMT DEF Between
<1>4. encFloat(n) = s BY <1>1, <1>2, <1>3 DEF encFloat
<1>5. Len(s) = 3 /\ s[1] = 93 BY TaggedLengths
<1>6. ASSUME NEW f \in DoubleForms(n) PROVE f.b # s
  <2>1. \/ f.b = Tagged(68, n, 8)
        \/ f.b = Tagged(91 + iv, iv, 0)
        \/ f.b = Tagged(93, iv, 1)
        \/ f.b = Tagged(94, iv, 2)
        \/ f.b = Tagged(95, 500 * n, 4)
    BY DoubleFormIs
  <2> HIDE DEF s, iv
  <2>2. Len(Tagged(68, n, 8)) = 9 /\ Len(Tagged(91 + iv, iv, 0)) = 1 /\ Len(Tagged(93, iv, 1)) = 2
        /\ Tagged(94, iv, 2)[1] = 94 /\ Len(Tagged(95, 500 * n, 4)) = 5
    BY TaggedLengths
  <2>3. 9 # 3 /\ 1 # 3 /\ 2 # 3 /\ 5 # 3 /\ 93 # 94 BY SMT
  <2> QED BY <1>5, <2>1, <2>2, <2>3
<1> QED BY <1>4, <1>6

\* Encode, by kind.
LEMMA EncodeScalarCases ==
  ASSUME NEW v
  PROVE  /\ v.k = "null" => EncodeScalar(v) = Tagged(78, 0, 0)
         /\ v.k = "bool" => EncodeScalar(v) = Tagged(IF v.n = 1 THEN 84 ELSE 70, v.n, 0)
         /\ v.k = "int" => EncodeScalar(v) = encInt32(v.n)
         /\ v.k = "long" => EncodeScalar(v) = encInt64(v.n)
         /\ v.k = "date" => EncodeScalar(v) = encDateInMs(v.n)
         /\ v.k = "double" => EncodeScalar(v) = encFloat(v.n)
BY DEF EncodeScalar

\* The forms, by kind.
LEMMA ScalarFormsCases ==
  ASSUME NEW v, NEW k
  PROVE  /\ v.k = "null" => ScalarForms(v, k) = When(TRUE, Tagged(78, 0, 0), k \notin {"any", "long", "enum", "map"})
         /\ v.k = "bool" => ScalarForms(v, k) = When(TRUE, Tagged(IF v.n = 1 THEN 84 ELSE 70, v.n, 0), FALSE)
         /\ v.k = "int" => ScalarForms(v, k) = IntForms(v.n)
         /\ v.k = "long" => ScalarForms(v, k) = LongForms(v.n)
         /\ v.k = "date" => ScalarForms(v, k) = DateForms(v.n)
         /\ v.k = "double" => ScalarForms(v, k) = DoubleForms(v.n)
BY DEF ScalarForms

\* What Encode writes of a scalar, the decoder reads back.
RoundTrips(v) ==
  /\ v.k \in {"int", "long"} => ~CompactNegative(v.n)
  /\ v.k = "double" => WritableDouble(v.n) /\ ~ByteNegative(v.n)

\* What is written is a form, which is odd unless the scalar comes back.
LEMMA WrittenForm ==
  ASSUME NEW v, IsScalar(v), v.k = "double" => WritableDouble(v.n)
  PROVE  \E f \in ScalarForms(v, "any") : f.b = EncodeScalar(v) /\ (f.odd <=> ~RoundTrips(v))
<1>1. v.n \in Int32 /\ v.k \in ScalarKinds BY DEF IsScalar
<1>2. CASE v.k \in {"null", "bool"}
  <2>1. PICK s : EncodeScalar(v) = s /\ ScalarForms(v, "any") = When(TRUE, s, FALSE)
    <3>1. ("any" \notin {"any", "long", "enum", "map"}) = FALSE OBVIOUS
    <3>2. CASE v.k = "null"
      <4>1. ScalarForms(v, "any") = When(TRUE, Tagged(78, 0, 0), FALSE) BY <3>1, <3>2, ScalarFormsCases
      <4> QED BY <3>2, <4>1, EncodeScalarCases
    <3>3. CASE v.k = "bool"
      <4> DEFINE s == Tagged(IF v.n = 1 THEN 84 ELSE 70, v.n, 0)
      <4>1. EncodeScalar(v) = s BY <3>3, EncodeScalarCases
      <4>2. ScalarForms(v, "any") = When(TRUE, s, FALSE) BY <3>3, ScalarFormsCases
      <4> HIDE DEF s
      <4> QED BY <4>1, <4>2
    <3> QED BY <1>2, <3>2, <3>3
  <2> DEFINE f == [b |-> s, odd |-> FALSE]
  <2>2. f \in When(TRUE, s, FALSE) BY WhenHas
  <2>3. f.b = s /\ ~f.odd OBVIOUS
  <2>4. RoundTrips(v) BY <1>2 DEF RoundTrips
  <2> QED BY <2>1, <2>2, <2>3, <2>4
<1>3. CASE v.k = "int"
  <2>1. PICK f \in IntForms(v.n) : f.b = encInt32(v.n) /\ (f.odd <=> CompactNegative(v.n)) BY <1>1, IntWritten
  <2>2. RoundTrips(v) <=> ~CompactNegative(v.n) BY <1>3 DEF RoundTrips
  <2> QED BY <1>3, <2>1, <2>2, EncodeScalarCases, ScalarFormsCases
<1>4. CASE v.k = "long"
  <2>1. PICK f \in LongForms(v.n) : f.b = encInt64(v.n) /\ (f.odd <=> CompactNegative(v.n)) BY <1>1, LongWritten
  <2>2. RoundTrips(v) <=> ~CompactNegative(v.n) BY <1>4 DEF RoundTrips
  <2> QED BY <1>4, <2>1, <2>2, EncodeScalarCases, ScalarFormsCases, ZenonT(30)
<1>5. CASE v.k = "date"
  <2>1. PICK f \in DateForms(v.n) : f.b = encDateInMs(v.n) /\ ~f.odd BY <1>1, DateWritten
  <2>2. RoundTrips(v) BY <1>5 DEF RoundTrips
  <2> QED BY <1>5, <2>1, <2>2, EncodeScalarCases, ScalarFormsCases, ZenonT(60)
<1>6. CASE v.k = "double"
  <2>1. PICK f \in DoubleForms(v.n) : f.b = encFloat(v.n) /\ (f.odd <=> ByteNegative(v.n)) BY <1>1, <1>6, DoubleWritten
  <2>2. RoundTrips(v) <=> ~ByteNegative(v.n) BY <1>6 DEF RoundTrips
  <2> QED BY <1>6, <2>1, <2>2, EncodeScalarCases, ScalarFormsCases
<1> QED BY <1>1, <1>2, <1>3, <1>4, <1>5, <1>6 DEF ScalarKinds

\* Of every scalar of 32 bits, the encoder writes bytes that the grammar has for it,
\* but for the whole doubles of more than a byte and at most a short (encode.go,
\* encInt32, encInt64, encDateInMs, encFloat).
THEOREM ScalarWritten ==
  ASSUME NEW v, IsScalar(v)
  PROVE  (\E f \in ScalarForms(v, "any") : f.b = EncodeScalar(v))
           <=> (v.k = "double" => WritableDouble(v.n))
<1>1. CASE v.k = "double" => WritableDouble(v.n) BY <1>1, WrittenForm
<1>2. CASE v.k = "double" /\ ~WritableDouble(v.n)
  <2>1. v.n \in Int32 BY DEF IsScalar
  <2>2. \A f \in DoubleForms(v.n) : f.b # encFloat(v.n) BY <1>2, <2>1, DoubleUnwritable
  <2>3. EncodeScalar(v) = encFloat(v.n) /\ ScalarForms(v, "any") = DoubleForms(v.n)
    BY <1>2, EncodeScalarCases, ScalarFormsCases
  <2> QED BY <1>2, <2>2, <2>3
<1> QED BY <1>1, <1>2

\* The double that is written as x5d and two bytes.
LEMMA ByteOfTwo ==
  ASSUME NEW x, NEW b, NEW d, NEW v, Occurs(Tagged(93, x, 2), b, d)
  PROVE  ~Reads(DecodeValue(b, d), v, d.pos + Len(Tagged(93, x, 2)))
<1> DEFINE e == Skip(b, d)
           r == DecodeValue(b, d)
           end == d.pos + Len(Tagged(93, x, 2))
<1>1. DoubleTag(93) /\ 93 \in Int /\ 2 \in Nat BY SMT DEF DoubleTag, Between
<1>2. ~AtEnd(b, d) /\ Tag(b, d) = 93 /\ Ahead(b, e, x, 2) /\ e.pos \in Nat /\ e.pos + 2 = end BY <1>1, Begin
<1>3. r = decDouble(b, e, 93) BY <1>1, <1>2, Dispatch
<1>4. r = Ok(Leaf("double", 2 * Tag(b, e)), Skip(b, e)) BY <1>1, <1>3, decDoubleCases
<1>5. Skip(b, e).pos = e.pos + 1
  <2>1. e.pos < Len(b) BY <1>2, SMT DEF Ahead, Room
  <2> DEFINE g == [e EXCEPT !.pos = @ + 1]
  <2>2. g.pos = e.pos + 1 BY SMT
  <2>3. Skip(b, e) = g BY <2>1 DEF Skip
  <2> QED BY <2>2, <2>3
<1>6. e.pos + 1 # e.pos + 2 BY <1>2, SMT
<1>7. r.d = Skip(b, e) BY <1>4 DEF Ok
<1> QED BY <1>2, <1>5, <1>6, <1>7 DEF Reads

\* What the encoder writes of a scalar, wherever it is in a package, the decoder
\* reads back as the same value and to its last byte: if and only if it is not an int
\* or a long of -262144 to -1, a whole double of -128 to -1, or a whole double
\* that takes a short (encode.go; decode.go, decInt32, decInt64, decDouble, decDate).
THEOREM ScalarRoundTrip ==
  ASSUME NEW v, IsScalar(v), NEW b, NEW d, Occurs(EncodeScalar(v), b, d),
         v.k = "date" => DateRoom(d)
  PROVE  Reads(DecodeValue(b, d), v, d.pos + Len(EncodeScalar(v))) <=> RoundTrips(v)
<1>1. CASE v.k = "double" => WritableDouble(v.n)
  <2>1. PICK f \in ScalarForms(v, "any") : f.b = EncodeScalar(v) /\ (f.odd <=> ~RoundTrips(v))
    BY <1>1, WrittenForm
  <2>2. Reads(DecodeValue(b, d), v, d.pos + Len(f.b)) <=> ~f.odd BY <2>1, ScalarReads
  <2> QED BY <2>1, <2>2
<1>2. CASE v.k = "double" /\ ~WritableDouble(v.n)
  <2>1. EncodeScalar(v) = Tagged(93, v.n \div 2, 2)
    <3>1. v.n \in Int32 BY DEF IsScalar
    <3>2. encFloat(v.n) = Tagged(93, v.n \div 2, 2) BY <1>2, <3>1, DoubleUnwritable
    <3> QED BY <1>2, <3>2, EncodeScalarCases
  <2>2. ~RoundTrips(v) BY <1>2 DEF RoundTrips
  <2>3. ~Reads(DecodeValue(b, d), v, d.pos + Len(EncodeScalar(v))) BY <2>1, ByteOfTwo
  <2> QED BY <2>2, <2>3
<1> QED BY <1>1, <1>2

-----------------------------------------------------------------------------
(***************************************************************************)
(* The registry.                                                           *)
(***************************************************************************)
\* A set of numbers that is not empty has a least one.
LEMMA LeastNumber ==
  ASSUME NEW S \in SUBSET Nat, S # {}
  PROVE  \E x \in S : \A y \in S : x <= y
<1>1. PICK x \in S : \A y \in S : ~(<<y, x>> \in OpToRel(<, Nat)) BY NatLessThanWellFounded, WFMin
<1>2. \A y \in S : ~(y < x) BY <1>1 DEF OpToRel
<1> QED BY <1>2

\* What is said of a registry, and what that needs: its definitions are a sequence,
\* and its types are types.
RegistryInv(p) ==
  /\ RegistryOK(p)
  /\ p.list \in Seq(Range(p.list))
  /\ \A g \in DOMAIN p.reg : p.reg[g].type \in DOMAIN Types

\* A sequence with one element more.
LEMMA AppendFacts ==
  ASSUME NEW s, s \in Seq(Range(s)), NEW x
  PROVE  /\ Len(s) \in Nat /\ Len(Append(s, x)) = Len(s) + 1
         /\ Append(s, x) \in Seq(Range(Append(s, x)))
         /\ Append(s, x)[Len(s) + 1] = x
         /\ \A i \in 1 .. Len(s) : Append(s, x)[i] = s[i]
<1> DEFINE S == Range(s) \cup {x}
           t == Append(s, x)
<1>1. s \in Seq(S) /\ x \in S BY SMT
<1> HIDE DEF S
<1>2. /\ t \in Seq(S) /\ Len(t) = Len(s) + 1 /\ \A i \in 1 .. Len(s) : t[i] = s[i]
      /\ t[Len(s) + 1] = x
  BY <1>1, AppendProperties
<1>3. Len(s) \in Nat BY <1>1, LenProperties
<1> HIDE DEF t
<1>4. t \in Seq(Range(t))
  <2>1. DOMAIN t = 1 .. Len(t) /\ Len(t) \in Nat /\ t \in [1 .. Len(t) -> S] BY <1>2, LenProperties
  <2>2. t \in [1 .. Len(t) -> Range(t)] BY <2>1 DEF Range
  <2> QED BY <2>1, <2>2, SeqDef
<1> QED BY <1>2, <1>3, <1>4 DEF t

\* Registering a type keeps the registry sound.  A type whose Go name is known already
\* replaces itself: Go names are those of one type.
LEMMA RegisterKeeps ==
  ASSUME NEW t \in DOMAIN Types, NEW p, RegistryInv(p)
  PROVE  RegistryInv(Register(t, Types[t].fields, p).p)
<1> DEFINE T == Types[t]
           c == [java |-> T.java, fields |-> T.fields]
           list == Append(p.list, c)
           j2g == [x \in DOMAIN p.j2g \cup {T.java} |-> IF x = T.java THEN T.go ELSE p.j2g[x]]
           new == [type |-> t, index |-> Len(p.list)]
           reg == [x \in DOMAIN p.reg \cup {T.go} |-> IF x = T.go THEN new ELSE p.reg[x]]
           q == [list |-> list, j2g |-> j2g, reg |-> reg]
           r == Register(t, T.fields, p).p
<1>1. r = IF T.java \in DOMAIN p.reg THEN p ELSE q BY DEF Register
<1>2. CASE T.java \in DOMAIN p.reg BY <1>1, <1>2
<1>3. ASSUME T.java \notin DOMAIN p.reg PROVE RegistryInv(q)
  <2>1. /\ Len(p.list) \in Nat /\ Len(list) = Len(p.list) + 1 /\ list \in Seq(Range(list))
        /\ list[Len(p.list) + 1] = c
        /\ \A i \in 1 .. Len(p.list) : list[i] = p.list[i]
    BY AppendFacts DEF RegistryInv
  <2>2. q.list = list /\ q.j2g = j2g /\ q.reg = reg OBVIOUS
  <2>3. /\ DOMAIN reg = DOMAIN p.reg \cup {T.go}
        /\ reg[T.go] = new
        /\ \A g \in DOMAIN p.reg : g # T.go => reg[g] = p.reg[g]
    OBVIOUS
  <2>4. /\ DOMAIN j2g = DOMAIN p.j2g \cup {T.java}
        /\ j2g[T.java] = T.go
        /\ \A x \in DOMAIN p.j2g : x # T.java => j2g[x] = p.j2g[x]
    OBVIOUS
  <2>5. new.type = t /\ new.index = Len(p.list) OBVIOUS
  <2>6. \A g \in DOMAIN p.reg :
          /\ Types[p.reg[g].type].go = g /\ Types[p.reg[g].type].java \in DOMAIN p.j2g
          /\ p.reg[g].index \in 0 .. Len(p.list) - 1
          /\ p.list[p.reg[g].index + 1] =
               [java |-> Types[p.reg[g].type].java, fields |-> Types[p.reg[g].type].fields]
          /\ p.reg[g].type \in DOMAIN Types
    BY DEF RegistryInv, RegistryOK
  <2>7. \A x \in DOMAIN p.j2g :
          p.j2g[x] \in DOMAIN p.reg /\ Types[p.reg[p.j2g[x]].type].java = x
    BY DEF RegistryInv, RegistryOK, getStructInfo
  <2>8. c = [java |-> T.java, fields |-> T.fields] OBVIOUS
  <2>9. \A u \in DOMAIN Types : Types[u].go = T.go => u = t BY TypesAssumption
  <2> HIDE DEF list, j2g, reg, new, c, T
  <2>10. ASSUME NEW g \in DOMAIN reg
         PROVE  /\ Types[reg[g].type].go = g /\ Types[reg[g].type].java \in DOMAIN j2g
                /\ reg[g].index \in 0 .. Len(list) - 1
                /\ list[reg[g].index + 1] =
                     [java |-> Types[reg[g].type].java, fields |-> Types[reg[g].type].fields]
                /\ reg[g].type \in DOMAIN Types
    <3>1. CASE g = T.go
      <4>1. reg[g].type = t /\ reg[g].index = Len(p.list) BY <2>3, <2>5, <3>1
      <4>2. Len(p.list) \in 0 .. Len(list) - 1 BY <2>1, SMT
      <4> QED BY <2>1, <2>4, <2>8, <3>1, <4>1, <4>2 DEF T
    <3>2. CASE g # T.go
      <4>1. g \in DOMAIN p.reg /\ reg[g] = p.reg[g] BY <2>3, <3>2
      <4> DEFINE i == p.reg[g].index
      <4>2. i \in 0 .. Len(p.list) - 1 BY <2>6, <4>1
      <4> HIDE DEF i
      <4>3. i + 1 \in 1 .. Len(p.list) /\ i \in 0 .. Len(list) - 1 BY <2>1, <4>2, SMT
      <4>4. list[i + 1] = p.list[i + 1] BY <2>1, <4>3
      <4> QED BY <2>4, <2>6, <4>1, <4>3, <4>4 DEF i
    <3> QED BY <3>1, <3>2
  <2>11. ASSUME NEW x \in DOMAIN j2g
         PROVE  j2g[x] \in DOMAIN reg /\ Types[reg[j2g[x]].type].java = x
    <3>1. CASE x = T.java BY <2>3, <2>4, <2>5, <3>1 DEF T
    <3>2. CASE x # T.java
      <4>1. x \in DOMAIN p.j2g /\ j2g[x] = p.j2g[x] BY <2>4, <3>2
      <4>2. j2g[x] \in DOMAIN p.reg /\ Types[p.reg[j2g[x]].type].java = x BY <2>7, <4>1
      <4>3. j2g[x] # T.go
        <5>1. SUFFICES ASSUME j2g[x] = T.go PROVE FALSE OBVIOUS
        <5>2. Types[p.reg[T.go].type].go = T.go /\ p.reg[T.go].type \in DOMAIN Types BY <2>6, <4>2, <5>1
        <5>3. p.reg[T.go].type = t BY <2>9, <5>2
        <5> QED BY <3>2, <4>2, <5>1, <5>3 DEF T
      <4> QED BY <2>3, <4>2, <4>3
    <3> QED BY <3>1, <3>2
  <2>12. RegistryOK(q)
    <3> HIDE DEF q
    <3> QED BY <2>2, <2>10, <2>11 DEF RegistryOK, getStructInfo
  <2>13. q.list \in Seq(Range(q.list)) /\ \A g \in DOMAIN q.reg : q.reg[g].type \in DOMAIN Types
    <3> HIDE DEF q
    <3> QED BY <2>1, <2>2, <2>10
  <2> QED BY <2>12, <2>13 DEF RegistryInv
<1> QED BY <1>1, <1>2, <1>3

\* So do both functions of pojo.go.
LEMMA RegisteredKeeps ==
  ASSUME NEW t \in DOMAIN Types, NEW p, RegistryInv(p)
  PROVE  RegistryInv(Registered(t, p)) /\ RegistryInv(RegisterPOJO(t, p).p)
<1>1. RegistryInv(RegisterPOJO(t, p).p) BY RegisterKeeps DEF RegisterPOJO
<1>2. IsEnum(t) => RegisterJavaEnum(t, p) = RegisterPOJO(t, p) BY TypesAssumption DEF RegisterPOJO, RegisterJavaEnum
<1> QED BY <1>1, <1>2 DEF Registered

\* The registry of a program that begins.
LEMMA NoneRegistered == RegistryInv(NoPOJO)
<1>1. NoPOJO.list = <<>> /\ NoPOJO.j2g = <<>> /\ NoPOJO.reg = <<>> BY DEF NoPOJO
<1>2. DOMAIN <<>> = {} /\ <<>> \in Seq(Range(<<>>)) BY SMT
<1> QED BY <1>1, <1>2 DEF RegistryInv, RegistryOK

\* What the first m of the registrations of ts make of p.
RegisterLoop(f, ts, p, m) ==
  f = [i \in 0 .. m |-> IF i = 0 THEN p ELSE RegisterPOJO(ts[i], f[i - 1]).p]

\* There is such a function, by the least m for which there would be none.
LEMMA RegisterLoopRuns ==
  ASSUME NEW n \in Nat, NEW ts, NEW p
  PROVE  \E f : RegisterLoop(f, ts, p, n)
<1> DEFINE Step(i, q) == RegisterPOJO(ts[i], q).p
           Loop(f, m) == f = [i \in 0 .. m |-> IF i = 0 THEN p ELSE Step(i, f[i - 1])]
           Fail == {m \in Nat : ~\E f : Loop(f, m)}
<1> HIDE DEF Step
<1>1. SUFFICES \E f : Loop(f, n) BY DEF RegisterLoop, Step
<1>2. SUFFICES ASSUME Fail # {} PROVE FALSE OBVIOUS
<1>a. Fail \in SUBSET Nat OBVIOUS
<1>3. PICK m \in Fail : \A k \in Fail : m <= k
  <2> HIDE DEF Fail
  <2> QED BY <1>2, <1>a, LeastNumber
<1>4. CASE m = 0
  <2> DEFINE f == [i \in 0 .. 0 |-> p]
  <2>1. Loop(f, 0) OBVIOUS
  <2> QED BY <1>3, <1>4, <2>1
<1>5. CASE m # 0
  <2>1. m - 1 \in Nat /\ m - 1 \notin Fail
    <3> HIDE DEF Fail
    <3> QED BY <1>3, <1>5, <1>a, SMT
  <2>2. PICK g : Loop(g, m - 1) BY <2>1
  <2> DEFINE last == Step(m, g[m - 1])
             f == [i \in 0 .. m |-> IF i = m THEN last ELSE g[i]]
  <2>a. m \in Nat BY <1>3
  <2>3. ASSUME NEW i \in 0 .. m
        PROVE  f[i] = IF i = 0 THEN p ELSE Step(i, f[i - 1])
    <3>1. CASE i = m
      <4>1. f[m] = last /\ f[m - 1] = g[m - 1] BY <1>5, <2>1, <2>a, SMT
      <4>2. i # 0 /\ f[i] = Step(i, f[i - 1])
        <5> HIDE DEF f
        <5> QED BY <1>5, <3>1, <4>1
      <4> QED BY <4>2
    <3>2. CASE i # m
      <4>1. i \in 0 .. m - 1 /\ f[i] = g[i] /\ (i # 0 => f[i - 1] = g[i - 1]) BY <2>1, <2>a, <3>2, SMT
      <4>2. g[i] = IF i = 0 THEN p ELSE Step(i, g[i - 1]) BY <2>2, <4>1
      <4> HIDE DEF f
      <4> QED BY <4>1, <4>2
    <3> QED BY <3>1, <3>2
  <2>4. f = [i \in 0 .. m |-> f[i]] OBVIOUS
  <2>5. Loop(f, m)
    <3> HIDE DEF f
    <3> QED BY <2>3, <2>4
  <2> QED BY <1>3, <2>5
<1> QED BY <1>4, <1>5

\* Any number of registrations keeps the registry sound.
LEMMA RegisterAllKeeps ==
  ASSUME NEW ts \in SeqOf(DOMAIN Types, MaxNew), NEW p, RegistryInv(p)
  PROVE  RegistryInv(RegisterAll(ts, p))
<1> DEFINE n == Len(ts)
           f == CHOOSE g : RegisterLoop(g, ts, p, n)
<1>1. n \in Nat /\ \A i \in 1 .. n : ts[i] \in DOMAIN Types
  <2>1. PICK m \in 0 .. MaxNew : ts \in [1 .. m -> DOMAIN Types] BY DEF SeqOf
  <2>2. m \in Nat BY BoundsAssumption, SMT
  <2>3. Len(ts) = m BY <2>1, <2>2, SMT
  <2> QED BY <2>1, <2>2, <2>3
<1>2. RegisterAll(ts, p) = f[n] BY DEF RegisterAll, RegisterLoop
<1>3. RegisterLoop(f, ts, p, n) BY <1>1, RegisterLoopRuns
<1> HIDE DEF f, n
<1> DEFINE Fail == {i \in 0 .. n : ~RegistryInv(f[i])}
<1>4. SUFFICES ASSUME Fail # {} PROVE FALSE BY <1>1, <1>2
<1>a. Fail \in SUBSET Nat BY <1>1
<1>5. PICK i \in Fail : \A k \in Fail : i <= k
  <2> HIDE DEF Fail
  <2> QED BY <1>4, <1>a, LeastNumber
<1>6. \A k \in 0 .. n : f[k] = IF k = 0 THEN p ELSE RegisterPOJO(ts[k], f[k - 1]).p BY <1>3 DEF RegisterLoop
<1>7. i \in 0 .. n /\ ~RegistryInv(f[i]) BY <1>5
<1>8. CASE i = 0 BY <1>6, <1>7, <1>8
<1>9. CASE i # 0
  <2>1. i - 1 \in 0 .. n /\ i - 1 < i /\ ~(i <= i - 1) /\ i \in 1 .. n BY <1>1, <1>7, <1>9, SMT
  <2>2. i - 1 \notin Fail
    <3> HIDE DEF Fail
    <3> QED BY <1>5, <2>1
  <2>3. RegistryInv(f[i - 1]) BY <2>1, <2>2
  <2>4. ts[i] \in DOMAIN Types BY <1>1, <2>1
  <2>5. f[i] = RegisterPOJO(ts[i], f[i - 1]).p BY <1>6, <1>7, <1>9
  <2>6. RegistryInv(RegisterPOJO(ts[i], f[i - 1]).p) BY <2>3, <2>4, RegisteredKeeps
  <2> QED BY <1>7, <2>5, <2>6
<1> QED BY <1>8, <1>9

-----------------------------------------------------------------------------
(***************************************************************************)
(* The package of the other end.                                           *)
(***************************************************************************)
\* A tag and bytes are a sequence.
LEMMA TaggedSeq ==
  ASSUME NEW tag, NEW v, NEW w \in Nat
  PROVE  Tagged(tag, v, w) \in Seq(Range(Tagged(tag, v, w)))
<1> DEFINE s == Tagged(tag, v, w)
<1>1. s = [x \in 1 .. w + 1 |-> s[x]] BY DEF Tagged
<1>a. w + 1 \in Nat BY SMT
<1> HIDE DEF s
<1>2. s \in [1 .. w + 1 -> {s[x] : x \in 1 .. w + 1}] BY <1>1
<1>3. s \in Seq({s[x] : x \in 1 .. w + 1}) BY <1>2, <1>a, SeqDef
<1> QED BY <1>3, SeqOfRange DEF s

\* The forms of a scalar are a tag and the bytes of a number.
LEMMA ScalarFormSeq ==
  ASSUME NEW v, v.k \in ScalarKinds, NEW k, NEW f \in ScalarForms(v, k)
  PROVE  f.b \in Seq(Range(f.b))
<1>a. 0 \in Nat /\ 1 \in Nat /\ 2 \in Nat /\ 4 \in Nat /\ 8 \in Nat BY SMT
<1> DEFINE W(w) == \E tag, x : f.b = Tagged(tag, x, w)
<1>b. ASSUME NEW w \in Nat, W(w) PROVE f.b \in Seq(Range(f.b)) BY <1>b, TaggedSeq
<1>c. (W(0) \/ W(1) \/ W(2) \/ W(4) \/ W(8)) => f.b \in Seq(Range(f.b)) BY <1>a, <1>b
<1>1. CASE v.k = "null"
  <2> DEFINE o == k \notin {"any", "long", "enum", "map"}
             s == Tagged(78, 0, 0)
  <2>1. f \in When(TRUE, s, o) BY <1>1, ScalarFormsCases, ZenonT(30)
  <2> HIDE DEF o, s
  <2>2. f.b = s BY <2>1 DEF When
  <2>3. W(0) BY <2>2 DEF s
  <2> QED BY <1>c, <2>3
<1>2. CASE v.k = "bool"
  <2> DEFINE s == Tagged(IF v.n = 1 THEN 84 ELSE 70, v.n, 0)
  <2>1. f \in When(TRUE, s, FALSE) BY <1>2, ScalarFormsCases
  <2> HIDE DEF s
  <2>2. f.b = s BY <2>1 DEF When
  <2>3. W(0) BY <2>2 DEF s
  <2> QED BY <1>c, <2>3
<1>3. CASE v.k = "int"
  <2>1. f \in IntForms(v.n) BY <1>3, ScalarFormsCases
  <2>2. W(4) \/ W(0) \/ W(1) \/ W(2) BY <2>1, IntFormIs
  <2> QED BY <1>c, <2>2
<1>4. CASE v.k = "long"
  <2>1. f \in LongForms(v.n) BY <1>4, ScalarFormsCases
  <2>2. W(8) \/ W(4) \/ W(0) \/ W(1) \/ W(2) BY <2>1, LongFormIs
  <2> QED BY <1>c, <2>2
<1>5. CASE v.k = "date"
  <2>1. f \in DateForms(v.n) BY <1>5, ScalarFormsCases
  <2>2. W(8) \/ W(4) BY <2>1, DateFormIs
  <2> QED BY <1>c, <2>2
<1>6. CASE v.k = "double"
  <2>1. f \in DoubleForms(v.n) BY <1>6, ScalarFormsCases
  <2>2. W(8) \/ W(0) \/ W(1) \/ W(2) \/ W(4) BY <2>1, DoubleFormIs
  <2> QED BY <1>c, <2>2
<1> QED BY <1>1, <1>2, <1>3, <1>4, <1>5, <1>6 DEF ScalarKinds

\* All that the other end answers with is a sequence of bytes.
LEMMA AnswerFormSeq ==
  ASSUME NEW p \in Registries, NEW v \in Answers(p), NEW f \in AnswerForms(v, p)
  PROVE  f.b \in Seq(Range(f.b))
<1>1. CASE v.k \in ScalarKinds BY <1>1, ScalarFormSeq DEF AnswerForms
<1>2. CASE v.k \notin ScalarKinds
  <2>1. f.b \in Seq(0 .. 255) BY <1>2, FormsAssumption DEF AnswerForms
  <2> QED BY <2>1, SeqOfRange
<1> QED BY <1>1, <1>2

\* The body is the type and, unless that is 2, the bytes of the form.
LEMMA BodyFacts ==
  ASSUME NEW type \in {0, 1, 2}, NEW form, form.b \in Seq(Range(form.b))
  PROVE  /\ Len(Body(type, form)) \in Nat /\ Len(form.b) \in Nat
         /\ Len(Body(type, form)) = IF type = 2 THEN 1 ELSE 1 + Len(form.b)
         /\ Body(type, form)[1] = 144 + type
         /\ type # 2 => \A i \in 1 .. Len(form.b) : Body(type, form)[1 + i] = form.b[i]
<1> DEFINE s == form.b
           x == 144 + type
           S == Range(s) \cup {x}
           t == IF type = 2 THEN <<>> ELSE s
           b == <<x>> \o t
<1>1. Body(type, form) = b BY DEF Body
<1>2. s \in Seq(S) /\ x \in S BY SMT
<1> HIDE DEF S, x
<1>3. t \in Seq(S) /\ <<x>> \in Seq(S) /\ Len(<<x>>) = 1 /\ <<x>>[1] = x BY <1>2, SMT
<1>4. Len(t) = IF type = 2 THEN 0 ELSE Len(s) BY SMT
<1>5. Len(s) \in Nat /\ Len(t) \in Nat BY <1>2, <1>3, LenProperties
<1>6. type # 2 => t = s OBVIOUS
<1> HIDE DEF t, s
<1>7. /\ b \in Seq(S) /\ Len(b) = 1 + Len(t)
      /\ b[1] = x
      /\ \A i \in 1 .. Len(t) : b[1 + i] = t[i]
  BY <1>3, <1>5, SMT
<1> HIDE DEF b
<1>8. Len(b) \in Nat /\ Len(b) = IF type = 2 THEN 1 ELSE 1 + Len(s) BY <1>4, <1>5, <1>7, SMT
<1> QED BY <1>1, <1>4, <1>5, <1>6, <1>7, <1>8 DEF s, x

-----------------------------------------------------------------------------
(***************************************************************************)
(* The state machine.                                                      *)
(***************************************************************************)
\* The package is one that the other end writes: a type, and in one of type 1 a form
\* of its value.
Framed ==
  /\ rsp.type \in {0, 1, 2} /\ rsp.form.b \in Seq(Range(rsp.form.b))
  /\ rsp.type = 1 => \E f \in AnswerForms(rsp.v, pojo) : rsp.form.b = f.b /\ rsp.form.odd = f.odd

\* A call fails without a look at the body.
Failed == [NoRes EXCEPT !.st = "err"]

\* The result is what unpackResponseBody makes of all of the body.
Unpacked ==
  /\ rsp.serial # 0 /\ rsp.status = OK
  /\ first = HEADER_LENGTH + BodyLen
  /\ \E want \in Wanted(rsp.v) :
       res = unpackResponseBody(Body(rsp.type, rsp.form), want, pojo)

\* Types without the registry.
Shape ==
  /\ phase \in Phases
  /\ req.st \in {"none", "ok", "err", "panic"} /\ res.st \in {"none", "ok", "err"}
  /\ net \in Nat /\ first \in 0 .. BufferSize /\ buf \in 0 .. BufferSize

\* Until the request is sent, the registry is one that the program made, unless
\* arguments were written.
Own ==
  /\ RegistryInv(pojo)
  /\ phase = "idle" => pojo \in Registries
  /\ (phase = "sent" /\ req.args = <<>>) => pojo \in Registries

\* No byte is lost: what is not read yet is in the network.
Counted ==
  /\ phase \in {"answered", "body"} => Framed
  /\ phase = "answered" => net = HEADER_LENGTH + BodyLen
  /\ phase = "body" =>
       /\ rsp.serial # 0 /\ rsp.status = OK
       /\ BodyLen <= BufferSize => buf + HEADER_LENGTH = first /\ net + first = HEADER_LENGTH + BodyLen

\* A call that is not done has no result; one that is done has failed, or has what
\* was unpacked.
Outcome ==
  /\ phase # "done" => res = NoRes
  /\ phase = "done" => res = Failed \/ (Framed /\ Unpacked)

\* The inductive invariant.
CodecInv == Shape /\ Own /\ Counted /\ Outcome

\* The results that were not decoded.
LEMMA FailedIs == Failed.st = "err" /\ Failed.want.k = "none" /\ NoRes.st = "none"
BY DEF Failed, NoRes

\* The invariant holds at the beginning.
LEMMA InitCodec == Init => CodecInv
<1> SUFFICES ASSUME Init PROVE CodecInv OBVIOUS
<1> USE DEF Init
<1>1. req.st = "none" /\ res.st = "none" /\ phase = "idle" /\ res = NoRes BY DEF NoReq, NoRes
<1>2. net \in Nat /\ first \in 0 .. BufferSize /\ buf \in 0 .. BufferSize BY SMT DEF BufferSize
<1>3. Shape BY <1>1, <1>2 DEF Shape, Phases
<1>4. Own BY <1>1, NoneRegistered, RegistriesAssumption DEF Own
<1>5. Counted /\ Outcome BY <1>1 DEF Counted, Outcome
<1> QED BY <1>3, <1>4, <1>5 DEF CodecInv

\* The result of ReadBody.
LEMMA UnpackedType ==
  ASSUME NEW b, NEW want, NEW p
  PROVE  unpackResponseBody(b, want, p).st \in {"ok", "err"}
BY DEF unpackResponseBody, Typed, Stored

\* Each action keeps the invariant: a class is registered,
LEMMA RegisterClassKeeps ==
  ASSUME CodecInv, NEW t \in DOMAIN Types, RegisterClass(t)
  PROVE  CodecInv'
<1> USE DEF RegisterClass
<1>1. Shape' BY DEF CodecInv, Shape
<1>2. pojo' \in Registries BY RegistriesAssumption DEF CodecInv, Own
<1>3. RegistryInv(pojo') BY RegisteredKeeps DEF CodecInv, Own
<1>4. Own' BY <1>2, <1>3 DEF Own
<1>5. phase' = "idle" /\ res' = NoRes BY DEF CodecInv, Outcome
<1>6. Counted' /\ Outcome' BY <1>5 DEF Counted, Outcome
<1> QED BY <1>1, <1>4, <1>6 DEF CodecInv

\* a request is written, which may register classes,
LEMMA WriteKeeps ==
  ASSUME CodecInv, NEW args \in Arguments, Write(args)
  PROVE  CodecInv'
<1> DEFINE typed == \A x \in DOMAIN args : getArgType(args[x]) # ""
           e == Pack(args, pojo)
           r == [args |-> args, st |-> IF typed THEN e.st ELSE "err",
                 b |-> IF typed /\ e.st = "ok" THEN e.b ELSE <<>>]
<1>1. /\ phase = "idle" /\ req' = r
      /\ pojo' = IF typed THEN e.p ELSE pojo
      /\ IF typed /\ e.st = "ok" THEN phase' = "sent" /\ UNCHANGED res
                                 ELSE phase' = "done" /\ res' = [res EXCEPT !.st = "err"]
      /\ UNCHANGED <<rsp, net, buf, first>>
  BY DEF Write
<1>2. typed \in BOOLEAN OBVIOUS
<1>3. pojo \in Registries /\ RegistryInv(pojo) /\ res = NoRes BY <1>1 DEF CodecInv, Own, Outcome
<1>4. /\ e.st \in {"ok", "panic"} /\ \E ts \in SeqOf(DOMAIN Types, MaxNew) : e.p = RegisterAll(ts, pojo)
      /\ args = <<>> => e.p = pojo
  BY <1>3, PackAssumption
<1>5. RegistryInv(e.p) BY <1>3, <1>4, RegisterAllKeeps
<1> HIDE DEF typed, e
<1>6. req'.args = args /\ req'.st \in {"ok", "err", "panic"} BY <1>1, <1>4
<1>7. [res EXCEPT !.st = "err"] = Failed BY <1>3 DEF Failed
<1>8. (phase' = "sent" /\ res' = NoRes) \/ (phase' = "done" /\ res' = Failed) BY <1>1, <1>3, <1>7
<1>9. Shape'
  <2>1. phase' \in Phases /\ res'.st \in {"none", "ok", "err"} BY <1>8, FailedIs DEF Phases
  <2> QED BY <1>1, <1>6, <2>1 DEF CodecInv, Shape
<1>10. Own' BY <1>1, <1>3, <1>4, <1>5, <1>6, <1>8 DEF Own
<1>11. Counted' /\ Outcome' BY <1>8 DEF Counted, Outcome
<1> QED BY <1>9, <1>10, <1>11 DEF CodecInv

\* the other end answers with a value,
LEMMA AnswerKeeps ==
  ASSUME CodecInv, NEW v \in Answers(pojo), Answer(v)
  PROVE  CodecInv'
<1>1. PICK f \in AnswerForms(v, pojo) : Package(2, OK, 1, v, f) BY DEF Answer
<1>2. /\ phase = "sent" /\ req.args = <<>> /\ phase' = "answered"
      /\ UNCHANGED <<pojo, req, buf, first, res>>
  BY DEF Answer
<1>3. pojo \in Registries /\ res = NoRes BY <1>2 DEF CodecInv, Own, Outcome
<1>4. f.b \in Seq(Range(f.b)) BY <1>3, AnswerFormSeq
<1> DEFINE form == [b |-> f.b, odd |-> f.odd]
<1>5. form.b = f.b /\ form.odd = f.odd OBVIOUS
<1>6. rsp' = [serial |-> 2, status |-> OK, type |-> 1, v |-> v, form |-> form]
      /\ net' = HEADER_LENGTH + Len(Body(1, f))
  BY <1>1 DEF Package
<1>7. Body(1, f) = Body(1, form) BY <1>5 DEF Body
<1> HIDE DEF form
<1>8. rsp'.type = 1 /\ rsp'.form = form /\ rsp'.v = v BY <1>6
<1>9. BodyLen' = Len(Body(1, form)) BY <1>8 DEF BodyLen
<1>10. Framed' BY <1>2, <1>4, <1>5, <1>8 DEF Framed
<1>11. BodyLen' \in Nat
  <2>1. 1 \in {0, 1, 2} OBVIOUS
  <2> QED BY <1>4, <1>5, <1>9, <2>1, BodyFacts
<1>12. net' = HEADER_LENGTH + BodyLen' BY <1>6, <1>7, <1>9
<1>13. net' \in Nat
  <2> DEFINE L == BodyLen'
  <2>1. L \in Nat /\ net' = HEADER_LENGTH + L BY <1>11, <1>12
  <2> HIDE DEF L
  <2> QED BY <2>1, SMT DEF HEADER_LENGTH
<1>14. Shape' BY <1>2, <1>13 DEF CodecInv, Shape, Phases
<1>15. Own' BY <1>2 DEF CodecInv, Own
<1>16. Counted' BY <1>2, <1>10, <1>12 DEF Counted
<1>17. Outcome' BY <1>2, <1>3 DEF Outcome
<1> QED BY <1>14, <1>15, <1>16, <1>17 DEF CodecInv

\* or with none,
LEMMA AnswerNothingKeeps ==
  ASSUME CodecInv, AnswerNothing
  PROVE  CodecInv'
<1> DEFINE f == [b |-> <<78>>, odd |-> FALSE]
<1>1. PICK serial \in {0, 2}, status \in {OK, SERVER_ERROR}, type \in {0, 2} :
        Package(serial, status, type, Null, f)
  BY DEF AnswerNothing
<1>2. /\ phase = "sent" /\ phase' = "answered"
      /\ UNCHANGED <<pojo, req, buf, first, res>>
  BY DEF AnswerNothing
<1>3. res = NoRes BY <1>2 DEF CodecInv, Outcome
<1>4. <<78>> \in Seq({78}) BY SMT
<1>a. <<78>> \in Seq(Range(<<78>>)) BY <1>4, SeqOfRange
<1> DEFINE form == [b |-> f.b, odd |-> f.odd]
<1>5. form.b = <<78>> /\ form = f OBVIOUS
<1>6. rsp' = [serial |-> serial, status |-> status, type |-> type, v |-> Null, form |-> form]
      /\ net' = HEADER_LENGTH + Len(Body(type, f))
  BY <1>1 DEF Package
<1>7. Body(type, f) = Body(type, form) BY <1>5
<1> HIDE DEF form, f
<1>8. rsp'.type = type /\ rsp'.form = form BY <1>6
<1>9. BodyLen' = Len(Body(type, form)) BY <1>8 DEF BodyLen
<1>b. type \in {0, 1, 2} /\ type # 1 BY SMT
<1>10. Framed' BY <1>5, <1>8, <1>a, <1>b DEF Framed
<1>11. BodyLen' \in Nat BY <1>5, <1>9, <1>a, <1>b, BodyFacts
<1>12. net' = HEADER_LENGTH + BodyLen' BY <1>6, <1>7, <1>9
<1>13. net' \in Nat
  <2> DEFINE L == BodyLen'
  <2>1. L \in Nat /\ net' = HEADER_LENGTH + L BY <1>11, <1>12
  <2> HIDE DEF L
  <2> QED BY <2>1, SMT DEF HEADER_LENGTH
<1>14. Shape' BY <1>2, <1>13 DEF CodecInv, Shape, Phases
<1>15. Own' BY <1>2 DEF CodecInv, Own
<1>16. Counted' BY <1>2, <1>10, <1>12 DEF Counted
<1>17. Outcome' BY <1>2, <1>3 DEF Outcome
<1> QED BY <1>14, <1>15, <1>16, <1>17 DEF CodecInv

\* A call that fails.
LEMMA ReturnKeeps ==
  ASSUME CodecInv, phase # "done", Return("err"), UNCHANGED <<pojo, req, rsp>>,
         net' \in Nat, first' \in 0 .. BufferSize, buf' \in 0 .. BufferSize
  PROVE  CodecInv'
<1>1. phase' = "done" /\ res' = Failed BY DEF Return, CodecInv, Outcome, Failed
<1>2. Shape' BY <1>1, FailedIs DEF CodecInv, Shape, Phases
<1>3. Own' BY <1>1 DEF CodecInv, Own
<1>4. Counted' /\ Outcome' BY <1>1 DEF Counted, Outcome
<1> QED BY <1>2, <1>3, <1>4 DEF CodecInv

\* a read fails,
LEMMA RecvFailKeeps ==
  ASSUME CodecInv, RecvFail
  PROVE  CodecInv'
<1>1. phase # "done" /\ Return("err") /\ UNCHANGED <<pojo, req, rsp, net, buf, first>> BY DEF RecvFail
<1>2. net' \in Nat /\ first' \in 0 .. BufferSize /\ buf' \in 0 .. BufferSize BY <1>1 DEF CodecInv, Shape
<1> QED BY <1>1, <1>2, ReturnKeeps

\* What a read takes.
LEMMA DueFacts ==
  ASSUME net \in Nat
  PROVE  Due \in Nat /\ Due <= net /\ Due <= 4096
BY SMT DEF Due, Least, BufferSize

\* the header is read, or fails,
LEMMA ReadHeaderKeeps ==
  ASSUME CodecInv, NEW n, ReadHeader(n)
  PROVE  CodecInv'
<1>1. /\ phase = "answered" /\ n \in 1 .. Due /\ net' = net - n /\ first' = n
      /\ UNCHANGED <<pojo, req, rsp>>
  BY DEF ReadHeader
<1>2. net \in Nat /\ buf \in 0 .. BufferSize /\ Framed /\ net = HEADER_LENGTH + BodyLen /\ res = NoRes
  BY <1>1 DEF CodecInv, Shape, Counted, Outcome
<1>3. Due \in Nat /\ Due <= net /\ Due <= 4096 BY <1>2, DueFacts
<1>4. n \in Nat /\ n <= 4096 /\ n <= net
  <2> DEFINE D == Due
  <2>1. n \in 1 .. D /\ D \in Nat /\ D <= net /\ D <= 4096 BY <1>1, <1>3
  <2> HIDE DEF D
  <2> QED BY <1>2, <2>1, SMT
<1>5. net' \in Nat /\ first' \in 0 .. BufferSize BY <1>1, <1>2, <1>4, SMT DEF BufferSize
<1>6. CASE ~(n >= HEADER_LENGTH /\ unpackResponseHeaer)
  <2>1. Return("err") /\ buf' = n BY <1>6 DEF ReadHeader
  <2>2. buf' \in 0 .. BufferSize BY <1>4, <2>1, SMT DEF BufferSize
  <2> QED BY <1>1, <1>5, <2>1, <2>2, ReturnKeeps
<1>7. CASE n >= HEADER_LENGTH /\ unpackResponseHeaer
  <2>1. phase' = "body" /\ buf' = n - HEADER_LENGTH /\ res' = res BY <1>7 DEF ReadHeader
  <2>2. rsp.serial # 0 /\ rsp.status = OK BY <1>7 DEF unpackResponseHeaer
  <2>3. BodyLen' = BodyLen /\ Framed' BY <1>1, <1>2 DEF BodyLen, Framed
  <2>4. BodyLen \in Nat BY <1>2, BodyFacts DEF Framed, BodyLen
  <2> DEFINE L == BodyLen
  <2>a. L \in Nat /\ net = HEADER_LENGTH + L BY <1>2, <2>4
  <2>b. n >= HEADER_LENGTH BY <1>7
  <2> HIDE DEF L
  <2>5. buf' \in 0 .. BufferSize /\ buf' + HEADER_LENGTH = n /\ net' + n = HEADER_LENGTH + L
    BY <1>1, <1>2, <1>4, <2>1, <2>a, <2>b, SMT DEF BufferSize, HEADER_LENGTH
  <2>6. Shape' BY <1>1, <1>2, <1>5, <2>1, <2>5 DEF CodecInv, Shape, Phases
  <2>7. Own' BY <1>1, <2>1 DEF CodecInv, Own
  <2>8. Counted' BY <1>1, <2>1, <2>2, <2>3, <2>5 DEF Counted, L
  <2>9. Outcome' BY <1>2, <2>1 DEF Outcome
  <2> QED BY <2>6, <2>7, <2>8, <2>9 DEF CodecInv
<1> QED BY <1>6, <1>7

\* the body is read, which Peek refuses unless it is all there,
LEMMA ReadBodyKeeps ==
  ASSUME CodecInv, NEW want \in Wanted(rsp.v), ReadBody(want)
  PROVE  CodecInv'
<1>1. /\ phase = "body" /\ BodyLen <= BufferSize /\ phase' = "done"
      /\ res' = IF Peek(BodyLen) THEN unpackResponseBody(Body(rsp.type, rsp.form), want, pojo)
                                 ELSE [res EXCEPT !.st = "err"]
      /\ UNCHANGED <<pojo, req, rsp, net, buf, first>>
  BY DEF ReadBody, LeaveBody
<1>2. /\ rsp.serial # 0 /\ rsp.status = OK /\ Framed /\ res = NoRes
      /\ buf + HEADER_LENGTH = first /\ net + first = HEADER_LENGTH + BodyLen
      /\ net \in Nat /\ first \in 0 .. BufferSize /\ buf \in 0 .. BufferSize
  BY <1>1 DEF CodecInv, Shape, Counted, Outcome
<1>3. BodyLen \in Nat BY <1>2, BodyFacts DEF Framed, BodyLen
<1>4. BodyLen' = BodyLen /\ Framed' BY <1>1, <1>2 DEF BodyLen, Framed
<1>5. res' = Failed \/ (Framed' /\ Unpacked')
  <2>1. CASE ~Peek(BodyLen) BY <1>1, <1>2, <2>1 DEF Failed
  <2>2. CASE Peek(BodyLen)
    <3>1. buf >= BodyLen BY <2>2 DEF Peek
    <3> DEFINE L == BodyLen
    <3>2. L \in Nat /\ buf >= L /\ net + first = HEADER_LENGTH + L BY <1>2, <1>3, <3>1
    <3> HIDE DEF L
    <3>3. first = HEADER_LENGTH + L BY <1>2, <3>2, SMT DEF HEADER_LENGTH, BufferSize
    <3>4. res' = unpackResponseBody(Body(rsp.type, rsp.form), want, pojo) BY <1>1, <2>2
    <3>5. first' = HEADER_LENGTH + BodyLen' BY <1>1, <1>4, <3>3 DEF L
    <3>6. \E w \in Wanted(rsp'.v) : res' = unpackResponseBody(Body(rsp'.type, rsp'.form), w, pojo')
      BY <1>1, <3>4
    <3>7. Unpacked' BY <1>1, <1>2, <3>5, <3>6 DEF Unpacked
    <3> QED BY <1>4, <3>7
  <2> QED BY <2>1, <2>2
<1>6. res'.st \in {"ok", "err"}
  <2>1. CASE ~Peek(BodyLen)
    <3>1. res' = Failed BY <1>1, <1>2, <2>1 DEF Failed
    <3> QED BY <3>1, FailedIs
  <2>2. CASE Peek(BodyLen) BY <1>1, <2>2, UnpackedType
  <2> QED BY <2>1, <2>2
<1>7. Shape' BY <1>1, <1>6 DEF CodecInv, Shape, Phases
<1>8. Own' BY <1>1 DEF CodecInv, Own
<1>9. Counted' /\ Outcome' BY <1>1, <1>5 DEF Counted, Outcome
<1> QED BY <1>7, <1>8, <1>9 DEF CodecInv

\* or is too long and read on,
LEMMA ReadMoreKeeps ==
  ASSUME CodecInv, ReadMore
  PROVE  CodecInv'
<1>1. /\ phase = "body" /\ BodyLen > BufferSize /\ net' = net - Due
      /\ buf' = Least(buf + Due, BufferSize)
      /\ UNCHANGED <<pojo, phase, req, rsp, first, res>>
  BY DEF ReadMore
<1>2. /\ rsp.serial # 0 /\ rsp.status = OK /\ Framed /\ res = NoRes
      /\ net \in Nat /\ first \in 0 .. BufferSize /\ buf \in 0 .. BufferSize
  BY <1>1 DEF CodecInv, Shape, Counted, Outcome
<1>3. BodyLen \in Nat BY <1>2, BodyFacts DEF Framed, BodyLen
<1>4. BodyLen' = BodyLen /\ Framed' BY <1>1, <1>2 DEF BodyLen, Framed
<1>5. ~(BodyLen' <= BufferSize)
  <2> DEFINE L == BodyLen
  <2>1. L \in Nat /\ L > BufferSize BY <1>1, <1>3
  <2> HIDE DEF L
  <2>2. ~(L <= BufferSize) BY <2>1, SMT DEF BufferSize
  <2> QED BY <1>4, <2>2 DEF L
<1>6. Due \in Nat /\ Due <= net /\ Due <= 4096 BY <1>2, DueFacts
<1>7. net' \in Nat /\ buf' \in 0 .. BufferSize BY <1>1, <1>2, <1>6, SMT DEF Least, BufferSize
<1>8. Shape' BY <1>1, <1>7 DEF CodecInv, Shape
<1>9. Own' BY <1>1 DEF CodecInv, Own
<1>10. Counted' BY <1>1, <1>2, <1>4, <1>5 DEF Counted
<1>11. Outcome' BY <1>1, <1>2 DEF Outcome
<1> QED BY <1>8, <1>9, <1>10, <1>11 DEF CodecInv

\* and nothing happens.
LEMMA UnchangedKeeps ==
  ASSUME CodecInv, UNCHANGED vars
  PROVE  CodecInv'
<1> USE DEF vars
<1>1. Framed' <=> Framed BY DEF Framed
<1>2. Unpacked' <=> Unpacked BY DEF Unpacked, BodyLen
<1>3. BodyLen' = BodyLen BY DEF BodyLen
<1>4. Shape' /\ Own' BY DEF CodecInv, Shape, Own
<1>5. Counted' BY <1>1, <1>3 DEF CodecInv, Counted
<1>6. Outcome' BY <1>1, <1>2 DEF CodecInv, Outcome
<1> QED BY <1>4, <1>5, <1>6 DEF CodecInv

\* Every step keeps the invariant.
LEMMA NextCodec == CodecInv /\ [Next]_vars => CodecInv'
<1> SUFFICES ASSUME CodecInv, [Next]_vars PROVE CodecInv' OBVIOUS
<1>1. ASSUME NEW t \in DOMAIN Types, RegisterClass(t) PROVE CodecInv' BY <1>1, RegisterClassKeeps
<1>2. ASSUME NEW args \in Arguments, Write(args) PROVE CodecInv' BY <1>2, WriteKeeps
<1>3. ASSUME NEW v \in Answers(pojo), Answer(v) PROVE CodecInv' BY <1>3, AnswerKeeps
<1>4. CASE AnswerNothing BY <1>4, AnswerNothingKeeps
<1>5. ASSUME NEW n \in Pieces \cup {Due}, ReadHeader(n) PROVE CodecInv' BY <1>5, ReadHeaderKeeps
<1>6. ASSUME NEW want \in Wanted(rsp.v), ReadBody(want) PROVE CodecInv' BY <1>6, ReadBodyKeeps
<1>7. CASE ReadMore BY <1>7, ReadMoreKeeps
<1>8. CASE RecvFail BY <1>8, RecvFailKeeps
<1>9. CASE Terminated \/ UNCHANGED vars BY <1>9, UnchangedKeeps DEF Terminated
<1> QED BY <1>1, <1>2, <1>3, <1>4, <1>5, <1>6, <1>7, <1>8, <1>9 DEF Next, Reading

\* The inductive invariant holds of every behaviour.
LEMMA CodecInvariant == Spec => []CodecInv
BY InitCodec, NextCodec, PTL DEF Spec

-----------------------------------------------------------------------------
(***************************************************************************)
(* Results.                                                                *)
(***************************************************************************)
\* A value is stored only in a result of its kind, and there is no result of kind
\* "none".
LEMMA ReflectKind ==
  ASSUME NEW v, NEW want, ReflectResponse(v, want) = "ok"
  PROVE  want.k = v.k /\ want.k # "none"
<1>1. v.k \in {"bool", "int", "long", "double", "string", "object", "binary", "list", "map"}
  BY DEF ReflectResponse
<1>2. CASE v.k \in {"bool", "int", "long", "double", "string"}
  <2>1. ReflectResponse(v, want) = IF v.k = want.k THEN "ok" ELSE "panic" BY <1>2 DEF ReflectResponse
  <2> QED BY <1>2, <2>1
<1>3. CASE v.k = "object"
  <2>1. ReflectResponse(v, want) = IF want = [k |-> "object", n |-> v.n] THEN "ok" ELSE "panic"
    BY <1>3 DEF ReflectResponse
  <2>2. want = [k |-> "object", n |-> v.n] BY <2>1
  <2> QED BY <1>3, <2>2
<1>4. CASE v.k = "binary"
  <2>1. ReflectResponse(v, want) =
          IF want.k # "binary" THEN "panic" ELSE IF v.n = 0 THEN "ok" ELSE "err"
    BY <1>4 DEF ReflectResponse
  <2> QED BY <1>4, <2>1
<1>5. CASE v.k = "list"
  <2> DEFINE rest == IF v.s = <<>> THEN "ok"
                     ELSE IF want.n = 0 THEN "err"
                     ELSE IF \A x \in DOMAIN v.s : v.s[x].k = "object" /\ v.s[x].n = want.n
                       THEN "ok" ELSE "panic"
  <2>1. ReflectResponse(v, want) = IF want.k # "list" THEN "panic" ELSE rest BY <1>5 DEF ReflectResponse
  <2> HIDE DEF rest
  <2> QED BY <1>5, <2>1
<1>6. CASE v.k = "map"
  <2>1. ReflectResponse(v, want) = IF want.k # "map" \/ Contains(v.s, Null) THEN "panic" ELSE "ok"
    BY <1>6 DEF ReflectResponse
  <2> QED BY <1>6, <2>1
<1> QED BY <1>1, <1>2, <1>3, <1>4, <1>5, <1>6

\* The first value of the body is its type; what follows is looked at only when that
\* is 1.
LEMMA BodyType ==
  ASSUME NEW type \in {0, 1, 2}, NEW form, form.b \in Seq(Range(form.b)), NEW want, NEW p
  PROVE  LET b == Body(type, form)
             e == Skip(b, NewDecoder(p))
         IN /\ e.pos = 1
            /\ unpackResponseBody(b, want, p) =
                 IF type = 1 THEN Stored(DecodeValue(b, e), want, Len(b))
                 ELSE [st |-> "err", want |-> want, got |-> Null, read |-> FALSE]
<1> DEFINE b == Body(type, form)
           d == NewDecoder(p)
           e == Skip(b, d)
           tag == 144 + type
           t == Leaf("int", Diff(tag, 144))
           r == DecodeValue(b, d)
<1>1. Len(b) \in Nat /\ Len(form.b) \in Nat /\ Len(b) = (IF type = 2 THEN 1 ELSE 1 + Len(form.b)) /\ b[1] = tag
  BY BodyFacts
<1>2. d.pos = 0 BY DEF NewDecoder
<1>a. unpackResponseBody(b, want, p) =
        IF r.v.n = 1 THEN Stored(DecodeValue(b, r.d), want, Len(b))
        ELSE [st |-> "err", want |-> want, got |-> Null, read |-> FALSE]
  BY DEF unpackResponseBody, Typed
<1> HIDE DEF b, d
<1>3. 0 < Len(b) /\ 0 + 1 = 1 BY <1>1, SMT
<1>4. ~AtEnd(b, d) /\ Tag(b, d) = tag /\ e.pos = 1
  <2>1. ~(0 >= Len(b)) BY <1>1, <1>3, SMT
  <2>2. ~AtEnd(b, d) BY <1>2, <2>1 DEF AtEnd
  <2>3. Tag(b, d) = b[1] BY <1>2, <1>3 DEF Tag
  <2>4. e = [d EXCEPT !.pos = @ + 1] BY <1>2, <1>3 DEF Skip
  <2>5. [d EXCEPT !.pos = @ + 1].pos = d.pos + 1 BY SMT
  <2> QED BY <1>1, <1>2, <1>3, <2>2, <2>3, <2>4, <2>5
<1>5. tag \in Int /\ IntTag(tag) /\ Between(tag, 128, 191) BY SMT DEF IntTag, Between
<1>6. r = decInt32(b, e, tag) BY <1>4, <1>5, Dispatch
<1>7. r = Ok(t, e) BY <1>5, <1>6, decInt32Cases
<1>8. t.n = type
  <2>1. type \in Int /\ -128 <= type /\ type <= 127 /\ ~(type < 0) /\ 144 \in Int BY SMT
  <2>2. Diff(tag, 144) = type BY <2>1, DiffValue
  <2> QED BY <2>2 DEF Leaf
<1> HIDE DEF t, e, r, tag
<1>9. r.v = t /\ r.d = e BY <1>7, SMT DEF Ok
<1>10. unpackResponseBody(b, want, p) =
         IF type = 1 THEN Stored(DecodeValue(b, e), want, Len(b))
         ELSE [st |-> "err", want |-> want, got |-> Null, read |-> FALSE]
  BY <1>8, <1>9, <1>a
<1> QED BY <1>4, <1>10 DEF b, e, d

\* What a call that succeeds has, whatever the value.
FramedResult ==
  (phase = "done" /\ res.st = "ok") =>
    /\ rsp.serial # 0 /\ rsp.status = OK /\ rsp.type = 1
    /\ first = HEADER_LENGTH + BodyLen
    /\ res.want.k = res.got.k /\ res.want.k # "none"

\* It follows from the invariant.
LEMMA FramedResultHolds == CodecInv => FramedResult
<1> SUFFICES ASSUME CodecInv, phase = "done", res.st = "ok" PROVE FramedResult!2 BY DEF FramedResult
<1>1. Framed /\ Unpacked BY FailedIs DEF CodecInv, Outcome
<1>2. PICK want \in Wanted(rsp.v) : res = unpackResponseBody(Body(rsp.type, rsp.form), want, pojo)
  BY <1>1 DEF Unpacked
<1> DEFINE b == Body(rsp.type, rsp.form)
           e == Skip(b, NewDecoder(pojo))
           r == DecodeValue(b, e)
           none == [st |-> "err", want |-> want, got |-> Null, read |-> FALSE]
<1>3. res = IF rsp.type = 1 THEN Stored(r, want, Len(b)) ELSE none
  BY <1>1, <1>2, BodyType DEF Framed
<1>4. none.st = "err" OBVIOUS
<1> HIDE DEF r, none, b
<1>5. rsp.type = 1 /\ res = Stored(r, want, Len(b)) BY <1>3, <1>4
<1>6. res.want = want /\ res.got = r.v
      /\ res.st = IF r.st = "ok" /\ ReflectResponse(r.v, want) = "ok" THEN "ok" ELSE "err"
  BY <1>5 DEF Stored
<1>7. ReflectResponse(r.v, want) = "ok" BY <1>6
<1>8. want.k = r.v.k /\ want.k # "none" BY <1>7, ReflectKind
<1> QED BY <1>1, <1>5, <1>6, <1>8 DEF Unpacked

\* An answer that is a scalar, read.
LEMMA ScalarExact == CodecInv /\ IsScalar(rsp.v) => DecodeExact
<1> SUFFICES ASSUME CodecInv, IsScalar(rsp.v), phase = "done", res.want.k # "none", rsp.type = 1
             PROVE  (res.read /\ res.got = AnswerMeaning(rsp.v)) <=> ~rsp.form.odd
  BY DEF DecodeExact
<1>1. Framed /\ Unpacked BY FailedIs DEF CodecInv, Outcome
<1>2. PICK want \in Wanted(rsp.v) : res = unpackResponseBody(Body(rsp.type, rsp.form), want, pojo)
  BY <1>1 DEF Unpacked
<1>3. PICK f \in AnswerForms(rsp.v, pojo) : rsp.form.b = f.b /\ rsp.form.odd = f.odd BY <1>1 DEF Framed
<1>4. rsp.v.k \in ScalarKinds BY DEF IsScalar
<1>5. f \in ScalarForms(rsp.v, "any") /\ AnswerMeaning(rsp.v) = rsp.v BY <1>4 DEF AnswerForms, AnswerMeaning
<1> DEFINE b == Body(rsp.type, rsp.form)
           e == Skip(b, NewDecoder(pojo))
           r == DecodeValue(b, e)
           v == rsp.v
<1>6. e.pos = 1 /\ res = Stored(r, want, Len(b)) BY <1>1, <1>2, BodyType DEF Framed
<1>7. res.read <=> (r.st = "ok" /\ r.d.pos = Len(b)) BY <1>6 DEF Stored
<1>a. res.got = r.v BY <1>6 DEF Stored
<1>b. 1 # 2 BY SMT
<1>8. /\ Len(b) \in Nat /\ Len(f.b) \in Nat /\ Len(b) = 1 + Len(f.b)
      /\ \A i \in 1 .. Len(f.b) : b[1 + i] = f.b[i]
  <2> DEFINE g == rsp.form
             y == rsp.type
  <2>1. y \in {0, 1, 2} /\ g.b \in Seq(Range(g.b)) /\ y = 1 /\ g.b = f.b /\ b = Body(y, g)
    BY <1>1, <1>3 DEF Framed
  <2> HIDE DEF g, y, b
  <2>2. /\ Len(b) \in Nat /\ Len(g.b) \in Nat /\ Len(b) = IF y = 2 THEN 1 ELSE 1 + Len(g.b)
        /\ y # 2 => \A i \in 1 .. Len(g.b) : b[1 + i] = g.b[i]
    BY <2>1, BodyFacts
  <2>3. y # 2 BY <1>b, <2>1
  <2> QED BY <2>1, <2>2, <2>3
<1> HIDE DEF b, e, r, v
<1>9. Occurs(f.b, b, e)
  <2>1. 1 \in Nat /\ 1 + Len(f.b) <= Len(b)
    <3> DEFINE x == Len(f.b)
               y == Len(b)
    <3>1. x \in Nat /\ y \in Nat /\ y = 1 + x BY <1>8
    <3> HIDE DEF x, y
    <3>2. 1 \in Nat /\ 1 + x <= y BY <3>1, SMT
    <3> QED BY <3>2 DEF x, y
  <2> QED BY <1>6, <1>8, <2>1 DEF Occurs
<1>10. DateRoom(e)
  <2>1. ((1 + 1) % CHUNK_SIZE) + 8 <= CHUNK_SIZE BY SMT DEF CHUNK_SIZE
  <2> QED BY <1>6, <2>1 DEF DateRoom
<1>11. Reads(r, v, e.pos + Len(f.b)) <=> ~f.odd BY <1>5, <1>9, <1>10, ScalarReads DEF r, v
<1>12. Reads(r, v, Len(b)) <=> ~f.odd BY <1>6, <1>8, <1>11
<1> QED BY <1>3, <1>5, <1>7, <1>12, <1>a DEF Reads, v

\* The types, and that the registry is sound however classes came to be registered,
\* by the program or by the encoder, for all types, arguments and answers (pojo.go,
\* RegisterPOJO; hessian.go).
THEOREM TypeCorrect == Spec => []TypeOK
<1>1. CodecInv => TypeOK BY DEF CodecInv, Shape, Own, RegistryInv, TypeOK
<1> QED BY <1>1, CodecInvariant, PTL

\* A call succeeds only with a value that the other end sent as a value, in a
\* package that came in one piece, and in a result of the value's kind: whatever the
\* serialization of values that are not scalars (hessian.go, ReadBody; response.go).
THEOREM SuccessFramed == Spec => []FramedResult
BY CodecInvariant, FramedResultHolds, PTL

\* What a call that succeeds stores is the value sent, or was sent in a form that is
\* misread, wherever the decoder is exact (response.go, unpackResponseBody).
THEOREM ExactThenWhole == Spec => [](DecodeExact => ResponseWhole)
<1>1. CodecInv => (DecodeExact => ResponseWhole)
  BY FramedResultHolds DEF FramedResult, DecodeExact, ResponseWhole
<1> QED BY <1>1, CodecInvariant, PTL

\* Every scalar of 32 bits that the other end sends, in every form of the grammar, is
\* read for what it is and to its last byte, if and only if the form is not one of
\* those that are known to be misread (decode.go, decInt32, decInt64, decDouble,
\* decDate).
THEOREM ScalarsExact == Spec => [](IsScalar(rsp.v) => DecodeExact)
BY CodecInvariant, ScalarExact, PTL

\* A call whose answer is a scalar returns that scalar, unless it was sent in a form
\* that is misread (hessian.go, ReadBody; response.go).
THEOREM ScalarsWhole == Spec => [](IsScalar(rsp.v) => ResponseWhole)
BY ExactThenWhole, ScalarsExact, PTL
=============================================================================
