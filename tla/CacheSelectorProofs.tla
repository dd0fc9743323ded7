------------------------- MODULE CacheSelectorProofs -------------------------
(***************************************************************************)
(* Proofs about CacheSelector, for every set of providers and callers and  *)
(* every bound: its types, that copies stay what they were, that the cache *)
(* settles on the providers there are, and what update computes.           *)
(*                                                                         *)
(* Loops of the code are recursive functions.  What one computes is shown  *)
(* by a function that satisfies its equation, and by the least index at    *)
(* which two such functions would differ.                                  *)
(***************************************************************************)
EXTENDS CacheSelector, FiniteSetTheorems, SequenceTheorems, WellFoundedInduction, TLAPS

Item == Urls \cup {None}

-----------------------------------------------------------------------------
(***************************************************************************)
(* Slices.                                                                 *)
(***************************************************************************)
\* A set of numbers that is not empty has a least one.
LEMMA LeastNumber ==
  ASSUME NEW S \in SUBSET Nat, S # {}
  PROVE  \E x \in S : \A y \in S : x <= y
<1>1. PICK x \in S : \A y \in S : ~(<<y, x>> \in OpToRel(<, Nat))
  BY NatLessThanWellFounded, WFMin
<1>2. \A y \in S : ~(y < x)
  BY <1>1 DEF OpToRel
<1>3. QED
  BY <1>2

\* The loop of appends that GrownCap counts: what its first m rounds compute.
CapLoop(f, m) ==
  f = [i \in 0 .. m |-> IF i = 0 THEN 0
                        ELSE IF i <= f[i - 1] THEN f[i - 1]
                        ELSE Doubled(f[i - 1])]

\* The loop of appends always finds room.
LEMMA CapLoopRuns ==
  ASSUME NEW n \in Nat
  PROVE  \E f \in [0 .. n -> Nat] : CapLoop(f, n)
<1> DEFINE Bad == {m \in Nat : ~\E f \in [0 .. m -> Nat] : CapLoop(f, m)}
<1>1. SUFFICES ASSUME Bad # {} PROVE FALSE
  OBVIOUS
<1>2. PICK m \in Bad : \A k \in Bad : m <= k
  BY <1>1, LeastNumber
<1>3. CASE m = 0
  <2> DEFINE f == [i \in 0 .. 0 |-> 0]
  <2>1. f \in [0 .. 0 -> Nat] /\ CapLoop(f, 0)
    BY DEF CapLoop
  <2>2. QED
    BY <1>3, <2>1
<1>4. CASE m # 0
  <2>1. m - 1 \in Nat /\ m - 1 \notin Bad
    <3>1. Bad \in SUBSET Nat
      OBVIOUS
    <3> HIDE DEF Bad
    <3>2. QED
      BY <1>2, <1>4, <3>1
  <2>2. PICK g \in [0 .. m - 1 -> Nat] : CapLoop(g, m - 1)
    BY <2>1
  <2> DEFINE last == IF m <= g[m - 1] THEN g[m - 1] ELSE Doubled(g[m - 1])
             f == [i \in 0 .. m |-> IF i = m THEN last ELSE g[i]]
  <2>3. last \in Nat
    BY <2>1 DEF Doubled
  <2>4. f \in [0 .. m -> Nat]
    BY <1>4, <2>1, <2>3
  <2>5. ASSUME NEW i \in 0 .. m
        PROVE  f[i] = IF i = 0 THEN 0
                      ELSE IF i <= f[i - 1] THEN f[i - 1]
                      ELSE Doubled(f[i - 1])
    <3>1. CASE i = m
      <4>1. f[m] = last /\ f[m - 1] = g[m - 1]
        BY <1>4, <2>1
      <4>2. QED
        BY <1>4, <3>1, <4>1
    <3>2. CASE i # m
      <4>1. i \in 0 .. m - 1 /\ f[i] = g[i] /\ (i # 0 => f[i - 1] = g[i - 1])
        BY <2>1, <3>2
      <4>2. QED
        BY <2>2, <4>1 DEF CapLoop
    <3>3. QED
      BY <3>1, <3>2
  <2>6. CapLoop(f, m)
    BY <2>5 DEF CapLoop
  <2>7. QED
    BY <1>2, <2>4, <2>6
<1>5. QED
  BY <1>3, <1>4

\* An array grown by n appends has room for n elements.
LEMMA GrownFacts ==
  ASSUME NEW n \in Nat
  PROVE  GrownCap(n) \in Nat /\ GrownCap(n) >= n
<1> DEFINE f == CHOOSE g : CapLoop(g, n)
<1>1. GrownCap(n) = f[n]
  BY DEF GrownCap, CapLoop
<1>2. PICK g \in [0 .. n -> Nat] : CapLoop(g, n)
  BY CapLoopRuns
<1>3. CapLoop(f, n)
  BY <1>2
<1> HIDE DEF f
<1> DEFINE Bad == {i \in 0 .. n : ~(f[i] \in Nat /\ f[i] >= i)}
<1>4. SUFFICES ASSUME Bad # {} PROVE FALSE
  BY <1>1
<1>5. PICK i \in Bad : \A k \in Bad : i <= k
  <2>1. Bad \in SUBSET Nat
    OBVIOUS
  <2>2. QED
    BY <1>4, <2>1, LeastNumber
<1>6. CASE i = 0
  BY <1>3, <1>5, <1>6 DEF CapLoop
<1>7. CASE i # 0
  <2>1. i - 1 \in 0 .. n /\ i - 1 \notin Bad
    BY <1>5, <1>7
  <2> DEFINE v == f[i - 1]
  <2>2. v \in Nat /\ v >= i - 1
    BY <2>1
  <2>3. f[i] = IF i <= v THEN v ELSE Doubled(v)
    BY <1>3, <1>7 DEF CapLoop
  <2> HIDE DEF v
  <2>4. QED
    BY <1>5, <1>7, <2>2, <2>3 DEF Doubled
<1>8. QED
  BY <1>6, <1>7

\* A slice copied to an array of its own.
LEMMA PaddedFacts ==
  ASSUME NEW s \in Seq(Item), NEW cap \in Nat, Len(s) <= cap
  PROVE  /\ Padded(s, cap) \in Seq(Item) /\ Len(Padded(s, cap)) = cap
         /\ \A i \in 1 .. Len(s) : Padded(s, cap)[i] = s[i]
<1>1. Len(s) \in Nat /\ \A i \in 1 .. Len(s) : s[i] \in Item
  BY LenProperties, ElementOfSeq
<1>2. Padded(s, cap) \in [1 .. cap -> Item]
  BY <1>1 DEF Padded, Item
<1>3. Padded(s, cap) \in Seq(Item) /\ Len(Padded(s, cap)) = cap
  BY <1>2
<1>4. \A i \in 1 .. Len(s) : Padded(s, cap)[i] = s[i]
  BY <1>1 DEF Padded
<1>5. QED
  BY <1>3, <1>4

\* The elements of a slice.
LEMMA ElemsFacts ==
  ASSUME NEW sl, IsSlice(sl)
  PROVE  /\ sl.arr \in Seq(Item) /\ Len(sl.arr) \in Nat /\ sl.len \in Nat
         /\ sl.len <= Len(sl.arr) /\ sl = [arr |-> sl.arr, len |-> sl.len]
         /\ Elems(sl) \in Seq(Item) /\ Len(Elems(sl)) = sl.len
         /\ \A i \in 1 .. sl.len : Elems(sl)[i] = sl.arr[i] /\ sl.arr[i] \in Item
<1>1. sl.arr \in Seq(Item) /\ sl.len \in Nat /\ sl = [arr |-> sl.arr, len |-> sl.len]
  BY DEF IsSlice, Slice, Item
<1>2. Len(sl.arr) \in Nat /\ sl.len <= Len(sl.arr)
  BY <1>1, LenProperties DEF IsSlice
<1>3. \A i \in 1 .. sl.len : sl.arr[i] \in Item
  BY <1>1, <1>2, ElementOfSeq
<1>4. /\ Elems(sl) \in Seq(Item) /\ Len(Elems(sl)) = sl.len
      /\ \A i \in 1 .. sl.len : Elems(sl)[i] = sl.arr[i]
  <2> DEFINE n == sl.len
             a == sl.arr
  <2>1. n \in Nat /\ \A i \in 1 .. n : a[i] \in Item
    BY <1>1, <1>3
  <2> HIDE DEF n, a
  <2>2. /\ SubSeq(a, 1, n) \in Seq(Item)
        /\ Len(SubSeq(a, 1, n)) = n
        /\ \A i \in 1 .. n : SubSeq(a, 1, n)[i] = a[i]
    BY <2>1, SubSeqProperties
  <2>3. QED
    BY <2>2 DEF Elems, n, a
<1>5. QED
  BY <1>1, <1>2, <1>3, <1>4

\* A slice made of the elements s, by appending them to nil.
LEMMA MadeFacts ==
  ASSUME NEW s \in Seq(Item), NEW sl,
         sl = [arr |-> Padded(s, GrownCap(Len(s))), len |-> Len(s)]
  PROVE  IsSlice(sl) /\ sl.len = Len(s) /\ Elems(sl) = s /\ \A i \in 1 .. Len(s) : sl.arr[i] = s[i]
<1>1. Len(s) \in Nat /\ GrownCap(Len(s)) \in Nat /\ Len(s) <= GrownCap(Len(s))
  BY LenProperties, GrownFacts
<1> DEFINE a == Padded(s, GrownCap(Len(s)))
<1>2. a \in Seq(Item) /\ Len(a) = GrownCap(Len(s)) /\ \A i \in 1 .. Len(s) : a[i] = s[i]
  BY <1>1, PaddedFacts
<1>3. sl = [arr |-> a, len |-> Len(s)]
  OBVIOUS
<1> HIDE DEF a
<1>4. IsSlice(sl) /\ sl.len = Len(s) /\ \A i \in 1 .. Len(s) : sl.arr[i] = s[i]
  BY <1>1, <1>2, <1>3 DEF IsSlice, Slice, Item
<1>5. Elems(sl) = s
  BY <1>4, ElemsFacts, SeqEqual
<1>6. QED
  BY <1>4, <1>5

\* cacheSelector.copy.
LEMMA CopyFacts ==
  ASSUME NEW sl, IsSlice(sl)
  PROVE  /\ CopySlice(sl).own = TRUE /\ IsSlice(CopySlice(sl).sl)
         /\ Elems(CopySlice(sl).sl) = Elems(sl) /\ CopySlice(sl).sl.len = sl.len
         /\ \A i \in 1 .. sl.len : CopySlice(sl).sl.arr[i] = sl.arr[i]
<1> DEFINE s == Elems(sl)
<1>1. s \in Seq(Item) /\ Len(s) = sl.len /\ \A i \in 1 .. sl.len : s[i] = sl.arr[i]
  BY ElemsFacts
<1>2. /\ CopySlice(sl).own = TRUE
      /\ CopySlice(sl).sl = [arr |-> Padded(s, GrownCap(Len(s))), len |-> Len(s)]
  BY <1>1 DEF CopySlice
<1> HIDE DEF s
<1>3. QED
  BY <1>1, <1>2, MadeFacts DEF s

-----------------------------------------------------------------------------
\* The cache holds providers, each of them once.
Clean(sl) ==
  /\ IsSlice(sl)
  /\ \A i \in 1 .. sl.len : sl.arr[i] \in Urls
  /\ \A i, j \in 1 .. sl.len : sl.arr[i] = sl.arr[j] => i = j

\* filterServices, for a position p, or for one past the end.
LEMMA ShiftFacts ==
  ASSUME NEW sl, Clean(sl), NEW p \in 1 .. sl.len + 1
  PROVE  LET r == filterServices(sl, p) IN
         /\ Clean(r) /\ Len(r.arr) = Len(sl.arr)
         /\ r.len = IF p <= sl.len THEN sl.len - 1 ELSE sl.len
         /\ \A i \in 1 .. Len(sl.arr) :
              r.arr[i] = IF p <= i /\ i < sl.len THEN sl.arr[i + 1] ELSE sl.arr[i]
<1> DEFINE n == sl.len
           a == sl.arr
           b == [j \in 1 .. Len(a) |-> IF p <= j /\ j < n THEN a[j + 1] ELSE a[j]]
           r == filterServices(sl, p)
<1>1. /\ n \in Nat /\ a \in Seq(Item) /\ Len(a) \in Nat /\ n <= Len(a)
      /\ p \in Nat /\ p >= 1 /\ p <= n + 1
      /\ \A i \in 1 .. Len(a) : a[i] \in Item
  BY ElemsFacts, ElementOfSeq DEF Clean
<1>2. /\ \A i \in 1 .. n : a[i] \in Urls
      /\ \A i, j \in 1 .. n : a[i] = a[j] => i = j
  BY DEF Clean
<1>3. CASE p > n
  <2>1. r = sl
    BY <1>3 DEF filterServices
  <2>2. \A i \in 1 .. Len(a) : a[i] = IF p <= i /\ i < n THEN a[i + 1] ELSE a[i]
    BY <1>1, <1>3
  <2>3. n = IF p <= n THEN n - 1 ELSE n
    BY <1>1, <1>3
  <2>4. QED
    BY <2>1, <2>2, <2>3
<1>4. CASE p <= n
  <2>1. r = [arr |-> b, len |-> n - 1]
    BY <1>1, <1>4 DEF filterServices
  <2>2. r.arr = b /\ r.len = n - 1
    BY <2>1
  <2>3. b \in [1 .. Len(a) -> Item] /\ n - 1 \in Nat
    BY <1>1, <1>4
  <2>4. b \in Seq(Item) /\ Len(b) = Len(a)
    BY <1>1, <2>3
  <2> HIDE DEF n, a, r
  <2>5. \A i \in 1 .. Len(a) : b[i] = IF p <= i /\ i < n THEN a[i + 1] ELSE a[i]
    OBVIOUS
  <2> HIDE DEF b
  <2>6. IsSlice(r)
    BY <1>1, <2>1, <2>2, <2>3, <2>4 DEF IsSlice, Slice, Item
  <2>7. \A i \in 1 .. n - 1 : b[i] \in Urls
    BY <1>1, <1>2, <2>5
  <2>8. \A i, j \in 1 .. n - 1 : b[i] = b[j] => i = j
    <3> SUFFICES ASSUME NEW i \in 1 .. n - 1, NEW j \in 1 .. n - 1, b[i] = b[j] PROVE i = j
      OBVIOUS
    <3> DEFINE x == IF p <= i THEN i + 1 ELSE i
               y == IF p <= j THEN j + 1 ELSE j
    <3>1. b[i] = a[x] /\ b[j] = a[y] /\ x \in 1 .. n /\ y \in 1 .. n
      BY <1>1, <2>5
    <3>2. x = y
      BY <1>2, <3>1
    <3>3. QED
      BY <1>1, <3>2
  <2>9. Clean(r)
    BY <2>2, <2>6, <2>7, <2>8 DEF Clean
  <2>10. QED
    BY <1>4, <2>2, <2>4, <2>5, <2>9 DEF r, n, a
<1>5. QED
  BY <1>1, <1>3, <1>4

\* The loop of update.
FilterLoop(f, sl, u) ==
  f = [i \in 0 .. sl.len |-> IF i = 0 THEN sl
                             ELSE IF f[i - 1].arr[i] = u THEN filterServices(f[i - 1], i)
                             ELSE f[i - 1]]

\* update: of a slice without duplicates the loop removes u from its position
\* p, although it goes on to read the array that filterServices has shifted; if
\* u is not there, p is past the end, and nothing happens.
LEMMA FilterIsShift ==
  ASSUME NEW sl, Clean(sl), NEW u, NEW p \in 1 .. sl.len + 1,
         \A i \in 1 .. sl.len : sl.arr[i] = u <=> i = p
  PROVE  FilterUrl(sl, u) = filterServices(sl, p)
<1> DEFINE r == filterServices(sl, p)
           n == sl.len
           f == CHOOSE g : FilterLoop(g, sl, u)
           h == [i \in 0 .. n |-> IF i < p THEN sl ELSE r]
<1>1. FilterUrl(sl, u) = f[n]
  BY DEF FilterUrl, FilterLoop
<1>2. /\ n \in Nat /\ n <= Len(sl.arr) /\ Len(sl.arr) \in Nat /\ p \in Nat /\ 1 <= p /\ p <= n + 1
      /\ \A i \in 1 .. Len(sl.arr) :
           r.arr[i] = IF p <= i /\ i < n THEN sl.arr[i + 1] ELSE sl.arr[i]
  BY ShiftFacts, ElemsFacts DEF Clean
<1>3. FilterLoop(h, sl, u)
  <2> HIDE DEF r
  <2>1. ASSUME NEW i \in 0 .. n
        PROVE  h[i] = IF i = 0 THEN sl
                      ELSE IF h[i - 1].arr[i] = u THEN filterServices(h[i - 1], i)
                      ELSE h[i - 1]
    <3>1. CASE i = 0
      BY <1>2, <3>1
    <3>2. CASE i # 0 /\ i < p
      <4>1. h[i] = sl /\ h[i - 1] = sl /\ i \in 1 .. n
        BY <1>2, <3>2
      <4>2. sl.arr[i] # u
        BY <3>2, <4>1
      <4>3. QED
        BY <3>2, <4>1, <4>2
    <3>3. CASE i # 0 /\ i = p
      <4>1. h[i] = r /\ h[i - 1] = sl /\ i \in 1 .. n
        BY <1>2, <3>3
      <4>2. sl.arr[i] = u
        BY <3>3, <4>1
      <4>3. QED
        BY <3>3, <4>1, <4>2 DEF r
    <3>4. CASE i > p
      <4>1. h[i] = r /\ h[i - 1] = r /\ i \in 1 .. n /\ i \in 1 .. Len(sl.arr)
        BY <1>2, <3>4
      <4>2. r.arr[i] # u
        <5>1. CASE i < n
          <6>1. i + 1 \in 1 .. n /\ i + 1 # p /\ r.arr[i] = sl.arr[i + 1]
            BY <1>2, <3>4, <4>1, <5>1
          <6>2. QED
            BY <6>1
        <5>2. CASE i = n
          <6>1. i # p /\ r.arr[i] = sl.arr[i]
            BY <1>2, <3>4, <4>1, <5>2
          <6>2. QED
            BY <4>1, <6>1
        <5>3. QED
          BY <1>2, <4>1, <5>1, <5>2
      <4>3. QED
        BY <1>2, <3>4, <4>1, <4>2
    <3>5. QED
      BY <1>2, <3>1, <3>2, <3>3, <3>4
  <2>2. QED
    BY <2>1 DEF FilterLoop
<1>4. FilterLoop(f, sl, u)
  BY <1>3
<1>5. h[n] = r
  <2>1. CASE n < p
    <3>1. p > n
      BY <1>2, <2>1
    <3>2. r = sl
      BY <3>1 DEF filterServices
    <3>3. QED
      BY <1>2, <2>1, <3>2
  <2>2. CASE ~(n < p)
    BY <1>2, <2>2
  <2>3. QED
    BY <2>1, <2>2
<1> HIDE DEF f, h, r
<1> DEFINE Bad == {i \in 0 .. n : f[i] # h[i]}
<1>6. Bad = {}
  <2>1. SUFFICES ASSUME Bad # {} PROVE FALSE
    OBVIOUS
  <2>2. Bad \in SUBSET Nat
    BY <1>2
  <2>3. PICK i \in Bad : \A k \in Bad : i <= k
    BY <2>1, <2>2, LeastNumber
  <2>4. i \in 0 .. n /\ f[i] # h[i]
    BY <2>3
  <2>5. CASE i = 0
    BY <1>3, <1>4, <2>4, <2>5 DEF FilterLoop
  <2>6. CASE i # 0
    <3>1. i - 1 \in 0 .. n /\ i - 1 \notin Bad
      BY <1>2, <2>3, <2>4, <2>6
    <3>2. f[i - 1] = h[i - 1]
      BY <3>1
    <3>3. /\ f[i] = IF f[i - 1].arr[i] = u THEN filterServices(f[i - 1], i) ELSE f[i - 1]
          /\ h[i] = IF h[i - 1].arr[i] = u THEN filterServices(h[i - 1], i) ELSE h[i - 1]
      BY <1>3, <1>4, <2>4, <2>6 DEF FilterLoop
    <3>4. QED
      BY <2>4, <3>2, <3>3
  <2>7. QED
    BY <2>5, <2>6
<1>7. f[n] = h[n]
  BY <1>2, <1>6
<1>8. QED
  BY <1>1, <1>5, <1>7 DEF r

\* Where u is in a slice without duplicates, or the position past its end.
LEMMA PositionOf ==
  ASSUME NEW sl, Clean(sl), NEW u
  PROVE  \E p \in 1 .. sl.len + 1 : \A i \in 1 .. sl.len : sl.arr[i] = u <=> i = p
<1> DEFINE n == sl.len
           a == sl.arr
<1>1. n \in Nat /\ \A i, j \in 1 .. n : a[i] = a[j] => i = j
  BY ElemsFacts DEF Clean
<1>2. CASE \E i \in 1 .. n : a[i] = u
  <2>1. PICK p \in 1 .. n : a[p] = u
    BY <1>2
  <2>2. p \in 1 .. n + 1 /\ \A i \in 1 .. n : a[i] = u <=> i = p
    BY <1>1, <2>1
  <2>3. QED
    BY <2>2
<1>3. CASE ~\E i \in 1 .. n : a[i] = u
  <2>1. n + 1 \in 1 .. n + 1 /\ \A i \in 1 .. n : i # n + 1
    BY <1>1
  <2>2. QED
    BY <1>3, <2>1
<1>4. QED
  BY <1>2, <1>3

\* update: what is left after the loop.
LEMMA FilterFacts ==
  ASSUME NEW sl, Clean(sl), NEW u
  PROVE  LET r == FilterUrl(sl, u) IN
         /\ Clean(r) /\ Len(r.arr) = Len(sl.arr)
         /\ \A v : InSlice(v, r) <=> InSlice(v, sl) /\ v # u
<1> DEFINE n == sl.len
           a == sl.arr
           r == FilterUrl(sl, u)
<1>1. n \in Nat /\ Len(a) \in Nat /\ n <= Len(a) /\ \A i, j \in 1 .. n : a[i] = a[j] => i = j
  BY ElemsFacts DEF Clean
<1>2. PICK p \in 1 .. n + 1 : \A i \in 1 .. n : a[i] = u <=> i = p
  BY PositionOf
<1>3. r = filterServices(sl, p)
  BY <1>2, FilterIsShift
<1>4. /\ Clean(r) /\ Len(r.arr) = Len(a)
      /\ r.len = IF p <= n THEN n - 1 ELSE n
      /\ \A i \in 1 .. Len(a) : r.arr[i] = IF p <= i /\ i < n THEN a[i + 1] ELSE a[i]
  BY <1>3, ShiftFacts
<1> HIDE DEF r, n, a
<1>5. ASSUME NEW v PROVE InSlice(v, r) <=> InSlice(v, sl) /\ v # u
  <2>1. ASSUME NEW i \in 1 .. r.len, r.arr[i] = v PROVE InSlice(v, sl) /\ v # u
    <3> DEFINE j == IF p <= i THEN i + 1 ELSE i
    <3>1. j \in 1 .. n /\ j # p /\ r.arr[i] = a[j]
      BY <1>1, <1>2, <1>4, <2>1
    <3>2. a[j] # u
      BY <1>2, <3>1
    <3> HIDE DEF j
    <3>3. QED
      BY <2>1, <3>1, <3>2 DEF InSlice, n, a
  <2>2. ASSUME NEW j \in 1 .. n, a[j] = v, v # u PROVE InSlice(v, r)
    <3> DEFINE i == IF p <= j THEN j - 1 ELSE j
    <3>1. j # p
      BY <1>2, <2>2
    <3>2. i \in 1 .. r.len /\ r.arr[i] = a[j]
      <4>1. CASE p <= j
        <5>1. i = j - 1 /\ p <= i /\ i < n /\ p <= n /\ i \in 1 .. Len(a) /\ i + 1 = j
          BY <1>1, <2>2, <3>1, <4>1
        <5>2. r.len = n - 1 /\ r.arr[i] = a[i + 1]
          BY <1>4, <5>1
        <5>3. QED
          BY <1>1, <5>1, <5>2
      <4>2. CASE ~(p <= j)
        <5>1. i = j /\ ~(p <= i) /\ i \in 1 .. Len(a)
          BY <1>1, <2>2, <4>2
        <5>2. r.arr[i] = a[i] /\ r.len \in {n - 1, n} /\ (r.len = n - 1 => p <= n)
          BY <1>1, <1>4, <5>1
        <5>3. QED
          BY <1>1, <2>2, <4>2, <5>1, <5>2
      <4>3. QED
        BY <4>1, <4>2
    <3> HIDE DEF i
    <3>3. QED
      BY <2>2, <3>2 DEF InSlice
  <2>3. QED
    BY <2>1, <2>2 DEF InSlice, n, a
<1>6. QED
  BY <1>4, <1>5 DEF r, a

\* append: the elements of the slice, and u behind them.
LEMMA AppendUrlFacts ==
  ASSUME NEW sl, Clean(sl), NEW u \in Urls, ~InSlice(u, sl)
  PROVE  LET r == AppendUrl(sl, u) IN
         /\ Clean(r) /\ r.len = sl.len + 1
         /\ sl.len < Len(sl.arr) => Len(r.arr) = Len(sl.arr)
         /\ sl.len = Len(sl.arr) => Len(r.arr) # Len(sl.arr)
         /\ r.arr[sl.len + 1] = u /\ \A i \in 1 .. sl.len : r.arr[i] = sl.arr[i]
         /\ \A v : InSlice(v, r) <=> InSlice(v, sl) \/ v = u
<1> DEFINE n == sl.len
           a == sl.arr
           r == AppendUrl(sl, u)
           b == IF n < Len(a) THEN [a EXCEPT ![n + 1] = u]
                ELSE Padded(Append(Elems(sl), u), Doubled(Len(a)))
<1>1. /\ n \in Nat /\ a \in Seq(Item) /\ Len(a) \in Nat /\ n <= Len(a) /\ u \in Item
      /\ Elems(sl) \in Seq(Item) /\ Len(Elems(sl)) = n
      /\ \A i \in 1 .. n : Elems(sl)[i] = a[i]
  BY ElemsFacts DEF Clean, Item
<1>2. r = [arr |-> b, len |-> n + 1]
  BY DEF AppendUrl
<1>3. /\ b \in Seq(Item) /\ n + 1 <= Len(b)
      /\ n < Len(a) => Len(b) = Len(a)
      /\ n = Len(a) => Len(b) # Len(a)
      /\ b[n + 1] = u /\ \A i \in 1 .. n : b[i] = a[i]
  <2>1. CASE n < Len(a)
    <3>1. b = [a EXCEPT ![n + 1] = u] /\ n + 1 \in 1 .. Len(a)
      BY <1>1, <2>1
    <3>2. b \in Seq(Item) /\ Len(b) = Len(a) /\ b[n + 1] = u /\ \A i \in 1 .. n : b[i] = a[i]
      <4> HIDE DEF b, n, a
      <4>1. QED
        BY <1>1, <2>1, <3>1, ExceptSeq
    <3>3. QED
      BY <1>1, <2>1, <3>2
  <2>2. CASE n = Len(a)
    <3> DEFINE s == Append(Elems(sl), u)
               cap == Doubled(Len(a))
    <3>1. b = Padded(s, cap)
      BY <1>1, <2>2
    <3>2. /\ s \in Seq(Item) /\ Len(s) = n + 1 /\ s[n + 1] = u
          /\ \A i \in 1 .. n : s[i] = a[i]
      BY <1>1, AppendProperties
    <3>3. cap \in Nat /\ n + 1 <= cap /\ cap # n
      BY <1>1, <2>2 DEF Doubled
    <3> HIDE DEF b, s, cap, n, a
    <3>4. b \in Seq(Item) /\ Len(b) = cap /\ \A i \in 1 .. n + 1 : b[i] = s[i]
      BY <3>1, <3>2, <3>3, PaddedFacts
    <3>5. QED
      BY <1>1, <2>2, <3>2, <3>3, <3>4
  <2>3. QED
    BY <1>1, <2>1, <2>2
<1>4. r.arr = b /\ r.len = n + 1
  BY <1>2
<1>5. /\ \A i \in 1 .. n : a[i] \in Urls /\ a[i] # u
      /\ \A i, j \in 1 .. n : a[i] = a[j] => i = j
  BY DEF Clean, InSlice
<1> HIDE DEF b, r, n, a
<1>6. IsSlice(r)
  BY <1>1, <1>2, <1>3, <1>4 DEF IsSlice, Slice, Item
<1>7. \A i \in 1 .. n + 1 : i \in 1 .. n \/ i = n + 1
  BY <1>1
<1>8. Clean(r)
  <2>1. \A i \in 1 .. n + 1 : b[i] \in Urls
    BY <1>3, <1>5, <1>7
  <2>2. \A i, j \in 1 .. n + 1 : b[i] = b[j] => i = j
    BY <1>3, <1>5, <1>7
  <2>3. QED
    BY <1>4, <1>6, <2>1, <2>2 DEF Clean
<1>9. ASSUME NEW v PROVE InSlice(v, r) <=> InSlice(v, sl) \/ v = u
  <2>1. InSlice(v, r) <=> \E i \in 1 .. n + 1 : b[i] = v
    BY <1>4 DEF InSlice
  <2>2. n + 1 \in 1 .. n + 1 /\ \A i \in 1 .. n : i \in 1 .. n + 1
    BY <1>1
  <2>3. InSlice(v, sl) <=> \E i \in 1 .. n : a[i] = v
    BY DEF InSlice, n, a
  <2>4. QED
    BY <1>3, <1>7, <2>1, <2>2, <2>3
<1>10. QED
  BY <1>3, <1>4, <1>8, <1>9 DEF r, n, a

-----------------------------------------------------------------------------
(***************************************************************************)
(* The slices of the cache and of the callers.                             *)
(***************************************************************************)
\* GetServices and Watch give every provider there is, once.
LEMMA OrderFacts ==
  ASSUME NEW S \in SUBSET Urls, NEW s \in SetToSeqs(S)
  PROVE  /\ s \in Seq(S) /\ s \in Seq(Item)
         /\ \A i, j \in 1 .. Len(s) : s[i] = s[j] => i = j
         /\ \A u : u \in S <=> \E i \in 1 .. Len(s) : s[i] = u
<1> DEFINE n == Cardinality(S)
<1>1. IsFiniteSet(S) /\ n \in Nat
  BY CacheAssumption, FS_Subset, FS_CardinalityType
<1>2. s \in [1 .. n -> S] /\ \A i, j \in 1 .. n : i # j => s[i] # s[j]
  BY DEF SetToSeqs
<1>3. Cardinality(1 .. n) = n
  BY <1>1, FS_Interval
<1>4. s \in Injection(1 .. n, S)
  BY <1>2 DEF Injection, IsInjective
<1>5. s \in Surjection(1 .. n, S)
  BY <1>1, <1>3, <1>4, FS_Injection
<1> HIDE DEF n
<1>6. Len(s) = n /\ s \in Seq(S) /\ s \in Seq(Item)
  BY <1>1, <1>2 DEF Item
<1>7. \A u \in S : \E i \in 1 .. n : s[i] = u
  BY <1>5 DEF Surjection
<1>8. QED
  BY <1>2, <1>6, <1>7

\* What a caller is given.
LEMMA HoldingFacts ==
  ASSUME NEW how \in {"hit", "new", "old"}, NEW s, s.own \in BOOLEAN, IsSlice(s.sl)
  PROVE  LET h == Holding(how, s) IN
         /\ h \in HeldSlice /\ h.own = s.own /\ h.sl = s.sl /\ h.how = how
         /\ h.first = Elems(s.sl)
<1>1. Elems(s.sl) \in Seq(Urls \cup {None}) /\ s.sl \in Slice
  BY ElemsFacts DEF Item, IsSlice
<1>2. QED
  BY <1>1 DEF Holding, HeldSlice

\* What Rebind does to a slice: nothing if it is its caller's own.
LEMMA RebindFacts ==
  ASSUME SliceTypes, NEW arr \in Seq(Item), Len(arr) = Len(cache.arr), NEW dropped \in BOOLEAN,
         NEW c \in Callers
  PROVE  LET h == Rebind(arr, dropped)[c] IN
         /\ h \in HeldSlice \cup {None}
         /\ (held[c] = None \/ held[c].own) => h = held[c]
         /\ (held[c] # None /\ ~held[c].own) =>
              /\ IsSlice(h.sl) /\ h.own = dropped /\ h.sl.arr = arr /\ h.how = held[c].how
<1> DEFINE h == Rebind(arr, dropped)[c]
           k == held[c]
<1>1. CASE k = None \/ k.own
  BY <1>1 DEF Rebind, SliceTypes
<1>2. CASE k # None /\ ~k.own
  <2> DEFINE t == [k.sl EXCEPT !.arr = arr]
             r == [own |-> dropped, sl |-> t, how |-> k.how, first |-> k.first]
  <2>1. k \in HeldSlice /\ IsSlice(k.sl) /\ k.sl.arr = cache.arr
    BY <1>2 DEF SliceTypes
  <2>2. h = [k EXCEPT !.sl.arr = arr, !.own = dropped]
    BY <1>2 DEF Rebind
  <2>3. t \in Slice /\ t.arr = arr /\ t.len = k.sl.len /\ k.sl.len <= Len(arr)
    BY <2>1 DEF IsSlice, Slice, Item
  <2>4. h = r
    BY <2>1, <2>2 DEF HeldSlice
  <2> HIDE DEF t, k
  <2>5. r \in HeldSlice /\ r.sl = t /\ r.own = dropped /\ r.how = k.how
    BY <2>1, <2>3 DEF HeldSlice
  <2>6. IsSlice(t)
    BY <2>3 DEF IsSlice
  <2>7. QED
    BY <1>2, <2>3, <2>4, <2>5, <2>6 DEF k
<1>3. QED
  BY <1>1, <1>2

\* A copy is its caller's own, and still holds what it was made of.
CopiesInv ==
  \A c \in Callers : held[c] # None /\ held[c].how \in {"hit", "new"} =>
    held[c].own /\ Elems(held[c].sl) = held[c].first

SliceInv == SliceTypes /\ Clean(cache) /\ CopiesInv

\* A step that gives the cache another slice, whose callers keep the old array
\* or, if it is not dropped, see what the new slice does to it.
LEMMA CacheChanges ==
  ASSUME SliceInv, NEW arr \in Seq(Item), Len(arr) = Len(cache.arr), NEW dropped \in BOOLEAN,
         Clean(cache'), held' = Rebind(arr, dropped), ~dropped => arr = cache'.arr
  PROVE  SliceInv'
<1> USE DEF SliceInv
<1>1. ASSUME NEW c \in Callers
      PROVE  /\ held'[c] \in HeldSlice \cup {None}
             /\ (held[c] = None \/ held[c].own) => held'[c] = held[c]
             /\ (held[c] # None /\ ~held[c].own) =>
                  /\ IsSlice(held'[c].sl) /\ held'[c].own = dropped /\ held'[c].sl.arr = arr
                  /\ held'[c].how = held[c].how
  BY RebindFacts
<1>2. held' \in [Callers -> HeldSlice \cup {None}]
  <2>1. held' = [c \in Callers |-> held'[c]]
    BY DEF Rebind
  <2>2. QED
    BY <1>1, <2>1
<1>3. ASSUME NEW c \in Callers, held'[c] # None
      PROVE  IsSlice(held'[c].sl) /\ (~held'[c].own => held'[c].sl.arr = cache'.arr)
  BY <1>1, <1>3 DEF SliceTypes
<1>4. SliceTypes'
  BY <1>2, <1>3 DEF SliceTypes, Clean, IsSlice
<1>5. CopiesInv'
  BY <1>1 DEF CopiesInv
<1>6. QED
  BY <1>4, <1>5

\* A step that gives caller c a slice.
LEMMA CallerChanges ==
  ASSUME SliceInv, UNCHANGED cache, NEW c \in Callers, NEW h \in HeldSlice \cup {None},
         held' = [held EXCEPT ![c] = h],
         h # None => /\ IsSlice(h.sl) /\ (~h.own => h.sl.arr = cache.arr)
                     /\ h.how \in {"hit", "new"} => h.own /\ Elems(h.sl) = h.first
  PROVE  SliceInv'
<1> USE DEF SliceInv
<1>1. held' \in [Callers -> HeldSlice \cup {None}]
  BY DEF SliceTypes
<1>2. \A d \in Callers : held'[d] = IF d = c THEN h ELSE held[d]
  BY DEF SliceTypes
<1>3. SliceTypes'
  BY <1>1, <1>2 DEF SliceTypes, IsSlice
<1>4. CopiesInv'
  BY <1>2 DEF CopiesInv
<1>5. Clean(cache')
  BY DEF Clean
<1>6. QED
  BY <1>3, <1>4, <1>5

\* A refresh gives caller c a slice of its own, and the others keep the array
\* that the cache drops.
LEMMA RefreshChanges ==
  ASSUME SliceInv, Clean(cache'), NEW c \in Callers, NEW h \in HeldSlice,
         held' = [Rebind(cache.arr, TRUE) EXCEPT ![c] = h],
         h.own, IsSlice(h.sl), Elems(h.sl) = h.first
  PROVE  SliceInv'
<1> USE DEF SliceInv
<1> DEFINE kept == Rebind(cache.arr, TRUE)
<1>1. cache.arr \in Seq(Item)
  BY ElemsFacts DEF SliceTypes
<1>2. ASSUME NEW d \in Callers
      PROVE  /\ kept[d] \in HeldSlice \cup {None}
             /\ (held[d] = None \/ held[d].own) => kept[d] = held[d]
             /\ (held[d] # None /\ ~held[d].own) =>
                  /\ IsSlice(kept[d].sl) /\ kept[d].own = TRUE /\ kept[d].sl.arr = cache.arr
                  /\ kept[d].how = held[d].how
  BY <1>1, RebindFacts
<1>3. kept = [d \in Callers |-> kept[d]]
  BY DEF Rebind
<1> HIDE DEF kept
<1>4. kept \in [Callers -> HeldSlice \cup {None}]
  BY <1>2, <1>3
<1>5. held' \in [Callers -> HeldSlice \cup {None}]
  BY <1>4 DEF kept
<1>6. \A d \in Callers : held'[d] = IF d = c THEN h ELSE kept[d]
  BY <1>4 DEF kept
<1>7. ASSUME NEW d \in Callers, held'[d] # None
      PROVE  IsSlice(held'[d].sl) /\ held'[d].own
  <2>1. CASE d = c
    BY <1>6, <2>1
  <2>2. CASE d # c
    <3>1. held'[d] = kept[d]
      BY <1>6, <2>2
    <3>2. QED
      BY <1>2, <1>7, <3>1 DEF SliceTypes
  <2>3. QED
    BY <2>1, <2>2
<1>8. SliceTypes'
  BY <1>5, <1>7 DEF SliceTypes, Clean, IsSlice
<1>9. CopiesInv'
  <2> SUFFICES ASSUME NEW d \in Callers, held'[d] # None, held'[d].how \in {"hit", "new"}
               PROVE  held'[d].own /\ Elems(held'[d].sl) = held'[d].first
    BY DEF CopiesInv
  <2>1. CASE d = c
    BY <1>6, <2>1
  <2>2. CASE d # c
    <3>1. held'[d] = kept[d]
      BY <1>6, <2>2
    <3>2. held[d] # None /\ held[d].how \in {"hit", "new"}
      BY <1>2, <3>1
    <3>3. held[d].own /\ Elems(held[d].sl) = held[d].first
      BY <3>2 DEF CopiesInv
    <3>4. QED
      BY <1>2, <3>1, <3>3
  <2>3. QED
    BY <2>1, <2>2
<1>10. QED
  BY <1>8, <1>9

\* The empty slice.
LEMMA NilFacts == Clean(NilSlice) /\ \A u : ~InSlice(u, NilSlice)
<1>1. NilSlice.arr = << >> /\ NilSlice.len = 0 /\ NilSlice = [arr |-> << >>, len |-> 0]
  BY DEF NilSlice
<1>2. << >> \in Seq(Urls \cup {None}) /\ Len(<< >>) = 0
  BY EmptySeq
<1>3. IsSlice(NilSlice)
  BY <1>1, <1>2 DEF IsSlice, Slice
<1>4. 1 .. 0 = {}
  OBVIOUS
<1>5. QED
  BY <1>1, <1>3, <1>4 DEF Clean, InSlice

\* get: a refresh fills the cache with the providers there are.
LEMMA RefreshSlices ==
  ASSUME SliceInv, prov \in SUBSET Urls, NEW c \in Callers, Refresh(c)
  PROVE  SliceInv' /\ \A u : InSlice(u, cache') <=> u \in prov
<1> USE DEF SliceInv
<1>1. PICK s \in SetToSeqs(prov) :
        LET ss == [arr |-> Padded(s, GrownCap(Len(s))), len |-> Len(s)] IN
          /\ cache' = CopySlice(ss).sl
          /\ held' = [Rebind(cache.arr, TRUE) EXCEPT ![c] =
                        Holding("new", [own |-> TRUE, sl |-> ss])]
  BY DEF Refresh
<1> DEFINE ss == [arr |-> Padded(s, GrownCap(Len(s))), len |-> Len(s)]
           given == [own |-> TRUE, sl |-> ss]
           h == Holding("new", given)
<1>2. /\ s \in Seq(prov) /\ s \in Seq(Item)
      /\ \A i, j \in 1 .. Len(s) : s[i] = s[j] => i = j
      /\ \A u : u \in prov <=> \E i \in 1 .. Len(s) : s[i] = u
  BY OrderFacts
<1>3. /\ IsSlice(ss) /\ ss.len = Len(s) /\ Elems(ss) = s
      /\ \A i \in 1 .. Len(s) : ss.arr[i] = s[i]
  BY <1>2, MadeFacts
<1>4. cache' = CopySlice(ss).sl /\ held' = [Rebind(cache.arr, TRUE) EXCEPT ![c] = h]
  BY <1>1
<1>5. given.own = TRUE /\ given.sl = ss
  OBVIOUS
<1> HIDE DEF ss, given
<1>6. /\ IsSlice(cache') /\ cache'.len = Len(s)
      /\ \A i \in 1 .. Len(s) : cache'.arr[i] = s[i]
  BY <1>3, <1>4, CopyFacts
<1>7. h \in HeldSlice /\ h.own = TRUE /\ h.sl = ss /\ h.first = Elems(ss)
  <2>1. given.own \in BOOLEAN /\ IsSlice(given.sl) /\ "new" \in {"hit", "new", "old"}
    BY <1>3, <1>5
  <2>2. h \in HeldSlice /\ h.own = given.own /\ h.sl = given.sl /\ h.first = Elems(given.sl)
    BY <2>1, HoldingFacts
  <2>3. QED
    BY <1>5, <2>2
<1> HIDE DEF h
<1>8. Clean(cache')
  BY <1>2, <1>6 DEF Clean
<1>9. SliceInv'
  BY <1>3, <1>4, <1>7, <1>8, RefreshChanges
<1>10. \A u : InSlice(u, cache') <=> u \in prov
  BY <1>2, <1>6 DEF InSlice
<1>11. QED
  BY <1>9, <1>10

\* update: the provider of the event leaves the cache, and an Add puts it back.
LEMMA UpdateSlices ==
  ASSUME SliceInv, res \in Event, Update
  PROVE  /\ SliceInv'
         /\ \A v : InSlice(v, cache') <=>
              (InSlice(v, cache) /\ v # res.url) \/ (res.act = "Add" /\ v = res.url)
<1> USE DEF SliceInv
<1> DEFINE u == res.url
           kept == FilterUrl(cache, u)
           services == IF res.act = "Add" THEN AppendUrl(kept, u) ELSE kept
           moved == services.len = 0 \/ Len(services.arr) # Len(kept.arr)
           arr == IF moved THEN kept.arr ELSE services.arr
<1>1. u \in Urls
  BY DEF Event
<1>2. /\ Clean(kept) /\ Len(kept.arr) = Len(cache.arr)
      /\ \A v : InSlice(v, kept) <=> InSlice(v, cache) /\ v # u
  BY FilterFacts
<1>3. set(services) /\ held' = Rebind(arr, moved)
  BY DEF Update
<1> HIDE DEF kept, u
<1>4. Clean(services)
  BY <1>1, <1>2, AppendUrlFacts
<1>5. \A v : InSlice(v, services) <=>
        (InSlice(v, cache) /\ v # u) \/ (res.act = "Add" /\ v = u)
  BY <1>1, <1>2, AppendUrlFacts
<1> HIDE DEF services
<1>6. services.len \in Nat /\ services.arr \in Seq(Item) /\ kept.arr \in Seq(Item)
  BY <1>2, <1>4, ElemsFacts DEF Clean
<1>7. CASE services.len > 0
  <2>1. cache' = services
    BY <1>3, <1>7 DEF set
  <2>2. moved = (Len(services.arr) # Len(kept.arr))
    BY <1>6, <1>7
  <2>3. arr \in Seq(Item) /\ Len(arr) = Len(cache.arr) /\ (~moved => arr = cache'.arr)
    BY <1>2, <1>6, <2>1, <2>2
  <2>4. moved \in BOOLEAN
    OBVIOUS
  <2> HIDE DEF arr, moved
  <2>5. SliceInv'
    BY <1>3, <1>4, <2>1, <2>3, <2>4, CacheChanges
  <2>6. QED
    BY <1>5, <2>1, <2>5 DEF u
<1>8. CASE services.len = 0
  <2>1. cache' = NilSlice /\ moved
    BY <1>3, <1>6, <1>8 DEF set
  <2>2. arr \in Seq(Item) /\ Len(arr) = Len(cache.arr) /\ moved \in BOOLEAN
    BY <1>2, <1>6, <2>1
  <2>3. \A v : ~InSlice(v, services)
    <3>1. 1 .. services.len = {}
      BY <1>8
    <3>2. QED
      BY <3>1 DEF InSlice
  <2> HIDE DEF arr, moved
  <2>4. SliceInv'
    BY <1>3, <2>1, <2>2, CacheChanges, NilFacts
  <2>5. QED
    BY <1>5, <2>1, <2>3, <2>4, NilFacts DEF u
<1>9. QED
  BY <1>6, <1>7, <1>8

-----------------------------------------------------------------------------
(***************************************************************************)
(* The type invariant, with what the slices need to keep it.               *)
(***************************************************************************)
Inv == TimeTypes /\ SliceInv /\ RunTypes

\* Select changes the slices of the cache and of its caller alone.
LEMMA SelectInv ==
  ASSUME Inv, NEW c \in Callers, Select(c)
  PROVE  Inv'
<1> USE DEF Inv
<1>1. CASE SelectHit(c)
  <2> DEFINE s == CopySlice(cache)
             h == Holding("hit", s)
  <2>1. IsSlice(cache) /\ cache' = cache
    BY <1>1 DEF SliceInv, SliceTypes, SelectHit, cacheVars
  <2>2. s.own = TRUE /\ IsSlice(s.sl)
    BY <2>1, CopyFacts
  <2>3. "hit" \in {"hit", "new", "old"} /\ s.own \in BOOLEAN
    BY <2>2
  <2> HIDE DEF s
  <2>4. h \in HeldSlice /\ h.own = s.own /\ h.sl = s.sl /\ h.first = Elems(s.sl)
    BY <2>2, <2>3, HoldingFacts
  <2>5. held' = [held EXCEPT ![c] = h]
    BY <1>1 DEF SelectHit, s
  <2> HIDE DEF h
  <2>6. SliceInv'
    BY <2>1, <2>2, <2>4, <2>5, CallerChanges
  <2>7. TimeTypes' /\ RunTypes'
    BY <1>1 DEF SelectHit, TimeTypes, RunTypes, regVars, linkVars, cacheVars, watchVars
  <2>8. QED
    BY <2>6, <2>7
<1>2. CASE SelectRefresh(c)
  <2>1. prov \in SUBSET Urls /\ Refresh(c)
    BY <1>2 DEF SelectRefresh, TimeTypes
  <2>2. SliceInv'
    BY <2>1, RefreshSlices
  <2>3. ttls' = now + TTL /\ missed' = {}
    BY <2>1 DEF Refresh
  <2>4. TimeTypes' /\ RunTypes'
    BY <1>2, <2>3, CacheAssumption
      DEF SelectRefresh, TimeTypes, RunTypes, regVars, linkVars, watchVars
  <2>5. QED
    BY <2>2, <2>4
<1>3. CASE SelectStale(c)
  <2> DEFINE s == [own |-> FALSE, sl |-> cache]
             h == IF cache.len > 0 THEN Holding("old", s) ELSE None
  <2>1. IsSlice(cache) /\ cache' = cache
    BY <1>3 DEF SliceInv, SliceTypes, SelectStale, cacheVars
  <2>2. s.own = FALSE /\ s.sl = cache /\ s.own \in BOOLEAN /\ "old" \in {"hit", "new", "old"}
    OBVIOUS
  <2> HIDE DEF s
  <2>3. LET g == Holding("old", s) IN
          g \in HeldSlice /\ g.own = s.own /\ g.sl = s.sl /\ g.how = "old"
    BY <2>1, <2>2, HoldingFacts
  <2>4. /\ h \in HeldSlice \cup {None}
        /\ h # None => /\ IsSlice(h.sl) /\ (~h.own => h.sl.arr = cache.arr)
                       /\ h.how \in {"hit", "new"} => h.own /\ Elems(h.sl) = h.first
    BY <2>1, <2>2, <2>3
  <2>5. held' = [held EXCEPT ![c] = h]
    BY <1>3 DEF SelectStale, s
  <2> HIDE DEF h
  <2>6. SliceInv'
    BY <2>1, <2>4, <2>5, CallerChanges
  <2>7. TimeTypes' /\ RunTypes'
    BY <1>3 DEF SelectStale, TimeTypes, RunTypes, regVars, linkVars, cacheVars, watchVars
  <2>8. QED
    BY <2>6, <2>7
<1>4. QED
  BY <1>1, <1>2, <1>3 DEF Select

\* Registry.Watch: the events of a new watcher are an Add for every provider.
LEMMA WatchEvents ==
  ASSUME prov \in SUBSET Urls, WatchOk
  PROVE  /\ events' \in Seq(Event)
         /\ \A i \in 1 .. Len(events') : events'[i].act = "Add" /\ events'[i].url \in prov
         /\ \A u \in prov : \E i \in 1 .. Len(events') : events'[i].url = u
<1>1. PICK s \in SetToSeqs(prov) :
        events' = [i \in 1 .. Len(s) |-> [act |-> "Add", url |-> s[i]]]
  BY DEF WatchOk
<1>2. s \in Seq(prov) /\ \A u : u \in prov <=> \E i \in 1 .. Len(s) : s[i] = u
  BY OrderFacts
<1> DEFINE n == Len(s)
<1>3. n \in Nat /\ \A i \in 1 .. n : s[i] \in prov
  BY <1>2, LenProperties, ElementOfSeq
<1>4. events' = [i \in 1 .. n |-> [act |-> "Add", url |-> s[i]]]
  BY <1>1
<1> HIDE DEF n
<1>5. \A i \in 1 .. n : [act |-> "Add", url |-> s[i]] \in Event
  BY <1>3 DEF Event
<1>6. events' \in [1 .. n -> Event]
  BY <1>4, <1>5
<1>7. events' \in Seq(Event) /\ Len(events') = n
  BY <1>3, <1>6
<1>8. \A i \in 1 .. n : events'[i].act = "Add" /\ events'[i].url = s[i]
  BY <1>4
<1>9. QED
  BY <1>2, <1>3, <1>7, <1>8 DEF n

\* The invariant is inductive.
LEMMA InvStep == Inv /\ [Next]_vars => Inv'
<1> SUFFICES ASSUME Inv, [Next]_vars PROVE Inv'
  OBVIOUS
<1> USE DEF Inv
<1>1. ASSUME UNCHANGED <<cache, held>> PROVE SliceInv'
  BY <1>1 DEF SliceInv, SliceTypes, Clean, IsSlice, CopiesInv, Elems
<1>2. CASE UNCHANGED vars
  BY <1>1, <1>2 DEF TimeTypes, RunTypes, vars
<1>3. CASE Tick
  BY <1>1, <1>3, CacheAssumption
    DEF Tick, TimeTypes, RunTypes, regVars, linkVars, cacheVars, watchVars
<1>4. CASE Flicker
  BY <1>1, <1>4, CacheAssumption
    DEF Flicker, TimeTypes, RunTypes, regVars, cacheVars, watchVars
<1>5. CASE NextLost \/ NextStopped
  <2>1. run' = "sleep" /\ events' = << >>
    BY <1>5 DEF NextLost, NextStopped, WatchEnds
  <2>2. TimeTypes'
    BY <1>5, CacheAssumption
      DEF NextLost, NextStopped, WatchEnds, TimeTypes, regVars, cacheVars, linkVars
  <2>3. RunTypes'
    BY <1>5, <2>1 DEF NextLost, NextStopped, WatchEnds, RunTypes, linkVars
  <2>4. QED
    BY <1>1, <1>5, <2>2, <2>3 DEF NextLost, NextStopped, WatchEnds, cacheVars
<1>6. ASSUME NEW u \in Urls, Change(u) PROVE Inv'
  <2> DEFINE e == [act |-> IF u \in prov THEN "Del" ELSE "Add", url |-> u]
  <2>1. e \in Event
    BY DEF Event
  <2>2. events' = IF Watching THEN Append(events, e) ELSE events
    BY <1>6 DEF Change
  <2> HIDE DEF e
  <2>3. events' \in Seq(Event)
    BY <2>1, <2>2, AppendProperties DEF RunTypes
  <2>4. prov' \in SUBSET Urls /\ missed' \in SUBSET Urls
    BY <1>6 DEF Change, TimeTypes
  <2>5. changes' \in 0 .. MaxChanges
    BY <1>6, CacheAssumption DEF Change, TimeTypes
  <2>6. TimeTypes'
    BY <1>6, <2>4, <2>5 DEF Change, TimeTypes, linkVars, cacheVars
  <2>7. RunTypes'
    BY <1>6, <2>3 DEF Change, RunTypes, linkVars
  <2>8. QED
    BY <1>1, <1>6, <2>6, <2>7 DEF Change, cacheVars
<1>7. ASSUME NEW c \in Callers, Select(c) PROVE Inv'
  BY <1>7, SelectInv
<1>8. CASE RunQuit \/ WatchErr \/ Wake
  BY <1>1, <1>8 DEF RunQuit, WatchErr, Wake, TimeTypes, RunTypes, regVars, linkVars, cacheVars
<1>9. CASE WatchOk
  <2>1. events' \in Seq(Event)
    BY <1>9, WatchEvents DEF TimeTypes
  <2>2. QED
    BY <1>1, <1>9, <2>1 DEF WatchOk, TimeTypes, RunTypes, regVars, cacheVars
<1>10. CASE NextEvent
  <2>1. events # << >> /\ events \in Seq(Event)
    BY <1>10 DEF NextEvent, RunTypes
  <2>2. Head(events) \in Event /\ Tail(events) \in Seq(Event)
    BY <2>1, HeadTailProperties
  <2> DEFINE e == Head(events)
  <2>3. /\ events' = Tail(events)
        /\ \/ missed' = missed \cup ({e.url} \ prov) /\ run' = run /\ res' = res
           \/ run' = "update" /\ res' = e /\ missed' = missed
    BY <1>10 DEF NextEvent
  <2> HIDE DEF e
  <2>4. e \in Event /\ e.url \in Urls
    BY <2>2 DEF e, Event
  <2>5. TimeTypes'
    BY <1>10, <2>3, <2>4 DEF NextEvent, TimeTypes, regVars, linkVars, cacheVars
  <2>6. RunTypes'
    BY <1>10, <2>2, <2>3, <2>4 DEF NextEvent, RunTypes, linkVars
  <2>7. QED
    BY <1>1, <1>10, <2>5, <2>6 DEF NextEvent, cacheVars
<1>11. CASE Update
  <2>1. res \in Event
    BY <1>11 DEF Update, RunTypes
  <2>2. SliceInv'
    BY <1>11, <2>1, UpdateSlices
  <2>3. ttls' = now + TTL \/ ttls' = 0
    BY <1>11 DEF Update, set
  <2>4. TimeTypes' /\ RunTypes'
    BY <1>11, <2>3, CacheAssumption DEF Update, TimeTypes, RunTypes, regVars, linkVars
  <2>5. QED
    BY <2>2, <2>4
<1>12. CASE StopWatcher
  BY <1>1, <1>12 DEF StopWatcher, TimeTypes, RunTypes, regVars, linkVars, cacheVars
<1>13. CASE CloseClear
  <2>1. cache.arr \in Seq(Item)
    BY ElemsFacts DEF SliceInv, SliceTypes
  <2>2. cache' = NilSlice /\ held' = Rebind(cache.arr, TRUE)
    BY <1>13 DEF CloseClear
  <2>3. SliceInv'
    BY <2>1, <2>2, NilFacts, CacheChanges
  <2>4. QED
    BY <1>13, <2>3 DEF CloseClear, TimeTypes, RunTypes, regVars, linkVars, watchVars
<1>14. CASE CloseExit \/ CloseDone
  BY <1>1, <1>14
    DEF CloseExit, CloseDone, TimeTypes, RunTypes, regVars, linkVars, cacheVars, watchVars
<1>15. QED
  BY <1>2, <1>3, <1>4, <1>5, <1>6, <1>7, <1>8, <1>9, <1>10, <1>11, <1>12, <1>13, <1>14
    DEF Next, RunStep

\* The invariant holds at the start.
LEMMA InvInit == Init => Inv
<1> SUFFICES ASSUME Init PROVE Inv
  OBVIOUS
<1>1. TimeTypes
  BY CacheAssumption DEF Init, TimeTypes
<1>2. SliceInv
  BY NilFacts DEF Init, SliceInv, SliceTypes, CopiesInv, Clean
<1>3. RunTypes
  BY EmptySeq DEF Init, RunTypes
<1>4. QED
  BY <1>1, <1>2, <1>3 DEF Inv

\* The invariant always holds.
LEMMA Invariant == Spec => []Inv
<1>1. QED
  BY InvInit, InvStep, PTL DEF Spec

\* Every variable of the selector keeps its type; in particular the slices
\* that callers hold stay slices when update shifts their array in place.
THEOREM TypeCorrect == Spec => []TypeOK
<1>1. Inv => TypeOK
  BY DEF Inv, SliceInv, TypeOK
<1>2. QED
  BY <1>1, Invariant, PTL

\* cacheSelector.copy: the slice that a hit or a refresh gave a caller never
\* changes in the caller's hands, whatever update does to the cache in place.
THEOREM CopiesStay == Spec => []CopiesStable
<1>1. Inv => CopiesStable
  BY DEF Inv, SliceInv, CopiesInv, CopiesStable
<1>2. QED
  BY <1>1, Invariant, PTL

-----------------------------------------------------------------------------
(***************************************************************************)
(* The cache and the registry.                                             *)
(***************************************************************************)
\* The last of the events p about a provider tells whether it is in P.
Told(p, P) ==
  \A i \in 1 .. Len(p) :
    (\A j \in 1 .. Len(p) : i < j => p[j].url # p[i].url) =>
      (p[i].act = "Add" <=> p[i].url \in P)

\* What Settled says, of the events p, the providers P and those missed M.
Matches(p, P, sl, M) ==
  \A u \in Urls : (~\E i \in 1 .. Len(p) : p[i].url = u) =>
    /\ u \in P => InSlice(u, sl)
    /\ u \notin P => ~InSlice(u, sl) \/ u \in M

\* While there is no watcher, what the cache has too much is known to be
\* missed; the events of an open watcher tell what the cache does not know.
SettledInv ==
  closing = "no" =>
    /\ ~Watching => \A u \in Urls : u \notin prov /\ InSlice(u, cache) => u \in missed
    /\ Watching => Told(Pending, prov) /\ Matches(Pending, prov, cache, missed)

\* What is pending, while update is under way and otherwise.
PendingShape ==
  /\ Pending \in Seq(Event) /\ Len(Pending) \in Nat
  /\ run # "update" => Pending = events
  /\ run = "update" => /\ Len(Pending) = Len(events) + 1 /\ Pending[1] = res
                       /\ \A i \in 1 .. Len(events) : Pending[i + 1] = events[i]

\* The events that are not yet applied.
LEMMA PendingFacts == RunTypes => PendingShape
<1> SUFFICES ASSUME RunTypes PROVE PendingShape
  OBVIOUS
<1>1. events \in Seq(Event) /\ Len(events) \in Nat
  BY LenProperties DEF RunTypes
<1>2. CASE run # "update"
  <2>1. Pending = << >> \o events
    BY <1>2 DEF Pending
  <2>2. Pending = events
    BY <1>1, <2>1, ConcatEmptySeq
  <2>3. QED
    BY <1>1, <1>2, <2>2 DEF PendingShape
<1>3. CASE run = "update"
  <2> DEFINE one == <<res>>
  <2>1. res \in Event
    BY <1>3 DEF RunTypes
  <2>2. one \in Seq(Event) /\ Len(one) = 1 /\ one[1] = res
    BY <2>1
  <2>3. Pending = one \o events
    BY <1>3 DEF Pending
  <2> HIDE DEF one
  <2>4. /\ Pending \in Seq(Event) /\ Len(Pending) = 1 + Len(events)
        /\ \A i \in 1 .. 1 + Len(events) :
             Pending[i] = IF i <= 1 THEN one[i] ELSE events[i - 1]
    BY <1>1, <2>2, <2>3, ConcatProperties
  <2>5. \A i \in 1 .. Len(events) : Pending[i + 1] = events[i]
    BY <1>1, <2>4
  <2>6. Pending[1] = res
    BY <1>1, <2>2, <2>4
  <2>7. QED
    BY <1>1, <1>3, <2>4, <2>5, <2>6 DEF PendingShape
<1>4. QED
  BY <1>2, <1>3

\* The same after a step.
LEMMA PendingNext == RunTypes' => PendingShape'
<1>1. QED
  BY PendingFacts, PTL

\* One more event at the end, about a provider that comes or goes.
LEMMA EventAdded ==
  ASSUME NEW p, NEW q, NEW P, NEW Q, NEW sl, NEW M, NEW N, NEW e,
         Len(p) \in Nat, Len(q) = Len(p) + 1, q[Len(p) + 1] = e,
         \A i \in 1 .. Len(p) : q[i] = p[i],
         e.act = "Add" <=> e.url \in Q,
         \A v \in Urls : v # e.url => (v \in Q <=> v \in P) /\ (v \in M => v \in N),
         \A i \in 1 .. Len(p) : p[i].url \in Urls,
         Told(p, P), Matches(p, P, sl, M)
  PROVE  Told(q, Q) /\ Matches(q, Q, sl, N)
<1> DEFINE n == Len(p)
<1>1. n \in Nat /\ Len(q) = n + 1 /\ q[n + 1] = e /\ \A i \in 1 .. n : q[i] = p[i]
  OBVIOUS
<1>2. /\ n + 1 \in 1 .. n + 1 /\ \A i \in 1 .. n : i \in 1 .. n + 1 /\ i < n + 1
      /\ \A i \in 1 .. n + 1 : i \in 1 .. n \/ i = n + 1
  BY <1>1
<1>3. Told(q, Q)
  <2> SUFFICES ASSUME NEW i \in 1 .. n + 1,
                      \A j \in 1 .. n + 1 : i < j => q[j].url # q[i].url
               PROVE  q[i].act = "Add" <=> q[i].url \in Q
    BY <1>1 DEF Told
  <2>1. CASE i = n + 1
    BY <1>1, <2>1
  <2>2. CASE i \in 1 .. n
    <3>1. q[i] = p[i] /\ p[i].url # e.url
      BY <1>1, <1>2, <2>2
    <3>2. \A j \in 1 .. n : i < j => p[j].url # p[i].url
      BY <1>1, <1>2, <2>2
    <3>3. p[i].act = "Add" <=> p[i].url \in P
      BY <2>2, <3>2 DEF Told
    <3>4. QED
      BY <2>2, <3>1, <3>3
  <2>3. QED
    BY <1>2, <2>1, <2>2
<1>4. Matches(q, Q, sl, N)
  <2> SUFFICES ASSUME NEW u \in Urls, ~\E i \in 1 .. n + 1 : q[i].url = u
               PROVE  /\ u \in Q => InSlice(u, sl)
                      /\ u \notin Q => ~InSlice(u, sl) \/ u \in N
    BY <1>1 DEF Matches
  <2>1. u # e.url /\ ~\E i \in 1 .. n : p[i].url = u
    BY <1>1, <1>2
  <2>2. QED
    BY <2>1 DEF Matches
<1>5. QED
  BY <1>3, <1>4

\* The event e leaves the front of p, applied to the slice or missed.
Gone(p, q, e, P, sl, tl, M, N) ==
  /\ Len(q) \in Nat /\ Len(p) = Len(q) + 1 /\ p[1] = e
  /\ \A i \in 1 .. Len(q) : p[i + 1] = q[i]
  /\ \A v \in Urls : v # e.url => (InSlice(v, sl) <=> InSlice(v, tl)) /\ (v \in M => v \in N)
  /\ (e.url \in P /\ e.act = "Add") => InSlice(e.url, tl)
  /\ (e.url \notin P /\ e.act # "Add") => ~InSlice(e.url, tl) \/ e.url \in N

\* The first event is gone: the others still tell what they told.
LEMMA EventGone ==
  ASSUME NEW p, NEW q, NEW P, NEW sl, NEW tl, NEW M, NEW N, NEW e,
         Gone(p, q, e, P, sl, tl, M, N), Told(p, P), Matches(p, P, sl, M)
  PROVE  Told(q, P) /\ Matches(q, P, tl, N)
<1> USE DEF Gone
<1> DEFINE n == Len(q)
<1>1. n \in Nat /\ Len(p) = n + 1 /\ p[1] = e /\ \A i \in 1 .. n : p[i + 1] = q[i]
  OBVIOUS
<1>2. /\ 1 \in 1 .. n + 1 /\ \A i \in 1 .. n : i + 1 \in 1 .. n + 1
      /\ \A i \in 1 .. n + 1 : i = 1 \/ (i - 1 \in 1 .. n /\ p[i] = q[i - 1])
  BY <1>1
<1>3. Told(q, P)
  <2> SUFFICES ASSUME NEW i \in 1 .. n,
                      \A j \in 1 .. n : i < j => q[j].url # q[i].url
               PROVE  q[i].act = "Add" <=> q[i].url \in P
    BY DEF Told
  <2>1. \A k \in 1 .. n + 1 : i + 1 < k => p[k].url # p[i + 1].url
    <3> SUFFICES ASSUME NEW k \in 1 .. n + 1, i + 1 < k PROVE p[k].url # p[i + 1].url
      OBVIOUS
    <3>1. k - 1 \in 1 .. n /\ i < k - 1 /\ p[k] = q[k - 1] /\ p[i + 1] = q[i]
      BY <1>1, <1>2
    <3>2. QED
      BY <3>1
  <2>2. QED
    BY <1>1, <1>2, <2>1 DEF Told
<1>4. Matches(q, P, tl, N)
  <2> SUFFICES ASSUME NEW u \in Urls, ~\E i \in 1 .. n : q[i].url = u
               PROVE  /\ u \in P => InSlice(u, tl)
                      /\ u \notin P => ~InSlice(u, tl) \/ u \in N
    BY DEF Matches
  <2>1. \A k \in 1 .. n + 1 : k # 1 => p[k].url # u
    BY <1>2
  <2>2. CASE u = e.url
    <3>1. \A k \in 1 .. n + 1 : 1 < k => p[k].url # p[1].url
      BY <1>1, <2>1, <2>2
    <3>2. e.act = "Add" <=> u \in P
      BY <1>1, <1>2, <2>2, <3>1 DEF Told
    <3>3. QED
      BY <2>2, <3>2
  <2>3. CASE u # e.url
    <3>1. ~\E k \in 1 .. n + 1 : p[k].url = u
      BY <1>1, <2>1, <2>3
    <3>2. QED
      BY <1>1, <2>3, <3>1 DEF Matches
  <2>4. QED
    BY <2>2, <2>3
<1>5. QED
  BY <1>3, <1>4

\* A provider comes or goes.
LEMMA ChangeSettled ==
  ASSUME Inv, Inv', SettledInv, NEW u \in Urls, Change(u)
  PROVE  SettledInv'
<1> DEFINE e == [act |-> IF u \in prov THEN "Del" ELSE "Add", url |-> u]
           p == Pending
           q == Pending'
<1>1. /\ prov' = IF u \in prov THEN prov \ {u} ELSE prov \cup {u}
      /\ events' = IF Watching THEN Append(events, e) ELSE events
      /\ cache' = cache /\ run' = run /\ res' = res /\ closing' = closing
      /\ Watching' = Watching
  BY DEF Change, cacheVars, Watching
<1>2. /\ u \in prov /\ Watching => missed' = missed
      /\ u \in prov /\ ~Watching => missed' = missed \cup {u}
      /\ u \notin prov => missed' = missed \ {u}
  BY DEF Change
<1>3. e.url = u /\ (e.act = "Add" <=> u \in prov') /\ e \in Event
  BY <1>1 DEF Event
<1>4. \A v : v # u => (v \in prov' <=> v \in prov) /\ (v \in missed' <=> v \in missed)
  BY <1>1, <1>2
<1> HIDE DEF e
<1>5. CASE closing # "no"
  BY <1>1, <1>5 DEF SettledInv
<1>6. CASE closing = "no" /\ ~Watching
  <2>1. \A v \in Urls : v \notin prov /\ InSlice(v, cache) => v \in missed
    BY <1>6 DEF SettledInv
  <2>2. \A v \in Urls : v \notin prov' /\ InSlice(v, cache) => v \in missed'
    BY <1>1, <1>2, <1>4, <1>6, <2>1
  <2>3. QED
    BY <1>1, <1>6, <2>2 DEF SettledInv
<1>7. CASE closing = "no" /\ Watching
  <2>1. events \in Seq(Event) /\ Len(events) \in Nat /\ PendingShape /\ PendingShape'
    BY LenProperties, PendingFacts, PendingNext DEF Inv, RunTypes
  <2>2. events' = Append(events, e)
    BY <1>1, <1>7
  <2>3. /\ Len(events') = Len(events) + 1 /\ events'[Len(events) + 1] = e
        /\ \A i \in 1 .. Len(events) : events'[i] = events[i]
    BY <1>3, <2>1, <2>2, AppendProperties
  <2>4. /\ Len(p) \in Nat /\ Len(q) = Len(p) + 1 /\ q[Len(p) + 1] = e
        /\ \A i \in 1 .. Len(p) : q[i] = p[i]
    <3>1. CASE run # "update"
      <4>1. p = events /\ q = events'
        BY <1>1, <2>1, <3>1 DEF PendingShape
      <4>2. QED
        BY <2>1, <2>3, <4>1
    <3>2. CASE run = "update"
      <4> DEFINE n == Len(events)
                 ev == events
                 fv == events'
      <4>1. /\ n \in Nat /\ Len(fv) = n + 1 /\ fv[n + 1] = e
            /\ \A i \in 1 .. n : fv[i] = ev[i]
        BY <2>1, <2>3
      <4>2. /\ Len(p) = n + 1 /\ p[1] = res /\ \A i \in 1 .. n : p[i + 1] = ev[i]
            /\ Len(q) = Len(fv) + 1 /\ q[1] = res /\ \A i \in 1 .. Len(fv) : q[i + 1] = fv[i]
        BY <1>1, <2>1, <3>2 DEF PendingShape
      <4> HIDE DEF p, q, n, ev, fv
      <4>3. q[(n + 1) + 1] = e
        BY <4>1, <4>2
      <4>4. ASSUME NEW i \in 1 .. n + 1 PROVE q[i] = p[i]
        <5>1. CASE i = 1
          BY <4>2, <5>1
        <5>2. CASE i # 1
          <6>1. i - 1 \in 1 .. n /\ i - 1 \in 1 .. n + 1 /\ (i - 1) + 1 = i
            BY <4>1, <5>2
          <6>2. q[i] = fv[i - 1] /\ p[i] = ev[i - 1] /\ fv[i - 1] = ev[i - 1]
            BY <4>1, <4>2, <6>1
          <6>3. QED
            BY <6>2
        <5>3. QED
          BY <5>1, <5>2
      <4>5. QED
        BY <4>1, <4>2, <4>3, <4>4
    <3>3. QED
      BY <3>1, <3>2
  <2>5. \A i \in 1 .. Len(p) : p[i].url \in Urls
    <3>1. \A i \in 1 .. Len(p) : p[i] \in Event
      <4>1. p \in Seq(Event)
        BY <2>1 DEF PendingShape
      <4> HIDE DEF p
      <4>2. QED
        BY <4>1, ElementOfSeq
    <3>2. QED
      BY <3>1 DEF Event
  <2>6. Told(p, prov) /\ Matches(p, prov, cache, missed)
    BY <1>7 DEF SettledInv
  <2>7. \A v \in Urls : v # e.url =>
          (v \in prov' <=> v \in prov) /\ (v \in missed => v \in missed')
    BY <1>3, <1>4
  <2>8. e.act = "Add" <=> e.url \in prov'
    BY <1>3
  <2> HIDE DEF p, q
  <2>9. Told(q, prov') /\ Matches(q, prov', cache, missed')
    BY <2>4, <2>5, <2>6, <2>7, <2>8, EventAdded
  <2>10. QED
    BY <1>1, <1>7, <2>9 DEF SettledInv, q
<1>8. QED
  BY <1>5, <1>6, <1>7

\* w.Next: a dropped Del is missed, another event is still to be applied.
LEMMA NextEventSettled ==
  ASSUME Inv, Inv', SettledInv, NextEvent
  PROVE  SettledInv'
<1> DEFINE e == Head(events)
           p == Pending
           q == Pending'
<1>1. events \in Seq(Event) /\ events # << >> /\ PendingShape /\ PendingShape'
  BY PendingFacts, PendingNext DEF Inv, RunTypes, NextEvent
<1>2. /\ events' = Tail(events) /\ run = "next" /\ prov' = prov
      /\ cache' = cache /\ closing' = closing
  BY DEF NextEvent, regVars, cacheVars
<1>3. p = events
  BY <1>1, <1>2 DEF PendingShape
<1>4. /\ Len(events') \in Nat /\ Len(events) = Len(events') + 1 /\ events[1] = e
      /\ \A i \in 1 .. Len(events') : events[i + 1] = events'[i]
  BY <1>1, <1>2
<1>5. closing = "no" => Told(p, prov) /\ Matches(p, prov, cache, missed)
  BY <1>2 DEF SettledInv, Watching
<1>6. CASE e.act = "Del" /\ ~valid
  <2>1. missed' = missed \cup ({e.url} \ prov) /\ run' = run
    BY <1>6 DEF NextEvent
  <2>2. q = events' /\ Watching'
    BY <1>1, <1>2, <2>1 DEF PendingShape, Watching
  <2>3. /\ (e.url \in prov /\ e.act = "Add") => InSlice(e.url, cache)
        /\ (e.url \notin prov /\ e.act # "Add") => ~InSlice(e.url, cache) \/ e.url \in missed'
        /\ \A v \in Urls : v # e.url => (v \in missed => v \in missed')
    BY <1>6, <2>1
  <2>4. /\ Len(q) \in Nat /\ Len(p) = Len(q) + 1 /\ p[1] = e
        /\ \A i \in 1 .. Len(q) : p[i + 1] = q[i]
    BY <1>3, <1>4, <2>2
  <2> HIDE DEF p, q, e
  <2>5. Gone(p, q, e, prov, cache, cache, missed, missed')
    BY <2>3, <2>4 DEF Gone
  <2>6. closing = "no" => Told(q, prov) /\ Matches(q, prov, cache, missed')
    BY <1>5, <2>5, EventGone
  <2>7. QED
    BY <1>2, <2>2, <2>6 DEF SettledInv, q
<1>7. CASE ~(e.act = "Del" /\ ~valid)
  <2>1. run' = "update" /\ res' = e /\ missed' = missed
    BY <1>7 DEF NextEvent
  <2>2. /\ Len(q) = Len(events') + 1 /\ q[1] = e /\ q \in Seq(Event)
        /\ \A i \in 1 .. Len(events') : q[i + 1] = events'[i]
    BY <1>1, <2>1 DEF PendingShape
  <2>3. q = p
    <3> DEFINE n == Len(events')
               ev == events
               fv == events'
    <3>1. /\ p = ev /\ ev \in Seq(Event) /\ n \in Nat /\ Len(ev) = n + 1 /\ ev[1] = e
          /\ \A i \in 1 .. n : ev[i + 1] = fv[i]
      BY <1>1, <1>3, <1>4
    <3>2. Len(q) = n + 1 /\ q[1] = e /\ \A i \in 1 .. n : q[i + 1] = fv[i]
      BY <2>2
    <3> HIDE DEF p, q, e, n, ev, fv
    <3>3. ASSUME NEW i \in 1 .. n + 1 PROVE q[i] = ev[i]
      <4>1. CASE i = 1
        BY <3>1, <3>2, <4>1
      <4>2. CASE i # 1
        <5>1. i - 1 \in 1 .. n /\ (i - 1) + 1 = i
          BY <3>1, <4>2
        <5>2. QED
          BY <3>1, <3>2, <5>1
      <4>3. QED
        BY <4>1, <4>2
    <3>4. QED
      BY <2>2, <3>1, <3>2, <3>3, SeqEqual
  <2>4. Watching'
    BY <2>1 DEF Watching
  <2>5. QED
    BY <1>2, <1>5, <2>1, <2>3, <2>4 DEF SettledInv
<1>8. QED
  BY <1>6, <1>7

\* update applies the first event.
LEMMA UpdateSettled ==
  ASSUME Inv, Inv', SettledInv, Update
  PROVE  SettledInv'
<1> DEFINE p == Pending
           q == Pending'
<1>1. res \in Event /\ res.url \in Urls /\ res.act \in {"Add", "Del"}
  BY DEF Inv, RunTypes, Update, Event
<1>2. events' = events /\ run = "update" /\ run' = "next" /\ prov' = prov
      /\ missed' = missed /\ closing' = closing
  BY DEF Update, regVars
<1>3. \A v : InSlice(v, cache') <=>
        (InSlice(v, cache) /\ v # res.url) \/ (res.act = "Add" /\ v = res.url)
  BY <1>1, UpdateSlices DEF Inv
<1>4. PendingShape /\ PendingShape'
  BY PendingFacts, PendingNext DEF Inv
<1>5. q = events /\ Len(q) \in Nat
  BY <1>2, <1>4 DEF PendingShape
<1>6. Len(p) = Len(q) + 1 /\ p[1] = res /\ \A i \in 1 .. Len(q) : p[i + 1] = q[i]
  BY <1>2, <1>4, <1>5 DEF PendingShape
<1>7. closing = "no" => Told(p, prov) /\ Matches(p, prov, cache, missed)
  BY <1>2 DEF SettledInv, Watching
<1>8. /\ \A v \in Urls : v # res.url =>
           (InSlice(v, cache) <=> InSlice(v, cache')) /\ (v \in missed => v \in missed)
      /\ (res.url \in prov /\ res.act = "Add") => InSlice(res.url, cache')
      /\ (res.url \notin prov /\ res.act # "Add") =>
           ~InSlice(res.url, cache') \/ res.url \in missed
  BY <1>3
<1> HIDE DEF p, q
<1>9. Gone(p, q, res, prov, cache, cache', missed, missed)
  BY <1>5, <1>6, <1>8 DEF Gone
<1>10. closing = "no" => Told(q, prov) /\ Matches(q, prov, cache', missed)
  BY <1>7, <1>9, EventGone
<1>11. QED
  BY <1>2, <1>10 DEF SettledInv, Watching, q

\* The events and the cache together tell the providers there are.
LEMMA SettledStep == Inv /\ Inv' /\ SettledInv /\ [Next]_vars => SettledInv'
<1> SUFFICES ASSUME Inv, Inv', SettledInv, [Next]_vars PROVE SettledInv'
  OBVIOUS
<1>1. ASSUME UNCHANGED <<prov, cache, missed, run, res, events>>,
             closing' = closing \/ closing' # "no"
      PROVE  SettledInv'
  BY <1>1 DEF SettledInv, Watching, Pending
<1>2. CASE UNCHANGED vars
  BY <1>1, <1>2 DEF vars
<1>3. CASE Tick \/ Flicker \/ StopWatcher \/ CloseExit \/ CloseDone
  BY <1>1, <1>3
    DEF Tick, Flicker, StopWatcher, CloseExit, CloseDone, regVars, cacheVars, watchVars
<1>4. CASE CloseClear
  BY <1>4 DEF CloseClear, SettledInv
<1>5. CASE NextLost \/ NextStopped
  <2>1. /\ run = "next" /\ run' = "sleep" /\ prov' = prov /\ cache' = cache
        /\ closing' = closing
        /\ missed' = missed \cup {u \in Urls \ prov :
                                    \E i \in 1 .. Len(events) : events[i].url = u}
    BY <1>5 DEF NextLost, NextStopped, WatchEnds, regVars, cacheVars
  <2>2. Pending = events
    BY <2>1, PendingFacts DEF Inv, PendingShape
  <2>3. closing = "no" => \A u \in Urls : u \notin prov /\ InSlice(u, cache) => u \in missed'
    BY <2>1, <2>2 DEF SettledInv, Watching, Matches
  <2>4. QED
    BY <2>1, <2>3 DEF SettledInv, Watching
<1>6. ASSUME NEW u \in Urls, Change(u) PROVE SettledInv'
  BY <1>6, ChangeSettled
<1>7. ASSUME NEW c \in Callers, Select(c) PROVE SettledInv'
  <2>1. CASE SelectHit(c) \/ SelectStale(c)
    BY <1>1, <2>1 DEF SelectHit, SelectStale, regVars, cacheVars, watchVars
  <2>2. CASE SelectRefresh(c)
    <3>1. /\ prov' = prov /\ run' = run /\ res' = res /\ events' = events
          /\ closing' = closing /\ Refresh(c)
      BY <2>2 DEF SelectRefresh, regVars, watchVars
    <3>2. \A u : InSlice(u, cache') <=> u \in prov
      BY <3>1, RefreshSlices DEF Inv, TimeTypes
    <3>3. Watching' = Watching /\ Pending' = Pending
      BY <3>1 DEF Watching, Pending
    <3>4. Matches(Pending', prov', cache', missed')
      BY <3>1, <3>2 DEF Matches
    <3>5. QED
      BY <3>1, <3>2, <3>3, <3>4 DEF SettledInv
  <2>3. QED
    BY <1>7, <2>1, <2>2 DEF Select
<1>8. CASE RunQuit \/ WatchErr \/ Wake
  <2>1. ~Watching /\ ~Watching' /\ UNCHANGED <<prov, cache, missed, closing>>
    BY <1>8 DEF RunQuit, WatchErr, Wake, Watching, regVars, cacheVars
  <2>2. QED
    BY <2>1 DEF SettledInv
<1>9. CASE WatchOk
  <2>1. ~Watching /\ Watching' /\ run' # "update" /\ UNCHANGED <<prov, cache, missed, closing>>
    BY <1>9 DEF WatchOk, Watching, regVars, cacheVars
  <2>2. Pending' = events'
    BY <2>1, PendingNext DEF Inv, PendingShape
  <2>3. /\ \A i \in 1 .. Len(events') : events'[i].act = "Add" /\ events'[i].url \in prov
        /\ \A u \in prov : \E i \in 1 .. Len(events') : events'[i].url = u
    BY <1>9, WatchEvents DEF Inv, TimeTypes
  <2>4. Told(Pending', prov')
    BY <2>1, <2>2, <2>3 DEF Told
  <2>5. closing = "no" => Matches(Pending', prov', cache', missed')
    BY <2>1, <2>2, <2>3 DEF Matches, SettledInv
  <2>6. QED
    BY <2>1, <2>4, <2>5 DEF SettledInv
<1>10. CASE NextEvent
  BY <1>10, NextEventSettled
<1>11. CASE Update
  BY <1>11, UpdateSettled
<1>12. QED
  BY <1>2, <1>3, <1>4, <1>5, <1>6, <1>7, <1>8, <1>9, <1>10, <1>11 DEF Next, RunStep

\* update, get, watch: once the events of a provider have been applied, the
\* filled cache of an open watcher knows the provider exactly when it is up, or
\* lingers only where its Del was lost; however refreshes, lost watchers,
\* connections and events interleave.
THEOREM CacheSettles == Spec => []Settled
<1>1. Init => SettledInv
  <2> SUFFICES ASSUME Init PROVE SettledInv
    OBVIOUS
  <2>1. ~Watching /\ cache = NilSlice
    BY DEF Init, Watching
  <2>2. QED
    BY <2>1, NilFacts DEF SettledInv
<1>2. Inv /\ Inv' /\ SettledInv /\ [Next]_vars => SettledInv'
  BY SettledStep
<1>3. SettledInv => Settled
  BY DEF SettledInv, Settled, Matches, PendingFor
<1>4. QED
  BY <1>1, <1>2, <1>3, Invariant, PTL DEF Spec

-----------------------------------------------------------------------------
(***************************************************************************)
(* What update computes.                                                   *)
(***************************************************************************)
\* The reference: element by element, without u.
WithoutLoop(f, s, u) ==
  f = [i \in 0 .. Len(s) |-> IF i = 0 THEN << >>
                             ELSE IF s[i] = u THEN f[i - 1]
                             ELSE Append(f[i - 1], s[i])]

\* s without its position p, up to position i of s; p is past the end if
\* nothing is taken out.
Skip(s, p, i) ==
  [j \in 1 .. (IF i < p THEN i ELSE i - 1) |-> IF j < p THEN s[j] ELSE s[j + 1]]

\* Without takes out the one position at which u is.
LEMMA WithoutIsSkip ==
  ASSUME NEW s \in Seq(Item), NEW u, NEW p \in 1 .. Len(s) + 1,
         \A i \in 1 .. Len(s) : s[i] = u <=> i = p
  PROVE  Without(s, u) = Skip(s, p, Len(s))
<1> DEFINE n == Len(s)
           f == CHOOSE g : WithoutLoop(g, s, u)
           h == [i \in 0 .. n |-> Skip(s, p, i)]
<1>1. Without(s, u) = f[n]
  BY DEF Without, WithoutLoop
<1>2. /\ n \in Nat /\ p \in Nat /\ 1 <= p /\ p <= n + 1
      /\ \A i \in 1 .. n : s[i] \in Item /\ (s[i] = u <=> i = p)
  BY LenProperties, ElementOfSeq
<1> HIDE DEF n
<1>3. ASSUME NEW i \in 0 .. n
      PROVE  h[i] = IF i = 0 THEN << >>
                    ELSE IF s[i] = u THEN h[i - 1]
                    ELSE Append(h[i - 1], s[i])
  <2>1. CASE i = 0
    <3>1. Skip(s, p, 0) = [j \in 1 .. 0 |-> IF j < p THEN s[j] ELSE s[j + 1]]
      BY <1>2 DEF Skip
    <3>2. h[0] = << >>
      BY <1>2, <3>1
    <3>3. QED
      BY <2>1, <3>2
  <2>2. CASE i # 0
    <3> DEFINE m == IF i < p THEN i ELSE i - 1
               k == IF i - 1 < p THEN i - 1 ELSE i - 2
               a == Skip(s, p, i)
               b == Skip(s, p, i - 1)
    <3>1. i \in 1 .. n /\ i - 1 \in 0 .. n /\ h[i] = a /\ h[i - 1] = b
      BY <1>2, <2>2
    <3>2. /\ a = [j \in 1 .. m |-> IF j < p THEN s[j] ELSE s[j + 1]]
          /\ b = [j \in 1 .. k |-> IF j < p THEN s[j] ELSE s[j + 1]]
      <4>1. (i - 1) - 1 = i - 2
        OBVIOUS
      <4>2. QED
        BY <4>1 DEF Skip
    <3>3. m \in Nat /\ k \in Nat /\ (i = p => m = k) /\ (i # p => m = k + 1)
      BY <1>2, <3>1
    <3>4. CASE i = p
      BY <1>2, <2>2, <3>1, <3>2, <3>3, <3>4
    <3>5. CASE i # p
      <4>1. /\ \A j \in 1 .. m : (IF j < p THEN s[j] ELSE s[j + 1]) \in Item
            /\ s[i] \in Item /\ s[i] # u
            /\ (IF m < p THEN s[m] ELSE s[m + 1]) = s[i]
        <5>1. /\ \A j \in 1 .. m : (j < p => j \in 1 .. n) /\ (~(j < p) => j + 1 \in 1 .. n)
              /\ (m < p => m = i) /\ (~(m < p) => m + 1 = i)
          BY <1>2, <3>1, <3>5
        <5>2. QED
          BY <1>2, <3>1, <3>5, <5>1
      <4>2. a \in [1 .. m -> Item] /\ b \in [1 .. k -> Item]
        <5> DEFINE v(j) == IF j < p THEN s[j] ELSE s[j + 1]
        <5>1. a = [j \in 1 .. m |-> v(j)] /\ b = [j \in 1 .. k |-> v(j)]
          BY <3>2
        <5>2. \A j \in 1 .. m : v(j) \in Item
          BY <4>1
        <5> HIDE DEF v, a, b, m, k
        <5>3. \A j \in 1 .. k : j \in 1 .. m
          BY <3>3, <3>5
        <5>4. QED
          BY <5>1, <5>2, <5>3
      <4>3. a \in Seq(Item) /\ b \in Seq(Item) /\ Len(a) = m /\ Len(b) = k
        BY <3>3, <4>2
      <4>4. a[m] = s[i] /\ \A j \in 1 .. k : a[j] = b[j]
        BY <3>2, <3>3, <3>5, <4>1
      <4> HIDE DEF a, b, m, k
      <4>5. a = Append(b, s[i])
        <5>1. /\ Append(b, s[i]) \in Seq(Item) /\ Len(Append(b, s[i])) = k + 1
              /\ Append(b, s[i])[k + 1] = s[i] /\ \A j \in 1 .. k : Append(b, s[i])[j] = b[j]
          BY <3>3, <4>1, <4>3, AppendProperties
        <5>2. \A j \in 1 .. k + 1 : j \in 1 .. k \/ j = k + 1
          BY <3>3
        <5>3. m = k + 1
          BY <3>3, <3>5
        <5>4. \A j \in 1 .. k + 1 : a[j] = Append(b, s[i])[j]
          BY <4>4, <5>1, <5>2, <5>3
        <5>5. QED
          BY <4>3, <5>1, <5>3, <5>4, SeqEqual
      <4>6. QED
        BY <2>2, <3>1, <4>1, <4>5
    <3>6. QED
      BY <3>4, <3>5
  <2>3. QED
    BY <2>1, <2>2
<1>4. WithoutLoop(h, s, u)
  <2>1. h = [i \in 0 .. n |-> IF i = 0 THEN << >>
                              ELSE IF s[i] = u THEN h[i - 1]
                              ELSE Append(h[i - 1], s[i])]
    BY <1>3
  <2>2. QED
    BY <2>1 DEF WithoutLoop, n
<1>5. WithoutLoop(f, s, u)
  BY <1>4
<1>6. h[n] = Skip(s, p, n)
  BY <1>2
<1> HIDE DEF f, h
<1> DEFINE Bad == {i \in 0 .. n : f[i] # h[i]}
<1>7. Bad = {}
  <2>1. SUFFICES ASSUME Bad # {} PROVE FALSE
    OBVIOUS
  <2>2. Bad \in SUBSET Nat
    BY <1>2
  <2>3. PICK i \in Bad : \A k \in Bad : i <= k
    BY <2>1, <2>2, LeastNumber
  <2>4. i \in 0 .. n /\ f[i] # h[i]
    BY <2>3
  <2>5. CASE i = 0
    BY <1>4, <1>5, <2>4, <2>5 DEF WithoutLoop, n
  <2>6. CASE i # 0
    <3>1. i - 1 \in 0 .. n /\ i - 1 \notin Bad
      BY <1>2, <2>3, <2>4, <2>6
    <3>2. f[i - 1] = h[i - 1]
      BY <3>1
    <3>3. /\ f[i] = IF s[i] = u THEN f[i - 1] ELSE Append(f[i - 1], s[i])
          /\ h[i] = IF s[i] = u THEN h[i - 1] ELSE Append(h[i - 1], s[i])
      BY <1>4, <1>5, <2>4, <2>6 DEF WithoutLoop, n
    <3>4. QED
      BY <2>4, <3>2, <3>3
  <2>7. QED
    BY <2>5, <2>6
<1>8. f[n] = h[n]
  BY <1>2, <1>7
<1>9. QED
  BY <1>1, <1>6, <1>8 DEF n

\* update: the loop leaves the elements that are not u, in their order.
LEMMA FilterElems ==
  ASSUME NEW sl, Clean(sl), NEW u
  PROVE  Elems(FilterUrl(sl, u)) = Without(Elems(sl), u)
<1> DEFINE n == sl.len
           a == sl.arr
           s == Elems(sl)
           r == FilterUrl(sl, u)
<1>1. /\ n \in Nat /\ Len(a) \in Nat /\ n <= Len(a) /\ s \in Seq(Item) /\ Len(s) = n
      /\ \A i \in 1 .. n : s[i] = a[i] /\ a[i] \in Item
      /\ \A i, j \in 1 .. n : a[i] = a[j] => i = j
  BY ElemsFacts DEF Clean
<1>2. PICK p \in 1 .. n + 1 : \A i \in 1 .. n : a[i] = u <=> i = p
  BY PositionOf
<1>3. r = filterServices(sl, p)
  BY <1>2, FilterIsShift
<1>4. /\ Clean(r) /\ Len(r.arr) = Len(a)
      /\ r.len = IF p <= n THEN n - 1 ELSE n
      /\ \A i \in 1 .. Len(a) : r.arr[i] = IF p <= i /\ i < n THEN a[i + 1] ELSE a[i]
  BY <1>3, ShiftFacts
<1> DEFINE t == Elems(r)
           w == Skip(s, p, n)
           m == IF n < p THEN n ELSE n - 1
<1>5. t \in Seq(Item) /\ Len(t) = r.len /\ \A i \in 1 .. r.len : t[i] = r.arr[i]
  BY <1>4, ElemsFacts DEF Clean
<1>6. Without(s, u) = w
  <2>1. p \in 1 .. Len(s) + 1 /\ \A i \in 1 .. Len(s) : s[i] = u <=> i = p
    BY <1>1, <1>2
  <2>2. Without(s, u) = Skip(s, p, Len(s))
    <3> HIDE DEF s
    <3>1. QED
      BY <1>1, <2>1, WithoutIsSkip
  <2>3. QED
    BY <1>1, <2>2
<1>7. w = [j \in 1 .. m |-> IF j < p THEN s[j] ELSE s[j + 1]]
  BY DEF Skip
<1> HIDE DEF n, a, s, r, t, w
<1>8. m \in Nat /\ m = r.len /\ \A j \in 1 .. m :
        (j < p => j \in 1 .. n) /\ (~(j < p) => j + 1 \in 1 .. n) /\ j \in 1 .. Len(a)
  BY <1>1, <1>2, <1>4
<1>9. \A j \in 1 .. m : r.arr[j] = IF j < p THEN a[j] ELSE a[j + 1]
  BY <1>1, <1>2, <1>4, <1>8
<1> HIDE DEF m
<1>10. \A j \in 1 .. m : w[j] = r.arr[j] /\ w[j] \in Item
  BY <1>1, <1>7, <1>8, <1>9
<1>11. w \in [1 .. m -> Item]
  BY <1>7, <1>10
<1>12. w \in Seq(Item) /\ Len(w) = m
  BY <1>8, <1>11
<1>13. t = w
  BY <1>5, <1>8, <1>10, <1>12, SeqEqual
<1>14. QED
  BY <1>6, <1>13 DEF t, r, s

\* append: the elements of the slice, then u.
LEMMA AppendElems ==
  ASSUME NEW sl, Clean(sl), NEW u \in Urls, ~InSlice(u, sl)
  PROVE  Elems(AppendUrl(sl, u)) = Append(Elems(sl), u)
<1> DEFINE n == sl.len
           s == Elems(sl)
           r == AppendUrl(sl, u)
           t == Elems(r)
           w == Append(s, u)
<1>1. /\ n \in Nat /\ s \in Seq(Item) /\ Len(s) = n /\ u \in Item
      /\ \A i \in 1 .. n : s[i] = sl.arr[i]
  BY ElemsFacts DEF Clean, Item
<1>2. /\ IsSlice(r) /\ r.len = n + 1
      /\ r.arr[n + 1] = u /\ \A i \in 1 .. n : r.arr[i] = sl.arr[i]
  BY AppendUrlFacts DEF Clean
<1>3. t \in Seq(Item) /\ Len(t) = n + 1 /\ \A i \in 1 .. n + 1 : t[i] = r.arr[i]
  BY <1>2, ElemsFacts
<1> HIDE DEF n, s, r, t
<1>4. w \in Seq(Item) /\ Len(w) = n + 1 /\ w[n + 1] = u /\ \A i \in 1 .. n : w[i] = s[i]
  BY <1>1, AppendProperties
<1> HIDE DEF w
<1>5. \A i \in 1 .. n + 1 : i \in 1 .. n \/ i = n + 1
  BY <1>1
<1>6. \A i \in 1 .. n + 1 : t[i] = w[i]
  BY <1>1, <1>2, <1>3, <1>4, <1>5
<1>7. t = w
  BY <1>3, <1>4, <1>6, SeqEqual
<1>8. QED
  BY <1>7 DEF t, w, r, s

\* update, filterServices: although its loop shortens the slice and shifts the
\* array it ranges over, an update removes exactly the provider of the event,
\* keeps the others in order, and adds it at the end if the event says so.
THEOREM UpdateIsExact == Spec => UpdateExact
<1>1. Inv /\ [Next]_vars => [UpdatesExactly]_vars
  <2> SUFFICES ASSUME Inv, Next, run = "update", run' = "next"
               PROVE  LET others == Without(Elems(cache), res.url)
                      IN Elems(cache') =
                           IF res.act = "Add" THEN Append(others, res.url) ELSE others
    BY DEF UpdatesExactly
  <2>1. Update
    BY DEF Next, RunStep, Tick, Flicker, NextLost, WatchEnds, Change, Select, SelectHit,
           SelectRefresh, SelectStale, RunQuit, WatchOk, WatchErr, Wake, NextStopped,
           NextEvent, StopWatcher, CloseClear, CloseExit, CloseDone, watchVars
  <2> DEFINE u == res.url
             kept == FilterUrl(cache, u)
             services == IF res.act = "Add" THEN AppendUrl(kept, u) ELSE kept
  <2>2. Clean(cache) /\ u \in Urls /\ set(services)
    BY <2>1 DEF Inv, SliceInv, RunTypes, Event, Update
  <2>3. Clean(kept) /\ ~InSlice(u, kept) /\ Elems(kept) = Without(Elems(cache), u)
    BY <2>2, FilterFacts, FilterElems
  <2> HIDE DEF kept, u
  <2>4. Clean(services)
    BY <2>2, <2>3, AppendUrlFacts
  <2>5. Elems(services) = IF res.act = "Add" THEN Append(Elems(kept), u) ELSE Elems(kept)
    BY <2>2, <2>3, AppendElems
  <2> HIDE DEF services
  <2>6. Elems(cache') = Elems(services)
    <3>1. services.len \in Nat /\ Elems(services) \in Seq(Item) /\ Len(Elems(services)) = services.len
      BY <2>4, ElemsFacts DEF Clean
    <3>2. CASE services.len > 0
      BY <2>2, <3>2 DEF set
    <3>3. CASE services.len = 0
      <4>1. cache' = NilSlice
        BY <2>2, <3>3 DEF set
      <4>2. IsSlice(NilSlice) /\ NilSlice.len = 0
        BY NilFacts DEF Clean, NilSlice
      <4>3. Elems(NilSlice) \in Seq(Item) /\ Len(Elems(NilSlice)) = 0
        BY <4>2, ElemsFacts
      <4>4. Elems(NilSlice) = Elems(services)
        BY <3>1, <3>3, <4>3, SeqEqual
      <4>5. QED
        BY <4>1, <4>4
    <3>4. QED
      BY <3>1, <3>2, <3>3
  <2>7. QED
    BY <2>3, <2>5, <2>6 DEF u
<1>2. QED
  BY <1>1, Invariant, PTL DEF Spec, UpdateExact
=============================================================================
