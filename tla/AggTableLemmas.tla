---------------------------- MODULE AggTableLemmas ----------------------------
(***************************************************************************)
(* Lemmas about the operators of AggHashTable, for any number of columns,  *)
(* any key ranges, hash function and entry limit: the two hash modes, the  *)
(* count of a group, what a rehash makes of a table, and the rows of a     *)
(* batch that were counted.  Then the inductive invariant, and what its    *)
(* proof needs to know of the steps.                                       *)
(***************************************************************************)
EXTENDS AggHashTable, BasicLemmas

\* How long the provers may take for a step, in seconds.
USE SMTT(30), ZenonT(30)

Entry == [key : Keys, count : Nat]

Ranges(l, h) ==
  l \in [KeyCols -> Int] /\ h \in [KeyCols -> Int] /\ \A c \in KeyCols : l[c] <= h[c] + 1
CoveredBy(k, l, h) == \A c \in KeyCols : InRange(k[c], l[c], h[c])

\* t is the content of a buffer of n entries.
IsTable(t, n) ==
  /\ t = [s \in DOMAIN t |-> t[s]] /\ DOMAIN t \subseteq 0..n - 1
  /\ \A s \in DOMAIN t : t[s] \in Entry
OneRowPerKey(t) == \A s, u \in DOMAIN t : t[s].key = t[u].key => s = u

\* Hasher h can be used with a buffer of n entries.
Fits(h, n) ==
  /\ n \in Nat \ {0} /\ h.mode \in {"range", "direct"}
  /\ h.mode = "range" => Ranges(h.lo, h.hi) /\ n = Slots(h.lo, h.hi)[Cols]
Hashable(k, h) == h.mode = "range" => CoveredBy(k, h.lo, h.hi)

\* Every row is where its key hashes to.
Sound(t, h, n) ==
  /\ IsTable(t, n)
  /\ \A s \in DOMAIN t : Hashable(t[s].key, h) /\ Slot(t[s].key, h, t, n) = s

-----------------------------------------------------------------------------
(* Range mode: a number in mixed radix                                      *)

\* The columns of the key are numbered from 1.
LEMMA ColsType == Cols \in Nat \ {0} /\ KeyCols = 1..Cols /\ Null \notin Int
  BY AggAssumption DEF KeyCols

\* s counts the slots of the first c columns.
IsSlots(s, l, h) ==
  /\ s \in [0..Cols -> Nat \ {0}] /\ s[0] = 1
  /\ \A c \in 1..Cols : s[c] = s[c - 1] * (h[c] - l[c] + 2)

\* The recursion that defines Slots has a solution.
LEMMA SlotsDef ==
  ASSUME NEW l, NEW h, Ranges(l, h)
  PROVE  IsSlots(Slots(l, h), l, h)
<1> DEFINE S == Nat \ {0}
           step == [c \in 1..Cols |-> [x \in S |-> x * (h[c] - l[c] + 2)]]
           def(g) == [c \in 0..Cols |-> IF c = 0 THEN 1 ELSE g[c - 1] * (h[c] - l[c] + 2)]
           s == CHOOSE g : g = def(g)
<1>1. Cols \in Nat /\ 1 \in S /\ \A c \in 1..Cols : h[c] - l[c] + 2 \in S
  BY ColsType DEF Ranges
<1>2. \A c \in 1..Cols : \A x \in S : x * (h[c] - l[c] + 2) \in S
  <2>1. ASSUME NEW x \in S, NEW y \in S PROVE x * y \in S
    OBVIOUS
  <2> QED BY <1>1, <2>1
<1>3. step \in [1..Cols -> [S -> S]]
  <2> HIDE DEF S
  <2> QED BY <1>2
<1>4. PICK f : Follows(f, Cols, S, 1, step)
  <2> HIDE DEF S, step
  <2> QED BY <1>1, <1>3, RecursionExists, Zenon
<1>5. f = def(f)
  <2>1. ASSUME NEW c \in 0..Cols PROVE f[c] = def(f)[c]
    <3>1. CASE c = 0
      BY <1>4, <3>1 DEF Follows
    <3>2. CASE c # 0
      <4>1. c \in 1..Cols /\ c - 1 \in 0..Cols
        BY <1>1, <3>2
      <4>2. f[c - 1] \in S
        BY <1>4, <4>1 DEF Follows
      <4>3. f[c] = step[c][f[c - 1]]
        BY <1>4, <4>1 DEF Follows
      <4>4. step[c][f[c - 1]] = f[c - 1] * (h[c] - l[c] + 2)
        BY <4>1, <4>2
      <4> QED BY <3>2, <4>3, <4>4
    <3> QED BY <3>1, <3>2
  <2> QED BY <1>4, <2>1 DEF Follows
<1>6. s = def(s)
  <2> HIDE DEF def
  <2> QED BY <1>5
<1>7. Slots(l, h) = s
  BY DEF Slots
<1> HIDE DEF s
<1>8. s[0] = 1 /\ \A c \in 1..Cols : s[c] = s[c - 1] * (h[c] - l[c] + 2)
  <2>1. \A c \in 0..Cols : s[c] = def(s)[c]
    BY <1>6, Zenon
  <2> QED BY <1>1, <2>1
<1>9. \A c \in 0..Cols : s[c] \in S
  <2> DEFINE T == {c \in 0..Cols : s[c] \in S}
  <2>1. 0 \in T
    <3>1. 0 \in 0..Cols
      BY <1>1
    <3> QED BY <1>1, <1>8, <3>1
  <2>2. \A c \in 1..Cols : c - 1 \in T => c \in T
    <3>1. TAKE c \in 1..Cols
    <3>2. HAVE c - 1 \in T
    <3>3. s[c - 1] \in S /\ c \in 0..Cols
      BY <1>1, <3>2
    <3>4. s[c] = s[c - 1] * (h[c] - l[c] + 2)
      BY <1>8
    <3>5. s[c] \in S
      <4> HIDE DEF S
      <4> QED BY <1>2, <3>3, <3>4
    <3> QED BY <3>3, <3>5
  <2>3. \A c \in 0..Cols : c \in T
    <3> HIDE DEF T
    <3> QED BY <1>1, <2>1, <2>2, UpTo
  <2> QED BY <2>3
<1>10. s \in [0..Cols -> S]
  BY <1>6, <1>9
<1> QED BY <1>7, <1>8, <1>10 DEF IsSlots

\* The digit of column c: 0 for null, else the place of the value in the range.
Digit(k, l, c) == IF k[c] = Null THEN 0 ELSE k[c] - l[c] + 1

\* sum is the number that the first c digits are.
IsSum(sum, k, l, h) ==
  /\ sum \in [0..Cols -> Nat] /\ sum[0] = 0
  /\ \A c \in 1..Cols : sum[c] = sum[c - 1] + Slots(l, h)[c - 1] * Digit(k, l, c)

\* A key in the ranges gives a digit of each column that is below the column's radix.
LEMMA DigitType ==
  ASSUME NEW l, NEW h, Ranges(l, h), NEW k \in Keys, CoveredBy(k, l, h), NEW c \in 1..Cols
  PROVE  /\ Digit(k, l, c) \in 0..(h[c] - l[c] + 1)
         /\ h[c] - l[c] + 2 \in Nat \ {0}
<1>1. k[c] = Null \/ k[c] \in Int
  BY AggAssumption, ColsType DEF Keys
<1>2. l[c] \in Int /\ h[c] \in Int /\ l[c] <= h[c] + 1 /\ InRange(k[c], l[c], h[c])
  BY ColsType DEF CoveredBy, Ranges
<1>3. CASE k[c] = Null
  BY <1>2, <1>3 DEF Digit
<1>4. CASE k[c] # Null
  BY <1>1, <1>2, <1>4 DEF Digit, InRange
<1> QED BY <1>3, <1>4

\* The recursion that defines RangeIndex has a solution.
LEMMA SumDef ==
  ASSUME NEW l, NEW h, Ranges(l, h), NEW k \in Keys, CoveredBy(k, l, h)
  PROVE  \E sum : IsSum(sum, k, l, h) /\ RangeIndex(k, l, h) = sum[Cols]
<1> DEFINE S == Slots(l, h)
           D(c) == Digit(k, l, c)
           term(c) == IF k[c] = Null THEN 0 ELSE S[c - 1] * (k[c] - l[c] + 1)
           step == [c \in 1..Cols |-> [x \in Nat |-> x + term(c)]]
           def(g) == [c \in 0..Cols |-> IF c = 0 THEN 0 ELSE g[c - 1] + term(c)]
           s == CHOOSE g : g = def(g)
<1>1. Cols \in Nat /\ 0 \in Nat
  BY ColsType
<1>2. ASSUME NEW c \in 1..Cols PROVE term(c) = S[c - 1] * D(c) /\ term(c) \in Nat
  <2>1. c - 1 \in 0..Cols
    BY <1>1
  <2>2. S[c - 1] \in Nat
    BY <2>1, SlotsDef, Zenon DEF IsSlots
  <2>3. D(c) \in Nat
    BY DigitType
  <2>4. S[c - 1] * D(c) \in Nat
    <3> HIDE DEF S, D
    <3> QED BY <2>2, <2>3
  <2>5. term(c) = S[c - 1] * D(c)
    <3> HIDE DEF S
    <3> QED BY <2>2 DEF Digit
  <2> QED BY <2>4, <2>5
<1>3. RangeIndex(k, l, h) = s[Cols]
  BY DEF RangeIndex
<1> HIDE DEF term
<1>4. step \in [1..Cols -> [Nat -> Nat]]
  BY <1>2
<1>5. PICK f : Follows(f, Cols, Nat, 0, step)
  <2> HIDE DEF step
  <2> QED BY <1>1, <1>4, RecursionExists, Zenon
<1>6. f = def(f)
  <2>1. ASSUME NEW c \in 0..Cols PROVE f[c] = def(f)[c]
    <3>1. CASE c = 0
      BY <1>5, <3>1 DEF Follows
    <3>2. CASE c # 0
      <4>1. c \in 1..Cols /\ c - 1 \in 0..Cols
        BY <1>1, <3>2
      <4>2. f[c - 1] \in Nat
        BY <1>5, <4>1 DEF Follows
      <4> QED BY <1>5, <3>2, <4>1, <4>2, Zenon DEF Follows
    <3> QED BY <3>1, <3>2
  <2> QED BY <1>5, <2>1 DEF Follows
<1>7. s = def(s)
  <2> HIDE DEF def
  <2> QED BY <1>6
<1> HIDE DEF s
<1>8. s[0] = 0 /\ \A c \in 1..Cols : s[c] = s[c - 1] + term(c)
  <2>1. \A c \in 0..Cols : s[c] = def(s)[c]
    BY <1>7, Zenon
  <2> QED BY <1>1, <2>1
<1>9. \A c \in 0..Cols : s[c] \in Nat
  <2> DEFINE T == {c \in 0..Cols : s[c] \in Nat}
  <2>1. 0 \in T
    BY <1>1, <1>8
  <2>2. \A c \in 1..Cols : c - 1 \in T => c \in T
    BY <1>1, <1>2, <1>8
  <2>3. \A c \in 0..Cols : c \in T
    <3> HIDE DEF T
    <3> QED BY <1>1, <2>1, <2>2, UpTo
  <2> QED BY <2>3
<1>10. s \in [0..Cols -> Nat]
  BY <1>7, <1>9
<1>11. IsSum(s, k, l, h)
  BY <1>2, <1>8, <1>10 DEF IsSum
<1> QED BY <1>3, <1>11

\* rangeHash stays below the number of entries, ...
LEMMA SumBound ==
  ASSUME NEW l, NEW h, Ranges(l, h), NEW k \in Keys, CoveredBy(k, l, h),
         NEW sum, IsSum(sum, k, l, h)
  PROVE  \A c \in 0..Cols : sum[c] \in 0..Slots(l, h)[c] - 1
<1> DEFINE S == Slots(l, h)
           T == {c \in 0..Cols : sum[c] \in 0..S[c] - 1}
<1>1. Cols \in Nat /\ IsSlots(S, l, h)
  BY ColsType, SlotsDef
<1> HIDE DEF S
<1>2. 0 \in T
  BY <1>1 DEF IsSlots, IsSum
<1>3. ASSUME NEW c \in 1..Cols, c - 1 \in T PROVE c \in T
  <2> DEFINE w == h[c] - l[c] + 2
             d == Digit(k, l, c)
             p == S[c - 1]
             a == sum[c - 1]
  <2>1. d \in 0..w - 1 /\ w \in Nat \ {0}
    <3>1. h[c] \in Int /\ l[c] \in Int
      BY ColsType DEF Ranges
    <3> QED BY <3>1, DigitType
  <2>2. p \in Nat \ {0} /\ S[c] = p * w /\ a \in 0..p - 1 /\ c \in 0..Cols
    BY <1>1, <1>3 DEF IsSlots
  <2>3. sum[c] = a + p * d
    BY DEF IsSum, S
  <2> HIDE DEF w, d, p, a
  <2>4. p * w = p * d + p * (w - d) /\ w - d \in Nat \ {0} /\ p * d \in Nat
    BY <2>1, <2>2
  <2>5. p * (w - d) >= p
    <3>1. PICK r \in Nat : w - d = 1 + r
      <4>1. w - d - 1 \in Nat /\ w - d = 1 + (w - d - 1)
        BY <2>1
      <4> QED BY <4>1
    <3>2. p * (1 + r) = p + p * r /\ p * r \in Nat
      BY <2>2
    <3> QED BY <2>2, <3>1, <3>2
  <2>6. p * (w - d) \in Nat
    BY <2>2, <2>4
  <2>7. a + p * d \in 0..p * w - 1
    BY <2>2, <2>4, <2>5, <2>6
  <2> QED BY <2>2, <2>3, <2>7
<1>4. \A c \in 0..Cols : c \in T
  <2> HIDE DEF T
  <2> QED BY <1>1, <1>2, <1>3, UpTo
<1> QED BY <1>4 DEF S

\* A key in the ranges has its slot inside the buffer.
LEMMA RangeType ==
  ASSUME NEW l, NEW h, Ranges(l, h), NEW k \in Keys, CoveredBy(k, l, h)
  PROVE  RangeIndex(k, l, h) \in 0..Slots(l, h)[Cols] - 1
<1>1. PICK sum : IsSum(sum, k, l, h) /\ RangeIndex(k, l, h) = sum[Cols]
  BY SumDef
<1>2. Cols \in 0..Cols
  BY ColsType
<1> QED BY <1>1, <1>2, SumBound

\* ... and no two keys have the same.
LEMMA RangeInjective ==
  ASSUME NEW l, NEW h, Ranges(l, h), NEW k \in Keys, CoveredBy(k, l, h),
         NEW m \in Keys, CoveredBy(m, l, h), RangeIndex(k, l, h) = RangeIndex(m, l, h)
  PROVE  k = m
<1> DEFINE S == Slots(l, h)
<1>1. Cols \in Nat /\ IsSlots(S, l, h)
  BY ColsType, SlotsDef
<1>2. PICK x : IsSum(x, k, l, h) /\ RangeIndex(k, l, h) = x[Cols]
  BY SumDef
<1>3. PICK y : IsSum(y, m, l, h) /\ RangeIndex(m, l, h) = y[Cols]
  BY SumDef
<1> DEFINE T == {c \in 0..Cols : x[c] = y[c]}
<1>4. ASSUME NEW c \in 1..Cols, c \in T
      PROVE  Digit(k, l, c) = Digit(m, l, c) /\ c - 1 \in T
  <2> DEFINE d == Digit(k, l, c)
             e == Digit(m, l, c)
             p == S[c - 1]
             a == x[c - 1]
             b == y[c - 1]
  <2>1. c - 1 \in 0..Cols
    BY <1>1
  <2>2. d \in Nat /\ e \in Nat /\ p \in Nat \ {0}
    <3>1. d \in Nat /\ e \in Nat
      BY DigitType
    <3>2. p \in Nat \ {0}
      <4> HIDE DEF S
      <4> QED BY <1>1, <2>1 DEF IsSlots
    <3> QED BY <3>1, <3>2
  <2>3. a \in 0..p - 1 /\ b \in 0..p - 1
    BY <1>2, <1>3, <2>1, SumBound
  <2>4. x[c] = a + p * d /\ y[c] = b + p * e
    BY <1>2, <1>3 DEF IsSum
  <2>5. x[c] = y[c]
    BY <1>4
  <2> HIDE DEF d, e, p, a, b
  <2>6. d = e /\ a = b
    <3>1. a + p * d = b + p * e
      BY <2>4, <2>5
    <3> QED BY <2>2, <2>3, <3>1, MixedRadix
  <2> QED BY <2>1, <2>6 DEF d, e, a, b
<1>5. Cols \in T
  <2>1. Cols \in 0..Cols
    BY <1>1
  <2>2. x[Cols] = y[Cols]
    BY <1>2, <1>3, Zenon
  <2> QED BY <2>1, <2>2
<1>6. \A c \in 0..Cols : c \in T
  <2>1. \A c \in 1..Cols : c \in T => c - 1 \in T
    BY <1>4
  <2> HIDE DEF T
  <2> QED BY <1>1, <1>5, <2>1, DownFrom
<1>7. ASSUME NEW c \in 1..Cols PROVE k[c] = m[c]
  <2>1. c \in 0..Cols
    BY <1>1
  <2>2. Digit(k, l, c) = Digit(m, l, c)
    BY <1>4, <1>6, <2>1
  <2>3. /\ k[c] = Null \/ k[c] \in Int
        /\ m[c] = Null \/ m[c] \in Int
    BY AggAssumption, ColsType DEF Keys
  <2>4. /\ l[c] \in Int
        /\ k[c] # Null => l[c] <= k[c]
        /\ m[c] # Null => l[c] <= m[c]
    BY ColsType DEF Ranges, CoveredBy, InRange
  <2> QED BY <2>2, <2>3, <2>4 DEF Digit
<1> QED BY <1>7, ColsType DEF Keys

-----------------------------------------------------------------------------
(* Direct mode, and both modes                                              *)

\* Min of a set of naturals is its least element.
LEMMA MinIs ==
  ASSUME NEW T \in SUBSET Nat, T # {}
  PROVE  Min(T) \in T /\ \A y \in T : Min(T) <= y
<1>1. \E x \in T : \A y \in T : x <= y
  BY LeastNat
<1> QED BY <1>1, Zenon DEF Min

\* The probe for k stops at slot s.
Stops(k, t, s) == s \notin DOMAIN t \/ t[s].key = k
At(k, o, n) == (DirectHash[k] + o) % n
Hits(k, t, n) == {o \in 0..n - 1 : Stops(k, t, At(k, o, n))}

\* The probe of direct mode, in terms of the offsets at which it can stop.
LEMMA DirectIs ==
  ASSUME NEW k, NEW t, NEW n
  PROVE  DirectSlot(k, t, n) =
           IF Hits(k, t, n) = {} THEN -1 ELSE At(k, Min(Hits(k, t, n)), n)
  BY Zenon DEF DirectSlot, Hits, Stops, At

\* The probe finds a slot for the key unless the buffer is full.
LEMMA DirectFinds ==
  ASSUME NEW n \in Nat \ {0}, NEW t, IsTable(t, n), NEW k \in Keys
  PROVE  LET s == DirectSlot(k, t, n)
         IN  \/ s = -1 /\ DOMAIN t = 0..n - 1 /\ \A u \in DOMAIN t : t[u].key # k
             \/ s \in 0..n - 1 /\ Stops(k, t, s)
<1> DEFINE H == Hits(k, t, n)
           a == DirectHash[k]
<1>1. a \in Nat /\ H \in SUBSET Nat
  BY AggAssumption DEF Hits
<1>2. CASE H = {}
  <2>1. ASSUME NEW u \in 0..n - 1 PROVE ~Stops(k, t, u)
    <3>1. PICK o \in 0..n - 1 : (a + o) % n = u
      <4> HIDE DEF a
      <4> QED BY <1>1, ModOnto, Zenon
    <3> QED BY <1>2, <3>1 DEF Hits, At
  <2>2. DirectSlot(k, t, n) = -1
    BY <1>2, DirectIs
  <2>3. DOMAIN t = 0..n - 1
    BY <2>1, Zenon DEF Stops, IsTable
  <2> QED BY <2>1, <2>2, <2>3 DEF Stops
<1>3. CASE H # {}
  <2> DEFINE o == Min(H)
  <2>1. o \in H
    <3> HIDE DEF H
    <3> QED BY <1>1, <1>3, MinIs
  <2>2. DirectSlot(k, t, n) = At(k, o, n)
    <3> HIDE DEF o
    <3> QED BY <1>3, DirectIs, Zenon DEF o
  <2>3. o \in 0..n - 1 /\ Stops(k, t, At(k, o, n))
    <3> HIDE DEF o
    <3> QED BY <2>1 DEF Hits
  <2>4. At(k, o, n) \in 0..n - 1
    <3> HIDE DEF o
    <3>1. a + o \in Nat
      BY <1>1, <2>3
    <3> QED BY <3>1, DivMod DEF At
  <2> QED BY <2>2, <2>3, <2>4
<1> QED BY <1>2, <1>3

\* The probe stops where it did when that slot still stops it and no other does anew.
LEMMA DirectSame ==
  ASSUME NEW n \in Nat \ {0}, NEW t, NEW v, NEW k \in Keys,
         DirectSlot(k, t, n) # -1, Stops(k, v, DirectSlot(k, t, n)),
         \A s : Stops(k, v, s) => Stops(k, t, s)
  PROVE  DirectSlot(k, v, n) = DirectSlot(k, t, n)
<1> DEFINE H == Hits(k, t, n)
           G == Hits(k, v, n)
<1>1. H \in SUBSET Nat /\ G \in SUBSET H
  BY DEF Hits
<1>2. H # {} /\ DirectSlot(k, t, n) = At(k, Min(H), n)
  BY DirectIs, Zenon
<1>3. Min(H) \in H /\ \A y \in H : Min(H) <= y
  <2> HIDE DEF H
  <2> QED BY <1>1, <1>2, MinIs
<1>4. Min(H) \in G
  <2>1. Min(H) \in 0..n - 1 /\ Stops(k, v, At(k, Min(H), n))
    BY <1>2, <1>3 DEF Hits
  <2> QED BY <2>1 DEF Hits
<1>5. Min(G) \in G /\ \A y \in G : Min(G) <= y
  <2> HIDE DEF H, G
  <2> QED BY <1>1, <1>4, MinIs
<1>6. Min(G) = Min(H)
  <2> DEFINE a == Min(G)
             b == Min(H)
  <2>1. a \in Nat /\ b \in Nat /\ b <= a /\ a <= b
    <3> HIDE DEF a, b, H, G
    <3> QED BY <1>1, <1>3, <1>4, <1>5, Zenon DEF a, b
  <2> HIDE DEF a, b
  <2>2. a = b
    BY <2>1
  <2> QED BY <2>2 DEF a, b
<1> QED BY <1>2, <1>4, <1>6, DirectIs, Zenon

\* Every row is where its key hashes to, so no two rows have the same key.
LEMMA SoundUnique ==
  ASSUME NEW t, NEW h, NEW n, Sound(t, h, n)
  PROVE  OneRowPerKey(t)
  BY DEF Sound, OneRowPerKey

\* The slot of a key is free or has its row, and there is none only in a full buffer.
LEMMA SlotFinds ==
  ASSUME NEW h, NEW n, Fits(h, n), NEW t, Sound(t, h, n), NEW k \in Keys, Hashable(k, h)
  PROVE  LET s == Slot(k, h, t, n)
         IN  /\ \/ s = -1 /\ h.mode = "direct" /\ DOMAIN t = 0..n - 1
                \/ s \in 0..n - 1
             /\ s \in DOMAIN t => t[s].key = k
             /\ s \notin DOMAIN t => \A u \in DOMAIN t : t[u].key # k
<1> DEFINE s == Slot(k, h, t, n)
<1>1. IsTable(t, n) /\ n \in Nat \ {0} /\ \A u \in DOMAIN t : t[u].key \in Keys
  BY DEF Sound, IsTable, Fits, Entry
<1>2. s \notin DOMAIN t => \A u \in DOMAIN t : t[u].key # k
  BY DEF Sound
<1>3. CASE h.mode = "range"
  <2>1. s = RangeIndex(k, h.lo, h.hi) /\ Ranges(h.lo, h.hi) /\ CoveredBy(k, h.lo, h.hi)
    BY <1>3 DEF Slot, Fits, Hashable
  <2>2. s \in 0..n - 1
    BY <1>3, <2>1, RangeType DEF Fits
  <2>3. ASSUME s \in DOMAIN t PROVE t[s].key = k
    <3>1. CoveredBy(t[s].key, h.lo, h.hi) /\ RangeIndex(t[s].key, h.lo, h.hi) = s
      BY <1>3, <2>3 DEF Sound, Hashable, Slot
    <3> QED BY <1>1, <2>1, <2>3, <3>1, RangeInjective
  <2> QED BY <1>2, <2>2, <2>3
<1>4. CASE h.mode = "direct"
  <2>1. s = DirectSlot(k, t, n)
    BY <1>4 DEF Slot
  <2> HIDE DEF s
  <2>2. \/ s = -1 /\ DOMAIN t = 0..n - 1
        \/ s \in 0..n - 1 /\ Stops(k, t, s)
    BY <1>1, <2>1, DirectFinds
  <2>3. -1 \notin 0..n - 1
    BY <1>1
  <2> QED BY <1>2, <1>4, <2>2, <2>3, Zenon DEF Stops, s
<1> QED BY <1>3, <1>4 DEF Fits

\* Writing the row of a key to its slot keeps every row where its key hashes to.
LEMMA PutSound ==
  ASSUME NEW h, NEW n, Fits(h, n), NEW t, Sound(t, h, n), NEW row \in Entry,
         Hashable(row.key, h), Slot(row.key, h, t, n) # -1
  PROVE  Sound(Put(t, Slot(row.key, h, t, n), row), h, n)
<1> DEFINE k == row.key
           s == Slot(k, h, t, n)
           v == Put(t, s, row)
<1>1. k \in Keys /\ n \in Nat \ {0}
  BY DEF Entry, Fits
<1>2. /\ s \in 0..n - 1
      /\ s \in DOMAIN t => t[s].key = k
      /\ s \notin DOMAIN t => \A u \in DOMAIN t : t[u].key # k
  BY <1>1, SlotFinds
<1> HIDE DEF s
<1>3. DOMAIN v = DOMAIN t \cup {s} /\ v[s] = row /\ \A x \in DOMAIN t : x # s => v[x] = t[x]
  BY DEF Put
<1>4. v = [x \in DOMAIN v |-> v[x]]
  BY DEF Put
<1> HIDE DEF v
<1>5. IsTable(v, n)
  BY <1>2, <1>3, <1>4 DEF Sound, IsTable
<1>6. ASSUME NEW u \in DOMAIN v PROVE Hashable(v[u].key, h)
  BY <1>3 DEF Sound
<1>7. ASSUME NEW u \in DOMAIN v PROVE Slot(v[u].key, h, v, n) = u
  <2>1. v[u].key \in Keys
    BY <1>5 DEF IsTable, Entry
  <2>2. Slot(v[u].key, h, t, n) = u
    <3>1. CASE u = s
      BY <1>3, <3>1 DEF s
    <3>2. CASE u # s
      BY <1>3, <3>2 DEF Sound
    <3> QED BY <3>1, <3>2
  <2>3. CASE h.mode = "range"
    BY <2>2, <2>3 DEF Slot
  <2>4. CASE h.mode # "range"
    <3> DEFINE m == v[u].key
    <3>1. DirectSlot(m, t, n) = u /\ u # -1
      BY <1>1, <1>5, <2>2, <2>4 DEF Slot, IsTable
    <3>2. Stops(m, v, DirectSlot(m, t, n))
      BY <3>1 DEF Stops
    <3>3. ASSUME NEW x, Stops(m, v, x) PROVE Stops(m, t, x)
      <4>1. CASE x \notin DOMAIN v
        BY <1>3, <4>1 DEF Stops
      <4>2. CASE x \in DOMAIN v /\ x # s
        BY <1>3, <3>3, <4>2 DEF Stops
      <4>3. CASE x = s
        <5>1. v[s].key = m
          BY <1>3, <3>3, <4>3 DEF Stops
        <5> QED BY <1>2, <1>3, <4>3, <5>1 DEF Stops
      <4> QED BY <4>1, <4>2, <4>3
    <3> HIDE DEF m
    <3>4. DirectSlot(m, v, n) = DirectSlot(m, t, n)
      BY <1>1, <2>1, <3>1, <3>2, <3>3, DirectSame DEF m
    <3> QED BY <2>4, <3>1, <3>4 DEF Slot, m
  <2> QED BY <2>3, <2>4
<1> QED BY <1>5, <1>6, <1>7 DEF Sound, v, s

-----------------------------------------------------------------------------
(* The count of a group                                                     *)

TotalIn(t, k) == MapThenSumSet(LAMBDA s : t[s].count, {s \in DOMAIN t : t[s].key = k})

\* A key that is in no row has no count.
LEMMA TotalNone ==
  ASSUME NEW t, NEW k, \A s \in DOMAIN t : t[s].key # k
  PROVE  TotalIn(t, k) = 0
<1> DEFINE S == {s \in DOMAIN t : t[s].key = k}
           def(g) == [z \in SUBSET S |-> IF z = {} THEN 0
                        ELSE t[CHOOSE x \in z : TRUE].count + g[z \ {CHOOSE x \in z : TRUE}]]
           f == CHOOSE g : g = def(g)
<1>1. S = {}
  OBVIOUS
<1>2. TotalIn(t, k) = f[S]
  BY Zenon DEF TotalIn, MapThenSumSet, MapThenFoldSet
<1> DEFINE e == [z \in SUBSET S |-> 0]
<1>3. e = def(e)
  <2>1. ASSUME NEW z \in SUBSET S PROVE z = {}
    BY <1>1
  <2> HIDE DEF S
  <2> QED BY <2>1
<1>4. f = def(f)
  <2> HIDE DEF def, e
  <2> QED BY <1>3
<1>5. f[S] = def(f)[S]
  <2> HIDE DEF f, def
  <2> QED BY <1>4, Zenon
<1>6. def(f)[S] = 0
  <2> HIDE DEF f
  <2>1. S \in SUBSET S
    OBVIOUS
  <2> QED BY <1>1, <2>1
<1> QED BY <1>2, <1>5, <1>6

\* A key that is in one row has the count of that row.
LEMMA TotalOne ==
  ASSUME NEW t, NEW n, IsTable(t, n), OneRowPerKey(t), NEW s \in DOMAIN t
  PROVE  TotalIn(t, t[s].key) = t[s].count
<1> DEFINE k == t[s].key
           v == t[s].count
           S == {x \in DOMAIN t : t[x].key = k}
           def(g) == [z \in SUBSET S |-> IF z = {} THEN 0
                        ELSE t[CHOOSE x \in z : TRUE].count + g[z \ {CHOOSE x \in z : TRUE}]]
           f == CHOOSE g : g = def(g)
           e == [z \in SUBSET S |-> IF z = {} THEN 0 ELSE v]
<1>1. S = {s} /\ v \in Nat
  BY DEF OneRowPerKey, IsTable, Entry
<1>2. TotalIn(t, k) = f[S]
  BY Zenon DEF TotalIn, MapThenSumSet, MapThenFoldSet
<1> HIDE DEF S
<1>3. ASSUME NEW z \in SUBSET S, z # {}
      PROVE  z = {s} /\ (CHOOSE x \in z : TRUE) = s /\ z \ {CHOOSE x \in z : TRUE} = {}
  <2>1. z = {s}
    BY <1>1, <1>3
  <2>2. (CHOOSE x \in z : TRUE) \in z
    BY <1>3
  <2> QED BY <2>1, <2>2
<1>4. e = def(e)
  <2>1. ASSUME NEW z \in SUBSET S PROVE e[z] = def(e)[z]
    <3>1. CASE z = {}
      BY <3>1
    <3>2. CASE z # {}
      <4>1. def(e)[z] = t[s].count + e[{}]
        <5> HIDE DEF e
        <5> QED BY <1>3, <3>2, Zenon
      <4>2. e[{}] = 0 /\ e[z] = v
        BY <3>2
      <4> QED BY <1>1, <4>1, <4>2
    <3> QED BY <3>1, <3>2
  <2> QED BY <2>1, Zenon
<1>5. f = def(f)
  <2> HIDE DEF def, e
  <2> QED BY <1>4
<1> HIDE DEF f
<1>6. f[{}] = 0
  <2>1. {} \in SUBSET S
    OBVIOUS
  <2> QED BY <1>5, <2>1, Zenon
<1>7. f[S] = t[s].count + f[{}]
  <2>1. S \in SUBSET S /\ S # {}
    BY <1>1
  <2>2. def(f)[S] = t[s].count + f[{}]
    BY <1>3, <2>1, Zenon
  <2>3. f[S] = def(f)[S]
    <3> HIDE DEF def
    <3> QED BY <1>5, Zenon
  <2> QED BY <2>2, <2>3
<1> QED BY <1>1, <1>2, <1>6, <1>7

\* Tables with the same rows have the same counts.
LEMMA TotalSame ==
  ASSUME NEW t, NEW n, IsTable(t, n), OneRowPerKey(t),
         NEW v, NEW m, IsTable(v, m), OneRowPerKey(v),
         \A s \in DOMAIN t : \E u \in DOMAIN v : v[u] = t[s],
         \A u \in DOMAIN v : \E s \in DOMAIN t : v[u] = t[s], NEW k
  PROVE  TotalIn(v, k) = TotalIn(t, k)
<1>1. CASE \E s \in DOMAIN t : t[s].key = k
  <2>1. PICK s \in DOMAIN t : t[s].key = k
    BY <1>1
  <2>2. PICK u \in DOMAIN v : v[u] = t[s]
    OBVIOUS
  <2>3. TotalIn(t, t[s].key) = t[s].count /\ TotalIn(v, v[u].key) = v[u].count
    BY TotalOne
  <2> QED BY <2>1, <2>2, <2>3
<1>2. CASE ~\E s \in DOMAIN t : t[s].key = k
  <2>1. \A u \in DOMAIN v : v[u].key # k
    BY <1>2
  <2> QED BY <1>2, <2>1, TotalNone
<1> QED BY <1>1, <1>2

\* A row written to the slot of its key changes the count of that key only.
LEMMA TotalPut ==
  ASSUME NEW t, NEW n, IsTable(t, n), OneRowPerKey(t), NEW s, NEW row,
         s \in DOMAIN t => t[s].key = row.key,
         s \notin DOMAIN t => \A u \in DOMAIN t : t[u].key # row.key,
         IsTable(Put(t, s, row), n), OneRowPerKey(Put(t, s, row)), NEW k
  PROVE  /\ TotalIn(t, row.key) = IF s \in DOMAIN t THEN t[s].count ELSE 0
         /\ TotalIn(Put(t, s, row), k) = IF k = row.key THEN row.count ELSE TotalIn(t, k)
<1> DEFINE v == Put(t, s, row)
<1>1. DOMAIN v = DOMAIN t \cup {s} /\ v[s] = row /\ \A x \in DOMAIN t : x # s => v[x] = t[x]
  BY DEF Put
<1> HIDE DEF v
<1>2. TotalIn(t, row.key) = IF s \in DOMAIN t THEN t[s].count ELSE 0
  <2>1. CASE s \in DOMAIN t
    <3>1. TotalIn(t, t[s].key) = t[s].count
      BY <2>1, TotalOne
    <3> QED BY <2>1, <3>1
  <2>2. CASE s \notin DOMAIN t
    BY <2>2, TotalNone
  <2> QED BY <2>1, <2>2
<1>3. CASE k = row.key
  <2>1. TotalIn(v, v[s].key) = v[s].count
    BY <1>1, TotalOne DEF v
  <2> QED BY <1>1, <1>2, <1>3, <2>1 DEF v
<1>4. CASE k # row.key
  <2>1. CASE \E u \in DOMAIN t : t[u].key = k
    <3>1. PICK u \in DOMAIN t : t[u].key = k
      BY <2>1
    <3>2. u # s /\ u \in DOMAIN v /\ v[u] = t[u]
      BY <1>1, <1>4, <3>1
    <3>3. TotalIn(t, t[u].key) = t[u].count /\ TotalIn(v, v[u].key) = v[u].count
      BY <3>2, TotalOne DEF v
    <3> QED BY <1>2, <1>4, <3>1, <3>2, <3>3 DEF v
  <2>2. CASE ~\E u \in DOMAIN t : t[u].key = k
    <3>1. \A u \in DOMAIN v : v[u].key # k
      BY <1>1, <1>4, <2>2
    <3>2. TotalIn(v, k) = 0 /\ TotalIn(t, k) = 0
      BY <2>2, <3>1, TotalNone
    <3> QED BY <1>2, <1>4, <3>2 DEF v
  <2> QED BY <2>1, <2>2
<1> QED BY <1>3, <1>4

-----------------------------------------------------------------------------
(* rehash                                                                   *)

Tables(n) == UNION {[D -> Entry] : D \in SUBSET (0..n - 1)}

\* What Reinserted does for one slot i - 1 of the old buffer, for one buffer t.
PutRow(t, row, h) ==
  {IF s \in 0..h.n - 1 THEN Put(t, s, row) ELSE t : s \in {Slot(row.key, h, t, h.n)}}
MovedOf(A, i, h) ==
  IF i - 1 \in DOMAIN table THEN UNION {PutRow(t, table[i - 1], h) : t \in A} ELSE A
IsMoving(after, h) ==
  /\ after[0] = {NoSlots}
  /\ \A i \in 1..entryNum : after[i] = MovedOf(after[i - 1], i, h)

\* Putting a row into a buffer leaves it a buffer.
LEMMA PutTables ==
  ASSUME NEW n \in Nat, NEW t \in Tables(n), NEW s \in 0..n - 1, NEW row \in Entry
  PROVE  Put(t, s, row) \in Tables(n)
<1>1. PICK D \in SUBSET (0..n - 1) : t \in [D -> Entry]
  BY DEF Tables
<1>2. Put(t, s, row) \in [D \cup {s} -> Entry]
  BY <1>1 DEF Put
<1>3. D \cup {s} \in SUBSET (0..n - 1)
  OBVIOUS
<1> QED BY <1>2, <1>3 DEF Tables

\* The recursion that defines Reinserted has a solution.
LEMMA ReinsertedDef ==
  ASSUME NEW h, h.n \in Nat, entryNum \in Nat, IsTable(table, entryNum)
  PROVE  \E after : IsMoving(after, h) /\ Reinserted(h) = after[entryNum]
<1> DEFINE N == entryNum
           S == SUBSET Tables(h.n)
           base == {NoSlots}
           step == [i \in 1..N |-> [A \in S |-> MovedOf(A, i, h)]]
           def(g) == [i \in 0..N |-> IF i = 0 THEN base ELSE MovedOf(g[i - 1], i, h)]
           f == CHOOSE g : g = def(g)
<1>1. Reinserted(h) = f[N]
  <2> DEFINE put(t, row) ==
               {IF s \in 0..h.n-1 THEN Put(t, s, row) ELSE t : s \in {Slot(row.key, h, t, h.n)}}
             raw(g) == [i \in 0..N |->
                 IF i = 0 THEN {NoSlots}
                 ELSE IF i - 1 \in DOMAIN table
                        THEN UNION {put(t, table[i - 1]) : t \in g[i - 1]}
                 ELSE g[i - 1]]
  <2>1. Reinserted(h) = (CHOOSE g : g = raw(g))[N]
    BY Zenon DEF Reinserted
  <2>2. ASSUME NEW g PROVE raw(g) = def(g)
    BY Zenon DEF MovedOf, PutRow
  <2> HIDE DEF raw, def
  <2> QED BY <2>1, <2>2, Zenon
<1>2. NoSlots \in Tables(h.n)
  <2>1. NoSlots \in [{} -> Entry]
    BY DEF NoSlots
  <2> QED BY <2>1, Zenon DEF Tables
<1>3. ASSUME NEW A \in S, NEW i \in 1..N PROVE MovedOf(A, i, h) \in S
  <2>1. ASSUME NEW t \in A, i - 1 \in DOMAIN table, NEW v \in PutRow(t, table[i - 1], h)
        PROVE  v \in Tables(h.n)
    <3> DEFINE s == Slot(table[i - 1].key, h, t, h.n)
    <3>1. v = IF s \in 0..h.n - 1 THEN Put(t, s, table[i - 1]) ELSE t
      BY <2>1 DEF PutRow
    <3>2. table[i - 1] \in Entry /\ t \in Tables(h.n)
      BY <2>1 DEF IsTable
    <3> HIDE DEF s
    <3> QED BY <3>1, <3>2, PutTables
  <2>2. CASE i - 1 \in DOMAIN table
    BY <2>1, <2>2 DEF MovedOf
  <2>3. CASE i - 1 \notin DOMAIN table
    BY <2>3 DEF MovedOf
  <2> QED BY <2>2, <2>3
<1>4. step \in [1..N -> [S -> S]]
  <2> HIDE DEF S
  <2> QED BY <1>3
<1>5. base \in S
  BY <1>2
<1>6. PICK e : Follows(e, N, S, base, step)
  <2> HIDE DEF N, S, base, step
  <2>1. N \in Nat
    BY DEF N
  <2> QED BY <1>4, <1>5, <2>1, RecursionExists
<1> HIDE DEF S, base
<1>7. e = def(e)
  <2>1. ASSUME NEW i \in 0..N PROVE e[i] = def(e)[i]
    <3>1. CASE i = 0
      BY <1>6, <3>1 DEF Follows
    <3>2. CASE i # 0
      <4>1. i \in 1..N /\ i - 1 \in 0..N
        BY <3>2
      <4>2. e[i - 1] \in S
        BY <1>6, <4>1 DEF Follows
      <4>3. e[i] = step[i][e[i - 1]]
        BY <1>6, <4>1, Zenon DEF Follows
      <4>4. step[i][e[i - 1]] = MovedOf(e[i - 1], i, h)
        BY <4>1, <4>2, Zenon
      <4>5. def(e)[i] = MovedOf(e[i - 1], i, h)
        BY <3>2, Zenon
      <4> QED BY <4>3, <4>4, <4>5, Zenon
    <3> QED BY <3>1, <3>2
  <2> QED BY <1>6, <2>1 DEF Follows
<1>8. f = def(f)
  <2> HIDE DEF def
  <2> QED BY <1>7
<1> HIDE DEF f
<1>9. f[0] = base
  <2>1. 0 \in 0..N
    OBVIOUS
  <2> QED BY <1>8, <2>1, Zenon
<1>10. ASSUME NEW i \in 1..N PROVE f[i] = MovedOf(f[i - 1], i, h)
  <2>1. i \in 0..N /\ i # 0
    OBVIOUS
  <2> QED BY <1>8, <2>1, Zenon
<1>11. IsMoving(f, h)
  BY <1>9, <1>10 DEF IsMoving, base
<1> QED BY <1>1, <1>11

Below(i) == {s \in DOMAIN table : s < i}

\* The rows of the old slots below i are in the new buffer t.
MovedTo(t, i, h) ==
  /\ Sound(t, h, h.n)
  /\ \A s \in Below(i) : \E u \in DOMAIN t : t[u] = table[s]
  /\ \A u \in DOMAIN t : \E s \in Below(i) : t[u] = table[s]
  /\ IsFiniteSet(DOMAIN t) /\ Cardinality(DOMAIN t) = Cardinality(Below(i))

\* The hasher h can take all rows of the table.
Takes(h) ==
  /\ Fits(h, h.n) /\ \A s \in DOMAIN table : Hashable(table[s].key, h)
  /\ h.mode = "direct" => entryNum <= h.n

\* There are at most i rows in the first i slots.
LEMMA BelowType ==
  ASSUME entryNum \in Nat, IsTable(table, entryNum), NEW i \in 0..entryNum
  PROVE  IsFiniteSet(Below(i)) /\ Cardinality(Below(i)) \in 0..i
<1>1. Below(i) \in SUBSET (0..i - 1)
  BY DEF IsTable, Below
<1>2. IsFiniteSet(0..i - 1) /\ Cardinality(0..i - 1) = i
  BY FS_Interval
<1>3. IsFiniteSet(Below(i)) /\ Cardinality(Below(i)) <= Cardinality(0..i - 1)
  BY <1>1, <1>2, FS_Subset
<1>4. Cardinality(Below(i)) \in Nat
  BY <1>3, FS_CardinalityType
<1> QED BY <1>2, <1>3, <1>4

\* Reinserting one row into the new buffer leaves it with the rows of one slot more.
LEMMA MoveOne ==
  ASSUME entryNum \in Nat, IsTable(table, entryNum), OneRowPerKey(table), NEW h, Takes(h),
         NEW i \in 1..entryNum, i - 1 \in DOMAIN table, NEW t, MovedTo(t, i - 1, h)
  PROVE  \E v : PutRow(t, table[i - 1], h) = {v} /\ MovedTo(v, i, h)
<1> DEFINE row == table[i - 1]
           n == h.n
           s == Slot(row.key, h, t, n)
           v == Put(t, s, row)
<1>1. row \in Entry /\ row.key \in Keys /\ Hashable(row.key, h) /\ Fits(h, n) /\ Sound(t, h, n)
  BY DEF IsTable, Entry, Takes, MovedTo
<1>2. \A u \in DOMAIN t : t[u].key # row.key
  <2>1. TAKE u \in DOMAIN t
  <2>2. PICK x \in Below(i - 1) : t[u] = table[x]
    BY DEF MovedTo
  <2>3. x \in DOMAIN table /\ x # i - 1
    BY <2>2 DEF Below, IsTable
  <2> QED BY <2>2, <2>3 DEF OneRowPerKey
<1>3. /\ \/ s = -1 /\ h.mode = "direct" /\ DOMAIN t = 0..n - 1
         \/ s \in 0..n - 1
      /\ s \in DOMAIN t => t[s].key = row.key
  <2> HIDE DEF row, n
  <2> QED BY <1>1, SlotFinds
<1> HIDE DEF s
<1>4. s \notin DOMAIN t
  BY <1>2, <1>3
<1>5. n \in Nat \ {0}
  BY <1>1 DEF Fits
<1>6. s \in 0..n - 1 /\ s # -1
  <2>1. ASSUME s = -1 PROVE FALSE
    <3>1. h.mode = "direct" /\ DOMAIN t = 0..n - 1
      BY <1>3, <1>5, <2>1
    <3>2. Cardinality(DOMAIN t) = n
      <4> HIDE DEF n
      <4> QED BY <1>5, <3>1, FS_Interval
    <3>3. Cardinality(DOMAIN t) = Cardinality(Below(i - 1))
      BY DEF MovedTo
    <3>4. i - 1 \in 0..entryNum
      OBVIOUS
    <3>5. Cardinality(Below(i - 1)) \in 0..i - 1
      BY <3>4, BelowType
    <3>6. entryNum <= n
      BY <3>1 DEF Takes
    <3> QED BY <1>5, <3>2, <3>3, <3>5, <3>6
  <2> QED BY <1>3, <1>5, <2>1
<1>7. PutRow(t, row, h) = {v}
  BY <1>6 DEF PutRow, s
<1>8. Sound(v, h, n)
  <2> HIDE DEF row, n, v
  <2> QED BY <1>1, <1>6, PutSound DEF s, v
<1>9. DOMAIN v = DOMAIN t \cup {s} /\ v[s] = row /\ \A x \in DOMAIN t : x # s => v[x] = t[x]
  BY DEF Put
<1> HIDE DEF v
<1>10. Below(i) = Below(i - 1) \cup {i - 1} /\ i - 1 \notin Below(i - 1)
  BY DEF Below, IsTable
<1>11. \A x \in Below(i) : \E u \in DOMAIN v : v[u] = table[x]
  <2>1. TAKE x \in Below(i)
  <2>2. CASE x = i - 1
    BY <1>9, <2>2
  <2>3. CASE x \in Below(i - 1)
    <3>1. PICK u \in DOMAIN t : t[u] = table[x]
      BY <2>3 DEF MovedTo
    <3> QED BY <1>4, <1>9, <3>1
  <2> QED BY <1>10, <2>2, <2>3
<1>12. \A u \in DOMAIN v : \E x \in Below(i) : v[u] = table[x]
  <2>1. TAKE u \in DOMAIN v
  <2>2. CASE u = s
    BY <1>9, <1>10, <2>2
  <2>3. CASE u \in DOMAIN t
    <3>1. PICK x \in Below(i - 1) : t[u] = table[x]
      BY <2>3 DEF MovedTo
    <3> QED BY <1>4, <1>9, <1>10, <2>3, <3>1
  <2> QED BY <1>9, <2>2, <2>3
<1>13. IsFiniteSet(DOMAIN v) /\ Cardinality(DOMAIN v) = Cardinality(Below(i))
  <2>1. IsFiniteSet(DOMAIN t) /\ Cardinality(DOMAIN t) = Cardinality(Below(i - 1))
    BY DEF MovedTo
  <2>2. i - 1 \in 0..entryNum
    OBVIOUS
  <2>3. IsFiniteSet(Below(i - 1))
    BY <2>2, BelowType
  <2>4. IsFiniteSet(DOMAIN v) /\ Cardinality(DOMAIN v) = Cardinality(DOMAIN t) + 1
    BY <1>4, <1>9, <2>1, FS_AddElement
  <2>5. Cardinality(Below(i)) = Cardinality(Below(i - 1)) + 1
    BY <1>10, <2>3, FS_AddElement
  <2> QED BY <2>1, <2>4, <2>5
<1>14. MovedTo(v, i, h)
  BY <1>8, <1>11, <1>12, <1>13 DEF MovedTo
<1> QED BY <1>7, <1>14

\* rehash puts every row into the new buffer, each where its key hashes to.
LEMMA ReinsertedSound ==
  ASSUME entryNum \in Nat, IsTable(table, entryNum), OneRowPerKey(table), NEW h, Takes(h)
  PROVE  \E v : Reinserted(h) = {v} /\ MovedTo(v, entryNum, h)
<1>1. h.n \in Nat \ {0} /\ Fits(h, h.n)
  BY DEF Takes, Fits
<1>2. PICK after : IsMoving(after, h) /\ Reinserted(h) = after[entryNum]
  BY <1>1, ReinsertedDef
<1> DEFINE T == {i \in 0..entryNum : \E v : after[i] = {v} /\ MovedTo(v, i, h)}
<1>3. 0 \in T
  <2>1. after[0] = {NoSlots} /\ DOMAIN NoSlots = {} /\ NoSlots = [s \in {} |-> NoSlots[s]]
    BY <1>2 DEF IsMoving, NoSlots
  <2>2. Below(0) = {}
    BY DEF Below, IsTable
  <2>3. MovedTo(NoSlots, 0, h)
    BY <2>1, <2>2, FS_EmptySet DEF MovedTo, Sound, IsTable
  <2>4. 0 \in 0..entryNum
    OBVIOUS
  <2> QED BY <2>1, <2>3, <2>4
<1>4. ASSUME NEW i \in 1..entryNum, i - 1 \in T PROVE i \in T
  <2>1. PICK t : after[i - 1] = {t} /\ MovedTo(t, i - 1, h)
    BY <1>4
  <2>2. after[i] = MovedOf({t}, i, h) /\ i \in 0..entryNum
    BY <1>2, <2>1 DEF IsMoving
  <2>3. CASE i - 1 \in DOMAIN table
    <3>1. PICK v : PutRow(t, table[i - 1], h) = {v} /\ MovedTo(v, i, h)
      BY <2>1, <2>3, MoveOne
    <3>2. after[i] = {v}
      BY <2>2, <2>3, <3>1 DEF MovedOf
    <3> QED BY <2>2, <3>1, <3>2
  <2>4. CASE i - 1 \notin DOMAIN table
    <3>1. Below(i) = Below(i - 1)
      BY <2>4 DEF Below, IsTable
    <3>2. after[i] = {t} /\ MovedTo(t, i, h)
      BY <2>1, <2>2, <2>4, <3>1 DEF MovedOf, MovedTo
    <3> QED BY <2>2, <3>2
  <2> QED BY <2>3, <2>4
<1>5. \A i \in 0..entryNum : i \in T
  <2> HIDE DEF T
  <2> QED BY <1>3, <1>4, UpTo
<1>6. entryNum \in T
  <2>1. entryNum \in 0..entryNum
    OBVIOUS
  <2> QED BY <1>5, <2>1, Zenon
<1> QED BY <1>2, <1>6

\* The hasher h takes keys in wider ranges, within those of the type.
Wider(h) ==
  /\ Ranges(h.lo, h.hi)
  /\ \A c \in KeyCols : /\ TypeMin <= h.lo[c] /\ h.lo[c] <= lo[c]
                        /\ hi[c] <= h.hi[c] /\ h.hi[c] <= TypeMax

\* Wider ranges cover the keys the ranges covered.
LEMMA StillCovered ==
  ASSUME Ranges(lo, hi), NEW h, Wider(h), NEW k \in Keys, CoveredBy(k, lo, hi)
  PROVE  CoveredBy(k, h.lo, h.hi)
<1> SUFFICES ASSUME NEW c \in KeyCols, k[c] # Null PROVE h.lo[c] <= k[c] /\ k[c] <= h.hi[c]
  BY DEF CoveredBy, InRange
<1>1. k[c] \in Int
  BY AggAssumption DEF Keys
<1>2. /\ lo[c] \in Int /\ hi[c] \in Int /\ h.lo[c] \in Int /\ h.hi[c] \in Int
      /\ h.lo[c] <= lo[c] /\ hi[c] <= h.hi[c]
  BY DEF Ranges, Wider
<1>3. lo[c] <= k[c] /\ k[c] <= hi[c]
  BY DEF CoveredBy, InRange
<1> QED BY <1>1, <1>2, <1>3

-----------------------------------------------------------------------------
(* Counting the rows of a batch                                             *)

\* How often k is among the first m keys of a row.
Prefix(row, m, k) == {j \in 1..m : row[j] = k}
Part(row, m, k) == Cardinality(Prefix(row, m, k))

Places(b, k, R) == {w \in UNION {{i} \X DOMAIN b[i] : i \in R} : b[w[1]][w[2]] = k}
OccursIn(b, k, R) == Cardinality(Places(b, k, R))

\* The matches of a row that were passed are finitely many.
LEMMA PartType ==
  ASSUME NEW row, NEW m \in Nat, NEW k
  PROVE  IsFiniteSet(Prefix(row, m, k)) /\ Part(row, m, k) \in Nat /\ Part(row, 0, k) = 0
<1>1. Prefix(row, m, k) \in SUBSET (1..m) /\ IsFiniteSet(1..m)
  BY FS_Interval DEF Prefix
<1>2. Prefix(row, 0, k) = {}
  BY DEF Prefix
<1>3. IsFiniteSet(Prefix(row, m, k))
  BY <1>1, FS_Subset
<1> QED BY <1>2, <1>3, FS_CardinalityType, FS_EmptySet DEF Part

\* Passing one match more counts it for its key.
LEMMA PartStep ==
  ASSUME NEW row, NEW m \in Nat \ {0}, NEW k
  PROVE  Part(row, m, k) = Part(row, m - 1, k) + (IF row[m] = k THEN 1 ELSE 0)
<1>1. IsFiniteSet(Prefix(row, m - 1, k)) /\ Part(row, m - 1, k) \in Nat
  BY PartType
<1>2. CASE row[m] = k
  <2>1. Prefix(row, m, k) = Prefix(row, m - 1, k) \cup {m} /\ m \notin Prefix(row, m - 1, k)
    BY <1>2 DEF Prefix
  <2> QED BY <1>1, <1>2, <2>1, FS_AddElement DEF Part
<1>3. CASE row[m] # k
  <2>1. Prefix(row, m, k) = Prefix(row, m - 1, k)
    BY <1>3 DEF Prefix
  <2> QED BY <1>1, <1>3, <2>1 DEF Part
<1> QED BY <1>2, <1>3

\* A key occurs finitely often in a batch.
LEMMA PlacesFinite ==
  ASSUME NEW b \in Seq(Seq(Keys)), NEW k, NEW R \in SUBSET DOMAIN b
  PROVE  IsFiniteSet(Places(b, k, R)) /\ OccursIn(b, k, R) \in Nat
<1> DEFINE F == {{i} \X DOMAIN b[i] : i \in R}
           f == [i \in R |-> {i} \X DOMAIN b[i]]
<1>1. IsFiniteSet(R)
  <2>1. DOMAIN b = 1..Len(b) /\ Len(b) \in Nat
    OBVIOUS
  <2>2. IsFiniteSet(1..Len(b)) /\ R \in SUBSET (1..Len(b))
    BY <2>1, FS_Interval
  <2> QED BY <2>2, FS_Subset
<1>2. f \in Surjection(R, F)
  BY DEF Surjection
<1>3. IsFiniteSet(F)
  <2> HIDE DEF f, F
  <2> QED BY <1>1, <1>2, FS_Surjection
<1>4. ASSUME NEW T \in F PROVE IsFiniteSet(T)
  <2>1. PICK i \in R : T = {i} \X DOMAIN b[i]
    OBVIOUS
  <2>2. IsFiniteSet({i})
    BY FS_Singleton, Zenon
  <2>3. IsFiniteSet(DOMAIN b[i])
    <3>1. b[i] \in Seq(Keys)
      OBVIOUS
    <3>2. DOMAIN b[i] = 1..Len(b[i]) /\ Len(b[i]) \in Nat
      BY <3>1
    <3> QED BY <3>2, FS_Interval
  <2> QED BY <2>1, <2>2, <2>3, FS_Product, Zenon
<1>5. IsFiniteSet(UNION F)
  <2> HIDE DEF F
  <2> QED BY <1>3, <1>4, FS_UNION
<1>6. Places(b, k, R) \in SUBSET (UNION F)
  BY DEF Places
<1>7. IsFiniteSet(Places(b, k, R))
  <2> HIDE DEF F
  <2> QED BY <1>5, <1>6, FS_Subset
<1> QED BY <1>7, FS_CardinalityType DEF OccursIn

\* A further row adds what it contributes.
LEMMA OccursAdd ==
  ASSUME NEW b \in Seq(Seq(Keys)), NEW k, NEW R \in SUBSET DOMAIN b, NEW i \in DOMAIN b \ R
  PROVE  OccursIn(b, k, R \cup {i}) = OccursIn(b, k, R) + Part(b[i], Len(b[i]), k)
<1> DEFINE P == Prefix(b[i], Len(b[i]), k)
           W == Places(b, k, {i})
           f == [j \in P |-> <<i, j>>]
<1>1. b[i] \in Seq(Keys) /\ DOMAIN b[i] = 1..Len(b[i]) /\ Len(b[i]) \in Nat
  OBVIOUS
<1>2. IsFiniteSet(P)
  BY <1>1, PartType
<1>3. \A w : w \in W <=> \E j \in P : w = <<i, j>>
  BY <1>1 DEF Places, Prefix
<1>4. f \in [P -> W] /\ \A x, y \in P : f[x] = f[y] => x = y
  <2> HIDE DEF P, W
  <2> QED BY <1>3
<1>5. \A z \in W : \E x \in P : f[x] = z
  <2> HIDE DEF P, W
  <2> QED BY <1>3
<1>6. Cardinality(W) = Cardinality(P) /\ IsFiniteSet(W)
  <2> HIDE DEF P, W, f
  <2> QED BY <1>2, <1>4, <1>5, SameSize, Zenon
<1>7. Places(b, k, R \cup {i}) = Places(b, k, R) \cup W /\ Places(b, k, R) \cap W = {}
  BY DEF Places
<1>8. IsFiniteSet(Places(b, k, R))
  BY PlacesFinite
<1> HIDE DEF W
<1>9. Cardinality(Places(b, k, R) \cup W) = Cardinality(Places(b, k, R)) + Cardinality(W)
  BY <1>6, <1>7, <1>8, Disjoint, Zenon
<1> QED BY <1>6, <1>7, <1>9, Zenon DEF OccursIn, Part

\* In no row a key occurs not at all.
LEMMA OccursNone ==
  ASSUME NEW b, NEW k
  PROVE  OccursIn(b, k, {}) = 0
<1>1. Places(b, k, {}) = {}
  BY DEF Places
<1> QED BY <1>1, FS_EmptySet DEF OccursIn

-----------------------------------------------------------------------------
(* The invariant                                                            *)

Types ==
  /\ mode \in {"range", "direct"} /\ Ranges(lo, hi)
  /\ \A c \in KeyCols : TypeMin <= lo[c] /\ hi[c] <= TypeMax
  /\ dirty \in [KeyCols -> BOOLEAN] /\ needRehash \in BOOLEAN
  /\ entryNum \in 1..EntryLimit
  /\ batch \in Seq(Seq(Keys)) /\ mask \subseteq DOMAIN batch
  /\ pos \in 1..Len(batch) + 1
  /\ match \in Nat \ {0} /\ (match # 1 => AtMatch)
  /\ phase \in {"idle", "pass", "fetch", "done", "failed"}
  /\ phase \in {"idle", "fetch", "done"} => batch = <<>>
  /\ prior \in [Keys -> Nat] /\ redone \in [Keys -> Nat] /\ rehashes \in 0..2
  /\ iter \in Nat /\ out \in Seq(SUBSET Nat)

\* A direct table has the size of the limit from the start, and is never rehashed;
\* the ranges cover the keys of the table also while a rehash is due.
Lookup ==
  /\ IsTable(table, entryNum) /\ OneRowPerKey(table)
  /\ \A s \in DOMAIN table : Hashable(table[s].key, Hasher)
  /\ mode = "direct" => entryNum = EntryLimit /\ ~needRehash
  /\ ~needRehash => Fits(Hasher, entryNum) /\ Sound(table, Hasher, entryNum)

Single == \A i \in DOMAIN batch : Len(batch[i]) <= 1
Full == DOMAIN table = 0..EntryLimit - 1
Passed(i) == batch[i] # <<>> /\ Covered(batch[i][1])

\* A row that a pass in direct mode leaves found the table full.  In range mode the
\* ranges cover the rows that a pass leaves, and after the rehash none is left.
Passes ==
  /\ phase = "failed" => mode = "direct" /\ Full
  /\ phase = "pass" /\ mode = "direct" => \A i \in 1..pos - 1 : i \in mask \/ Full
  /\ phase = "pass" /\ Single =>
       /\ rehashes <= 1
       /\ mode = "range" =>
            /\ \A i \in 1..pos - 1 : i \in mask \/ Passed(i)
            /\ rehashes = 1 => /\ ~needRehash /\ 1..pos - 1 \subseteq mask
                               /\ \A i \in DOMAIN batch \ mask : Passed(i)

\* The chunks returned so far are the rows below the iterator.
Fetches ==
  /\ phase \in {"idle", "pass", "failed"} => out = <<>>
  /\ \A i, j \in DOMAIN out : i # j => out[i] \cap out[j] = {}
  /\ \A i \in DOMAIN out : out[i] = {} => DOMAIN table = {}
  /\ phase = "fetch" => Pending # {} \/ out = <<>>
  /\ phase = "done" => Pending = {}
  /\ phase \in {"fetch", "done"} =>
       UNION {out[i] : i \in DOMAIN out} = DOMAIN table \ Pending

IInv == Types /\ Lookup /\ Passes /\ Fetches /\ ExactlyOnce

-----------------------------------------------------------------------------
(* The hasher after a rehash                                                *)

\* updateHashMode yields a hasher for all rows of the table, within the limit.
LEMMA NewHasher ==
  ASSUME Types, Lookup, mode = "range"
  PROVE  LET h == UpdateHashMode
         IN  /\ h.mode \in {"range", "direct"} /\ h.n \in 1..EntryLimit
             /\ h.mode = "direct" => h.n = EntryLimit
             /\ Wider(h) /\ Takes(h)
<1> DEFINE new(c) == IF dirty[c] THEN Widened(c) ELSE [lo |-> lo[c], hi |-> hi[c]]
           l == [c \in KeyCols |-> new(c).lo]
           r == [c \in KeyCols |-> new(c).hi]
           tooWide == \E c \in KeyCols :
                        (dirty[c] /\ Exceeds(hi[c] - lo[c])) \/ Exceeds(r[c] - l[c])
           expect == Slots(l, r)[Cols]
           D == [mode |-> "direct", lo |-> lo, hi |-> hi, n |-> EntryLimit]
           R == [mode |-> "range", lo |-> l, hi |-> r, n |-> expect]
           h == UpdateHashMode
<1>1. h = IF tooWide \/ expect > EntryLimit THEN D ELSE R
  <2>1. mode # "direct"
    OBVIOUS
  <2> QED BY <2>1, Zenon DEF UpdateHashMode
<1>2. EntryLimit \in Nat \ {0, 1} /\ TypeMin \in Int /\ TypeMax \in Int
  BY AggAssumption
<1>3. ASSUME NEW c \in KeyCols
      PROVE  /\ new(c).lo \in Int /\ TypeMin <= new(c).lo /\ new(c).lo <= lo[c]
             /\ new(c).hi \in Int /\ hi[c] <= new(c).hi /\ new(c).hi <= TypeMax
  <2>1. /\ lo[c] \in Int /\ hi[c] \in Int /\ lo[c] <= hi[c] + 1
        /\ TypeMin <= lo[c] /\ hi[c] <= TypeMax
    BY DEF Types, Ranges
  <2> DEFINE reserve == (hi[c] - lo[c] + 1) \div 4
  <2>2. reserve \in Nat
    BY <2>1
  <2>3. Widened(c) = [lo |-> IF TypeMin + reserve > lo[c] THEN TypeMin ELSE lo[c] - reserve,
                      hi |-> IF TypeMax - reserve < hi[c] THEN TypeMax ELSE hi[c] + reserve]
    BY Zenon DEF Widened
  <2> HIDE DEF reserve
  <2>4. CASE dirty[c]
    <3>1. new(c) = Widened(c)
      BY <2>4
    <3>2. /\ Widened(c).lo = IF TypeMin + reserve > lo[c] THEN TypeMin ELSE lo[c] - reserve
          /\ Widened(c).hi = IF TypeMax - reserve < hi[c] THEN TypeMax ELSE hi[c] + reserve
      BY <2>3
    <3> HIDE DEF new
    <3> QED BY <1>2, <2>1, <2>2, <3>1, <3>2
  <2>5. CASE ~dirty[c]
    BY <2>1, <2>5
  <2> QED BY <2>4, <2>5, ZenonT(30)
<1> HIDE DEF new
<1>4. /\ Ranges(lo, hi) /\ entryNum \in 1..EntryLimit
      /\ \A c \in KeyCols : TypeMin <= lo[c] /\ hi[c] <= TypeMax
  BY DEF Types
<1>5. \A s \in DOMAIN table : table[s].key \in Keys /\ CoveredBy(table[s].key, lo, hi)
  BY DEF Lookup, Hashable, Hasher, IsTable, Entry
<1>6. Wider(R) /\ Ranges(l, r)
  <2>1. R.lo = l /\ R.hi = r
    OBVIOUS
  <2>2. ASSUME NEW c \in KeyCols
        PROVE  /\ l[c] = new(c).lo /\ r[c] = new(c).hi
               /\ lo[c] \in Int /\ hi[c] \in Int /\ lo[c] <= hi[c] + 1
    BY <1>4 DEF Ranges
  <2>3. Ranges(l, r)
    <3>1. l \in [KeyCols -> Int] /\ r \in [KeyCols -> Int]
      BY <1>3
    <3> HIDE DEF l, r
    <3> QED BY <1>3, <2>2, <3>1 DEF Ranges
  <2> HIDE DEF R, l, r
  <2> QED BY <1>3, <2>1, <2>2, <2>3 DEF Wider
<1>7. CASE tooWide \/ expect > EntryLimit
  <2>1. h = D
    BY <1>1, <1>7
  <2>2. D.mode = "direct" /\ D.lo = lo /\ D.hi = hi /\ D.n = EntryLimit
    OBVIOUS
  <2> HIDE DEF h, D
  <2>3. Wider(D)
    BY <1>4, <2>2 DEF Wider, Ranges
  <2>4. Takes(D)
    BY <1>2, <1>4, <2>2 DEF Takes, Fits, Hashable
  <2> QED BY <1>2, <2>1, <2>2, <2>3, <2>4 DEF h
<1>8. CASE ~(tooWide \/ expect > EntryLimit)
  <2>1. h = R
    BY <1>1, <1>8
  <2>2. R.mode = "range" /\ R.lo = l /\ R.hi = r /\ R.n = expect
    OBVIOUS
  <2>3. expect \in Nat \ {0}
    <3> HIDE DEF l, r
    <3>1. IsSlots(Slots(l, r), l, r)
      BY <1>6, SlotsDef
    <3> QED BY <3>1, ColsType DEF IsSlots
  <2>4. expect \in 1..EntryLimit
    <3> HIDE DEF expect, tooWide
    <3> QED BY <1>2, <1>8, <2>3
  <2>5. Fits(R, R.n)
    <3> HIDE DEF l, r, R
    <3> QED BY <1>6, <2>2, <2>3 DEF Fits
  <2>6. Takes(R)
    <3> HIDE DEF l, r, R, expect
    <3>1. ASSUME NEW s \in DOMAIN table PROVE Hashable(table[s].key, R)
      BY <1>4, <1>5, <1>6, StillCovered DEF Hashable
    <3> QED BY <2>2, <2>5, <3>1 DEF Takes
  <2> HIDE DEF R, expect, h
  <2> QED BY <1>6, <2>1, <2>2, <2>4, <2>6 DEF h
<1> QED BY <1>7, <1>8

\* Only the mode and the ranges of a hasher matter.
LEMMA SameHasher ==
  ASSUME NEW g, NEW h, g.mode = h.mode, g.lo = h.lo, g.hi = h.hi, NEW t, NEW n
  PROVE  /\ Fits(g, n) <=> Fits(h, n)
         /\ Sound(t, g, n) <=> Sound(t, h, n)
<1>1. ASSUME NEW k PROVE Slot(k, g, t, n) = Slot(k, h, t, n) /\ (Hashable(k, g) <=> Hashable(k, h))
  BY DEF Slot, Hashable
<1> QED BY <1>1 DEF Fits, Sound

\* What rehash does to a table in range mode.
LEMMA RehashTable ==
  ASSUME Types, Lookup, mode = "range", Rehash
  PROVE  /\ mode' \in {"range", "direct"} /\ entryNum' \in 1..EntryLimit
         /\ mode' = "direct" => entryNum' = EntryLimit
         /\ Wider([lo |-> lo', hi |-> hi'])
         /\ Fits(Hasher', entryNum') /\ Sound(table', Hasher', entryNum')
         /\ \A k \in Keys : TotalIn(table', k) = TotalIn(table, k)
         /\ phase' = "pass"
<1> DEFINE h == UpdateHashMode
<1>1. PICK t \in Reinserted(h) :
        /\ mode' = h.mode /\ lo' = h.lo /\ hi' = h.hi /\ entryNum' = h.n /\ table' = t
        /\ phase' = IF Cardinality(DOMAIN t) = Cardinality(DOMAIN table) THEN "pass" ELSE "broken"
  BY Zenon DEF Rehash
<1>2. /\ h.mode \in {"range", "direct"} /\ h.n \in 1..EntryLimit
      /\ h.mode = "direct" => h.n = EntryLimit
      /\ Wider(h) /\ Takes(h)
  BY NewHasher
<1> HIDE DEF h
<1>3. IsTable(table, entryNum) /\ OneRowPerKey(table) /\ entryNum \in Nat
  <2>1. IsTable(table, entryNum) /\ OneRowPerKey(table) /\ entryNum \in 1..EntryLimit
    BY Zenon DEF Lookup, Types
  <2> QED BY <2>1
<1>4. MovedTo(t, entryNum, h)
  <2>1. PICK v : Reinserted(h) = {v} /\ MovedTo(v, entryNum, h)
    BY <1>2, <1>3, ReinsertedSound
  <2> QED BY <2>1
<1>5. Below(entryNum) = DOMAIN table
  BY <1>3 DEF Below, IsTable
<1>6. Fits(h, h.n) /\ Sound(t, h, h.n)
  BY <1>2, <1>4, Zenon DEF Takes, MovedTo
<1>7. Hasher'.mode = h.mode /\ Hasher'.lo = h.lo /\ Hasher'.hi = h.hi
  BY <1>1 DEF Hasher
<1>8. Fits(Hasher', entryNum') /\ Sound(table', Hasher', entryNum')
  BY <1>1, <1>6, <1>7, SameHasher
<1>9. \A k \in Keys : TotalIn(table', k) = TotalIn(table, k)
  <2>1. IsTable(t, h.n) /\ OneRowPerKey(t)
    BY <1>6, SoundUnique DEF Sound
  <2>2. /\ \A s \in DOMAIN table : \E u \in DOMAIN t : t[u] = table[s]
        /\ \A u \in DOMAIN t : \E s \in DOMAIN table : t[u] = table[s]
    BY <1>4, <1>5 DEF MovedTo
  <2> QED BY <1>1, <1>3, <2>1, <2>2, TotalSame
<1>10. phase' = "pass"
  BY <1>1, <1>4, <1>5 DEF MovedTo
<1>11. Wider([lo |-> lo', hi |-> hi'])
  BY <1>1, <1>2 DEF Wider
<1> QED BY <1>1, <1>2, <1>8, <1>9, <1>10, <1>11

\* The count of rehashes stops at two.
LEMMA MinTwo ==
  ASSUME NEW r \in 0..2
  PROVE  Min({r + 1, 2}) \in 0..2 /\ (r = 0 => Min({r + 1, 2}) = 1)
<1> DEFINE T == {r + 1, 2}
<1>1. Min(T) \in T /\ \A y \in T : Min(T) <= y
  <2>1. T \in SUBSET Nat /\ T # {}
    OBVIOUS
  <2> HIDE DEF T
  <2> QED BY <2>1, MinIs
<1> DEFINE m == Min(T)
<1> HIDE DEF m
<1>2. m \in {r + 1, 2} /\ m <= r + 1 /\ m <= 2
  BY <1>1 DEF m
<1>3. m \in 0..2 /\ (r = 0 => m = 1)
  BY <1>2
<1> QED BY <1>3 DEF m

\* rangeHash on a key outside the ranges widens them to it.
LEMMA GrownWider ==
  ASSUME Types, NEW k \in Keys
  PROVE  Wider(Grown(k)) /\ CoveredBy(k, Grown(k).lo, Grown(k).hi)
<1> DEFINE g == Grown(k)
<1>1. g.lo = [c \in KeyCols |-> IF k[c] # Null /\ k[c] < lo[c] THEN k[c] ELSE lo[c]]
  BY DEF Grown
<1>2. g.hi = [c \in KeyCols |-> IF k[c] # Null /\ k[c] > hi[c] THEN k[c] ELSE hi[c]]
  BY DEF Grown
<1> HIDE DEF g
<1>3. ASSUME NEW c \in KeyCols
      PROVE  /\ g.lo[c] \in Int /\ g.hi[c] \in Int /\ g.lo[c] <= g.hi[c] + 1
             /\ TypeMin <= g.lo[c] /\ g.lo[c] <= lo[c] /\ hi[c] <= g.hi[c] /\ g.hi[c] <= TypeMax
             /\ InRange(k[c], g.lo[c], g.hi[c])
  <2>1. /\ lo[c] \in Int /\ hi[c] \in Int /\ lo[c] <= hi[c] + 1
        /\ TypeMin <= lo[c] /\ hi[c] <= TypeMax
    BY DEF Types, Ranges
  <2>2. TypeMin \in Int /\ TypeMax \in Int /\ (k[c] = Null \/ k[c] \in TypeMin..TypeMax)
    BY AggAssumption DEF Keys
  <2>3. /\ g.lo[c] = IF k[c] # Null /\ k[c] < lo[c] THEN k[c] ELSE lo[c]
        /\ g.hi[c] = IF k[c] # Null /\ k[c] > hi[c] THEN k[c] ELSE hi[c]
    BY <1>1, <1>2
  <2>4. CASE k[c] = Null
    BY <2>1, <2>3, <2>4 DEF InRange
  <2>5. CASE k[c] # Null
    BY <2>1, <2>2, <2>3, <2>5 DEF InRange
  <2> QED BY <2>4, <2>5
<1>4. Ranges(g.lo, g.hi)
  <2>1. g.lo \in [KeyCols -> Int] /\ g.hi \in [KeyCols -> Int]
    BY <1>1, <1>2, <1>3
  <2> QED BY <1>3, <2>1 DEF Ranges
<1> QED BY <1>3, <1>4 DEF Wider, CoveredBy, g

-----------------------------------------------------------------------------
(* What the steps have in common                                            *)

\* ExactlyOnce in terms of the operators above.
Counted ==
  \A k \in Keys :
    TotalIn(table, k) = prior[k] + OccursIn(batch, k, mask) + InProgress(k) + redone[k]

\* ExactlyOnce in terms of tables and batches.
LEMMA CountedIs == ExactlyOnce <=> Counted
<1>1. ASSUME NEW k PROVE Total(k) = TotalIn(table, k)
  BY Zenon DEF Total, TotalIn
<1>2. ASSUME NEW k PROVE Occurrences(k, mask) = OccursIn(batch, k, mask)
  BY Zenon DEF Occurrences, OccursIn, Places
<1> QED BY <1>1, <1>2, Zenon DEF ExactlyOnce, Counted

\* The same after a step.
LEMMA CountedNext == ExactlyOnce' <=> Counted'
  BY CountedIs, PTL

\* What is counted of the row at pos: the matches before match, while it is in progress.
LEMMA InProgressIs ==
  ASSUME Types, NEW k
  PROVE  /\ InProgress(k) \in Nat
         /\ ~AtMatch => InProgress(k) = 0
         /\ AtMatch => InProgress(k) = Part(batch[pos], match - 1, k)
<1>1. match - 1 \in Nat /\ (~AtMatch => match = 1)
  BY DEF Types
<1>2. InProgress(k) = IF InPass /\ pos \notin mask THEN Part(batch[pos], match - 1, k) ELSE 0
  BY Zenon DEF InProgress, Part, Prefix
<1>3. Part(batch[pos], match - 1, k) \in Nat /\ Part(batch[pos], 0, k) = 0
  BY <1>1, PartType
<1>4. CASE AtMatch
  BY <1>2, <1>3, <1>4 DEF AtMatch
<1>5. CASE ~AtMatch
  BY <1>1, <1>2, <1>3, <1>5
<1> QED BY <1>4, <1>5

\* A row that begins, or a pass that has ended, has nothing in progress.
LEMMA InProgressNext ==
  ASSUME match' = 1 \/ phase' # "pass", NEW k
  PROVE  InProgress(k)' = 0
<1>1. CASE match' = 1
  <2>1. {j \in 1..match' - 1 : batch'[pos'][j] = k} = {}
    BY <1>1
  <2>2. Cardinality({j \in 1..match' - 1 : batch'[pos'][j] = k}) = 0
    BY <2>1, FS_EmptySet
  <2> QED BY <2>2, Zenon DEF InProgress
<1>2. CASE phase' # "pass"
  BY <1>2, Zenon DEF InProgress, InPass
<1> QED BY <1>1, <1>2

\* Covered in terms of the ranges.
LEMMA CoveredIs ==
  ASSUME NEW k PROVE Covered(k) <=> CoveredBy(k, lo, hi)
  BY DEF Covered, CoveredBy

\* A step that leaves the table and the hasher alone keeps Lookup.
LEMMA LookupKept ==
  ASSUME Lookup, UNCHANGED <<hasherVars, entryNum, table>>
  PROVE  Lookup'
<1>1. UNCHANGED <<mode, lo, hi, needRehash, entryNum, table>> /\ Hasher' = Hasher
  BY DEF hasherVars, Hasher
<1> QED BY <1>1, Zenon DEF Lookup

\* Before the results are fetched there are none.
LEMMA FetchesNone ==
  ASSUME phase' \in {"idle", "pass", "failed"}, out' = <<>>
  PROVE  Fetches'
<1>1. DOMAIN out' = {}
  OBVIOUS
<1> QED BY <1>1 DEF Fetches

\* The row iterator stands at the first row of those left, or at the end.
LEMMA IteratorAt ==
  ASSUME NEW n \in Nat, NEW R \in SUBSET (0..n - 1)
  PROVE  /\ Min(R \cup {n}) \in R \cup {n} /\ Min(R \cup {n}) \in Nat
         /\ \A s \in R : Min(R \cup {n}) <= s
<1> DEFINE T == R \cup {n}
<1>1. T \in SUBSET Nat /\ T # {} /\ R \subseteq T
  OBVIOUS
<1>2. Min(T) \in T /\ \A y \in T : Min(T) <= y
  <2> HIDE DEF T
  <2> QED BY <1>1, MinIs
<1> QED BY <1>1, <1>2, Zenon

\* The rows of one output batch.
Chunk == {s \in Pending : Cardinality({r \in Pending : r < s}) < MaxRow}

\* fetchResults returns the first rows of those left, and some when there are any.
LEMMA ChunkFirst ==
  ASSUME Types, Lookup
  PROVE  /\ Pending \in SUBSET (0..entryNum - 1) /\ Chunk \in SUBSET Pending
         /\ \A s \in Chunk, r \in Pending \ Chunk : s < r
         /\ Chunk = {} => Pending = {}
<1> DEFINE before(s) == {r \in Pending : r < s}
<1>1. Pending \in SUBSET (0..entryNum - 1) /\ entryNum \in Nat
  BY DEF Pending, Lookup, IsTable, Types
<1>2. IsFiniteSet(Pending)
  <2>1. IsFiniteSet(0..entryNum - 1)
    BY <1>1, FS_Interval
  <2> QED BY <1>1, <2>1, FS_Subset, Zenon
<1>3. ASSUME NEW s PROVE IsFiniteSet(before(s)) /\ Cardinality(before(s)) \in Nat
  <2>1. before(s) \in SUBSET Pending
    OBVIOUS
  <2> HIDE DEF before
  <2>2. IsFiniteSet(before(s))
    BY <1>2, <2>1, FS_Subset
  <2> QED BY <2>2, FS_CardinalityType
<1>4. \A s : s \in Chunk <=> s \in Pending /\ Cardinality(before(s)) < MaxRow
  BY Zenon DEF Chunk
<1>5. MaxRow \in Nat \ {0} /\ \A s \in Pending : s \in Int
  BY <1>1, AggAssumption
<1>6. ASSUME NEW s \in Chunk, NEW r \in Pending \ Chunk PROVE s < r
  <2>1. s \in Int /\ r \in Int
    BY <1>5 DEF Chunk
  <2>2. ASSUME r <= s PROVE FALSE
    <3>1. before(r) \in SUBSET before(s)
      <4>1. ASSUME NEW x \in Pending, x < r PROVE x < s
        <5>1. x \in Int
          BY <1>5
        <5> QED BY <2>1, <2>2, <4>1, <5>1
      <4> QED BY <4>1
    <3> HIDE DEF before
    <3>2. Cardinality(before(r)) <= Cardinality(before(s))
      BY <1>3, <3>1, FS_Subset
    <3>3. Cardinality(before(s)) < MaxRow /\ ~(Cardinality(before(r)) < MaxRow)
      BY <1>4
    <3>4. Cardinality(before(s)) \in Nat /\ Cardinality(before(r)) \in Nat
      BY <1>3
    <3> QED BY <1>5, <3>2, <3>3, <3>4
  <2> QED BY <2>1, <2>2
<1>7. ASSUME Pending # {} PROVE Chunk # {}
  <2>1. PICK x \in Pending : \A y \in Pending : x <= y
    <3>1. Pending \in SUBSET Nat
      BY <1>1
    <3> QED BY <1>7, <3>1, LeastNat
  <2>2. before(x) = {}
    BY <1>5, <2>1
  <2>3. Cardinality(before(x)) = 0
    BY <2>2, FS_EmptySet
  <2> HIDE DEF before
  <2> QED BY <1>4, <1>5, <2>1, <2>3
<1>8. Chunk \in SUBSET Pending
  BY DEF Chunk
<1> QED BY <1>1, <1>6, <1>7, <1>8, Zenon
===============================================================================
