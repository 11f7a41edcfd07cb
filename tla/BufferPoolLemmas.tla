-------------------------- MODULE BufferPoolLemmas --------------------------
(***************************************************************************)
(* Lemmas about the operators of BufferMgr on a pool: the segments of one  *)
(* slab, the slabs together, and findFreeBuffer, which takes a free        *)
(* segment, adds a slab or evicts what nobody has pinned.                  *)
(***************************************************************************)
EXTENDS BufferMgr, BasicLemmas

\* How long the provers may take for a step, in seconds.
USE SMTT(30), ZenonT(30)

Segment == [start : Nat, num : Nat, key : Keys \cup {None}]

\* Each segment starts where the one before ends, and of two neighbours one is used.
Chained(segs) ==
  \A i \in 1..Len(segs) - 1 :
    /\ segs[i + 1].start = segs[i].start + segs[i].num
    /\ ~(IsFree(segs[i]) /\ IsFree(segs[i + 1]))

\* A used segment has pages; a free one may have none, when a buffer took them all.
Held(segs) == \A i \in DOMAIN segs : IsFree(segs[i]) \/ segs[i].num > 0

Slab(segs) ==
  /\ segs \in Seq(Segment) /\ segs # <<>> /\ segs[1].start = 0
  /\ Chained(segs) /\ Held(segs)

End(segs) == segs[Len(segs)].start + segs[Len(segs)].num

\* The used segments of a slab.
Usage(segs) == {x \in {segs[i] : i \in DOMAIN segs} : ~IsFree(x)}

-----------------------------------------------------------------------------
(* Sums                                                                     *)

\* g has the sums of the first elements of s.
IsSum(s, g) ==
  /\ g \in [0..Len(s) -> Int] /\ g[0] = 0
  /\ \A i \in 1..Len(s) : g[i] = g[i - 1] + s[i]

\* The recursion that defines SumOf has a solution.
LEMMA SumDef ==
  ASSUME NEW s \in Seq(Int)
  PROVE  \E g : IsSum(s, g) /\ SumOf(s) = g[Len(s)]
<1> DEFINE n == Len(s)
           step == [i \in 1..n |-> [k \in Int |-> k + s[i]]]
           def(g) == [i \in 0..n |-> IF i = 0 THEN 0 ELSE g[i - 1] + s[i]]
           f == CHOOSE g : g = def(g)
           S == Int
           base == 0
<1>1. n \in Nat /\ \A i \in 1..n : s[i] \in Int
  OBVIOUS
<1>2. SumOf(s) = f[n]
  BY DEF SumOf
<1>3. base \in S /\ step \in [1..n -> [S -> S]]
  BY <1>1
<1>4. PICK e : Follows(e, n, S, base, step)
  <2> HIDE DEF n, S, base, step
  <2> QED BY <1>1, <1>3, RecursionExists
<1>5. e = def(e)
  <2>1. e \in [0..n -> Int] /\ e[0] = 0
    BY <1>4 DEF Follows
  <2>2. \A i \in 1..n : e[i] = step[i][e[i - 1]]
    BY <1>4 DEF Follows
  <2>3. \A i \in 1..n : i - 1 \in 0..n /\ e[i - 1] \in Int
    BY <2>1, <1>1
  <2>4. \A i \in 1..n : e[i] = e[i - 1] + s[i]
    BY <2>2, <2>3, <1>1, Zenon
  <2>5. \A i \in 0..n : e[i] = IF i = 0 THEN 0 ELSE e[i - 1] + s[i]
    BY <2>1, <2>4, <1>1
  <2> QED BY <2>1, <2>5
<1>6. f = def(f)
  <2> HIDE DEF def
  <2> QED BY <1>5
<1>7. f[0] = 0 /\ \A i \in 1..n : f[i] = f[i - 1] + s[i]
  <2> HIDE DEF f, n
  <2>1. \A i \in 0..n : f[i] = IF i = 0 THEN 0 ELSE f[i - 1] + s[i]
    BY <1>6, Zenon
  <2>2. 0 \in 0..n /\ \A i \in 1..n : i \in 0..n /\ i # 0
    BY <1>1
  <2> QED BY <2>1, <2>2, Zenon
<1>8. \A i \in 0..n : f[i] \in Int
  <2> DEFINE T == {i \in 0..n : f[i] \in Int}
  <2> HIDE DEF f
  <2>1. 0 \in T
    BY <1>7, <1>1
  <2>2. \A i \in 1..n : i - 1 \in T => i \in T
    BY <1>7, <1>1
  <2>3. \A i \in 0..n : i \in T
    <3> HIDE DEF T, n
    <3> QED BY <1>1, <2>1, <2>2, UpTo, Zenon
  <2> QED BY <2>3
<1>9. f \in [0..n -> Int]
  <2>1. f = [i \in 0..n |-> f[i]]
    <3> HIDE DEF f
    <3> QED BY <1>6
  <2> HIDE DEF f
  <2> QED BY <2>1, <1>8
<1> QED
  <2> HIDE DEF f
  <2> QED BY <1>2, <1>7, <1>9 DEF IsSum

\* The sums of the first elements are what they have to be.
LEMMA SumIs ==
  ASSUME NEW s \in Seq(Int), NEW g, IsSum(s, g)
  PROVE  SumOf(s) = g[Len(s)]
<1>1. PICK h : IsSum(s, h) /\ SumOf(s) = h[Len(s)]
  BY SumDef
<1> DEFINE n == Len(s)
           T == {i \in 0..n : g[i] = h[i]}
<1>2. n \in Nat
  OBVIOUS
<1>3. 0 \in T
  BY <1>1, <1>2 DEF IsSum
<1>4. \A i \in 1..n : i - 1 \in T => i \in T
  BY <1>1, <1>2 DEF IsSum
<1>5. \A i \in 0..n : i \in T
  <2> HIDE DEF T, n
  <2> QED BY <1>2, <1>3, <1>4, UpTo, Zenon
<1> QED BY <1>1, <1>2, <1>5

\* A further element is added to the sum.
LEMMA SumAppend ==
  ASSUME NEW s \in Seq(Int), NEW x \in Int
  PROVE  SumOf(Append(s, x)) = SumOf(s) + x
<1>1. PICK g : IsSum(s, g) /\ SumOf(s) = g[Len(s)]
  BY SumDef
<1> DEFINE n == Len(s)
           t == Append(s, x)
           h == [i \in 0..n + 1 |-> IF i = n + 1 THEN g[n] + x ELSE g[i]]
<1>2. /\ n \in Nat /\ t \in Seq(Int) /\ Len(t) = n + 1 /\ t[n + 1] = x
      /\ \A i \in 1..n : t[i] = s[i]
  OBVIOUS
<1>3. g \in [0..n -> Int] /\ g[0] = 0 /\ \A i \in 1..n : g[i] = g[i - 1] + s[i]
  BY <1>1 DEF IsSum
<1>4. IsSum(t, h)
  <2>1. h \in [0..n + 1 -> Int] /\ h[0] = 0
    BY <1>2, <1>3
  <2>2. ASSUME NEW i \in 1..n + 1 PROVE h[i] = h[i - 1] + t[i]
    <3>1. CASE i = n + 1
      BY <3>1, <1>2, <1>3
    <3>2. CASE i # n + 1
      <4>1. i \in 1..n /\ i - 1 \in 0..n
        BY <3>2, <1>2
      <4> QED BY <4>1, <1>2, <1>3
    <3> QED BY <3>1, <3>2
  <2> HIDE DEF h, t
  <2> QED BY <2>1, <2>2, <1>2 DEF IsSum
<1>5. SumOf(t) = h[Len(t)]
  <2> HIDE DEF h, t
  <2> QED BY <1>2, <1>4, SumIs
<1> QED BY <1>1, <1>2, <1>5

-----------------------------------------------------------------------------
(* The segments of a slab                                                   *)

\* Types of a slab's segments.
LEMMA SlabType ==
  ASSUME NEW segs, Slab(segs)
  PROVE  /\ segs \in Seq(Segment) /\ Len(segs) \in Nat \ {0} /\ DOMAIN segs = 1..Len(segs)
         /\ \A i \in 1..Len(segs) : /\ segs[i] \in Segment
                                    /\ segs[i].start \in Nat /\ segs[i].num \in Nat
                                    /\ segs[i].key \in Keys \cup {None}
         /\ End(segs) \in Nat
<1>1. segs \in Seq(Segment) /\ segs # <<>>
  BY DEF Slab
<1>2. Len(segs) \in Nat \ {0} /\ DOMAIN segs = 1..Len(segs)
  BY <1>1
<1>3. \A i \in 1..Len(segs) : segs[i] \in Segment
  BY <1>1
<1>4. \A x \in Segment : x.start \in Nat /\ x.num \in Nat /\ x.key \in Keys \cup {None}
  BY DEF Segment
<1> QED BY <1>1, <1>2, <1>3, <1>4 DEF End

\* A segment starts after all earlier ones.
LEMMA StartsGrow ==
  ASSUME NEW segs, Slab(segs), NEW i \in 1..Len(segs), NEW j \in 1..Len(segs), i < j
  PROVE  segs[i].start + segs[i].num <= segs[j].start
<1> DEFINE n == Len(segs)
           T == {m \in 0..n : \A l \in 1..n : l < m => segs[l].start + segs[l].num <= segs[m].start}
<1>1. /\ n \in Nat \ {0} /\ n \in Nat
      /\ \A m \in 1..n : segs[m].start \in Nat /\ segs[m].num \in Nat
  BY SlabType
<1>2. 0 \in T
  BY <1>1
<1>3. ASSUME NEW m \in 1..n, m - 1 \in T PROVE m \in T
  <2> SUFFICES ASSUME NEW l \in 1..n, l < m PROVE segs[l].start + segs[l].num <= segs[m].start
    BY <1>1
  <2>1. m - 1 \in 1..n - 1 /\ m - 1 \in 1..n /\ (m - 1) + 1 = m
    BY <1>1
  <2>2. segs[(m - 1) + 1].start = segs[m - 1].start + segs[m - 1].num
    BY <2>1 DEF Slab, Chained
  <2>3. segs[m].start = segs[m - 1].start + segs[m - 1].num
    BY <2>1, <2>2
  <2>4. CASE l = m - 1
    BY <2>3, <2>4, <1>1
  <2>5. CASE l < m - 1
    <3>1. segs[l].start + segs[l].num <= segs[m - 1].start
      BY <2>5, <1>3
    <3>2. segs[m - 1].start \in Nat /\ segs[m - 1].num \in Nat /\ segs[l].start \in Nat /\ segs[l].num \in Nat
      BY <2>1, <1>1
    <3> HIDE DEF T, n
    <3> QED BY <3>1, <3>2, <2>3
  <2> QED BY <2>4, <2>5, <1>1
<1>4. \A m \in 0..n : m \in T
  <2> HIDE DEF T, n
  <2> QED BY <1>1, <1>2, <1>3, UpTo, Zenon
<1> QED BY <1>4, <1>1

\* Every segment ends within its slab.
LEMMA EndsWithin ==
  ASSUME NEW segs, Slab(segs), NEW i \in 1..Len(segs)
  PROVE  segs[i].start + segs[i].num <= End(segs)
<1>1. /\ Len(segs) \in 1..Len(segs)
      /\ \A m \in 1..Len(segs) : segs[m].start \in Nat /\ segs[m].num \in Nat
  BY SlabType
<1>2. CASE i = Len(segs)
  BY <1>1, <1>2 DEF End
<1>3. CASE i < Len(segs)
  <2>1. segs[i].start + segs[i].num <= segs[Len(segs)].start
    BY <1>1, <1>3, StartsGrow
  <2>2. /\ segs[i].start \in Nat /\ segs[i].num \in Nat
        /\ segs[Len(segs)].start \in Nat /\ segs[Len(segs)].num \in Nat
    BY <1>1
  <2> QED BY <2>1, <2>2 DEF End
<1> QED BY <1>1, <1>2, <1>3

\* The sum of the pages of a run of segments is the distance from its start to its end.
LEMMA PagesIs ==
  ASSUME NEW segs, Slab(segs), NEW i \in 1..Len(segs), NEW j \in i - 1..Len(segs)
  PROVE  Pages(segs, i, j) = IF j < i THEN 0 ELSE segs[j].start + segs[j].num - segs[i].start
<1> DEFINE m == j - i + 1
           s == [l \in 1..m |-> segs[i + l - 1].num]
           g == [l \in 0..m |-> IF l = 0 THEN 0
                   ELSE segs[i + l - 1].start + segs[i + l - 1].num - segs[i].start]
<1>1. /\ Len(segs) \in Nat \ {0} /\ i \in Nat /\ j \in Int /\ m \in Nat
      /\ \A l \in 1..Len(segs) : segs[l].start \in Nat /\ segs[l].num \in Nat
  BY SlabType
<1>2. \A l \in 1..m : i + l - 1 \in 1..Len(segs)
  BY <1>1
<1>3. s \in Seq(Int) /\ Len(s) = m /\ \A l \in 1..m : s[l] = segs[i + l - 1].num
  BY <1>1, <1>2
<1>4. g \in [0..m -> Int] /\ g[0] = 0
  BY <1>1, <1>2
<1>5. ASSUME NEW l \in 1..m PROVE g[l] = g[l - 1] + s[l]
  <2>1. CASE l = 1
    BY <2>1, <1>1, <1>2, <1>3
  <2>2. CASE l # 1
    <3>1. l - 1 \in 1..m /\ i + l - 2 \in 1..Len(segs) - 1 /\ (i + l - 2) + 1 = i + l - 1
      BY <2>2, <1>1, <1>2
    <3>2. segs[(i + l - 2) + 1].start = segs[i + l - 2].start + segs[i + l - 2].num
      BY <3>1 DEF Slab, Chained
    <3>3. segs[i + l - 1].start = segs[i + l - 2].start + segs[i + l - 2].num
      BY <3>1, <3>2
    <3>4. g[l - 1] = segs[i + l - 2].start + segs[i + l - 2].num - segs[i].start
      <4>1. i + (l - 1) - 1 = i + l - 2 /\ l - 1 \in 0..m /\ l - 1 # 0
        BY <3>1, <1>1
      <4> QED BY <4>1
    <3>5. g[l] = segs[i + l - 1].start + segs[i + l - 1].num - segs[i].start
      BY <1>1
    <3>6. /\ segs[i + l - 2].start \in Nat /\ segs[i + l - 2].num \in Nat /\ segs[i].start \in Nat
          /\ segs[i + l - 1].num \in Nat
      BY <1>1, <1>2, <3>1
    <3> HIDE DEF g, s
    <3>7. s[l] = segs[i + l - 1].num
      BY <1>3
    <3>8. segs[i + l - 2].start + segs[i + l - 2].num + segs[i + l - 1].num - segs[i].start
            = (segs[i + l - 2].start + segs[i + l - 2].num - segs[i].start) + segs[i + l - 1].num
      <4> DEFINE a == segs[i + l - 2].start
                 b == segs[i + l - 2].num
                 c == segs[i + l - 1].num
                 d == segs[i].start
      <4>1. a \in Nat /\ b \in Nat /\ c \in Nat /\ d \in Nat
        BY <3>6
      <4> HIDE DEF a, b, c, d
      <4>2. a + b + c - d = (a + b - d) + c
        BY <4>1
      <4> QED BY <4>2 DEF a, b, c, d
    <3>9. g[l] = segs[i + l - 2].start + segs[i + l - 2].num + segs[i + l - 1].num - segs[i].start
      BY <3>3, <3>5, Zenon
    <3>10. g[l - 1] + s[l] = (segs[i + l - 2].start + segs[i + l - 2].num - segs[i].start) + segs[i + l - 1].num
      BY <3>4, <3>7, Zenon
    <3> QED BY <3>8, <3>9, <3>10, Zenon
  <2> QED BY <2>1, <2>2
<1>6. SumOf(s) = g[m]
  <2>1. IsSum(s, g)
    <3> HIDE DEF g, s, m
    <3> QED BY <1>3, <1>4, <1>5 DEF IsSum
  <2> HIDE DEF g, s, m
  <2> QED BY <2>1, <1>3, SumIs
<1>7. Pages(segs, i, j) = g[m]
  BY <1>6 DEF Pages
<1>8. CASE j < i
  BY <1>7, <1>8, <1>1, <1>4
<1>9. CASE ~(j < i)
  <2>1. m \in 0..m /\ m # 0 /\ i + m - 1 = j
    BY <1>9, <1>1
  <2>2. g[m] = segs[i + m - 1].start + segs[i + m - 1].num - segs[i].start
    BY <2>1
  <2> HIDE DEF g, m
  <2> QED BY <2>1, <2>2, <1>7, <1>9
<1> QED BY <1>8, <1>9

\* Segments of a slab replaced by others that cover the same pages.
Covers(segs, f, t, w) ==
  /\ w \in Seq(Segment) /\ w # <<>> /\ Chained(w) /\ Held(w)
  /\ w[1].start = segs[f].start /\ End(w) = segs[t].start + segs[t].num
  /\ f > 1 => ~(IsFree(segs[f - 1]) /\ IsFree(w[1]))
  /\ t < Len(segs) => ~(IsFree(w[Len(w)]) /\ IsFree(segs[t + 1]))

\* Used segments at different places of a slab start at different pages.
LEMMA UsedApart ==
  ASSUME NEW segs, Slab(segs), NEW i \in 1..Len(segs), NEW j \in 1..Len(segs),
         ~IsFree(segs[i]), ~IsFree(segs[j]), segs[i].start = segs[j].start
  PROVE  i = j
<1>1. /\ i \in Nat /\ j \in Nat /\ DOMAIN segs = 1..Len(segs)
      /\ segs[i].start \in Nat /\ segs[i].num \in Nat
      /\ segs[j].start \in Nat /\ segs[j].num \in Nat
  BY SlabType
<1>2. segs[i].num > 0 /\ segs[j].num > 0
  BY <1>1 DEF Slab, Held
<1>3. ASSUME i < j PROVE FALSE
  <2>1. segs[i].start + segs[i].num <= segs[j].start
    BY <1>3, StartsGrow
  <2> QED BY <2>1, <1>1, <1>2
<1>4. ASSUME j < i PROVE FALSE
  <2>1. segs[j].start + segs[j].num <= segs[i].start
    BY <1>4, StartsGrow
  <2> QED BY <2>1, <1>1, <1>2
<1> QED BY <1>1, <1>3, <1>4

-----------------------------------------------------------------------------
(* The slabs of the pool                                                    *)

Slabs(ss) ==
  /\ ss \in Seq(Seq(Segment))
  /\ \A s \in DOMAIN ss : Slab(ss[s]) /\ End(ss[s]) <= MaxSlab

Ends(ss) == [s \in DOMAIN ss |-> End(ss[s])]

\* The used segments, each with its slab.
Holds(ss) == UNION {{s} \X Usage(ss[s]) : s \in DOMAIN ss}

\* The segments f..t of slab s, and the used ones of a sequence w that replaces them.
Replaced(ss, s, f, t) == {<<s, ss[s][i]>> : i \in f..t}
New(s, w) == {<<s, x>> : x \in Usage(w)}

\* At most one segment is of k.
Single(ss, k) == \A g, h \in Holds(ss) : g[2].key = k /\ h[2].key = k => g = h

\* What it means to be a used segment.
LEMMA HoldsIs ==
  ASSUME NEW ss, NEW h
  PROVE  h \in Holds(ss) <=> \E s \in DOMAIN ss : \E x \in Usage(ss[s]) : h = <<s, x>>
BY DEF Holds

\* The keys of the used segments are those in the slabs.
LEMMA KeysHeld ==
  ASSUME NEW ss
  PROVE  InSlabs(ss) = {h[2].key : h \in Holds(ss)}
<1>1. ASSUME NEW k \in InSlabs(ss) PROVE \E h \in Holds(ss) : h[2].key = k
  <2>1. PICK s \in DOMAIN ss : \E i \in DOMAIN ss[s] : k = ss[s][i].key /\ k # None
    BY DEF InSlabs
  <2>2. PICK i \in DOMAIN ss[s] : k = ss[s][i].key /\ k # None
    BY <2>1
  <2>3. ss[s][i] \in Usage(ss[s])
    BY <2>2 DEF Usage, IsFree
  <2>4. <<s, ss[s][i]>> \in Holds(ss)
    BY <2>3, HoldsIs
  <2> QED BY <2>2, <2>4
<1>2. ASSUME NEW h \in Holds(ss) PROVE h[2].key \in InSlabs(ss)
  <2>1. PICK s, x : s \in DOMAIN ss /\ x \in Usage(ss[s]) /\ h = <<s, x>>
    BY HoldsIs
  <2>2. PICK i \in DOMAIN ss[s] : x = ss[s][i]
    BY <2>1 DEF Usage
  <2>3. x.key # None
    BY <2>1 DEF Usage, IsFree
  <2> QED BY <2>1, <2>2, <2>3 DEF InSlabs
<1> QED BY <1>1, <1>2

\* The only segment of a key is where the code finds the key.
LEMMA PlaceIs ==
  ASSUME NEW ss, Slabs(ss), NEW s \in DOMAIN ss, NEW x \in Usage(ss[s]), Single(ss, x.key)
  PROVE  \E i \in 1..Len(ss[s]) :
           ss[s][i] = x /\ Where(ss, x.key) = {<<s, i>>} /\ Place(ss, x.key) = <<s, i>>
<1>1. ~IsFree(x) /\ Slab(ss[s]) /\ DOMAIN ss[s] = 1..Len(ss[s])
  BY SlabType DEF Slabs, Usage
<1>2. PICK i \in 1..Len(ss[s]) : ss[s][i] = x
  BY <1>1 DEF Usage
<1>3. ASSUME NEW v \in Where(ss, x.key) PROVE v = <<s, i>>
  <2>1. PICK u \in DOMAIN ss : v \in {u} \X (DOMAIN ss[u])
    BY DEF Where
  <2>2. PICK j \in DOMAIN ss[u] : v = <<u, j>>
    BY <2>1
  <2>3. ss[u][j].key = x.key
    BY <2>2 DEF Where
  <2>4. ss[u][j] \in Usage(ss[u])
    BY <1>1, <2>3 DEF Usage, IsFree
  <2>5. <<u, ss[u][j]>> = <<s, x>>
    <3>1. <<u, ss[u][j]>> \in Holds(ss) /\ <<s, x>> \in Holds(ss)
      BY <2>4, HoldsIs
    <3> QED BY <3>1, <2>3 DEF Single
  <2>6. j \in 1..Len(ss[s]) /\ ss[s][j] = x /\ ss[s][i] = x
    BY <1>1, <1>2, <2>5
  <2>7. i = j
    BY <1>1, <2>6, UsedApart
  <2> QED BY <2>2, <2>5, <2>7
<1>4. <<s, i>> \in Where(ss, x.key)
  BY <1>1, <1>2 DEF Where
<1>5. Where(ss, x.key) = {<<s, i>>}
  BY <1>3, <1>4
<1> QED BY <1>2, <1>5 DEF Place

\* r is ss with another slab s, in which w is in the place of segments f..t.
Rewritten(ss, r, s, f, t, w) ==
  /\ r \in Seq(Seq(Segment)) /\ DOMAIN r = DOMAIN ss
  /\ \A u \in DOMAIN ss : u # s => r[u] = ss[u]
  /\ Slab(r[s]) /\ End(r[s]) = End(ss[s])
  /\ Usage(r[s]) = (Usage(ss[s]) \ {ss[s][i] : i \in f..t}) \cup Usage(w)
  /\ (Usage(ss[s]) \ {ss[s][i] : i \in f..t}) \cap Usage(w) = {}

-----------------------------------------------------------------------------
(* The order of the touches                                                 *)

Touched(s) == {s[r] : r \in DOMAIN s}

\* What is left of the touches when those of K go.
LEMMA WithoutIs ==
  \A s, K : s \in Seq(Keys) => Without(s, K) \in Seq(Keys) /\ Touched(Without(s, K)) = Touched(s) \ K
\* An element occurs in a sequence or it does not.
<1>TouchedTimes. ASSUME NEW s \in Seq(Keys), NEW x
                 PROVE  x \in Touched(s) <=> TimesIn(s, x) # 0
  <2> USE <1>TouchedTimes
  <2>1. Len(s) \in Nat /\ DOMAIN s = 1..Len(s)
    OBVIOUS
  <2>2. IsFiniteSet(Positions(s, x))
    BY <2>1, TimesType
  <2>3. Cardinality(Positions(s, x)) = 0 <=> Positions(s, x) = {}
    BY <2>2, FS_EmptySet, Zenon
  <2>4. x \in Touched(s) <=> Positions(s, x) # {}
    BY DEF Touched, Positions
  <2> QED BY <2>3, <2>4, Zenon DEF TimesIn

\* The keys in K are taken out of the order, the others stay.
<1>WithoutIs. ASSUME NEW s \in Seq(Keys), NEW K
              PROVE  Without(s, K) \in Seq(Keys) /\ Touched(Without(s, K)) = Touched(s) \ K
  <2> USE <1>WithoutIs
  <2> DEFINE r == Without(s, K)
  <2>1. r \in Seq(Keys)
    BY ThoseType DEF Without
  <2>2. ASSUME NEW x PROVE TimesIn(r, x) = IF x \in Keys \ K THEN TimesIn(s, x) ELSE 0
    BY TimesThose DEF Without
  <2> HIDE DEF r
  <2>3. ASSUME NEW x \in Touched(s) PROVE x \in Keys
    BY DEF Touched
  <2>4. ASSUME NEW x PROVE x \in Touched(r) <=> x \in Touched(s) \ K
    <3>1. x \in Touched(r) <=> TimesIn(r, x) # 0
      BY <2>1, <1>TouchedTimes
    <3>2. x \in Touched(s) <=> TimesIn(s, x) # 0
      BY <1>TouchedTimes
    <3>3. x \in Keys \ K => TimesIn(r, x) = TimesIn(s, x)
      BY <2>2
    <3>4. x \notin Keys \ K => TimesIn(r, x) = 0
      BY <2>2
    <3> QED BY <3>1, <3>2, <3>3, <3>4, <2>3, Zenon
  <2>5. Touched(r) = Touched(s) \ K
    BY <2>4
  <2> QED BY <2>1, <2>5 DEF r

<1> QED BY <1>WithoutIs

\* A touch puts the key at the end, once.
LEMMA TouchIs ==
  ASSUME NEW s \in Seq(Keys), NEW k \in Keys
  PROVE  Touch(s, k) \in Seq(Keys) /\ Touched(Touch(s, k)) = Touched(s) \cup {k}
<1> DEFINE r == Without(s, {k})
           u == Append(r, k)
<1>1. r \in Seq(Keys) /\ Touched(r) = Touched(s) \ {k}
  BY WithoutIs
<1> HIDE DEF r
<1>2. /\ u \in Seq(Keys) /\ DOMAIN u = 1..Len(r) + 1 /\ u[Len(r) + 1] = k
      /\ Len(r) \in Nat /\ DOMAIN r = 1..Len(r) /\ \A i \in 1..Len(r) : u[i] = r[i]
  BY <1>1
<1> HIDE DEF u
<1>3. \A i : i \in DOMAIN u <=> i \in DOMAIN r \/ i = Len(r) + 1
  BY <1>2
<1>4. Touched(u) = Touched(r) \cup {k}
  BY <1>2, <1>3 DEF Touched
<1> QED BY <1>1, <1>2, <1>4, Zenon DEF Touch, u, r

-----------------------------------------------------------------------------
(* What replaces segments                                                   *)

\* One free segment over the pages of f..t.
LEMMA CoverFree ==
  ASSUME NEW segs, Slab(segs), NEW f \in 1..Len(segs), NEW t \in f..Len(segs),
         NEW m \in Nat, NEW a \in Nat, a = segs[f].start,
         a + m = segs[t].start + segs[t].num,
         f > 1 => ~IsFree(segs[f - 1]), t < Len(segs) => ~IsFree(segs[t + 1])
  PROVE  LET w == <<Free(a, m)>>
         IN  Covers(segs, f, t, w) /\ Usage(w) = {}
<1> DEFINE x == Free(a, m)
           w == <<x>>
<1>1. x \in Segment /\ IsFree(x) /\ x.start = a /\ x.num = m
  BY DEF Free, IsFree, Segment
<1> HIDE DEF x
<1>2. w \in Seq(Segment) /\ Len(w) = 1 /\ DOMAIN w = {1} /\ w[1] = x /\ w # <<>>
  BY <1>1
<1> HIDE DEF w
<1>3. Chained(w) /\ Held(w) /\ End(w) = a + m
  BY <1>1, <1>2 DEF Chained, Held, End
<1>4. Covers(segs, f, t, w)
  BY <1>1, <1>2, <1>3 DEF Covers
<1>5. Usage(w) = {}
  BY <1>1, <1>2 DEF Usage
<1> QED BY <1>4, <1>5 DEF w, x

\* The pages of segments f..t are n pages from a on and m pages from b on, and no free
\* segment is next to them.
Room(segs, f, t, a, n, b, m) ==
  /\ Slab(segs) /\ f \in 1..Len(segs) /\ t \in f..Len(segs)
  /\ a \in Nat /\ n \in Nat \ {0} /\ b \in Nat /\ m \in Nat
  /\ a = segs[f].start /\ b = a + n /\ b + m = segs[t].start + segs[t].num
  /\ t < Len(segs) => ~IsFree(segs[t + 1])

\* A used segment and a free one after it over the pages of f..t.
LEMMA CoverBoth ==
  ASSUME NEW segs, NEW f, NEW t, NEW a, NEW n, NEW b, NEW m, Room(segs, f, t, a, n, b, m),
         NEW k \in Keys, NEW w, w = <<Used(a, n, k), Free(b, m)>>
  PROVE  Covers(segs, f, t, w) /\ Usage(w) = {Used(a, n, k)}
<1> USE DEF Room
<1> DEFINE x == Used(a, n, k)
           y == Free(b, m)
<1>1. x \in Segment /\ ~IsFree(x) /\ x.start = a /\ x.num = n
  BY BufferAssumption DEF Used, IsFree, Segment
<1>2. y \in Segment /\ IsFree(y) /\ y.start = b /\ y.num = m
  BY DEF Free, IsFree, Segment
<1>0. w = <<x, y>>
  OBVIOUS
<1> HIDE DEF x, y
<1>3. w \in Seq(Segment) /\ Len(w) = 2 /\ DOMAIN w = {1, 2} /\ w[1] = x /\ w[2] = y /\ w # <<>>
  BY <1>0, <1>1, <1>2
<1>4. Chained(w) /\ Held(w) /\ End(w) = b + m
  <2>1. \A i \in 1..2 - 1 : i = 1 /\ i + 1 = 2
    OBVIOUS
  <2>2. Chained(w)
    BY <1>1, <1>2, <1>3, <2>1 DEF Chained
  <2>3. Held(w)
    <3>1. n > 0 /\ \A i \in DOMAIN w : i = 1 \/ i = 2
      BY <1>3
    <3>2. w[1].num > 0 /\ IsFree(w[2])
      BY <3>1, <1>1, <1>2, <1>3
    <3> QED BY <3>1, <3>2, Zenon DEF Held
  <2> QED BY <1>1, <1>2, <1>3, <2>2, <2>3 DEF End
<1>5. Covers(segs, f, t, w)
  BY <1>1, <1>2, <1>3, <1>4 DEF Covers
<1>6. Usage(w) = {x}
  BY <1>1, <1>2, <1>3 DEF Usage
<1> QED BY <1>5, <1>6, Zenon DEF x

-----------------------------------------------------------------------------
(* The pool                                                                 *)

Pools == [slabs : Seq(Seq(Segment)), unsized : SUBSET Keys, index : SUBSET Keys,
          pins : [Keys -> 0..MaxPins], order : Seq(Keys), cur : 0..MaxSlab,
          capped : BOOLEAN, allocated : 0..PoolPages,
          result : {"ok", "full", "oom", "undefined"}]

Sized(p) == p \in Pools /\ Slabs(p.slabs) /\ SumOf(Ends(p.slabs)) = p.allocated

\* A key has one segment or is unsized; a buffer that moves is held twice for a while.
Exact(p) ==
  /\ IsFiniteSet(p.index)
  /\ p.index = InSlabs(p.slabs) \cup p.unsized /\ InSlabs(p.slabs) \cap p.unsized = {}
  /\ \A k \in Keys : Single(p.slabs, k)
  /\ Touched(p.order) = InSlabs(p.slabs)

PoolOK(p) == Sized(p) /\ Exact(p)

\* q holds what p holds.
Same(p, q) ==
  /\ q.slabs = p.slabs /\ q.unsized = p.unsized /\ q.index = p.index
  /\ q.pins = p.pins /\ q.order = p.order /\ q.allocated = p.allocated

\* The fields of a pool.
LEMMA PoolType ==
  ASSUME NEW p \in Pools
  PROVE  /\ p.slabs \in Seq(Seq(Segment)) /\ p.unsized \in SUBSET Keys /\ p.index \in SUBSET Keys
         /\ p.pins \in [Keys -> 0..MaxPins] /\ p.order \in Seq(Keys) /\ p.cur \in 0..MaxSlab
         /\ p.capped \in BOOLEAN /\ p.allocated \in 0..PoolPages
         /\ p.result \in {"ok", "full", "oom", "undefined"}
         /\ p = [slabs |-> p.slabs, unsized |-> p.unsized, index |-> p.index, pins |-> p.pins,
                 order |-> p.order, cur |-> p.cur, capped |-> p.capped,
                 allocated |-> p.allocated, result |-> p.result]
BY Zenon DEF Pools

\* r is segs with segments f..t replaced by w, position by position.
Pasted(segs, f, t, w, r) ==
  LET m == f - 1 + Len(w)
  IN  /\ r \in Seq(Segment) /\ Len(r) = m + Len(segs) - t
      /\ \A i \in 1..f - 1 : r[i] = segs[i]
      /\ \A i \in f..m : r[i] = w[i - f + 1]
      /\ \A i \in m + 1..m + Len(segs) - t : r[i] = segs[i - m + t]

\* q is p with segments f..t of slab s replaced by w, and another order and index.
Spliced(p, q, s, f, t, w) ==
  /\ q.slabs = [p.slabs EXCEPT ![s] = Splice(p.slabs[s], f, t, w)]
  /\ q = [p EXCEPT !.slabs = q.slabs, !.order = q.order, !.index = q.index]

\* What is left, and what is added, when segments f..t of slab s make room for w.
Exchanged(p, q, s, f, t, w) ==
  /\ Sized(q) /\ q.unsized = p.unsized /\ q.pins = p.pins /\ q.result = p.result
  /\ Holds(q.slabs) = (Holds(p.slabs) \ Replaced(p.slabs, s, f, t)) \cup New(s, w)
  /\ (Holds(p.slabs) \ Replaced(p.slabs, s, f, t)) \cap New(s, w) = {}

\* A splice that covers the same pages keeps the sizes.
LEMMA PoolSplice ==
  \A p, q, s, f, t, w :
    /\ Sized(p) /\ s \in DOMAIN p.slabs /\ f \in 1..Len(p.slabs[s]) /\ t \in f..Len(p.slabs[s])
    /\ Covers(p.slabs[s], f, t, w) /\ Spliced(p, q, s, f, t, w)
    /\ q.order \in Seq(Keys) /\ q.index \in SUBSET Keys
    => Exchanged(p, q, s, f, t, w)
\* What a splice puts where.
<1>SpliceIs. ASSUME NEW segs \in Seq(Segment), NEW f \in 1..Len(segs), NEW t \in f..Len(segs),
                    NEW w \in Seq(Segment)
             PROVE  Pasted(segs, f, t, w, Splice(segs, f, t, w))
  <2> USE <1>SpliceIs
  <2> DEFINE a == SubSeq(segs, 1, f - 1)
             b == SubSeq(segs, t + 1, Len(segs))
             m == f - 1 + Len(w)
  <2>1. Len(segs) \in Nat /\ f \in Nat /\ t \in Nat /\ Len(w) \in Nat /\ m \in Nat
    OBVIOUS
  <2>2. a \in Seq(Segment) /\ Len(a) = f - 1 /\ \A i \in 1..f - 1 : a[i] = segs[i]
    BY <2>1
  <2>3. /\ b \in Seq(Segment) /\ Len(b) = Len(segs) - t
        /\ \A i \in 1..Len(segs) - t : b[i] = segs[i + t]
    BY <2>1
  <2> HIDE DEF a, b
  <2>4. /\ a \o w \in Seq(Segment) /\ Len(a \o w) = m
        /\ \A i \in 1..f - 1 : (a \o w)[i] = segs[i]
        /\ \A i \in f..m : (a \o w)[i] = w[i - f + 1]
    <3>1. a \o w \in Seq(Segment) /\ Len(a \o w) = m
      BY <2>1, <2>2
    <3>2. ASSUME NEW i \in 1..f - 1 PROVE (a \o w)[i] = segs[i]
      BY <2>1, <2>2
    <3>3. ASSUME NEW i \in f..m PROVE (a \o w)[i] = w[i - f + 1]
      <4>1. i \in 1..Len(a) + Len(w) /\ i > Len(a) /\ i - Len(a) = i - f + 1
        BY <2>1, <2>2
      <4>2. (a \o w)[i] = w[i - Len(a)]
        BY <4>1, <2>2
      <4> QED BY <4>1, <4>2, Zenon
    <3> QED BY <3>1, <3>2, <3>3
  <2> DEFINE c == a \o w
  <2> HIDE DEF c
  <2>5. /\ c \o b \in Seq(Segment) /\ Len(c \o b) = m + Len(segs) - t
        /\ \A i \in 1..m : (c \o b)[i] = c[i]
        /\ \A i \in m + 1..m + Len(segs) - t : (c \o b)[i] = segs[i - m + t]
    <3>0. c \in Seq(Segment) /\ Len(c) = m
      BY <2>4 DEF c
    <3> HIDE DEF m
    <3>1. c \o b \in Seq(Segment) /\ Len(c \o b) = m + Len(segs) - t
      <4>0. c \in Seq(Segment) /\ b \in Seq(Segment)
        BY <2>3, <3>0
      <4>1. c \o b \in Seq(Segment)
        BY <4>0
      <4>2. Len(c \o b) = Len(c) + Len(b)
        BY <4>0
      <4>3. m + (Len(segs) - t) = m + Len(segs) - t
        BY <2>1
      <4> QED BY <4>1, <4>2, <4>3, <2>3, <3>0
    <3>2. ASSUME NEW i \in 1..m PROVE (c \o b)[i] = c[i]
      BY <2>1, <2>3, <3>0
    <3>3. ASSUME NEW i \in m + 1..m + Len(segs) - t PROVE (c \o b)[i] = segs[i - m + t]
      <4>1. i \in 1..Len(c) + Len(b) /\ i > Len(c) /\ i - Len(c) \in 1..Len(segs) - t /\ (i - Len(c)) + t = i - m + t
        BY <2>1, <2>3, <3>0
      <4>2. (c \o b)[i] = b[i - Len(c)]
        BY <4>1, <3>0, <2>3
      <4>3. b[i - Len(c)] = segs[(i - Len(c)) + t]
        BY <4>1, <2>3, Zenon
      <4> QED BY <4>1, <4>2, <4>3, Zenon
    <3> QED BY <3>1, <3>2, <3>3, Zenon
  <2>6. Splice(segs, f, t, w) = c \o b
    BY DEF Splice, a, b, c
  <2>7. \A i \in 1..f - 1 : i \in 1..m
    BY <2>1
  <2>8. \A i \in f..m : i \in 1..m
    BY <2>1
  <2> DEFINE r == Splice(segs, f, t, w)
  <2> HIDE DEF r
  <2>9. r \in Seq(Segment) /\ Len(r) = m + Len(segs) - t
    BY <2>5, <2>6 DEF r
  <2>10. \A i \in 1..f - 1 : r[i] = segs[i]
    BY <2>4, <2>5, <2>6, <2>7, Zenon DEF c, r
  <2>11. \A i \in f..m : r[i] = w[i - f + 1]
    BY <2>4, <2>5, <2>6, <2>8, Zenon DEF c, r
  <2>12. \A i \in m + 1..m + Len(segs) - t : r[i] = segs[i - m + t]
    BY <2>5, <2>6, Zenon DEF r
  <2>13. Pasted(segs, f, t, w, r)
    BY <2>9, <2>10, <2>11, <2>12, Zenon DEF Pasted
  <2> QED BY <2>13 DEF r

\* The result is a slab of the same size.
<1>SpliceSlab. ASSUME NEW segs, Slab(segs), NEW f \in 1..Len(segs), NEW t \in f..Len(segs),
                      NEW w, Covers(segs, f, t, w)
               PROVE  Slab(Splice(segs, f, t, w)) /\ End(Splice(segs, f, t, w)) = End(segs)
  <2> USE <1>SpliceSlab
  <2> DEFINE n == Len(segs)
             r == Splice(segs, f, t, w)
             m == f - 1 + Len(w)
             k == m + n - t
  <2>1. /\ segs \in Seq(Segment) /\ n \in Nat \ {0} /\ f \in Nat \ {0} /\ t \in Nat /\ t <= n
        /\ Chained(segs) /\ Held(segs) /\ segs[1].start = 0 /\ DOMAIN segs = 1..n
    BY SlabType DEF Slab
  <2>2. /\ w \in Seq(Segment) /\ Len(w) \in Nat \ {0} /\ DOMAIN w = 1..Len(w)
        /\ Chained(w) /\ Held(w)
        /\ w[1].start = segs[f].start /\ End(w) = segs[t].start + segs[t].num
    BY DEF Covers
  <2>3. m \in Nat \ {0} /\ m >= f /\ k \in Nat \ {0} /\ k >= m
    BY <2>1, <2>2
  <2>4. /\ r \in Seq(Segment) /\ Len(r) = k
        /\ \A i \in 1..f - 1 : r[i] = segs[i]
        /\ \A i \in f..m : r[i] = w[i - f + 1]
        /\ \A i \in m + 1..k : r[i] = segs[i - m + t]
    <3>1. Pasted(segs, f, t, w, r)
      BY <2>1, <2>2, <1>SpliceIs
    <3> HIDE DEF r
    <3> QED BY <3>1, Zenon DEF Pasted
  <2> HIDE DEF r
  <2>5. r # <<>> /\ DOMAIN r = 1..k
    BY <2>3, <2>4
  <2>6. r[1].start = 0
    <3>1. CASE f = 1
      <4>0. 1 \in f..m /\ 1 - f + 1 = 1
        BY <3>1, <2>3
      <4>1. r[1] = w[1]
        BY <4>0, <2>4
      <4> QED BY <4>1, <3>1, <2>1, <2>2
    <3>2. CASE f > 1
      <4>1. 1 \in 1..f - 1
        BY <3>2, <2>1
      <4>2. r[1] = segs[1]
        BY <4>1, <2>4, Zenon
      <4> QED BY <4>2, <2>1, Zenon
    <3> QED BY <3>1, <3>2, <2>1
  <2>7. ASSUME NEW i \in 1..k - 1
        PROVE  r[i + 1].start = r[i].start + r[i].num /\ ~(IsFree(r[i]) /\ IsFree(r[i + 1]))
    <3>1. CASE i + 1 < f
      <4>1. i \in 1..n - 1 /\ r[i] = segs[i] /\ r[i + 1] = segs[i + 1]
        <5>1. i \in 1..n - 1 /\ i \in 1..f - 1 /\ i + 1 \in 1..f - 1
          BY <3>1, <2>1
        <5> QED BY <5>1, <2>4, Zenon
      <4> QED BY <4>1, <2>1, ZenonT(30) DEF Chained
    <3>2. CASE i + 1 = f
      <4>0. i + 1 \in f..m /\ (i + 1) - f + 1 = 1 /\ i \in 1..f - 1
        BY <3>2, <2>1, <2>3
      <4>1. i \in 1..n - 1 /\ r[i] = segs[i] /\ r[i + 1] = w[1] /\ f = i + 1 /\ f > 1 /\ f - 1 = i
        <5>1. r[i] = segs[i] /\ r[i + 1] = w[(i + 1) - f + 1]
          BY <4>0, <2>4, Zenon
        <5>2. r[i + 1] = w[1]
          BY <5>1, <4>0, Zenon
        <5>3. f = i + 1 /\ f > 1 /\ f - 1 = i
          BY <3>2, <4>0, <2>1
        <5>4. i \in 1..n - 1
          BY <4>0, <2>1
        <5> QED BY <5>1, <5>2, <5>3, <5>4, Zenon
      <4>2. segs[i + 1].start = segs[i].start + segs[i].num
        BY <4>1, <2>1, Zenon DEF Chained
      <4>3. ~(IsFree(segs[f - 1]) /\ IsFree(w[1]))
        BY <4>1 DEF Covers
      <4> QED BY <4>1, <4>2, <4>3, <2>2
    <3>3. CASE f <= i /\ i < m
      <4>1. /\ i - f + 1 \in 1..Len(w) - 1 /\ (i - f + 1) + 1 = (i + 1) - f + 1
            /\ i \in f..m /\ i + 1 \in f..m
        BY <3>3, <2>1, <2>2, <2>3
      <4>2. r[i] = w[i - f + 1] /\ r[i + 1] = w[(i - f + 1) + 1]
        <5>1. r[i] = w[i - f + 1] /\ r[i + 1] = w[(i + 1) - f + 1]
          BY <4>1, <2>4, Zenon
        <5> QED BY <5>1, <4>1, Zenon
      <4> QED BY <4>1, <4>2, <2>2, Zenon DEF Chained
    <3>4. CASE i = m
      <4>1. /\ m - f + 1 = Len(w) /\ (m + 1) - m + t = t + 1 /\ t \in 1..n - 1 /\ t < n
            /\ m \in f..m /\ m + 1 \in m + 1..k
        BY <3>4, <2>1, <2>2, <2>3
      <4>2. r[i] = w[Len(w)] /\ r[i + 1] = segs[t + 1]
        BY <4>1, <3>4, <2>4, ZenonT(30)
      <4>3. segs[t + 1].start = segs[t].start + segs[t].num
        BY <4>1, <2>1 DEF Chained
      <4>4. ~(IsFree(w[Len(w)]) /\ IsFree(segs[t + 1]))
        BY <4>1 DEF Covers
      <4> QED BY <4>2, <4>3, <4>4, <2>2 DEF End
    <3>5. CASE i > m
      <4>1. /\ i - m + t \in 1..n - 1 /\ (i + 1) - m + t = (i - m + t) + 1
            /\ i \in m + 1..k /\ i + 1 \in m + 1..k
        BY <3>5, <2>1, <2>2, <2>3
      <4>2. r[i] = segs[i - m + t] /\ r[i + 1] = segs[(i - m + t) + 1]
        <5>1. r[i] = segs[i - m + t] /\ r[i + 1] = segs[(i + 1) - m + t]
          BY <4>1, <2>4, Zenon
        <5> QED BY <5>1, <4>1, Zenon
      <4> QED BY <4>1, <4>2, <2>1 DEF Chained
    <3> QED BY <3>1, <3>2, <3>3, <3>4, <3>5, <2>1, <2>3
  <2>8. Chained(r)
    BY <2>4, <2>7, ZenonT(30) DEF Chained
  <2>9. Held(r)
    <3> SUFFICES ASSUME NEW i \in 1..k PROVE IsFree(r[i]) \/ r[i].num > 0
      BY <2>5 DEF Held
    <3>1. CASE i < f
      <4>0. i \in 1..n /\ i \in 1..f - 1
        BY <3>1, <2>1, <2>3
      <4>1. r[i] = segs[i]
        BY <4>0, <2>4, Zenon
      <4> QED BY <4>0, <4>1, <2>1, Zenon DEF Held
    <3>2. CASE f <= i /\ i <= m
      <4>0. i - f + 1 \in 1..Len(w) /\ i \in f..m
        BY <3>2, <2>1, <2>2, <2>3
      <4>1. r[i] = w[i - f + 1]
        BY <4>0, <2>4, Zenon
      <4> QED BY <4>0, <4>1, <2>2, Zenon DEF Held
    <3>3. CASE m < i
      <4>0. i - m + t \in 1..n /\ i \in m + 1..k
        BY <3>3, <2>1, <2>2, <2>3
      <4>1. r[i] = segs[i - m + t]
        BY <4>0, <2>4, Zenon
      <4> QED BY <4>0, <4>1, <2>1, Zenon DEF Held
    <3> QED BY <3>1, <3>2, <3>3, <2>1, <2>3
  <2>10. Slab(r)
    BY <2>4, <2>5, <2>6, <2>8, <2>9 DEF Slab
  <2>11. End(r) = End(segs)
    <3>1. CASE t = n
      <4>1. k = m /\ m \in f..m /\ m - f + 1 = Len(w)
        BY <3>1, <2>1, <2>2, <2>3
      <4>2. r[k] = w[Len(w)]
        BY <4>1, <2>4, Zenon
      <4> QED BY <4>2, <3>1, <2>2, <2>4 DEF End
    <3>2. CASE t < n
      <4>1. k \in m + 1..k /\ k - m + t = n
        BY <3>2, <2>1, <2>2, <2>3
      <4>2. r[k] = segs[n]
        BY <4>1, <2>4, Zenon
      <4> QED BY <4>2, <2>4 DEF End
    <3>3. t = n \/ t < n
      <4> HIDE DEF n
      <4> QED BY <2>1
    <3> QED BY <3>1, <3>2, <3>3, Zenon
  <2> QED BY <2>10, <2>11 DEF r

\* A splice takes away the segments it replaces and adds the new ones, none of which
\* is like one that stays.
<1>SpliceUsage. ASSUME NEW segs, Slab(segs), NEW f \in 1..Len(segs), NEW t \in f..Len(segs),
                       NEW w, Covers(segs, f, t, w)
                PROVE  LET kept == Usage(segs) \ {segs[i] : i \in f..t}
                       IN  /\ Usage(Splice(segs, f, t, w)) = kept \cup Usage(w)
                           /\ kept \cap Usage(w) = {}
  <2> USE <1>SpliceUsage
  <2> DEFINE n == Len(segs)
             r == Splice(segs, f, t, w)
             m == f - 1 + Len(w)
             k == m + n - t
             gone == {segs[i] : i \in f..t}
             kept == Usage(segs) \ gone
  <2>1. /\ segs \in Seq(Segment) /\ n \in Nat \ {0} /\ f \in Nat \ {0} /\ t \in Nat /\ t <= n /\ f <= t
        /\ DOMAIN segs = 1..n
    BY SlabType
  <2>2. w \in Seq(Segment) /\ Len(w) \in Nat \ {0} /\ DOMAIN w = 1..Len(w)
    BY DEF Covers
  <2>3. m \in Nat \ {0} /\ m >= f /\ k \in Nat \ {0} /\ k >= m
    BY <2>1, <2>2
  <2>4. /\ r \in Seq(Segment) /\ Len(r) = k
        /\ \A i \in 1..f - 1 : r[i] = segs[i]
        /\ \A i \in f..m : r[i] = w[i - f + 1]
        /\ \A i \in m + 1..k : r[i] = segs[i - m + t]
    <3>1. Pasted(segs, f, t, w, r)
      BY <2>1, <2>2, <1>SpliceIs
    <3> HIDE DEF r
    <3> QED BY <3>1, Zenon DEF Pasted
  <2>5. Slab(r)
    BY <1>SpliceSlab
  <2> HIDE DEF r
  <2>6. DOMAIN r = 1..k
    BY <2>4, <2>5, SlabType
  <2>7. ASSUME NEW i \in 1..n, i \notin f..t
        PROVE  \E j \in 1..k : r[j] = segs[i] /\ j \notin f..m
    <3>1. CASE i < f
      <4>1. i \in 1..k /\ i \notin f..m /\ i \in 1..f - 1
        BY <3>1, <2>1, <2>3
      <4> QED BY <4>1, <2>4, Zenon
    <3>2. CASE i > t
      <4>1. i + m - t \in m + 1..k /\ (i + m - t) - m + t = i /\ i + m - t \in 1..k /\ i + m - t \notin f..m
        BY <3>2, <2>1, <2>3
      <4>2. r[i + m - t] = segs[(i + m - t) - m + t]
        BY <4>1, <2>4
      <4>3. r[i + m - t] = segs[i]
        BY <4>1, <4>2, Zenon
      <4> QED BY <4>1, <4>3, Zenon
    <3> QED BY <3>1, <3>2, <2>7, <2>1
  <2>8. ASSUME NEW j \in 1..k, j \notin f..m
        PROVE  \E i \in 1..n : r[j] = segs[i] /\ i \notin f..t
    <3>1. CASE j < f
      BY <3>1, <2>1, <2>3, <2>4
    <3>2. CASE j > m
      <4>1. j - m + t \in 1..n /\ j - m + t \notin f..t /\ j \in m + 1..k
        BY <3>2, <2>1, <2>3
      <4> QED BY <4>1, <2>4, Zenon
    <3> QED BY <3>1, <3>2, <2>8, <2>1, <2>3
  <2>9. ASSUME NEW x PROVE x \in Usage(segs) <=> ~IsFree(x) /\ \E i \in 1..n : x = segs[i]
    BY <2>1 DEF Usage
  <2>10. ASSUME NEW x PROVE x \in Usage(r) <=> ~IsFree(x) /\ \E i \in 1..k : x = r[i]
    BY <2>6 DEF Usage
  <2>11. ASSUME NEW x PROVE x \in Usage(w) <=> ~IsFree(x) /\ \E i \in 1..Len(w) : x = w[i]
    BY <2>2 DEF Usage
  <2>12. ASSUME NEW x PROVE x \in kept <=> ~IsFree(x) /\ \E i \in 1..n : i \notin f..t /\ x = segs[i]
    <3>1. ASSUME x \in kept PROVE ~IsFree(x) /\ \E i \in 1..n : i \notin f..t /\ x = segs[i]
      <4>1. ~IsFree(x) /\ x \notin gone
        BY <3>1, <2>9
      <4>2. PICK i \in 1..n : x = segs[i]
        BY <3>1, <2>9
      <4> QED BY <4>1, <4>2
    <3>2. ASSUME ~IsFree(x), NEW i \in 1..n, i \notin f..t, x = segs[i] PROVE x \in kept
      <4>1. x \in Usage(segs)
        BY <3>2, <2>9
      <4>2. ASSUME NEW j \in f..t, x = segs[j] PROVE FALSE
        <5>1. j \in 1..n
          BY <2>1
        <5>2. i = j
          BY <3>2, <4>2, <5>1, UsedApart, Zenon
        <5> QED BY <5>2, <3>2
      <4> QED BY <4>1, <4>2
    <3> QED BY <3>1, <3>2
  <2>13. ASSUME NEW j \in f..m PROVE j - f + 1 \in 1..Len(w) /\ r[j] = w[j - f + 1] /\ j \in 1..k
    BY <2>1, <2>2, <2>3, <2>4
  <2>14. ASSUME NEW i \in 1..Len(w) PROVE i + f - 1 \in f..m /\ r[i + f - 1] = w[i]
    <3>1. i + f - 1 \in f..m /\ (i + f - 1) - f + 1 = i
      BY <2>1, <2>2
    <3>2. r[i + f - 1] = w[(i + f - 1) - f + 1]
      BY <3>1, <2>4
    <3> QED BY <3>1, <3>2, Zenon
  <2> HIDE DEF kept, n, k, m
  <2>15. ASSUME NEW x PROVE x \in Usage(r) <=> x \in kept \cup Usage(w)
    <3>1. ASSUME x \in Usage(r) PROVE x \in kept \cup Usage(w)
      <4>1. PICK j \in 1..k : x = r[j]
        BY <3>1, <2>10
      <4>2. ~IsFree(x)
        BY <3>1, <2>10
      <4>3. CASE j \in f..m
        BY <4>1, <4>2, <4>3, <2>11, <2>13, Zenon
      <4>4. CASE j \notin f..m
        BY <4>1, <4>2, <4>4, <2>8, <2>12, Zenon
      <4> QED BY <4>3, <4>4, Zenon
    <3>2. ASSUME x \in kept PROVE x \in Usage(r)
      <4>1. PICK i \in 1..n : i \notin f..t /\ x = segs[i]
        BY <3>2, <2>12
      <4>2. PICK j \in 1..k : r[j] = segs[i]
        BY <4>1, <2>7
      <4> QED BY <4>1, <4>2, <3>2, <2>10, <2>12, Zenon
    <3>3. ASSUME x \in Usage(w) PROVE x \in Usage(r)
      <4>1. PICK i \in 1..Len(w) : x = w[i]
        BY <3>3, <2>11
      <4> QED BY <4>1, <3>3, <2>10, <2>11, <2>13, <2>14, Zenon
    <3> QED BY <3>1, <3>2, <3>3, Zenon
  <2>16. ASSUME NEW x \in kept, x \in Usage(w) PROVE FALSE
    <3>1. PICK i \in 1..n : i \notin f..t /\ x = segs[i]
      BY <2>12
    <3>2. PICK j \in 1..k : r[j] = segs[i] /\ j \notin f..m
      BY <3>1, <2>7
    <3>3. PICK l \in 1..Len(w) : x = w[l]
      BY <2>16, <2>11
    <3>4. l + f - 1 \in f..m /\ l + f - 1 \in 1..k /\ r[l + f - 1] = x /\ r[j] = x /\ ~IsFree(x)
      BY <3>1, <3>2, <3>3, <2>12, <2>13, <2>14, Zenon
    <3>5. j = l + f - 1
      BY <3>2, <3>4, <2>4, <2>5, UsedApart
    <3> QED BY <3>2, <3>4, <3>5, Zenon
  <2> QED
    <3>1. Usage(r) = kept \cup Usage(w) /\ kept \cap Usage(w) = {}
      BY <2>15, <2>16
    <3> QED BY <3>1 DEF r, kept

\* One slab is replaced: what the slabs hold, and their sizes.
<1>SlabReplaced. ASSUME NEW ss, Slabs(ss), NEW s \in DOMAIN ss, NEW f, NEW t, NEW w,
                        NEW r, Rewritten(ss, r, s, f, t, w)
                 PROVE  /\ Slabs(r) /\ Ends(r) = Ends(ss)
                        /\ Holds(r) = (Holds(ss) \ Replaced(ss, s, f, t)) \cup New(s, w)
                        /\ (Holds(ss) \ Replaced(ss, s, f, t)) \cap New(s, w) = {}
  <2> USE <1>SlabReplaced
  <2> DEFINE gone == {ss[s][i] : i \in f..t}
             kept == Holds(ss) \ {<<s, ss[s][i]>> : i \in f..t}
             new == {<<s, x>> : x \in Usage(w)}
  <2>1. Slab(ss[s]) /\ End(ss[s]) <= MaxSlab /\ ss \in Seq(Seq(Segment))
    BY DEF Slabs
  <2>2. Slab(r[s]) /\ End(r[s]) = End(ss[s])
    BY DEF Rewritten
  <2>3. /\ Usage(r[s]) = (Usage(ss[s]) \ gone) \cup Usage(w)
        /\ (Usage(ss[s]) \ gone) \cap Usage(w) = {}
    BY Zenon DEF Rewritten
  <2> HIDE DEF gone
  <2>4. /\ r \in Seq(Seq(Segment)) /\ DOMAIN r = DOMAIN ss
        /\ \A u \in DOMAIN ss : u # s => r[u] = ss[u]
    BY DEF Rewritten
  <2>5. Slabs(r)
    <3>1. ASSUME NEW u \in DOMAIN r PROVE Slab(r[u]) /\ End(r[u]) <= MaxSlab
      <4>1. CASE u = s
        BY <4>1, <2>1, <2>2, <2>4
      <4>2. CASE u # s
        BY <4>2, <2>4 DEF Slabs
      <4> QED BY <4>1, <4>2
    <3> QED BY <3>1, <2>4 DEF Slabs
  <2>6. Ends(r) = Ends(ss)
    <3>1. \A u \in DOMAIN ss : End(r[u]) = End(ss[u])
      BY <2>2, <2>4, Zenon
    <3> QED BY <3>1, <2>4, Zenon DEF Ends
  <2>7. ASSUME NEW h PROVE h \in Holds(r) <=> h \in kept \cup new
    <3>1. ASSUME h \in Holds(r) PROVE h \in kept \cup new
      <4>1. PICK u, x : u \in DOMAIN ss /\ x \in Usage(r[u]) /\ h = <<u, x>>
        <5>1. \E u \in DOMAIN r : \E x \in Usage(r[u]) : h = <<u, x>>
          BY <3>1, HoldsIs
        <5> QED BY <5>1, <2>4, Zenon
      <4>2. CASE u # s
        <5>1. h \in Holds(ss)
          BY <4>1, <4>2, <2>4, HoldsIs
        <5> QED BY <5>1, <4>1, <4>2
      <4>3. CASE u = s /\ x \in Usage(w)
        BY <4>1, <4>3
      <4>4. CASE u = s /\ x \in Usage(ss[s]) /\ x \notin gone
        <5>1. h \in Holds(ss)
          BY <4>1, <4>4, HoldsIs
        <5> QED BY <5>1, <4>1, <4>4 DEF gone
      <4> QED BY <4>1, <4>2, <4>3, <4>4, <2>3, <2>4
    <3>2. ASSUME h \in kept PROVE h \in Holds(r)
      <4>1. PICK u, x : u \in DOMAIN ss /\ x \in Usage(ss[u]) /\ h = <<u, x>>
        BY <3>2, HoldsIs
      <4>2. CASE u # s
        BY <4>1, <4>2, <2>4, HoldsIs
      <4>3. CASE u = s
        <5>1. x \notin gone
          BY <3>2, <4>1, <4>3 DEF gone
        <5>2. x \in Usage(r[s])
          BY <5>1, <4>1, <4>3, <2>3, <2>4
        <5> QED BY <5>2, <4>1, <4>3, <2>4, HoldsIs
      <4> QED BY <4>2, <4>3
    <3>3. ASSUME h \in new PROVE h \in Holds(r)
      <4>1. PICK x \in Usage(w) : h = <<s, x>>
        BY <3>3
      <4>2. x \in Usage(r[s])
        BY <2>3, <2>4
      <4> QED BY <4>1, <4>2, <2>4, HoldsIs
    <3> QED BY <3>1, <3>2, <3>3
  <2>8. ASSUME NEW h \in kept, h \in new PROVE FALSE
    <3>1. PICK x \in Usage(w) : h = <<s, x>>
      BY <2>8
    <3>2. x \notin gone
      BY <3>1 DEF gone
    <3>3. x \in Usage(ss[s])
      <4>1. h \in Holds(ss)
        OBVIOUS
      <4>2. PICK u, y : u \in DOMAIN ss /\ y \in Usage(ss[u]) /\ h = <<u, y>>
        BY <4>1, HoldsIs
      <4> QED BY <4>2, <3>1
    <3> QED BY <3>2, <3>3, <2>3
  <2>9. Holds(r) = kept \cup new /\ kept \cap new = {}
    <3> HIDE DEF kept, new
    <3> QED BY <2>7, <2>8
  <2>10. kept = Holds(ss) \ Replaced(ss, s, f, t) /\ new = New(s, w)
    BY Zenon DEF Replaced, New
  <2> HIDE DEF kept, new
  <2> QED BY <2>5, <2>6, <2>9, <2>10, Zenon

\* A splice keeps the slabs and their sizes, and changes what one of them holds.
<1>SlabsSplice. ASSUME NEW ss, Slabs(ss), NEW s \in DOMAIN ss, NEW f \in 1..Len(ss[s]),
                       NEW t \in f..Len(ss[s]), NEW w, Covers(ss[s], f, t, w),
                       NEW r, r = [ss EXCEPT ![s] = Splice(ss[s], f, t, w)]
                PROVE  Rewritten(ss, r, s, f, t, w)
  <2> USE <1>SlabsSplice
  <2> DEFINE v == Splice(ss[s], f, t, w)
             gone == {ss[s][i] : i \in f..t}
  <2>1. Slab(ss[s]) /\ End(ss[s]) <= MaxSlab /\ ss \in Seq(Seq(Segment))
    BY DEF Slabs
  <2>2. Slab(v) /\ End(v) = End(ss[s])
    BY <2>1, <1>SpliceSlab
  <2>3. Usage(v) = (Usage(ss[s]) \ gone) \cup Usage(w) /\ (Usage(ss[s]) \ gone) \cap Usage(w) = {}
    BY <2>1, <1>SpliceUsage
  <2> HIDE DEF v, gone
  <2>4. /\ r \in Seq(Seq(Segment)) /\ DOMAIN r = DOMAIN ss
        /\ r[s] = v /\ \A u \in DOMAIN ss : u # s => r[u] = ss[u]
    <3>1. v \in Seq(Segment)
      BY <2>2 DEF Slab
    <3>2. r = [ss EXCEPT ![s] = v]
      BY DEF v
    <3> QED BY <2>1, <3>1, <3>2
  <2>5. /\ Usage(v) = (Usage(ss[s]) \ {ss[s][i] : i \in f..t}) \cup Usage(w)
        /\ (Usage(ss[s]) \ {ss[s][i] : i \in f..t}) \cap Usage(w) = {}
    BY <2>3 DEF gone
  <2> QED BY <2>2, <2>4, <2>5, Zenon DEF Rewritten

\* A splice that covers the same pages keeps the sizes.
<1>PoolSplice. ASSUME NEW p, Sized(p), NEW s \in DOMAIN p.slabs, NEW f \in 1..Len(p.slabs[s]),
                      NEW t \in f..Len(p.slabs[s]), NEW w, Covers(p.slabs[s], f, t, w),
                      NEW q, Spliced(p, q, s, f, t, w), q.order \in Seq(Keys), q.index \in SUBSET Keys
               PROVE  Exchanged(p, q, s, f, t, w)
  <2> USE <1>PoolSplice
  <2>1. p \in Pools /\ Slabs(p.slabs) /\ SumOf(Ends(p.slabs)) = p.allocated
    BY DEF Sized
  <2> DEFINE r == q.slabs
             o == q.order
             d == q.index
  <2>2. r = [p.slabs EXCEPT ![s] = Splice(p.slabs[s], f, t, w)]
    BY DEF Spliced
  <2>3. q = [p EXCEPT !.slabs = r, !.order = o, !.index = d]
    BY DEF Spliced
  <2>4. o \in Seq(Keys) /\ d \in SUBSET Keys
    OBVIOUS
  <2> HIDE DEF r, o, d
  <2>5. /\ Slabs(r) /\ Ends(r) = Ends(p.slabs)
        /\ Holds(r) = (Holds(p.slabs) \ Replaced(p.slabs, s, f, t)) \cup New(s, w)
        /\ (Holds(p.slabs) \ Replaced(p.slabs, s, f, t)) \cap New(s, w) = {}
    <3>1. Rewritten(p.slabs, r, s, f, t, w)
      BY <2>1, <2>2, <1>SlabsSplice
    <3> QED BY <3>1, <2>1, <1>SlabReplaced
  <2>6. r \in Seq(Seq(Segment))
    BY <2>5 DEF Slabs
  <2>7. q \in Pools
    BY <2>1, <2>3, <2>4, <2>6, ZenonT(30) DEF Pools
  <2>8. /\ q.unsized = p.unsized /\ q.pins = p.pins /\ q.result = p.result
        /\ q.allocated = p.allocated
    BY <2>1, <2>3 DEF Pools
  <2> QED BY <2>1, <2>5, <2>7, <2>8, Zenon DEF Sized, Exchanged, r

<1> QED BY <1>PoolSplice

\* q is p with n more pages held by k in slab s.
Taken(p, q, s, n, k) ==
  /\ Sized(q) /\ q.order = Touch(p.order, k)
  /\ q.unsized = p.unsized /\ q.index = p.index /\ q.pins = p.pins
  /\ q.result = p.result
  /\ \E a \in Nat : /\ <<s, Used(a, n, k)>> \notin Holds(p.slabs)
                    /\ Holds(q.slabs) = Holds(p.slabs) \cup {<<s, Used(a, n, k)>>}

-----------------------------------------------------------------------------
(* Eviction                                                                 *)

\* q is p after an allocation of n pages for k, at page a of slab s, which took the
\* place of the buffers of the keys in gone.
Allocated(p, q, n, k, s, a, gone) ==
  /\ Sized(q) /\ q.unsized = p.unsized /\ q.pins = p.pins /\ q.result = "ok"
  /\ q.index = p.index \ gone /\ Touched(q.order) = (Touched(p.order) \ gone) \cup {k}
  /\ gone \subseteq InSlabs(p.slabs) /\ \A g \in gone : g \in Keys /\ p.pins[g] = 0
  /\ <<s, Used(a, n, k)>> \notin {h \in Holds(p.slabs) : h[2].key \notin gone}
  /\ Holds(q.slabs) = {h \in Holds(p.slabs) : h[2].key \notin gone} \cup {<<s, Used(a, n, k)>>}

-----------------------------------------------------------------------------
(* New slabs                                                                *)

Ready(q) == MayAdd(q) => q.cur <= PoolPages - q.allocated

\* q is p but for the size of the next slab, and whether one is tried.
Retried(p, q) == q \in Pools /\ Same(p, q) /\ Ready(q) /\ q.result = p.result

\* r has one more slab than ss, number m, in which nothing is used.
More(ss, r, m) ==
  /\ \A i : i \in DOMAIN r <=> i \in DOMAIN ss \/ i = m
  /\ Usage(r[m]) = {} /\ \A i \in DOMAIN ss : r[i] = ss[i]

\* What is the same has the same properties.
LEMMA SameOK ==
  ASSUME NEW p, NEW q \in Pools, Same(p, q)
  PROVE  /\ Sized(p) => Sized(q)
         /\ Exact(p) => Exact(q)
BY Zenon DEF Same, Sized, Exact

\* findFreeBuffer: first fit, a new slab, or the eviction of what nobody has pinned.
LEMMA FindFreeIs ==
  \A p, q, n, k :
    /\ PoolOK(p) /\ p.result = "ok" /\ n \in Nat \ {0} /\ k \in Keys
    /\ q \in FindFreeBuffer(p, n, k)
    => \/ \E s, a, gone : a \in Nat /\ Allocated(p, q, n, k, s, a, gone)
       \/ q \in Pools /\ Same(p, q) /\ q.result \in {"oom", "undefined"}
\* The types of a used and a free segment.
<1>SegmentIs. ASSUME NEW a \in Nat, NEW n \in Nat, NEW k \in Keys
              PROVE  /\ Used(a, n, k) \in Segment /\ ~IsFree(Used(a, n, k))
                     /\ Free(a, n) \in Segment /\ IsFree(Free(a, n))
                     /\ Used(a, n, k).start = a /\ Used(a, n, k).num = n /\ Used(a, n, k).key = k
                     /\ Free(a, n).start = a /\ Free(a, n).num = n
  BY <1>SegmentIs, BufferAssumption DEF Used, Free, IsFree, Segment

\* One used segment over the pages of f..t.
<1>CoverUsed. ASSUME NEW segs, Slab(segs), NEW f \in 1..Len(segs), NEW t \in f..Len(segs),
                     NEW n \in Nat \ {0}, NEW k \in Keys, NEW a \in Nat, a = segs[f].start,
                     a + n = segs[t].start + segs[t].num
              PROVE  LET w == <<Used(a, n, k)>>
                     IN  Covers(segs, f, t, w) /\ Usage(w) = {Used(a, n, k)}
  <2> DEFINE x == Used(a, n, k)
             w == <<x>>
  <2>0. n \in Nat
    OBVIOUS
  <2>1. x \in Segment /\ ~IsFree(x) /\ x.start = a /\ x.num = n
    BY <2>0, BufferAssumption DEF Used, IsFree, Segment
  <2> USE <1>CoverUsed
  <2> HIDE DEF x
  <2>2. w \in Seq(Segment) /\ Len(w) = 1 /\ DOMAIN w = {1} /\ w[1] = x /\ w # <<>>
    BY <2>1
  <2> HIDE DEF w
  <2>3. Chained(w) /\ Held(w) /\ End(w) = a + n
    BY <2>1, <2>2 DEF Chained, Held, End
  <2>4. Covers(segs, f, t, w)
    BY <2>1, <2>2, <2>3 DEF Covers
  <2>5. Usage(w) = {x}
    BY <2>1, <2>2 DEF Usage
  <2> QED BY <2>4, <2>5 DEF w, x

\* The least number of a set.
<1>MinIs. ASSUME NEW T \in SUBSET Nat, T # {}
          PROVE  Min(T) \in T /\ \A y \in T : Min(T) <= y
  BY <1>MinIs, LeastNat, Zenon DEF Min

\* Two segments one after the other.
<1>Joined. ASSUME NEW x \in Segment, NEW y \in Segment
           PROVE  <<x>> \o <<y>> = <<x, y>> /\ <<x>> \o <<>> = <<x>>
  <2> USE <1>Joined
  <2>1. /\ <<x>> \in Seq(Segment) /\ <<y>> \in Seq(Segment) /\ <<>> \in Seq(Segment)
        /\ Len(<<x>>) = 1 /\ Len(<<y>>) = 1 /\ <<x>>[1] = x /\ <<y>>[1] = y
        /\ <<x, y>> \in Seq(Segment) /\ Len(<<x, y>>) = 2 /\ <<x, y>>[1] = x /\ <<x, y>>[2] = y
    OBVIOUS
  <2>2. <<x>> \o <<>> = <<x>>
    BY <2>1
  <2> DEFINE a == <<x>>
             b == <<y>>
             c == <<x, y>>
  <2> HIDE DEF a, b, c
  <2>3. /\ a \in Seq(Segment) /\ b \in Seq(Segment) /\ Len(a) = 1 /\ Len(b) = 1 /\ a[1] = x /\ b[1] = y
        /\ c \in Seq(Segment) /\ Len(c) = 2 /\ c[1] = x /\ c[2] = y
    BY <2>1 DEF a, b, c
  <2>4. a \o b \in Seq(Segment) /\ Len(a \o b) = 2 /\ (a \o b)[1] = x /\ (a \o b)[2] = y
    <3>0. a \in Seq(Segment) /\ b \in Seq(Segment)
      BY <2>3
    <3>1. a \o b \in Seq(Segment) /\ Len(a \o b) = Len(a) + Len(b)
      BY <3>0
    <3>2. \A i \in 1..Len(a) + Len(b) : (a \o b)[i] = IF i <= Len(a) THEN a[i] ELSE b[i - Len(a)]
      BY <3>0
    <3> QED BY <3>1, <3>2, <2>3
  <2>5. a \o b = c
    <3> DEFINE d == a \o b
    <3> HIDE DEF d
    <3>1. d \in Seq(Segment) /\ Len(d) = 2 /\ d[1] = x /\ d[2] = y
      BY <2>4 DEF d
    <3>2. d = c
      <4>1. DOMAIN d = 1..2 /\ DOMAIN c = 1..2 /\ \A i \in 1..2 : i = 1 \/ i = 2
        BY <3>1, <2>3
      <4>2. \A i \in 1..2 : d[i] = c[i]
        BY <4>1, <3>1, <2>3
      <4> QED BY <4>1, <4>2, <3>1, <2>3
    <3> QED BY <3>2 DEF d
  <2> QED BY <2>2, <2>5 DEF a, b, c

\* A free segment that is large enough is taken, and only the new segment is added.
<1>TakeFreeIs. ASSUME NEW p, Sized(p), NEW s \in DOMAIN p.slabs, NEW n \in Nat \ {0}, NEW k \in Keys,
                      Fits(p.slabs[s], n) # {}
               PROVE  Taken(p, TakeFree(p, s, n, k), s, n, k)
  <2> USE <1>TakeFreeIs
  <2> DEFINE segs == p.slabs[s]
             i == Min(Fits(segs, n))
             a == segs[i].start
             b == a + n
             excess == segs[i].num - n
             rest == IF excess > 0 THEN <<Free(b, excess)>> ELSE <<>>
             w == <<Used(a, n, k)>> \o rest
             q == TakeFree(p, s, n, k)
  <2>1. p \in Pools /\ Slabs(p.slabs) /\ SumOf(Ends(p.slabs)) = p.allocated
    BY DEF Sized
  <2>2. Slab(segs)
    BY <2>1 DEF Slabs
  <2>3. i \in 1..Len(segs) /\ IsFree(segs[i]) /\ segs[i].num >= n
    <3>1. Fits(segs, n) \subseteq 1..Len(segs) /\ Len(segs) \in Nat
      BY <2>2, SlabType DEF Fits
    <3>2. Fits(segs, n) \in SUBSET Nat
      BY <3>1
    <3>3. i \in Fits(segs, n)
      BY <3>2, <1>MinIs
    <3> QED BY <3>1, <3>3 DEF Fits
  <2> HIDE DEF segs, i
  <2>4. a \in Nat /\ excess \in Nat /\ a = segs[i].start
        /\ b \in Nat /\ b = a + n /\ b + excess = segs[i].start + segs[i].num
    BY <2>2, <2>3, SlabType
  <2>5. i \in i..Len(segs) /\ i \in Nat /\ Len(segs) \in Nat
    BY <2>2, <2>3, SlabType
  <2>6. i < Len(segs) => ~IsFree(segs[i + 1])
    BY <2>2, <2>3, <2>5 DEF Slab, Chained
  <2> HIDE DEF a, b, excess
  <2>7. Covers(segs, i, i, w) /\ Usage(w) = {Used(a, n, k)}
    <3>1. /\ Used(a, n, k) \in Segment
          /\ Free(b, excess) \in Segment
      BY <2>4, <1>SegmentIs
    <3>2. CASE excess > 0
      <4>1. w = <<Used(a, n, k), Free(b, excess)>>
        BY <2>4, <3>1, <3>2, <1>Joined
      <4> HIDE DEF w
      <4>2. Room(segs, i, i, a, n, b, excess)
        BY <2>2, <2>3, <2>4, <2>5, <2>6, Zenon DEF Room
      <4> QED BY <4>1, <4>2, CoverBoth
    <3>3. CASE excess = 0
      <4>1. w = <<Used(a, n, k)>>
        BY <3>1, <3>3, <1>Joined
      <4>2. a + n = segs[i].start + segs[i].num
        BY <3>3, <2>4
      <4>3. Covers(segs, i, i, <<Used(a, n, k)>>) /\ Usage(<<Used(a, n, k)>>) = {Used(a, n, k)}
        BY <4>2, <2>2, <2>3, <2>4, <2>5, <1>CoverUsed
      <4> HIDE DEF w
      <4> QED BY <4>1, <4>3, Zenon
    <3> HIDE DEF w
    <3> QED BY <3>2, <3>3, <2>4
  <2> HIDE DEF w
  <2>8. q.order = Touch(p.order, k) /\ q.index = p.index /\ Spliced(p, q, s, i, i, w)
    <3> DEFINE r == [p.slabs EXCEPT ![s] = Splice(segs, i, i, w)]
               o == Touch(p.order, k)
    <3>1. q = [p EXCEPT !.slabs = r, !.order = o]
      BY <2>1, PoolType, Zenon DEF TakeFree, segs, i, a, b, excess, w
    <3> HIDE DEF q, r, o
    <3>2. q.slabs = r /\ q.order = o /\ q.index = p.index
      BY <2>1, <3>1 DEF Pools
    <3>3. q = [p EXCEPT !.slabs = q.slabs, !.order = q.order, !.index = q.index]
      BY <2>1, <3>1, <3>2, ZenonT(30) DEF Pools
    <3> QED BY <3>2, <3>3 DEF Spliced, r, o, segs
  <2>9. q.order \in Seq(Keys) /\ q.index \in SUBSET Keys
    BY <2>1, <2>8, PoolType, TouchIs
  <2> DEFINE new == New(s, w)
             kept == Holds(p.slabs) \ Replaced(p.slabs, s, i, i)
  <2> HIDE DEF q
  <2>10. /\ Sized(q) /\ q.unsized = p.unsized /\ q.pins = p.pins /\ q.result = p.result
         /\ Holds(q.slabs) = kept \cup new /\ kept \cap new = {}
    <3>1. i \in 1..Len(p.slabs[s]) /\ i \in i..Len(p.slabs[s]) /\ Covers(p.slabs[s], i, i, w)
      BY <2>3, <2>5, <2>7 DEF segs
    <3>2. Exchanged(p, q, s, i, i, w)
      BY <3>1, <2>8, <2>9, PoolSplice
    <3> QED BY <3>2, Zenon DEF Exchanged
  <2>11. new = {<<s, Used(a, n, k)>>}
    BY <2>7 DEF New
  <2>12. kept = Holds(p.slabs)
    <3>1. \A j \in i..i : j = i
      BY <2>5
    <3>2. <<s, segs[i]>> \notin Holds(p.slabs)
      BY <2>3, HoldsIs DEF Usage
    <3> QED BY <3>1, <3>2 DEF Replaced, segs
  <2> HIDE DEF new, kept
  <2> QED BY <2>4, <2>8, <2>10, <2>11, <2>12, Zenon DEF q, Taken

\* What a window is, in terms of the starts of its segments.
<1>WindowIs. ASSUME NEW p, Sized(p), NEW n \in Nat \ {0}, NEW w \in Windows(p, n),
                    NEW segs, segs = p.slabs[w[1]]
             PROVE  /\ w[1] \in DOMAIN p.slabs /\ Slab(segs)
                    /\ w[2] \in 1..Len(segs) /\ w[3] \in w[2]..Len(segs) /\ w[3] \in 1..Len(segs)
                    /\ w = <<w[1], w[2], w[3]>>
                    /\ Pages(segs, w[2], w[3]) = segs[w[3]].start + segs[w[3]].num - segs[w[2]].start
                    /\ Pages(segs, w[2], w[3]) >= n
                    /\ \A j \in w[2]..w[3] - 1 : Pages(segs, w[2], j) < n
                    /\ \A i \in w[2]..w[3] : ~IsFree(segs[i]) => p.pins[segs[i].key] = 0
  <2> USE <1>WindowIs
  <2> DEFINE f == w[2]
             t == w[3]
  <2>1. PICK u \in DOMAIN p.slabs : w \in {u} \X (DOMAIN p.slabs[u]) \X (DOMAIN p.slabs[u])
    BY DEF Windows
  <2>2. w[1] = u /\ w = <<w[1], w[2], w[3]>> /\ f \in DOMAIN segs /\ t \in DOMAIN segs
    BY <2>1
  <2>3. Slab(segs)
    BY <2>2 DEF Sized, Slabs
  <2>4. /\ f <= t /\ Pages(segs, f, t) >= n /\ Pages(segs, f, t - 1) < n
        /\ \A i \in f..t : ~IsFree(segs[i]) => p.pins[segs[i].key] = 0
    BY DEF Windows
  <2> HIDE DEF f, t
  <2>5. f \in 1..Len(segs) /\ t \in 1..Len(segs) /\ t \in f..Len(segs) /\ Len(segs) \in Nat
    BY <2>2, <2>3, <2>4, SlabType
  <2>6. ASSUME NEW j \in f..Len(segs)
        PROVE  Pages(segs, f, j) = segs[j].start + segs[j].num - segs[f].start
    <3>1. j \in f - 1..Len(segs) /\ ~(j < f)
      BY <2>5
    <3> QED BY <3>1, <2>3, <2>5, PagesIs
  <2>7. ASSUME NEW j \in f..t - 1 PROVE Pages(segs, f, j) < n
    <3>1. /\ j \in f..Len(segs) /\ t - 1 \in f..Len(segs) /\ j \in 1..Len(segs) /\ t - 1 \in 1..Len(segs)
          /\ j = t - 1 \/ j < t - 1
      BY <2>5
    <3>2. CASE j = t - 1
      BY <3>2, <2>4
    <3>3. CASE j < t - 1
      <4>1. segs[j].start + segs[j].num <= segs[t - 1].start
        BY <3>1, <3>3, <2>3, StartsGrow
      <4>2. /\ segs[j].start \in Nat /\ segs[j].num \in Nat /\ segs[f].start \in Nat
            /\ segs[t - 1].start \in Nat /\ segs[t - 1].num \in Nat
        BY <3>1, <2>3, <2>5, SlabType, Zenon
      <4>3. /\ Pages(segs, f, j) = segs[j].start + segs[j].num - segs[f].start
            /\ Pages(segs, f, t - 1) = segs[t - 1].start + segs[t - 1].num - segs[f].start
        BY <3>1, <2>6
      <4>4. Pages(segs, f, j) <= Pages(segs, f, t - 1) /\ Pages(segs, f, j) \in Int /\ Pages(segs, f, t - 1) \in Int
        BY <4>1, <4>2, <4>3
      <4> QED BY <4>4, <2>4
    <3> QED BY <3>1, <3>2, <3>3
  <2>8. Pages(segs, f, t) = segs[t].start + segs[t].num - segs[f].start
    BY <2>5, <2>6
  <2> QED BY <2>2, <2>3, <2>4, <2>5, <2>7, <2>8, Zenon DEF f, t

\* A window is known from where it starts.
<1>WindowUnique. ASSUME NEW p, Sized(p), NEW n \in Nat \ {0}, NEW v \in Windows(p, n), NEW w \in Windows(p, n),
                        v[1] = w[1], v[2] = w[2]
                 PROVE  v = w
  <2> USE <1>WindowUnique
  <2> DEFINE segs == p.slabs[w[1]]
             f == w[2]
             t == w[3]
             u == v[3]
  <2>1. /\ f \in 1..Len(segs) /\ t \in f..Len(segs) /\ w = <<w[1], f, t>>
        /\ Pages(segs, f, t) >= n /\ \A j \in f..t - 1 : Pages(segs, f, j) < n
        /\ Slab(segs) /\ Pages(segs, f, t) = segs[t].start + segs[t].num - segs[f].start
        /\ t \in 1..Len(segs)
    BY <1>WindowIs
  <2>2. /\ u \in f..Len(segs) /\ v = <<w[1], f, u>>
        /\ Pages(segs, f, u) >= n /\ \A j \in f..u - 1 : Pages(segs, f, j) < n
        /\ Pages(segs, f, u) = segs[u].start + segs[u].num - segs[f].start
        /\ u \in 1..Len(segs)
    BY <1>WindowIs
  <2>3. /\ Len(segs) \in Nat
        /\ segs[t].start \in Nat /\ segs[t].num \in Nat /\ segs[f].start \in Nat
        /\ segs[u].start \in Nat /\ segs[u].num \in Nat
    BY <2>1, <2>2, SlabType, Zenon
  <2> HIDE DEF segs, f, t, u
  <2>4. Pages(segs, f, t) \in Int /\ Pages(segs, f, u) \in Int
    <3>1. segs[t].start + segs[t].num - segs[f].start \in Int
      BY <2>3
    <3>2. segs[u].start + segs[u].num - segs[f].start \in Int
      BY <2>3
    <3> QED BY <3>1, <3>2, <2>1, <2>2, Zenon
  <2>5. f \in Nat /\ t \in Nat /\ u \in Nat
    BY <2>1, <2>2, <2>3
  <2>6. ASSUME u < t PROVE FALSE
    <3>1. u \in f..t - 1
      BY <2>2, <2>5, <2>6
    <3> QED BY <3>1, <2>1, <2>2, <2>4
  <2>7. ASSUME t < u PROVE FALSE
    <3>1. t \in f..u - 1
      BY <2>1, <2>5, <2>7
    <3> QED BY <3>1, <2>1, <2>2, <2>4
  <2>8. u = t
    BY <2>5, <2>6, <2>7
  <2> QED BY <2>1, <2>2, <2>8, Zenon

\* The greatest number of a set.
<1>MaxIs. ASSUME NEW m \in Nat, NEW T \in SUBSET (0..m), T # {}
          PROVE  Max(T) \in T
  <2> USE <1>MaxIs
  <2> DEFINE U == {m - x : x \in T}
  <2>1. U \in SUBSET Nat /\ U # {}
    <3>1. \A x \in T : x \in 0..m
      OBVIOUS
    <3>2. \A x \in T : m - x \in Nat
      BY <3>1
    <3> QED BY <3>2, Zenon
  <2>2. PICK y \in U : \A z \in U : y <= z
    <3> HIDE DEF U
    <3> QED BY <2>1, LeastNat
  <2>3. PICK x \in T : y = m - x
    BY <2>2
  <2>4. \A z \in T : x >= z
    BY <2>2, <2>3
  <2> QED BY <2>3, <2>4, Zenon DEF Max

\* The score of a window is a position in the order, or 0.
<1>ScoreType. ASSUME NEW p \in Pools, NEW w
              PROVE  Score(p, w) \in Nat
  <2> USE <1>ScoreType
  <2> DEFINE R == {r \in DOMAIN p.order : \E i \in w[2]..w[3] : p.order[r] = p.slabs[w[1]][i].key}
             T == {0} \cup R
  <2>1. p.order \in Seq(Keys)
    BY PoolType
  <2>2. Len(p.order) \in Nat /\ DOMAIN p.order = 1..Len(p.order)
    BY <2>1
  <2>3. R \subseteq 1..Len(p.order)
    BY <2>2
  <2> HIDE DEF R
  <2>4. T \in SUBSET (0..Len(p.order)) /\ T # {}
    BY <2>2, <2>3
  <2>5. Max(T) \in T
    <3> HIDE DEF T
    <3> QED BY <2>2, <2>4, <1>MaxIs, Zenon
  <2>6. Max(T) \in Nat
    BY <2>2, <2>4, <2>5
  <2> QED BY <2>6, Zenon DEF Score, R

\* The window that eviction chooses is one.
<1>BestIs. ASSUME NEW p, Sized(p), NEW n \in Nat \ {0}, Windows(p, n) # {}
           PROVE  Best(p, n) \in Windows(p, n)
  <2> USE <1>BestIs
  <2> DEFINE W == Windows(p, n)
             A == {Score(p, w) : w \in W}
  <2>1. ASSUME NEW w \in W PROVE Score(p, w) \in Nat /\ w[1] \in Nat /\ w[2] \in Nat
    <3>1. Score(p, w) \in Nat
      BY <1>ScoreType DEF Sized
    <3>2. w[1] \in DOMAIN p.slabs /\ w[2] \in 1..Len(p.slabs[w[1]])
      BY <1>WindowIs
    <3>3. p.slabs \in Seq(Seq(Segment))
      BY DEF Sized, Slabs
    <3> QED BY <3>1, <3>2, <3>3
  <2> HIDE DEF W
  <2>2. A \in SUBSET Nat /\ A # {}
    BY <2>1 DEF W
  <2>3. PICK a \in A : \A y \in A : a <= y
    <3> HIDE DEF A
    <3> QED BY <2>2, LeastNat
  <2> DEFINE V == {w \in W : Score(p, w) = a}
             B == {w[1] : w \in V}
  <2>4. B \in SUBSET Nat /\ B # {}
    BY <2>1, <2>3
  <2>5. PICK b \in B : \A y \in B : b <= y
    <3> HIDE DEF B
    <3> QED BY <2>4, LeastNat
  <2> DEFINE U == {w \in V : w[1] = b}
             C == {w[2] : w \in U}
  <2>6. C \in SUBSET Nat /\ C # {}
    BY <2>1, <2>5
  <2>7. PICK c \in C : \A y \in C : c <= y
    <3> HIDE DEF C
    <3> QED BY <2>6, LeastNat
  <2>8. PICK w \in W : Score(p, w) = a /\ w[1] = b /\ w[2] = c
    BY <2>7
  <2>9. ASSUME NEW v \in W \ {w}
        PROVE  Score(p, w) < Score(p, v) \/ (Score(p, w) = Score(p, v) /\ Before(w, v))
    <3>1. a <= Score(p, v) /\ a \in Nat /\ Score(p, v) \in Nat
      BY <2>1, <2>2, <2>3
    <3>2. CASE Score(p, v) = a
      <4>1. b <= v[1] /\ b \in Nat /\ v[1] \in Nat
        BY <3>2, <2>1, <2>4, <2>5
      <4>2. CASE v[1] = b
        <5>1. c <= v[2] /\ c \in Nat /\ v[2] \in Nat
          BY <3>2, <4>2, <2>1, <2>6, <2>7
        <5>2. v[2] # c
          BY <4>2, <2>8, <1>WindowUnique DEF W
        <5> QED BY <3>2, <4>2, <5>1, <5>2, <2>8 DEF Before
      <4>3. CASE v[1] # b
        BY <3>2, <4>1, <4>3, <2>8 DEF Before
      <4> QED BY <4>2, <4>3
    <3>3. CASE Score(p, v) # a
      BY <3>1, <3>3, <2>8
    <3> QED BY <3>2, <3>3
  <2> QED BY <2>8, <2>9, Zenon DEF Best, W

\* Eviction takes a run of segments that nobody has pinned.
<1>EvictIs. ASSUME NEW p, Sized(p), \A g \in Keys : Single(p.slabs, g), p.result = "ok",
                   NEW n \in Nat \ {0}, NEW k \in Keys, NEW w \in Windows(p, n)
            PROVE  \E s, a, gone : a \in Nat /\ Allocated(p, Evict(p, w, n, k), n, k, s, a, gone)
  <2> USE <1>EvictIs
  <2> DEFINE s == w[1]
             f == w[2]
             t == w[3]
             segs == p.slabs[s]
             gone == {segs[i].key : i \in f..t} \ {None}
             a == segs[f].start
             b == a + n
             excess == Pages(segs, f, t) - n
             joins == excess > 0 /\ t < Len(segs) /\ IsFree(segs[t + 1])
             more == excess + IF joins THEN segs[t + 1].num ELSE 0
             rest == IF excess = 0 THEN <<>> ELSE <<Free(b, more)>>
             z == <<Used(a, n, k)>> \o rest
             u == IF joins THEN t + 1 ELSE t
             q == Evict(p, w, n, k)
  <2>1. /\ s \in DOMAIN p.slabs /\ Slab(segs)
        /\ f \in 1..Len(segs) /\ t \in f..Len(segs) /\ t \in 1..Len(segs)
        /\ Pages(segs, f, t) = segs[t].start + segs[t].num - a
        /\ Pages(segs, f, t) >= n
        /\ \A i \in f..t : ~IsFree(segs[i]) => p.pins[segs[i].key] = 0
    BY <1>WindowIs
  <2>2. p \in Pools
    BY DEF Sized
  <2>3. q = [p EXCEPT !.slabs = [p.slabs EXCEPT ![s] = Splice(segs, f, u, z)],
                      !.index = p.index \ gone, !.order = Touch(Without(p.order, gone), k)]
    BY <2>2, PoolType, Zenon DEF Evict
  <2> HIDE DEF s, f, t, segs, q
  <2>4. /\ Len(segs) \in Nat /\ f \in Nat /\ t \in Nat /\ f <= t /\ t <= Len(segs)
        /\ \A i \in 1..Len(segs) : /\ segs[i] \in Segment /\ segs[i].start \in Nat /\ segs[i].num \in Nat
                                   /\ segs[i].key \in Keys \cup {None}
    BY <2>1, SlabType
  <2>5. /\ a \in Nat /\ b \in Nat /\ b = a + n /\ excess \in Nat /\ a = segs[f].start
        /\ b + excess = segs[t].start + segs[t].num
    <3>1. a \in Nat /\ segs[t].start \in Nat /\ segs[t].num \in Nat
      BY <2>1, <2>4
    <3> DEFINE x == segs[t].start
               y == segs[t].num
               g == Pages(segs, f, t)
    <3>2. a \in Nat /\ x \in Nat /\ y \in Nat /\ g = x + y - a /\ g >= n
      BY <3>1, <2>1
    <3> HIDE DEF a, x, y, g
    <3>3. a + n \in Nat /\ g - n \in Nat /\ (a + n) + (g - n) = x + y
      BY <3>2
    <3> QED BY <3>2, <3>3 DEF x, y, g, a
  <2> HIDE DEF a, b, excess
  <2>6. /\ u \in 1..Len(segs) /\ u \in f..Len(segs) /\ u \in Nat
        /\ Covers(segs, f, u, z) /\ Usage(z) = {Used(a, n, k)}
    <3>1. CASE excess = 0
      <4>1. u = t /\ z = <<Used(a, n, k)>>
        <5>1. Used(a, n, k) \in Segment
          BY <2>5, <1>SegmentIs, Zenon
        <5>2. ~joins /\ rest = <<>>
          BY <3>1
        <5> HIDE DEF joins, rest
        <5> QED BY <5>1, <5>2, <1>Joined
      <4>2. a + n = segs[t].start + segs[t].num
        BY <3>1, <2>5
      <4> HIDE DEF u, z
      <4>3. Covers(segs, f, t, z) /\ Usage(z) = {Used(a, n, k)}
        <5>1. Covers(segs, f, t, <<Used(a, n, k)>>) /\ Usage(<<Used(a, n, k)>>) = {Used(a, n, k)}
          <6>1. Slab(segs) /\ f \in 1..Len(segs) /\ t \in f..Len(segs)
            BY <2>1
          <6>2. a \in Nat /\ a = segs[f].start
            BY <2>5
          <6> QED BY <6>1, <6>2, <4>2, <1>CoverUsed
        <5> QED BY <5>1, <4>1, Zenon
      <4> QED BY <4>1, <4>3, <2>1, <2>4
    <3>2. CASE excess > 0
      <4>1. /\ u \in 1..Len(segs) /\ u \in f..Len(segs) /\ u \in Nat
            /\ more \in Nat /\ b + more = segs[u].start + segs[u].num
            /\ u < Len(segs) => ~IsFree(segs[u + 1])
        <5>1. CASE joins
          <6>1. t \in 1..Len(segs) - 1 /\ t + 1 \in 1..Len(segs)
            BY <2>4, <2>1, <5>1
          <6>2. segs[t + 1].start = segs[t].start + segs[t].num /\ segs[t + 1].num \in Nat
            BY <2>1, <2>4, <6>1 DEF Slab, Chained
          <6>3. u = t + 1 /\ more = excess + segs[t + 1].num
            BY <5>1
          <6>4. t + 1 < Len(segs) => ~IsFree(segs[t + 1 + 1])
            <7>1. SUFFICES ASSUME t + 1 < Len(segs) PROVE ~IsFree(segs[t + 1 + 1])
              OBVIOUS
            <7>2. t + 1 \in 1..Len(segs) - 1
              BY <6>1, <7>1, <2>4
            <7> QED BY <7>2, <5>1, <2>1 DEF Slab, Chained
          <6>5. segs[t].start \in Nat /\ segs[t].num \in Nat
            BY <2>1, <2>4
          <6> HIDE DEF u, more
          <6>6. b + (excess + segs[t + 1].num) = segs[t + 1].start + segs[t + 1].num
            BY <6>2, <6>5, <2>5
          <6>7. t + 1 \in f..Len(segs) /\ t + 1 \in Nat /\ excess + segs[t + 1].num \in Nat
            <7>1. f \in Nat /\ t \in Nat /\ f <= t /\ Len(segs) \in Nat
              BY <2>4
            <7>2. excess \in Nat
              BY <2>5
            <7> QED BY <6>1, <6>2, <7>1, <7>2
          <6> QED BY <6>1, <6>3, <6>4, <6>6, <6>7, Zenon
        <5>2. CASE ~joins
          <6>1. u = t /\ more = excess
            BY <5>2, <2>5
          <6> QED BY <6>1, <5>2, <3>2, <2>1, <2>4, <2>5
        <5> HIDE DEF joins
        <5> QED BY <5>1, <5>2
      <4> HIDE DEF u, more
      <4>2. z = <<Used(a, n, k), Free(b, more)>>
        <5>1. Used(a, n, k) \in Segment /\ Free(b, more) \in Segment
          BY <4>1, <2>5, <1>SegmentIs, ZenonT(30)
        <5>2. rest = <<Free(b, more)>>
          BY <3>2, <2>5
        <5> HIDE DEF rest
        <5> QED BY <5>1, <5>2, <1>Joined
      <4> HIDE DEF z
      <4>3. Covers(segs, f, u, z) /\ Usage(z) = {Used(a, n, k)}
        <5>1. /\ b + more = segs[u].start + segs[u].num /\ u \in f..Len(segs)
              /\ u < Len(segs) => ~IsFree(segs[u + 1])
          BY <4>1
        <5>2. Slab(segs) /\ f \in 1..Len(segs) /\ a = segs[f].start /\ b = a + n
          BY <2>1, <2>5
        <5>3. a \in Nat /\ b \in Nat /\ more \in Nat
          BY <4>1, <2>5
        <5>4. Room(segs, f, u, a, n, b, more)
          BY <5>1, <5>2, <5>3, Zenon DEF Room
        <5> QED BY <4>2, <5>4, CoverBoth
      <4> QED BY <4>1, <4>3
    <3> HIDE DEF u, z
    <3> QED BY <3>1, <3>2, <2>5
  <2>7. ASSUME NEW i \in f..u, ~IsFree(segs[i]) PROVE i \in f..t
    BY <2>4, <2>6, <2>7
  <2> HIDE DEF u, z
  <2> DEFINE o == Touch(Without(p.order, gone), k)
  <2>8. /\ q.order = o /\ q.index = p.index \ gone /\ Spliced(p, q, s, f, u, z)
    <3> DEFINE r == [p.slabs EXCEPT ![s] = Splice(segs, f, u, z)]
               d == p.index \ gone
    <3>1. q = [p EXCEPT !.slabs = r, !.index = d, !.order = o]
      BY <2>3
    <3> HIDE DEF r, o, d
    <3>2. q.slabs = r /\ q.order = o /\ q.index = d
      BY <2>2, <3>1 DEF Pools
    <3>3. q = [p EXCEPT !.slabs = q.slabs, !.order = q.order, !.index = q.index]
      BY <2>2, <3>1, <3>2, ZenonT(30) DEF Pools
    <3> QED BY <3>2, <3>3, Zenon DEF Spliced, r, d, segs
  <2>9. /\ q.order \in Seq(Keys) /\ q.index \in SUBSET Keys
        /\ Touched(q.order) = (Touched(p.order) \ gone) \cup {k}
    <3>1. p.order \in Seq(Keys) /\ p.index \in SUBSET Keys
      BY <2>2, PoolType
    <3>2. Without(p.order, gone) \in Seq(Keys) /\ Touched(Without(p.order, gone)) = Touched(p.order) \ gone
      BY <3>1, WithoutIs
    <3>3. o \in Seq(Keys) /\ Touched(o) = Touched(Without(p.order, gone)) \cup {k}
      BY <3>2, TouchIs, ZenonT(30)
    <3> HIDE DEF o, gone
    <3> QED BY <3>1, <3>2, <3>3, <2>8
  <2> DEFINE new == New(s, z)
             kept == Holds(p.slabs) \ Replaced(p.slabs, s, f, u)
             left == {h \in Holds(p.slabs) : h[2].key \notin gone}
  <2>10. /\ Sized(q) /\ q.unsized = p.unsized /\ q.pins = p.pins /\ q.result = p.result
         /\ Holds(q.slabs) = kept \cup new /\ kept \cap new = {}
    <3>1. /\ f \in 1..Len(p.slabs[s]) /\ u \in f..Len(p.slabs[s]) /\ Covers(p.slabs[s], f, u, z)
          /\ s \in DOMAIN p.slabs
      BY <2>1, <2>6 DEF segs
    <3>2. Exchanged(p, q, s, f, u, z)
      BY <3>1, <2>8, <2>9, PoolSplice
    <3> QED BY <3>2, Zenon DEF Exchanged
  <2>11. new = {<<s, Used(a, n, k)>>}
    BY <2>6 DEF New
  <2>12. ASSUME NEW g \in gone
         PROVE  \E i \in f..t : /\ segs[i].key = g /\ ~IsFree(segs[i]) /\ i \in 1..Len(segs)
                                /\ <<s, segs[i]>> \in Holds(p.slabs) /\ g \in Keys
    <3>1. PICK i \in f..t : segs[i].key = g
      OBVIOUS
    <3>2. i \in 1..Len(segs) /\ g # None
      <4>1. g # None
        OBVIOUS
      <4> HIDE DEF gone
      <4>2. f \in 1..Len(segs) /\ t \in 1..Len(segs) /\ Len(segs) \in Nat
        BY <2>1, <2>4
      <4> QED BY <4>1, <4>2
    <3>3. ~IsFree(segs[i]) /\ g \in Keys
      BY <3>1, <3>2, <2>4 DEF IsFree
    <3>4. segs[i] \in Usage(segs)
      BY <3>2, <3>3, <2>1, SlabType DEF Usage
    <3>5. <<s, segs[i]>> \in Holds(p.slabs)
      BY <3>4, <2>1, HoldsIs DEF segs
    <3> QED BY <3>1, <3>2, <3>3, <3>5
  <2>13. ASSUME NEW h \in Holds(p.slabs)
         PROVE  h \in Replaced(p.slabs, s, f, u) <=> h[2].key \in gone
    <3>1. ASSUME h \in Replaced(p.slabs, s, f, u) PROVE h[2].key \in gone
      <4>1. PICK i \in f..u : h = <<s, segs[i]>>
        BY <3>1 DEF Replaced, segs
      <4>2. ~IsFree(segs[i])
        <5>1. PICK v, x : v \in DOMAIN p.slabs /\ x \in Usage(p.slabs[v]) /\ h = <<v, x>>
          BY HoldsIs
        <5> QED BY <5>1, <4>1 DEF Usage
      <4>3. i \in f..t
        BY <4>2, <2>7
      <4> QED BY <4>1, <4>2, <4>3 DEF IsFree
    <3>2. ASSUME h[2].key \in gone PROVE h \in Replaced(p.slabs, s, f, u)
      <4>1. PICK i \in f..t : /\ segs[i].key = h[2].key /\ <<s, segs[i]>> \in Holds(p.slabs)
                              /\ h[2].key \in Keys /\ ~IsFree(segs[i])
        BY <3>2, <2>12, ZenonT(30)
      <4>2. h = <<s, segs[i]>>
        BY <4>1 DEF Single
      <4>3. i \in f..u
        BY <2>4, <2>6 DEF u
      <4> QED BY <4>2, <4>3 DEF Replaced, segs
    <3> QED BY <3>1, <3>2
  <2>14. kept = left
    BY <2>13
  <2>15. gone \subseteq InSlabs(p.slabs) /\ \A g \in gone : g \in Keys /\ p.pins[g] = 0
    <3> SUFFICES ASSUME NEW g \in gone PROVE g \in InSlabs(p.slabs) /\ g \in Keys /\ p.pins[g] = 0
      OBVIOUS
    <3>1. PICK i \in f..t : /\ segs[i].key = g /\ ~IsFree(segs[i]) /\ <<s, segs[i]>> \in Holds(p.slabs)
                            /\ g \in Keys
      BY <2>12, ZenonT(30)
    <3>2. g \in InSlabs(p.slabs)
      BY <3>1, KeysHeld
    <3> QED BY <3>1, <3>2, <2>1
  <2> HIDE DEF new, kept, left, gone
  <2>16. Allocated(p, q, n, k, s, a, gone)
    BY <2>8, <2>9, <2>10, <2>11, <2>14, <2>15 DEF Allocated, left
  <2> QED BY <2>5, <2>16 DEF q

\* The size is limited to what is left of the pool.
<1>LimitedIs. ASSUME NEW p, NEW q \in Pools, Same(p, q), q.result = p.result
              PROVE  Retried(p, Limited(q))
  <2> USE <1>LimitedIs
  <2>1. q.cur \in 0..MaxSlab /\ q.allocated \in 0..PoolPages /\ MaxSlab \in Nat /\ PoolPages \in Nat
    BY PoolType, BufferAssumption
  <2>2. CASE MayAdd(q)
    <3> DEFINE T == {q.cur, PoolPages - q.allocated}
               m == Min(T)
               r == [q EXCEPT !.cur = m]
    <3>1. T \in SUBSET Nat /\ T # {} /\ q.cur \in T /\ PoolPages - q.allocated \in T
      BY <2>1
    <3>2. m \in T /\ \A y \in T : m <= y
      <4> HIDE DEF T
      <4> QED BY <3>1, <1>MinIs
    <3>3. m \in 0..MaxSlab /\ m <= PoolPages - q.allocated
      BY <3>1, <3>2, <2>1
    <3>4. Limited(q) = r
      BY <2>2, Zenon DEF Limited
    <3> HIDE DEF m
    <3>5. r \in Pools
      BY <3>3, Zenon DEF Pools
    <3>6. /\ r.slabs = q.slabs /\ r.unsized = q.unsized /\ r.index = q.index /\ r.pins = q.pins
          /\ r.order = q.order /\ r.allocated = q.allocated /\ r.result = q.result /\ r.cur = m
      BY DEF Pools
    <3> HIDE DEF r
    <3>7. Same(p, r) /\ Ready(r)
      BY <3>3, <3>6 DEF Same, Ready
    <3> QED BY <3>4, <3>5, <3>6, <3>7 DEF Retried
  <2>3. CASE ~MayAdd(q)
    <3>1. Limited(q) = q
      BY <2>3, Zenon DEF Limited
    <3> QED BY <3>1, <2>3 DEF Retried, Ready
  <2> QED BY <2>2, <2>3

\* A failed attempt leaves everything but the size of the next one.
<1>SlabFailedIs. ASSUME NEW p, NEW q, Retried(p, q), NEW n \in Nat, Attempts(q, n)
                 PROVE  Retried(p, SlabFailed(q, n))
  <2> USE <1>SlabFailedIs
  <2> DEFINE half == q.cur \div 2
             r == IF n > half /\ q.cur # n THEN [q EXCEPT !.cur = n]
                  ELSE [q EXCEPT !.cur = half, !.capped = half < MinSlab]
  <2>1. q \in Pools /\ Same(p, q) /\ q.result = p.result /\ n <= q.cur
    BY DEF Retried, Attempts
  <2>2. q.cur \in 0..MaxSlab /\ MaxSlab \in Nat /\ MinSlab \in Nat
    BY <2>1, PoolType, BufferAssumption
  <2>3. half \in 0..MaxSlab /\ n \in 0..MaxSlab /\ (half < MinSlab) \in BOOLEAN
    BY <2>1, <2>2
  <2>4. SlabFailed(q, n) = Limited(r)
    BY Zenon DEF SlabFailed
  <2> HIDE DEF half
  <2>5. r \in Pools /\ Same(p, r) /\ r.result = p.result
    <3>1. CASE n > half /\ q.cur # n
      <4> DEFINE v == [q EXCEPT !.cur = n]
      <4>1. r = v
        BY <3>1, Zenon
      <4>2. v \in Pools
        BY <2>1, <2>3, Zenon DEF Pools
      <4>3. /\ v.slabs = q.slabs /\ v.unsized = q.unsized /\ v.index = q.index /\ v.pins = q.pins
            /\ v.order = q.order /\ v.allocated = q.allocated /\ v.result = q.result
        BY <2>1 DEF Pools
      <4> HIDE DEF r, v
      <4> QED BY <4>1, <4>2, <4>3, <2>1 DEF Same
    <3>2. CASE ~(n > half /\ q.cur # n)
      <4> DEFINE c == half < MinSlab
                 v == [q EXCEPT !.cur = half, !.capped = c]
      <4>1. r = v
        BY <3>2, Zenon
      <4>2. c \in BOOLEAN
        BY <2>3
      <4> HIDE DEF c
      <4>3. v \in Pools
        BY <2>1, <2>3, <4>2, Zenon DEF Pools
      <4>4. /\ v.slabs = q.slabs /\ v.unsized = q.unsized /\ v.index = q.index /\ v.pins = q.pins
            /\ v.order = q.order /\ v.allocated = q.allocated /\ v.result = q.result
        BY <2>1 DEF Pools
      <4> HIDE DEF r, v
      <4> QED BY <4>1, <4>3, <4>4, <2>1 DEF Same
    <3> QED BY <3>1, <3>2, Zenon
  <2> HIDE DEF r
  <2> QED BY <2>4, <2>5, <1>LimitedIs, Zenon

\* After some failed attempts a slab is added, or no further attempt is made.
<1>AddSlabIs. ASSUME NEW p \in Pools, NEW n \in Nat, NEW k, NEW r \in AddSlab(p, n, k)
              PROVE  \E q : /\ Retried(p, q)
                            /\ r = IF Attempts(q, n) THEN SlabAdded(q, n, k) ELSE [q EXCEPT !.result = "full"]
  <2> USE <1>AddSlabIs
  <2> DEFINE m == MaxSlab
             S == {q \in Pools : Retried(p, q)}
             base == Limited(p)
             after(q) == IF Attempts(q, n) THEN SlabFailed(q, n) ELSE q
             step == [i \in 1..m |-> [q \in S |-> after(q)]]
             def(g) == [i \in 0..m |-> IF i = 0 THEN Limited(p)
                                       ELSE IF Attempts(g[i - 1], n) THEN SlabFailed(g[i - 1], n)
                                       ELSE g[i - 1]]
             f == CHOOSE g : g = def(g)
  <2>1. m \in Nat
    BY BufferAssumption
  <2>2. ASSUME NEW q \in S PROVE after(q) \in S
    <3>1. CASE Attempts(q, n)
      <4>1. Retried(p, SlabFailed(q, n))
        BY <3>1, <1>SlabFailedIs
      <4>2. SlabFailed(q, n) \in S
        BY <4>1 DEF Retried
      <4> QED BY <3>1, <4>2, Zenon
    <3>2. CASE ~Attempts(q, n)
      BY <3>2, Zenon
    <3> QED BY <3>1, <3>2
  <2>3. base \in S
    <3>1. Same(p, p)
      BY DEF Same
    <3>2. Retried(p, Limited(p))
      BY <3>1, <1>LimitedIs
    <3> QED BY <3>2 DEF Retried
  <2> HIDE DEF S, after, base
  <2>4. step \in [1..m -> [S -> S]]
    BY <2>2
  <2>5. PICK e : Follows(e, m, S, base, step)
    <3> HIDE DEF m, step
    <3> QED BY <2>1, <2>3, <2>4, RecursionExists, Zenon
  <2>6. e \in [0..m -> S] /\ e[0] = base /\ \A i \in 1..m : e[i] = step[i][e[i - 1]]
    BY <2>5 DEF Follows
  <2>7. \A i \in 1..m : i - 1 \in 0..m /\ i \in 0..m /\ i # 0
    BY <2>1
  <2>8. \A i \in 1..m : e[i] = after(e[i - 1])
    <3> TAKE i \in 1..m
    <3>1. e[i - 1] \in S
      BY <2>6, <2>7
    <3>2. step[i][e[i - 1]] = after(e[i - 1])
      BY <3>1, Zenon
    <3> HIDE DEF step
    <3> QED BY <3>2, <2>6, Zenon
  <2>9. e = def(e)
    <3>1. \A i \in 0..m : i = 0 \/ i \in 1..m
      BY <2>1
    <3>2. \A i \in 0..m : e[i] = IF i = 0 THEN Limited(p)
                                 ELSE IF Attempts(e[i - 1], n) THEN SlabFailed(e[i - 1], n)
                                 ELSE e[i - 1]
      BY <3>1, <2>6, <2>7, <2>8, Zenon DEF after, base
    <3>3. e = [i \in 0..m |-> e[i]]
      BY <2>6
    <3> QED BY <3>2, <3>3, Zenon
  <2>10. f = def(f)
    <3> HIDE DEF def
    <3> QED BY <2>9, Zenon
  <2>11. f[0] = base /\ \A i \in 1..m : f[i] = after(f[i - 1])
    <3> HIDE DEF f
    <3>1. \A i \in 0..m : f[i] = IF i = 0 THEN Limited(p)
                                 ELSE IF Attempts(f[i - 1], n) THEN SlabFailed(f[i - 1], n)
                                 ELSE f[i - 1]
      BY <2>10, Zenon
    <3>2. 0 \in 0..m
      BY <2>1
    <3> QED BY <3>1, <3>2, <2>7, Zenon DEF after, base
  <2>12. \A i \in 0..m : f[i] \in S
    <3> DEFINE T == {i \in 0..m : f[i] \in S}
    <3> HIDE DEF f
    <3>1. 0 \in T
      BY <2>1, <2>3, <2>11
    <3>2. \A i \in 1..m : i - 1 \in T => i \in T
      BY <2>2, <2>7, <2>11, Zenon
    <3>3. \A i \in 0..m : i \in T
      <4> HIDE DEF T, m
      <4> QED BY <2>1, <3>1, <3>2, UpTo, Zenon
    <3> QED BY <3>3
  <2>13. AddSlab(p, n, k) = {IF Attempts(q, n) THEN SlabAdded(q, n, k) ELSE [q EXCEPT !.result = "full"] :
                               q \in {f[i] : i \in 0..m}}
    BY Zenon DEF AddSlab
  <2> HIDE DEF f
  <2>14. PICK i \in 0..m : r = IF Attempts(f[i], n) THEN SlabAdded(f[i], n, k)
                               ELSE [f[i] EXCEPT !.result = "full"]
    BY <2>13, Zenon
  <2>15. Retried(p, f[i])
    BY <2>12 DEF S
  <2> QED BY <2>14, <2>15, Zenon

\* Such a slab holds nothing.
<1>HoldsMore. ASSUME NEW ss, NEW r, NEW m, More(ss, r, m)
              PROVE  Holds(r) = Holds(ss)
  <2> USE <1>HoldsMore
  <2>1. ASSUME NEW h \in Holds(r) PROVE h \in Holds(ss)
    <3>1. PICK s, y : s \in DOMAIN r /\ y \in Usage(r[s]) /\ h = <<s, y>>
      BY HoldsIs
    <3>2. s \in DOMAIN ss /\ r[s] = ss[s]
      BY <3>1 DEF More
    <3> QED BY <3>1, <3>2, HoldsIs
  <2>2. ASSUME NEW h \in Holds(ss) PROVE h \in Holds(r)
    <3>1. PICK s, y : s \in DOMAIN ss /\ y \in Usage(ss[s]) /\ h = <<s, y>>
      BY HoldsIs
    <3>2. s \in DOMAIN r /\ r[s] = ss[s]
      BY <3>1 DEF More
    <3> QED BY <3>1, <3>2, HoldsIs
  <2> QED BY <2>1, <2>2

\* A new slab is one free segment; nobody holds anything in it.
<1>SlabsAppend. ASSUME NEW ss, Slabs(ss), NEW c \in 0..MaxSlab, NEW r, r = Append(ss, <<Free(0, c)>>)
                PROVE  /\ Slabs(r) /\ SumOf(Ends(r)) = SumOf(Ends(ss)) + c /\ Holds(r) = Holds(ss)
                       /\ Len(ss) + 1 \in DOMAIN r /\ r[Len(ss) + 1] = <<Free(0, c)>>
  <2> USE <1>SlabsAppend
  <2> DEFINE x == Free(0, c)
             g == <<x>>
             n == Len(ss)
  <2>1. x \in Segment /\ IsFree(x) /\ x.start = 0 /\ x.num = c /\ c \in Nat /\ c <= MaxSlab
    BY BufferAssumption DEF Free, IsFree, Segment
  <2> HIDE DEF x
  <2>2. g \in Seq(Segment) /\ Len(g) = 1 /\ DOMAIN g = {1} /\ g[1] = x /\ g # <<>>
    BY <2>1
  <2> HIDE DEF g
  <2>3. Slab(g) /\ End(g) = c /\ Usage(g) = {}
    <3>1. Chained(g) /\ Held(g)
      BY <2>1, <2>2 DEF Chained, Held
    <3>2. End(g) = c
      BY <2>1, <2>2 DEF End
    <3>3. Usage(g) = {}
      BY <2>1, <2>2 DEF Usage
    <3> QED BY <3>1, <3>2, <3>3, <2>1, <2>2 DEF Slab
  <2>4. ss \in Seq(Seq(Segment)) /\ n \in Nat /\ DOMAIN ss = 1..n
    BY DEF Slabs
  <2>5. /\ r \in Seq(Seq(Segment)) /\ DOMAIN r = 1..n + 1 /\ r[n + 1] = g
        /\ \A i \in 1..n : r[i] = ss[i]
    <3>1. r = Append(ss, g)
      BY DEF g, x
    <3> QED BY <3>1, <2>2, <2>4
  <2>6. \A i : i \in DOMAIN r <=> i \in DOMAIN ss \/ i = n + 1
    BY <2>4, <2>5
  <2>7. Slabs(r)
    <3>1. ASSUME NEW i \in DOMAIN r PROVE Slab(r[i]) /\ End(r[i]) <= MaxSlab
      <4>1. CASE i = n + 1
        BY <4>1, <2>1, <2>3, <2>5
      <4>2. CASE i \in DOMAIN ss
        BY <4>2, <2>4, <2>5 DEF Slabs
      <4> QED BY <4>1, <4>2, <2>6
    <3> QED BY <3>1, <2>5 DEF Slabs
  <2>8. Ends(ss) \in Seq(Int)
    <3>1. \A i \in 1..n : End(ss[i]) \in Int
      <4> TAKE i \in 1..n
      <4>1. Slab(ss[i])
        BY <2>4, Zenon DEF Slabs
      <4> QED BY <4>1, SlabType
    <3>2. Ends(ss) = [i \in 1..n |-> End(ss[i])]
      BY <2>4 DEF Ends
    <3> QED BY <3>1, <3>2, <2>4
  <2>9. Ends(r) = Append(Ends(ss), c)
    <3> DEFINE u == Ends(ss)
               v == Append(u, c)
    <3>0. u \in Seq(Int) /\ Len(u) = n /\ \A i \in 1..n : u[i] = End(ss[i])
      <4>1. u = [i \in 1..n |-> End(ss[i])]
        BY <2>4 DEF Ends
      <4>2. DOMAIN u = 1..n /\ \A i \in 1..n : u[i] = End(ss[i])
        BY <4>1
      <4> HIDE DEF u
      <4> QED BY <2>4, <2>8, <4>2 DEF u
    <3> HIDE DEF u
    <3>1. c \in Int
      BY <2>1
    <3>2. /\ v \in Seq(Int) /\ Len(v) = n + 1 /\ DOMAIN v = 1..n + 1 /\ v[n + 1] = c
          /\ \A i \in 1..n : v[i] = u[i]
      BY <3>0, <3>1, <2>4
    <3> HIDE DEF v
    <3>3. ASSUME NEW i \in 1..n + 1 PROVE End(r[i]) = v[i]
      <4>1. CASE i = n + 1
        BY <4>1, <3>2, <2>3, <2>5
      <4>2. CASE i \in 1..n
        BY <4>2, <3>0, <3>2, <2>5
      <4> QED BY <4>1, <4>2, <2>4
    <3>4. Ends(r) = [i \in 1..n + 1 |-> v[i]]
      BY <3>3, <2>5 DEF Ends
    <3>5. v = [i \in 1..n + 1 |-> v[i]]
      BY <3>2
    <3> QED BY <3>4, <3>5 DEF v, u
  <2>10. SumOf(Ends(r)) = SumOf(Ends(ss)) + c
    <3>1. c \in Int
      BY <2>1
    <3> QED BY <3>1, <2>8, <2>9, SumAppend, Zenon
  <2>11. Holds(r) = Holds(ss)
    <3>1. More(ss, r, n + 1)
      BY <2>3, <2>4, <2>5, <2>6, ZenonT(30) DEF More
    <3> QED BY <3>1, <1>HoldsMore, Zenon
  <2> QED BY <2>4, <2>5, <2>6, <2>7, <2>10, <2>11 DEF g, x

\* Taking a free segment takes nothing from anyone.
<1>TakeAllocated. ASSUME NEW p, NEW v, Sized(v), v.result = "ok",
                         v.unsized = p.unsized, v.index = p.index, v.pins = p.pins, v.order = p.order,
                         Holds(v.slabs) = Holds(p.slabs),
                         NEW s \in DOMAIN v.slabs, NEW n \in Nat \ {0}, NEW k \in Keys, Fits(v.slabs[s], n) # {}
                  PROVE  \E a, gone : a \in Nat /\ Allocated(p, TakeFree(v, s, n, k), n, k, s, a, gone)
  <2> USE <1>TakeAllocated
  <2> DEFINE q == TakeFree(v, s, n, k)
  <2>1. /\ Sized(q) /\ q.order = Touch(v.order, k) /\ q.unsized = v.unsized /\ q.index = v.index
        /\ q.pins = v.pins /\ q.result = v.result
        /\ \E a \in Nat : /\ <<s, Used(a, n, k)>> \notin Holds(v.slabs)
                          /\ Holds(q.slabs) = Holds(v.slabs) \cup {<<s, Used(a, n, k)>>}
    <3>1. Taken(v, q, s, n, k)
      BY <1>TakeFreeIs, Zenon
    <3> HIDE DEF q
    <3> QED BY <3>1, Zenon DEF Taken
  <2> HIDE DEF q
  <2>2. PICK a \in Nat : /\ <<s, Used(a, n, k)>> \notin Holds(v.slabs)
                         /\ Holds(q.slabs) = Holds(v.slabs) \cup {<<s, Used(a, n, k)>>}
    BY <2>1
  <2>3. Touched(q.order) = Touched(p.order) \cup {k}
    <3>1. v.order \in Seq(Keys)
      BY PoolType DEF Sized
    <3> QED BY <3>1, <2>1, TouchIs
  <2> DEFINE none == {}
  <2>4. {h \in Holds(p.slabs) : h[2].key \notin none} = Holds(p.slabs)
    OBVIOUS
  <2>5. /\ p.index \ none = p.index /\ Touched(p.order) \ none = Touched(p.order)
        /\ none \subseteq InSlabs(p.slabs) /\ \A g \in none : g \in Keys /\ p.pins[g] = 0
    OBVIOUS
  <2> HIDE DEF none
  <2>6. Allocated(p, q, n, k, s, a, none)
    BY <2>1, <2>2, <2>3, <2>4, <2>5, Zenon DEF Allocated
  <2> QED BY <2>6, Zenon DEF q

\* A slab of the size that was tried holds the new buffer.
<1>SlabAddedIs. ASSUME NEW p, Sized(p), Ready(p), p.result = "ok", NEW n \in Nat \ {0}, NEW k \in Keys,
                       Attempts(p, n)
                PROVE  \E s, a, gone : a \in Nat /\ Allocated(p, SlabAdded(p, n, k), n, k, s, a, gone)
  <2> USE <1>SlabAddedIs
  <2> DEFINE c == p.cur
             r == Append(p.slabs, <<Free(0, c)>>)
             l == p.allocated + c
             v == [p EXCEPT !.slabs = r, !.allocated = l]
             s == Len(p.slabs) + 1
  <2>1. p \in Pools /\ Slabs(p.slabs) /\ SumOf(Ends(p.slabs)) = p.allocated
    BY DEF Sized
  <2>2. c \in 0..MaxSlab /\ p.allocated \in 0..PoolPages /\ PoolPages \in Nat /\ MaxSlab \in Nat
    BY <2>1, PoolType, BufferAssumption
  <2>3. n <= c /\ c <= PoolPages - p.allocated
    BY DEF Attempts, Ready
  <2>4. l \in 0..PoolPages
    BY <2>2, <2>3
  <2>5. /\ Slabs(r) /\ SumOf(Ends(r)) = l /\ Holds(r) = Holds(p.slabs)
        /\ s \in DOMAIN r /\ r[s] = <<Free(0, c)>>
    <3>1. r = Append(p.slabs, <<Free(0, c)>>) /\ s = Len(p.slabs) + 1
      OBVIOUS
    <3> HIDE DEF r, c, s
    <3>2. /\ Slabs(r) /\ SumOf(Ends(r)) = SumOf(Ends(p.slabs)) + c /\ Holds(r) = Holds(p.slabs)
          /\ Len(p.slabs) + 1 \in DOMAIN r /\ r[Len(p.slabs) + 1] = <<Free(0, c)>>
      BY <2>1, <2>2, <3>1, <1>SlabsAppend, ZenonT(30)
    <3> QED BY <3>1, <3>2, <2>1
  <2>6. SlabAdded(p, n, k) = TakeFree(v, s, n, k)
    BY <2>1, PoolType, Zenon DEF SlabAdded
  <2>7. r \in Seq(Seq(Segment))
    BY <2>5 DEF Slabs
  <2> HIDE DEF r, l, s
  <2>8. v \in Pools
    BY <2>1, <2>4, <2>7, ZenonT(30) DEF Pools
  <2>9. /\ v.slabs = r /\ v.allocated = l /\ v.unsized = p.unsized /\ v.index = p.index
        /\ v.pins = p.pins /\ v.order = p.order /\ v.result = p.result
    BY <2>1 DEF Pools
  <2> HIDE DEF v
  <2>10. Sized(v)
    BY <2>5, <2>8, <2>9 DEF Sized
  <2>11. Fits(v.slabs[s], n) # {}
    <3>1. v.slabs[s] = <<Free(0, c)>>
      BY <2>5, <2>9
    <3>2. IsFree(Free(0, c)) /\ Free(0, c).num = c
      BY DEF Free, IsFree
    <3>3. 1 \in Fits(v.slabs[s], n)
      BY <3>1, <3>2, <2>2, <2>3 DEF Fits
    <3> QED BY <3>3
  <2>12. s \in DOMAIN v.slabs /\ Holds(v.slabs) = Holds(p.slabs)
    BY <2>5, <2>9
  <2>13. \E a, gone : a \in Nat /\ Allocated(p, TakeFree(v, s, n, k), n, k, s, a, gone)
    BY <2>9, <2>10, <2>11, <2>12, <1>TakeAllocated, ZenonT(30)
  <2> QED BY <2>6, <2>13, Zenon

\* An allocation that starts from what is the same as p starts from p.
<1>SameAllocated. ASSUME NEW p, NEW v, Same(p, v), NEW q, NEW n, NEW k, NEW s, NEW a, NEW gone,
                         Allocated(v, q, n, k, s, a, gone)
                  PROVE  Allocated(p, q, n, k, s, a, gone)
  BY <1>SameAllocated, Zenon DEF Same, Allocated

\* findFreeBuffer gives k its pages or leaves the pool as it is.
<1>FindFreeIs. ASSUME NEW p, PoolOK(p), p.result = "ok", NEW n \in Nat \ {0}, NEW k \in Keys,
                      NEW q \in FindFreeBuffer(p, n, k)
               PROVE  \/ \E s, a, gone : a \in Nat /\ Allocated(p, q, n, k, s, a, gone)
                      \/ q \in Pools /\ Same(p, q) /\ q.result \in {"oom", "undefined"}
  <2> USE <1>FindFreeIs
  <2> DEFINE ok(x) == \E s, a, gone : a \in Nat /\ Allocated(p, x, n, k, s, a, gone)
             failed(x) == x \in Pools /\ Same(p, x) /\ x.result \in {"oom", "undefined"}
             fits == {s \in DOMAIN p.slabs : Fits(p.slabs[s], n) # {}}
             make(v) ==
               IF v.result = "ok" THEN v
               ELSE IF v.allocated = 0 /\ v.capped THEN [v EXCEPT !.result = "oom"]
               ELSE IF v.slabs = <<>> THEN [v EXCEPT !.result = "undefined"]
               ELSE IF Windows(v, n) = {} THEN [v EXCEPT !.result = "oom"]
               ELSE Evict([v EXCEPT !.result = "ok"], Best(v, n), n, k)
  <2>1. Sized(p) /\ Exact(p) /\ p \in Pools
    BY DEF PoolOK, Sized
  <2>2. Same(p, p)
    BY DEF Same
  <2>3. ASSUME NEW v \in Pools, Same(p, v), NEW c \in {"ok", "full", "oom", "undefined"}
        PROVE  [v EXCEPT !.result = c] \in Pools /\ Same(p, [v EXCEPT !.result = c]) /\ [v EXCEPT !.result = c].result = c
    <3> DEFINE x == [v EXCEPT !.result = c]
    <3>1. x \in Pools
      BY Zenon DEF Pools
    <3>2. /\ x.slabs = v.slabs /\ x.unsized = v.unsized /\ x.index = v.index /\ x.pins = v.pins
          /\ x.order = v.order /\ x.allocated = v.allocated /\ x.result = c
      BY DEF Pools
    <3> HIDE DEF x
    <3>3. Same(p, x)
      BY <2>3, <3>2 DEF Same
    <3> QED BY <3>1, <3>2, <3>3 DEF x
  <2>4. CASE n > MaxSlab
    <3>1. q = [p EXCEPT !.result = "oom"]
      BY <2>4, Zenon DEF FindFreeBuffer
    <3>2. failed(q)
      BY <3>1, <2>1, <2>2, <2>3, Zenon
    <3> QED BY <3>2, Zenon
  <2>5. CASE ~(n > MaxSlab) /\ fits # {}
    <3> DEFINE s == Min(fits)
    <3>1. q = TakeFree(p, s, n, k)
      BY <2>5, Zenon DEF FindFreeBuffer
    <3>2. fits \in SUBSET Nat
      BY <2>1 DEF Sized, Slabs
    <3>3. s \in fits
      <4> HIDE DEF fits
      <4> QED BY <3>2, <2>5, <1>MinIs
    <3>4. s \in DOMAIN p.slabs /\ Fits(p.slabs[s], n) # {}
      BY <3>3, Zenon
    <3> HIDE DEF s
    <3>5. \E a, gone : a \in Nat /\ Allocated(p, q, n, k, s, a, gone)
      BY <3>1, <3>4, <2>1, <1>TakeAllocated
    <3> QED BY <3>5, Zenon
  <2>6. CASE ~(n > MaxSlab) /\ fits = {}
    <3>1. PICK x \in AddSlab(p, n, k) : q = make(x)
      BY <2>6, Zenon DEF FindFreeBuffer
    <3>2. PICK v : /\ Retried(p, v)
                   /\ x = IF Attempts(v, n) THEN SlabAdded(v, n, k) ELSE [v EXCEPT !.result = "full"]
      BY <2>1, <1>AddSlabIs
    <3>3. v \in Pools /\ Same(p, v) /\ Ready(v) /\ v.result = "ok" /\ Sized(v) /\ Exact(v)
      <4>1. v \in Pools /\ Same(p, v) /\ Ready(v) /\ v.result = "ok"
        BY <3>2 DEF Retried
      <4> QED BY <4>1, <2>1, SameOK
    <3>4. CASE Attempts(v, n)
      <4>1. x = SlabAdded(v, n, k)
        BY <3>2, <3>4, Zenon
      <4>2. PICK s, a, gone : a \in Nat /\ Allocated(v, x, n, k, s, a, gone)
        BY <3>3, <3>4, <4>1, <1>SlabAddedIs
      <4>3. Allocated(p, x, n, k, s, a, gone)
        BY <3>3, <4>2, <1>SameAllocated
      <4>4. x.result = "ok"
        BY <4>2 DEF Allocated
      <4>5. q = x
        BY <3>1, <4>4, Zenon
      <4> QED BY <4>2, <4>3, <4>5, Zenon
    <3>5. CASE ~Attempts(v, n)
      <4>1. x = [v EXCEPT !.result = "full"]
        BY <3>2, <3>5, Zenon
      <4>2. x \in Pools /\ Same(p, x) /\ x.result = "full"
        BY <3>3, <4>1, <2>3, Zenon
      <4>3. x.result # "ok"
        BY <4>2
      <4>4. CASE \/ x.allocated = 0 /\ x.capped
                 \/ ~(x.allocated = 0 /\ x.capped) /\ x.slabs # <<>> /\ Windows(x, n) = {}
        <5>1. q = [x EXCEPT !.result = "oom"]
          BY <3>1, <4>3, <4>4, Zenon
        <5>2. failed(q)
          BY <5>1, <4>2, <2>3, Zenon
        <5> QED BY <5>2, Zenon
      <4>5. CASE ~(x.allocated = 0 /\ x.capped) /\ x.slabs = <<>>
        <5>1. q = [x EXCEPT !.result = "undefined"]
          BY <3>1, <4>3, <4>5, Zenon
        <5>2. failed(q)
          BY <5>1, <4>2, <2>3, Zenon
        <5> QED BY <5>2, Zenon
      <4>6. CASE ~(x.allocated = 0 /\ x.capped) /\ x.slabs # <<>> /\ Windows(x, n) # {}
        <5> DEFINE y == [x EXCEPT !.result = "ok"]
                   w == Best(x, n)
        <5>1. q = Evict(y, w, n, k)
          BY <3>1, <4>3, <4>6, Zenon
        <5>2. y \in Pools /\ Same(p, y) /\ y.result = "ok"
          BY <4>2, <2>3, Zenon
        <5>3. Sized(y) /\ Exact(y) /\ Sized(x)
          BY <4>2, <5>2, <2>1, SameOK
        <5>4. Windows(y, n) = Windows(x, n)
          <6>1. y.slabs = x.slabs /\ y.pins = x.pins
            BY <4>2, <5>2 DEF Same
          <6> HIDE DEF y
          <6> QED BY <6>1, Zenon DEF Windows
        <5>5. w \in Windows(y, n)
          BY <5>3, <5>4, <4>6, <1>BestIs
        <5> HIDE DEF y, w
        <5>6. \A g \in Keys : Single(y.slabs, g)
          BY <5>3 DEF Exact
        <5>7. PICK s, a, gone : a \in Nat /\ Allocated(y, q, n, k, s, a, gone)
          BY <5>1, <5>2, <5>3, <5>5, <5>6, <1>EvictIs
        <5>8. Allocated(p, q, n, k, s, a, gone)
          BY <5>2, <5>7, <1>SameAllocated
        <5> QED BY <5>7, <5>8, Zenon
      <4> QED BY <4>4, <4>5, <4>6, Zenon
    <3> QED BY <3>4, <3>5, Zenon
  <2> QED BY <2>4, <2>5, <2>6, Zenon

<1> QED BY <1>FindFreeIs

=============================================================================
