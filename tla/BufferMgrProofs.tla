--------------------------- MODULE BufferMgrProofs ---------------------------
(***************************************************************************)
(* Proofs about BufferMgr for any number of chunks, pool and slab sizes:   *)
(* that the segments tile the slabs, that free segments are joined, that   *)
(* chunk_index_ is exact and that a pinned buffer stays where it is.       *)
(***************************************************************************)
EXTENDS BufferPoolLemmas

\* How long the provers may take for a step, in seconds.
USE SMTT(30), ZenonT(30)

-----------------------------------------------------------------------------
(* What an operation does to the buffers                                    *)

Others(ss, G) == {h \in Holds(ss) : h[2].key \notin G}
KeysOf(E) == {h[2].key : h \in E}

\* q is p without the buffers of the keys in G and with the segments in E, which are of
\* such a key.
Changed(p, q, G, E) ==
  /\ Sized(q) /\ Holds(q.slabs) = Others(p.slabs, G) \cup E
  /\ q.index = (p.index \ G) \cup KeysOf(E) /\ q.unsized = p.unsized \ G
  /\ Touched(q.order) = (Touched(p.order) \ G) \cup KeysOf(E)
  /\ KeysOf(E) \subseteq G /\ IsFiniteSet(KeysOf(E)) /\ \A g, h \in E : g[2].key = h[2].key => g = h

\* The pool stays exact, and the buffers of other keys stay where they are.
LEMMA ChangedOK ==
  ASSUME NEW p, Exact(p), NEW q, NEW G, NEW E, Changed(p, q, G, E)
  PROVE  PoolOK(q) /\ \A h \in Holds(p.slabs) : h[2].key \notin G => h \in Holds(q.slabs)
<1> DEFINE K == KeysOf(E)
           A == Holds(p.slabs)
           B == Holds(q.slabs)
           I == InSlabs(p.slabs)
<1>1. /\ IsFiniteSet(p.index) /\ p.index = I \cup p.unsized /\ I \cap p.unsized = {}
      /\ \A k \in Keys : Single(p.slabs, k)
      /\ Touched(p.order) = I
  BY DEF Exact
<1>2. /\ Sized(q) /\ B = Others(p.slabs, G) \cup E
      /\ q.index = (p.index \ G) \cup K /\ q.unsized = p.unsized \ G
      /\ Touched(q.order) = (Touched(p.order) \ G) \cup K
      /\ K \subseteq G /\ IsFiniteSet(K) /\ \A g, h \in E : g[2].key = h[2].key => g = h
  BY Zenon DEF Changed
<1>3. I = {h[2].key : h \in A} /\ InSlabs(q.slabs) = {h[2].key : h \in B}
  BY KeysHeld
<1>4. \A h : h \in Others(p.slabs, G) <=> h \in A /\ h[2].key \notin G
  BY DEF Others
<1>5. \A h \in E : h[2].key \in K
  BY DEF KeysOf
<1>6. \A k \in K : \E h \in E : h[2].key = k
  BY DEF KeysOf
<1> HIDE DEF K, A, B, I
<1>7. InSlabs(q.slabs) = (I \ G) \cup K
  <2>1. ASSUME NEW k \in InSlabs(q.slabs) PROVE k \in (I \ G) \cup K
    <3>1. PICK h \in B : h[2].key = k
      BY <1>3
    <3>2. CASE h \in E
      BY <3>1, <3>2, <1>5
    <3>3. CASE h \in Others(p.slabs, G)
      BY <3>1, <3>3, <1>3, <1>4
    <3> QED BY <3>1, <3>2, <3>3, <1>2
  <2>2. ASSUME NEW k \in I \ G PROVE k \in InSlabs(q.slabs)
    <3>1. PICK h \in A : h[2].key = k
      BY <1>3
    <3>2. h \in B
      BY <3>1, <1>2, <1>4
    <3> QED BY <3>1, <3>2, <1>3
  <2>3. ASSUME NEW k \in K PROVE k \in InSlabs(q.slabs)
    <3>1. PICK h \in E : h[2].key = k
      BY <1>6
    <3> QED BY <3>1, <1>2, <1>3
  <2> QED BY <2>1, <2>2, <2>3
<1>8. IsFiniteSet(q.index)
  <2>1. IsFiniteSet(p.index \ G)
    BY <1>1, FS_Difference, Zenon
  <2>2. IsFiniteSet(K)
    BY <1>2
  <2>3. IsFiniteSet((p.index \ G) \cup K)
    BY <2>1, <2>2, FS_Union, Zenon
  <2> QED BY <2>3, <1>2
<1>9. q.index = InSlabs(q.slabs) \cup q.unsized /\ InSlabs(q.slabs) \cap q.unsized = {}
  BY <1>1, <1>2, <1>7
<1>10. Touched(q.order) = InSlabs(q.slabs)
  BY <1>1, <1>2, <1>7
<1>11. ASSUME NEW k \in Keys PROVE Single(q.slabs, k)
  <2>1. SUFFICES ASSUME NEW g \in B, NEW h \in B, g[2].key = k, h[2].key = k PROVE g = h
    BY Zenon DEF Single, B
  <2>2. CASE k \in G
    <3>1. g \in E /\ h \in E
      BY <2>1, <2>2, <1>2, <1>4
    <3> QED BY <3>1, <2>1, <1>2
  <2>3. CASE k \notin G
    <3>1. g \notin E /\ h \notin E
      BY <2>1, <2>3, <1>2, <1>5
    <3>2. g \in A /\ h \in A
      BY <3>1, <1>2, <1>4
    <3> QED BY <3>2, <2>1, <1>1, Zenon DEF Single, A
  <2> QED BY <2>2, <2>3
<1>12. PoolOK(q)
  BY <1>2, <1>8, <1>9, <1>10, <1>11 DEF PoolOK, Exact
<1>13. \A h \in A : h[2].key \notin G => h \in B
  BY <1>2, <1>4
<1> QED BY <1>12, <1>13 DEF A, B

\* The segment of a key in the slabs, and where the code finds it.
LEMMA HeldAt ==
  ASSUME NEW p, PoolOK(p), NEW k \in p.index, k \notin p.unsized
  PROVE  \E s, i : /\ s \in DOMAIN p.slabs /\ Slab(p.slabs[s]) /\ i \in 1..Len(p.slabs[s])
                   /\ p.slabs[s][i].key = k /\ ~IsFree(p.slabs[s][i]) /\ k \in Keys
                   /\ Place(p.slabs, k) = <<s, i>> /\ <<s, p.slabs[s][i]>> \in Holds(p.slabs)
                   /\ p.slabs[s][i] = Used(p.slabs[s][i].start, p.slabs[s][i].num, k)
<1>1. /\ p \in Pools /\ Slabs(p.slabs) /\ p.index = InSlabs(p.slabs) \cup p.unsized
      /\ \A g \in Keys : Single(p.slabs, g)
  BY DEF PoolOK, Sized, Exact
<1>2. k \in Keys
  BY <1>1, PoolType
<1>3. PICK h \in Holds(p.slabs) : h[2].key = k
  BY <1>1, KeysHeld
<1>4. PICK s, x : s \in DOMAIN p.slabs /\ x \in Usage(p.slabs[s]) /\ h = <<s, x>>
  BY HoldsIs
<1>5. x.key = k /\ Single(p.slabs, x.key) /\ ~IsFree(x)
  BY <1>1, <1>2, <1>3, <1>4 DEF Usage
<1>6. PICK i \in 1..Len(p.slabs[s]) : p.slabs[s][i] = x /\ Place(p.slabs, k) = <<s, i>>
  BY <1>1, <1>4, <1>5, PlaceIs
<1>7. Slab(p.slabs[s])
  BY <1>1, <1>4 DEF Slabs
<1>8. x \in Segment
  BY <1>6, <1>7, SlabType
<1>9. x = Used(x.start, x.num, k)
  BY <1>5, <1>8, Zenon DEF Used, Segment
<1> QED BY <1>2, <1>3, <1>4, <1>5, <1>6, <1>7, <1>9, Zenon

\* Nothing in the slabs is of an unsized key, or of a key that is not in the index.
LEMMA NotHeld ==
  ASSUME NEW p, Exact(p), NEW k, k \in p.unsized \/ k \notin p.index
  PROVE  k \notin InSlabs(p.slabs) /\ \A h \in Holds(p.slabs) : h[2].key # k
<1>1. p.index = InSlabs(p.slabs) \cup p.unsized /\ InSlabs(p.slabs) \cap p.unsized = {}
  BY DEF Exact
<1>2. k \notin InSlabs(p.slabs)
  BY <1>1
<1> QED BY <1>2, KeysHeld

-----------------------------------------------------------------------------
(* removeSegment and deleteBuffer                                           *)

\* q is p without the segment in h.
Removed(p, q, h) ==
  /\ Sized(q) /\ q.index = p.index /\ q.order = p.order /\ q.unsized = p.unsized
  /\ q.pins = p.pins /\ q.result = p.result
  /\ Holds(q.slabs) = Holds(p.slabs) \ {h}

\* A used segment becomes free and joins its free neighbours; nobody else loses a page.
LEMMA RemoveIs ==
  ASSUME NEW p, Sized(p), NEW s \in DOMAIN p.slabs, NEW i \in 1..Len(p.slabs[s]),
         ~IsFree(p.slabs[s][i])
  PROVE  Removed(p, RemoveSegment(p, s, i), <<s, p.slabs[s][i]>>)
<1> DEFINE segs == p.slabs[s]
           f == IF i > 1 /\ IsFree(segs[i - 1]) THEN i - 1 ELSE i
           t == IF i < Len(segs) /\ IsFree(segs[i + 1]) THEN i + 1 ELSE i
           a == segs[f].start
           m == Pages(segs, f, t)
           w == <<Free(a, m)>>
           q == RemoveSegment(p, s, i)
<1>1. p \in Pools /\ Slabs(p.slabs)
  BY DEF Sized
<1>2. Slab(segs)
  BY <1>1 DEF Slabs
<1>3. q = [p EXCEPT !.slabs = [p.slabs EXCEPT ![s] = Splice(segs, f, t, w)]]
  BY <1>1, PoolType, Zenon DEF RemoveSegment
<1>4. i \in 1..Len(segs) /\ ~IsFree(segs[i])
  OBVIOUS
<1> HIDE DEF segs, q
<1>5. Len(segs) \in Nat /\ i \in Nat
  BY <1>2, <1>4, SlabType
<1>6. \A j \in 1..Len(segs) - 1 : ~(IsFree(segs[j]) /\ IsFree(segs[j + 1]))
  BY <1>2, Zenon DEF Slab, Chained
<1>7. /\ f \in 1..Len(segs) /\ f <= i /\ i - 1 <= f
      /\ f > 1 => ~IsFree(segs[f - 1])
      /\ f # i => IsFree(segs[f])
  <2>1. CASE i > 1 /\ IsFree(segs[i - 1])
    <3>1. f = i - 1
      BY <2>1
    <3>2. i - 1 > 1 => ~IsFree(segs[i - 1 - 1])
      <4>1. SUFFICES ASSUME i - 1 > 1 PROVE ~IsFree(segs[i - 1 - 1])
        OBVIOUS
      <4>2. i - 1 - 1 \in 1..Len(segs) - 1 /\ i - 1 - 1 + 1 = i - 1
        BY <4>1, <1>4, <1>5
      <4> QED BY <4>2, <1>6, <2>1
    <3>3. i - 1 \in 1..Len(segs)
      BY <1>4, <1>5, <2>1
    <3> HIDE DEF f
    <3> QED BY <3>1, <3>2, <3>3, <1>5, <2>1
  <2>2. CASE ~(i > 1 /\ IsFree(segs[i - 1]))
    <3>1. f = i
      BY <2>2
    <3> HIDE DEF f
    <3> QED BY <3>1, <2>2, <1>4, <1>5
  <2> HIDE DEF f
  <2> QED BY <2>1, <2>2
<1>8. /\ t \in 1..Len(segs) /\ i <= t /\ t <= i + 1
      /\ t < Len(segs) => ~IsFree(segs[t + 1])
      /\ t # i => IsFree(segs[t])
  <2>1. CASE i < Len(segs) /\ IsFree(segs[i + 1])
    <3>1. t = i + 1
      BY <2>1
    <3>2. i + 1 < Len(segs) => ~IsFree(segs[i + 1 + 1])
      <4>1. SUFFICES ASSUME i + 1 < Len(segs) PROVE ~IsFree(segs[i + 1 + 1])
        OBVIOUS
      <4>2. i + 1 \in 1..Len(segs) - 1
        BY <4>1, <1>4, <1>5
      <4> QED BY <4>2, <1>6, <2>1
    <3>3. i + 1 \in 1..Len(segs)
      BY <1>4, <1>5, <2>1
    <3> HIDE DEF t
    <3> QED BY <3>1, <3>2, <3>3, <1>5, <2>1
  <2>2. CASE ~(i < Len(segs) /\ IsFree(segs[i + 1]))
    <3>1. t = i
      BY <2>2
    <3> HIDE DEF t
    <3> QED BY <3>1, <2>2, <1>4, <1>5
  <2> HIDE DEF t
  <2> QED BY <2>1, <2>2
<1> HIDE DEF f, t
<1>9. f \in Nat /\ t \in Nat /\ t \in f..Len(segs) /\ t \in f - 1..Len(segs) /\ ~(t < f)
  BY <1>5, <1>7, <1>8
<1>10. m = segs[t].start + segs[t].num - segs[f].start
  BY <1>2, <1>7, <1>9, PagesIs
<1>11. /\ segs[t].start \in Nat /\ segs[t].num \in Nat /\ segs[f].start \in Nat /\ segs[f].num \in Nat
  BY <1>2, <1>7, <1>8, SlabType
<1>12. segs[f].start <= segs[t].start
  <2>1. CASE f = t
    BY <2>1, <1>11
  <2>2. CASE f < t
    <3>1. segs[f].start + segs[f].num <= segs[t].start
      BY <2>2, <1>2, <1>7, <1>8, StartsGrow
    <3> QED BY <3>1, <1>11
  <2> QED BY <2>1, <2>2, <1>9
<1>13. a \in Nat /\ m \in Nat /\ a = segs[f].start /\ a + m = segs[t].start + segs[t].num
  BY <1>10, <1>11, <1>12
<1> HIDE DEF a, m
<1>14. Covers(segs, f, t, w) /\ Usage(w) = {}
  <2>1. f > 1 => ~IsFree(segs[f - 1])
    BY <1>7
  <2>2. t < Len(segs) => ~IsFree(segs[t + 1])
    BY <1>8
  <2>3. f \in 1..Len(segs) /\ t \in f..Len(segs)
    BY <1>7, <1>9
  <2> QED BY <2>1, <2>2, <2>3, <1>2, <1>13, CoverFree
<1> HIDE DEF w
<1>15. q.order = p.order /\ q.index = p.index /\ Spliced(p, q, s, f, t, w)
  <2> DEFINE r == [p.slabs EXCEPT ![s] = Splice(segs, f, t, w)]
  <2>1. q = [p EXCEPT !.slabs = r]
    BY <1>3 DEF w, a, m, f, t
  <2> HIDE DEF r
  <2>2. q.slabs = r /\ q.order = p.order /\ q.index = p.index
    BY <1>1, <2>1 DEF Pools
  <2>3. q = [p EXCEPT !.slabs = q.slabs, !.order = q.order, !.index = q.index]
    BY <1>1, <2>1, <2>2, Zenon DEF Pools
  <2> QED BY <2>2, <2>3 DEF Spliced, r, segs
<1>16. q.order \in Seq(Keys) /\ q.index \in SUBSET Keys
  BY <1>1, <1>15, PoolType
<1> DEFINE new == New(s, w)
           gone == Replaced(p.slabs, s, f, t)
<1>17. /\ Sized(q) /\ q.unsized = p.unsized /\ q.pins = p.pins /\ q.result = p.result
       /\ Holds(q.slabs) = (Holds(p.slabs) \ gone) \cup new
  <2>1. f \in 1..Len(p.slabs[s]) /\ t \in f..Len(p.slabs[s]) /\ Covers(p.slabs[s], f, t, w)
    BY <1>7, <1>9, <1>14 DEF segs
  <2>2. q.order \in Seq(Keys) /\ q.index \in SUBSET Keys /\ Spliced(p, q, s, f, t, w)
    BY <1>15, <1>16
  <2>3. Exchanged(p, q, s, f, t, w)
    BY <2>1, <2>2, PoolSplice
  <2> QED BY <2>3, Zenon DEF Exchanged
<1>18. new = {}
  BY <1>14 DEF New
<1>19. ASSUME NEW h \in Holds(p.slabs) PROVE h \in gone <=> h = <<s, segs[i]>>
  <2>1. ASSUME h \in gone PROVE h = <<s, segs[i]>>
    <3>1. PICK j \in f..t : h = <<s, segs[j]>>
      BY <2>1 DEF Replaced, segs
    <3>2. ~IsFree(segs[j])
      <4>1. PICK v, x : v \in DOMAIN p.slabs /\ x \in Usage(p.slabs[v]) /\ h = <<v, x>>
        BY HoldsIs
      <4> QED BY <4>1, <3>1 DEF Usage
    <3>3. j = i \/ j = f \/ j = t
      BY <1>5, <1>7, <1>8, <1>9
    <3>4. j = i
      BY <3>2, <3>3, <1>7, <1>8
    <3> QED BY <3>1, <3>4
  <2>2. ASSUME h = <<s, segs[i]>> PROVE h \in gone
    <3>1. i \in f..t
      BY <1>5, <1>7, <1>8, <1>9
    <3> QED BY <2>2, <3>1 DEF Replaced, segs
  <2> QED BY <2>1, <2>2
<1> HIDE DEF new, gone
<1>20. Holds(q.slabs) = Holds(p.slabs) \ {<<s, segs[i]>>}
  BY <1>17, <1>18, <1>19
<1> QED BY <1>15, <1>17, <1>20, Zenon DEF Removed, q, segs

\* q is p after deleteBuffer of k.
Deletes(p, q, k) ==
  /\ Changed(p, q, {k}, {}) /\ q.pins = [p.pins EXCEPT ![k] = 0] /\ q.result = p.result

\* deleteBuffer takes away the buffer of k and nothing else.
LEMMA DeletedIs ==
  ASSUME NEW p, PoolOK(p), NEW k \in p.index
  PROVE  Deletes(p, Deleted(p, k), k)
<1> DEFINE w == Place(p.slabs, k)
           q == IF k \in p.unsized THEN [p EXCEPT !.unsized = @ \ {k}]
                ELSE RemoveSegment(p, w[1], w[2])
           r == Deleted(p, k)
<1>1. Sized(p) /\ Exact(p) /\ p \in Pools
  BY DEF PoolOK, Sized
<1>2. k \in Keys
  BY <1>1, PoolType
<1>3. r = [q EXCEPT !.index = @ \ {k}, !.order = Without(@, {k}), !.pins[k] = 0]
  BY Zenon DEF Deleted
<1>4. /\ Sized(q) /\ q.index = p.index /\ q.order = p.order /\ q.unsized = p.unsized \ {k}
      /\ q.pins = p.pins /\ q.result = p.result /\ Holds(q.slabs) = Others(p.slabs, {k})
  <2>1. CASE k \in p.unsized
    <3> DEFINE v == [p EXCEPT !.unsized = p.unsized \ {k}]
    <3>1. q = v
      BY <2>1, Zenon
    <3>2. v \in Pools
      BY <1>1, ZenonT(30) DEF Pools
    <3>3. /\ v.slabs = p.slabs /\ v.index = p.index /\ v.order = p.order /\ v.pins = p.pins
          /\ v.result = p.result /\ v.allocated = p.allocated /\ v.unsized = p.unsized \ {k}
      BY <1>1 DEF Pools
    <3> HIDE DEF v, q
    <3>4. Sized(v)
      BY <1>1, <3>2, <3>3 DEF Sized
    <3>5. Others(p.slabs, {k}) = Holds(p.slabs)
      BY <1>1, <2>1, NotHeld DEF Others
    <3> QED BY <3>1, <3>3, <3>4, <3>5, Zenon
  <2>2. CASE k \notin p.unsized
    <3>1. PICK s, i : /\ s \in DOMAIN p.slabs /\ i \in 1..Len(p.slabs[s])
                      /\ p.slabs[s][i].key = k /\ ~IsFree(p.slabs[s][i])
                      /\ w = <<s, i>> /\ <<s, p.slabs[s][i]>> \in Holds(p.slabs)
      BY <2>2, HeldAt
    <3> HIDE DEF w
    <3>2. w[1] = s /\ w[2] = i
      BY <3>1
    <3>3. q = RemoveSegment(p, s, i)
      BY <2>2, <3>2, Zenon
    <3> HIDE DEF q
    <3> DEFINE h == <<s, p.slabs[s][i]>>
    <3>4. Removed(p, q, h)
      BY <3>1, <3>3, <1>1, RemoveIs
    <3>5. Holds(p.slabs) \ {h} = Others(p.slabs, {k})
      <4>1. \A g \in Holds(p.slabs) : g[2].key = k <=> g = h
        BY <3>1, <1>1, <1>2 DEF Exact, Single
      <4> HIDE DEF h
      <4> QED BY <4>1 DEF Others
    <3>6. p.unsized \ {k} = p.unsized
      BY <2>2
    <3> HIDE DEF h
    <3> QED BY <3>4, <3>5, <3>6, Zenon DEF Removed
  <2> HIDE DEF q
  <2> QED BY <2>1, <2>2
<1> HIDE DEF q, r
<1> DEFINE d == p.index \ {k}
           o == Without(p.order, {k})
           c == [p.pins EXCEPT ![k] = 0]
<1>5. q \in Pools
  BY <1>4 DEF Sized
<1>6. r = [q EXCEPT !.index = d, !.order = o, !.pins = c]
  BY <1>3, <1>4, <1>5, PoolType, Zenon
<1>7. /\ o \in Seq(Keys) /\ Touched(o) = Touched(p.order) \ {k}
      /\ d \in SUBSET Keys /\ c \in [Keys -> 0..MaxPins]
  <2>1. p.order \in Seq(Keys) /\ p.index \in SUBSET Keys /\ p.pins \in [Keys -> 0..MaxPins]
    BY <1>1, PoolType
  <2>2. o \in Seq(Keys) /\ Touched(o) = Touched(p.order) \ {k}
    BY <2>1, WithoutIs
  <2>3. 0 \in 0..MaxPins
    BY BufferAssumption
  <2> QED BY <2>1, <2>2, <2>3, Zenon
<1> HIDE DEF d, o, c
<1>8. r \in Pools
  BY <1>5, <1>6, <1>7, ZenonT(30) DEF Pools
<1>9. /\ r.slabs = q.slabs /\ r.unsized = q.unsized /\ r.result = q.result
      /\ r.allocated = q.allocated /\ r.index = d /\ r.order = o /\ r.pins = c
  BY <1>5, <1>6 DEF Pools
<1>10. Sized(r)
  BY <1>4, <1>8, <1>9 DEF Sized
<1> DEFINE none == {}
<1>11. KeysOf(none) = {} /\ IsFiniteSet(KeysOf(none)) /\ \A g, h \in none : g[2].key = h[2].key => g = h
  BY FS_EmptySet DEF KeysOf
<1>12. /\ Holds(r.slabs) = Others(p.slabs, {k}) \cup none
       /\ r.index = (p.index \ {k}) \cup KeysOf(none)
       /\ Touched(r.order) = (Touched(p.order) \ {k}) \cup KeysOf(none)
       /\ r.unsized = p.unsized \ {k} /\ KeysOf(none) \subseteq {k}
  BY <1>4, <1>7, <1>9, <1>11 DEF d
<1> HIDE DEF none
<1>13. Changed(p, r, {k}, none)
  BY <1>10, <1>11, <1>12, Zenon DEF Changed
<1> QED BY <1>4, <1>9, <1>13, Zenon DEF Deletes, r, none, c

-----------------------------------------------------------------------------
(* reserveBuffer                                                            *)

\* q is p after k got another segment, for which only unpinned buffers had to go.
Moved(p, q, k) ==
  /\ q.pins = p.pins /\ q.result = "ok"
  /\ \E G, E : Changed(p, q, G, E) /\ \A g \in G : g = k \/ p.pins[g] = 0

\* q is p in which segment i of slab s, of k, has grown to n pages.
Grows(p, q, k, s, i, n) ==
  LET segs == p.slabs[s]
      x == segs[i]
      y == segs[i + 1]
  IN  /\ i < Len(segs) /\ IsFree(y) /\ y.num >= n - x.num /\ n > x.num
      /\ Spliced(p, q, s, i, i + 1, <<Used(x.start, n, k), Free(x.start + n, y.num - (n - x.num))>>)
      /\ q.order = p.order /\ q.index = p.index

\* The segment of k in slab s that starts at page b.
FirstOf(x, s, k, b) ==
  CHOOSE i \in DOMAIN x.slabs[s] : x.slabs[s][i].key = k /\ x.slabs[s][i].start = b

\* The size of a buffer is a number of pages.
LEMMA SizeIs ==
  ASSUME NEW p, PoolOK(p), NEW k \in p.index
  PROVE  /\ Size(p, k) \in Nat
         /\ k \notin p.unsized => Size(p, k) = p.slabs[Place(p.slabs, k)[1]][Place(p.slabs, k)[2]].num
<1> DEFINE w == Place(p.slabs, k)
<1>1. CASE k \in p.unsized
  <2>1. Size(p, k) = 0
    BY <1>1, Zenon DEF Size
  <2> QED BY <2>1, <1>1
<1>2. CASE k \notin p.unsized
  <2>1. PICK s, i : /\ s \in DOMAIN p.slabs /\ Slab(p.slabs[s]) /\ i \in 1..Len(p.slabs[s])
                    /\ p.slabs[s][i].key = k /\ w = <<s, i>>
                    /\ <<s, p.slabs[s][i]>> \in Holds(p.slabs)
    BY <1>2, HeldAt
  <2>2. p.slabs[s][i].num \in Nat
    BY <2>1, SlabType
  <2>3. Size(p, k) = p.slabs[w[1]][w[2]].num
    BY <1>2, Zenon DEF Size
  <2> HIDE DEF w
  <2>4. w[1] = s /\ w[2] = i
    BY <2>1
  <2>5. Size(p, k) \in Nat
    BY <2>2, <2>3, <2>4, Zenon
  <2> QED BY <2>3, <2>5 DEF w
<1> QED BY <1>1, <1>2

\* reserveBuffer: growth in place, or a move to another segment.
LEMMA ReserveIs ==
  \A p, q, k, n :
    /\ PoolOK(p) /\ p.result = "ok" /\ k \in p.index /\ p.pins[k] > 0
    /\ n \in Nat /\ n > Size(p, k) /\ q \in Reserve(p, k, n)
    => \/ Moved(p, q, k)
       \/ q \in Pools /\ Same(p, q) /\ q.result \in {"oom", "undefined"}
\* A segment of k for what was there of the keys in G is what Changed describes.
<1>ChangedBy. ASSUME NEW p, NEW q, Sized(q), NEW k, NEW e, e[2].key = k, NEW G, k \in G,
                     Holds(q.slabs) = Others(p.slabs, G) \cup {e},
                     q.index = (p.index \ G) \cup {k}, q.unsized = p.unsized \ G,
                     Touched(q.order) = (Touched(p.order) \ G) \cup {k}
              PROVE  Changed(p, q, G, {e})
  <2> USE <1>ChangedBy
  <2> DEFINE E == {e}
  <2>1. KeysOf(E) = {k}
    BY DEF KeysOf
  <2>2. \A g, h \in E : g = h
    OBVIOUS
  <2>3. Holds(q.slabs) = Others(p.slabs, G) \cup E
    OBVIOUS
  <2>4. IsFiniteSet({k})
    BY FS_Singleton, ZenonT(30)
  <2>5. {k} \subseteq G
    OBVIOUS
  <2> HIDE DEF E
  <2>6. Changed(p, q, G, E)
    BY <2>1, <2>2, <2>3, <2>4, <2>5, Zenon DEF Changed
  <2> QED BY <2>6 DEF E

\* The buffer grows into the free segment after it.
<1>InPlace. ASSUME NEW p, PoolOK(p), p.result = "ok", NEW k \in p.index, k \notin p.unsized, k \in Keys,
                   NEW s \in DOMAIN p.slabs, NEW i \in 1..Len(p.slabs[s]), p.slabs[s][i].key = k,
                   <<s, p.slabs[s][i]>> \in Holds(p.slabs),
                   NEW n \in Nat, NEW q, Grows(p, q, k, s, i, n)
            PROVE  Moved(p, q, k)
  <2> USE <1>InPlace
  <2> DEFINE segs == p.slabs[s]
             j == i + 1
             x == segs[i]
             y == segs[j]
             a == x.start
             b == a + n
             m == y.num - (n - x.num)
             w == <<Used(a, n, k), Free(b, m)>>
             e == <<s, Used(a, n, k)>>
  <2>0. /\ i < Len(segs) /\ IsFree(y) /\ y.num >= n - x.num /\ n > x.num /\ x.key = k
        /\ i \in 1..Len(segs) /\ <<s, x>> \in Holds(p.slabs)
        /\ Spliced(p, q, s, i, j, w) /\ q.order = p.order /\ q.index = p.index
    BY Zenon DEF Grows
  <2>1. Sized(p) /\ Exact(p) /\ p \in Pools /\ Slabs(p.slabs) /\ Slab(segs)
    BY DEF PoolOK, Sized, Slabs
  <2> HIDE DEF segs
  <2>2. Len(segs) \in Nat /\ i \in Nat
    BY <2>0, <2>1, SlabType
  <2>3. /\ i \in 1..Len(segs) - 1 /\ j \in i..Len(segs) /\ j \in 1..Len(segs) /\ j \in Nat
        /\ j = i + 1
    BY <2>0, <2>2
  <2>4. segs[j].start = segs[i].start + segs[i].num
    BY <2>1, <2>3 DEF Slab, Chained
  <2> HIDE DEF j
  <2>5. /\ a \in Nat /\ b \in Nat /\ m \in Nat /\ a = segs[i].start /\ b = a + n /\ n \in Nat \ {0}
        /\ b + m = segs[j].start + segs[j].num
    <3>1. /\ x.start \in Nat /\ x.num \in Nat /\ y.start \in Nat /\ y.num \in Nat
          /\ y.start = x.start + x.num
      BY <2>0, <2>1, <2>3, <2>4, SlabType
    <3>2. n > x.num /\ y.num >= n - x.num
      BY <2>0
    <3> DEFINE c == x.num
               d == y.num
               u == y.start
    <3>3. a \in Nat /\ c \in Nat /\ d \in Nat /\ u \in Nat /\ u = a + c /\ n > c /\ d >= n - c
      BY <3>1, <3>2
    <3>4. b = a + n /\ m = d - (n - c)
      OBVIOUS
    <3> HIDE DEF a, b, m, c, d, u
    <3>5. b \in Nat /\ m \in Nat /\ n \in Nat \ {0} /\ b + m = u + d
      BY <3>3, <3>4
    <3> QED BY <3>3, <3>4, <3>5 DEF a, d, u
  <2> HIDE DEF a, b, m
  <2>6. j < Len(segs) => ~IsFree(segs[j + 1])
    <3>1. SUFFICES ASSUME j < Len(segs) PROVE ~IsFree(segs[j + 1])
      OBVIOUS
    <3>2. j \in 1..Len(segs) - 1
      BY <3>1, <2>2, <2>3
    <3> QED BY <3>2, <2>0, <2>1 DEF Slab, Chained
  <2>7. Covers(segs, i, j, w) /\ Usage(w) = {Used(a, n, k)}
    <3>1. w = <<Used(a, n, k), Free(b, m)>>
      OBVIOUS
    <3>2. Slab(segs) /\ i \in 1..Len(segs) /\ j \in i..Len(segs)
      BY <2>0, <2>1, <2>3
    <3>3. Room(segs, i, j, a, n, b, m)
      BY <3>2, <2>5, <2>6, Zenon DEF Room
    <3> HIDE DEF w
    <3> QED BY <3>1, <3>3, CoverBoth
  <2> HIDE DEF w
  <2>8. p.order \in Seq(Keys) /\ p.index \in SUBSET Keys
    BY <2>1, PoolType
  <2>9. Exchanged(p, q, s, i, j, w)
    <3>1. i \in 1..Len(p.slabs[s]) /\ j \in i..Len(p.slabs[s]) /\ Covers(p.slabs[s], i, j, w)
      BY <2>0, <2>3, <2>7 DEF segs
    <3>2. q.order \in Seq(Keys) /\ q.index \in SUBSET Keys
      BY <2>0, <2>8
    <3> QED BY <3>1, <3>2, <2>0, <2>1, PoolSplice
  <2> DEFINE gone == Replaced(p.slabs, s, i, j)
             A == Holds(p.slabs)
  <2>10. /\ Sized(q) /\ q.unsized = p.unsized /\ q.pins = p.pins /\ q.result = p.result
         /\ Holds(q.slabs) = (A \ gone) \cup New(s, w)
    BY <2>9, Zenon DEF Exchanged
  <2>11. New(s, w) = {e}
    BY <2>7 DEF New
  <2>12. ASSUME NEW h \in A PROVE h \in gone <=> h[2].key = k
    <3>1. ASSUME h \in gone PROVE h[2].key = k
      <4>1. PICK l \in i..j : h = <<s, segs[l]>>
        BY <3>1 DEF Replaced, segs
      <4>2. ~IsFree(segs[l])
        <5>1. PICK v, z : v \in DOMAIN p.slabs /\ z \in Usage(p.slabs[v]) /\ h = <<v, z>>
          BY HoldsIs
        <5> QED BY <5>1, <4>1 DEF Usage
      <4>3. l = i \/ l = j
        BY <2>2, <2>3
      <4> QED BY <4>1, <4>2, <4>3, <2>0
    <3>2. ASSUME h[2].key = k PROVE h \in gone
      <4>1. h = <<s, x>>
        BY <3>2, <2>0, <2>1 DEF Exact, Single, A
      <4>2. i \in i..j
        BY <2>2, <2>3
      <4> QED BY <4>1, <4>2 DEF Replaced, segs
    <3> QED BY <3>1, <3>2
  <2> HIDE DEF gone, A
  <2>13. Holds(q.slabs) = Others(p.slabs, {k}) \cup {e}
    <3>1. A \ gone = Others(p.slabs, {k})
      BY <2>12 DEF Others, A
    <3> QED BY <3>1, <2>10, <2>11, ZenonT(30)
  <2>14. k \in Touched(p.order)
    BY <2>1, NotHeld DEF Exact
  <2>15. /\ q.index = (p.index \ {k}) \cup {k} /\ q.unsized = p.unsized \ {k}
         /\ Touched(q.order) = (Touched(p.order) \ {k}) \cup {k}
    BY <2>0, <2>10, <2>14
  <2>16. e[2].key = k
    BY DEF Used
  <2> HIDE DEF e
  <2>17. Changed(p, q, {k}, {e})
    BY <2>10, <2>13, <2>15, <2>16, <1>ChangedBy, Zenon
  <2> DEFINE G == {k}
             E == {e}
  <2>18. Changed(p, q, G, E) /\ \A g \in G : g = k \/ p.pins[g] = 0
    BY <2>17
  <2>19. q.pins = p.pins /\ q.result = "ok"
    BY <2>10
  <2> HIDE DEF G, E
  <2> QED BY <2>18, <2>19, Zenon DEF Moved

\* A pinned buffer that had no segment has one now.
<1>FirstSegment. ASSUME NEW p, PoolOK(p), NEW k \in p.unsized, p.pins[k] > 0,
                        NEW n, NEW s, NEW a, NEW gone, NEW x, Allocated(p, x, n, k, s, a, gone)
                 PROVE  Moved(p, [x EXCEPT !.unsized = @ \ {k}], k)
  <2> USE <1>FirstSegment
  <2> DEFINE q == [x EXCEPT !.unsized = @ \ {k}]
             e == <<s, Used(a, n, k)>>
             G == gone \cup {k}
             E == {e}
             left == {h \in Holds(p.slabs) : h[2].key \notin gone}
  <2>1. /\ Sized(x) /\ x.unsized = p.unsized /\ x.pins = p.pins /\ x.result = "ok"
        /\ x.index = p.index \ gone /\ Touched(x.order) = (Touched(p.order) \ gone) \cup {k}
        /\ gone \subseteq InSlabs(p.slabs) /\ \A g \in gone : g \in Keys /\ p.pins[g] = 0
        /\ Holds(x.slabs) = left \cup E
    BY Zenon DEF Allocated
  <2>2. /\ Exact(p) /\ p.index = InSlabs(p.slabs) \cup p.unsized /\ InSlabs(p.slabs) \cap p.unsized = {}
    BY DEF PoolOK, Exact
  <2>3. k \notin gone
    BY <2>1, <2>2
  <2>4. k \notin InSlabs(p.slabs) /\ \A h \in Holds(p.slabs) : h[2].key # k
    BY <2>2, NotHeld
  <2>5. left = Others(p.slabs, G)
    BY <2>4 DEF Others
  <2>6. x \in Pools
    BY <2>1 DEF Sized
  <2>7. q \in Pools
    BY <2>6, ZenonT(30) DEF Pools
  <2>8. /\ q.slabs = x.slabs /\ q.index = x.index /\ q.order = x.order /\ q.pins = x.pins
        /\ q.result = x.result /\ q.allocated = x.allocated /\ q.unsized = x.unsized \ {k}
    BY <2>6 DEF Pools
  <2> HIDE DEF q, left
  <2>9. Sized(q)
    BY <2>1, <2>7, <2>8 DEF Sized
  <2>10. /\ q.index = (p.index \ G) \cup {k} /\ q.unsized = p.unsized \ G
         /\ Touched(q.order) = (Touched(p.order) \ G) \cup {k}
    BY <2>1, <2>2, <2>3, <2>8
  <2>11. e[2].key = k
    BY DEF Used
  <2>12. k \in G /\ \A g \in G : g = k \/ p.pins[g] = 0
    BY <2>1
  <2>13. Holds(q.slabs) = Others(p.slabs, G) \cup {e}
    BY <2>1, <2>5, <2>8
  <2> HIDE DEF G, e
  <2>14. Changed(p, q, G, E)
    BY <2>9, <2>10, <2>11, <2>12, <2>13, <1>ChangedBy
  <2>15. q.pins = p.pins /\ q.result = "ok"
    BY <2>1, <2>8
  <2> HIDE DEF E
  <2>16. Moved(p, q, k)
    BY <2>12, <2>14, <2>15, Zenon DEF Moved
  <2> QED BY <2>16 DEF q

\* A pinned buffer has a second segment, and leaves the first.
<1>SecondSegment. ASSUME NEW p, PoolOK(p), NEW k \in p.index, k \notin p.unsized, p.pins[k] > 0, k \in Keys,
                         NEW s \in DOMAIN p.slabs, NEW y, <<s, y>> \in Holds(p.slabs), y.key = k, ~IsFree(y),
                         NEW n, NEW u, NEW a, NEW gone, NEW x, Allocated(p, x, n, k, u, a, gone)
                  PROVE  Moved(p, RemoveSegment(x, s, FirstOf(x, s, k, y.start)), k)
  <2> USE <1>SecondSegment
  <2> DEFINE segs == x.slabs[s]
             j == FirstOf(x, s, k, y.start)
             q == RemoveSegment(x, s, j)
             e == <<u, Used(a, n, k)>>
             G == gone \cup {k}
             E == {e}
             left == {h \in Holds(p.slabs) : h[2].key \notin gone}
  <2>1. /\ Sized(x) /\ x.unsized = p.unsized /\ x.pins = p.pins /\ x.result = "ok"
        /\ x.index = p.index \ gone /\ Touched(x.order) = (Touched(p.order) \ gone) \cup {k}
        /\ gone \subseteq InSlabs(p.slabs) /\ \A g \in gone : g \in Keys /\ p.pins[g] = 0
        /\ e \notin left /\ Holds(x.slabs) = left \cup E
    BY Zenon DEF Allocated
  <2>2. /\ Exact(p) /\ p.index = InSlabs(p.slabs) \cup p.unsized /\ InSlabs(p.slabs) \cap p.unsized = {}
        /\ \A g \in Keys : Single(p.slabs, g)
    BY DEF PoolOK, Exact
  <2>3. k \notin gone
    BY <2>1
  <2>4. <<s, y>> \in left /\ <<s, y>> \in Holds(x.slabs)
    <3>1. <<s, y>>[2].key \notin gone
      BY <2>3
    <3>2. <<s, y>> \in left
      BY <3>1
    <3> QED BY <3>2, <2>1
  <2>5. s \in DOMAIN x.slabs /\ y \in Usage(segs) /\ Slab(segs)
    <3>1. PICK v, z : v \in DOMAIN x.slabs /\ z \in Usage(x.slabs[v]) /\ <<s, y>> = <<v, z>>
      BY <2>4, HoldsIs
    <3>2. s = v /\ y = z
      BY <3>1
    <3>3. Slabs(x.slabs)
      BY <2>1 DEF Sized
    <3> QED BY <3>1, <3>2, <3>3 DEF Slabs
  <2> HIDE DEF segs
  <2>6. DOMAIN segs = 1..Len(segs)
    BY <2>5, SlabType
  <2>7. PICK i \in 1..Len(segs) : segs[i] = y
    BY <2>5, <2>6 DEF Usage
  <2>8. j \in 1..Len(segs) /\ segs[j].key = k /\ segs[j].start = y.start
    <3>1. j = CHOOSE l \in DOMAIN segs : segs[l].key = k /\ segs[l].start = y.start
      BY Zenon DEF FirstOf, segs
    <3> QED BY <3>1, <2>6, <2>7, Zenon
  <2> HIDE DEF j
  <2>9. ~IsFree(segs[j])
    BY <2>8, BufferAssumption DEF IsFree
  <2>10. segs[j] = y
    <3>1. i = j
      BY <2>5, <2>7, <2>8, <2>9, UsedApart
    <3> QED BY <3>1, <2>7
  <2>11. Removed(x, q, <<s, y>>)
    <3>1. j \in 1..Len(x.slabs[s]) /\ ~IsFree(x.slabs[s][j]) /\ x.slabs[s][j] = y
      BY <2>8, <2>9, <2>10 DEF segs
    <3> QED BY <3>1, <2>1, <2>5, RemoveIs
  <2> HIDE DEF q
  <2>12. /\ Sized(q) /\ q.index = x.index /\ q.order = x.order /\ q.unsized = x.unsized
         /\ q.pins = x.pins /\ q.result = x.result
         /\ Holds(q.slabs) = Holds(x.slabs) \ {<<s, y>>}
    BY <2>11, Zenon DEF Removed
  <2>13. \A h \in Holds(p.slabs) : h[2].key = k <=> h = <<s, y>>
    <3>1. Single(p.slabs, k)
      BY <2>2
    <3> QED BY <3>1 DEF Single
  <2>14. left \ {<<s, y>>} = Others(p.slabs, G)
    <3> DEFINE g == <<s, y>>
    <3>1. \A h \in Holds(p.slabs) : h[2].key = k <=> h = g
      BY <2>13
    <3> HIDE DEF g
    <3>2. left \ {g} = Others(p.slabs, G)
      BY <3>1 DEF Others
    <3> QED BY <3>2, ZenonT(30) DEF g
  <2>15. e # <<s, y>>
    BY <2>1, <2>4
  <2>16. e[2].key = k
    BY DEF Used
  <2>17. k \in G /\ \A g \in G : g = k \/ p.pins[g] = 0
    BY <2>1
  <2> HIDE DEF left, e
  <2>18. Holds(q.slabs) = Others(p.slabs, G) \cup {e}
    <3> DEFINE g == <<s, y>>
    <3>1. /\ Holds(q.slabs) = (left \cup {e}) \ {g} /\ e # g /\ left \ {g} = Others(p.slabs, G)
      BY <2>1, <2>12, <2>14, <2>15, ZenonT(30)
    <3> HIDE DEF g, G
    <3> QED BY <3>1
  <2>19. /\ q.index = (p.index \ G) \cup {k} /\ q.unsized = p.unsized \ G
         /\ Touched(q.order) = (Touched(p.order) \ G) \cup {k}
    BY <2>1, <2>2, <2>3, <2>12
  <2> HIDE DEF G
  <2>20. Changed(p, q, G, E)
    BY <2>12, <2>16, <2>17, <2>18, <2>19, <1>ChangedBy
  <2>21. q.pins = p.pins /\ q.result = "ok"
    BY <2>1, <2>12
  <2> HIDE DEF E
  <2>22. Moved(p, q, k)
    BY <2>17, <2>20, <2>21, Zenon DEF Moved
  <2> QED BY <2>22 DEF q, j

\* reserveBuffer moves or grows the pinned buffer of k, or fails and changes nothing.
<1>ReserveIs. ASSUME NEW p, PoolOK(p), p.result = "ok", NEW k \in p.index, p.pins[k] > 0,
                     NEW n \in Nat, n > Size(p, k), NEW q \in Reserve(p, k, n)
              PROVE  \/ Moved(p, q, k)
                     \/ q \in Pools /\ Same(p, q) /\ q.result \in {"oom", "undefined"}
  <2> USE <1>ReserveIs
  <2> DEFINE w == Place(p.slabs, k)
             segs == p.slabs[w[1]]
             extra == n - segs[w[2]].num
             next == segs[w[2] + 1]
             inPlace == /\ k \notin p.unsized
                        /\ w[2] < Len(segs) /\ IsFree(next) /\ next.num >= extra
             old(x) == CHOOSE i \in DOMAIN x.slabs[w[1]] :
                         /\ x.slabs[w[1]][i].key = k
                         /\ x.slabs[w[1]][i].start = segs[w[2]].start
             leave(x) ==
               IF x.result # "ok" THEN x
               ELSE IF k \in p.unsized THEN [x EXCEPT !.unsized = @ \ {k}]
               ELSE RemoveSegment(x, w[1], old(x))
             new == <<Used(segs[w[2]].start, n, k),
                      Free(segs[w[2]].start + n, next.num - extra)>>
  <2>1. Sized(p) /\ Exact(p) /\ p \in Pools
    BY DEF PoolOK, Sized
  <2>2. k \in Keys /\ n \in Nat \ {0}
    <3>1. k \in Keys
      BY <2>1, PoolType
    <3>2. Size(p, k) \in Nat
      BY SizeIs
    <3> QED BY <3>1, <3>2
  <2>3. CASE inPlace
    <3>1. q = [p EXCEPT !.slabs[w[1]] = Splice(segs, w[2], w[2] + 1, new)]
      BY <2>3, Zenon DEF Reserve
    <3>2. Size(p, k) = segs[w[2]].num
      BY <2>3, Zenon DEF Size
    <3>3. PICK s, i : /\ s \in DOMAIN p.slabs /\ Slab(p.slabs[s]) /\ i \in 1..Len(p.slabs[s])
                      /\ p.slabs[s][i].key = k /\ w = <<s, i>>
                      /\ <<s, p.slabs[s][i]>> \in Holds(p.slabs)
      BY <2>3, HeldAt
    <3>4. w[1] = s /\ w[2] = i
      <4> HIDE DEF w
      <4> QED BY <3>3
    <3> DEFINE z == p.slabs[s]
               v == <<Used(z[i].start, n, k), Free(z[i].start + n, z[i + 1].num - (n - z[i].num))>>
               r == [p.slabs EXCEPT ![s] = Splice(z, i, i + 1, v)]
    <3>5. q = [p EXCEPT !.slabs = r]
      BY <3>1, <3>4, <2>1, PoolType, Zenon
    <3>6. i < Len(z) /\ IsFree(z[i + 1]) /\ z[i + 1].num >= n - z[i].num /\ k \notin p.unsized
      BY <2>3, <3>4, Zenon
    <3>7. n > z[i].num
      BY <3>2, <3>4, Zenon
    <3> HIDE DEF r, v
    <3>8. q.slabs = r /\ q.order = p.order /\ q.index = p.index
      BY <2>1, <3>5 DEF Pools
    <3>9. q = [p EXCEPT !.slabs = q.slabs, !.order = q.order, !.index = q.index]
      BY <2>1, <3>5, <3>8, Zenon DEF Pools
    <3>10. Spliced(p, q, s, i, i + 1, v)
      BY <3>8, <3>9 DEF Spliced, r
    <3>11. Grows(p, q, k, s, i, n)
      BY <3>6, <3>7, <3>8, <3>10, Zenon DEF Grows, v
    <3> HIDE DEF z, inPlace
    <3>12. Moved(p, q, k)
      BY <3>3, <3>6, <3>11, <2>2, <1>InPlace
    <3> QED BY <3>12, Zenon
  <2>4. CASE ~inPlace
    <3>1. PICK x \in FindFreeBuffer(p, n, k) : q = leave(x)
      BY <2>4, Zenon DEF Reserve
    <3>2. \/ \E s, a, gone : a \in Nat /\ Allocated(p, x, n, k, s, a, gone)
          \/ x \in Pools /\ Same(p, x) /\ x.result \in {"oom", "undefined"}
      <4> HIDE DEF inPlace, leave
      <4> QED BY <2>2, FindFreeIs
    <3>3. CASE x \in Pools /\ Same(p, x) /\ x.result \in {"oom", "undefined"}
      <4>1. x.result # "ok"
        BY <3>3
      <4>2. q = x
        BY <3>1, <4>1, Zenon
      <4> QED BY <3>3, <4>2, Zenon
    <3>4. CASE \E s, a, gone : a \in Nat /\ Allocated(p, x, n, k, s, a, gone)
      <4>1. PICK u, a, gone : Allocated(p, x, n, k, u, a, gone)
        BY <3>4, Zenon
      <4>2. x.result = "ok"
        BY <4>1 DEF Allocated
      <4>3. CASE k \in p.unsized
        <5>1. q = [x EXCEPT !.unsized = @ \ {k}]
          BY <3>1, <4>2, <4>3, Zenon
        <5>2. Moved(p, [x EXCEPT !.unsized = @ \ {k}], k)
          BY <4>1, <4>3, <1>FirstSegment, Zenon
        <5> QED BY <5>1, <5>2, Zenon
      <4>4. CASE k \notin p.unsized
        <5>1. q = RemoveSegment(x, w[1], old(x))
          BY <3>1, <4>2, <4>4, Zenon
        <5>2. PICK s, i : /\ s \in DOMAIN p.slabs /\ p.slabs[s][i].key = k /\ w = <<s, i>>
                          /\ ~IsFree(p.slabs[s][i]) /\ <<s, p.slabs[s][i]>> \in Holds(p.slabs)
          <6> HIDE DEF inPlace
          <6> QED BY <4>4, HeldAt
        <5>3. w[1] = s /\ w[2] = i
          <6> HIDE DEF w
          <6> QED BY <5>2
        <5> DEFINE y == p.slabs[s][i]
        <5>4. q = RemoveSegment(x, s, FirstOf(x, s, k, y.start))
          BY <5>1, <5>3, Zenon DEF FirstOf
        <5>5. <<s, y>> \in Holds(p.slabs) /\ y.key = k /\ ~IsFree(y)
          BY <5>2
        <5> HIDE DEF y, w, inPlace
        <5>6. Moved(p, RemoveSegment(x, s, FirstOf(x, s, k, y.start)), k)
          BY <5>2, <5>5, <4>1, <4>4, <2>2, <1>SecondSegment, Zenon
        <5> QED BY <5>4, <5>6, Zenon
      <4> QED BY <4>3, <4>4, Zenon
    <3> QED BY <3>2, <3>3, <3>4, Zenon
  <2> QED BY <2>3, <2>4, Zenon

<1> QED BY <1>ReserveIs

-----------------------------------------------------------------------------
(* The operations                                                           *)

\* q is a good pool, in which the pinned buffers of p whose keys are not in K are where
\* they were.
Keeps(p, q, K) ==
  PoolOK(q) /\ \A h \in Holds(p.slabs) :
                 h[2].key \notin K /\ p.pins[h[2].key] > 0 => h \in Holds(q.slabs)

\* The key of a used segment is a chunk key in the index.
LEMMA HoldKey ==
  ASSUME NEW p, PoolOK(p), NEW h \in Holds(p.slabs)
  PROVE  h[2].key \in Keys /\ h[2].key \in InSlabs(p.slabs) /\ h[2].key \in p.index
<1>1. p.index = InSlabs(p.slabs) \cup p.unsized /\ p \in Pools
  BY DEF PoolOK, Exact, Sized
<1>2. h[2].key \in InSlabs(p.slabs)
  BY KeysHeld
<1> QED BY <1>1, <1>2, PoolType

\* reserveBuffer keeps the other pinned buffers.
LEMMA MovedKeeps ==
  ASSUME NEW p, PoolOK(p), NEW q, NEW k, Moved(p, q, k)
  PROVE  Keeps(p, q, {k})
<1>1. PICK G, E : Changed(p, q, G, E) /\ \A g \in G : g = k \/ p.pins[g] = 0
  BY DEF Moved
<1>2. PoolOK(q) /\ \A h \in Holds(p.slabs) : h[2].key \notin G => h \in Holds(q.slabs)
  BY <1>1, ChangedOK DEF PoolOK
<1>3. ASSUME NEW h \in Holds(p.slabs), h[2].key \notin {k}, p.pins[h[2].key] > 0
      PROVE  h \in Holds(q.slabs)
  <2>1. h[2].key \notin G
    BY <1>1, <1>3
  <2> QED BY <2>1, <1>2
<1> QED BY <1>2, <1>3, Zenon DEF Keeps

\* What is the same keeps everything.
LEMMA SameKeeps ==
  ASSUME NEW p, PoolOK(p), NEW q \in Pools, Same(p, q), NEW K
  PROVE  Keeps(p, q, K)
<1>1. PoolOK(q)
  BY SameOK, Zenon DEF PoolOK
<1>2. q.slabs = p.slabs
  BY DEF Same
<1> QED BY <1>1, <1>2, Zenon DEF Keeps

\* A pool that holds what p holds, with the same pins but those of K.
LEMMA KeepsVia ==
  ASSUME NEW p, PoolOK(p), NEW v, v.slabs = p.slabs, NEW K,
         \A g \in Keys : g \notin K => v.pins[g] = p.pins[g], NEW q, Keeps(v, q, K)
  PROVE  Keeps(p, q, K)
<1>1. PoolOK(q) /\ \A h \in Holds(p.slabs) :
                     h[2].key \notin K /\ v.pins[h[2].key] > 0 => h \in Holds(q.slabs)
  BY Zenon DEF Keeps
<1>2. ASSUME NEW h \in Holds(p.slabs), h[2].key \notin K, p.pins[h[2].key] > 0
      PROVE  h \in Holds(q.slabs)
  <2>1. h[2].key \in Keys
    BY HoldKey
  <2>2. v.pins[h[2].key] = p.pins[h[2].key]
    BY <2>1, <1>2
  <2> QED BY <2>2, <1>1, <1>2
<1> QED BY <1>1, <1>2, Zenon DEF Keeps

\* createBuffer.
LEMMA CreatedIs ==
  ASSUME NEW p, PoolOK(p), p.result = "ok", NEW k \in Keys, k \notin p.index, NEW n \in Nat,
         NEW q \in Created(p, k, n)
  PROVE  Keeps(p, q, {k})
<1> DEFINE d == p.index \cup {k}
           o == p.unsized \cup {k}
           c == [p.pins EXCEPT ![k] = 1]
           v == [p EXCEPT !.index = d, !.unsized = o, !.pins = c]
           make(r) == IF r.result = "oom" THEN Deleted(r, k) ELSE r
<1>1. /\ Sized(p) /\ Exact(p) /\ p \in Pools /\ IsFiniteSet(p.index)
      /\ p.index = InSlabs(p.slabs) \cup p.unsized /\ InSlabs(p.slabs) \cap p.unsized = {}
  BY DEF PoolOK, Sized, Exact
<1>2. q \in IF n = 0 THEN {v} ELSE {make(r) : r \in Reserve(v, k, n)}
  <2> DEFINE u == [p EXCEPT !.index = @ \cup {k}, !.unsized = @ \cup {k}, !.pins[k] = 1]
  <2>1. q \in IF n = 0 THEN {u} ELSE {make(r) : r \in Reserve(u, k, n)}
    BY Zenon DEF Created
  <2>2. u = v
    BY <1>1 DEF Pools
  <2> HIDE DEF u, v
  <2> QED BY <2>1, <2>2
<1>3. d \in SUBSET Keys /\ o \in SUBSET Keys /\ c \in [Keys -> 0..MaxPins]
  <2>1. p.index \in SUBSET Keys /\ p.unsized \in SUBSET Keys /\ p.pins \in [Keys -> 0..MaxPins]
    BY <1>1, PoolType
  <2>2. 1 \in 0..MaxPins
    BY BufferAssumption
  <2> QED BY <2>1, <2>2
<1>4. c[k] = 1 /\ \A g \in Keys : g # k => c[g] = p.pins[g]
  <2>1. p.pins \in [Keys -> 0..MaxPins]
    BY <1>1, PoolType
  <2> QED BY <2>1
<1>5. IsFiniteSet(d)
  BY <1>1, FS_AddElement
<1>6. k \notin InSlabs(p.slabs)
  BY <1>1
<1>7. d = InSlabs(p.slabs) \cup o /\ InSlabs(p.slabs) \cap o = {} /\ k \in d /\ k \in o
  BY <1>1, <1>6
<1> HIDE DEF d, o, c
<1>8. v \in Pools
  BY <1>1, <1>3, ZenonT(30) DEF Pools
<1>9. /\ v.slabs = p.slabs /\ v.index = d /\ v.unsized = o /\ v.pins = c /\ v.order = p.order
      /\ v.allocated = p.allocated /\ v.result = p.result
  BY <1>1 DEF Pools
<1> HIDE DEF v
<1>10. Sized(v)
  BY <1>1, <1>8, <1>9, Zenon DEF Sized
<1>11. Exact(v)
  <2>1. (\A g \in Keys : Single(p.slabs, g)) /\ Touched(p.order) = InSlabs(p.slabs)
    BY <1>1, Zenon DEF Exact
  <2> QED BY <2>1, <1>5, <1>7, <1>9, Zenon DEF Exact
<1>12. PoolOK(v)
  BY <1>10, <1>11 DEF PoolOK
<1>13. SUFFICES Keeps(v, q, {k})
  <2>1. \A g \in Keys : g \notin {k} => v.pins[g] = p.pins[g]
    BY <1>4, <1>9
  <2> QED BY <2>1, <1>9, <1>13, KeepsVia
<1>14. CASE n = 0
  <2>1. q = v
    BY <1>2, <1>14, Zenon
  <2>2. Same(v, v)
    BY DEF Same
  <2> QED BY <2>1, <2>2, <1>8, <1>12, SameKeeps
<1>15. CASE n # 0
  <2>1. PICK r \in Reserve(v, k, n) : q = make(r)
    BY <1>2, <1>15, Zenon
  <2>2. k \in v.index /\ v.pins[k] > 0 /\ v.result = "ok"
    BY <1>4, <1>7, <1>9
  <2>3. n > Size(v, k)
    <3>1. Size(v, k) = 0
      BY <1>7, <1>9, Zenon DEF Size
    <3> QED BY <3>1, <1>15
  <2>4. \/ Moved(v, r, k)
        \/ r \in Pools /\ Same(v, r) /\ r.result \in {"oom", "undefined"}
    BY <2>2, <2>3, <1>12, ReserveIs
  <2>5. CASE Moved(v, r, k)
    <3>1. r.result # "oom"
      BY <2>5 DEF Moved
    <3>2. q = r
      BY <2>1, <3>1, Zenon
    <3> QED BY <3>2, <2>5, <1>12, MovedKeeps
  <2>6. CASE r \in Pools /\ Same(v, r) /\ r.result = "undefined"
    <3>1. r.result # "oom"
      BY <2>6
    <3>2. q = r
      BY <2>1, <3>1, Zenon
    <3> QED BY <3>2, <2>6, <1>12, SameKeeps
  <2>7. CASE r \in Pools /\ Same(v, r) /\ r.result = "oom"
    <3>1. q = Deleted(r, k)
      BY <2>1, <2>7, Zenon
    <3>2. PoolOK(r) /\ r.index = v.index /\ r.slabs = v.slabs
      BY <2>7, <1>12, SameOK, Zenon DEF PoolOK, Same
    <3>3. Deletes(r, q, k)
      BY <3>1, <3>2, <2>2, DeletedIs
    <3>4. Changed(r, q, {k}, {})
      BY <3>3 DEF Deletes
    <3>5. PoolOK(q) /\ \A h \in Holds(r.slabs) : h[2].key \notin {k} => h \in Holds(q.slabs)
      BY <3>2, <3>4, ChangedOK DEF PoolOK
    <3> QED BY <3>2, <3>5, Zenon DEF Keeps
  <2> QED BY <2>4, <2>5, <2>6, <2>7
<1> QED BY <1>14, <1>15

\* getBuffer of a chunk in the pool.
LEMMA FoundIs ==
  ASSUME NEW p, PoolOK(p), p.result = "ok", NEW k \in p.index, p.pins[k] < MaxPins, NEW n \in Nat,
         NEW q \in Found(p, k, n)
  PROVE  Keeps(p, q, {k}) /\ (n = 0 => q.slabs = p.slabs)
<1> DEFINE c == [p.pins EXCEPT ![k] = @ + 1]
           o == IF k \in p.unsized THEN p.order ELSE Touch(p.order, k)
           v == [p EXCEPT !.pins = c, !.order = o]
<1>1. /\ Sized(p) /\ Exact(p) /\ p \in Pools
      /\ p.index = InSlabs(p.slabs) \cup p.unsized /\ Touched(p.order) = InSlabs(p.slabs)
  BY DEF PoolOK, Sized, Exact
<1>2. q \in IF n > Size(v, k) THEN Reserve(v, k, n) ELSE {v}
  BY <1>1, PoolType, Zenon DEF Found
<1>3. /\ p.index \in SUBSET Keys /\ p.pins \in [Keys -> 0..MaxPins] /\ p.order \in Seq(Keys)
      /\ k \in Keys
  BY <1>1, PoolType
<1>4. c \in [Keys -> 0..MaxPins] /\ c[k] > 0 /\ \A g \in Keys : g # k => c[g] = p.pins[g]
  <2>1. p.pins[k] + 1 \in 0..MaxPins /\ p.pins[k] + 1 > 0
    BY <1>3, BufferAssumption
  <2> QED BY <2>1, <1>3
<1>5. o \in Seq(Keys) /\ Touched(o) = InSlabs(p.slabs)
  <2>1. CASE k \in p.unsized
    <3>1. o = p.order
      BY <2>1, Zenon
    <3> QED BY <3>1, <1>1, <1>3
  <2>2. CASE k \notin p.unsized
    <3>1. o = Touch(p.order, k)
      BY <2>2, Zenon
    <3> HIDE DEF o
    <3>2. o \in Seq(Keys) /\ Touched(o) = Touched(p.order) \cup {k}
      BY <3>1, <1>3, TouchIs
    <3>3. k \in InSlabs(p.slabs)
      BY <2>2, <1>1
    <3> QED BY <3>2, <3>3, <1>1
  <2> QED BY <2>1, <2>2
<1> HIDE DEF c, o
<1>6. v \in Pools
  BY <1>1, <1>4, <1>5, Zenon DEF Pools
<1>7. /\ v.slabs = p.slabs /\ v.index = p.index /\ v.unsized = p.unsized /\ v.pins = c
      /\ v.order = o /\ v.allocated = p.allocated /\ v.result = p.result
  BY <1>1 DEF Pools
<1> HIDE DEF v
<1>8. Sized(v)
  BY <1>1, <1>6, <1>7, Zenon DEF Sized
<1>9. Exact(v)
  <2>1. /\ IsFiniteSet(p.index) /\ InSlabs(p.slabs) \cap p.unsized = {}
        /\ \A g \in Keys : Single(p.slabs, g)
    BY <1>1, Zenon DEF Exact
  <2> QED BY <2>1, <1>1, <1>5, <1>7, Zenon DEF Exact
<1>10. PoolOK(v)
  BY <1>8, <1>9 DEF PoolOK
<1>11. \A g \in Keys : g \notin {k} => v.pins[g] = p.pins[g]
  BY <1>4, <1>7
<1>12. Size(v, k) \in Nat
  BY <1>7, <1>10, SizeIs
<1>13. CASE n > Size(v, k)
  <2>1. q \in Reserve(v, k, n)
    BY <1>2, <1>13, Zenon
  <2>2. k \in v.index /\ v.pins[k] > 0 /\ v.result = "ok"
    BY <1>4, <1>7
  <2>3. \/ Moved(v, q, k)
        \/ q \in Pools /\ Same(v, q) /\ q.result \in {"oom", "undefined"}
    BY <2>1, <2>2, <1>10, <1>13, ReserveIs
  <2>4. Keeps(v, q, {k})
    BY <2>3, <1>10, MovedKeeps, SameKeeps
  <2>5. n # 0
    BY <1>12, <1>13
  <2> QED BY <2>4, <2>5, <1>7, <1>11, KeepsVia
<1>14. CASE ~(n > Size(v, k))
  <2>1. q = v
    BY <1>2, <1>14, Zenon
  <2>2. Same(v, v)
    BY DEF Same
  <2>3. Keeps(v, q, {k})
    BY <2>1, <2>2, <1>6, <1>10, SameKeeps
  <2> QED BY <2>1, <2>3, <1>7, <1>11, KeepsVia
<1> QED BY <1>13, <1>14

\* d is p without the first i buffers of a list of the keys in K.
FirstKeys(keys, i) == {keys[j] : j \in 1..i}
Left(p, d, K, keys, i) ==
  /\ PoolOK(d) /\ d.index = p.index \ FirstKeys(keys, i)
  /\ \A h \in Holds(p.slabs) : h[2].key \notin K => h \in Holds(d.slabs)

\* Deleting several buffers leaves the others.
LEMMA DeletedAllIs ==
  \A p, K : PoolOK(p) /\ K \subseteq p.index => Keeps(p, DeletedAll(p, K), K)
\* The elements of a finite set in some order, each once.
<1>ListedIs. ASSUME NEW K, IsFiniteSet(K)
             PROVE  /\ Cardinality(K) \in Nat /\ Listed(K) \in [1..Cardinality(K) -> K]
                    /\ \A i, j \in 1..Cardinality(K) : Listed(K)[i] = Listed(K)[j] => i = j
  <2> USE <1>ListedIs
  <2> DEFINE m == Cardinality(K)
  <2>1. m \in Nat /\ ExistsBijection(1..m, K)
    BY FS_CardinalityType
  <2> HIDE DEF m
  <2>2. PICK f \in [1..m -> K] : \A i, j \in 1..m : f[i] = f[j] => i = j
    BY <2>1, Zenon DEF ExistsBijection, Bijection, Injection, IsInjective
  <2>3. Listed(K) = CHOOSE g \in [1..m -> K] : \A i, j \in 1..m : g[i] = g[j] => i = j
    BY Zenon DEF Listed, m
  <2>4. Listed(K) \in [1..m -> K] /\ \A i, j \in 1..m : Listed(K)[i] = Listed(K)[j] => i = j
    BY <2>2, <2>3, Zenon
  <2> QED BY <2>1, <2>4 DEF m

\* One more is deleted.
<1>LeftStep. ASSUME NEW p, NEW K, K \subseteq p.index, NEW m \in Nat, NEW keys \in [1..m -> K],
                    \A i, j \in 1..m : keys[i] = keys[j] => i = j,
                    NEW i \in 1..m, NEW d, Left(p, d, K, keys, i - 1)
             PROVE  Left(p, Deleted(d, keys[i]), K, keys, i)
  <2> USE <1>LeftStep
  <2> DEFINE g == keys[i]
             q == Deleted(d, g)
             A == FirstKeys(keys, i - 1)
             B == FirstKeys(keys, i)
  <2>1. /\ PoolOK(d) /\ d.index = p.index \ A
        /\ \A h \in Holds(p.slabs) : h[2].key \notin K => h \in Holds(d.slabs)
    BY Zenon DEF Left
  <2>2. g \in K /\ g \in p.index
    OBVIOUS
  <2>3. g \notin A
    <3>1. SUFFICES ASSUME NEW j \in 1..i - 1, keys[j] = g PROVE FALSE
      BY Zenon DEF FirstKeys
    <3>2. j \in 1..m /\ j # i
      OBVIOUS
    <3> QED BY <3>1, <3>2
  <2>4. B = A \cup {g}
    <3>1. \A j : j \in 1..i <=> j \in 1..i - 1 \/ j = i
      OBVIOUS
    <3> QED BY <3>1, Zenon DEF FirstKeys
  <2> HIDE DEF A, B, g
  <2>5. Deletes(d, q, g)
    <3>1. g \in d.index
      BY <2>1, <2>2, <2>3
    <3> QED BY <3>1, <2>1, DeletedIs
  <2> HIDE DEF q
  <2>6. Changed(d, q, {g}, {})
    BY <2>5 DEF Deletes
  <2>7. PoolOK(q) /\ \A h \in Holds(d.slabs) : h[2].key \notin {g} => h \in Holds(q.slabs)
    BY <2>1, <2>6, ChangedOK DEF PoolOK
  <2>8. q.index = p.index \ B
    <3>1. q.index = (d.index \ {g}) \cup KeysOf({})
      BY <2>6 DEF Changed
    <3>2. KeysOf({}) = {}
      BY DEF KeysOf
    <3> QED BY <3>1, <3>2, <2>1, <2>4
  <2>9. ASSUME NEW h \in Holds(p.slabs), h[2].key \notin K PROVE h \in Holds(q.slabs)
    BY <2>1, <2>2, <2>7, <2>9
  <2>10. Left(p, q, K, keys, i)
    BY <2>7, <2>8, <2>9, Zenon DEF Left, B
  <2> QED BY <2>10 DEF q, g

\* Deleting some buffers keeps the others.
<1>DeletedAllIs. ASSUME NEW p, PoolOK(p), NEW K, K \subseteq p.index
                 PROVE  Keeps(p, DeletedAll(p, K), K)
  <2> USE <1>DeletedAllIs
  <2> DEFINE m == Cardinality(K)
             keys == Listed(K)
             S == {d \in Pools : PoolOK(d)}
             after(i, d) == IF Left(p, d, K, keys, i - 1) THEN Deleted(d, keys[i]) ELSE p
             step == [i \in 1..m |-> [d \in S |-> after(i, d)]]
             def(g) == [i \in 0..m |-> IF i = 0 THEN p ELSE Deleted(g[i - 1], keys[i])]
             f == CHOOSE g : g = def(g)
  <2>1. IsFiniteSet(K)
    BY FS_Subset DEF PoolOK, Exact
  <2>2. /\ m \in Nat /\ keys \in [1..m -> K] /\ \A i, j \in 1..m : keys[i] = keys[j] => i = j
    BY <2>1, <1>ListedIs
  <2>3. p \in S
    BY DEF PoolOK, Sized
  <2>4. DeletedAll(p, K) = f[m]
    BY Zenon DEF DeletedAll
  <2> HIDE DEF m, keys
  <2>5. ASSUME NEW i \in 1..m, NEW d, Left(p, d, K, keys, i - 1)
        PROVE  Left(p, Deleted(d, keys[i]), K, keys, i)
    BY <2>2, <2>5, <1>LeftStep
  <2>6. Left(p, p, K, keys, 0)
    <3>1. FirstKeys(keys, 0) = {}
      BY DEF FirstKeys
    <3> QED BY <3>1 DEF Left
  <2>7. ASSUME NEW i \in 1..m, NEW d \in S PROVE after(i, d) \in S
    <3>1. CASE Left(p, d, K, keys, i - 1)
      <4>1. Left(p, Deleted(d, keys[i]), K, keys, i)
        BY <3>1, <2>5
      <4>2. Deleted(d, keys[i]) \in S
        BY <4>1 DEF Left, PoolOK, Sized
      <4> QED BY <3>1, <4>2, Zenon
    <3>2. CASE ~Left(p, d, K, keys, i - 1)
      BY <3>2, <2>3, Zenon
    <3> QED BY <3>1, <3>2
  <2> HIDE DEF S, after
  <2>8. step \in [1..m -> [S -> S]]
    BY <2>7
  <2>9. PICK e : Follows(e, m, S, p, step)
    <3> HIDE DEF step
    <3> QED BY <2>2, <2>3, <2>8, RecursionExists, Zenon
  <2>10. e \in [0..m -> S] /\ e[0] = p /\ \A i \in 1..m : e[i] = step[i][e[i - 1]]
    BY <2>9 DEF Follows
  <2>11. \A i \in 1..m : i - 1 \in 0..m /\ i \in 0..m /\ i # 0
    BY <2>2
  <2>12. \A i \in 1..m : e[i] = after(i, e[i - 1])
    <3> TAKE i \in 1..m
    <3>1. e[i - 1] \in S
      BY <2>10, <2>11
    <3>2. step[i][e[i - 1]] = after(i, e[i - 1])
      BY <3>1, Zenon
    <3> HIDE DEF step
    <3> QED BY <3>2, <2>10, Zenon
  <2>13. \A i \in 0..m : Left(p, e[i], K, keys, i)
    <3> DEFINE T == {i \in 0..m : Left(p, e[i], K, keys, i)}
    <3>1. 0 \in T
      BY <2>2, <2>6, <2>10
    <3>2. ASSUME NEW i \in 1..m, i - 1 \in T PROVE i \in T
      <4>1. Left(p, e[i - 1], K, keys, i - 1)
        BY <3>2
      <4>2. e[i] = Deleted(e[i - 1], keys[i])
        BY <4>1, <2>12, Zenon DEF after
      <4>3. Left(p, e[i], K, keys, i)
        BY <4>1, <4>2, <2>5
      <4> QED BY <4>3, <2>11
    <3>3. \A i \in 0..m : i \in T
      <4> HIDE DEF T
      <4> QED BY <2>2, <3>1, <3>2, UpTo, Zenon
    <3> QED BY <3>3
  <2>14. e = def(e)
    <3>1. \A i \in 0..m : i = 0 \/ i \in 1..m
      BY <2>2
    <3>2. \A i \in 1..m : e[i] = Deleted(e[i - 1], keys[i])
      BY <2>11, <2>12, <2>13, Zenon DEF after
    <3>3. \A i \in 0..m : e[i] = IF i = 0 THEN p ELSE Deleted(e[i - 1], keys[i])
      BY <3>1, <3>2, <2>10, <2>11, Zenon
    <3>4. e = [i \in 0..m |-> e[i]]
      BY <2>10
    <3> QED BY <3>3, <3>4, Zenon
  <2>15. f = def(f)
    <3> HIDE DEF def
    <3> QED BY <2>14, Zenon
  <2>16. f[0] = p /\ \A i \in 1..m : f[i] = Deleted(f[i - 1], keys[i])
    <3> HIDE DEF f
    <3>1. \A i \in 0..m : f[i] = IF i = 0 THEN p ELSE Deleted(f[i - 1], keys[i])
      BY <2>15, Zenon
    <3>2. 0 \in 0..m
      BY <2>2
    <3> QED BY <3>1, <3>2, <2>11, Zenon
  <2>17. \A i \in 0..m : Left(p, f[i], K, keys, i)
    <3> DEFINE T == {i \in 0..m : Left(p, f[i], K, keys, i)}
    <3> HIDE DEF f
    <3>1. 0 \in T
      BY <2>2, <2>6, <2>16
    <3>2. ASSUME NEW i \in 1..m, i - 1 \in T PROVE i \in T
      <4>1. Left(p, f[i - 1], K, keys, i - 1)
        BY <3>2
      <4>2. Left(p, f[i], K, keys, i)
        BY <4>1, <2>5, <2>16
      <4> QED BY <4>2, <2>11
    <3>3. \A i \in 0..m : i \in T
      <4> HIDE DEF T
      <4> QED BY <2>2, <3>1, <3>2, UpTo, Zenon
    <3> QED BY <3>3
  <2> HIDE DEF f
  <2>18. Left(p, f[m], K, keys, m)
    BY <2>2, <2>17
  <2> QED BY <2>4, <2>18, Zenon DEF Left, Keeps

<1> QED BY <1>DeletedAllIs

\* A pool without slabs and buffers.
LEMMA EmptyOK ==
  ASSUME NEW p \in Pools, p.slabs = <<>>, p.unsized = {}, p.index = {}, p.order = <<>>,
         p.allocated = 0
  PROVE  PoolOK(p)
<1> DEFINE ss == p.slabs
<1>1. ss = <<>> /\ DOMAIN ss = {} /\ ss \in Seq(Seq(Segment))
  OBVIOUS
<1>2. Slabs(ss)
  BY <1>1 DEF Slabs
<1>3. SumOf(Ends(ss)) = 0
  <2>1. Ends(ss) = <<>>
    BY <1>1 DEF Ends
  <2> DEFINE e == <<>>
             g == [i \in 0..0 |-> 0]
  <2>2. e \in Seq(Int) /\ Len(e) = 0
    OBVIOUS
  <2>3. g \in [0..0 -> Int] /\ g[0] = 0 /\ \A i \in 1..0 : FALSE
    OBVIOUS
  <2> HIDE DEF e, g
  <2>4. IsSum(e, g)
    BY <2>2, <2>3 DEF IsSum
  <2>5. SumOf(e) = g[Len(e)]
    BY <2>2, <2>4, SumIs, ZenonT(30)
  <2> QED BY <2>1, <2>2, <2>3, <2>5 DEF e
<1>4. Holds(ss) = {}
  BY <1>1 DEF Holds
<1>5. InSlabs(ss) = {}
  BY <1>4, KeysHeld
<1>6. Touched(p.order) = {}
  BY DEF Touched
<1>7. \A k \in Keys : Single(ss, k)
  BY <1>4 DEF Single
<1> HIDE DEF ss
<1>8. Sized(p)
  BY <1>2, <1>3 DEF Sized, ss
<1>9. Exact(p)
  BY <1>5, <1>6, <1>7, FS_EmptySet, Zenon DEF Exact, ss
<1> QED BY <1>8, <1>9 DEF PoolOK

\* freeAllMem, clear and reinit leave such a pool.
LEMMA ClearedIs ==
  ASSUME NEW p \in Pools
  PROVE  PoolOK(Cleared(p))
<1> DEFINE c == [k \in Keys |-> 0]
           q == [p EXCEPT !.slabs = <<>>, !.unsized = {}, !.index = {}, !.pins = c,
                          !.order = <<>>, !.cur = MaxSlab, !.capped = FALSE, !.allocated = 0]
<1>1. c \in [Keys -> 0..MaxPins]
  BY BufferAssumption
<1>2. Cleared(p) = q
  BY DEF Cleared
<1> HIDE DEF c
<1>3. MaxSlab \in 0..MaxSlab /\ 0 \in 0..PoolPages
  BY BufferAssumption
<1>4. <<>> \in Seq(Seq(Segment)) /\ <<>> \in Seq(Keys)
  OBVIOUS
<1>5. q \in Pools
  BY <1>1, <1>3, <1>4, ZenonT(30) DEF Pools
<1>6. q.slabs = <<>> /\ q.unsized = {} /\ q.index = {} /\ q.order = <<>> /\ q.allocated = 0
  BY DEF Pools
<1> HIDE DEF q
<1> QED BY <1>2, <1>5, <1>6, EmptyOK, Zenon

-----------------------------------------------------------------------------
(* The inductive invariant                                                  *)

IInv == PoolOK(Pool) /\ undefined \in BOOLEAN /\ passed \subseteq Keys

\* The pinned buffers whose keys are not in K stay in their segments.
Stays(K) == \A h \in Holds(slabs) : h[2].key \notin K /\ pins[h[2].key] > 0 => h \in Holds(slabs')

\* The fields of the state.
LEMMA PoolFields ==
  /\ Pool.slabs = slabs /\ Pool.unsized = unsized /\ Pool.index = index /\ Pool.pins = pins
  /\ Pool.order = order /\ Pool.allocated = allocated /\ Pool.result = "ok"
  /\ Pool.cur = cur /\ Pool.capped = capped
BY DEF Pool

\* What an operation leaves becomes the state.
LEMMA BecomeKeeps ==
  ASSUME IInv, NEW p, NEW K, Keeps(Pool, p, K), NEW H \in SUBSET Keys, Become(p, H)
  PROVE  IInv' /\ Stays(K) /\ slabs' = p.slabs
<1> DEFINE q == Pool'
<1>1. PoolOK(p) /\ p \in Pools
  BY DEF Keeps, PoolOK, Sized
<1>2. q = [slabs |-> p.slabs, unsized |-> p.unsized, index |-> p.index, pins |-> p.pins,
           order |-> p.order, cur |-> p.cur, capped |-> p.capped, allocated |-> p.allocated,
           result |-> "ok"]
  BY DEF Pool, Become
<1>3. q \in Pools
  BY <1>1, <1>2 DEF Pools
<1>4. Same(p, q)
  BY <1>2 DEF Same
<1> HIDE DEF q
<1>5. PoolOK(q)
  BY <1>1, <1>3, <1>4, SameOK, Zenon DEF PoolOK
<1>6. undefined' \in BOOLEAN /\ slabs' = p.slabs /\ passed' \subseteq Keys
  BY DEF Become, IInv
<1>7. Stays(K)
  BY <1>6, PoolFields, Zenon DEF Stays, Keeps
<1> QED BY <1>5, <1>6, <1>7 DEF IInv, q

\* Initially there is nothing.
LEMMA InvInit == Init => IInv
<1> SUFFICES ASSUME Init PROVE IInv
  OBVIOUS
<1>1. [k \in Keys |-> 0] \in [Keys -> 0..MaxPins] /\ MaxSlab \in 0..MaxSlab /\ 0 \in 0..PoolPages
  BY BufferAssumption
<1>2. <<>> \in Seq(Seq(Segment)) /\ <<>> \in Seq(Keys)
  OBVIOUS
<1>3. Pool \in Pools
  BY <1>1, <1>2, ZenonT(30) DEF Init, Pool, Pools
<1>4. PoolOK(Pool)
  BY <1>3, PoolFields, EmptyOK DEF Init
<1> QED BY <1>4, Zenon DEF IInv, Init

\* createBuffer; every pinned buffer stays, as k had none.
LEMMA CreateStep ==
  ASSUME IInv, NEW k \in Keys, NEW n \in Nat, CreateBuffer(k, n)
  PROVE  IInv' /\ Stays({})
<1>1. PICK p \in Created(Pool, k, n) : Become(p, {})
  BY DEF CreateBuffer
<1>2. PoolOK(Pool) /\ k \notin Pool.index
  BY PoolFields DEF IInv, CreateBuffer
<1>3. Keeps(Pool, p, {k})
  BY <1>2, PoolFields, CreatedIs
<1>4. Keeps(Pool, p, {})
  <2>1. \A h \in Holds(Pool.slabs) : h[2].key \notin {k}
    BY <1>2, HoldKey
  <2> QED BY <2>1, <1>3, Zenon DEF Keeps
<1> QED BY <1>1, <1>4, BecomeKeeps

\* Buffer::reserve.
LEMMA GrowStep ==
  ASSUME IInv, NEW k, NEW n \in Nat, GrowBuffer(k, n)
  PROVE  IInv' /\ Stays({k})
<1>1. PICK p \in Reserve(Pool, k, n) : Become(p, {})
  BY DEF GrowBuffer
<1>2. PoolOK(Pool) /\ k \in Pool.index /\ Pool.pins[k] > 0 /\ n > Size(Pool, k)
  BY PoolFields DEF IInv, GrowBuffer
<1>3. \/ Moved(Pool, p, k)
      \/ p \in Pools /\ Same(Pool, p) /\ p.result \in {"oom", "undefined"}
  BY <1>2, PoolFields, ReserveIs
<1>4. Keeps(Pool, p, {k})
  BY <1>2, <1>3, MovedKeeps, SameKeeps
<1> QED BY <1>1, <1>4, BecomeKeeps

\* getBuffer.
LEMMA GetStep ==
  ASSUME IInv, NEW k, NEW n \in Nat, GetBuffer(k, n)
  PROVE  IInv' /\ Stays({k}) /\ (n = 0 => slabs' = slabs)
<1>1. PICK p \in Found(Pool, k, n) : Become(p, {})
  BY DEF GetBuffer
<1>2. PoolOK(Pool) /\ k \in Pool.index /\ Pool.pins[k] < MaxPins
  BY PoolFields DEF IInv, GetBuffer
<1>3. Keeps(Pool, p, {k}) /\ (n = 0 => p.slabs = Pool.slabs)
  BY <1>2, PoolFields, FoundIs
<1>4. IInv' /\ Stays({k}) /\ slabs' = p.slabs
  BY <1>1, <1>3, BecomeKeeps
<1> QED BY <1>3, <1>4, PoolFields

\* unPin.
LEMMA UnPinStep ==
  ASSUME IInv, NEW k, UnPin(k)
  PROVE  IInv' /\ Stays({})
<1> DEFINE q == Pool'
           c == [pins EXCEPT ![k] = @ - 1]
<1>1. /\ slabs' = slabs /\ unsized' = unsized /\ index' = index /\ order' = order /\ cur' = cur
      /\ capped' = capped /\ allocated' = allocated /\ undefined' = undefined /\ pins' = c
      /\ passed' = passed /\ k \in index /\ pins[k] > 0
  BY DEF UnPin
<1>2. PoolOK(Pool) /\ Pool \in Pools /\ Sized(Pool) /\ Exact(Pool)
  BY DEF IInv, PoolOK, Sized
<1>3. /\ slabs \in Seq(Seq(Segment)) /\ unsized \in SUBSET Keys /\ index \in SUBSET Keys
      /\ pins \in [Keys -> 0..MaxPins] /\ order \in Seq(Keys) /\ cur \in 0..MaxSlab
      /\ capped \in BOOLEAN /\ allocated \in 0..PoolPages
  BY <1>2, PoolFields, PoolType
<1>4. c \in [Keys -> 0..MaxPins]
  <2>1. pins[k] - 1 \in 0..MaxPins
    BY <1>1, <1>3, BufferAssumption
  <2> QED BY <2>1, <1>1, <1>3
<1> HIDE DEF c
<1>5. q = [slabs |-> slabs, unsized |-> unsized, index |-> index, pins |-> c, order |-> order,
           cur |-> cur, capped |-> capped, allocated |-> allocated, result |-> "ok"]
  BY <1>1 DEF Pool
<1>6. q \in Pools
  BY <1>3, <1>4, <1>5 DEF Pools
<1>7. /\ q.slabs = Pool.slabs /\ q.unsized = Pool.unsized /\ q.index = Pool.index
      /\ q.order = Pool.order /\ q.allocated = Pool.allocated
  BY <1>5 DEF Pool
<1> HIDE DEF q
<1>8. Sized(q)
  BY <1>2, <1>6, <1>7, Zenon DEF Sized
<1>9. Exact(q)
  BY <1>2, <1>7, Zenon DEF Exact
<1>10. undefined' \in BOOLEAN /\ passed' \subseteq Keys
  BY <1>1 DEF IInv
<1>11. Stays({})
  BY <1>1, Zenon DEF Stays
<1> QED BY <1>8, <1>9, <1>10, <1>11 DEF IInv, PoolOK, q

\* deleteBuffer.
LEMMA DeleteStep ==
  ASSUME IInv, NEW k, DeleteBuffer(k)
  PROVE  IInv' /\ Stays({k})
<1>1. PICK p : p = Deleted(Pool, k) /\ Become(p, {})
  BY DEF DeleteBuffer
<1>2. PoolOK(Pool) /\ k \in Pool.index
  BY PoolFields DEF IInv, DeleteBuffer
<1>3. Changed(Pool, p, {k}, {})
  BY <1>1, <1>2, DeletedIs, ZenonT(30) DEF Deletes
<1>4. PoolOK(p) /\ \A h \in Holds(Pool.slabs) : h[2].key \notin {k} => h \in Holds(p.slabs)
  BY <1>2, <1>3, ChangedOK DEF PoolOK
<1>5. Keeps(Pool, p, {k})
  BY <1>4, Zenon DEF Keeps
<1> QED BY <1>1, <1>5, BecomeKeeps

\* Unpinned buffers are deleted.
LEMMA DeleteAllKeeps ==
  ASSUME NEW p, PoolOK(p), NEW K, K \subseteq p.index, \A k \in K : p.pins[k] = 0
  PROVE  Keeps(p, DeletedAll(p, K), {})
<1>1. Keeps(p, DeletedAll(p, K), K)
  BY DeletedAllIs
<1>2. \A h \in Holds(p.slabs) : p.pins[h[2].key] > 0 => h[2].key \notin K
  <2> SUFFICES ASSUME NEW h \in Holds(p.slabs), p.pins[h[2].key] > 0, h[2].key \in K PROVE FALSE
    OBVIOUS
  <2>1. p.pins[h[2].key] = 0
    OBVIOUS
  <2> QED BY <2>1
<1> QED BY <1>1, <1>2, Zenon DEF Keeps

\* deleteBuffersWithPrefix.
LEMMA PrefixStep ==
  ASSUME IInv, NEW P, DeletePrefix(P)
  PROVE  IInv' /\ Stays({})
<1> DEFINE K == {k \in P \cap index : pins[k] = 0}
           H == {k \in P \cap index : pins[k] > 0}
<1>1. PICK p : p = DeletedAll(Pool, K) /\ Become(p, H)
  BY Zenon DEF DeletePrefix
<1>2. PoolOK(Pool) /\ K \subseteq Pool.index /\ \A k \in K : Pool.pins[k] = 0
  BY PoolFields DEF IInv
<1>3. H \subseteq Keys
  BY PoolFields, PoolType DEF IInv, PoolOK, Sized
<1> HIDE DEF K, H
<1>4. Keeps(Pool, p, {})
  BY <1>1, <1>2, DeleteAllKeeps
<1> QED BY <1>1, <1>3, <1>4, BecomeKeeps

\* clearSlabs.
LEMMA ClearStep ==
  ASSUME IInv, ClearSlabs
  PROVE  IInv' /\ Stays({})
<1> DEFINE K == {k \in InSlabs(slabs) : pins[k] = 0}
<1>1. PICK p, q : /\ p = DeletedAll(Pool, K) /\ Become(q, {})
                  /\ q = IF InSlabs(slabs) = K THEN Cleared(p) ELSE p
  BY Zenon DEF ClearSlabs
<1>2. PoolOK(Pool) /\ K \subseteq Pool.index /\ \A k \in K : Pool.pins[k] = 0
  BY PoolFields DEF IInv, PoolOK, Exact
<1>3. \A k \in K : pins[k] = 0
  OBVIOUS
<1> HIDE DEF K
<1>4. Keeps(Pool, p, {})
  BY <1>1, <1>2, DeleteAllKeeps
<1>5. CASE InSlabs(slabs) = K
  <2>1. q = Cleared(p)
    BY <1>1, <1>5, Zenon
  <2>2. p \in Pools
    BY <1>4 DEF Keeps, PoolOK, Sized
  <2>3. PoolOK(q)
    BY <2>1, <2>2, ClearedIs
  <2>4. ASSUME NEW h \in Holds(Pool.slabs), Pool.pins[h[2].key] > 0 PROVE FALSE
    <3>1. h[2].key \in InSlabs(slabs)
      BY <1>2, HoldKey, PoolFields
    <3>2. pins[h[2].key] = 0
      BY <3>1, <1>3, <1>5, ZenonT(30)
    <3> QED BY <3>2, <2>4, PoolFields
  <2>5. Keeps(Pool, q, {})
    BY <2>3, <2>4, Zenon DEF Keeps
  <2> QED BY <2>5, <1>1, BecomeKeeps
<1>6. CASE InSlabs(slabs) # K
  <2>1. q = p
    BY <1>1, <1>6, Zenon
  <2> QED BY <2>1, <1>1, <1>4, BecomeKeeps
<1> QED BY <1>5, <1>6

\* A step that changes nothing.
LEMMA StutterStep ==
  ASSUME IInv, UNCHANGED vars
  PROVE  IInv' /\ Stays({})
<1>1. Pool' = Pool /\ undefined' = undefined /\ slabs' = slabs /\ passed' = passed
  BY DEF vars, Pool
<1>2. Stays({})
  BY <1>1, Zenon DEF Stays
<1> QED BY <1>1, <1>2 DEF IInv

\* Every step keeps the invariant.
LEMMA InvNext == IInv /\ [Next]_vars => IInv'
<1> SUFFICES ASSUME IInv, [Next]_vars PROVE IInv'
  OBVIOUS
<1>0. (\A n \in 0..MaxRequest : n \in Nat) /\ \A n \in 1..MaxRequest : n \in Nat
  BY BufferAssumption
<1>1. ASSUME NEW k \in Keys, NEW n \in 0..MaxRequest, CreateBuffer(k, n) PROVE IInv'
  BY <1>0, <1>1, CreateStep
<1>2. ASSUME NEW k \in Keys, NEW n \in 0..MaxRequest, GetBuffer(k, n) PROVE IInv'
  BY <1>0, <1>2, GetStep, Zenon
<1>3. ASSUME NEW k \in Keys, NEW n \in 1..MaxRequest, GrowBuffer(k, n) PROVE IInv'
  BY <1>0, <1>3, GrowStep, Zenon
<1>4. ASSUME NEW k \in Keys, UnPin(k) PROVE IInv'
  BY <1>4, UnPinStep
<1>5. ASSUME NEW k \in Keys, DeleteBuffer(k) PROVE IInv'
  BY <1>5, DeleteStep, Zenon
<1>6. ASSUME NEW P \in Prefixes, DeletePrefix(P) PROVE IInv'
  BY <1>6, PrefixStep
<1>7. CASE ClearSlabs
  BY <1>7, ClearStep
<1>8. CASE UNCHANGED vars
  BY <1>8, StutterStep
<1> QED BY <1>1, <1>2, <1>3, <1>4, <1>5, <1>6, <1>7, <1>8, Zenon DEF Next

\* The invariant always holds.
THEOREM InvAlways == Spec => []IInv
BY InvInit, InvNext, PTL DEF Spec

-----------------------------------------------------------------------------
(* The theorems                                                             *)

\* What the invariant says of a slab.
LEMMA SlabOf ==
  ASSUME IInv, NEW s \in DOMAIN slabs
  PROVE  Slab(slabs[s]) /\ End(slabs[s]) <= MaxSlab
<1>1. Slabs(slabs)
  BY PoolFields DEF IInv, PoolOK, Sized
<1> QED BY <1>1 DEF Slabs

\* The state has its types: in particular no segment ends behind its slab, the slabs
\* together never exceed the pool, and a pin count never falls below zero.
THEOREM PoolTypes == Spec => []TypeOK
<1>1. IInv => TypeOK
  <2> SUFFICES ASSUME IInv PROVE TypeOK
    OBVIOUS
  <2>1. Pool \in Pools
    BY DEF IInv, PoolOK, Sized
  <2>2. /\ unsized \subseteq Keys /\ index \subseteq Keys /\ pins \in [Keys -> 0..MaxPins]
        /\ cur \in 0..MaxSlab /\ allocated \in 0..PoolPages /\ capped \in BOOLEAN
    BY <2>1, PoolFields, PoolType
  <2>3. ASSUME NEW s \in DOMAIN slabs, NEW i \in DOMAIN slabs[s]
        PROVE  slabs[s][i] \in [start : 0..MaxSlab, num : 0..MaxSlab, key : Keys \cup {None}]
    <3> DEFINE segs == slabs[s]
    <3>1. Slab(segs) /\ End(segs) <= MaxSlab
      BY SlabOf
    <3>2. i \in 1..Len(segs)
      BY <3>1, SlabType
    <3>3. segs[i] \in Segment /\ segs[i].start \in Nat /\ segs[i].num \in Nat /\ End(segs) \in Nat
      BY <3>1, <3>2, SlabType
    <3>4. segs[i].start + segs[i].num <= End(segs)
      BY <3>1, <3>2, EndsWithin
    <3>5. segs[i].start \in 0..MaxSlab /\ segs[i].num \in 0..MaxSlab
      BY <3>1, <3>3, <3>4, BufferAssumption
    <3> QED BY <3>3, <3>5 DEF Segment
  <2> QED BY <2>2, <2>3 DEF TypeOK, IInv
<1> QED BY <1>1, InvAlways, PTL

\* The segments of a slab tile it, so no page is lost or given to two buffers, and the
\* slabs together are the pages that addSlab counted.
THEOREM PoolTiled == Spec => []Tiling
<1>1. IInv => Tiling
  <2> SUFFICES ASSUME IInv PROVE Tiling
    OBVIOUS
  <2> DEFINE pages(s) == Pages(slabs[s], 1, Len(slabs[s]))
  <2>1. ASSUME NEW s \in DOMAIN slabs
        PROVE  /\ slabs[s] # <<>> /\ slabs[s][1].start = 0
               /\ \A i \in 1..Len(slabs[s]) - 1 :
                    slabs[s][i + 1].start = slabs[s][i].start + slabs[s][i].num
    BY SlabOf DEF Slab, Chained
  <2>2. ASSUME NEW s \in DOMAIN slabs PROVE pages(s) = End(slabs[s])
    <3> DEFINE segs == slabs[s]
               n == Len(segs)
    <3>1. Slab(segs) /\ segs[1].start = 0
      BY SlabOf DEF Slab
    <3> HIDE DEF segs
    <3>2. n \in 1 - 1..n /\ 1 \in 1..n /\ ~(n < 1) /\ n \in 1..n
      BY <3>1, SlabType
    <3>3. segs[n].start \in Nat /\ segs[n].num \in Nat
      BY <3>1, <3>2, SlabType
    <3>4. Pages(segs, 1, n) = segs[n].start + segs[n].num - segs[1].start
      BY <3>1, <3>2, PagesIs
    <3>5. Pages(segs, 1, n) = segs[n].start + segs[n].num
      BY <3>1, <3>3, <3>4
    <3> QED BY <3>5 DEF segs, End
  <2>3. [s \in DOMAIN slabs |-> pages(s)] = Ends(slabs)
    <3> HIDE DEF pages
    <3> QED BY <2>2, Zenon DEF Ends
  <2>4. SumOf(Ends(slabs)) = allocated
    BY PoolFields DEF IInv, PoolOK, Sized
  <2> QED BY <2>1, <2>3, <2>4, Zenon DEF Tiling
<1> QED BY <1>1, InvAlways, PTL

\* Free segments are always joined, which evict and first fit rely on.
THEOREM PoolJoined == Spec => []NoAdjacentFree
<1>1. IInv => NoAdjacentFree
  BY SlabOf DEF NoAdjacentFree, Slab, Chained
<1> QED BY <1>1, InvAlways, PTL

\* chunk_index_ names no buffer that does not exist and hides none that was not to be
\* deleted, and each buffer is in one place.
THEOREM PoolIndexed == Spec => []IndexExact
<1>1. IInv => IndexExact
  <2> SUFFICES ASSUME IInv PROVE IndexExact
    OBVIOUS
  <2>1. PoolOK(Pool) /\ Slabs(slabs)
    BY PoolFields DEF IInv, PoolOK, Sized
  <2>2. /\ index = InSlabs(slabs) \cup unsized /\ InSlabs(slabs) \cap unsized = {}
        /\ (\A k \in Keys : Single(slabs, k)) /\ Touched(order) = InSlabs(slabs)
    BY <2>1, PoolFields DEF PoolOK, Exact
  <2>3. ASSUME NEW k \in InSlabs(slabs) PROVE Cardinality(Where(slabs, k)) = 1
    <3>1. PICK h \in Holds(slabs) : h[2].key = k
      BY KeysHeld
    <3>2. PICK s, x : s \in DOMAIN slabs /\ x \in Usage(slabs[s]) /\ h = <<s, x>>
      BY HoldsIs
    <3>3. x.key = k /\ k \in Keys
      <4>1. h[2].key \in Keys
        BY <2>1, HoldKey, PoolFields
      <4> QED BY <4>1, <3>1, <3>2
    <3>4. PICK i \in 1..Len(slabs[s]) : Where(slabs, k) = {<<s, i>>}
      BY <2>1, <2>2, <3>2, <3>3, PlaceIs
    <3> QED BY <3>4, FS_Singleton, ZenonT(30)
  <2> QED BY <2>2, <2>3, Zenon DEF IndexExact, Touched
<1> QED BY <1>1, InvAlways, PTL

\* A pinned buffer that stays in its segment has its address and its size.
LEMMA InSegment ==
  ASSUME IInv, IInv', NEW K, Stays(K), NEW k \in InSlabs(slabs), k \notin K, pins[k] > 0
  PROVE  StaysPut(slabs, slabs', k)
<1> DEFINE t == slabs'
           v == Place(t, k)
           w == Place(slabs, k)
<1>1. /\ PoolOK(Pool) /\ Slabs(slabs) /\ Slabs(t)
      /\ (\A g \in Keys : Single(slabs, g)) /\ \A g \in Keys : Single(t, g)
  BY PoolFields, ZenonT(30) DEF IInv, PoolOK, Sized, Exact, Pool
<1>2. PICK h \in Holds(slabs) : h[2].key = k
  BY KeysHeld
<1>3. h \in Holds(t)
  BY <1>2 DEF Stays
<1> HIDE DEF t
<1>4. PICK s, x : s \in DOMAIN slabs /\ x \in Usage(slabs[s]) /\ h = <<s, x>>
  BY HoldsIs
<1>5. s \in DOMAIN t /\ x \in Usage(t[s])
  <2>1. PICK u, y : u \in DOMAIN t /\ y \in Usage(t[u]) /\ h = <<u, y>>
    BY <1>3, HoldsIs
  <2>2. u = s /\ y = x
    BY <2>1, <1>4
  <2> QED BY <2>1, <2>2
<1>6. x.key = k /\ k \in Keys /\ k \in index
  <2>1. h[2].key \in Keys /\ h[2].key \in Pool.index
    BY <1>1, HoldKey, PoolFields
  <2> QED BY <2>1, <1>2, <1>4, PoolFields
<1>7. PICK i \in 1..Len(slabs[s]) : slabs[s][i] = x /\ w = <<s, i>>
  BY <1>1, <1>4, <1>6, PlaceIs
<1>8. PICK j \in 1..Len(t[s]) : t[s][j] = x /\ v = <<s, j>>
  BY <1>1, <1>5, <1>6, PlaceIs
<1> HIDE DEF v, w
<1>9. w[1] = s /\ w[2] = i /\ v[1] = s /\ v[2] = j
  BY <1>7, <1>8
<1>10. k \in InSlabs(t)
  BY <1>2, <1>3, KeysHeld
<1>11. x.num \in Nat
  <2>1. Slab(slabs[s])
    BY <1>1, <1>4, Zenon DEF Slabs
  <2>2. slabs[s][i].num \in Nat
    BY <2>1, SlabType
  <2> QED BY <2>2, <1>7, Zenon
<1>12. x.num >= x.num
  BY <1>11
<1>13. v[1] = w[1] /\ slabs[w[1]][w[2]] = x /\ t[v[1]][v[2]] = x
  BY <1>7, <1>8, <1>9, Zenon
<1> QED BY <1>10, <1>12, <1>13, Zenon DEF StaysPut, t, v, w

\* The memory of a pinned buffer stays where it is whatever is done to other buffers.
THEOREM PoolPinned == Spec => PinnedStays
<1> DEFINE place(k) == StaysPut(slabs, slabs', k)
           own(k) == \/ place(k) \/ DeleteBuffer(k)
                     \/ \E n \in 1..MaxRequest : GrowBuffer(k, n) \/ GetBuffer(k, n)
<1>1. ASSUME IInv, IInv', [Next]_vars PROVE PinnedStep
  <2> SUFFICES ASSUME NEW k \in InSlabs(slabs), pins[k] > 0 PROVE own(k)
    BY DEF PinnedStep
  <2>0. \A n \in 0..MaxRequest : n \in Nat /\ (n = 0 \/ n \in 1..MaxRequest)
    BY BufferAssumption
  <2>1. ASSUME NEW K, Stays(K), k \notin K PROVE place(k)
    BY <1>1, <2>1, InSegment, Zenon
  <2>2. ASSUME Stays({}) PROVE own(k)
    <3>1. k \notin {}
      OBVIOUS
    <3>2. place(k)
      BY <2>1, <2>2, <3>1, Zenon
    <3> QED BY <3>2, Zenon
  <2>3. ASSUME NEW g, g # k, Stays({g}) PROVE own(k)
    <3>1. k \notin {g}
      BY <2>3
    <3>2. place(k)
      BY <2>1, <2>3, <3>1, Zenon
    <3> QED BY <3>2, Zenon
  <2> HIDE DEF place
  <2>4. ASSUME NEW g \in Keys, NEW n \in 0..MaxRequest, CreateBuffer(g, n) PROVE own(k)
    <3>1. Stays({})
      BY <1>1, <2>0, <2>4, CreateStep
    <3> QED BY <3>1, <2>2, Zenon
  <2>5. ASSUME NEW g \in Keys, NEW n \in 0..MaxRequest, GetBuffer(g, n) PROVE own(k)
    <3>1. Stays({g}) /\ (n = 0 => slabs' = slabs)
      BY <1>1, <2>0, <2>5, GetStep
    <3>2. CASE g # k
      BY <3>1, <3>2, <2>3, Zenon
    <3>3. CASE g = k /\ n = 0
      <4>1. Stays({})
        BY <3>1, <3>3, Zenon DEF Stays
      <4> QED BY <4>1, <2>2, Zenon
    <3>4. CASE g = k /\ n \in 1..MaxRequest
      BY <3>4, <2>5, Zenon
    <3> QED BY <3>2, <3>3, <3>4, <2>0, Zenon
  <2>6. ASSUME NEW g \in Keys, NEW n \in 1..MaxRequest, GrowBuffer(g, n) PROVE own(k)
    <3>1. n \in Nat
      OBVIOUS
    <3>2. Stays({g})
      BY <1>1, <2>6, <3>1, GrowStep
    <3> QED BY <3>2, <2>3, <2>6, Zenon
  <2>7. ASSUME NEW g \in Keys, UnPin(g) PROVE own(k)
    <3>1. Stays({})
      BY <1>1, <2>7, UnPinStep
    <3> QED BY <3>1, <2>2, Zenon
  <2>8. ASSUME NEW g \in Keys, DeleteBuffer(g) PROVE own(k)
    <3>1. Stays({g})
      BY <1>1, <2>8, DeleteStep
    <3> QED BY <3>1, <2>3, <2>8, Zenon
  <2>9. ASSUME NEW P \in Prefixes, DeletePrefix(P) PROVE own(k)
    <3>1. Stays({})
      BY <1>1, <2>9, PrefixStep
    <3> QED BY <3>1, <2>2, Zenon
  <2>10. CASE ClearSlabs
    <3>1. Stays({})
      BY <1>1, <2>10, ClearStep
    <3> QED BY <3>1, <2>2, Zenon
  <2>11. CASE UNCHANGED vars
    <3>1. Stays({})
      BY <1>1, <2>11, StutterStep
    <3> QED BY <3>1, <2>2, Zenon
  <2> HIDE DEF own
  <2> QED BY <1>1, <2>4, <2>5, <2>6, <2>7, <2>8, <2>9, <2>10, <2>11, Zenon DEF Next
<1>2. IInv /\ IInv' /\ [Next]_vars => [PinnedStep]_vars
  BY <1>1
<1> QED BY <1>2, InvAlways, PTL DEF Spec, PinnedStays

=============================================================================
