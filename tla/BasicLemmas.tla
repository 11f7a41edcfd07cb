----------------------------- MODULE BasicLemmas -----------------------------
(***************************************************************************)
(* What the proofs about several components need: induction and recursion  *)
(* over the naturals, stated with sets in place of predicates, counting,   *)
(* filtered sequences, and quotients and remainders.                       *)
(***************************************************************************)
EXTENDS Integers, Sequences, FiniteSets, SeqFilter, WellFoundedInduction, FiniteSetTheorems, TLAPS

\* How long the provers may take for a step, in seconds.
USE SMTT(30), ZenonT(30)

\* Every non-empty set of naturals has a least element.
LEMMA LeastNat ==
  ASSUME NEW T \in SUBSET Nat, T # {}
  PROVE  \E x \in T : \A y \in T : x <= y
<1>1. IsWellFoundedOn(OpToRel(<, Nat), Nat)
  BY NatLessThanWellFounded, Zenon
<1>2. PICK x \in T : \A y \in T : ~(<<y, x>> \in OpToRel(<, Nat))
  BY <1>1, WFMin, Zenon
<1>3. \A y \in T : x <= y
  <2> TAKE y \in T
  <2>1. <<y, x>> \notin {ss \in Nat \X Nat : ss[1] < ss[2]}
    BY <1>2 DEF OpToRel
  <2>2. ~(y < x)
    BY <2>1
  <2>3. QED
    BY <2>2
<1>4. QED
  BY <1>3

\* A set that has 0 and with each number up to n the next one has all of them.
LEMMA UpTo ==
  ASSUME NEW n \in Nat, NEW T, 0 \in T, \A i \in 1..n : i - 1 \in T => i \in T
  PROVE  \A i \in 0..n : i \in T
<1> SUFFICES ASSUME NEW j \in 0..n, j \notin T PROVE FALSE
  OBVIOUS
<1> DEFINE out == {i \in 0..n : i \notin T}
<1>1. out \in SUBSET Nat /\ out # {}
  OBVIOUS
<1>2. PICK x \in out : \A y \in out : x <= y
  BY <1>1, LeastNat, Zenon
<1>3. x \in 1..n /\ x - 1 \in 0..n
  BY <1>2
<1>4. x - 1 \in T
  BY <1>2, <1>3
<1>5. QED
  BY <1>2, <1>3, <1>4

\* The same downwards.
LEMMA DownFrom ==
  ASSUME NEW n \in Nat, NEW T, n \in T, \A i \in 1..n : i \in T => i - 1 \in T
  PROVE  \A i \in 0..n : i \in T
<1> DEFINE S == {i \in 0..n : n - i \in T}
<1>1. 0 \in S
  OBVIOUS
<1>2. ASSUME NEW i \in 1..n, i - 1 \in S PROVE i \in S
  <2>1. n - (i - 1) \in T /\ n - (i - 1) \in 1..n
    BY <1>2
  <2>2. (n - (i - 1)) - 1 \in T
    BY <2>1
  <2>3. n - i \in T
    BY <2>2
  <2> QED BY <2>3
<1>3. \A i \in 0..n : i \in S
  <2> HIDE DEF S
  <2> QED BY <1>1, <1>2, UpTo
<1> SUFFICES ASSUME NEW i \in 0..n PROVE i \in T
  OBVIOUS
<1>4. n - i \in S
  <2>1. n - i \in 0..n
    OBVIOUS
  <2> HIDE DEF S
  <2> QED BY <1>3, <2>1
<1> QED BY <1>4

\* f takes the value base at 0, and each later value follows from the one before.
Follows(f, n, S, base, step) ==
  /\ f \in [0..n -> S] /\ f[0] = base
  /\ \A i \in 1..n : f[i] = step[i][f[i - 1]]

\* A function can be defined by its value at 0 and by how each value follows from
\* the one before.
LEMMA RecursionExists ==
  ASSUME NEW n \in Nat, NEW S, NEW base \in S, NEW step \in [1..n -> [S -> S]]
  PROVE  \E f : Follows(f, n, S, base, step)
<1> DEFINE upTo(m, f) == /\ f \in [0..m -> S] /\ f[0] = base
                         /\ \A i \in 1..m : f[i] = step[i][f[i - 1]]
           T == {m \in 0..n : \E f : upTo(m, f)}
<1>1. 0 \in T
  <2>1. upTo(0, [i \in 0..0 |-> base])
    OBVIOUS
  <2>2. \E f : upTo(0, f)
    <3> HIDE DEF upTo
    <3> QED BY <2>1
  <2>3. 0 \in 0..n
    OBVIOUS
  <2> QED BY <2>2, <2>3, Zenon
<1>2. ASSUME NEW m \in 1..n, m - 1 \in T PROVE m \in T
  <2>1. PICK f : upTo(m - 1, f)
    BY <1>2
  <2> DEFINE g == [i \in 0..m |-> IF i = m THEN step[m][f[m - 1]] ELSE f[i]]
  <2>2. f[m - 1] \in S /\ step[m] \in [S -> S]
    BY <2>1
  <2>3. step[m][f[m - 1]] \in S
    BY <2>2
  <2>4. g \in [0..m -> S]
    BY <2>1, <2>3
  <2>5. g[0] = base
    BY <2>1
  <2>6. \A i \in 1..m : g[i] = step[i][g[i - 1]]
    <3> TAKE i \in 1..m
    <3>1. g[i - 1] = f[i - 1]
      OBVIOUS
    <3>2. CASE i = m
      BY <3>1, <3>2
    <3>3. CASE i # m
      <4>1. i \in 1..(m - 1) /\ g[i] = f[i]
        BY <3>3
      <4> QED BY <4>1, <3>1, <2>1
    <3> QED BY <3>2, <3>3
  <2>7. upTo(m, g)
    BY <2>4, <2>5, <2>6, Zenon
  <2>8. \E h : upTo(m, h)
    <3> HIDE DEF g, upTo
    <3> QED BY <2>7
  <2>9. m \in 0..n
    OBVIOUS
  <2> QED BY <2>8, <2>9, Zenon
<1>3. n \in T
  <2>1. \A i \in 0..n : i \in T
    <3> HIDE DEF T
    <3> QED BY <1>1, <1>2, UpTo, Zenon
  <2> QED BY <2>1
<1> QED BY <1>3 DEF Follows

-----------------------------------------------------------------------------
(* Counting                                                                 *)

\* Sets with a one-to-one map between them have the same size.
LEMMA SameSize ==
  ASSUME NEW A, NEW B, IsFiniteSet(A), NEW f \in [A -> B],
         \A x, y \in A : f[x] = f[y] => x = y,
         \A z \in B : \E x \in A : f[x] = z
  PROVE  IsFiniteSet(B) /\ Cardinality(B) = Cardinality(A)
<1>1. f \in Bijection(A, B)
  BY DEF Bijection, Injection, Surjection, IsInjective
<1> QED BY <1>1, FS_Bijection DEF ExistsBijection

\* Moving every number of a set by the same distance keeps its size.
LEMMA Shifted ==
  ASSUME NEW A \in SUBSET Int, IsFiniteSet(A), NEW d \in Int, NEW B,
         \A z : z \in B <=> \E i \in A : z = i + d
  PROVE  IsFiniteSet(B) /\ Cardinality(B) = Cardinality(A)
<1> DEFINE f == [i \in A |-> i + d]
<1>1. f \in [A -> B]
  OBVIOUS
<1>2. \A x, y \in A : f[x] = f[y] => x = y
  OBVIOUS
<1>3. \A z \in B : \E x \in A : f[x] = z
  OBVIOUS
<1> HIDE DEF f
<1> QED BY <1>1, <1>2, <1>3, SameSize, Zenon

\* Sets without a common element are as large as their union.
LEMMA Disjoint ==
  ASSUME NEW A, NEW B, IsFiniteSet(A), IsFiniteSet(B), A \cap B = {}
  PROVE  /\ IsFiniteSet(A \cup B)
         /\ Cardinality(A \cup B) = Cardinality(A) + Cardinality(B)
         /\ Cardinality(A) \in Nat /\ Cardinality(B) \in Nat
<1>1. Cardinality(A) \in Nat /\ Cardinality(B) \in Nat
  BY FS_CardinalityType
<1> QED BY <1>1, FS_Union, FS_EmptySet

\* Where, and how often, x is in the sequence s.
Positions(s, x) == {p \in DOMAIN s : s[p] = x}
TimesIn(s, x) == Cardinality(Positions(s, x))

\* A sequence holds a finite number of times.
LEMMA TimesType ==
  ASSUME NEW n \in Nat, NEW s, DOMAIN s = 1..n, NEW x
  PROVE  IsFiniteSet(Positions(s, x)) /\ TimesIn(s, x) \in Nat
<1>1. IsFiniteSet(1..n) /\ Positions(s, x) \in SUBSET (1..n)
  BY FS_Interval DEF Positions
<1>2. IsFiniteSet(Positions(s, x))
  BY <1>1, FS_Subset
<1> QED BY <1>2, FS_CardinalityType DEF TimesIn

\* u, which is s followed by t, holds x as often as both of them.
LEMMA TimesJoined ==
  ASSUME NEW m \in Nat, NEW n \in Nat, NEW s, NEW t, NEW u,
         DOMAIN s = 1..m, DOMAIN t = 1..n, DOMAIN u = 1..(m + n),
         \A i \in 1..m : u[i] = s[i], \A j \in 1..n : u[m + j] = t[j], NEW x
  PROVE  TimesIn(u, x) = TimesIn(s, x) + TimesIn(t, x)
<1> DEFINE S == Positions(s, x)
           T == Positions(t, x)
           U == Positions(u, x)
           W == {p + m : p \in T}
<1>1. IsFiniteSet(S) /\ IsFiniteSet(T)
  BY TimesType
<1> USE DEF Positions
<1>2. IsFiniteSet(W) /\ Cardinality(W) = Cardinality(T)
  <2>1. T \in SUBSET Int /\ m \in Int
    OBVIOUS
  <2>2. \A z : z \in W <=> \E i \in T : z = i + m
    OBVIOUS
  <2> HIDE DEF T, W
  <2> QED BY <1>1, <2>1, <2>2, Shifted, Zenon
<1>3. S \cap W = {}
  OBVIOUS
<1>4. U = S \cup W
  <2>1. ASSUME NEW p \in U PROVE p \in S \cup W
    <3>1. CASE p \in 1..m
      BY <3>1
    <3>2. CASE p \notin 1..m
      <4>1. p - m \in 1..n /\ p = (p - m) + m /\ p = m + (p - m)
        BY <3>2
      <4>2. u[m + (p - m)] = t[p - m]
        BY <4>1
      <4>3. p - m \in T
        BY <4>1, <4>2
      <4> QED BY <4>1, <4>3
    <3> QED BY <3>1, <3>2
  <2>2. ASSUME NEW p \in S PROVE p \in U
    OBVIOUS
  <2>3. ASSUME NEW p \in W PROVE p \in U
    <3>1. PICK q \in T : p = q + m
      OBVIOUS
    <3>2. p = m + q /\ q \in 1..n /\ p \in 1..(m + n)
      BY <3>1
    <3> QED BY <3>2
  <2> QED BY <2>1, <2>2, <2>3
<1>5. Cardinality(U) = Cardinality(S) + Cardinality(W)
  <2> HIDE DEF S, W, U
  <2> QED BY <1>1, <1>2, <1>3, <1>4, Disjoint
<1> QED BY <1>2, <1>5 DEF TimesIn

\* A sequence of one element holds it once, and an empty one nothing.
LEMMA TimesOne ==
  ASSUME NEW x, NEW y
  PROVE  TimesIn(<<y>>, x) = (IF x = y THEN 1 ELSE 0) /\ TimesIn(<<>>, x) = 0
<1>0. Positions(<<>>, x) = {}
  BY DEF Positions
<1>1. CASE x = y
  <2>1. Positions(<<y>>, x) = {1}
    BY <1>1 DEF Positions
  <2> QED BY <1>0, <1>1, <2>1, FS_Singleton, FS_EmptySet, Zenon DEF TimesIn
<1>2. CASE x # y
  <2>1. Positions(<<y>>, x) = {}
    BY <1>2 DEF Positions
  <2> QED BY <1>0, <1>2, <2>1, FS_EmptySet, Zenon DEF TimesIn
<1> QED BY <1>1, <1>2

-----------------------------------------------------------------------------
(* Filtering                                                                *)

\* kept is what Those collects element by element.
IsKept(s, S, E, kept) ==
  /\ kept \in [0..Len(s) -> Seq(E)]
  /\ kept[0] = <<>>
  /\ \A i \in 1..Len(s) :
       kept[i] = IF s[i] \in S THEN Append(kept[i - 1], s[i]) ELSE kept[i - 1]

\* The recursion that defines Those has a solution, and Those is its last value.
LEMMA ThoseDef ==
  ASSUME NEW E, NEW s \in Seq(E), NEW S
  PROVE  \E kept : IsKept(s, S, E, kept) /\ Those(s, S) = kept[Len(s)]
<1> DEFINE n == Len(s)
           step == [i \in 1..n |-> [k \in Seq(E) |->
                      IF s[i] \in S THEN Append(k, s[i]) ELSE k]]
           def(g) == [i \in 0..n |-> IF i = 0 THEN <<>>
                                     ELSE IF s[i] \in S THEN Append(g[i - 1], s[i])
                                     ELSE g[i - 1]]
           kept == CHOOSE g : g = def(g)
<1>1. n \in Nat /\ \A i \in 1..n : s[i] \in E
  OBVIOUS
<1>2. step \in [1..n -> [Seq(E) -> Seq(E)]]
  <2>1. \A i \in 1..n : \A k \in Seq(E) :
          (IF s[i] \in S THEN Append(k, s[i]) ELSE k) \in Seq(E)
    BY <1>1
  <2> QED BY <2>1
<1>3. PICK f : Follows(f, n, Seq(E), <<>>, step)
  <2> DEFINE Q == Seq(E)
             none == <<>>
  <2>1. n \in Nat /\ none \in Q /\ step \in [1..n -> [Q -> Q]]
    BY <1>1, <1>2
  <2>2. \E f : Follows(f, n, Q, none, step)
    <3> HIDE DEF n, step, none, Q
    <3> QED BY <2>1, RecursionExists
  <2> QED BY <2>2, Zenon
<1>4. f = def(f)
  <2>1. ASSUME NEW i \in 0..n PROVE f[i] = def(f)[i]
    <3>1. CASE i = 0
      BY <1>3, <3>1 DEF Follows
    <3>2. CASE i # 0
      <4>1. i \in 1..n /\ i - 1 \in 0..n
        BY <1>1, <3>2
      <4>2. f[i - 1] \in Seq(E)
        BY <1>3, <4>1 DEF Follows
      <4> QED BY <1>3, <3>2, <4>1, <4>2, Zenon DEF Follows
    <3> QED BY <3>1, <3>2
  <2> QED BY <1>3, <2>1 DEF Follows
<1>5. kept = def(kept)
  <2> HIDE DEF def
  <2> QED BY <1>4
<1>6. Those(s, S) = kept[n]
  BY DEF Those
<1> HIDE DEF kept
<1>7. /\ kept[0] = <<>>
      /\ \A i \in 1..n :
           kept[i] = IF s[i] \in S THEN Append(kept[i - 1], s[i]) ELSE kept[i - 1]
  <2>1. \A i \in 0..n : kept[i] = def(kept)[i]
    BY <1>5, Zenon
  <2> HIDE DEF kept
  <2> QED BY <1>1, <2>1
<1>8. \A i \in 0..n : kept[i] \in Seq(E)
  <2> DEFINE T == {i \in 0..n : kept[i] \in Seq(E)}
  <2>1. 0 \in T
    <3>1. 0 \in 0..n /\ <<>> \in Seq(E)
      BY <1>1
    <3> QED BY <1>7, <3>1, Zenon
  <2>2. \A i \in 1..n : i - 1 \in T => i \in T
    <3>1. TAKE i \in 1..n
    <3>2. HAVE i - 1 \in T
    <3>3. s[i] \in E /\ kept[i - 1] \in Seq(E) /\ i \in 0..n
      BY <1>1, <3>2
    <3>4. Append(kept[i - 1], s[i]) \in Seq(E)
      BY <3>3
    <3>5. kept[i] \in Seq(E)
      BY <1>7, <3>3, <3>4, Zenon
    <3> QED BY <3>3, <3>5
  <2>3. \A i \in 0..n : i \in T
    <3> HIDE DEF T, n
    <3> QED BY <1>1, <2>1, <2>2, UpTo, Zenon
  <2> QED BY <2>3
<1>9. kept \in [0..n -> Seq(E)]
  BY <1>5, <1>8
<1> QED BY <1>6, <1>7, <1>9, Zenon DEF IsKept

\* What is left is a sequence of elements of the same set, and of nothing it is nothing.
LEMMA ThoseType ==
  ASSUME NEW E, NEW s \in Seq(E), NEW S
  PROVE  Those(s, S) \in Seq(E)
<1>1. PICK kept : IsKept(s, S, E, kept) /\ Those(s, S) = kept[Len(s)]
  BY ThoseDef
<1>2. Len(s) \in 0..Len(s)
  OBVIOUS
<1> QED BY <1>1, <1>2 DEF IsKept

\* Of nothing, nothing is left.
LEMMA ThoseNone ==
  ASSUME NEW S
  PROVE  Those(<<>>, S) = <<>>
<1> DEFINE none == <<>>
<1>1. none \in Seq({}) /\ Len(none) = 0
  OBVIOUS
<1>2. PICK kept : IsKept(none, S, {}, kept) /\ Those(none, S) = kept[Len(none)]
  <2> HIDE DEF none
  <2> QED BY <1>1, ThoseDef, Zenon
<1> QED BY <1>1, <1>2 DEF IsKept

\* Filtering two sequences one after the other is filtering their concatenation.
LEMMA ThoseConcat ==
  ASSUME NEW E, NEW s \in Seq(E), NEW t \in Seq(E), NEW S
  PROVE  Those(s \o t, S) = Those(s, S) \o Those(t, S)
<1>0. ASSUME NEW a \in Seq(E), NEW b \in Seq(E), NEW x \in E
      PROVE  Append(a \o b, x) = a \o Append(b, x)
  <2> DEFINE c == a \o b
             d == Append(b, x)
             p == Append(c, x)
             q == a \o d
             m == Len(a)
             n == Len(b)
  <2>1. m \in Nat /\ n \in Nat
    OBVIOUS
  <2>2. /\ c \in Seq(E) /\ Len(c) = m + n
        /\ \A i \in 1..m : c[i] = a[i]
        /\ \A i \in m + 1..m + n : c[i] = b[i - m]
    OBVIOUS
  <2>3. /\ d \in Seq(E) /\ Len(d) = n + 1 /\ d[n + 1] = x
        /\ \A i \in 1..n : d[i] = b[i]
    OBVIOUS
  <2> HIDE DEF c, d
  <2>4. p \in Seq(E) /\ Len(p) = m + n + 1 /\ p[m + n + 1] = x /\ \A i \in 1..m + n : p[i] = c[i]
    BY <2>1, <2>2
  <2>5. /\ q \in Seq(E) /\ Len(q) = m + n + 1
        /\ \A i \in 1..m : q[i] = a[i]
        /\ \A i \in m + 1..m + n + 1 : q[i] = d[i - m]
    <3>0. d \in Seq(E)
      BY <2>3
    <3>1. q \in Seq(E) /\ Len(q) = Len(a) + Len(d)
      BY <3>0
    <3>2. ASSUME NEW i \in 1..m PROVE q[i] = a[i]
      BY <2>1, <2>3
    <3>3. ASSUME NEW i \in m + 1..m + n + 1 PROVE q[i] = d[i - m]
      <4>1. i \in 1..Len(a) + Len(d) /\ i > Len(a)
        BY <2>1, <2>3
      <4> QED BY <4>1, <2>3
    <3>4. Len(a) + Len(d) = m + n + 1
      BY <2>1, <2>3
    <3> HIDE DEF q, m, n
    <3> QED BY <3>1, <3>2, <3>3, <3>4
  <2> HIDE DEF p, q
  <2>6. ASSUME NEW i \in 1..m + n + 1 PROVE p[i] = q[i]
    <3>1. CASE i <= m
      <4>1. i \in 1..m /\ i \in 1..m + n
        BY <3>1, <2>1
      <4> QED BY <4>1, <2>2, <2>4, <2>5
    <3>2. CASE m < i /\ i <= m + n
      <4>1. i \in m + 1..m + n /\ i \in 1..m + n /\ i \in m + 1..m + n + 1 /\ i - m \in 1..n
        BY <3>2, <2>1
      <4> QED BY <4>1, <2>2, <2>3, <2>4, <2>5, Zenon
    <3>3. CASE i = m + n + 1
      <4>1. i \in m + 1..m + n + 1 /\ i - m = n + 1
        BY <3>3, <2>1
      <4>2. q[i] = d[i - m]
        BY <4>1, <2>5, Zenon
      <4> QED BY <4>1, <4>2, <3>3, <2>3, <2>4, Zenon
    <3>4. i <= m \/ (m < i /\ i <= m + n) \/ i = m + n + 1
      <4> HIDE DEF m, n
      <4> QED BY <2>1
    <3> QED BY <3>1, <3>2, <3>3, <3>4, Zenon
  <2>7. p = q
    <3>1. p = [i \in 1..m + n + 1 |-> p[i]] /\ q = [i \in 1..m + n + 1 |-> q[i]]
      BY <2>4, <2>5
    <3> QED BY <3>1, <2>6
  <2> QED BY <2>7 DEF c, d, p, q
<1> DEFINE n == Len(s)
           m == Len(t)
           st == s \o t
<1>1. /\ n \in Nat /\ m \in Nat
      /\ st \in Seq(E) /\ Len(st) = n + m
      /\ \A i \in 1..n : st[i] = s[i]
      /\ \A j \in 1..m : st[n + j] = t[j] /\ t[j] \in E
  OBVIOUS
<1>2. PICK k : IsKept(s, S, E, k) /\ Those(s, S) = k[n]
  BY ThoseDef
<1>3. PICK l : IsKept(t, S, E, l) /\ Those(t, S) = l[m]
  BY ThoseDef
<1>4. PICK c : IsKept(st, S, E, c) /\ Those(st, S) = c[n + m]
  <2> HIDE DEF st
  <2>1. \E c : IsKept(st, S, E, c) /\ Those(st, S) = c[Len(st)]
    BY <1>1, ThoseDef, Zenon
  <2> QED BY <1>1, <2>1
<1> HIDE DEF n, m, st
<1>5. /\ k[0] = <<>> /\ c[0] = <<>> /\ l[0] = <<>>
      /\ \A i \in 0..n : k[i] \in Seq(E)
      /\ \A j \in 0..m : l[j] \in Seq(E)
      /\ \A i \in 1..n : k[i] = IF s[i] \in S THEN Append(k[i - 1], s[i]) ELSE k[i - 1]
      /\ \A j \in 1..m : l[j] = IF t[j] \in S THEN Append(l[j - 1], t[j]) ELSE l[j - 1]
      /\ \A i \in 1..(n + m) : c[i] = IF st[i] \in S THEN Append(c[i - 1], st[i]) ELSE c[i - 1]
  BY <1>1, <1>2, <1>3, <1>4, Zenon DEF IsKept, n, m
<1>6. \A i \in 0..n : c[i] = k[i]
  <2> DEFINE T == {i \in 0..n : c[i] = k[i]}
  <2>1. 0 \in T
    BY <1>1, <1>5
  <2>2. \A i \in 1..n : i - 1 \in T => i \in T
    <3>1. TAKE i \in 1..n
    <3>2. HAVE i - 1 \in T
    <3>3. i \in 0..n /\ i \in 1..(n + m) /\ st[i] = s[i] /\ c[i - 1] = k[i - 1]
      BY <1>1, <3>2
    <3>4. c[i] = k[i]
      BY <1>5, <3>1, <3>3, Zenon
    <3> QED BY <3>3, <3>4
  <2>3. \A i \in 0..n : i \in T
    <3> HIDE DEF T
    <3> QED BY <1>1, <2>1, <2>2, UpTo, Zenon
  <2> QED BY <2>3
<1>7. \A j \in 0..m : c[n + j] = k[n] \o l[j]
  <2> DEFINE T == {j \in 0..m : c[n + j] = k[n] \o l[j]}
  <2>1. 0 \in T
    <3>1. c[n + 0] = k[n] /\ k[n] \in Seq(E) /\ 0 \in 0..m
      BY <1>1, <1>5, <1>6
    <3>2. k[n] = k[n] \o <<>>
      BY <3>1
    <3> QED BY <1>5, <3>1, <3>2, Zenon
  <2>2. \A j \in 1..m : j - 1 \in T => j \in T
    <3>1. TAKE j \in 1..m
    <3>2. HAVE j - 1 \in T
    <3>a. /\ n + j \in 1..(n + m) /\ n + (j - 1) = (n + j) - 1
          /\ j \in 0..m /\ j - 1 \in 0..m /\ n \in 0..n
      BY <1>1
    <3>b. c[n + (j - 1)] = k[n] \o l[j - 1]
      BY <3>2, Zenon
    <3>3. /\ c[(n + j) - 1] = k[n] \o l[j - 1]
          /\ st[n + j] = t[j] /\ t[j] \in E
          /\ k[n] \in Seq(E) /\ l[j - 1] \in Seq(E)
      BY <1>1, <1>5, <3>a, <3>b, Zenon
    <3>4. c[n + j] = IF t[j] \in S THEN Append(k[n] \o l[j - 1], t[j]) ELSE k[n] \o l[j - 1]
      <4>1. c[n + j] = IF st[n + j] \in S THEN Append(c[(n + j) - 1], st[n + j]) ELSE c[(n + j) - 1]
        BY <1>5, <3>a
      <4> QED BY <3>3, <4>1, Zenon
    <3>5. Append(k[n] \o l[j - 1], t[j]) = k[n] \o Append(l[j - 1], t[j])
      <4> DEFINE u == k[n]
                 v == l[j - 1]
                 y == t[j]
      <4>1. u \in Seq(E) /\ v \in Seq(E) /\ y \in E
        BY <3>3
      <4> HIDE DEF u, v, y
      <4>2. Append(u \o v, y) = u \o Append(v, y)
        BY <4>1, <1>0, Zenon
      <4> QED BY <4>2 DEF u, v, y
    <3>6. l[j] = IF t[j] \in S THEN Append(l[j - 1], t[j]) ELSE l[j - 1]
      BY <1>5
    <3>7. c[n + j] = k[n] \o l[j]
      BY <3>4, <3>5, <3>6, Zenon
    <3> QED BY <3>a, <3>7, Zenon
  <2>3. \A j \in 0..m : j \in T
    <3> HIDE DEF T
    <3> QED BY <1>1, <2>1, <2>2, UpTo, Zenon
  <2> QED BY <2>3, Zenon
<1>8. m \in 0..m
  BY <1>1
<1> QED BY <1>2, <1>3, <1>4, <1>7, <1>8, Zenon DEF st

\* A sequence with one more element holds it once more.
LEMMA TimesMore ==
  ASSUME NEW n \in Nat, NEW s, NEW u, DOMAIN s = 1..n, DOMAIN u = 1..(n + 1),
         \A i \in 1..n : u[i] = s[i], NEW x
  PROVE  TimesIn(u, x) = TimesIn(s, x) + (IF x = u[n + 1] THEN 1 ELSE 0)
<1> DEFINE P == Positions(s, x)
           Q == Positions(u, x)
<1>1. IsFiniteSet(P) /\ Cardinality(P) \in Nat
  BY TimesType DEF TimesIn
<1>2. CASE x = u[n + 1]
  <2>1. Q = P \cup {n + 1} /\ n + 1 \notin P
    BY <1>2 DEF Positions
  <2>2. Cardinality(P \cup {n + 1}) = Cardinality(P) + 1
    <3> HIDE DEF P
    <3> QED BY <1>1, <2>1, FS_AddElement, Zenon
  <2> QED BY <1>2, <2>1, <2>2 DEF TimesIn
<1>3. CASE x # u[n + 1]
  <2>1. Q = P
    BY <1>3 DEF Positions
  <2> QED BY <1>1, <1>3, <2>1 DEF TimesIn
<1> QED BY <1>2, <1>3

\* What is in S is left as often as before, and nothing else is left.
LEMMA TimesThose ==
  ASSUME NEW E, NEW s \in Seq(E), NEW S, NEW x
  PROVE  TimesIn(Those(s, S), x) = IF x \in S THEN TimesIn(s, x) ELSE 0
<1> DEFINE n == Len(s)
           first(i) == [j \in 1..i |-> s[j]]
<1>1. PICK kept : IsKept(s, S, E, kept) /\ Those(s, S) = kept[n]
  BY ThoseDef
<1>2. /\ n \in Nat /\ kept[0] = <<>>
      /\ \A i \in 0..n : kept[i] \in Seq(E)
      /\ \A i \in 1..n : s[i] \in E
      /\ \A i \in 1..n : kept[i] = IF s[i] \in S THEN Append(kept[i - 1], s[i]) ELSE kept[i - 1]
  <2>1. n \in Nat /\ \A i \in 1..n : s[i] \in E
    OBVIOUS
  <2>2. kept \in [0..n -> Seq(E)]
    BY <1>1 DEF IsKept
  <2> HIDE DEF n
  <2>3. \A i \in 0..n : kept[i] \in Seq(E)
    BY <2>2
  <2> QED BY <1>1, <2>1, <2>3, Zenon DEF IsKept, n
<1>3. first(n) = s
  OBVIOUS
<1> HIDE DEF n
<1> DEFINE T == {i \in 0..n : TimesIn(kept[i], x) = IF x \in S THEN TimesIn(first(i), x) ELSE 0}
<1>4. 0 \in T
  <2>1. first(0) = <<>> /\ 0 \in 0..n
    BY <1>2
  <2>2. TimesIn(<<>>, x) = 0
    BY TimesOne, Zenon
  <2> QED BY <1>2, <2>1, <2>2
<1>5. ASSUME NEW i \in 1..n, i - 1 \in T PROVE i \in T
  <2> DEFINE k == kept[i - 1]
             a == TimesIn(first(i - 1), x)
             one == IF x = s[i] THEN 1 ELSE 0
  <2>1. /\ i \in 0..n /\ i - 1 \in 0..n /\ i - 1 \in Nat /\ k \in Seq(E) /\ s[i] \in E
        /\ TimesIn(k, x) = IF x \in S THEN a ELSE 0
    BY <1>2, <1>5
  <2>2. TimesIn(first(i), x) = a + one
    <3>1. /\ DOMAIN first(i - 1) = 1..(i - 1) /\ DOMAIN first(i) = 1..((i - 1) + 1)
          /\ \A j \in 1..(i - 1) : first(i)[j] = first(i - 1)[j]
          /\ first(i)[(i - 1) + 1] = s[i]
      BY <1>2, <2>1
    <3> DEFINE f == first(i - 1)
               g == first(i)
    <3> HIDE DEF first, f, g
    <3>2. TimesIn(g, x) = TimesIn(f, x) + (IF x = g[(i - 1) + 1] THEN 1 ELSE 0)
      <4> DEFINE h == i - 1
      <4>1. /\ h \in Nat /\ DOMAIN f = 1..h /\ DOMAIN g = 1..(h + 1)
            /\ \A j \in 1..h : g[j] = f[j]
        BY <2>1, <3>1 DEF f, g
      <4> HIDE DEF h
      <4>2. TimesIn(g, x) = TimesIn(f, x) + (IF x = g[h + 1] THEN 1 ELSE 0)
        BY <4>1, TimesMore
      <4> QED BY <4>2 DEF h
    <3> QED BY <3>1, <3>2 DEF f, g
  <2>3. TimesIn(Append(k, s[i]), x) = TimesIn(k, x) + one
    <3> DEFINE m == Len(k)
               u == Append(k, s[i])
    <3>1. /\ m \in Nat /\ DOMAIN k = 1..m /\ DOMAIN u = 1..(m + 1)
          /\ u[m + 1] = s[i] /\ \A j \in 1..m : u[j] = k[j]
      BY <2>1
    <3> HIDE DEF k, m, u
    <3>2. TimesIn(u, x) = TimesIn(k, x) + (IF x = u[m + 1] THEN 1 ELSE 0)
      BY <3>1, TimesMore
    <3> QED BY <3>1, <3>2 DEF u
  <2>4. kept[i] = IF s[i] \in S THEN Append(k, s[i]) ELSE k
    BY <1>2
  <2>5. a \in Nat
    <3> DEFINE f == first(i - 1)
    <3>1. DOMAIN f = 1..(i - 1)
      OBVIOUS
    <3> HIDE DEF f
    <3>2. TimesIn(f, x) \in Nat
      BY <2>1, <3>1, TimesType
    <3> QED BY <3>2 DEF f
  <2> HIDE DEF k, a, first
  <2>6. TimesIn(kept[i], x) = IF x \in S THEN TimesIn(first(i), x) ELSE 0
    <3>1. CASE s[i] \in S
      BY <2>1, <2>2, <2>3, <2>4, <2>5, <3>1
    <3>2. CASE s[i] \notin S
      BY <2>1, <2>2, <2>4, <2>5, <3>2
    <3> QED BY <3>1, <3>2
  <2> QED BY <2>1, <2>6
<1>6. n \in T
  <2>1. \A i \in 0..n : i \in T
    <3> HIDE DEF T
    <3> QED BY <1>2, <1>4, <1>5, UpTo, Zenon
  <2> QED BY <1>2, <2>1
<1> HIDE DEF first
<1> QED BY <1>1, <1>3, <1>6

-----------------------------------------------------------------------------
(* Arithmetic                                                               *)

\* Different multiples of n are at least n apart.
LEMMA MultiplesApart ==
  ASSUME NEW n \in Nat, NEW x \in Nat, NEW y \in Nat, x < y
  PROVE  n * x \in Nat /\ n * y \in Nat /\ n * y >= n * x + n
<1>1. PICK r \in Nat : y = x + 1 + r
  <2>1. y - x - 1 \in Nat /\ y = x + 1 + (y - x - 1)
    OBVIOUS
  <2> QED BY <2>1
<1>2. n * y = n * x + n + n * r
  BY <1>1
<1>3. n * r \in Nat /\ n * x \in Nat
  OBVIOUS
<1> QED BY <1>2, <1>3

\* A number below n and a multiple of n are known from their sum.
LEMMA MixedRadix ==
  ASSUME NEW n \in Nat \ {0}, NEW a \in 0..n - 1, NEW b \in 0..n - 1,
         NEW d \in Nat, NEW e \in Nat, a + n * d = b + n * e
  PROVE  d = e /\ a = b
<1>1. n * d \in Nat /\ n * e \in Nat
  OBVIOUS
<1>2. ~(d < e) /\ ~(e < d)
  BY <1>1, MultiplesApart
<1>3. d = e
  BY <1>2
<1> QED BY <1>1, <1>3

\* A number is its quotient times n and its remainder.
LEMMA DivMod ==
  ASSUME NEW n \in Nat \ {0}, NEW a \in Nat
  PROVE  a \div n \in Nat /\ a % n \in 0..n - 1 /\ a = n * (a \div n) + (a % n)
  OBVIOUS

\* A multiple of n does not change the remainder.
LEMMA ModOf ==
  ASSUME NEW n \in Nat \ {0}, NEW q \in Nat, NEW s \in 0..n - 1
  PROVE  (n * q + s) % n = s
<1> DEFINE a == n * q + s
           d == a \div n
           r == a % n
<1>1. a \in Nat
  OBVIOUS
<1>2. d \in Nat /\ r \in 0..n - 1 /\ a = n * d + r
  <2> HIDE DEF a
  <2> QED BY <1>1, DivMod, Zenon
<1> HIDE DEF d, r
<1>3. r + n * d = s + n * q
  <2>1. n * d \in Nat /\ n * q \in Nat
    BY <1>2
  <2> QED BY <1>2, <2>1
<1>4. r = s
  BY <1>2, <1>3, MixedRadix
<1> QED BY <1>4 DEF r

\* n numbers in a row have all the remainders.
LEMMA ModOnto ==
  ASSUME NEW n \in Nat \ {0}, NEW a \in Nat, NEW s \in 0..n - 1
  PROVE  \E o \in 0..n - 1 : (a + o) % n = s
<1> DEFINE q == a \div n
           r == a % n
<1>1. q \in Nat /\ r \in 0..n - 1 /\ a = n * q + r
  BY DivMod, Zenon
<1> HIDE DEF q, r
<1>2. CASE s >= r
  <2>1. s - r \in 0..n - 1 /\ a + (s - r) = n * q + s
    <3>1. n * q \in Nat
      BY <1>1
    <3> QED BY <1>1, <1>2, <3>1
  <2> QED BY <1>1, <2>1, ModOf, Zenon
<1>3. CASE s < r
  <2>1. s - r + n \in 0..n - 1 /\ a + (s - r + n) = n * (q + 1) + s /\ q + 1 \in Nat
    <3>1. n * q \in Nat /\ n * (q + 1) = n * q + n
      BY <1>1
    <3> QED BY <1>1, <1>3, <3>1
  <2>2. (n * (q + 1) + s) % n = s
    BY <2>1, ModOf, Zenon
  <2> QED BY <2>1, <2>2, Zenon
<1> QED BY <1>1, <1>2, <1>3
=============================================================================
