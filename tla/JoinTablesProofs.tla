-------------------------- MODULE JoinTablesProofs --------------------------
(***************************************************************************)
(* Proofs about the join hash tables.  First LinearProbe, for every hash   *)
(* function, table size and number of rows: the load bound, that no row    *)
(* hides behind an empty bucket, that the duplicate counts are right, that *)
(* the table keeps the bag of rows of JoinMultimap, and that findAll       *)
(* returns what the table holds.  A table b of n buckets is treated by     *)
(* itself first, then the steps.  Then JoinTables: whatever is inserted    *)
(* and merged, the linear and the chained table give the same answers.     *)
(***************************************************************************)
EXTENDS JoinTables, BasicLemmas

\* How long the provers may take for a step, in seconds.
USE SMTT(30), ZenonT(30)

Table(n) == [0..n - 1 -> [row : Row \cup {NoRow}, dup : Nat]]
UsedIn(b, n) == {i \in 0..n - 1 : Used(b, i)}
WayIn(n, k, i) == Dist(n, Home(k, n), i)
Later(b, n, i) == {j \in UsedIn(b, n) : /\ b[j].row.key = b[i].row.key
                                        /\ WayIn(n, b[i].row.key, j) > WayIn(n, b[i].row.key, i)}

ReachableIn(b, n) ==
  \A i \in UsedIn(b, n) : \A j \in 0..n - 1 :
    WayIn(n, b[i].row.key, j) < WayIn(n, b[i].row.key, i) => j \in UsedIn(b, n)
CountedIn(b, n) ==
  \A i \in UsedIn(b, n) : b[i].dup = Cardinality(Later(b, n, i))

-----------------------------------------------------------------------------
(* Tables, distances and sizes                                              *)

\* A table over 0..n-1 has n buckets, and finitely many of them are used.
LEMMA TableCount ==
  ASSUME NEW n \in BucketCounts, NEW b \in Table(n)
  PROVE  /\ n \in Nat \ {0}
         /\ DOMAIN b = 0..n - 1
         /\ Count(b) = n
         /\ IsFiniteSet(0..n - 1)
         /\ IsFiniteSet(UsedIn(b, n)) /\ Cardinality(UsedIn(b, n)) \in Nat
<1>1. n \in Nat \ {0}
  BY ProbeAssumption
<1>2. DOMAIN b = 0..n - 1
  BY DEF Table
<1>3. IsFiniteSet(0..n - 1) /\ Cardinality(0..n - 1) = n
  BY <1>1, FS_Interval
<1>4. UsedIn(b, n) \in SUBSET (0..n - 1)
  BY DEF UsedIn
<1>5. IsFiniteSet(UsedIn(b, n))
  BY <1>3, <1>4, FS_Subset, Zenon
<1>6. QED
  BY <1>1, <1>2, <1>3, <1>5, FS_CardinalityType DEF Count

\* The distance of the probe is below n, and tells the buckets apart.
LEMMA DistType ==
  ASSUME NEW n \in Nat \ {0}, NEW h \in 0..n - 1,
         NEW i \in 0..n - 1, NEW j \in 0..n - 1
  PROVE  /\ Dist(n, h, i) \in 0..n - 1
         /\ Dist(n, h, i) = Dist(n, h, j) => i = j
BY DEF Dist

\* key_to_idx leads to a bucket of the table.
LEMMA HomeType ==
  ASSUME NEW n \in BucketCounts, NEW k \in Keys
  PROVE  n \in Nat \ {0} /\ Home(k, n) \in 0..n - 1
BY ProbeAssumption

\* The size the constructor chooses is a bucket count that is not too small.
LEMMA RoundUpType ==
  ASSUME NEW c \in 0..2 * MaxRows
  PROVE  RoundUp(c) \in BucketCounts /\ RoundUp(c) \in Nat \ {0} /\ c <= RoundUp(c)
<1>1. \E n \in BucketCounts : c <= n /\ \A m \in BucketCounts : c <= m => n <= m
  BY ProbeAssumption, Zenon
<1>2. RoundUp(c) \in BucketCounts /\ c <= RoundUp(c)
  BY <1>1 DEF RoundUp
<1>3. QED
  BY <1>2, ProbeAssumption, Zenon

-----------------------------------------------------------------------------
(* One placement                                                            *)

\* A table with an empty bucket has one at which the probe for a row ends.
LEMMA SlotExists ==
  ASSUME NEW n \in BucketCounts, NEW b \in Table(n), NEW r \in Row,
         Cardinality(UsedIn(b, n)) < n
  PROVE  /\ Slot(b, r) \in 0..n - 1
         /\ ~Used(b, Slot(b, r))
         /\ \A j \in 0..n - 1 :
              WayIn(n, r.key, j) < WayIn(n, r.key, Slot(b, r)) => Used(b, j)
<1> DEFINE way(i) == WayIn(n, r.key, i)
           none == {i \in 0..n - 1 : ~Used(b, i)}
           T == {way(i) : i \in none}
<1>1. /\ n \in Nat \ {0} /\ r.key \in Keys /\ Home(r.key, n) \in 0..n - 1
      /\ DOMAIN b = 0..n - 1 /\ Count(b) = n
  BY TableCount, HomeType DEF Row
<1>2. \A i \in 0..n - 1 : way(i) \in Nat
  <2> TAKE i \in 0..n - 1
  <2>1. Dist(n, Home(r.key, n), i) \in 0..n - 1
    BY <1>1, DistType, Zenon
  <2>2. QED
    BY <2>1, <1>1 DEF WayIn
<1>3. none # {}
  <2> SUFFICES ASSUME none = {} PROVE FALSE
    OBVIOUS
  <2>1. UsedIn(b, n) = 0..n - 1
    BY DEF UsedIn
  <2>2. Cardinality(0..n - 1) = n
    BY <1>1, FS_Interval
  <2>3. QED
    BY <2>1, <2>2, <1>1
<1>4. T \in SUBSET Nat /\ T # {}
  BY <1>2, <1>3
<1>5. PICK x \in T : \A y \in T : x <= y
  BY <1>4, LeastNat, Zenon
<1>6. PICK i \in none : x = way(i)
  BY <1>5
<1>7. \A j \in 0..n - 1 : way(j) < way(i) => Used(b, j)
  <2> SUFFICES ASSUME NEW j \in 0..n - 1, way(j) < way(i), ~Used(b, j) PROVE FALSE
    OBVIOUS
  <2>1. way(j) \in T
    OBVIOUS
  <2>2. x <= way(j) /\ way(j) \in Nat /\ way(i) \in Nat
    BY <2>1, <1>5, <1>2
  <2>3. QED
    BY <2>2, <1>6
<1>8. \E e \in DOMAIN b : /\ ~Used(b, e)
                          /\ \A j \in DOMAIN b : Dist(n, Home(r.key, n), j) < Dist(n, Home(r.key, n), e) => Used(b, j)
  BY <1>1, <1>6, <1>7 DEF WayIn
<1>9. QED
  BY <1>1, <1>8 DEF Slot, WayIn

\* What a placement changes: the slot gets the row, rows of its key before the slot
\* count one duplicate more, and every other bucket is as it was.
LEMMA PlacedBuckets ==
  ASSUME NEW n \in BucketCounts, NEW b \in Table(n), NEW r \in Row,
         Cardinality(UsedIn(b, n)) < n
  PROVE  LET i == Slot(b, r)
             p == Placed(b, r)
         IN  /\ p \in Table(n)
             /\ p[i].row = r /\ p[i].dup = 0
             /\ \A j \in 0..n - 1 : j # i => p[j].row = b[j].row
             /\ \A j \in 0..n - 1 : j # i =>
                  p[j].dup = IF /\ Used(b, j) /\ b[j].row.key = r.key
                                /\ WayIn(n, r.key, j) < WayIn(n, r.key, i)
                             THEN b[j].dup + 1 ELSE b[j].dup
             /\ UsedIn(p, n) = UsedIn(b, n) \cup {i}
             /\ i \notin UsedIn(b, n)
             /\ Cardinality(UsedIn(p, n)) = Cardinality(UsedIn(b, n)) + 1
<1> DEFINE i == Slot(b, r)
           p == Placed(b, r)
           more(j) == /\ Used(b, j) /\ b[j].row.key = r.key
                      /\ WayIn(n, r.key, j) < WayIn(n, r.key, i)
<1>1. /\ n \in Nat \ {0} /\ DOMAIN b = 0..n - 1 /\ Count(b) = n
      /\ IsFiniteSet(UsedIn(b, n))
  BY TableCount
<1>2. i \in 0..n - 1 /\ ~Used(b, i)
  BY SlotExists
<1>3. p = [j \in 0..n - 1 |-> IF j = i THEN [row |-> r, dup |-> 0]
                              ELSE IF more(j) THEN [b[j] EXCEPT !.dup = @ + 1]
                              ELSE b[j]]
  BY <1>1, Zenon DEF Placed, WayIn
<1>4. \A j \in 0..n - 1 : b[j] \in [row : Row \cup {NoRow}, dup : Nat]
  BY DEF Table
<1> HIDE DEF i, p
<1>5. p[i] = [row |-> r, dup |-> 0] /\ p[i].row = r /\ p[i].dup = 0
  BY <1>2, <1>3
<1>6. ASSUME NEW j \in 0..n - 1, j # i
      PROVE  /\ p[j] \in [row : Row \cup {NoRow}, dup : Nat]
             /\ p[j].row = b[j].row
             /\ p[j].dup = IF more(j) THEN b[j].dup + 1 ELSE b[j].dup
  <2>1. CASE more(j)
    <3>1. p[j] = [b[j] EXCEPT !.dup = @ + 1]
      BY <1>3, <1>6, <2>1
    <3>2. QED
      BY <3>1, <1>4, <2>1
  <2>2. CASE ~more(j)
    <3>1. p[j] = b[j]
      BY <1>3, <1>6, <2>2
    <3>2. QED
      BY <3>1, <1>4, <2>2
  <2>3. QED
    BY <2>1, <2>2
<1>7. p \in Table(n)
  <2>1. \A j \in 0..n - 1 : p[j] \in [row : Row \cup {NoRow}, dup : Nat]
    BY <1>5, <1>6
  <2>2. QED
    BY <2>1, <1>3 DEF Table
<1>8. UsedIn(p, n) = UsedIn(b, n) \cup {i}
  <2>1. r # NoRow
    BY ProbeAssumption
  <2>2. QED
    BY <2>1, <1>2, <1>5, <1>6 DEF UsedIn, Used
<1>9. i \notin UsedIn(b, n)
  BY <1>2 DEF UsedIn
<1>10. Cardinality(UsedIn(p, n)) = Cardinality(UsedIn(b, n)) + 1
  BY <1>1, <1>8, <1>9, FS_AddElement, ZenonT(30)
<1>11. QED
  BY <1>5, <1>6, <1>7, <1>8, <1>9, <1>10 DEF i, p

\* A placement leaves every row reachable: it only fills the first empty bucket.
LEMMA PlacedReachable ==
  ASSUME NEW n \in BucketCounts, NEW b \in Table(n), NEW r \in Row,
         Cardinality(UsedIn(b, n)) < n, ReachableIn(b, n)
  PROVE  ReachableIn(Placed(b, r), n)
<1> DEFINE i == Slot(b, r)
           p == Placed(b, r)
<1>1. /\ \A j \in 0..n - 1 : j # i => p[j].row = b[j].row
      /\ p[i].row = r
      /\ UsedIn(p, n) = UsedIn(b, n) \cup {i}
  BY PlacedBuckets
<1>2. /\ i \in 0..n - 1 /\ ~Used(b, i)
      /\ \A j \in 0..n - 1 : WayIn(n, r.key, j) < WayIn(n, r.key, i) => Used(b, j)
  BY SlotExists
<1> HIDE DEF i, p
<1> SUFFICES ASSUME NEW e \in UsedIn(p, n), NEW j \in 0..n - 1,
                    WayIn(n, p[e].row.key, j) < WayIn(n, p[e].row.key, e)
             PROVE  j \in UsedIn(p, n)
  BY DEF ReachableIn, p
<1>3. CASE e = i
  BY <1>1, <1>2, <1>3 DEF UsedIn
<1>4. CASE e # i
  <2>1. e \in UsedIn(b, n) /\ e \in 0..n - 1 /\ p[e].row = b[e].row
    BY <1>1, <1>4 DEF UsedIn
  <2>2. j \in UsedIn(b, n)
    BY <2>1 DEF ReachableIn
  <2>3. QED
    BY <2>2, <1>1
<1>5. QED
  BY <1>3, <1>4

\* A placement keeps the duplicate counts: the new row is the last of its key.
LEMMA PlacedCounted ==
  ASSUME NEW n \in BucketCounts, NEW b \in Table(n), NEW r \in Row,
         Cardinality(UsedIn(b, n)) < n, ReachableIn(b, n), CountedIn(b, n)
  PROVE  CountedIn(Placed(b, r), n)
<1> DEFINE i == Slot(b, r)
           p == Placed(b, r)
<1>1. /\ \A j \in 0..n - 1 : j # i => p[j].row = b[j].row
      /\ \A j \in 0..n - 1 : j # i =>
           p[j].dup = IF /\ Used(b, j) /\ b[j].row.key = r.key
                         /\ WayIn(n, r.key, j) < WayIn(n, r.key, i)
                      THEN b[j].dup + 1 ELSE b[j].dup
      /\ p[i].row = r /\ p[i].dup = 0
      /\ UsedIn(p, n) = UsedIn(b, n) \cup {i}
      /\ i \notin UsedIn(b, n)
  BY PlacedBuckets
<1>2. i \in 0..n - 1
  BY SlotExists
<1>3. /\ n \in Nat \ {0} /\ r.key \in Keys /\ Home(r.key, n) \in 0..n - 1
      /\ IsFiniteSet(UsedIn(b, n))
  BY TableCount, HomeType DEF Row
<1> HIDE DEF i, p
<1>4. ASSUME NEW j \in UsedIn(b, n), b[j].row.key = r.key
      PROVE  WayIn(n, r.key, j) < WayIn(n, r.key, i)
  <2>1. j \in 0..n - 1 /\ j # i
    BY <1>1 DEF UsedIn
  <2>2. /\ Dist(n, Home(r.key, n), j) \in 0..n - 1
        /\ Dist(n, Home(r.key, n), i) \in 0..n - 1
        /\ Dist(n, Home(r.key, n), j) # Dist(n, Home(r.key, n), i)
    BY <2>1, <1>2, <1>3, DistType, Zenon
  <2>3. ~(WayIn(n, r.key, i) < WayIn(n, r.key, j))
    BY <1>4, <1>1, <1>2 DEF ReachableIn
  <2>4. QED
    BY <2>2, <2>3, <1>3 DEF WayIn
<1> SUFFICES ASSUME NEW e \in UsedIn(p, n) PROVE p[e].dup = Cardinality(Later(p, n, e))
  BY DEF CountedIn, p
<1>5. CASE e = i
  <2>1. ASSUME NEW j \in Later(p, n, e) PROVE FALSE
    <3>1. /\ j \in UsedIn(p, n) /\ p[j].row.key = r.key
          /\ WayIn(n, r.key, j) > WayIn(n, r.key, i)
      BY <2>1, <1>5, <1>1 DEF Later
    <3>2. Dist(n, Home(r.key, n), i) \in 0..n - 1
      BY <1>2, <1>3, DistType
    <3>3. j # i
      BY <3>1, <3>2, <1>3 DEF WayIn
    <3>4. j \in UsedIn(b, n) /\ j \in 0..n - 1 /\ b[j].row.key = r.key
      BY <3>1, <3>3, <1>1 DEF UsedIn
    <3>5. Dist(n, Home(r.key, n), j) \in 0..n - 1
      BY <3>4, <1>3, DistType
    <3>6. QED
      BY <3>1, <3>2, <3>4, <3>5, <1>4, <1>3 DEF WayIn
  <2>2. Later(p, n, e) = {}
    BY <2>1
  <2>3. QED
    BY <2>2, <1>1, <1>5, FS_EmptySet
<1>6. CASE e # i
  <2>1. /\ e \in UsedIn(b, n) /\ e \in 0..n - 1 /\ p[e].row = b[e].row
        /\ b[e].dup = Cardinality(Later(b, n, e))
    BY <1>1, <1>6 DEF UsedIn, CountedIn
  <2>2. Later(b, n, e) \in SUBSET UsedIn(b, n)
    BY DEF Later
  <2>3. IsFiniteSet(Later(b, n, e)) /\ i \notin Later(b, n, e)
    BY <2>2, <1>1, <1>3, FS_Subset
  <2>4. \A j \in UsedIn(b, n) : p[j].row = b[j].row
    BY <1>1 DEF UsedIn
  <2>5. CASE b[e].row.key = r.key
    <3>1. WayIn(n, r.key, e) < WayIn(n, r.key, i)
      BY <2>1, <2>5, <1>4
    <3>2. Dist(n, Home(r.key, n), e) \in 0..n - 1 /\ Dist(n, Home(r.key, n), i) \in 0..n - 1
      BY <2>1, <1>2, <1>3, DistType
    <3>3. WayIn(n, r.key, i) > WayIn(n, r.key, e)
      BY <3>1, <3>2, <1>3 DEF WayIn
    <3>4. Later(p, n, e) = Later(b, n, e) \cup {i}
      BY <3>3, <2>1, <2>4, <2>5, <1>1, Zenon DEF Later
    <3>5. Cardinality(Later(p, n, e)) = Cardinality(Later(b, n, e)) + 1
      BY <3>4, <2>3, FS_AddElement, ZenonT(30)
    <3>6. p[e].dup = b[e].dup + 1
      BY <1>1, <1>6, <2>1, <2>5, <3>1 DEF UsedIn
    <3>7. QED
      BY <3>5, <3>6, <2>1
  <2>6. CASE b[e].row.key # r.key
    <3>1. Later(p, n, e) = Later(b, n, e)
      BY <2>1, <2>4, <2>6, <1>1, Zenon DEF Later
    <3>2. p[e].dup = b[e].dup
      BY <1>1, <1>6, <2>1, <2>6
    <3>3. QED
      BY <3>1, <3>2, <2>1
  <2>7. QED
    BY <2>5, <2>6
<1>7. QED
  BY <1>5, <1>6

\* A new table satisfies everything: no bucket is used.
LEMMA EmptySound ==
  ASSUME NEW n \in BucketCounts
  PROVE  /\ EmptyTable(n) \in Table(n)
         /\ Cardinality(UsedIn(EmptyTable(n), n)) = 0
         /\ ReachableIn(EmptyTable(n), n)
         /\ CountedIn(EmptyTable(n), n)
<1>1. EmptyTable(n) \in Table(n)
  BY DEF EmptyTable, Table
<1>2. UsedIn(EmptyTable(n), n) = {}
  BY DEF EmptyTable, UsedIn, Used
<1>3. QED
  BY <1>1, <1>2, FS_EmptySet DEF ReachableIn, CountedIn

-----------------------------------------------------------------------------
(* The steps                                                                *)

\* The inductive invariant is the conjunction of the properties themselves:
\* Reachable is what makes the count of a placement right, HalfFull is what makes
\* the probe of a placement end.
IInv == TypeOK /\ HalfFull /\ Reachable /\ DuplicatesCounted

\* The invariant in terms of one table, now and after a step.
LEMMA IInvTable ==
  ASSUME IInv
  PROVE  \E n \in BucketCounts :
           /\ buckets \in Table(n) /\ Count(buckets) = n
           /\ size = Cardinality(UsedIn(buckets, n)) /\ 2 * size <= n
           /\ ReachableIn(buckets, n) /\ CountedIn(buckets, n)
<1>1. PICK n \in BucketCounts : buckets \in Table(n)
  BY DEF IInv, TypeOK, Table
<1>2. DOMAIN buckets = 0..n - 1 /\ Count(buckets) = n
  BY <1>1, TableCount
<1>3. UsedBuckets = UsedIn(buckets, n)
  BY <1>2 DEF UsedBuckets, UsedIn
<1>4. size = Cardinality(UsedIn(buckets, n)) /\ 2 * size <= n
  BY <1>2, <1>3 DEF IInv, HalfFull
<1>5. ReachableIn(buckets, n)
  BY <1>2, <1>3 DEF IInv, Reachable, ReachableIn, Way, WayIn
<1>6. CountedIn(buckets, n)
  BY <1>2, <1>3 DEF IInv, DuplicatesCounted, CountedIn, Later, Way, WayIn
<1>7. QED
  BY <1>1, <1>2, <1>4, <1>5, <1>6

\* The other way round, for the state after a step.
LEMMA TableIInv ==
  ASSUME NEW n \in BucketCounts, buckets' \in Table(n),
         ReachableIn(buckets', n), CountedIn(buckets', n),
         size' = Cardinality(UsedIn(buckets', n)), 2 * size' <= n,
         size' \in 0..MaxRows, todo' \in Seq(Row \cup {NoRow})
  PROVE  IInv'
<1>1. DOMAIN buckets' = 0..n - 1 /\ Count(buckets') = n
  BY TableCount
<1>2. UsedBuckets' = UsedIn(buckets', n)
  BY <1>1 DEF UsedBuckets, UsedIn
<1>3. TypeOK'
  BY DEF TypeOK, Table
<1>4. HalfFull'
  BY <1>1, <1>2 DEF HalfFull
<1>5. Reachable'
  BY <1>1, <1>2 DEF Reachable, ReachableIn, Way, WayIn
<1>6. DuplicatesCounted'
  BY <1>1, <1>2 DEF DuplicatesCounted, CountedIn, Later, Way, WayIn
<1>7. QED
  BY <1>3, <1>4, <1>5, <1>6 DEF IInv

\* The table a constructor makes satisfies the invariant.
LEMMA IInvInit == Init => IInv
<1> SUFFICES ASSUME Init PROVE IInv
  OBVIOUS
<1> DEFINE n == RoundUp(InitialCount)
<1>1. n \in BucketCounts /\ n \in Nat \ {0}
  BY RoundUpType, ProbeAssumption
<1> HIDE DEF n
<1>2. buckets = EmptyTable(n) /\ size = 0 /\ todo = <<>>
  BY DEF Init, n
<1>3. /\ buckets \in Table(n) /\ Cardinality(UsedIn(buckets, n)) = 0
      /\ ReachableIn(buckets, n) /\ CountedIn(buckets, n)
  BY <1>1, <1>2, EmptySound
<1>4. DOMAIN buckets = 0..n - 1 /\ Count(buckets) = n
  BY <1>1, <1>3, TableCount
<1>5. UsedBuckets = UsedIn(buckets, n)
  BY <1>4 DEF UsedBuckets, UsedIn
<1>6. TypeOK
  BY <1>1, <1>2, <1>3, ProbeAssumption DEF TypeOK, Table
<1>7. HalfFull
  BY <1>1, <1>2, <1>3, <1>4, <1>5 DEF HalfFull
<1>8. Reachable
  BY <1>3, <1>4, <1>5 DEF Reachable, ReachableIn, Way, WayIn
<1>9. DuplicatesCounted
  BY <1>3, <1>4, <1>5 DEF DuplicatesCounted, CountedIn, Later, Way, WayIn
<1>10. QED
  BY <1>6, <1>7, <1>8, <1>9 DEF IInv

\* What the iterator passes is a sequence of rows and empty buckets.
LEMMA EntriesType ==
  ASSUME NEW n \in BucketCounts, NEW b \in Table(n)
  PROVE  Entries(b) \in Seq(Row \cup {NoRow})
<1>1. n \in Nat /\ Count(b) = n
  BY TableCount
<1>2. \A i \in 1..n : b[i - 1].row \in Row \cup {NoRow}
  BY <1>1 DEF Table
<1>3. Entries(b) \in [1..n -> Row \cup {NoRow}]
  BY <1>1, <1>2 DEF Entries
<1>4. QED
  BY <1>1, <1>3

\* Every step preserves the invariant.
LEMMA IInvNext == IInv /\ [Next]_vars => IInv'
<1> SUFFICES ASSUME IInv, [Next]_vars PROVE IInv'
  OBVIOUS
<1>1. PICK n \in BucketCounts :
        /\ buckets \in Table(n) /\ Count(buckets) = n
        /\ size = Cardinality(UsedIn(buckets, n)) /\ 2 * size <= n
        /\ ReachableIn(buckets, n) /\ CountedIn(buckets, n)
  BY IInvTable
<1>2. /\ n \in Nat \ {0} /\ MaxRows \in Nat \ {0} /\ size \in 0..MaxRows /\ size \in Nat
      /\ todo \in Seq(Row \cup {NoRow})
  BY ProbeAssumption DEF IInv, TypeOK
<1>3. ASSUME UNCHANGED <<buckets, size>>, todo' \in Seq(Row \cup {NoRow}) PROVE IInv'
  BY <1>1, <1>2, <1>3, TableIInv
<1>4. ASSUME NEW c \in 0..2 * MaxRows, buckets' = EmptyTable(RoundUp(c)), size' = 0,
             todo' \in Seq(Row \cup {NoRow})
      PROVE  IInv'
  <2>1. RoundUp(c) \in BucketCounts /\ RoundUp(c) \in Nat \ {0}
    BY RoundUpType
  <2>2. QED
    BY <2>1, <1>2, <1>4, EmptySound, TableIInv
<1>5. ASSUME NEW r \in Row, Emplace(r) PROVE IInv'
  <2>1. todo' \in Seq(Row \cup {NoRow})
    BY <1>5 DEF Emplace
  <2>2. QED
    BY <2>1, <1>3, <1>5 DEF Emplace
<1>6. ASSUME NEW rows \in Merges, MergeOthers(rows) PROVE IInv'
  <2>1. rows \in Seq(Row) /\ Len(rows) \in 0..2 * MaxRows
    BY <1>2, <1>6, ProbeAssumption DEF MergeOthers
  <2>2. Entries(buckets) \in Seq(Row \cup {NoRow})
    BY <1>1, EntriesType
  <2>3. rows \in Seq(Row \cup {NoRow})
    BY <2>1
  <2>4. todo' \in Seq(Row \cup {NoRow})
    BY <2>2, <2>3, <1>6 DEF MergeOthers
  <2>5. QED
    BY <2>1, <2>4, <1>4, <1>6 DEF MergeOthers
<1>7. CASE Skip
  <2>1. todo' \in Seq(Row \cup {NoRow})
    BY <1>2, <1>7 DEF Skip
  <2>2. QED
    BY <2>1, <1>3, <1>7 DEF Skip
<1>8. CASE Grow
  <2>1. 2 * (size + 1) \in 0..2 * MaxRows
    BY <1>2, <1>8 DEF Grow
  <2>2. Entries(buckets) \in Seq(Row \cup {NoRow})
    BY <1>1, EntriesType
  <2>3. todo' \in Seq(Row \cup {NoRow})
    BY <2>2, <1>2, <1>8 DEF Grow
  <2>4. QED
    BY <2>1, <2>3, <1>4, <1>8 DEF Grow
<1>9. CASE Place
  <2> DEFINE r == Head(todo)
  <2>1. r \in Row /\ todo' \in Seq(Row \cup {NoRow})
    BY <1>2, <1>9 DEF Place
  <2> HIDE DEF r
  <2>2. buckets' = Placed(buckets, r) /\ size' = size + 1 /\ size < MaxRows
    BY <1>9 DEF Place, r
  <2>3. 2 * (size + 1) <= n
    BY <1>1, <1>9 DEF Place, HasRoom
  <2>4. Cardinality(UsedIn(buckets, n)) < n
    BY <2>3, <1>1, <1>2
  <2>5. buckets' \in Table(n) /\ Cardinality(UsedIn(buckets', n)) = size + 1
    BY <2>1, <2>2, <2>4, <1>1, PlacedBuckets
  <2>6. ReachableIn(buckets', n)
    BY <2>1, <2>2, <2>4, <1>1, PlacedReachable
  <2>7. CountedIn(buckets', n)
    BY <2>1, <2>2, <2>4, <1>1, PlacedCounted
  <2>8. size' \in 0..MaxRows /\ 2 * size' <= n
    BY <2>2, <2>3, <1>2
  <2>9. QED
    BY <2>1, <2>2, <2>5, <2>6, <2>7, <2>8, TableIInv
<1>10. CASE UNCHANGED vars
  BY <1>2, <1>3, <1>10 DEF vars
<1>11. QED
  BY <1>5, <1>6, <1>7, <1>8, <1>9, <1>10 DEF Next, Step

-----------------------------------------------------------------------------
(* The theorems                                                             *)

\* The invariant holds in every state of the table.
THEOREM IInvHolds == Spec => []IInv
<1>1. Init => IInv
  BY IInvInit
<1>2. IInv /\ [Next]_vars => IInv'
  BY IInvNext
<1>3. QED
  BY <1>1, <1>2, PTL DEF Spec

\* The state of a LinearProbeHashTable keeps its types: the number of buckets is
\* always one the constructor makes, whatever was inserted or merged.
THEOREM TypeCorrect == Spec => []TypeOK
<1>1. IInv => TypeOK
  BY DEF IInv
<1>2. QED
  BY <1>1, IInvHolds, PTL

\* The load factor of a LinearProbeHashTable never exceeds one half, in the middle of
\* a rehash and of a merge too.
THEOREM LoadBounded == Spec => []HalfFull
<1>1. IInv => HalfFull
  BY DEF IInv
<1>2. QED
  BY <1>1, IInvHolds, PTL

\* No row of a LinearProbeHashTable is cut off from its home by an empty bucket.
THEOREM RowsReachable == Spec => []Reachable
<1>1. IInv => Reachable
  BY DEF IInv
<1>2. QED
  BY <1>1, IInvHolds, PTL

\* The duplicate_num of the first match of a probe is the number of matches left.
THEOREM DuplicatesRight == Spec => []DuplicatesCounted
<1>1. IInv => DuplicatesCounted
  BY DEF IInv
<1>2. QED
  BY <1>1, IInvHolds, PTL

-----------------------------------------------------------------------------
(* The rows of the table and of the operation under way                     *)

Entry == Row \cup {NoRow}
HeldIn(b, n, r) == {i \in UsedIn(b, n) : b[i].row = r}
RowsOf(b, n, t) == [r \in Row |-> Cardinality(HeldIn(b, n, r)) + TimesIn(t, r)]

\* The buckets that hold a row are finitely many.
LEMMA HeldType ==
  ASSUME NEW n \in BucketCounts, NEW b \in Table(n), NEW r \in Row
  PROVE  IsFiniteSet(HeldIn(b, n, r)) /\ Cardinality(HeldIn(b, n, r)) \in Nat
<1>1. HeldIn(b, n, r) \in SUBSET UsedIn(b, n) /\ IsFiniteSet(UsedIn(b, n))
  BY TableCount DEF HeldIn
<1>2. IsFiniteSet(HeldIn(b, n, r))
  BY <1>1, FS_Subset
<1> QED BY <1>2, FS_CardinalityType

\* The rows of a state, in terms of its table.
LEMMA RowsIn ==
  ASSUME NEW n \in BucketCounts, buckets \in Table(n)
  PROVE  Rows = RowsOf(buckets, n, todo)
<1>1. DOMAIN buckets = 0..n - 1
  BY TableCount
<1>2. UsedBuckets = UsedIn(buckets, n)
  BY <1>1 DEF UsedBuckets, UsedIn
<1> QED BY <1>2 DEF Rows, RowsOf, HeldIn, TimesIn, Positions

\* The same after a step.
LEMMA RowsNextIn ==
  ASSUME NEW n \in BucketCounts, buckets' \in Table(n)
  PROVE  Rows' = RowsOf(buckets', n, todo')
<1>1. DOMAIN buckets' = 0..n - 1
  BY TableCount
<1>2. UsedBuckets' = UsedIn(buckets', n)
  BY <1>1 DEF UsedBuckets, UsedIn
<1> QED BY <1>2 DEF Rows, RowsOf, HeldIn, TimesIn, Positions

\* What is still to be inserted, in two parts.
LEMMA TimesConcat ==
  ASSUME NEW s \in Seq(Entry), NEW t \in Seq(Entry), NEW r
  PROVE  TimesIn(s \o t, r) = TimesIn(s, r) + TimesIn(t, r)
<1> DEFINE u == s \o t
           m == Len(s)
           n == Len(t)
<1>1. /\ m \in Nat /\ n \in Nat
      /\ DOMAIN s = 1..m /\ DOMAIN t = 1..n /\ DOMAIN u = 1..(m + n)
      /\ \A i \in 1..m : u[i] = s[i]
      /\ \A j \in 1..n : u[m + j] = t[j]
  OBVIOUS
<1> HIDE DEF u, m, n
<1>2. TimesIn(u, r) = TimesIn(s, r) + TimesIn(t, r)
  BY <1>1, TimesJoined
<1> QED BY <1>2 DEF u

\* Taking the first entry off takes one occurrence of it.
LEMMA TimesTail ==
  ASSUME NEW s \in Seq(Entry), s # <<>>, NEW r
  PROVE  TimesIn(s, r) = TimesIn(Tail(s), r) + (IF r = Head(s) THEN 1 ELSE 0)
<1>1. Head(s) \in Entry /\ Tail(s) \in Seq(Entry) /\ <<Head(s)>> \in Seq(Entry)
  OBVIOUS
<1>2. s = <<Head(s)>> \o Tail(s)
  OBVIOUS
<1>3. TimesIn(s, r) = TimesIn(<<Head(s)>>, r) + TimesIn(Tail(s), r)
  <2> DEFINE first == <<Head(s)>>
  <2>1. first \in Seq(Entry) /\ s = first \o Tail(s)
    BY <1>1, <1>2
  <2> HIDE DEF first
  <2>2. TimesIn(first \o Tail(s), r) = TimesIn(first, r) + TimesIn(Tail(s), r)
    BY <1>1, <2>1, TimesConcat, Zenon
  <2> QED BY <2>1, <2>2, Zenon DEF first
<1>4. TimesIn(<<Head(s)>>, r) = IF r = Head(s) THEN 1 ELSE 0
  BY TimesOne
<1>5. TimesIn(Tail(s), r) \in Nat
  <2>1. Len(Tail(s)) \in Nat /\ DOMAIN Tail(s) = 1..Len(Tail(s))
    BY <1>1
  <2> QED BY <2>1, TimesType, Zenon
<1> QED BY <1>3, <1>4, <1>5

\* The iterator of a table passes each row as often as the table holds it.
LEMMA TimesEntries ==
  ASSUME NEW n \in BucketCounts, NEW b \in Table(n), NEW r \in Row
  PROVE  TimesIn(Entries(b), r) = Cardinality(HeldIn(b, n, r))
<1> DEFINE P == Positions(Entries(b), r)
           H == HeldIn(b, n, r)
<1>1. n \in Nat /\ Count(b) = n /\ DOMAIN b = 0..n - 1 /\ r # NoRow
  BY TableCount, ProbeAssumption
<1>2. DOMAIN Entries(b) = 1..n /\ \A i \in 1..n : Entries(b)[i] = b[i - 1].row
  BY <1>1 DEF Entries
<1>3. H \in SUBSET Int /\ IsFiniteSet(H)
  BY <1>1, HeldType DEF HeldIn, UsedIn
<1>4. \A z : z \in P <=> \E i \in H : z = i + 1
  <2>1. ASSUME NEW z \in P PROVE \E i \in H : z = i + 1
    <3>1. z \in 1..n /\ b[z - 1].row = r /\ z - 1 \in 0..n - 1 /\ z = (z - 1) + 1
      BY <1>1, <1>2 DEF Positions
    <3>2. z - 1 \in H
      BY <1>1, <3>1 DEF HeldIn, UsedIn, Used
    <3> HIDE DEF H
    <3> QED BY <3>1, <3>2
  <2>2. ASSUME NEW i \in H PROVE i + 1 \in P
    <3>1. i \in 0..n - 1 /\ b[i].row = r
      BY DEF HeldIn, UsedIn
    <3>2. i + 1 \in 1..n /\ (i + 1) - 1 = i
      BY <1>1, <3>1
    <3>3. Entries(b)[i + 1] = r
      BY <1>2, <3>1, <3>2
    <3> QED BY <1>2, <3>2, <3>3 DEF Positions
  <2> HIDE DEF P, H
  <2> QED BY <2>1, <2>2
<1>5. Cardinality(P) = Cardinality(H)
  <2> HIDE DEF P, H
  <2>1. 1 \in Int
    OBVIOUS
  <2> QED BY <1>3, <1>4, <2>1, Shifted, Zenon
<1> QED BY <1>5 DEF TimesIn

\* A placement adds its row to the table.
LEMMA HeldPlaced ==
  ASSUME NEW n \in BucketCounts, NEW b \in Table(n), NEW r \in Row,
         Cardinality(UsedIn(b, n)) < n, NEW x \in Row
  PROVE  Cardinality(HeldIn(Placed(b, r), n, x)) =
           Cardinality(HeldIn(b, n, x)) + (IF x = r THEN 1 ELSE 0)
<1> DEFINE i == Slot(b, r)
           p == Placed(b, r)
<1>1. /\ p[i].row = r
      /\ \A j \in 0..n - 1 : j # i => p[j].row = b[j].row
      /\ UsedIn(p, n) = UsedIn(b, n) \cup {i}
      /\ i \notin UsedIn(b, n)
  BY PlacedBuckets
<1>2. UsedIn(b, n) \subseteq 0..n - 1
  BY DEF UsedIn
<1>3. IsFiniteSet(HeldIn(b, n, x)) /\ Cardinality(HeldIn(b, n, x)) \in Nat
  BY HeldType
<1> HIDE DEF i, p
<1>4. i \notin HeldIn(b, n, x)
  BY <1>1 DEF HeldIn
<1>5. HeldIn(p, n, x) = IF x = r THEN HeldIn(b, n, x) \cup {i} ELSE HeldIn(b, n, x)
  BY <1>1, <1>2 DEF HeldIn
<1>6. Cardinality(HeldIn(p, n, x)) = Cardinality(HeldIn(b, n, x)) + (IF x = r THEN 1 ELSE 0)
  <2>1. CASE x = r
    <3>1. HeldIn(p, n, x) = HeldIn(b, n, x) \cup {i}
      BY <1>5, <2>1
    <3>2. Cardinality(HeldIn(p, n, x)) = Cardinality(HeldIn(b, n, x)) + 1
      BY <1>3, <1>4, <3>1, FS_AddElement, ZenonT(30)
    <3> QED BY <2>1, <3>2
  <2>2. CASE x # r
    BY <1>3, <1>5, <2>2
  <2> QED BY <2>1, <2>2
<1> QED BY <1>6 DEF p

\* A new table holds no row.
LEMMA HeldEmpty ==
  ASSUME NEW n \in BucketCounts, NEW x \in Row
  PROVE  Cardinality(HeldIn(EmptyTable(n), n, x)) = 0
<1>1. HeldIn(EmptyTable(n), n, x) = {}
  BY DEF EmptyTable, HeldIn, UsedIn, Used
<1> QED BY <1>1, FS_EmptySet

\* An operation adds its rows to the bag when it begins, and its steps leave the bag
\* alone: a rehash moves the rows of the table to what is still to be inserted, and a
\* placement moves one back.
LEMMA RowsSteps ==
  ASSUME IInv
  PROVE  /\ \A r \in Row : Emplace(r) => Multimap!Emplace(r)
         /\ \A rows \in Merges : MergeOthers(rows) => Multimap!MergeOthers(rows)
         /\ Step \/ UNCHANGED vars => UNCHANGED Rows
<1> USE DEF Entry
<1>1. PICK n \in BucketCounts :
        /\ buckets \in Table(n) /\ Count(buckets) = n
        /\ size = Cardinality(UsedIn(buckets, n)) /\ 2 * size <= n
  BY IInvTable
<1>2. /\ n \in Nat \ {0} /\ MaxRows \in Nat \ {0} /\ size \in 0..MaxRows /\ size \in Nat
      /\ todo \in Seq(Entry)
  BY ProbeAssumption DEF IInv, TypeOK
<1>3. Rows = RowsOf(buckets, n, todo)
  BY <1>1, RowsIn
<1>4. ASSUME NEW t \in Seq(Entry), NEW r \in Row PROVE TimesIn(t, r) \in Nat
  <2>1. Len(t) \in Nat /\ DOMAIN t = 1..Len(t)
    OBVIOUS
  <2> QED BY <2>1, TimesType
<1>5. \A r \in Row : Cardinality(HeldIn(buckets, n, r)) \in Nat
  BY <1>1, HeldType
<1>6. ASSUME UNCHANGED buckets PROVE Rows' = RowsOf(buckets, n, todo')
  BY <1>1, <1>6, RowsNextIn
<1>7. ASSUME NEW c \in 0..2 * MaxRows, buckets' = EmptyTable(RoundUp(c)),
             NEW t \in Seq(Entry), todo' = Entries(buckets) \o t
      PROVE  Rows' = RowsOf(buckets, n, t)
  <2>1. RoundUp(c) \in BucketCounts
    BY RoundUpType
  <2>2. buckets' \in Table(RoundUp(c))
    BY <1>7, <2>1, EmptySound
  <2>3. Rows' = RowsOf(buckets', RoundUp(c), todo')
    BY <2>1, <2>2, RowsNextIn
  <2>4. Entries(buckets) \in Seq(Entry)
    BY <1>1, EntriesType
  <2>5. ASSUME NEW r \in Row
        PROVE  Cardinality(HeldIn(buckets', RoundUp(c), r)) + TimesIn(todo', r) =
                 Cardinality(HeldIn(buckets, n, r)) + TimesIn(t, r)
    <3>1. Cardinality(HeldIn(buckets', RoundUp(c), r)) = 0
      BY <1>7, <2>1, HeldEmpty
    <3>2. TimesIn(todo', r) = TimesIn(Entries(buckets), r) + TimesIn(t, r)
      BY <1>7, <2>4, TimesConcat, Zenon
    <3>3. TimesIn(Entries(buckets), r) = Cardinality(HeldIn(buckets, n, r))
      BY <1>1, TimesEntries
    <3>4. Cardinality(HeldIn(buckets, n, r)) \in Nat /\ TimesIn(t, r) \in Nat
      BY <1>4, <1>5, Zenon
    <3> QED BY <3>1, <3>2, <3>3, <3>4
  <2> QED BY <2>3, <2>5 DEF RowsOf
<1>8. ASSUME NEW e \in Row, Emplace(e) PROVE Multimap!Emplace(e)
  <2>1. todo = <<>> /\ todo' = <<e>> /\ Rows' = RowsOf(buckets, n, <<e>>)
    BY <1>6, <1>8 DEF Emplace
  <2>2. \A r \in Row : TimesIn(<<>>, r) = 0 /\ TimesIn(<<e>>, r) = IF r = e THEN 1 ELSE 0
    BY TimesOne
  <2>3. \A r \in Row : Rows[r] = Cardinality(HeldIn(buckets, n, r))
    BY <1>3, <1>5, <2>1, <2>2 DEF RowsOf
  <2>4. \A r \in Row : Rows'[r] = IF r = e THEN Rows[r] + 1 ELSE Rows[r]
    BY <1>5, <2>1, <2>2, <2>3 DEF RowsOf
  <2>5. DOMAIN Rows = Row /\ DOMAIN Rows' = Row /\ Rows' = [r \in Row |-> Rows'[r]]
    BY DEF Rows
  <2>6. Rows' = [Rows EXCEPT ![e] = @ + 1]
    BY <2>4, <2>5
  <2> QED BY <2>6 DEF Multimap!Emplace
<1>9. ASSUME NEW rows \in Merges, MergeOthers(rows) PROVE Multimap!MergeOthers(rows)
  <2>1. /\ rows \in Seq(Row) /\ Len(rows) \in 0..2 * MaxRows /\ rows \in Seq(Entry)
        /\ todo = <<>>
    BY <1>2, <1>9, ProbeAssumption DEF MergeOthers
  <2>2. Rows' = RowsOf(buckets, n, rows)
    BY <1>7, <1>9, <2>1 DEF MergeOthers
  <2>3. \A r \in Row : Rows[r] = Cardinality(HeldIn(buckets, n, r))
    <3>1. \A r \in Row : TimesIn(<<>>, r) = 0
      BY TimesOne, Zenon
    <3> QED BY <1>3, <1>5, <2>1, <3>1 DEF RowsOf
  <2>4. ASSUME NEW r \in Row PROVE TimesIn(rows, r) = Multimap!Occurrences(rows, r)
    <3>1. Positions(rows, r) = {i \in DOMAIN rows : rows[i] = r}
      BY DEF Positions
    <3>2. Multimap!Occurrences(rows, r) = Cardinality({i \in DOMAIN rows : rows[i] = r})
      BY Zenon DEF Multimap!Occurrences, Multimap!Cardinality, Cardinality
    <3> QED BY <3>1, <3>2 DEF TimesIn
  <2> QED BY <2>2, <2>3, <2>4 DEF RowsOf, Multimap!MergeOthers
<1>10. ASSUME Skip PROVE UNCHANGED Rows
  <2>1. /\ Head(todo) = NoRow /\ todo # <<>> /\ todo' = Tail(todo)
        /\ Rows' = RowsOf(buckets, n, Tail(todo))
    BY <1>6, <1>10 DEF Skip
  <2>2. ASSUME NEW r \in Row PROVE TimesIn(todo, r) = TimesIn(Tail(todo), r)
    <3>1. r # NoRow /\ Tail(todo) \in Seq(Entry)
      BY <1>2, <2>1, ProbeAssumption
    <3>2. TimesIn(todo, r) = TimesIn(Tail(todo), r) + 0 /\ TimesIn(Tail(todo), r) \in Nat
      BY <1>2, <1>4, <2>1, <3>1, TimesTail, Zenon
    <3> QED BY <3>2
  <2> QED BY <1>3, <2>1, <2>2 DEF RowsOf
<1>11. ASSUME Grow PROVE UNCHANGED Rows
  <2>1. 2 * (size + 1) \in 0..2 * MaxRows
    BY <1>2, <1>11 DEF Grow
  <2>2. Rows' = RowsOf(buckets, n, todo)
    BY <1>2, <1>7, <1>11, <2>1 DEF Grow
  <2> QED BY <1>3, <2>2
<1>12. ASSUME Place PROVE UNCHANGED Rows
  <2> DEFINE e == Head(todo)
  <2>1. e \in Row /\ todo # <<>> /\ Tail(todo) \in Seq(Entry) /\ todo' = Tail(todo)
    BY <1>2, <1>12 DEF Place
  <2>2. buckets' = Placed(buckets, e) /\ Cardinality(UsedIn(buckets, n)) < n
    BY <1>1, <1>2, <1>12 DEF Place, HasRoom
  <2>3. ASSUME NEW r \in Row PROVE TimesIn(todo, r) = TimesIn(Tail(todo), r) + (IF r = e THEN 1 ELSE 0)
    BY <1>2, <2>1, TimesTail
  <2> HIDE DEF e
  <2>4. Rows' = RowsOf(buckets', n, Tail(todo))
    BY <1>1, <2>1, <2>2, PlacedBuckets, RowsNextIn
  <2>5. ASSUME NEW r \in Row
        PROVE  Cardinality(HeldIn(buckets', n, r)) = Cardinality(HeldIn(buckets, n, r)) + (IF r = e THEN 1 ELSE 0)
    BY <1>1, <2>1, <2>2, HeldPlaced
  <2>6. ASSUME NEW r \in Row
        PROVE  Cardinality(HeldIn(buckets', n, r)) + TimesIn(Tail(todo), r) =
                 Cardinality(HeldIn(buckets, n, r)) + TimesIn(todo, r)
    <3>1. TimesIn(Tail(todo), r) \in Nat /\ Cardinality(HeldIn(buckets, n, r)) \in Nat
      BY <1>4, <1>5, <2>1, Zenon
    <3> QED BY <2>3, <2>5, <3>1
  <2> QED BY <1>3, <2>4, <2>6 DEF RowsOf
<1>13. ASSUME UNCHANGED vars PROVE UNCHANGED Rows
  BY <1>3, <1>6, <1>13 DEF vars
<1> QED BY <1>8, <1>9, <1>10, <1>11, <1>12, <1>13 DEF Step

\* Whatever is inserted and merged, and whenever the table grows, no row is lost or
\* doubled: LinearProbeHashTable implements the bag of rows of JoinMultimap.
THEOREM ImplementsMultimap == Spec => KeepsRows
<1>1. Init => Multimap!Init
  <2> SUFFICES ASSUME Init PROVE Rows = [r \in Row |-> 0]
    BY DEF Multimap!Init
  <2> DEFINE n == RoundUp(InitialCount)
  <2>1. n \in BucketCounts
    BY RoundUpType, ProbeAssumption
  <2>2. buckets = EmptyTable(n) /\ todo = <<>>
    BY DEF Init
  <2> HIDE DEF n
  <2>3. Rows = RowsOf(buckets, n, todo)
    BY <2>1, <2>2, EmptySound, RowsIn
  <2>4. \A r \in Row : Cardinality(HeldIn(buckets, n, r)) = 0 /\ TimesIn(todo, r) = 0
    BY <2>1, <2>2, HeldEmpty, TimesOne, Zenon
  <2> QED BY <2>3, <2>4 DEF RowsOf
<1>2. IInv /\ [Next]_vars => [Multimap!Next]_Rows
  BY RowsSteps DEF Next, Multimap!Next
<1> QED BY <1>1, <1>2, IInvHolds, PTL DEF Spec, KeepsRows, Multimap!Spec

-----------------------------------------------------------------------------
(* find_all_impl                                                            *)

ScanState == [vec : Seq(Values), dup : Nat, stop : BOOLEAN]
ScanStart == [vec |-> <<>>, dup |-> 0, stop |-> FALSE]

\* What the scan for k makes of one more bucket e.
ScanNext(k, s, e) ==
  IF s.stop THEN s
  ELSE IF e.row = NoRow THEN [s EXCEPT !.stop = TRUE]
  ELSE IF e.row.key = k
    THEN LET dup == IF s.vec = <<>> THEN e.dup ELSE s.dup
         IN  [vec |-> Append(s.vec, e.row.val), dup |-> dup, stop |-> dup = 0]
  ELSE [s EXCEPT !.stop = Len(s.vec) = s.dup + 1]

BucketAt(b, n, k, d) == b[At(n, Home(k, n), d - 1)]

\* scan is what find_all_impl knows after each bucket.
IsScan(b, n, k, scan) ==
  /\ scan \in [0..n -> ScanState]
  /\ scan[0] = ScanStart
  /\ \A d \in 1..n : scan[d] = ScanNext(k, scan[d - 1], BucketAt(b, n, k, d))

\* The probe sequence visits at its step d the bucket at distance d - 1.
LEMMA AtType ==
  ASSUME NEW n \in BucketCounts, NEW k \in Keys, NEW d \in 1..n
  PROVE  /\ At(n, Home(k, n), d - 1) \in 0..n - 1
         /\ WayIn(n, k, At(n, Home(k, n), d - 1)) = d - 1
<1>1. n \in Nat \ {0} /\ Home(k, n) \in 0..n - 1
  BY HomeType
<1> QED BY <1>1 DEF At, WayIn, Dist

\* What the scan keeps stays of its type.
LEMMA ScanNextType ==
  ASSUME NEW k \in Keys, NEW s \in ScanState, NEW e \in [row : Row \cup {NoRow}, dup : Nat]
  PROVE  ScanNext(k, s, e) \in ScanState
<1>1. CASE e.row = NoRow
  BY <1>1, Zenon DEF ScanNext, ScanState
<1>2. CASE e.row # NoRow
  <2>1. e.row \in Row /\ e.row.val \in Values /\ e.dup \in Nat
    BY <1>2 DEF Row
  <2>2. Append(s.vec, e.row.val) \in Seq(Values)
    BY <2>1 DEF ScanState
  <2> QED BY <1>2, <2>1, <2>2, Zenon DEF ScanNext, ScanState
<1> QED BY <1>1, <1>2

\* The recursion of the scan has a solution, and Scan is its last value.
LEMMA ScanDef ==
  ASSUME NEW n \in BucketCounts, NEW b \in Table(n), NEW k \in Keys
  PROVE  \E scan : IsScan(b, n, k, scan) /\ Scan(b, k) = scan[n]
<1> DEFINE bucket(d) == BucketAt(b, n, k, d)
           step == [d \in 1..n |-> [s \in ScanState |-> ScanNext(k, s, bucket(d))]]
           def(g) == [d \in 0..n |-> IF d = 0 THEN ScanStart ELSE ScanNext(k, g[d - 1], bucket(d))]
           scan == CHOOSE g : g = def(g)
<1>1. n \in Nat /\ Count(b) = n
  BY TableCount
<1>2. \A d \in 1..n : bucket(d) \in [row : Row \cup {NoRow}, dup : Nat]
  BY AtType DEF BucketAt, Table
<1>3. step \in [1..n -> [ScanState -> ScanState]]
  <2> HIDE DEF bucket
  <2>1. \A d \in 1..n : \A s \in ScanState : ScanNext(k, s, bucket(d)) \in ScanState
    BY <1>2, ScanNextType
  <2> QED BY <2>1
<1>4. ScanStart \in ScanState
  BY DEF ScanStart, ScanState
<1>5. PICK f : Follows(f, n, ScanState, ScanStart, step)
  <2> HIDE DEF step
  <2> QED BY <1>1, <1>3, <1>4, RecursionExists
<1>6. f = def(f)
  <2> HIDE DEF bucket
  <2>1. ASSUME NEW d \in 0..n PROVE f[d] = def(f)[d]
    <3>1. CASE d = 0
      BY <1>5, <3>1 DEF Follows
    <3>2. CASE d # 0
      <4>1. d \in 1..n /\ d - 1 \in 0..n
        BY <1>1, <3>2
      <4>2. f[d - 1] \in ScanState
        BY <1>5, <4>1 DEF Follows
      <4> QED BY <1>5, <3>2, <4>1, <4>2, Zenon DEF Follows
    <3> QED BY <3>1, <3>2
  <2> QED BY <1>5, <2>1 DEF Follows
<1>7. scan = def(scan)
  <2> HIDE DEF def
  <2> QED BY <1>6
<1>8. Scan(b, k) = scan[n]
  <2> DEFINE scanOf(m) ==
        (CHOOSE g : g = [d \in 0..m |-> IF d = 0 THEN ScanStart
                                        ELSE ScanNext(k, g[d - 1], BucketAt(b, m, k, d))])[m]
  <2>1. Scan(b, k) = scanOf(Count(b))
    BY Zenon DEF Scan, ScanNext, ScanStart, BucketAt
  <2>2. scanOf(Count(b)) = scanOf(n)
    <3> HIDE DEF scanOf
    <3> QED BY <1>1
  <2> QED BY <2>1, <2>2
<1> HIDE DEF scan
<1>9. /\ scan[0] = ScanStart
      /\ \A d \in 1..n : scan[d] = ScanNext(k, scan[d - 1], bucket(d))
  <2> HIDE DEF bucket
  <2>1. \A d \in 0..n : scan[d] = def(scan)[d]
    BY <1>7, ZenonT(30)
  <2> QED BY <1>1, <2>1
<1>10. \A d \in 0..n : scan[d] \in ScanState
  <2> DEFINE T == {d \in 0..n : scan[d] \in ScanState}
  <2> HIDE DEF bucket
  <2>1. 0 \in T
    <3>1. 0 \in 0..n
      BY <1>1
    <3> QED BY <1>4, <1>9, <3>1, Zenon
  <2>2. \A d \in 1..n : d - 1 \in T => d \in T
    <3>1. TAKE d \in 1..n
    <3>2. HAVE d - 1 \in T
    <3>3. scan[d - 1] \in ScanState /\ d \in 0..n
      BY <1>1, <3>2
    <3>4. scan[d] \in ScanState
      BY <1>2, <1>9, <3>3, ScanNextType
    <3> QED BY <3>3, <3>4
  <2>3. \A d \in 0..n : d \in T
    <3> HIDE DEF T
    <3> QED BY <1>1, <2>1, <2>2, UpTo
  <2> QED BY <2>3
<1>11. scan \in [0..n -> ScanState]
  BY <1>7, <1>10
<1> QED BY <1>8, <1>9, <1>11, Zenon DEF IsScan

\* The buckets with key k among the first d of the probe sequence, and those of them
\* with value v.
Matches(b, n, k, d) == {i \in UsedIn(b, n) : b[i].row.key = k /\ WayIn(n, k, i) < d}
Valued(b, n, k, d, v) == {i \in Matches(b, n, k, d) : b[i].row.val = v}

\* What the scan knows after d buckets: it has the values of the matches it passed,
\* and from the first one on how many there are; a scan that stopped has them all.
ScanKnows(b, n, k, d, s) ==
  /\ s.stop => \A v \in Values : TimesIn(s.vec, v) = Cardinality(Valued(b, n, k, n, v))
  /\ ~s.stop => /\ \A i \in 0..n - 1 : WayIn(n, k, i) < d => i \in UsedIn(b, n)
                /\ \A v \in Values : TimesIn(s.vec, v) = Cardinality(Valued(b, n, k, d, v))
                /\ Len(s.vec) = Cardinality(Matches(b, n, k, d))
                /\ s.vec # <<>> => s.dup + 1 = Cardinality(Matches(b, n, k, n))

\* One more bucket of the probe sequence adds its match, if it is one.
LEMMA MatchStep ==
  ASSUME NEW n \in BucketCounts, NEW b \in Table(n), NEW k \in Keys, NEW d \in 1..n,
         NEW i, i = At(n, Home(k, n), d - 1)
  PROVE  /\ IF Used(b, i) /\ b[i].row.key = k
              THEN /\ Matches(b, n, k, d) = Matches(b, n, k, d - 1) \cup {i}
                   /\ i \notin Matches(b, n, k, d - 1)
              ELSE Matches(b, n, k, d) = Matches(b, n, k, d - 1)
         /\ \A j \in 0..n - 1 : WayIn(n, k, j) < d <=> WayIn(n, k, j) < d - 1 \/ j = i
<1>1. n \in Nat \ {0} /\ Home(k, n) \in 0..n - 1
  BY HomeType
<1>2. i \in 0..n - 1 /\ WayIn(n, k, i) = d - 1
  BY AtType
<1>3. ASSUME NEW j \in 0..n - 1
      PROVE  WayIn(n, k, j) \in 0..n - 1 /\ (WayIn(n, k, j) = WayIn(n, k, i) => j = i)
  BY <1>1, <1>2, DistType, ZenonT(30) DEF WayIn
<1>4. \A j \in 0..n - 1 : WayIn(n, k, j) < d <=> WayIn(n, k, j) < d - 1 \/ j = i
  BY <1>1, <1>2, <1>3
<1>5. UsedIn(b, n) \subseteq 0..n - 1 /\ (Used(b, i) <=> i \in UsedIn(b, n))
  BY <1>2 DEF UsedIn
<1>6. i \notin Matches(b, n, k, d - 1)
  BY <1>1, <1>2 DEF Matches
<1>7. ASSUME NEW j
      PROVE  j \in Matches(b, n, k, d) <=>
               j \in Matches(b, n, k, d - 1) \/ (j = i /\ Used(b, i) /\ b[i].row.key = k)
  BY <1>4, <1>5 DEF Matches
<1> QED BY <1>4, <1>6, <1>7

\* The matches are finitely many, and all within one round of the table.
LEMMA MatchesType ==
  ASSUME NEW n \in BucketCounts, NEW b \in Table(n), NEW k \in Keys, NEW d \in 0..n
  PROVE  /\ IsFiniteSet(Matches(b, n, k, d)) /\ Cardinality(Matches(b, n, k, d)) \in Nat
         /\ Matches(b, n, k, d) \in SUBSET Matches(b, n, k, n)
         /\ Matches(b, n, k, n) = {i \in UsedIn(b, n) : b[i].row.key = k}
         /\ \A v : IsFiniteSet(Valued(b, n, k, d, v)) /\ Cardinality(Valued(b, n, k, d, v)) \in Nat
<1>1. n \in Nat \ {0} /\ Home(k, n) \in 0..n - 1 /\ IsFiniteSet(UsedIn(b, n))
  BY HomeType, TableCount
<1>2. ASSUME NEW i \in UsedIn(b, n) PROVE WayIn(n, k, i) \in 0..n - 1
  BY <1>1, DistType DEF WayIn, UsedIn
<1>3. Matches(b, n, k, d) \in SUBSET UsedIn(b, n)
  BY DEF Matches
<1>4. IsFiniteSet(Matches(b, n, k, d))
  BY <1>1, <1>3, FS_Subset
<1>5. \A v : Valued(b, n, k, d, v) \in SUBSET Matches(b, n, k, d)
  BY DEF Valued
<1>6. \A v : IsFiniteSet(Valued(b, n, k, d, v))
  BY <1>4, <1>5, FS_Subset
<1>7. Matches(b, n, k, n) = {i \in UsedIn(b, n) : b[i].row.key = k}
  BY <1>1, <1>2 DEF Matches
<1>8. Matches(b, n, k, d) \in SUBSET Matches(b, n, k, n)
  BY <1>7 DEF Matches
<1> QED BY <1>4, <1>6, <1>7, <1>8, FS_CardinalityType

\* A value more in the result.
LEMMA TimesAppend ==
  ASSUME NEW s \in Seq(Values), NEW x \in Values, NEW v \in Values
  PROVE  TimesIn(Append(s, x), v) = TimesIn(s, v) + (IF v = x THEN 1 ELSE 0)
<1> DEFINE t == <<x>>
           u == Append(s, x)
           m == Len(s)
           n == 1
<1>1. /\ m \in Nat /\ n \in Nat
      /\ DOMAIN s = 1..m /\ DOMAIN t = 1..n /\ DOMAIN u = 1..(m + n)
      /\ \A i \in 1..m : u[i] = s[i]
      /\ \A j \in 1..n : u[m + j] = t[j]
  OBVIOUS
<1>2. TimesIn(t, v) = IF v = x THEN 1 ELSE 0
  BY TimesOne
<1> HIDE DEF t, u, m, n
<1>3. TimesIn(u, v) = TimesIn(s, v) + TimesIn(t, v)
  BY <1>1, TimesJoined
<1> QED BY <1>2, <1>3 DEF u

\* Passing one more bucket, the scan keeps knowing what it should.
LEMMA ScanStep ==
  ASSUME NEW n \in BucketCounts, NEW b \in Table(n), NEW k \in Keys, NEW d \in 1..n,
         ReachableIn(b, n), CountedIn(b, n),
         NEW s \in ScanState, ScanKnows(b, n, k, d - 1, s)
  PROVE  ScanKnows(b, n, k, d, ScanNext(k, s, BucketAt(b, n, k, d)))
<1> DEFINE i == At(n, Home(k, n), d - 1)
           M(e) == Matches(b, n, k, e)
           V(e, v) == Valued(b, n, k, e, v)
           q == ScanNext(k, s, BucketAt(b, n, k, d))
<1>1. /\ n \in Nat \ {0} /\ i \in 0..n - 1 /\ WayIn(n, k, i) = d - 1
      /\ d \in 0..n /\ d - 1 \in 0..n /\ n \in 0..n
  BY HomeType, AtType
<1>2. BucketAt(b, n, k, d) = b[i] /\ b[i] \in [row : Row \cup {NoRow}, dup : Nat]
  BY <1>1 DEF BucketAt, Table
<1>3. /\ IF Used(b, i) /\ b[i].row.key = k
           THEN M(d) = M(d - 1) \cup {i} /\ i \notin M(d - 1)
           ELSE M(d) = M(d - 1)
      /\ \A j \in 0..n - 1 : WayIn(n, k, j) < d <=> WayIn(n, k, j) < d - 1 \/ j = i
  BY MatchStep
<1>4. \A e \in 0..n : /\ IsFiniteSet(M(e)) /\ Cardinality(M(e)) \in Nat
                       /\ M(e) \in SUBSET M(n)
                       /\ \A v : IsFiniteSet(V(e, v)) /\ Cardinality(V(e, v)) \in Nat
  BY MatchesType
<1>5. M(n) = {j \in UsedIn(b, n) : b[j].row.key = k}
  BY <1>1, MatchesType
<1>6. s.vec \in Seq(Values) /\ s.dup \in Nat /\ s.stop \in BOOLEAN
  BY DEF ScanState
<1> HIDE DEF i, q
<1>7. CASE s.stop
  BY <1>7 DEF ScanNext, ScanKnows
<1>8. CASE ~s.stop /\ b[i].row = NoRow
  <2>1. ~Used(b, i) /\ i \notin UsedIn(b, n)
    BY <1>8 DEF Used, UsedIn
  <2>2. M(n) \subseteq M(d - 1)
    <3> SUFFICES ASSUME NEW j \in M(n) PROVE j \in M(d - 1)
      OBVIOUS
    <3>1. j \in UsedIn(b, n) /\ j \in 0..n - 1 /\ b[j].row.key = k /\ j # i
      BY <1>5, <2>1 DEF UsedIn
    <3>2. ~(WayIn(n, k, i) < WayIn(n, k, j))
      BY <1>1, <2>1, <3>1 DEF ReachableIn
    <3>3. WayIn(n, k, j) \in 0..n - 1 /\ (WayIn(n, k, j) = WayIn(n, k, i) => j = i)
      BY <1>1, <3>1, HomeType, DistType DEF WayIn
    <3>4. WayIn(n, k, j) < d - 1
      BY <1>1, <3>1, <3>2, <3>3
    <3> QED BY <3>1, <3>4 DEF Matches
  <2>3. M(n) = M(d - 1)
    BY <1>1, <1>4, <2>2, ZenonT(30)
  <2>4. \A v : V(n, v) = V(d - 1, v)
    BY <2>3 DEF Valued
  <2>5. ScanNext(k, s, b[i]).stop /\ ScanNext(k, s, b[i]).vec = s.vec
    BY <1>8 DEF ScanNext, ScanState
  <2> QED BY <1>2, <1>8, <2>4, <2>5 DEF ScanKnows
<1>9. CASE ~s.stop /\ b[i].row # NoRow /\ b[i].row.key = k
  <2> DEFINE dup == IF s.vec = <<>> THEN b[i].dup ELSE s.dup
             x == b[i].row.val
             r == [vec |-> Append(s.vec, x), dup |-> dup, stop |-> dup = 0]
  <2>1. ScanNext(k, s, b[i]) = r
    BY <1>9 DEF ScanNext
  <2>0. q = r
    BY <1>2, <2>1, Zenon DEF q
  <2>2. /\ Used(b, i) /\ i \in UsedIn(b, n) /\ x \in Values /\ b[i].dup \in Nat
        /\ dup \in Nat
    BY <1>1, <1>2, <1>6, <1>9 DEF Used, UsedIn, Row
  <2>3. /\ M(d) = M(d - 1) \cup {i} /\ i \notin M(d - 1)
        /\ Cardinality(M(d)) = Cardinality(M(d - 1)) + 1
    <3>1. M(d) = M(d - 1) \cup {i} /\ i \notin M(d - 1)
      BY <1>1, <1>3, <1>4, <1>9, <2>2
    <3>2. Cardinality(M(d)) = Cardinality(M(d - 1)) + 1
      BY <1>1, <1>4, <3>1, FS_AddElement, Zenon
    <3> QED BY <3>1, <3>2, Zenon
  <2>4. ASSUME NEW v \in Values
        PROVE  TimesIn(r.vec, v) = Cardinality(V(d, v))
    <3>1. TimesIn(r.vec, v) = TimesIn(s.vec, v) + (IF v = x THEN 1 ELSE 0)
      BY <1>6, <2>2, TimesAppend
    <3>2. TimesIn(s.vec, v) = Cardinality(V(d - 1, v))
      BY <1>9 DEF ScanKnows
    <3>3. IsFiniteSet(V(d - 1, v)) /\ Cardinality(V(d - 1, v)) \in Nat /\ i \notin V(d - 1, v)
      BY <1>1, <1>4, <2>3 DEF Valued
    <3>4. CASE v = x
      <4>1. V(d, v) = V(d - 1, v) \cup {i}
        BY <2>3, <3>4 DEF Valued
      <4>2. Cardinality(V(d, v)) = Cardinality(V(d - 1, v)) + 1
        BY <3>3, <4>1, FS_AddElement, ZenonT(30)
      <4> QED BY <3>1, <3>2, <3>4, <4>2, ZenonT(30)
    <3>5. CASE v # x
      <4>1. V(d, v) = V(d - 1, v)
        BY <2>3, <3>5 DEF Valued
      <4>2. TimesIn(r.vec, v) = TimesIn(s.vec, v) + 0
        BY <3>1, <3>5, Zenon
      <4>3. Cardinality(V(d - 1, v)) + 0 = Cardinality(V(d - 1, v))
        BY <3>3
      <4> QED BY <3>2, <4>1, <4>2, <4>3, Zenon
    <3> QED BY <3>4, <3>5
  <2>5. dup + 1 = Cardinality(M(n))
    <3>1. CASE s.vec # <<>>
      BY <1>9, <3>1 DEF ScanKnows
    <3>2. CASE s.vec = <<>>
      <4>1. M(d - 1) = {}
        <5>1. Cardinality(M(d - 1)) = 0
          BY <1>9, <3>2 DEF ScanKnows
        <5> QED BY <1>1, <1>4, <5>1, FS_EmptySet
      <4>2. ASSUME NEW j \in M(n), j # i PROVE j \in Later(b, n, i)
        <5>1. j \in UsedIn(b, n) /\ j \in 0..n - 1 /\ b[j].row.key = k
          BY <1>5 DEF UsedIn
        <5>2. ~(WayIn(n, k, j) < d - 1)
          BY <4>1, <5>1 DEF Matches
        <5>3. WayIn(n, k, j) \in 0..n - 1 /\ (WayIn(n, k, j) = WayIn(n, k, i) => j = i)
          BY <1>1, <5>1, HomeType, DistType DEF WayIn
        <5>4. WayIn(n, k, j) > WayIn(n, k, i)
          BY <1>1, <4>2, <5>2, <5>3
        <5> QED BY <1>9, <5>1, <5>4 DEF Later
      <4>3. ASSUME NEW j \in Later(b, n, i) PROVE j \in M(n)
        BY <1>5, <1>9 DEF Later
      <4>4. i \in M(n) /\ i \notin Later(b, n, i)
        BY <1>1, <1>5, <1>9, <2>2 DEF Later
      <4>5. M(n) = Later(b, n, i) \cup {i}
        BY <4>2, <4>3, <4>4
      <4>6. IsFiniteSet(Later(b, n, i))
        <5>1. Later(b, n, i) \in SUBSET M(n)
          BY <4>3
        <5> QED BY <1>1, <1>4, <5>1, FS_Subset
      <4>7. Cardinality(M(n)) = Cardinality(Later(b, n, i)) + 1
        BY <4>4, <4>5, <4>6, FS_AddElement, ZenonT(30)
      <4>8. b[i].dup = Cardinality(Later(b, n, i))
        BY <2>2 DEF CountedIn
      <4> QED BY <3>2, <4>7, <4>8
    <3> QED BY <3>1, <3>2
  <2>6. CASE dup = 0
    <3>0. IsFiniteSet(M(n)) /\ M(d) \in SUBSET M(n)
      BY <1>1, <1>4
    <3>1. Cardinality(M(d)) <= Cardinality(M(n)) /\ Cardinality(M(n)) = 1
      <4>1. Cardinality(M(d)) <= Cardinality(M(n))
        BY <3>0, FS_Subset, ZenonT(30)
      <4>2. Cardinality(M(n)) = 1
        BY <2>5, <2>6
      <4> QED BY <4>1, <4>2
    <3>2. Cardinality(M(d)) = Cardinality(M(n))
      BY <1>1, <1>4, <2>3, <3>1
    <3>3. M(n) = M(d)
      BY <1>1, <1>4, <3>2, FS_Subset
    <3>4. \A v : V(n, v) = V(d, v)
      BY <3>3 DEF Valued
    <3>5. q.stop /\ q.vec = r.vec
      <4> HIDE DEF dup
      <4>1. r.stop
        BY <2>6, ZenonT(30)
      <4> QED BY <2>0, <4>1
    <3> HIDE DEF r
    <3> QED BY <2>4, <3>4, <3>5, ZenonT(30) DEF ScanKnows, q
  <2>7. CASE dup # 0
    <3>1. \A j \in 0..n - 1 : WayIn(n, k, j) < d => j \in UsedIn(b, n)
      BY <1>3, <1>9, <2>2 DEF ScanKnows
    <3>2. Len(r.vec) = Cardinality(M(d))
      <4>1. Len(s.vec) = Cardinality(M(d - 1))
        BY <1>9 DEF ScanKnows
      <4> QED BY <1>6, <2>2, <2>3, <4>1
    <3>3. ~q.stop /\ q.vec = r.vec /\ q.dup = dup
      <4> HIDE DEF dup
      <4>1. ~r.stop /\ r.dup = dup
        BY <2>7, ZenonT(30)
      <4> QED BY <2>0, <4>1
    <3> HIDE DEF r, dup
    <3> QED BY <2>4, <2>5, <3>1, <3>2, <3>3, ZenonT(30) DEF ScanKnows, q
  <2> QED BY <2>6, <2>7
<1>10. CASE ~s.stop /\ b[i].row # NoRow /\ b[i].row.key # k
  <2> DEFINE r == [s EXCEPT !.stop = Len(s.vec) = s.dup + 1]
  <2>1. /\ ScanNext(k, s, b[i]) = r /\ r.vec = s.vec /\ r.dup = s.dup
        /\ r.stop = (Len(s.vec) = s.dup + 1)
    BY <1>10 DEF ScanNext, ScanState
  <2>2. M(d) = M(d - 1) /\ i \in UsedIn(b, n)
    BY <1>1, <1>3, <1>10 DEF UsedIn, Used
  <2>3. \A v : V(d, v) = V(d - 1, v)
    BY <2>2 DEF Valued
  <2>4. /\ Len(s.vec) = Cardinality(M(d))
        /\ s.vec # <<>> => s.dup + 1 = Cardinality(M(n))
        /\ \A v \in Values : TimesIn(s.vec, v) = Cardinality(V(d, v))
    BY <1>10, <2>2, <2>3 DEF ScanKnows
  <2> HIDE DEF r
  <2>5. CASE Len(s.vec) = s.dup + 1
    <3>1. s.vec # <<>>
      BY <1>6, <2>5
    <3>2. Cardinality(M(d)) = Cardinality(M(n))
      BY <2>4, <2>5, <3>1
    <3>3. M(n) = M(d)
      BY <1>1, <1>4, <3>2, FS_Subset
    <3>4. \A v : V(n, v) = V(d, v)
      BY <3>3 DEF Valued
    <3>5. q.stop /\ q.vec = s.vec
      BY <1>2, <2>1, <2>5, Zenon DEF q
    <3> QED BY <2>4, <3>4, <3>5, ZenonT(30) DEF ScanKnows, q
  <2>6. CASE Len(s.vec) # s.dup + 1
    <3>1. \A j \in 0..n - 1 : WayIn(n, k, j) < d => j \in UsedIn(b, n)
      BY <1>3, <1>10, <2>2 DEF ScanKnows
    <3> QED BY <1>2, <2>1, <2>4, <2>6, <3>1, ZenonT(30) DEF ScanKnows
  <2> QED BY <2>5, <2>6
<1> QED BY <1>6, <1>7, <1>8, <1>9, <1>10

\* The whole scan of a table: it stops, with the values of all the matches.
LEMMA ScanExact ==
  ASSUME NEW n \in BucketCounts, NEW b \in Table(n), NEW k \in Keys,
         ReachableIn(b, n), CountedIn(b, n), 2 * Cardinality(UsedIn(b, n)) <= n
  PROVE  /\ Scan(b, k).stop
         /\ \A v \in Values : TimesIn(Scan(b, k).vec, v) = Cardinality(Valued(b, n, k, n, v))
<1>1. n \in Nat \ {0} /\ Cardinality(UsedIn(b, n)) \in Nat /\ Home(k, n) \in 0..n - 1
  BY TableCount, HomeType
<1>2. PICK scan : IsScan(b, n, k, scan) /\ Scan(b, k) = scan[n]
  BY ScanDef
<1> DEFINE T == {d \in 0..n : ScanKnows(b, n, k, d, scan[d])}
<1>3. 0 \in T
  <2>1. scan[0].stop = FALSE /\ scan[0].vec = <<>> /\ scan[0].dup = 0 /\ 0 \in 0..n
    BY <1>1, <1>2 DEF IsScan, ScanStart
  <2>2. ASSUME NEW i \in 0..n - 1 PROVE ~(WayIn(n, k, i) < 0)
    BY <1>1, DistType DEF WayIn
  <2>3. Matches(b, n, k, 0) = {}
    BY <2>2 DEF Matches, UsedIn
  <2>4. \A v : Valued(b, n, k, 0, v) = {}
    BY <2>3 DEF Valued
  <2>5. \A v \in Values : TimesIn(<<>>, v) = 0
    BY TimesOne, Zenon
  <2>6. Len(<<>>) = 0
    OBVIOUS
  <2>7. ScanKnows(b, n, k, 0, scan[0])
    BY <2>1, <2>2, <2>3, <2>4, <2>5, <2>6, FS_EmptySet, ZenonT(30) DEF ScanKnows
  <2> QED BY <2>1, <2>7
<1>4. \A d \in 1..n : d - 1 \in T => d \in T
  <2>1. TAKE d \in 1..n
  <2>2. HAVE d - 1 \in T
  <2>3. /\ d \in 0..n /\ ScanKnows(b, n, k, d - 1, scan[d - 1])
        /\ scan[d - 1] \in ScanState
        /\ scan[d] = ScanNext(k, scan[d - 1], BucketAt(b, n, k, d))
    BY <1>1, <1>2, <2>2 DEF IsScan
  <2>4. ScanKnows(b, n, k, d, scan[d])
    BY <2>3, ScanStep
  <2> QED BY <2>3, <2>4
<1>5. ScanKnows(b, n, k, n, scan[n])
  <2>1. \A d \in 0..n : d \in T
    <3> HIDE DEF T
    <3> QED BY <1>1, <1>3, <1>4, UpTo
  <2>2. n \in 0..n
    BY <1>1
  <2> QED BY <2>1, <2>2
<1>6. scan[n].stop
  <2> SUFFICES ASSUME ~scan[n].stop PROVE FALSE
    OBVIOUS
  <2>1. ASSUME NEW i \in 0..n - 1 PROVE i \in UsedIn(b, n)
    <3>1. WayIn(n, k, i) < n
      BY <1>1, DistType DEF WayIn
    <3> QED BY <1>5, <3>1 DEF ScanKnows
  <2>2. UsedIn(b, n) = 0..n - 1
    BY <2>1 DEF UsedIn
  <2>3. Cardinality(0..n - 1) = n
    BY <1>1, FS_Interval
  <2> QED BY <1>1, <2>2, <2>3
<1> QED BY <1>2, <1>5, <1>6 DEF ScanKnows

\* What the scan returns, in terms of the properties.
LEMMA FindAllIn == IInv => FindAllExact
<1> SUFFICES ASSUME IInv, NEW k \in Keys
             PROVE  /\ Scan(buckets, k).stop
                    /\ \A v \in Values :
                         Cardinality({p \in DOMAIN FindAll(buckets, k) : FindAll(buckets, k)[p] = v}) =
                         Cardinality({i \in UsedBuckets : buckets[i].row = [key |-> k, val |-> v]})
  BY DEF FindAllExact
<1>1. PICK n \in BucketCounts :
        /\ buckets \in Table(n)
        /\ size = Cardinality(UsedIn(buckets, n)) /\ 2 * size <= n
        /\ ReachableIn(buckets, n) /\ CountedIn(buckets, n)
  BY IInvTable
<1>2. UsedBuckets = UsedIn(buckets, n) /\ n \in 0..n
  BY <1>1, TableCount DEF UsedBuckets, UsedIn
<1>3. /\ Scan(buckets, k).stop
      /\ \A v \in Values : TimesIn(Scan(buckets, k).vec, v) = Cardinality(Valued(buckets, n, k, n, v))
  BY <1>1, ScanExact
<1>4. ASSUME NEW v \in Values
      PROVE  Valued(buckets, n, k, n, v) = {i \in UsedBuckets : buckets[i].row = [key |-> k, val |-> v]}
  <2>1. Matches(buckets, n, k, n) = {i \in UsedIn(buckets, n) : buckets[i].row.key = k}
    BY <1>1, <1>2, MatchesType
  <2>2. \A i \in UsedIn(buckets, n) : buckets[i].row \in [key : Keys, val : Values]
    BY <1>1 DEF UsedIn, Used, Table, Row
  <2>3. \A i \in UsedIn(buckets, n) :
          buckets[i].row = [key |-> k, val |-> v] <=> buckets[i].row.key = k /\ buckets[i].row.val = v
    BY <2>2
  <2> QED BY <1>2, <2>1, <2>3 DEF Valued
<1> QED BY <1>3, <1>4, ZenonT(30) DEF FindAll, TimesIn, Positions

\* After every insertion, rehash and merge, findAll of a LinearProbeHashTable stops and
\* returns each value inserted with the key as often as the table holds it.
THEOREM FindAllCorrect == Spec => []FindAllExact
  BY FindAllIn, IInvHolds, PTL

-----------------------------------------------------------------------------
(* The chained table beside the linear one                                  *)

\* The number of buckets of the chained table, which never changes.
N == RoundUp(InitialCount)

\* The chain that has the rows with the key of r.
ChainOf(r) == chains[Home(r.key, N)]

\* The rows that the operation under way has still to place.
Pending(t) == Len(t) - TimesIn(t, NoRow)

\* The chained table has each row of the bag as often as the bag, and the rows the
\* linear table has still to place are what its size is behind.
BothInv ==
  /\ IInv
  /\ chains \in [0..N - 1 -> Seq(Row)]
  /\ \A r \in Row : Rows[r] = TimesIn(ChainOf(r), r)
  /\ chainedSize = size + Pending(todo)

-----------------------------------------------------------------------------
(* The chains                                                               *)

\* The number of buckets is one of the powers of two.
LEMMA NType == N \in BucketCounts /\ N \in Nat \ {0} /\ \A r \in Row : Home(r.key, N) \in 0..N - 1
<1>1. N \in BucketCounts
  BY RoundUpType, ProbeAssumption DEF N
<1> QED BY <1>1, ProbeAssumption DEF Row

\* A table of chains has as many buckets as it was made with.
LEMMA ChainedCount ==
  ASSUME NEW b, DOMAIN b = 0..N - 1
  PROVE  Chained!Count(b) = N
<1>1. Chained!Count(b) = Cardinality(DOMAIN b)
  BY Zenon DEF Chained!Count, Chained!Cardinality, Cardinality
<1>2. 0 \in Int /\ N - 1 \in Int
  BY NType
<1>3. Cardinality(0..N - 1) = N
  BY <1>2, NType, FS_Interval
<1> QED BY <1>1, <1>3

\* The definitions of the instance are those of the modules it shares.
LEMMA SharedDefinitions ==
  /\ Chained!Row = Row
  /\ \A s, S : Chained!Those(s, S) = Those(s, S)
<1>1. Chained!Row = Row
  BY DEF Chained!Row, Row
<1>2. \A s, S : Chained!Those(s, S) = Those(s, S)
  BY Zenon DEF Chained!Those, Those
<1> QED BY <1>1, <1>2

-----------------------------------------------------------------------------
(* The rows still to be placed                                              *)

\* The iterator passes the empty buckets of a table and its rows.
LEMMA EntriesEmpty ==
  ASSUME NEW n \in BucketCounts, NEW b \in Table(n)
  PROVE  Pending(Entries(b)) = Cardinality(UsedIn(b, n))
<1> DEFINE P == Positions(Entries(b), NoRow)
           U == UsedIn(b, n)
           F == (0..n - 1) \ U
<1>1. /\ n \in Nat /\ Count(b) = n /\ DOMAIN b = 0..n - 1
      /\ IsFiniteSet(U) /\ Cardinality(U) \in Nat
  BY TableCount
<1>2. /\ DOMAIN Entries(b) = 1..n /\ \A i \in 1..n : Entries(b)[i] = b[i - 1].row
      /\ Len(Entries(b)) = n
  <2>1. DOMAIN Entries(b) = 1..n /\ \A i \in 1..n : Entries(b)[i] = b[i - 1].row
    BY <1>1 DEF Entries
  <2>2. Entries(b) \in Seq(Row \cup {NoRow})
    BY EntriesType
  <2> QED BY <1>1, <2>1, <2>2
<1>3. /\ IsFiniteSet(0..n - 1) /\ Cardinality(0..n - 1) = n
  <2>1. 0 \in Int /\ n - 1 \in Int
    BY <1>1
  <2> QED BY <1>1, <2>1, FS_Interval
<1>4. IsFiniteSet(F) /\ Cardinality(F) = n - Cardinality(U)
  <2>1. IsFiniteSet(F)
    BY <1>3, FS_Subset, Zenon
  <2>2. F \cap U = {} /\ F \cup U = 0..n - 1
    BY DEF UsedIn
  <2> HIDE DEF F, U
  <2>3. Cardinality(F) \in Nat /\ Cardinality(F \cup U) = Cardinality(F) + Cardinality(U)
    BY <1>1, <2>1, <2>2, Disjoint, Zenon
  <2>4. Cardinality(F \cup U) = n /\ Cardinality(U) \in Nat
    BY <1>1, <1>3, <2>2, ZenonT(30)
  <2>5. Cardinality(F) = n - Cardinality(U)
    <3> DEFINE f == Cardinality(F)
               u == Cardinality(U)
    <3>1. f \in Nat /\ u \in Nat /\ n = f + u
      BY <2>3, <2>4
    <3> HIDE DEF f, u
    <3>2. f = n - u
      BY <3>1
    <3> QED BY <3>2 DEF f, u
  <2> QED BY <2>1, <2>5
<1>5. \A z : z \in P <=> \E i \in F : z = i + 1
  <2>1. ASSUME NEW z \in P PROVE \E i \in F : z = i + 1
    <3>1. z \in 1..n /\ b[z - 1].row = NoRow /\ z - 1 \in 0..n - 1 /\ z = (z - 1) + 1
      BY <1>1, <1>2 DEF Positions
    <3>2. z - 1 \in F
      BY <3>1 DEF UsedIn, Used
    <3> HIDE DEF F
    <3> QED BY <3>1, <3>2
  <2>2. ASSUME NEW i \in F PROVE i + 1 \in P
    <3>1. i \in 0..n - 1 /\ b[i].row = NoRow
      BY DEF UsedIn, Used
    <3>2. i + 1 \in 1..n /\ (i + 1) - 1 = i
      BY <1>1, <3>1
    <3> QED BY <1>2, <3>1, <3>2 DEF Positions
  <2> HIDE DEF P, F
  <2> QED BY <2>1, <2>2
<1>6. Cardinality(P) = Cardinality(F)
  <2>1. F \in SUBSET Int /\ 1 \in Int
    BY <1>1
  <2> HIDE DEF P, F
  <2> QED BY <1>4, <1>5, <2>1, Shifted, Zenon
<1> QED BY <1>1, <1>2, <1>4, <1>6 DEF Pending, TimesIn

\* A sequence of rows has no empty bucket.
LEMMA RowsPending ==
  ASSUME NEW rows \in Seq(Row)
  PROVE  Pending(rows) = Len(rows) /\ TimesIn(rows, NoRow) = 0
<1>1. Positions(rows, NoRow) = {}
  BY ProbeAssumption DEF Positions
<1>2. TimesIn(rows, NoRow) = 0
  BY <1>1, FS_EmptySet DEF TimesIn
<1> QED BY <1>2 DEF Pending

\* How many are to be placed of two sequences.
LEMMA PendingConcat ==
  ASSUME NEW s \in Seq(Entry), NEW t \in Seq(Entry)
  PROVE  Pending(s \o t) = Pending(s) + Pending(t)
<1>1. TimesIn(s \o t, NoRow) = TimesIn(s, NoRow) + TimesIn(t, NoRow)
  BY TimesConcat
<1>2. Len(s \o t) = Len(s) + Len(t) /\ Len(s) \in Nat /\ Len(t) \in Nat
  OBVIOUS
<1>3. TimesIn(s, NoRow) \in Nat /\ TimesIn(t, NoRow) \in Nat
  <2>1. DOMAIN s = 1..Len(s) /\ DOMAIN t = 1..Len(t)
    OBVIOUS
  <2> QED BY <1>2, <2>1, TimesType
<1> QED BY <1>1, <1>2, <1>3 DEF Pending

\* The size and the rows still to be placed grow by the rows an operation is given
\* when it begins, and stay what they are until it ends.
LEMMA PendingSteps ==
  ASSUME IInv
  PROVE  /\ \A r \in Row : Emplace(r) => size' + Pending(todo') = size + Pending(todo) + 1
         /\ \A rows \in Merges : MergeOthers(rows) =>
              size' + Pending(todo') = size + Pending(todo) + Len(rows)
         /\ Step \/ UNCHANGED vars => size' + Pending(todo') = size + Pending(todo)
<1> USE DEF Entry
<1>1. PICK n \in BucketCounts :
        buckets \in Table(n) /\ size = Cardinality(UsedIn(buckets, n))
  BY IInvTable
<1>2. size \in Nat /\ todo \in Seq(Entry) /\ Entries(buckets) \in Seq(Entry)
  BY <1>1, EntriesType, ProbeAssumption DEF IInv, TypeOK
<1>3. Pending(Entries(buckets)) = size
  BY <1>1, EntriesEmpty
<1>4. Pending(<<>>) = 0
  <2>1. <<>> \in Seq(Row) /\ Len(<<>>) = 0
    OBVIOUS
  <2> QED BY <2>1, RowsPending, Zenon
<1>5. ASSUME NEW t \in Seq(Entry) PROVE Pending(t) \in Int
  <2>1. Len(t) \in Nat /\ DOMAIN t = 1..Len(t)
    OBVIOUS
  <2> QED BY <2>1, TimesType DEF Pending
<1>6. ASSUME NEW r \in Row, Emplace(r) PROVE size' + Pending(todo') = size + Pending(todo) + 1
  <2>1. Pending(<<r>>) = 1
    <3>1. <<r>> \in Seq(Row) /\ Len(<<r>>) = 1
      OBVIOUS
    <3> QED BY <3>1, RowsPending, ZenonT(30)
  <2> QED BY <1>2, <1>4, <1>6, <2>1 DEF Emplace
<1>7. ASSUME NEW rows \in Merges, MergeOthers(rows)
      PROVE  size' + Pending(todo') = size + Pending(todo) + Len(rows)
  <2>1. rows \in Seq(Row) /\ rows \in Seq(Entry) /\ Len(rows) \in Nat
    BY ProbeAssumption
  <2>2. Pending(rows) = Len(rows)
    BY <2>1, RowsPending
  <2>3. Pending(Entries(buckets) \o rows) = size + Len(rows)
    BY <1>2, <1>3, <2>1, <2>2, PendingConcat
  <2> QED BY <1>2, <1>4, <1>7, <2>1, <2>3 DEF MergeOthers
<1>8. ASSUME Skip \/ Place PROVE Pending(todo) = Pending(Tail(todo)) + (IF Head(todo) = NoRow THEN 0 ELSE 1)
  <2>1. todo # <<>> /\ Tail(todo) \in Seq(Entry) /\ Len(todo) = Len(Tail(todo)) + 1
    BY <1>2, <1>8 DEF Skip, Place
  <2>2. TimesIn(todo, NoRow) = TimesIn(Tail(todo), NoRow) + (IF NoRow = Head(todo) THEN 1 ELSE 0)
    BY <1>2, <2>1, TimesTail
  <2>3. Len(Tail(todo)) \in Nat /\ DOMAIN Tail(todo) = 1..Len(Tail(todo))
    BY <2>1
  <2>4. TimesIn(Tail(todo), NoRow) \in Nat
    BY <2>3, TimesType, Zenon
  <2> QED BY <2>1, <2>2, <2>3, <2>4 DEF Pending
<1>9. ASSUME Skip PROVE size' + Pending(todo') = size + Pending(todo)
  <2>1. Tail(todo) \in Seq(Entry)
    BY <1>2, <1>9 DEF Skip
  <2>2. Pending(Tail(todo)) \in Int
    BY <1>5, <2>1, Zenon
  <2> QED BY <1>2, <1>8, <1>9, <2>2 DEF Skip
<1>10. ASSUME Grow PROVE size' + Pending(todo') = size + Pending(todo)
  <2>1. Pending(Entries(buckets) \o todo) = size + Pending(todo) /\ Pending(todo) \in Int
    BY <1>2, <1>3, <1>5, PendingConcat
  <2> QED BY <1>2, <1>10, <2>1 DEF Grow
<1>11. ASSUME Place PROVE size' + Pending(todo') = size + Pending(todo)
  <2>1. Tail(todo) \in Seq(Entry)
    BY <1>2, <1>11 DEF Place
  <2>2. Pending(Tail(todo)) \in Int
    BY <1>5, <2>1, Zenon
  <2> QED BY <1>2, <1>8, <1>11, <2>2 DEF Place
<1>12. ASSUME UNCHANGED vars PROVE size' + Pending(todo') = size + Pending(todo)
  BY <1>12 DEF vars
<1> QED BY <1>6, <1>7, <1>9, <1>10, <1>11, <1>12 DEF Step

\* The bag of rows counts.
LEMMA RowsType ==
  ASSUME IInv
  PROVE  \A r \in Row : Rows[r] \in Nat
<1>1. PICK n \in BucketCounts : buckets \in Table(n)
  BY IInvTable
<1>2. Rows = RowsOf(buckets, n, todo)
  BY <1>1, RowsIn
<1>3. Len(todo) \in Nat /\ DOMAIN todo = 1..Len(todo)
  BY DEF IInv, TypeOK
<1>4. ASSUME NEW r \in Row PROVE Cardinality(HeldIn(buckets, n, r)) \in Nat /\ TimesIn(todo, r) \in Nat
  BY <1>1, <1>3, HeldType, TimesType
<1> QED BY <1>2, <1>4 DEF RowsOf

-----------------------------------------------------------------------------
(* The chained table                                                        *)

\* An insertion adds its row to the chain of its key.
LEMMA EmplaceChain ==
  ASSUME BothInv, NEW e \in Row, Chained!Emplace(e)
  PROVE  /\ chains' \in [0..N - 1 -> Seq(Row)]
         /\ chainedSize' = chainedSize + 1
         /\ \A r \in Row : TimesIn(ChainOf(r)', r) = TimesIn(ChainOf(r), r) + (IF r = e THEN 1 ELSE 0)
<1> DEFINE h == Home(e.key, N)
<1>1. /\ chains \in [0..N - 1 -> Seq(Row)] /\ h \in 0..N - 1
      /\ \A r \in Row : Home(r.key, N) \in 0..N - 1
  BY NType DEF BothInv
<1>2. Chained!Count(chains) = N
  BY <1>1, ChainedCount
<1>3. chains' = [chains EXCEPT ![h] = Append(@, e)] /\ chainedSize' = chainedSize + 1
  BY <1>2 DEF Chained!Emplace
<1>4. /\ chains' \in [0..N - 1 -> Seq(Row)]
      /\ chains'[h] = Append(chains[h], e)
      /\ \A i \in 0..N - 1 : i # h => chains'[i] = chains[i]
  <2>1. chains[h] \in Seq(Row) /\ Append(chains[h], e) \in Seq(Row)
    BY <1>1
  <2> HIDE DEF h
  <2> QED BY <1>1, <1>3, <2>1
<1>5. ASSUME NEW r \in Row
      PROVE  TimesIn(chains'[Home(r.key, N)], r) = TimesIn(chains[Home(r.key, N)], r) + (IF r = e THEN 1 ELSE 0)
  <2> DEFINE c == chains[Home(r.key, N)]
  <2>0. c \in Seq(Row) /\ Len(c) \in Nat /\ DOMAIN c = 1..Len(c)
    BY <1>1
  <2>1. TimesIn(c, r) \in Nat
    <3> HIDE DEF c
    <3> QED BY <2>0, TimesType
  <2>2. CASE Home(r.key, N) = h
    <3> DEFINE u == Append(c, e)
               m == Len(c)
    <3>1. /\ m \in Nat /\ DOMAIN c = 1..m /\ DOMAIN u = 1..(m + 1)
          /\ u[m + 1] = e /\ \A j \in 1..m : u[j] = c[j]
      <4> HIDE DEF c
      <4> QED BY <2>0
    <3>2. chains'[Home(r.key, N)] = u
      BY <1>4, <2>2
    <3> HIDE DEF c, u, m
    <3>3. TimesIn(u, r) = TimesIn(c, r) + (IF r = u[m + 1] THEN 1 ELSE 0)
      BY <3>1, TimesMore
    <3> QED BY <3>1, <3>2, <3>3 DEF c
  <2>3. CASE Home(r.key, N) # h
    <3>1. chains'[Home(r.key, N)] = c /\ r # e
      BY <1>1, <1>4, <2>3
    <3> HIDE DEF h
    <3> QED BY <2>1, <3>1
  <2> QED BY <2>2, <2>3
<1> QED BY <1>3, <1>4, <1>5 DEF ChainOf

\* A merge appends to each chain the rows of the others that belong to it: those with
\* the key of r are in the chain of r, as often as they were delivered.
LEMMA MergeChains ==
  ASSUME BothInv, NEW rows \in Merges, Chained!MergeOthers(rows)
  PROVE  /\ chains' \in [0..N - 1 -> Seq(Row)]
         /\ chainedSize' = chainedSize + Len(rows)
         /\ \A r \in Row : TimesIn(ChainOf(r)', r) = TimesIn(ChainOf(r), r) + TimesIn(rows, r)
<1> DEFINE S(i) == {r \in Row : Home(r.key, N) = i}
<1>1. /\ chains \in [0..N - 1 -> Seq(Row)] /\ rows \in Seq(Row)
      /\ \A r \in Row : Home(r.key, N) \in 0..N - 1
  BY NType, ProbeAssumption DEF BothInv
<1>2. \A i : Chained!Chain(rows, N, i) = Those(rows, S(i))
  BY SharedDefinitions DEF Chained!Chain
<1>3. /\ chains' = [i \in 0..N - 1 |-> chains[i] \o Those(rows, S(i))]
      /\ chainedSize' = chainedSize + Len(rows)
  BY <1>1, <1>2, Zenon DEF Chained!MergeOthers, N
<1>4. ASSUME NEW i \in 0..N - 1 PROVE Those(rows, S(i)) \in Seq(Row) /\ chains[i] \in Seq(Row)
  BY <1>1, ThoseType, Zenon
<1>5. chains' \in [0..N - 1 -> Seq(Row)]
  <2> HIDE DEF S
  <2>1. ASSUME NEW i \in 0..N - 1 PROVE chains[i] \o Those(rows, S(i)) \in Seq(Row)
    BY <1>4
  <2> QED BY <1>3, <2>1
<1>6. ASSUME NEW r \in Row
      PROVE  TimesIn(chains'[Home(r.key, N)], r) = TimesIn(chains[Home(r.key, N)], r) + TimesIn(rows, r)
  <2> DEFINE i == Home(r.key, N)
             c == chains[i]
             t == Those(rows, S(i))
  <2>1. i \in 0..N - 1 /\ c \in Seq(Row) /\ t \in Seq(Row) /\ r \in S(i)
    BY <1>1, <1>4
  <2>2. chains'[i] = c \o t
    BY <1>3, <2>1
  <2>3. TimesIn(t, r) = TimesIn(rows, r)
    BY <1>1, <2>1, TimesThose
  <2> HIDE DEF c, t
  <2>4. c \in Seq(Entry) /\ t \in Seq(Entry)
    BY <2>1 DEF Entry
  <2>5. TimesIn(c \o t, r) = TimesIn(c, r) + TimesIn(t, r)
    BY <2>4, TimesConcat
  <2> QED BY <2>2, <2>3, <2>5 DEF c
<1> QED BY <1>3, <1>5, <1>6, Zenon DEF ChainOf

-----------------------------------------------------------------------------
(* Both tables                                                              *)

\* Two new tables have no rows.
LEMMA BothInit == InitBoth => BothInv
<1> SUFFICES ASSUME InitBoth PROVE BothInv
  OBVIOUS
<1>1. IInv
  BY IInvInit DEF InitBoth
<1>2. /\ buckets = EmptyTable(N) /\ size = 0 /\ todo = <<>>
      /\ chains = [i \in 0..N - 1 |-> <<>>] /\ chainedSize = 0
  BY DEF InitBoth, Init, Chained!Init, Chained!EmptyTable, N
<1>3. Rows = RowsOf(buckets, N, todo)
  BY <1>2, NType, EmptySound, RowsIn
<1>4. \A r \in Row : Cardinality(HeldIn(buckets, N, r)) = 0 /\ TimesIn(<<>>, r) = 0
  BY <1>2, NType, HeldEmpty, TimesOne
<1>5. \A r \in Row : Rows[r] = TimesIn(ChainOf(r), r)
  BY <1>2, <1>3, <1>4, NType DEF RowsOf, ChainOf
<1>6. Pending(<<>>) = 0
  <2>1. <<>> \in Seq(Row) /\ Len(<<>>) = 0
    OBVIOUS
  <2> QED BY <2>1, RowsPending, Zenon
<1>7. chains \in [0..N - 1 -> Seq(Row)]
  BY <1>2
<1> QED BY <1>1, <1>2, <1>5, <1>6, <1>7 DEF BothInv

\* Every step preserves the invariant: both tables are given the same rows.
LEMMA BothNext == BothInv /\ [NextBoth]_both => BothInv'
<1> SUFFICES ASSUME BothInv, [NextBoth]_both PROVE BothInv'
  OBVIOUS
<1>1. /\ IInv /\ chains \in [0..N - 1 -> Seq(Row)]
      /\ \A r \in Row : Rows[r] = TimesIn(ChainOf(r), r)
      /\ chainedSize = size + Pending(todo)
  BY DEF BothInv
<1>2. IInv'
  BY <1>1, IInvNext DEF NextBoth, both, Next
<1>3. ASSUME NEW e \in Row, Emplace(e), Chained!Emplace(e) PROVE BothInv'
  <2>1. Rows' = [Rows EXCEPT ![e] = @ + 1]
    BY <1>1, <1>3, RowsSteps DEF Multimap!Emplace
  <2>2. DOMAIN Rows = Row
    BY DEF Rows
  <2>3. \A r \in Row : Rows'[r] = Rows[r] + (IF r = e THEN 1 ELSE 0)
    <3>1. \A r \in Row : Rows[r] \in Nat
      BY <1>1, RowsType
    <3> QED BY <2>1, <2>2, <3>1
  <2>4. size' + Pending(todo') = chainedSize + 1
    BY <1>1, <1>3, PendingSteps
  <2> QED BY <1>1, <1>2, <1>3, <2>3, <2>4, EmplaceChain DEF BothInv
<1>4. ASSUME NEW rows \in Merges, MergeOthers(rows), Chained!MergeOthers(rows) PROVE BothInv'
  <2>1. \A r \in Row : Rows'[r] = Rows[r] + TimesIn(rows, r)
    <3>1. Multimap!MergeOthers(rows)
      BY <1>1, <1>4, RowsSteps
    <3>2. \A r \in Row : Multimap!Occurrences(rows, r) = TimesIn(rows, r)
      BY Zenon DEF Multimap!Occurrences, Multimap!Cardinality, Cardinality, TimesIn, Positions
    <3> QED BY <3>1, <3>2 DEF Multimap!MergeOthers
  <2>2. size' + Pending(todo') = chainedSize + Len(rows)
    BY <1>1, <1>4, PendingSteps
  <2> QED BY <1>1, <1>2, <1>4, <2>1, <2>2, MergeChains DEF BothInv
<1>5. ASSUME Step \/ UNCHANGED vars, UNCHANGED <<chains, chainedSize>> PROVE BothInv'
  <2>1. Rows' = Rows
    BY <1>1, <1>5, RowsSteps
  <2>2. size' + Pending(todo') = size + Pending(todo)
    BY <1>1, <1>5, PendingSteps
  <2> QED BY <1>1, <1>2, <1>5, <2>1, <2>2 DEF BothInv, ChainOf
<1> QED BY <1>3, <1>4, <1>5 DEF NextBoth, both

\* Between two operations the invariant says that the answers are the same.
LEMMA InvAnswers == BothInv => SameAnswers
<1> SUFFICES ASSUME BothInv, todo = <<>> PROVE SameAnswers
  BY DEF SameAnswers
<1>1. /\ IInv /\ chains \in [0..N - 1 -> Seq(Row)] /\ FindAllExact
      /\ \A r \in Row : Rows[r] = TimesIn(ChainOf(r), r)
      /\ chainedSize = size + Pending(todo) /\ size \in Nat
  BY FindAllIn, ProbeAssumption DEF BothInv, IInv, TypeOK
<1>2. size = chainedSize
  <2>1. <<>> \in Seq(Row) /\ Len(<<>>) = 0
    OBVIOUS
  <2>2. Pending(<<>>) = 0
    BY <2>1, RowsPending, ZenonT(30)
  <2> QED BY <1>1, <2>2
<1>3. ASSUME NEW k \in Keys, NEW v \in Values
      PROVE  Times(FindAll(buckets, k), v) = Times(Chained!FindAll(k), [key |-> k, val |-> v])
  <2> DEFINE r == [key |-> k, val |-> v]
             c == chains[Home(k, N)]
             S == {x \in Row : x.key = k}
  <2>1. r \in Row /\ r.key = k /\ r \in S
    BY DEF Row
  <2>2. Times(FindAll(buckets, k), v) = Cardinality({i \in UsedBuckets : buckets[i].row = r})
    BY <1>1 DEF FindAllExact, Times
  <2>3. Rows[r] = Cardinality({i \in UsedBuckets : buckets[i].row = r})
    <3> DEFINE A == {i \in UsedBuckets : buckets[i].row = r}
    <3>1. Rows[r] = Cardinality(A) + TimesIn(<<>>, r)
      BY <2>1, Zenon DEF Rows, TimesIn, Positions
    <3>2. TimesIn(<<>>, r) = 0
      BY TimesOne, Zenon
    <3>3. Cardinality(A) \in Nat
      <4>1. PICK n \in BucketCounts : buckets \in Table(n)
        BY <1>1, IInvTable
      <4>2. A = HeldIn(buckets, n, r)
        BY <4>1, TableCount, Zenon DEF HeldIn, UsedIn, UsedBuckets
      <4> QED BY <2>1, <4>1, <4>2, HeldType, Zenon
    <3> HIDE DEF A
    <3>4. Rows[r] = Cardinality(A)
      BY <3>1, <3>2, <3>3
    <3> QED BY <3>4 DEF A
  <2>4. Rows[r] = TimesIn(c, r)
    BY <1>1, <2>1 DEF ChainOf
  <2>5. Chained!FindAll(k) = Those(c, S)
    <3>1. Chained!Count(chains) = N
      BY <1>1, ChainedCount
    <3> QED BY <3>1, SharedDefinitions DEF Chained!FindAll
  <2>6. c \in Seq(Row)
    BY <1>1, <2>1, NType
  <2>7. TimesIn(Those(c, S), r) = TimesIn(c, r)
    <3> HIDE DEF r, c, S
    <3> QED BY <2>1, <2>6, TimesThose
  <2> QED BY <2>2, <2>3, <2>4, <2>5, <2>7, ZenonT(30) DEF Times, TimesIn, Positions
<1> QED BY <1>2, <1>3, ZenonT(30) DEF SameAnswers

-----------------------------------------------------------------------------
(* The theorem                                                              *)

\* Whatever rows are inserted and merged, and however the hash function places them:
\* findAll of the linear and of the chained table return the same values, each as
\* often, and the tables have the same size.
THEOREM TablesAgree == BothSpec => []SameAnswers
  BY BothInit, BothNext, InvAnswers, PTL DEF BothSpec

=============================================================================
