----------------------------- MODULE LinearProbe -----------------------------
(***************************************************************************)
(* LinearProbeHashTable, the join hash table with open addressing that     *)
(* keeps duplicate keys.                                                   *)
(*                                                                         *)
(* An insertion that needs room first copies the whole table into a larger *)
(* one, and the merge of other tables does so before it inserts theirs.    *)
(* Each placement of a row is a step here: todo holds what is still to be  *)
(* iterated over, and growing puts the old table in front of it.           *)
(* Between two operations todo is empty, and only then is the table read.  *)
(***************************************************************************)
EXTENDS Integers, Sequences, FiniteSets

CONSTANTS
  Keys, Values,
  NoRow,          \* an empty bucket
  Home(_, _),     \* Home(k, n): the hash of k, masked for n buckets
  BucketCounts,   \* the powers of two a table can have as its size
  InitialCount,   \* the bucket_count it is created with
  Merges,         \* the rows other tables deliver to a merge
  MaxRows         \* bound: rows in the table

Row == [key : Keys, val : Values]

ASSUME ProbeAssumption ==
  /\ NoRow \notin Row
  /\ BucketCounts \subseteq Nat \ {0}
  /\ \A k \in Keys : \A n \in BucketCounts : Home(k, n) \in 0..n - 1
  /\ MaxRows \in Nat \ {0} /\ InitialCount \in 0..2 * MaxRows
  /\ Merges \subseteq Seq(Row)
  /\ \A c \in 0..2 * MaxRows : \E n \in BucketCounts :
       c <= n /\ \A m \in BucketCounts : c <= m => n <= m

VARIABLES
  buckets,   \* buckets_: from 0..n-1 to the row and its duplicate_num
  size,      \* size_
  todo       \* the buckets and rows the operation under way has still to insert

vars == <<buckets, size, todo>>

\* Mutant: the size asked for, not the next power of two.
RoundUpNot(count) == IF count = 0 THEN 1 ELSE count

\* The constructor's size: the smallest power of two not below count.
RoundUp(count) ==
  CHOOSE n \in BucketCounts : count <= n /\ \A m \in BucketCounts : count <= m => n <= m

Count(b) == Cardinality(DOMAIN b)
EmptyTable(n) == [i \in 0..n - 1 |-> [row |-> NoRow, dup |-> 0]]
Used(b, i) == b[i].row # NoRow

\* How many times probe_next leads from bucket h to bucket i of n.
Dist(n, h, i) == IF h <= i THEN i - h ELSE n - h + i

\* What the iterator of a table passes, the empty buckets included.
Entries(b) == [i \in 1..Count(b) |-> b[i - 1].row]

\* The bucket at which the probe for row r ends.
Slot(b, r) ==
  LET n == Count(b)
      h == Home(r.key, n)
  IN  CHOOSE i \in DOMAIN b :
        /\ ~Used(b, i)
        /\ \A j \in DOMAIN b : Dist(n, h, j) < Dist(n, h, i) => Used(b, j)

\* Mutant: every row the probe passes counts a duplicate, whatever its key.
PlacedAnyKey(b, r) ==
  LET n == Count(b)
      h == Home(r.key, n)
      i == Slot(b, r)
  IN  [j \in DOMAIN b |->
         IF j = i THEN [row |-> r, dup |-> 0]
         ELSE IF Used(b, j) /\ Dist(n, h, j) < Dist(n, h, i) THEN [b[j] EXCEPT !.dup = @ + 1]
         ELSE b[j]]

\* emplace_impl once there is room: the buckets of the same key that the probe
\* passes count one more duplicate.
Placed(b, r) ==
  LET n == Count(b)
      h == Home(r.key, n)
      i == Slot(b, r)
      passed(j) == /\ Dist(n, h, j) < Dist(n, h, i)
                   /\ b[j].row.key = r.key
  IN  [j \in DOMAIN b |->
         IF j = i THEN [row |-> r, dup |-> 0]
         ELSE IF Used(b, j) /\ passed(j) THEN [b[j] EXCEPT !.dup = @ + 1]
         ELSE b[j]]

\* Mutant: the row about to be inserted is not counted.
HasRoomLate == 2 * size <= Count(buckets) /\ size < Count(buckets)

HasRoom == 2 * (size + 1) <= Count(buckets)

Init ==
  /\ buckets = EmptyTable(RoundUp(InitialCount))
  /\ size = 0
  /\ todo = <<>>

\* emplace, up to its reserve.
Emplace(r) ==
  /\ todo = <<>> /\ size < MaxRows
  /\ todo' = <<r>>
  /\ UNCHANGED <<buckets, size>>

\* Mutant: the rows of the table itself are not carried over.
MergeOthersOnly(rows) ==
  /\ todo = <<>> /\ size + Len(rows) <= MaxRows
  /\ buckets' = EmptyTable(RoundUp(Len(rows)))
  /\ size' = 0
  /\ todo' = rows

\* merge_other_hashtables: rehash(total_size), then insert the rows of the others.
MergeOthers(rows) ==
  /\ todo = <<>> /\ size + Len(rows) <= MaxRows
  /\ buckets' = EmptyTable(RoundUp(Len(rows)))
  /\ size' = 0
  /\ todo' = Entries(buckets) \o rows

\* The iterator advances past an empty bucket.
Skip ==
  /\ todo # <<>> /\ Head(todo) = NoRow
  /\ todo' = Tail(todo)
  /\ UNCHANGED <<buckets, size>>

\* Mutant: the buckets are resized and the rows stay where they are.
GrowInPlace ==
  /\ todo # <<>> /\ Head(todo) # NoRow /\ size < MaxRows
  /\ ~HasRoom
  /\ buckets' = [i \in 0..RoundUp(2 * (size + 1)) - 1 |->
                   IF i \in DOMAIN buckets THEN buckets[i] ELSE [row |-> NoRow, dup |-> 0]]
  /\ UNCHANGED <<size, todo>>

\* Mutant: the new size does not count the row to be inserted.
GrowShort ==
  /\ todo # <<>> /\ Head(todo) # NoRow /\ size < MaxRows
  /\ ~HasRoom
  /\ buckets' = EmptyTable(RoundUp(2 * size))
  /\ size' = 0
  /\ todo' = Entries(buckets) \o todo

\* reserve finds the table too small and rehashes.
Grow ==
  /\ todo # <<>> /\ Head(todo) # NoRow /\ size < MaxRows
  /\ ~HasRoom
  /\ buckets' = EmptyTable(RoundUp(2 * (size + 1)))
  /\ size' = 0
  /\ todo' = Entries(buckets) \o todo

Place ==
  /\ todo # <<>> /\ Head(todo) # NoRow /\ size < MaxRows
  /\ HasRoom
  /\ buckets' = Placed(buckets, Head(todo))
  /\ size' = size + 1
  /\ todo' = Tail(todo)

Step == Skip \/ Grow \/ Place

Next ==
  \/ \E r \in Row : Emplace(r)
  \/ \E rows \in Merges : MergeOthers(rows)
  \/ Step

Spec == Init /\ [][Next]_vars

-----------------------------------------------------------------------------
(* find_all_impl: what is known after d buckets of the probe sequence.      *)

At(n, h, d) == IF h + d < n THEN h + d ELSE h + d - n

\* Mutant: the scan stops one duplicate early.
ScanShort(b, k) ==
  LET n == Count(b)
      bucket(d) == b[At(n, Home(k, n), d - 1)]
      next(s, e) ==
        IF s.stop THEN s
        ELSE IF e.row = NoRow \/ (s.vec # <<>> /\ Len(s.vec) = s.dup) THEN [s EXCEPT !.stop = TRUE]
        ELSE IF e.row.key = k
          THEN LET dup == IF s.vec = <<>> THEN e.dup ELSE s.dup
               IN  [vec |-> Append(s.vec, e.row.val), dup |-> dup, stop |-> dup = 0]
        ELSE s
      scan[d \in 0..n] ==
        IF d = 0 THEN [vec |-> <<>>, dup |-> 0, stop |-> FALSE]
        ELSE next(scan[d - 1], bucket(d))
  IN  scan[n]

Scan(b, k) ==
  LET n == Count(b)
      bucket(d) == b[At(n, Home(k, n), d - 1)]
      next(s, e) ==
        IF s.stop THEN s
        ELSE IF e.row = NoRow THEN [s EXCEPT !.stop = TRUE]
        ELSE IF e.row.key = k
          THEN LET dup == IF s.vec = <<>> THEN e.dup ELSE s.dup
               IN  [vec |-> Append(s.vec, e.row.val), dup |-> dup, stop |-> dup = 0]
        ELSE [s EXCEPT !.stop = Len(s.vec) = s.dup + 1]
      scan[d \in 0..n] ==
        IF d = 0 THEN [vec |-> <<>>, dup |-> 0, stop |-> FALSE]
        ELSE next(scan[d - 1], bucket(d))
  IN  scan[n]

FindAll(b, k) == Scan(b, k).vec

-----------------------------------------------------------------------------
(* Properties                                                               *)

\* The types; a table in use never has fewer buckets than one.
TypeOK ==
  /\ \E n \in BucketCounts :
       buckets \in [0..n - 1 -> [row : Row \cup {NoRow}, dup : Nat]]
  /\ size \in 0..MaxRows
  /\ todo \in Seq(Row \cup {NoRow})

UsedBuckets == {i \in DOMAIN buckets : Used(buckets, i)}
Way(k, i) == Dist(Count(buckets), Home(k, Count(buckets)), i)

\* size_ counts the rows, and the load factor never exceeds one half ("Maximum load
\* factor hard coded to 50%"), so that every probe meets an empty bucket.
HalfFull ==
  /\ size = Cardinality(UsedBuckets)
  /\ 2 * size <= Count(buckets)

\* No empty bucket lies between the home of a key and a row with that key, so a
\* probe for it does not stop too early.
Reachable ==
  \A i \in UsedBuckets : \A j \in DOMAIN buckets :
    Way(buckets[i].row.key, j) < Way(buckets[i].row.key, i) => j \in UsedBuckets

\* duplicate_num is the number of rows with the same key further along the probe:
\* find_all_impl takes it from the first match to know when it has them all.
DuplicatesCounted ==
  \A i \in UsedBuckets :
    buckets[i].dup = Cardinality({j \in UsedBuckets :
      /\ buckets[j].row.key = buckets[i].row.key
      /\ Way(buckets[i].row.key, j) > Way(buckets[i].row.key, i)})

\* findAll stops, and returns every value inserted with the key as often as it is in
\* the table, and nothing else.
FindAllExact ==
  todo = <<>> =>
    \A k \in Keys :
      /\ Scan(buckets, k).stop
      /\ \A v \in Values :
           LET found == FindAll(buckets, k)
           IN  Cardinality({p \in DOMAIN found : found[p] = v}) =
               Cardinality({i \in UsedBuckets : buckets[i].row = [key |-> k, val |-> v]})

\* No row is lost or doubled by an insertion, a rehash or a merge: with the rows on
\* their way, the table is the bag of rows JoinMultimap says.
Rows == [r \in Row |-> Cardinality({i \in UsedBuckets : buckets[i].row = r})
                       + Cardinality({p \in DOMAIN todo : todo[p] = r})]
Multimap == INSTANCE JoinMultimap WITH rows <- Rows
KeepsRows == Multimap!Spec

\* An insertion ends: growing never leads to growing for ever.
Drains == todo # <<>> ~> todo = <<>>

=============================================================================
