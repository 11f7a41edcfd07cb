---------------------------- MODULE ChainedTable ----------------------------
(***************************************************************************)
(* ChainedHashTable, the join hash table that keeps a list of rows in each *)
(* bucket.  Its operations take one step each; merge_other_hashtables      *)
(* appends bucket i of another table to bucket i of its own.               *)
(***************************************************************************)
EXTENDS Integers, Sequences, FiniteSets, SeqFilter

CONSTANTS
  Keys, Values,
  Home(_, _),     \* Home(k, n): the hash of k & (n - 1)
  InitialCount,   \* the buckets every table is created with, a power of two
  Merges,         \* the rows that were inserted into another table
  MaxRows         \* bound: rows in the table

Row == [key : Keys, val : Values]

VARIABLES buckets, size   \* buckets_ and size_

vars == <<buckets, size>>

Count(b) == Cardinality(DOMAIN b)
EmptyTable(n) == [i \in 0..n - 1 |-> <<>>]

\* The rows of bucket i of a table of n buckets into which rows were inserted.
Chain(rows, n, i) == Those(rows, {r \in Row : Home(r.key, n) = i})

Init ==
  /\ buckets = EmptyTable(InitialCount)
  /\ size = 0

Emplace(r) ==
  LET h == Home(r.key, Count(buckets))
  IN  /\ size < MaxRows
      /\ buckets' = [buckets EXCEPT ![h] = Append(@, r)]
      /\ size' = size + 1

\* Mutant: the rows of the other table go to the bucket after theirs.
MergeOthersShifted(rows) ==
  LET n == Count(buckets)
  IN  /\ size + Len(rows) <= MaxRows
      /\ buckets' = [i \in DOMAIN buckets |-> buckets[i] \o Chain(rows, n, (i + 1) % n)]
      /\ size' = size + Len(rows)

\* The other table has as many buckets as this one had when it was created.
MergeOthers(rows) ==
  /\ size + Len(rows) <= MaxRows
  /\ buckets' = [i \in DOMAIN buckets |-> buckets[i] \o Chain(rows, InitialCount, i)]
  /\ size' = size + Len(rows)

Next == (\E r \in Row : Emplace(r)) \/ (\E rows \in Merges : MergeOthers(rows))
Spec == Init /\ [][Next]_vars

\* find_all_impl: the rows with the key in its bucket, in the order of insertion.
FindAll(k) == Those(buckets[Home(k, Count(buckets))], {r \in Row : r.key = k})
=============================================================================
