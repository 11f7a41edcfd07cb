---------------------------- MODULE MCAggHashTable ----------------------------
(* An instance of AggHashTable: short batches over two narrow key columns.    *)
EXTENDS AggHashTable

MinusTwo == -2

\* A hash with collisions, near the end of the buffer.
MCDirectHash ==
  [k \in Keys |-> EntryLimit - 3 + (IF k[1] = Null THEN 1 ELSE (k[1] - TypeMin) \div 2)]

\* A row without a join, a row the filter drops, and a row with two matches.
R(v, w) == <<<<v, w>>>>
Dropped == <<>>
J(v, w) == <<<<v, 0>>, <<w, 0>>>>

AllOf(w) == <<R(-2, w), R(-1, w), R(0, w), R(1, w), R(2, w), R(3, w), R(Null, w)>>

\* Batches that widen the ranges a little or at once, in one column or in both, at
\* either end, with nulls, repeated keys, filtered rows and rows of two matches, and
\* that together have more keys than fit.
MCInputs ==
  {<<r>> : r \in {R(0, 0), R(3, 0), R(Null, 0), R(0, 1), R(Null, Null), Dropped, J(0, 1)}}
  \cup
  {<<R(-2, 0), R(1, 0)>>, <<R(3, 0), R(0, 0)>>, <<R(1, 0), R(0, 1), R(1, 0)>>,
   <<R(2, 0), Dropped, R(-1, 1)>>, <<R(Null, 1), R(3, 0), R(-2, 0)>>,
   <<J(2, 0), J(0, 2), R(1, 0)>>, AllOf(0), AllOf(1)}
=============================================================================
