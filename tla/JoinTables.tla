----------------------------- MODULE JoinTables -----------------------------
(***************************************************************************)
(* JoinHashTable, which passes each call on to the linear or the chained   *)
(* table by its type: here both are given the same calls.  An operation of *)
(* the chained table takes one step, with the first step of the linear one.*)
(***************************************************************************)
EXTENDS LinearProbe

VARIABLES chains, chainedSize   \* buckets_ and size_ of the chained table

\* Both constructors round the bucket_count they are given up to a power of two.
Chained == INSTANCE ChainedTable WITH
             buckets <- chains, size <- chainedSize, InitialCount <- RoundUp(InitialCount)

both == <<vars, chains, chainedSize>>

InitBoth == Init /\ Chained!Init

NextBoth ==
  \/ \E r \in Row : Emplace(r) /\ Chained!Emplace(r)
  \/ \E rows \in Merges : MergeOthers(rows) /\ Chained!MergeOthers(rows)
  \/ Step /\ UNCHANGED <<chains, chainedSize>>

BothSpec == InitBoth /\ [][NextBoth]_both /\ WF_both(Step /\ UNCHANGED <<chains, chainedSize>>)

Times(s, v) == Cardinality({p \in DOMAIN s : s[p] = v})

\* findAll of either table returns the same values, each as often, and both have the
\* same size: the type a JoinHashTable is made with does not change what a join finds.
SameAnswers ==
  todo = <<>> =>
    /\ size = chainedSize
    /\ \A k \in Keys : \A v \in Values :
         Times(FindAll(buckets, k), v) = Times(Chained!FindAll(k), [key |-> k, val |-> v])

=============================================================================
