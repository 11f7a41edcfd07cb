---------------------------- MODULE JoinMultimap ----------------------------
(***************************************************************************)
(* What a join hash table promises: a bag of build rows.  BaseHashTable's  *)
(* emplace adds a row, also one that is there already, and                 *)
(* merge_other_hashtables adds the rows of other tables; nothing else      *)
(* changes what findAll can return.                                        *)
(***************************************************************************)
EXTENDS Integers, Sequences, FiniteSets

CONSTANTS
  Row,     \* the rows: [key : Keys, val : Values]
  Merges   \* the sequences of rows other tables deliver

VARIABLE rows   \* how often each row was inserted

Occurrences(s, r) == Cardinality({i \in DOMAIN s : s[i] = r})

Emplace(r) == rows' = [rows EXCEPT ![r] = @ + 1]
MergeOthers(s) == rows' = [r \in Row |-> rows[r] + Occurrences(s, r)]

Init == rows = [r \in Row |-> 0]
Next == (\E r \in Row : Emplace(r)) \/ (\E s \in Merges : MergeOthers(s))
Spec == Init /\ [][Next]_rows

=============================================================================
