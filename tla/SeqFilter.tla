------------------------------ MODULE SeqFilter ------------------------------
(***************************************************************************)
(* The elements of a sequence that are in a set: the SelectSeq of          *)
(* Sequences for a test of membership, as a recursive function, which is a *)
(* definition that proofs can unfold.                                      *)
(***************************************************************************)
EXTENDS Integers, Sequences

\* The elements of s that are in S, in their order; kept[i] are those of the first i.
Those(s, S) ==
  LET kept[i \in 0..Len(s)] ==
        IF i = 0 THEN <<>>
        ELSE IF s[i] \in S THEN Append(kept[i - 1], s[i])
        ELSE kept[i - 1]
  IN  kept[Len(s)]
=============================================================================
