----------------------------- MODULE StringLike -----------------------------
(***************************************************************************)
(* string_like of cider/function/string: SQL LIKE with %, _, a class of    *)
(* characters [..] and an escape character, and what it is to compute.     *)
(* A string and a pattern are sequences of characters, a character is a    *)
(* positive number, and the special ones are named here.                   *)
(***************************************************************************)
EXTENDS Integers, Sequences, SequencesExt

Percent == 91
Underscore == 92
Open == 93
Close == 94
Escape == 95

DropFirst(s, n) == SubSeq(s, n + 1, Len(s))

\* The place of the first ] of pattern p, or 0.
ClassEnd(p) == SelectInSeq(p, LAMBDA c : c = Close)

\* The characters of the class pattern p begins with: up to its ], if it has one.
ClassChars(p) ==
    {p[k] : k \in 2..(IF ClassEnd(p) = 0 THEN Len(p) ELSE ClassEnd(p) - 1)}

\* The % and _ that follow a %.
WildcardRun(p) ==
    LET others == {k \in 1..Len(p) : p[k] \notin {Percent, Underscore}}
    IN IF others = {} THEN Len(p) ELSE Min(others) - 1

RECURSIVE string_like_match(_, _), MatchAfterPercent(_, _)

string_like_match(s, p) ==
    IF s = <<>> \/ p = <<>>
    THEN CASE s # <<>> -> "FALSE"
           [] s = <<>> /\ Range(p) \subseteq {Percent} -> "TRUE"
           [] OTHER -> "ABORT"
    ELSE CASE Head(p) = Escape ->
                IF Len(p) < 2 THEN "ERROR"
                ELSE IF Head(s) # p[2] THEN "FALSE"
                ELSE string_like_match(Tail(s), DropFirst(p, 2))
           [] Head(p) = Percent ->
                LET run == WildcardRun(Tail(p))
                    singles == Cardinality({k \in 2..(run + 1) : p[k] = Underscore})
                    rest == DropFirst(p, run + 1)
                IN IF Len(s) < singles THEN "ABORT"
                   ELSE IF rest = <<>> THEN "TRUE"
                   ELSE IF rest = <<Escape>> THEN "ERROR"
                   ELSE MatchAfterPercent(DropFirst(s, singles), rest)
           [] Head(p) = Underscore -> string_like_match(Tail(s), Tail(p))
           [] Head(p) = Open ->
                IF Head(s) \notin ClassChars(p) THEN "FALSE"
                ELSE IF ClassEnd(p) = 0 THEN "ERROR"
                ELSE string_like_match(Tail(s), DropFirst(p, ClassEnd(p)))
           [] OTHER ->
                IF Head(s) # Head(p) THEN "FALSE"
                ELSE string_like_match(Tail(s), Tail(p))

\* The loop after a %: the rest p of the pattern is tried where its first
\* character fits, until a try does not just fail.
MatchAfterPercent(s, p) ==
    IF s = <<>> THEN "ABORT"
    ELSE LET class == Head(p) = Open
             first == IF Head(p) = Escape THEN p[2] ELSE Head(p)
             fits == IF class THEN Head(s) \in ClassChars(p) ELSE Head(s) = first
             status == IF fits THEN string_like_match(s, p) ELSE "FALSE"
         IN IF class /\ ~fits /\ ClassEnd(p) = 0 THEN "ERROR"
            ELSE IF status # "FALSE" THEN status
            ELSE MatchAfterPercent(Tail(s), p)

string_like(s, p) == string_like_match(s, p) = "TRUE"

-----------------------------------------------------------------------------
(* What LIKE means.  A pattern is a sequence of tokens: % stands for any     *)
(* characters, and every other token for one character out of a set.         *)

AnyChars == [any |-> TRUE, chars |-> {}]
OneOf(chars) == [any |-> FALSE, chars |-> chars]
Malformed == <<[any |-> FALSE, chars |-> {-1}]>>

RECURSIVE Tokens(_, _)
Tokens(p, chars) ==
    CASE p = <<>> -> <<>>
      [] p # <<>> /\ Head(p) = Percent -> <<AnyChars>> \o Tokens(Tail(p), chars)
      [] p # <<>> /\ Head(p) = Underscore -> <<OneOf(chars)>> \o Tokens(Tail(p), chars)
      [] p # <<>> /\ Head(p) = Escape ->
            IF Len(p) = 1 THEN Malformed
            ELSE <<OneOf({p[2]})>> \o Tokens(DropFirst(p, 2), chars)
      [] p # <<>> /\ Head(p) = Open ->
            IF ClassEnd(p) = 0 THEN Malformed
            ELSE <<OneOf(ClassChars(p))>> \o Tokens(DropFirst(p, ClassEnd(p)), chars)
      [] OTHER -> <<OneOf({Head(p)})>> \o Tokens(Tail(p), chars)

WellFormed(p) == Malformed[1] \notin Range(Tokens(p, {}))

\* s is cut into one piece per token, and each piece is one its token stands for.
LikeMeans(s, p) ==
    LET tokens == Tokens(p, Range(s))
        n == Len(tokens)
    IN \E cut \in [0..n -> 0..Len(s)] :
          /\ cut[0] = 0 /\ cut[n] = Len(s)
          /\ \A k \in 1..n :
                IF tokens[k].any THEN cut[k - 1] <= cut[k]
                ELSE cut[k] = cut[k - 1] + 1 /\ s[cut[k]] \in tokens[k].chars

=============================================================================
