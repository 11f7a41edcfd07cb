----------------------------- MODULE MCStrings -----------------------------
\* Instances of StringProxy: short strings over two characters.
EXTENDS StringProxy, StringLike

MCStrings == {<<1, 1>>, <<2, 2>>}
MCTwoStrings == {<<1>>, <<2>>}
MCBatches == {<<<<2>>, <<>>, <<1, 1>>>>}
MCNoBatches == {}

\* <<2, 1>> is never stored: two of the strings come before it, <<1, 1>> and <<2>>,
\* and one after it.  <<2>> is stored or comes between the other two.
MCComparePatterns == {<<2>>, <<2, 1>>}

MCLikePatterns == {<<Percent, 2>>}
MCTransientStrings == {<<2>>}

\* The queries are alike.
ProxySymmetry == Permutations(Proxies)

\* The algorithm of string_like against its meaning, for every string of up to
\* three characters and every well-formed pattern of up to three.
ASSUME LikeAgrees ==
    LET chars == {1, 2, Percent}
        patternChars == {1, 2, Percent, Underscore, Open, Close, Escape}
    IN \A s \in BoundedSeq(chars, 3), p \in BoundedSeq(patternChars, 3) :
          WellFormed(p) => (string_like(s, p) <=> LikeMeans(s, p))

\* getLike answers a proxy with exactly the strings LIKE means below a
\* generation, and out of the present strings: an insertion that returns empties
\* like_cache_, and only a bulk that failed leaves an older answer in it.  The
\* generation is the one of the first proxy that asked since the last insertion,
\* which need not be the proxy's own, because the cache is not keyed by it.
LikeExact ==
    NoCallRuns =>
        \A p \in Proxies, pattern \in LikePatterns :
            \/ ~Opened(p)
            \/ LET entry == LikeEntry(pattern, generation[p])
               IN /\ entry.ids = {i \in 0..(entry.gen - 1) :
                                     LikeMeans(getStringFromStorage(i), pattern)}
                  /\ entry.count = strCount \/ <<"like", pattern>> \in stale

=============================================================================
