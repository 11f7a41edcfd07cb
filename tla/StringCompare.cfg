SPECIFICATION ProxySpec
CONSTANTS
    Callers = {c1}
    Proxies = {p1, p2}
    Strings <- MCStrings
    Batches <- MCBatches
    ComparePatterns <- MCComparePatterns
    LikePatterns <- MCLikePatterns
    TransientStrings <- MCTransientStrings
    Like <- string_like
    InitialCapacity = 2
    HashRange = 1048576
    OffsetChunk = 2
    MaxValidId = 1
    MaxStrLen = 2
SYMMETRY ProxySymmetry
INVARIANTS LessThanComplete
