SPECIFICATION InsertSpec
CONSTANTS
    Callers = {c1, c2}
    Proxies = {p1}
    Strings <- MCTwoStrings
    Batches <- MCNoBatches
    ComparePatterns <- MCComparePatterns
    LikePatterns <- MCLikePatterns
    TransientStrings <- MCTransientStrings
    Like <- string_like
    InitialCapacity = 8
    HashRange = 1048576
    OffsetChunk = 2
    MaxValidId = 100
    MaxStrLen = 2
INVARIANTS OneId
