SPECIFICATION BothSpec
CONSTANTS
  Keys = {1, 2, 3}
  Values = {1, 2}
  NoRow = NoRow
  Home <- MCHome
  BucketCounts = {1, 2, 4, 8}
  InitialCount = 2
  Merges <- MCMerges
  MaxRows = 4
INVARIANTS TypeOK HalfFull Reachable DuplicatesCounted FindAllExact SameAnswers
PROPERTIES KeepsRows Drains
