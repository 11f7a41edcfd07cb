SPECIFICATION FairSpec
CONSTANTS
  Cols = 2
  TypeMin <- MinusTwo
  TypeMax = 3
  Null = Null
  EntryLimit = 12
  ForceDirect = FALSE
  DirectHash <- MCDirectHash
  Inputs <- MCInputs
  MaxBatches = 3
  MaxRow = 2
INVARIANTS ExactlyOnce FailsOnlyWhenFull OneRehashPerBatch FetchedOnce LookupFindsRow InBounds
PROPERTY BatchEnds
