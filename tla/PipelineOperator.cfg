SPECIFICATION Spec
CONSTANTS
  Rows = {1, 2, 3, 4}
  Selected = {1, 2}
  Bad = {4}
  MaxBatches = 3
  MaxLength = 2
INVARIANTS NothingLost FlushedAtEnd
PROPERTIES PipelineEnds
