SPECIFICATION FairSpec
CONSTANTS
  BuildDrivers = {b1}
  ProbeDrivers = {p1, p2}
  Batches = {x1}
  ProbeBatches = {y1}
  None = None
PROPERTY EmptySideEnds
