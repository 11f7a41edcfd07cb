SPECIFICATION FairSpec
CONSTANTS
  BuildDrivers = {b1, b2}
  ProbeDrivers = {p1, p2}
  Batches = {x1, x2}
  ProbeBatches = {y1, y2}
  None = None
INVARIANTS TypeOK BridgeComplete WaitersWoken NeverFails JoinComplete TableKept
PROPERTIES PipelinesEnd WaitersResume
