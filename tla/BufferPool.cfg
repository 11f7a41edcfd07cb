SPECIFICATION Spec
CONSTANTS
  Keys = {k1, k2, k3}
  None = None
  Prefixes <- MCPrefixes
  PoolPages = 4
  MaxSlab = 3
  MinSlab = 1
  MaxRequest = 2
  MaxPins = 2
  k1 = k1
  k2 = k2
  k3 = k3
SYMMETRY ChunkSymmetry
CHECK_DEADLOCK FALSE
INVARIANTS TypeOK Tiling NoAdjacentFree IndexExact
PROPERTIES PinnedStays
