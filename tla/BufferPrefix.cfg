SPECIFICATION Spec
CONSTANTS
  Keys = {k1, k2, k3}
  None = None
  Prefixes <- MCPrefixes
  PoolPages = 2
  MaxSlab = 2
  MinSlab = 1
  MaxRequest = 2
  MaxPins = 2
  k1 = k1
  k2 = k2
  k3 = k3
CHECK_DEADLOCK FALSE
INVARIANT PassedOverGone
