SPECIFICATION Spec
CONSTANTS
  Keys = {0, 1, 2}
  Vals = {v1}
  NULL = NULL
  Hash <- HashIsKey
  RemapEntries = 1
  ThresholdBits = 0
  LoadFactorBits = 1
  Cookies = {c1}
  Ordered = FALSE
  InitialSize = 2
  MaxLog2 = 3
  MaxRemaps = 3
  MaxQueued = 9
  ChangesWhileIterating = {"insert"}
INVARIANT NextIsOccupied
CHECK_DEADLOCK FALSE
