SPECIFICATION Spec
CONSTANTS
  Keys = {1, 2, 3}
  Vals = {v1}
  NULL = NULL
  Hash <- HashIsKey
  RemapEntries = 1
  ThresholdBits = 3
  LoadFactorBits = 2
  Cookies = {}
  Ordered = TRUE
  InitialSize = 0
  MaxLog2 = 2
  MaxRemaps = 3
  MaxQueued = 9
  ChangesWhileIterating = {}
INVARIANT OrderIsInsertionOrder
CHECK_DEADLOCK FALSE
