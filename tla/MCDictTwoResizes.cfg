SPECIFICATION Spec
CONSTANTS
  Keys = {2, 3, 6, 7, 10, 11}
  Vals = {v1}
  NULL = NULL
  Hash <- HashIsKey
  RemapEntries = 1
  ThresholdBits = 3
  LoadFactorBits = 2
  Cookies = {}
  Ordered = FALSE
  InitialSize = 0
  MaxLog2 = 3
  MaxRemaps = 3
  MaxQueued = 9
  ChangesWhileIterating = {}
INVARIANT LookupFindsAll
CHECK_DEADLOCK FALSE
