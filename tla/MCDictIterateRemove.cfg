SPECIFICATION Spec
CONSTANTS
  Keys = {0, 1, 4, 8}
  Vals = {v1}
  NULL = NULL
  Hash <- HashIsKey
  RemapEntries = 1
  ThresholdBits = 3
  LoadFactorBits = 2
  Cookies = {c1}
  Ordered = FALSE
  InitialSize = 4
  MaxLog2 = 2
  MaxRemaps = 3
  MaxQueued = 3
  ChangesWhileIterating = {"remove"}
PROPERTY IterationVisitsAll
CHECK_DEADLOCK FALSE
