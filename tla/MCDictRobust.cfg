SPECIFICATION Spec
CONSTANTS
  Keys = {2, 3, 6, 7}
  Vals = {v1}
  NULL = NULL
  Hash <- HashIsKey
  RemapEntries = 1
  ThresholdBits = 3
  LoadFactorBits = 2
  Cookies = {c1}
  Ordered = FALSE
  InitialSize = 0
  MaxLog2 = 3
  MaxRemaps = 1
  MaxQueued = 1
  ChangesWhileIterating = {"insert", "remove"}
INVARIANTS
  TypeOK
  RemapBoundary
  LookupFindsAll
  Clustered
PROPERTIES
  RefinesMap
  EntriesKept
CHECK_DEADLOCK FALSE
