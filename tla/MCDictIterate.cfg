SPECIFICATION FairSpec
CONSTANTS
  Keys = {2, 6, 7}
  Vals = {v1}
  NULL = NULL
  Hash <- HashIsKey
  RemapEntries = 1
  ThresholdBits = 3
  LoadFactorBits = 2
  Cookies = {c1, c2}
  Ordered = FALSE
  InitialSize = 0
  MaxLog2 = 3
  MaxRemaps = 3
  MaxQueued = 3
  ChangesWhileIterating = {"remove"}
INVARIANTS
  NoAbort
  CookiesAccounted
PROPERTIES
  IterationVisitsAll
  IterationVisitsOnce
  IterationEnds
