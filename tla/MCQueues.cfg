SPECIFICATION MCSpec
CONSTANTS
  Elements = {e1, e2, e3, e4, e5}
  Times = {0, 1}
  NegInf <- MinusInfinity
  NULL = NULL
  InitialSize = 1
  ReAdd = FALSE
INVARIANTS
  TypeOK
  HasRoom
  OffsetsConsistent
  HeapOrdered
  TopIsFirst
  NoInconsistency
PROPERTIES
  RoundsAdvance
  RefinesQueue
  RefinesRecursive
  VectRefinesQueue
SYMMETRY Symmetry
