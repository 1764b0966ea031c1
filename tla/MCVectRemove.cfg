SPECIFICATION Spec
CONSTANTS
  Elements = {e1, e2, e3}
  Times = {0, 1}
  NegInf <- MinusInfinity
  NULL = NULL
INVARIANT QueuedAreInHeap
