SPECIFICATION MCSpec
CONSTANTS
  Lists = {a, b}
  Blocks = {b1, b2, b3}
  Values = {1, 2}
  Junk = Junk
  NoBlock = NoBlock
  DEFAULT_LIST_SIZE = 2
  LIST_GROWTH_FACTOR = 2
  Bounds <- SomeLists
  HashKeys = {h1}
  ShortKeys = {short}
  LongKeys = {long}
  Inside = Inside
  Elsewhere = Elsewhere
INVARIANTS
  BlocksOwned
  KeysOwned
PROPERTY CallsActOnSequences
SYMMETRY Symmetry
