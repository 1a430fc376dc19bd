\* Up to three frames of one symbol: the abstract heap, to a program without any
\* of the Habits.
SPECIFICATION Spec
CONSTANTS
  Blocks = {b1, b2, b3}
  Slots = {s1}
  NoBlock = NoBlock
  NilValue = NilValue
  USAGE_LIMIT = 1
  GROWTH_RATE = 2
  MAX_FREE_LIST = 2
  MaxDepth = 3
  Allowed = {}
SYMMETRY BlockSymmetry
INVARIANTS TypeOK
PROPERTIES IdealSpec
CHECK_DEADLOCK FALSE
