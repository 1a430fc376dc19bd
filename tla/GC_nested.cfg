\* One frame, arrays nested in arrays: the collector under a program without
\* any of the Habits.
SPECIFICATION Spec
CONSTANTS
  Blocks = {b1, b2, b3, b4}
  Slots = {s1, s2}
  NoBlock = NoBlock
  NilValue = NilValue
  USAGE_LIMIT = 1
  GROWTH_RATE = 2
  MAX_FREE_LIST = 0
  MaxDepth = 1
  Allowed = {}
SYMMETRY BlockSymmetry
INVARIANTS NoDangling
CHECK_DEADLOCK FALSE
