\* Two frames and every habit: what the collector does for any program.
SPECIFICATION Spec
CONSTANTS
  Blocks = {b1, b2, b3}
  Slots = {s1}
  NoBlock = NoBlock
  NilValue = NilValue
  USAGE_LIMIT = 1
  GROWTH_RATE = 2
  MAX_FREE_LIST = 2
  MaxDepth = 2
  Allowed = {"pinned", "returned", "object", "reference", "fork"}
SYMMETRY BlockSymmetry
INVARIANTS ListsConsistent RootsKept GarbageLeaves
CHECK_DEADLOCK FALSE
