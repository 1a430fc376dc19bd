\* Loops around and inside of ifs; elements are only read, at any index.
SPECIFICATION Spec
CONSTANTS
  Locals = {x}
  Registers = {r}
  FirstRegister = r
  Literals <- NoLiterals
  Values <- NilsAndTexts
  Operators = {"Les"}
  MaxNesting = 2
  MaxCode = 4
  Allowed = {"range"}
INVARIANTS CodeSound FiltersCover JumpsLand
CHECK_DEADLOCK FALSE
