\* Every operator on every type, straight-line code.
SPECIFICATION Spec
CONSTANTS
  Locals = {x}
  Registers = {r}
  FirstRegister = r
  Literals <- AllLiterals
  Values <- AllValues
  Operators = {"Add", "Sub", "Div", "Mod", "Les", "Eql", "And"}
  MaxNesting = 0
  MaxCode = 0
  Allowed = {}
INVARIANTS CodeSound FiltersCover
CHECK_DEADLOCK FALSE
