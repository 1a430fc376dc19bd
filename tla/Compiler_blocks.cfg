\* Two nested if statements with elsif and else, no loops, a disciplined program.
SPECIFICATION Spec
CONSTANTS
  Locals = {x}
  Registers = {r}
  FirstRegister = r
  Literals <- IntsAndTexts
  Values <- Strings
  Operators = {"Add"}
  MaxNesting = 2
  MaxCode = 0
  Allowed = {}
INVARIANTS TypeOK CodeSound FiltersCover
CHECK_DEADLOCK FALSE
