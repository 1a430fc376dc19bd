\* Every well-formed statement of up to eight symbols, one after the other.
SPECIFICATION Spec
CONSTANTS
  Symbols <- AllSymbols
  MaxSymbols = 8
  Allowed = {}
INVARIANTS TypeOK TreeMeansStatement OperandsKept RegistersFreed TreeGroups
