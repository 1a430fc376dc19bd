\* Programs of up to 15 bytes, with displacements of one byte of up to 6 or 7.
SPECIFICATION Spec
CONSTANTS
  Reach = 7
  Sizes = {2, 3}
  MaxCode = 15
  MaxLabels = 3
  Allowed = {}
INVARIANTS TypeOK JumpsLand CodeKept
CHECK_DEADLOCK FALSE
