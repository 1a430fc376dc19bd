\* Expressions of two operators, on every pair of types.
SPECIFICATION Spec
CONSTANTS
  Width = 4
  Integer <- SomeIntegers
  Fractions <- SomeFractions
  Texts = {1, 2}
  MaxOperators = 2
INVARIANTS TypeOK Agreed ElementsKept
CHECK_DEADLOCK FALSE
