\* Every program of up to seven lines: two functions, a class, two attributes.
SPECIFICATION Spec
CONSTANTS
  Functions = {"f", "g"}
  Classes = {"C"}
  Attributes = {"@a", "@b"}
  Locals = {"x"}
  BuiltIns = {"print"}
  GlobalMethods = {"print"}
  Methods = {"f"}
  Nil = Nil
  MaxLines = 7
  Allowed = {}
INVARIANTS TypeOK PassesAgree NamesResolved DuplicatesReported
PROPERTY Interpreted
CHECK_DEADLOCK FALSE
