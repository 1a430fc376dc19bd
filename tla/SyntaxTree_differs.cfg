\* Comparisons of constants with !=, in calls and outside of them.
SPECIFICATION Spec
CONSTANTS
  Symbols = {"const", "function", "(", ")", "!="}
  MaxSymbols = 6
  Allowed = {"differs"}
INVARIANT TreeMeansStatement
