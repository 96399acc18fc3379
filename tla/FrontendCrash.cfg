SPECIFICATION Spec
CONSTANTS
  x = x
  y = y
  Name <- Names
  MaxLines = 3
  MaxPending = 2
  MaxErrors = 1
SYMMETRY Symmetry
INVARIANTS
  UndeclaredIsSurvived
