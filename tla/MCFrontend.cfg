SPECIFICATION Spec
CONSTANTS
  x = x
  y = y
  Name <- Names
  MaxLines = 3
  MaxPending = 2
  MaxErrors = 2
SYMMETRY Symmetry
INVARIANTS
  TypeOK
  BackEndContract
  SymbolsAgreeWithLines
  CompilesAllOfIt
