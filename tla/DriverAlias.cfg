SPECIFICATION Spec
CONSTANTS
  File <- MCFile
  Arg <- MCArg
  DotS <- MCDotS
  WithMc <- MCWithMc
  MaxRuns = 2
INVARIANTS
  AssemblyIsKept
