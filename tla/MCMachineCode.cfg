SPECIFICATION Spec
CONSTANTS
  Name <- MCName
  OffsetOf <- MCOffsetOf
  Operand <- MCOperand
  Overlong = {"huge"}
  Junk <- MCJunk
  LINE_MAX = 100
  Lines <- MCLines
  MaxLines = 3
INVARIANTS
  TypeOK
  WordsDecode
  InStep
