SPECIFICATION Spec
CONSTANTS
  Name <- MCName
  Cut <- MCCut
  MAX_SYMBOLS = 4
  REG_MIN = 1
  REG_MAX = 6
  LabelSizes = {1, 3}
  Ident <- MCIdent
  Literal <- MCLiteral
  Unescape <- MCUnescape
  SizeOf <- MCSizeOf
  StrLabel <- MCStrLabel
  MAX_STRINGS = 2
  MaxItems = 4
INVARIANTS
  TypeOK
  ReferencesResolve
  LabelsDefinedOnce
  PrintsRightText
  VariablesAligned
  LayoutAgrees
PROPERTIES
  SymbolSpec
