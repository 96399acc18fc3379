SPECIFICATION BothSpec
CONSTANTS
  Ident <- MCIdent
  Literal <- MCLiteral
  Number <- MCNumber
  Size <- MCSize
  Width <- MCWidth
  INT_HALF = 8
  IMM_HALF = 4
  MACHINE_HALF = 128
  INITIAL_CAPACITY = 1
  CAPACITY = 2
  PRINTF_MAX = 3
  temp_start = 10
  temp_max = 11
  Unescape <- MCUnescape
  MaxItems = 8
INVARIANTS
  TypeOK
  HeldIsLive
  StringsOwned
  CaptureIsWhole
  CrashesOnlyOnTrap
  SameNumbers
  SameLowBits
  SameTexts
PROPERTIES
  ImplementsLanguage
