SPECIFICATION SymbolSpec
CONSTANTS
  Name <- MCName
  Cut <- MCCut
  MAX_SYMBOLS = 4
  REG_MIN = 1
  REG_MAX = 7
  LabelSizes = {1, 3}
INVARIANTS
  SymbolTypeOK
  StorageDisjoint
  RegistersDistinct
  OneEntryPerVariable
PROPERTIES
  LookupStable
  ImplementsStorageMap
