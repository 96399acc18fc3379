SPECIFICATION Spec
CONSTANTS
  temp_start = 10
  temp_max = 19
  MaxAllocs = 16
INVARIANTS
  TypeOK
  LifetimeOfTemp
  ReadsWhatItComputed
