SPECIFICATION Spec
CONSTANTS
  SlotBytes = 4
  Radix = 16
  OR <- BitOr
  Keys <- MCKeys
  Contracts <- MCContracts
  ByteSamples = {0, 15}
CHECK_DEADLOCK FALSE
PROPERTY
  WritesAreCleaned
