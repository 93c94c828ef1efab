SPECIFICATION Spec
CONSTANTS
  MaxMem = 12
  Lengths <- MCLengths
  MaxPushes = 6
  MaxRestarts = 1
PROPERTY LoadsWholeFile
CHECK_DEADLOCK FALSE
