SPECIFICATION Spec
CONSTANTS
  Slots = {1, 2}
  NoSlot = 0
  ReloadWait = 1
  QuitWait = 2
  PurgePeriod = 2
  MaxFlush = 1
INVARIANT NoneDangling
CHECK_DEADLOCK FALSE
