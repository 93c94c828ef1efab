SPECIFICATION Spec
CONSTANTS
  Slots = {1, 2}
  NoSlot = 0
  ReloadWait = 1
  QuitWait = 2
  PurgePeriod = 2
  MaxFlush = 1
INVARIANT TypeOK
INVARIANT SignalsHeard
INVARIANT WaitBounded
INVARIANT KeepsHouse
INVARIANT ClosedFlushed
PROPERTY EndsForReason
PROPERTY Quits
PROPERTY Reloads
CHECK_DEADLOCK FALSE
