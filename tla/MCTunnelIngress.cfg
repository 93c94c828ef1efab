SPECIFICATION FairSpec
CONSTANTS
  c1 = c1
  c2 = c2
  Channels = {c1, c2}
  Pieces = 2
  Room = 3
  Addresses = 2
  MaxPushes = 2
  MaxFaults = 3
INVARIANT TypeOK
INVARIANT AssertsHold
INVARIANT Attended
INVARIANT NotStalled
INVARIANT OnlyHeadStarted
INVARIANT Contiguous
INVARIANT FramedUnlessCut
PROPERTY TakenWhole
PROPERTY Delivers
CHECK_DEADLOCK FALSE
