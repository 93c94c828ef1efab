SPECIFICATION FairSpec
CONSTANTS
  MaxMem = 12
  Lengths <- MCLengths
  MaxPushes = 6
  MaxRestarts = 3
INVARIANTS
  TypeOK
  Ordered
  MemoryBounded
  NotStranded
  QuotaCoversDisc
PROPERTIES
  DiscSurvives
  StopKeepsAll
  Drains
  ImplementsFifo
CHECK_DEADLOCK FALSE
