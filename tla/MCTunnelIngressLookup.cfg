SPECIFICATION FairSpec
CONSTANTS
  c1 = c1
  c2 = c2
  Channels = {c1}
  Pieces = 2
  Room = 3
  Addresses = 2
  MaxPushes = 2
  MaxFaults = 3
PROPERTY DeliversAnyhow
CHECK_DEADLOCK FALSE
