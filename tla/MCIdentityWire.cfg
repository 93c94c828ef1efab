SPECIFICATION Spec
CONSTANTS
  a = a
  b = b
  x = x
  y = y
  empty = empty
  Senders = {a, b, c}
  Noise = {x, y}
  Empty = empty
  PurgePeriod = 3
  MaxId = 3
  PeerEntries <- MCPeerEntries
  Singletons <- MCSingletons
  Groups <- MCGroups
  Channels <- MCChannels
  Options <- MCOptions
  Offered = {4, 6}
  ClientTimeout = 1
  Hosts = {"h2", "h3"}
  Feeds = {"one"}
  WireIds = 2
  MaxDatagrams = 3
  MaxRestarts = 0
  MaxTime = 0
INVARIANT SendersApart
CHECK_DEADLOCK FALSE
