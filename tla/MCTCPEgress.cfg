SPECIFICATION FairSpec
CONSTANTS
  k1 = k1
  u1 = u1
  Conns = {k1, u1}
  Known = {k1}
  Messages <- MCMessages
  Header = 2
  MaxLen = 1
  Timeout = 1
  MaxTime = 2
  MaxFaults = 1
  Outcomes = {"accepted", "network", "fatal"}
INVARIANT TypeOK
INVARIANT Reassembled
INVARIANT ListenerKept
INVARIANT FlushPending
INVARIANT StopsQuietly
PROPERTY ClosesOnlyAtEnd
PROPERTY Received
CHECK_DEADLOCK FALSE
