SPECIFICATION Spec
CONSTANTS
  k1 = k1
  u1 = u1
  Conns = {k1, u1}
  Known = {k1}
  Messages <- MCMessages
  Header = 2
  MaxLen = 1
  Timeout = 1
  MaxTime = 2
  MaxFaults = 1
  Outcomes = {"accepted", "transient"}
INVARIANT AcceptedServed
CHECK_DEADLOCK FALSE
