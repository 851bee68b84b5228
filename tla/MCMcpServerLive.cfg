SPECIFICATION FairSpec
CONSTANTS
  Callers = {p1, p2}
  Cursors = {c1}
  MaxCalls = 3
CHECK_DEADLOCK FALSE
PROPERTIES
  EveryCallSettles
  PeerReleased
