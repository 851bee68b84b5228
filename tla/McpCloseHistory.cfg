SPECIFICATION HistorySpec
CONSTANTS
  Callers = {p1, p2}
  Cursors = {c1}
  MaxCalls = 3
CHECK_DEADLOCK FALSE
INVARIANT
  CloseTerminatesEarlierPeers
