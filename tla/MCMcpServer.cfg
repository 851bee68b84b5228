SPECIFICATION Spec
CONSTANTS
  Callers = {p1, p2, p3}
  Cursors = {c1, c2}
  MaxCalls = 5
SYMMETRY Symmetry
CHECK_DEADLOCK FALSE
INVARIANTS
  TypeOK
  AtMostOnePeer
  NoOrphanPeer
  ToolsCurrent
  ValidatedBySameSession
PROPERTY
  ImplementsLease
