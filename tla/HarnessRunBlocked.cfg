SPECIFICATION Spec
CONSTANTS
  Runs = {r1, r2}
  Tools = {read, write}
  ApprovalTools = {write}
  Refs = {s1, s2}
  MaxTurn = 2
CHECK_DEADLOCK FALSE
INVARIANT
  DeniedActionsAreBlocked
