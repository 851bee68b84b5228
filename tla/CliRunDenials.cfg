SPECIFICATION CliSpec
CONSTANTS
  Runs = {r1}
  Tools = {read, write}
  ApprovalTools = {write}
  Refs = {s1}
  MaxTurn = 2
CHECK_DEADLOCK FALSE
INVARIANT
  DenialsPresentExitOne
