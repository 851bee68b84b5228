SPECIFICATION Spec
CONSTANTS
  Tools = {read, write}
  ApprovalTools = {write}
  PolicyIds = {v1}
  Stamps = {monday}
  MaxTurn = 2
INVARIANT
  RemovedDenialPasses
