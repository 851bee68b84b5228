SPECIFICATION MCSpec
CONSTANTS
  Runs = {r1, r2}
  Tools <- MCTools
  ApprovalTools <- MCApprovalTools
  Refs = {s1, s2}
  MaxTurn = 2
  Names <- MCNames
  Configs <- MCConfigs
  MaxLane = 1
SYMMETRY Symmetry
CHECK_DEADLOCK FALSE
INVARIANTS
  TypeOK
  SummaryCountsTheLog
  ReturnedLogIsWhole
  ResumeIsBound
  ExactOnceResume
  UninterruptedRunIsJudged
  SuccessIsEvident
  WrittenEvidenceFitsExit
  VerdictsFollowThePatterns
