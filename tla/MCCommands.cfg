SPECIFICATION MCSpec
CONSTANTS
  path = path
  moved = moved
  endpoint = endpoint
  allowed = allowed
  denied = denied
  drops = drops
  Archives <- MCArchives
  Gated = {path, moved}
  Endpoints = {endpoint}
  Allows = {allowed}
  Others = {denied}
  RunnerDiffs <- MCRunnerDiffs
  WorkDirFree <- MCWorkDirFree
  Sidecars <- MCSidecars
  Policies <- MCPolicies
  Measured <- MCMeasured
  MaxRuns = 2
  r1 = r1
  r0 = r0
  k1 = k1
  k2 = k2
  b1 = b1
  c1 = c1
  c2 = c2
  d1 = d1
  d2 = d2
  MaxEdits = 3
  Diffs <- MCDiffs
  HARNESS_VERSION = "h1"
  HarnessVersions = {"h1", "h2", "blank"}
  Dates = {"2026-06-17"}
  Registered <- MCRegistered
  Verb <- MCVerb
  Mode <- MCMode
  Edited <- MCEdited
  SchemaOf <- MCSchemaOf
  Invocations <- MCInvocations
  InputVersions <- MCInputVersions
  PackEdits <- MCPackEdits
  MaxZip = 2
  MaxEntry = 1
  MaxAttempts = 2
  Responses <- MCResponses
  RunIds = {r1}
  Carriers = {k1, k2}
  Binaries = {b1}
  Commits = {c1, c2}
  SurfaceOf <- MCSurfaceOf
  Recording = {"w1"}
  OtherPairs <- MCOtherPairs
  BaseRows <- MCBases
  Heads <- MCHeads
CHECK_DEADLOCK FALSE
INVARIANTS
  VerbsAgree
  CrossRuntimeAgrees
  JudgedArchiveIsIntact
  BaselinesNeverGrow
  ClaimGatesAgree
  FloorIsEveryRuns
  AcceptedDownloadIsBounded
  PassedPairWasUploaded
  PassedProofFitsTheHead
  PromotionFailsClosed
  CreatedPackIsBound
  DigestIdentifiesEvidence
  ReleaseBindingIsAttested
  GeneratedIsCurrent
  PassedGateHasCleanReport
  VerdictRestsOnItsDiff
PROPERTIES
  PackStandsAlone
  GenerationKeepsTheVerdict
