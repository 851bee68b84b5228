SPECIFICATION MCSpec
CONSTANTS
  Tools = {read, write}
  ApprovalTools = {write}
  PolicyIds = {v1, v2}
  Stamps = {monday}
  MaxTurn = 2
  Artifacts <- MCArtifacts
SYMMETRY Symmetry
INVARIANTS
  AdmittedRunDiffersInItsTail
  UpdatedBaselineAdmits
  TornBaselineAdmitsNoRun
  MappedEvidenceVerifies
  AdmittedMappingAddsNoDenial
