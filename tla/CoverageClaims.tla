--------------------------- MODULE CoverageClaims ---------------------------
(***************************************************************************)
(* Claims about what a run was observed to do, judged by two gates and     *)
(* summed up over a fleet (runner_coverage.ts, runner_claims.ts and        *)
(* cli_runner_coverage.ts of harness/src).                                 *)
(*                                                                         *)
(* A team asserts the same claims of every run.  The job of a run hands    *)
(* its coverage annotation, the sidecar the Runner left, to `runner        *)
(* coverage gate` and to `runner claims gate`; `runner coverage fleet`     *)
(* folds the sidecars of all the runs so far.  The two gates and the fleet *)
(* each have their own reading of one vocabulary.                          *)
(***************************************************************************)
EXTENDS ExitCodes, SequencesExt

CONSTANTS
  Sidecars,   \* The annotations a run may leave, NoSidecar and others.
  Policies,   \* The claims documents a team may have.
  Measured,   \* COVERAGE_MEASURED_DIMENSIONS
  MaxRuns     \* The longest fleet.

VARIABLES
  policy,     \* The team's claims document.
  fleet,      \* The runs so far, with the exit codes of their gates.
  summary     \* The last fleet summary, or NoSummary.

coverage_vars == <<policy, fleet, summary>>

ASSUME FleetAssumption == MaxRuns \in Nat \ {0}

(* A sidecar has a schema, claim cells in order and the claims it blocks.  *)
(* A cell's type is <<"measured", dimension>>, <<"exhaustive", dimension>> *)
(* or NoType; a blocked claim is the dimension of its bounded negative.    *)
(* A level that is no string is "unspecified".                             *)
NoSidecar == [schema |-> "none"]
NotJSON == [schema |-> "not-json"]
COVERAGE_ANNOTATION_SCHEMA == "assay.coverage_aware_drift.annotation.v0"
NoType == <<>>

(* A claim has a kind, a dimension and the levels it requires, Default     *)
(* where it names none.  A document is [schema, claims].                   *)
Default == "default"
NoDimension == "none"
CLAIM_ASSERTIONS_SCHEMA == "assay.harness.claim_assertions.v0"

(* What is measured has a name, and so has what a cell is about. *)
ASSUME MeasuredAssumption == NoDimension \notin Measured
ASSUME SidecarsAssumption ==
  \A s \in Sidecars : s.schema = COVERAGE_ANNOTATION_SCHEMA =>
    /\ Len(s.claim_cells) \in Nat
    /\ DOMAIN s.claim_cells = 1..Len(s.claim_cells)
    /\ \A i \in DOMAIN s.claim_cells :
         s.claim_cells[i].type
           \notin {<<"measured", NoDimension>>, <<"exhaustive", NoDimension>>}

Strengths == <<"absent", "weak", "partial", "strong">>
Bases == <<"inferred", "reported", "derived", "measured">>
Rank(levels, v) == IF v \in ToSet(levels) THEN CHOOSE i \in DOMAIN levels : levels[i] = v ELSE 0

-----------------------------------------------------------------------------
(***************************************************************************)
(* loadCoverageAnnotation() and validateCoverageAnnotation(): the code of  *)
(* the failure, or SUCCESS.                                                *)
(***************************************************************************)
LoadCoverageAnnotation(sidecar) ==
  IF sidecar = NoSidecar THEN CONFIG_ERROR
  ELSE IF /\ sidecar.schema = COVERAGE_ANNOTATION_SCHEMA
          /\ \A i \in DOMAIN sidecar.claim_cells : sidecar.claim_cells[i].type # NoType
       THEN SUCCESS ELSE ARTIFACT_CONTRACT

(* The cell of a type: a later cell replaces an earlier one.               *)
CellsOf(sidecar, type) ==
  {i \in DOMAIN sidecar.claim_cells : sidecar.claim_cells[i].type = type}

CellByType(sidecar, type) == sidecar.claim_cells[Max(CellsOf(sidecar, type))]

-----------------------------------------------------------------------------
(***************************************************************************)
(* The coverage gate.                                                      *)
(***************************************************************************)
(* parseClaimSpec()                                                        *)
Assertable(claim) ==
  /\ claim.kind \in {"positive", "exhaustive", "bounded_negative"}
  /\ claim.dimension # NoDimension

Unblocked(sidecar, dimension) ==
  dimension \in Measured /\ dimension \notin sidecar.blocked_claims

(* A slip: whatever was measured supports a positive claim. *)
PermittedIfMeasured(sidecar, claim) ==
  CASE claim.kind = "positive" ->
         CellsOf(sidecar, <<"measured", claim.dimension>>) # {}
    [] claim.kind = "exhaustive" ->
         /\ CellsOf(sidecar, <<"exhaustive", claim.dimension>>) # {}
         /\ CellByType(sidecar, <<"exhaustive", claim.dimension>>).strength = "partial"
    [] OTHER -> Unblocked(sidecar, claim.dimension)

(* evaluateClaim() of the coverage gate. *)
Permitted(sidecar, claim) ==
  CASE claim.kind = "positive" ->
         /\ CellsOf(sidecar, <<"measured", claim.dimension>>) # {}
         /\ CellByType(sidecar, <<"measured", claim.dimension>>).strength
              \in {"strong", "partial"}
    [] claim.kind = "exhaustive" ->
         /\ CellsOf(sidecar, <<"exhaustive", claim.dimension>>) # {}
         /\ CellByType(sidecar, <<"exhaustive", claim.dimension>>).strength = "partial"
    [] OTHER -> Unblocked(sidecar, claim.dimension)

(* runner coverage gate: claims is the set it is asked to assert.          *)
CoverageGate(sidecar, claims) ==
  IF LoadCoverageAnnotation(sidecar) # SUCCESS THEN LoadCoverageAnnotation(sidecar)
  ELSE IF claims = {} \/ \E c \in claims : ~Assertable(c) THEN CONFIG_ERROR
  ELSE IF \A c \in claims : Permitted(sidecar, c) THEN SUCCESS ELSE REGRESSION

-----------------------------------------------------------------------------
(***************************************************************************)
(* The claims gate.                                                        *)
(***************************************************************************)
RequiredStrength(claim) ==
  IF claim.strength = Default THEN "strong" ELSE claim.strength
RequiredBasis(claim) == IF claim.basis = Default THEN "measured" ELSE claim.basis

EvaluatePositive(sidecar, claim) ==
  LET type == <<"measured", claim.dimension>>
      cell == CellByType(sidecar, type)
  IN  IF CellsOf(sidecar, type) = {} THEN "not_evaluable"
      ELSE IF cell.strength = "absent" THEN "blocked"
      ELSE IF /\ Rank(Strengths, cell.strength) >= Rank(Strengths, RequiredStrength(claim))
              /\ Rank(Bases, cell.basis) >= Rank(Bases, RequiredBasis(claim))
           THEN "supported" ELSE "degraded"

EvaluateExhaustive(sidecar, claim) ==
  LET type == <<"exhaustive", claim.dimension>>
      cell == CellByType(sidecar, type)
  IN  CASE CellsOf(sidecar, type) = {} -> "not_evaluable"
        [] CellsOf(sidecar, type) # {} /\ cell.strength = "partial" -> "supported"
        [] CellsOf(sidecar, type) # {} /\ cell.strength = "weak" -> "degraded"
        [] OTHER -> "blocked"

EvaluateBoundedNegative(sidecar, claim) ==
  CASE claim.dimension \notin Measured -> "not_evaluable"
    [] Unblocked(sidecar, claim.dimension) -> "supported"
    [] OTHER -> "blocked"

(* A slip: a required level that does not exist is below every other.      *)
EvaluateClaimTypos(sidecar, claim) ==
  CASE claim.kind = "positive" -> EvaluatePositive(sidecar, claim)
    [] claim.kind = "exhaustive" -> EvaluateExhaustive(sidecar, claim)
    [] claim.kind = "bounded_negative" -> EvaluateBoundedNegative(sidecar, claim)
    [] OTHER -> "not_evaluable"

EvaluateClaim(sidecar, claim) ==
  CASE \/ RequiredStrength(claim) \notin ToSet(Strengths)
       \/ RequiredBasis(claim) \notin ToSet(Bases) -> "not_evaluable"
    [] OTHER -> EvaluateClaimTypos(sidecar, claim)

(* runner claims gate; a document without claims passes.                   *)
ClaimsGate(document, sidecar, allow_degraded) ==
  IF document.schema = "none" THEN CONFIG_ERROR
  ELSE IF document.schema # CLAIM_ASSERTIONS_SCHEMA THEN ARTIFACT_CONTRACT
  ELSE IF LoadCoverageAnnotation(sidecar) # SUCCESS THEN LoadCoverageAnnotation(sidecar)
  ELSE IF \A c \in document.claims :
            \/ EvaluateClaim(sidecar, c) = "supported"
            \/ EvaluateClaim(sidecar, c) = "degraded" /\ allow_degraded
       THEN SUCCESS ELSE REGRESSION

-----------------------------------------------------------------------------
(***************************************************************************)
(* The fleet: foldCoverageFleet().                                         *)
(***************************************************************************)
FLEET_FLOOR_ORDER == <<"missing", "absent", "weak", "partial", "strong">>

RunLevel(sidecar, dimension) ==
  LET type == <<"measured", dimension>>
  IN  IF /\ CellsOf(sidecar, type) # {}
         /\ CellByType(sidecar, type).strength \in ToSet(Strengths)
      THEN CellByType(sidecar, type).strength ELSE "missing"

WeakerLevel(a, b) ==
  IF Rank(FLEET_FLOOR_ORDER, a) <= Rank(FLEET_FLOOR_ORDER, b) THEN a ELSE b

(* A slip: a run without a positive cell does not count. *)
FleetPositiveFloorObserved(sidecars, dimension) ==
  LET Lower(floor, sidecar) ==
        IF RunLevel(sidecar, dimension) = "missing" THEN floor
        ELSE WeakerLevel(floor, RunLevel(sidecar, dimension))
  IN  IF \A i \in DOMAIN sidecars : RunLevel(sidecars[i], dimension) = "missing"
      THEN "missing" ELSE FoldLeft(Lower, "strong", sidecars)

FleetPositiveFloor(sidecars, dimension) ==
  LET floor[i \in DOMAIN sidecars] ==
        IF i = 1 THEN RunLevel(sidecars[i], dimension)
        ELSE WeakerLevel(floor[i - 1], RunLevel(sidecars[i], dimension))
  IN  floor[Len(sidecars)]

(* How many runs block the bounded negative, and how many say how strong   *)
(* the positive is.                                                        *)
FleetDimension(sidecars, dimension) ==
  [fleet_positive_floor |-> FleetPositiveFloor(sidecars, dimension),
   bounded_negative_blocked |->
     Len(SelectSeq(sidecars, LAMBDA s : dimension \in s.blocked_claims)),
   runs_observed |->
     Len(SelectSeq(sidecars, LAMBDA s : RunLevel(s, dimension) # "missing"))]

-----------------------------------------------------------------------------
NoSummary == [exit |-> CI_FORMATTER]

(* runner coverage fleet: the first sidecar that cannot be used decides.   *)
CoverageFleet(sidecars) ==
  LET unusable == {i \in DOMAIN sidecars : LoadCoverageAnnotation(sidecars[i]) # SUCCESS}
  IN  IF sidecars = <<>> THEN [exit |-> CONFIG_ERROR]
      ELSE IF unusable # {}
           THEN [exit |-> LoadCoverageAnnotation(sidecars[Min(unusable)])]
      ELSE [exit |-> SUCCESS,
            dimensions |-> [d \in Measured |-> FleetDimension(sidecars, d)]]

CoverageInit ==
  /\ policy \in Policies
  /\ fleet = <<>>
  /\ summary = NoSummary

(* The claims that a document asserts, in the coverage gate's own list.    *)
Asserted(document) ==
  IF document.schema = CLAIM_ASSERTIONS_SCHEMA THEN document.claims ELSE {}

GateRun(sidecar) ==
  /\ Len(fleet) < MaxRuns
  /\ fleet' = Append(fleet,
       [sidecar |-> sidecar,
        coverage |-> CoverageGate(sidecar, Asserted(policy)),
        claims |-> ClaimsGate(policy, sidecar, FALSE),
        waived |-> ClaimsGate(policy, sidecar, TRUE)])
  /\ summary' = NoSummary
  /\ UNCHANGED policy

SummarizeFleet ==
  /\ summary' = CoverageFleet([i \in DOMAIN fleet |-> fleet[i].sidecar])
  /\ UNCHANGED <<policy, fleet>>

CoverageNext ==
  \/ \E sidecar \in Sidecars : GateRun(sidecar)
  \/ SummarizeFleet

CoverageSpec == CoverageInit /\ [][CoverageNext]_coverage_vars

-----------------------------------------------------------------------------
(***************************************************************************)
(* Properties.                                                             *)
(***************************************************************************)
(* The two gates read one vocabulary.  Claims that the claims gate         *)
(* supports are permitted by the coverage gate, unless a positive one is   *)
(* content with less than partial; claims that the coverage gate permits   *)
(* are supported where they require no more than it does, partial on any   *)
(* basis that the cell states.  Degradation, which --allow-degraded lets   *)
(* pass, is the only difference a waiver makes.                            *)
ClaimGatesAgree ==
  \A i \in DOMAIN fleet :
    LET run == fleet[i]
        Modest(c) == Assertable(c) /\ c.strength = "partial" /\ c.basis = "inferred"
    IN  /\ /\ run.claims = SUCCESS
           /\ policy.claims # {}
           /\ \A c \in policy.claims :
                c.kind = "positive" => RequiredStrength(c) \notin {"absent", "weak"}
           => run.coverage = SUCCESS
        /\ /\ run.coverage = SUCCESS
           /\ \A c \in policy.claims : Modest(c)
           /\ \A j \in DOMAIN run.sidecar.claim_cells :
                run.sidecar.claim_cells[j].basis \in ToSet(Bases)
           => run.claims = SUCCESS
        /\ run.claims # run.waived =>
             /\ run.claims = REGRESSION /\ run.waived = SUCCESS
             /\ \E c \in policy.claims : EvaluateClaim(run.sidecar, c) = "degraded"

(* The floor of a fleet is an answer about every run: it reaches partial   *)
(* exactly when each run's own gate permitted the positive claim, and a    *)
(* fleet whose every run was gated has a summary.                          *)
FloorIsEveryRuns ==
  \A d \in Measured :
    /\ summary # NoSummary
    /\ fleet # <<>>
    /\ {<<c.kind, c.dimension>> : c \in Asserted(policy)} = {<<"positive", d>>}
    => (\A i \in DOMAIN fleet : fleet[i].coverage = SUCCESS)
         <=> /\ summary.exit = SUCCESS
             /\ summary.dimensions[d].fleet_positive_floor \in {"partial", "strong"}
=============================================================================
