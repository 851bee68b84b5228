---------------------------- MODULE RunnerProofs -----------------------------
(***************************************************************************)
(* What the commands over the Runner's output promise, for any archives,   *)
(* diffs, annotations and claims documents: the agreement of the commands  *)
(* over archives and the bound on the baselines (RunnerGate), and the      *)
(* agreement of the two gates over claims with the fleet's floor           *)
(* (CoverageClaims).                                                       *)
(***************************************************************************)
EXTENDS RunnerGate, CoverageClaims, LogLemmas

(***************************************************************************)
(* Archives and diffs.                                                     *)
(***************************************************************************)
(* The exit codes of a job are those of its inputs and of the baseline of  *)
(* now: no baseline is adopted while the job is kept.                      *)
JobIsCurrent ==
  /\ job.kind = "archives" =>
       /\ job.candidate \in Archives \cup {Absent}
       /\ job.verify = VerifyRunner(job.candidate, job.allow_degraded)
       /\ job.compare = Compare(baseline, job.candidate, job.allow_degraded)
       /\ job.runner = RunnerCompare(baseline, job.candidate, job.allow_degraded)
  /\ job.kind = "diff" =>
       /\ job.report = CrossRuntimeReport(job.diff)
       /\ job.gate = CrossRuntimeGate(job.diff)
       /\ job.candidate # Absent =>
            /\ job.diff = RunnerDiff(baseline, job.candidate)
            /\ \A a \in {baseline, job.candidate} :
                 a # Absent /\ StructuralReasons(a) = {} /\ Parsed(a, SURFACE)

(* The history kept of the baselines covers the present one. *)
HistoryCoversBaseline == DiagnosticOnly(baseline) => diagnosed

ArchivesInv == JobIsCurrent /\ HistoryCoversBaseline /\ BaselinesNeverGrow

-----------------------------------------------------------------------------
(* runner compare succeeds only on an empty list of reasons. *)
LEMMA AdmittedHasNoRegression ==
  ASSUME NEW b, NEW c, NEW allow_degraded,
         RunnerCompare(b, c, allow_degraded) = SUCCESS
  PROVE  RegressionEntries(b, c) = {}
BY DEF RunnerCompare, SUCCESS, CONFIG_ERROR, ARTIFACT_CONTRACT, REGRESSION

(* Where runner compare succeeds, the candidate adds no path, process, tool *)
(* or permission, and no endpoint either unless one side is diagnostic_only *)
(* (computeRegressionReasons).                                             *)
LEMMA AdmittedAddsNothing ==
  ASSUME NEW b, NEW c, NEW allow_degraded,
         RunnerCompare(b, c, allow_degraded) = SUCCESS
  PROVE  /\ Surface(c) \cap (Gated \cup Allows) \subseteq Surface(b)
         /\ ~DiagnosticOnly(b) /\ ~DiagnosticOnly(c)
              => Surface(c) \cap Endpoints \subseteq Surface(b)
BY AdmittedHasNoRegression, Zenon DEF RegressionEntries

(* The start: no baseline and no job. *)
LEMMA InitArchives == Init => ArchivesInv
BY DEF Init, NoJob, ArchivesInv, JobIsCurrent, HistoryCoversBaseline, BaselinesNeverGrow,
       Surface, DiagnosticOnly, Parsed, Recognised

(* Every step of a job and of the team keeps the invariant. *)
LEMMA NextArchives == ArchivesInv /\ [Next]_vars => ArchivesInv'
<1> SUFFICES ASSUME ArchivesInv, [Next]_vars PROVE ArchivesInv'
  OBVIOUS
<1> USE DEF ArchivesInv
<1>1. ASSUME NEW candidate \in Archives \cup {Absent}, NEW allow_degraded, Job(candidate, allow_degraded)
      PROVE  ArchivesInv'
  <2>1. JobIsCurrent'
    <3>1. /\ job'.kind = "archives"
          /\ job'.candidate = candidate
          /\ job'.allow_degraded = allow_degraded
          /\ job'.verify = VerifyRunner(candidate, allow_degraded)
          /\ job'.compare = Compare(baseline, candidate, allow_degraded)
          /\ job'.runner = RunnerCompare(baseline, candidate, allow_degraded)
      BY <1>1 DEF Job
    <3>2. baseline' = baseline
      BY <1>1 DEF Job
    <3>3. QED
      BY <3>1, <3>2, Zenon DEF JobIsCurrent
  <2>2. QED
    BY <1>1, <2>1, Zenon DEF Job, HistoryCoversBaseline, BaselinesNeverGrow
<1>10. ASSUME NEW candidate, NEW diff, CrossRuntimeJob(candidate, diff),
              candidate # Absent =>
                /\ diff = RunnerDiff(baseline, candidate)
                /\ \A a \in {baseline, candidate} : StructuralReasons(a) = {} /\ Parsed(a, SURFACE)
       PROVE  ArchivesInv'
  <2>1. JobIsCurrent'
    <3>1. /\ job'.kind = "diff"
          /\ job'.candidate = candidate
          /\ job'.diff = diff
          /\ job'.report = CrossRuntimeReport(diff)
          /\ job'.gate = CrossRuntimeGate(diff)
      BY <1>10 DEF CrossRuntimeJob
    <3>2. baseline' = baseline
      BY <1>10 DEF CrossRuntimeJob
    <3>3. \A a : Parsed(a, SURFACE) => a # Absent
      BY DEF Parsed, Recognised
    <3>4. job'.kind # "archives"
      BY <3>1
    <3>5. QED
      BY <1>10, <3>1, <3>2, <3>3, <3>4, Zenon DEF JobIsCurrent
  <2>2. QED
    BY <1>10, <2>1, Zenon DEF CrossRuntimeJob, HistoryCoversBaseline, BaselinesNeverGrow
<1>11. ASSUME NEW diff \in RunnerDiffs, CrossRuntimeJob(Absent, diff)
       PROVE  ArchivesInv'
  BY <1>10, <1>11
<1>12. ASSUME NEW candidate \in Archives, RunnerDiffJob(candidate)
       PROVE  ArchivesInv'
  BY <1>10, <1>12 DEF RunnerDiffJob
<1>9. job' = NoJob => JobIsCurrent'
  BY DEF JobIsCurrent, NoJob
<1>2. CASE AdoptFirst
  <2>1. BaselinesNeverGrow'
    BY <1>2 DEF AdoptFirst, BaselinesNeverGrow
  <2>2. QED
    BY <1>2, <1>9, <2>1, Zenon DEF AdoptFirst, HistoryCoversBaseline
<1>3. CASE Adopt
  <2>1. RunnerCompare(baseline, job.candidate, job.allow_degraded) = SUCCESS
    BY <1>3 DEF Adopt, JobIsCurrent
  <2>2. /\ Surface(baseline') \cap (Gated \cup Allows) \subseteq Surface(baseline)
        /\ ~DiagnosticOnly(baseline) /\ ~DiagnosticOnly(baseline')
             => Surface(baseline') \cap Endpoints \subseteq Surface(baseline)
    BY <1>3, <2>1, AdmittedAddsNothing, Zenon DEF Adopt
  <2>3. diagnosed' = (diagnosed \/ DiagnosticOnly(baseline')) /\ origin' = origin
    BY <1>3, Zenon DEF Adopt
  <2>4. (Surface(baseline) \cap (Gated \cup Allows) \subseteq origin)'
    BY <2>2, <2>3, Zenon DEF BaselinesNeverGrow
  <2>5. (~diagnosed => Surface(baseline) \cap Endpoints \subseteq origin)'
    BY <2>2, <2>3, Zenon DEF BaselinesNeverGrow, HistoryCoversBaseline
  <2>6. QED
    BY <1>3, <1>9, <2>3, <2>4, <2>5, Zenon
    DEF Adopt, HistoryCoversBaseline, BaselinesNeverGrow
<1>4. CASE Decline
  BY <1>4, <1>9, Zenon DEF Decline, HistoryCoversBaseline, BaselinesNeverGrow
<1>5. CASE UNCHANGED vars
  BY <1>5, Zenon DEF vars, JobIsCurrent, HistoryCoversBaseline, BaselinesNeverGrow
<1>6. QED
  BY <1>1, <1>11, <1>12, <1>2, <1>3, <1>4, <1>5, Zenon DEF Next

(* The invariant in every state. *)
LEMMA SpecArchives == Spec => []ArchivesInv
BY InitArchives, NextArchives, PTL DEF Spec

-----------------------------------------------------------------------------
(* Admitting any number of candidates one after the other never brings in a *)
(* capability that the first baseline lacked, but endpoints where a        *)
(* baseline was diagnostic_only (runner compare).                          *)
THEOREM BaselinesStayBounded == Spec => []BaselinesNeverGrow
<1>1. ArchivesInv => BaselinesNeverGrow
  BY DEF ArchivesInv
<1>2. QED
  BY <1>1, SpecArchives, PTL

(* compare and runner compare succeed on the archives that verify-runner    *)
(* accepts, and on no others (cli_runner.ts, cli_compare.ts).              *)
THEOREM CommandsAgree == Spec => []VerbsAgree
<1>1. ASSUME JobIsCurrent PROVE VerbsAgree
  <2>1. job.kind = "archives" =>
          /\ job.verify = VerifyRunner(job.candidate, job.allow_degraded)
          /\ job.compare = Compare(baseline, job.candidate, job.allow_degraded)
          /\ job.runner = RunnerCompare(baseline, job.candidate, job.allow_degraded)
    BY <1>1 DEF JobIsCurrent
  <2>2. QED
    BY <2>1 DEF VerbsAgree, VerifyRunner, Compare, RunnerCompare,
       SUCCESS, CONFIG_ERROR, ARTIFACT_CONTRACT, REGRESSION,
       HealthPassed, StructuralReasons
<1>2. ArchivesInv => JobIsCurrent
  BY DEF ArchivesInv
<1>3. QED
  BY <1>1, <1>2, SpecArchives, PTL

(* The Runner's diff of two archives adds an entry only where the candidate *)
(* has one that the baseline lacks, and an entry that it leaves out is a   *)
(* path of the baseline in another work dir.                               *)
LEMMA DiffOfSurfaces ==
  ASSUME NEW b, NEW c
  PROVE  /\ RunnerDiff(b, c).surface.added = {} =>
              \A e \in RegressionEntries(b, c) :
                e \in Gated /\ WorkDirFree[e] \in Normalized(Surface(b))
         /\ RunnerDiff(b, c).surface.added # {} => Surface(c) \ Surface(b) # {}
<1>1. RunnerDiff(b, c).surface.added = Normalized(Surface(c)) \ Normalized(Surface(b))
  BY DEF RunnerDiff
<1>2. ASSUME Normalized(Surface(c)) \subseteq Normalized(Surface(b)), NEW e \in RegressionEntries(b, c)
      PROVE  e \in Gated /\ WorkDirFree[e] \in Normalized(Surface(b))
  <2>1. e \in Surface(c) /\ e \notin Surface(b)
    BY <1>2, Zenon DEF RegressionEntries
  <2>2. (IF e \in Gated THEN WorkDirFree[e] ELSE e) \in Normalized(Surface(b))
    BY <1>2, <2>1, Zenon DEF Normalized
  <2>3. e \in Gated
    <3> SUFFICES ASSUME e \notin Gated PROVE FALSE
      OBVIOUS
    <3>1. PICK x \in Surface(b) : e = IF x \in Gated THEN WorkDirFree[x] ELSE x
      BY <2>2 DEF Normalized
    <3>2. x \notin Gated
      BY <3>1, WorkDirAssumption
    <3>3. QED
      BY <2>1, <3>1, <3>2
  <2>4. QED
    BY <2>2, <2>3
<1>3. Surface(c) \subseteq Surface(b) => Normalized(Surface(c)) \subseteq Normalized(Surface(b))
  BY Zenon DEF Normalized
<1>4. QED
  BY <1>1, <1>2, <1>3, Zenon

(* On the Runner's diff of the archives that runner compare is given, the   *)
(* cross-runtime gate succeeds only where compare found every measurement  *)
(* clean and no entry but the same path in another work dir; the report    *)
(* accepts what the gate judges (cmdRunnerCrossRuntimeReport and           *)
(* cmdRunnerCrossRuntimeGate).                                             *)
THEOREM CrossRuntimeIsOnePolicy == Spec => []CrossRuntimeAgrees
<1>1. ASSUME JobIsCurrent, job.kind = "diff" PROVE CrossRuntimeAgrees
  <2> DEFINE b == baseline
             c == job.candidate
  <2> USE DEF SUCCESS, CONFIG_ERROR, ARTIFACT_CONTRACT, REGRESSION
  <2>1. job.report = CrossRuntimeReport(job.diff) /\ job.gate = CrossRuntimeGate(job.diff)
    BY <1>1 DEF JobIsCurrent
  <2>2. job.report = SUCCESS <=> job.gate \in {SUCCESS, REGRESSION}
    BY <2>1 DEF CrossRuntimeReport, CrossRuntimeGate
  <2>3. ASSUME c # Absent, b.named, c.named
        PROVE  /\ job.gate = SUCCESS =>
                    /\ RunnerCompare(b, c, FALSE) \in {SUCCESS, REGRESSION}
                    /\ \A e \in RegressionEntries(b, c) :
                         e \in Gated /\ WorkDirFree[e] \in Normalized(Surface(b))
               /\ job.gate = REGRESSION /\ RunnerCompare(b, c, FALSE) = SUCCESS =>
                    \E e \in Surface(c) \ Surface(b) :
                      /\ e \notin Gated \cup Allows
                      /\ e \in Endpoints => DiagnosticOnly(b) \/ DiagnosticOnly(c)
    <3>1. /\ job.diff = RunnerDiff(b, c)
          /\ \A a \in {b, c} : a # Absent /\ StructuralReasons(a) = {} /\ Parsed(a, SURFACE)
      BY <1>1, <2>3 DEF JobIsCurrent
    <3> HIDE DEF b, c
    <3>2. ASSUME job.gate \in {SUCCESS, REGRESSION}
          PROVE  /\ RunnerCompare(b, c, FALSE) \in {SUCCESS, REGRESSION}
                 /\ job.gate = SUCCESS <=> job.diff.surface.added = {}
      <4>1. /\ ValidateCrossRuntimeDiff(job.diff)
            /\ job.gate = SUCCESS <=> job.diff.surface.added = {}
        BY <2>1, <3>2 DEF CrossRuntimeGate, HasAddedCapability
      <4>2. "preconditions" \notin job.diff.altered
        BY <4>1 DEF ValidateCrossRuntimeDiff, ContextClean, ContextParts, Deviating
      <4>3. job.diff.altered = IF MeasurementReasons(b) \cup MeasurementReasons(c) = {}
                               THEN {} ELSE {"status", "preconditions"}
        BY <3>1 DEF RunnerDiff
      <4>4. MeasurementReasons(b) = {} /\ MeasurementReasons(c) = {}
        BY <4>2, <4>3
      <4>5. HealthPassed(b, FALSE) /\ HealthPassed(c, FALSE)
        BY <3>1, <4>4 DEF HealthPassed
      <4>6. QED
        BY <2>3, <3>1, <4>1, <4>5 DEF RunnerCompare
    <3>3. RunnerCompare(b, c, FALSE) = SUCCESS => RegressionEntries(b, c) = {}
      BY AdmittedHasNoRegression
    <3>4. job.gate = SUCCESS => \A e \in RegressionEntries(b, c) :
                                  e \in Gated /\ WorkDirFree[e] \in Normalized(Surface(b))
      BY <3>1, <3>2, DiffOfSurfaces
    <3>5. job.gate = REGRESSION => Surface(c) \ Surface(b) # {}
      BY <3>1, <3>2, DiffOfSurfaces
    <3>6. \A e \in Surface(c) \ Surface(b) :
            RegressionEntries(b, c) = {} =>
              /\ e \notin Gated \cup Allows
              /\ e \in Endpoints => DiagnosticOnly(b) \/ DiagnosticOnly(c)
      BY Zenon DEF RegressionEntries
    <3>7. QED
      BY <3>2, <3>3, <3>4, <3>5, <3>6
  <2>4. QED
    BY <2>2, <2>3, Zenon DEF CrossRuntimeAgrees
<1>2. ArchivesInv => CrossRuntimeAgrees
  BY <1>1, Zenon DEF ArchivesInv, CrossRuntimeAgrees
<1>3. QED
  BY <1>2, SpecArchives, PTL

(* An archive that verify-runner accepts, with a waiver or without, is the *)
(* one that its manifest lists, and its two health payloads were read.     *)
LEMMA IntactIfSound ==
  ASSUME NEW a \in Archives \cup {Absent}, StructuralReasons(a) = {}
  PROVE  /\ a.files = a.manifest.listed
         /\ Parsed(a, HEALTH) /\ Parsed(a, REPORT)
<1>1. ManifestValid(a) /\ Parsed(a, HEALTH) /\ Parsed(a, REPORT)
  BY DEF StructuralReasons
<1>2. a \in Archives /\ a.manifest # NoArchiveManifest
  BY <1>1 DEF ManifestValid, Recognised
<1>3. a.files = a.manifest.listed
  <2>1. a.files = [path \in DOMAIN a.files |-> a.files[path]]
    BY <1>2, ContentsAssumption, Zenon DEF IsFunction
  <2>2. a.manifest.listed = [path \in DOMAIN a.manifest.listed |-> a.manifest.listed[path]]
    BY <1>2, ContentsAssumption, Zenon DEF IsFunction
  <2>3. /\ DOMAIN a.files = DOMAIN a.manifest.listed
        /\ \A path \in DOMAIN a.files : a.files[path] = a.manifest.listed[path]
    BY <1>1 DEF ManifestValid
  <2>4. [path \in DOMAIN a.files |-> a.files[path]]
        = [path \in DOMAIN a.manifest.listed |-> a.manifest.listed[path]]
    BY <2>3, Zenon
  <2>5. QED
    BY <2>1, <2>2, <2>4
<1>4. QED
  BY <1>1, <1>3

(* No command judges the contents of an archive that is not the one its    *)
(* manifest lists: --allow-degraded waives measurements, never structure   *)
(* (checkHonestHealth).                                                    *)
THEOREM WaiversKeepIntegrity == Spec => []JudgedArchiveIsIntact
<1>1. ASSUME JobIsCurrent PROVE JudgedArchiveIsIntact
  <2>1. SUFFICES ASSUME job.kind = "archives",
                        \/ job.verify = SUCCESS
                        \/ job.compare = SUCCESS
                        \/ job.runner \in {SUCCESS, REGRESSION}
                 PROVE  StructuralReasons(job.candidate) = {}
    BY <1>1, IntactIfSound DEF JobIsCurrent, JudgedArchiveIsIntact
  <2>2. HealthPassed(job.candidate, job.allow_degraded)
    BY <1>1, <2>1 DEF JobIsCurrent, VerifyRunner, Compare, RunnerCompare,
       SUCCESS, CONFIG_ERROR, ARTIFACT_CONTRACT, REGRESSION
  <2>3. QED
    BY <2>2 DEF HealthPassed
<1>2. ArchivesInv => JobIsCurrent
  BY DEF ArchivesInv
<1>3. QED
  BY <1>1, <1>2, SpecArchives, PTL

-----------------------------------------------------------------------------
(* What a job leaves of a run. *)
GatedRun(run) ==
  /\ run.sidecar \in Sidecars
  /\ run.coverage = CoverageGate(run.sidecar, Asserted(policy))
  /\ run.claims = ClaimsGate(policy, run.sidecar, FALSE)
  /\ run.waived = ClaimsGate(policy, run.sidecar, TRUE)

SidecarsOf(runs) == [i \in DOMAIN runs |-> runs[i].sidecar]

FleetInv ==
  /\ DOMAIN fleet = 1..Len(fleet) /\ Len(fleet) \in Nat
  /\ \A i \in DOMAIN fleet : GatedRun(fleet[i])
  /\ summary # NoSummary => summary = CoverageFleet(SidecarsOf(fleet))

-----------------------------------------------------------------------------
(***************************************************************************)
(* The scales of the levels.                                               *)
(***************************************************************************)
LEMMA StrengthRanks ==
  /\ ToSet(Strengths) = {"absent", "weak", "partial", "strong"}
  /\ Rank(Strengths, "absent") = 1 /\ Rank(Strengths, "weak") = 2
  /\ Rank(Strengths, "partial") = 3 /\ Rank(Strengths, "strong") = 4
  /\ \A v : v \notin ToSet(Strengths) => Rank(Strengths, v) = 0
<1>1. DOMAIN Strengths = 1..4
  BY DEF Strengths
<1>2. ToSet(Strengths) = {"absent", "weak", "partial", "strong"}
  BY <1>1 DEF ToSet, Strengths
<1>3. \A i \in 1..4 : /\ Strengths[i] = "absent" <=> i = 1
                      /\ Strengths[i] = "weak" <=> i = 2
                      /\ Strengths[i] = "partial" <=> i = 3
                      /\ Strengths[i] = "strong" <=> i = 4
  BY DEF Strengths
<1>4. QED
  BY <1>1, <1>2, <1>3 DEF Rank

LEMMA BasisRanks ==
  /\ "inferred" \in ToSet(Bases)
  /\ Rank(Bases, "inferred") = 1
  /\ \A v \in ToSet(Bases) : Rank(Bases, v) >= 1
<1>1. DOMAIN Bases = 1..4
  BY DEF Bases
<1>2. ToSet(Bases) = {"inferred", "reported", "derived", "measured"}
  BY <1>1 DEF ToSet, Bases
<1>3. \A i \in 1..4 : Bases[i] = "inferred" <=> i = 1
  BY DEF Bases
<1>4. \A v \in ToSet(Bases) : \E i \in DOMAIN Bases : Bases[i] = v
  BY DEF ToSet
<1>5. \A v \in ToSet(Bases) : Rank(Bases, v) \in 1..4
  BY <1>1, <1>4 DEF Rank
<1>6. Rank(Bases, "inferred") = 1
  BY <1>1, <1>2, <1>3 DEF Rank
<1>7. QED
  BY <1>2, <1>5, <1>6

(* A bounded set of indices has a last one. *)
LEMMA LastIndex ==
  ASSUME NEW n \in Nat, NEW S \in SUBSET (1..n), S # {}
  PROVE  Max(S) \in S
<1> DEFINE T == {n - i : i \in S}
<1>1. T \subseteq Nat /\ T # {}
  <2>1. \A i \in 1..n : n - i \in Nat
    OBVIOUS
  <2>2. PICK i \in S : TRUE
    OBVIOUS
  <2>3. n - i \in T
    OBVIOUS
  <2>4. QED
    BY <2>1, <2>3
<1> DEFINE Less == OpToRel(<, Nat)
<1>2. IsWellFoundedOn(Less, Nat)
  BY NatLessThanWellFounded
<1>3. \A x, y \in Nat : <<x, y>> \in Less <=> x < y
  BY DEF OpToRel
<1> HIDE DEF T, Less
<1>4. PICK k \in T : \A m \in T : ~(<<m, k>> \in Less)
  BY <1>1, <1>2, WFMin, Zenon
<1>5. \A m \in T : k <= m
  <2>1. \A m \in T : ~(m < k)
    BY <1>1, <1>3, <1>4
  <2>2. QED
    BY <1>1, <2>1
<1>6. PICK i \in S : k = n - i
  BY <1>4 DEF T
<1>7. \A j \in S : i >= j
  BY <1>5, <1>6 DEF T
<1>8. QED
  BY <1>6, <1>7 DEF Max

-----------------------------------------------------------------------------
(***************************************************************************)
(* One claim, read by the two gates.                                       *)
(***************************************************************************)
(* An annotation that is used has a schema and cells about something.      *)
LEMMA UsedSidecar ==
  ASSUME NEW s \in Sidecars, LoadCoverageAnnotation(s) = SUCCESS
  PROVE  /\ Len(s.claim_cells) \in Nat
         /\ DOMAIN s.claim_cells = 1..Len(s.claim_cells)
         /\ CellsOf(s, <<"measured", NoDimension>>) = {}
         /\ CellsOf(s, <<"exhaustive", NoDimension>>) = {}
<1>1. s.schema = COVERAGE_ANNOTATION_SCHEMA
  BY DEF LoadCoverageAnnotation, SUCCESS, CONFIG_ERROR, ARTIFACT_CONTRACT
<1>2. QED
  BY <1>1, SidecarsAssumption DEF CellsOf

(* The cell that counts for a type is one of the annotation's.             *)
LEMMA CountedCell ==
  ASSUME NEW s \in Sidecars, LoadCoverageAnnotation(s) = SUCCESS,
         NEW type, CellsOf(s, type) # {}
  PROVE  \E i \in DOMAIN s.claim_cells : CellByType(s, type) = s.claim_cells[i]
<1>1. Len(s.claim_cells) \in Nat /\ DOMAIN s.claim_cells = 1..Len(s.claim_cells)
  BY UsedSidecar
<1>2. CellsOf(s, type) \in SUBSET (1..Len(s.claim_cells))
  BY <1>1 DEF CellsOf
<1>3. Max(CellsOf(s, type)) \in CellsOf(s, type)
  BY <1>1, <1>2, LastIndex
<1>4. QED
  BY <1>1, <1>2, <1>3 DEF CellByType

(* What the claims gate supports the coverage gate permits, if it asks for *)
(* partial at least (evaluateClaim of the two modules).                    *)
LEMMA SupportedIsPermitted ==
  ASSUME NEW s \in Sidecars, LoadCoverageAnnotation(s) = SUCCESS,
         NEW c, EvaluateClaim(s, c) = "supported",
         c.kind = "positive" => RequiredStrength(c) \notin {"absent", "weak"}
  PROVE  Assertable(c) /\ Permitted(s, c)
<1>1. /\ RequiredStrength(c) \in ToSet(Strengths)
      /\ EvaluateClaimTypos(s, c) = "supported"
  BY DEF EvaluateClaim
<1>2. CASE c.kind = "positive"
  <2> DEFINE type == <<"measured", c.dimension>>
  <2>1. EvaluatePositive(s, c) = "supported"
    BY <1>1, <1>2 DEF EvaluateClaimTypos
  <2>2. /\ CellsOf(s, type) # {}
        /\ Rank(Strengths, CellByType(s, type).strength) >= Rank(Strengths, RequiredStrength(c))
    BY <2>1 DEF EvaluatePositive
  <2>3. Rank(Strengths, RequiredStrength(c)) \in {3, 4}
    BY <1>1, <1>2, StrengthRanks
  <2>4. CellByType(s, type).strength \in {"strong", "partial"}
    <3> DEFINE v == CellByType(s, type).strength
    <3>1. v \in {"absent", "weak"} => Rank(Strengths, v) \in {1, 2}
      BY StrengthRanks
    <3>2. v \notin ToSet(Strengths) => Rank(Strengths, v) = 0
      BY StrengthRanks, Zenon
    <3> HIDE DEF v
    <3>3. v \in ToSet(Strengths) /\ v \notin {"absent", "weak"}
      BY <2>2, <2>3, <3>1, <3>2 DEF v
    <3>4. QED
      BY <3>3, StrengthRanks DEF v
  <2>5. c.dimension # NoDimension
    BY <2>2, UsedSidecar
  <2>6. QED
    BY <1>2, <2>2, <2>4, <2>5 DEF Assertable, Permitted
<1>3. CASE c.kind = "exhaustive"
  <2> DEFINE type == <<"exhaustive", c.dimension>>
  <2>1. EvaluateExhaustive(s, c) = "supported"
    BY <1>1, <1>3 DEF EvaluateClaimTypos
  <2>2. CellsOf(s, type) # {} /\ CellByType(s, type).strength = "partial"
    BY <2>1 DEF EvaluateExhaustive
  <2>3. c.dimension # NoDimension
    BY <2>2, UsedSidecar
  <2>4. QED
    BY <1>3, <2>2, <2>3 DEF Assertable, Permitted
<1>4. CASE c.kind = "bounded_negative"
  <2>1. EvaluateBoundedNegative(s, c) = "supported"
    BY <1>1, <1>4 DEF EvaluateClaimTypos
  <2>2. Unblocked(s, c.dimension)
    BY <2>1 DEF EvaluateBoundedNegative
  <2>3. c.dimension # NoDimension
    BY <2>2, MeasuredAssumption DEF Unblocked
  <2>4. QED
    BY <1>4, <2>2, <2>3 DEF Assertable, Permitted
<1>5. QED
  BY <1>1, <1>2, <1>3, <1>4 DEF EvaluateClaimTypos

(* What the coverage gate permits the claims gate supports, for a claim    *)
(* that asks for no more than partial and any basis that exists.           *)
LEMMA PermittedIsSupported ==
  ASSUME NEW s \in Sidecars, LoadCoverageAnnotation(s) = SUCCESS,
         \A j \in DOMAIN s.claim_cells : s.claim_cells[j].basis \in ToSet(Bases),
         NEW c, Assertable(c), Permitted(s, c), c.strength = "partial", c.basis = "inferred"
  PROVE  EvaluateClaim(s, c) = "supported"
<1>1. RequiredStrength(c) = "partial" /\ RequiredBasis(c) = "inferred"
  BY DEF RequiredStrength, RequiredBasis, Default
<1>2. EvaluateClaim(s, c) = EvaluateClaimTypos(s, c)
  BY <1>1, StrengthRanks, BasisRanks DEF EvaluateClaim
<1>3. CASE c.kind = "positive"
  <2> DEFINE type == <<"measured", c.dimension>>
             cell == CellByType(s, type)
  <2>1. CellsOf(s, type) # {} /\ cell.strength \in {"strong", "partial"}
    BY <1>3 DEF Permitted
  <2>2. cell.basis \in ToSet(Bases)
    BY <2>1, CountedCell
  <2>3. Rank(Strengths, cell.strength) >= Rank(Strengths, "partial")
    BY <2>1, StrengthRanks
  <2>4. Rank(Bases, cell.basis) >= Rank(Bases, "inferred")
    BY <2>2, BasisRanks
  <2>5. EvaluatePositive(s, c) = "supported"
    BY <1>1, <2>1, <2>3, <2>4 DEF EvaluatePositive
  <2>6. QED
    BY <1>2, <1>3, <2>5 DEF EvaluateClaimTypos
<1>4. CASE c.kind = "exhaustive"
  BY <1>2, <1>4 DEF EvaluateClaimTypos, EvaluateExhaustive, Permitted
<1>5. CASE c.kind = "bounded_negative"
  BY <1>2, <1>5 DEF EvaluateClaimTypos, EvaluateBoundedNegative, Permitted, Unblocked
<1>6. QED
  BY <1>3, <1>4, <1>5 DEF Assertable

-----------------------------------------------------------------------------
LEMMA InitFleet == CoverageInit => FleetInv
BY DEF CoverageInit, FleetInv

LEMMA NextFleet == FleetInv /\ [CoverageNext]_coverage_vars => FleetInv'
<1> SUFFICES ASSUME FleetInv, [CoverageNext]_coverage_vars PROVE FleetInv'
  OBVIOUS
<1>1. policy' = policy
  BY DEF CoverageNext, GateRun, SummarizeFleet, coverage_vars
<1>2. \A run : GatedRun(run) => GatedRun(run)'
  BY <1>1 DEF GatedRun
<1>3. ASSUME NEW sidecar \in Sidecars, GateRun(sidecar)
      PROVE  FleetInv'
  <2> DEFINE run == [sidecar |-> sidecar,
                     coverage |-> CoverageGate(sidecar, Asserted(policy)),
                     claims |-> ClaimsGate(policy, sidecar, FALSE),
                     waived |-> ClaimsGate(policy, sidecar, TRUE)]
  <2>1. GatedRun(run)
    BY DEF GatedRun
  <2>2. fleet' = Append(fleet, run)
    BY <1>3 DEF GateRun
  <2> HIDE DEF run
  <2>3. /\ Len(fleet') = Len(fleet) + 1 /\ DOMAIN fleet' = 1..Len(fleet) + 1
        /\ \A i \in 1..Len(fleet) : fleet'[i] = fleet[i]
        /\ fleet'[Len(fleet) + 1] = run
    BY <2>2 DEF FleetInv
  <2>4. \A i \in DOMAIN fleet' : GatedRun(fleet'[i])
    BY <2>1, <2>3 DEF FleetInv
  <2>5. summary' = NoSummary
    BY <1>3 DEF GateRun
  <2>6. QED
    BY <1>2, <2>3, <2>4, <2>5 DEF FleetInv
<1>4. CASE SummarizeFleet
  <2>1. summary' = CoverageFleet(SidecarsOf(fleet)) /\ fleet' = fleet
    BY <1>4 DEF SummarizeFleet, SidecarsOf
  <2>2. QED
    BY <1>2, <2>1 DEF FleetInv
<1>5. CASE UNCHANGED coverage_vars
  BY <1>2, <1>5 DEF FleetInv, coverage_vars
<1>6. QED
  BY <1>3, <1>4, <1>5 DEF CoverageNext

(* Every run of a fleet was gated under the claims document of the team. *)
LEMMA SpecFleet == CoverageSpec => []FleetInv
BY InitFleet, NextFleet, PTL DEF CoverageSpec

(* One run: the verdicts of its two gates, and of the waived one. *)
LEMMA GatesOfARun ==
  ASSUME NEW run, GatedRun(run)
  PROVE  /\ /\ run.claims = SUCCESS
            /\ policy.claims # {}
            /\ \A c \in policy.claims :
                 c.kind = "positive" => RequiredStrength(c) \notin {"absent", "weak"}
            => run.coverage = SUCCESS
         /\ /\ run.coverage = SUCCESS
            /\ \A c \in policy.claims :
                 Assertable(c) /\ c.strength = "partial" /\ c.basis = "inferred"
            /\ \A j \in DOMAIN run.sidecar.claim_cells :
                 run.sidecar.claim_cells[j].basis \in ToSet(Bases)
            => run.claims = SUCCESS
         /\ run.claims # run.waived =>
              /\ run.claims = REGRESSION /\ run.waived = SUCCESS
              /\ \E c \in policy.claims : EvaluateClaim(run.sidecar, c) = "degraded"
<1> DEFINE s == run.sidecar
<1> USE DEF SUCCESS, CONFIG_ERROR, ARTIFACT_CONTRACT, REGRESSION
<1>1. /\ s \in Sidecars
      /\ run.coverage = CoverageGate(s, Asserted(policy))
      /\ run.claims = ClaimsGate(policy, s, FALSE)
      /\ run.waived = ClaimsGate(policy, s, TRUE)
  BY DEF GatedRun
<1> HIDE DEF s
<1>2. run.claims = SUCCESS =>
        /\ LoadCoverageAnnotation(s) = SUCCESS
        /\ policy.schema = CLAIM_ASSERTIONS_SCHEMA
        /\ \A c \in policy.claims : EvaluateClaim(s, c) = "supported"
  BY <1>1 DEF ClaimsGate
<1>3. run.coverage = SUCCESS =>
        /\ LoadCoverageAnnotation(s) = SUCCESS
        /\ policy.schema = CLAIM_ASSERTIONS_SCHEMA
        /\ \A c \in policy.claims : Permitted(s, c)
  BY <1>1 DEF CoverageGate, Asserted
<1>4. ASSUME run.claims = SUCCESS, policy.claims # {},
             \A c \in policy.claims :
               c.kind = "positive" => RequiredStrength(c) \notin {"absent", "weak"}
      PROVE  run.coverage = SUCCESS
  <2>1. \A c \in policy.claims : Assertable(c) /\ Permitted(s, c)
    BY <1>1, <1>2, <1>4, SupportedIsPermitted
  <2>2. QED
    BY <1>1, <1>2, <1>4, <2>1 DEF CoverageGate, Asserted
<1>5. ASSUME run.coverage = SUCCESS,
             \A c \in policy.claims :
               Assertable(c) /\ c.strength = "partial" /\ c.basis = "inferred",
             \A j \in DOMAIN s.claim_cells : s.claim_cells[j].basis \in ToSet(Bases)
      PROVE  run.claims = SUCCESS
  <2>1. \A c \in policy.claims : EvaluateClaim(s, c) = "supported"
    BY <1>1, <1>3, <1>5, PermittedIsSupported
  <2>2. QED
    BY <1>1, <1>3, <1>5, <2>1 DEF ClaimsGate, CLAIM_ASSERTIONS_SCHEMA
<1>6. ASSUME run.claims # run.waived
      PROVE  /\ run.claims = REGRESSION /\ run.waived = SUCCESS
             /\ \E c \in policy.claims : EvaluateClaim(s, c) = "degraded"
  BY <1>1, <1>6 DEF ClaimsGate
<1>7. QED
  BY <1>4, <1>5, <1>6 DEF s

(* What one gate supports the other permits, and a waiver changes nothing  *)
(* but degraded claims (runner coverage gate, runner claims gate).         *)
THEOREM GatesReadOneVocabulary == CoverageSpec => []ClaimGatesAgree
<1>1. FleetInv => ClaimGatesAgree
  BY GatesOfARun, Zenon DEF FleetInv, ClaimGatesAgree
<1>2. QED
  BY <1>1, SpecFleet, PTL

-----------------------------------------------------------------------------
(***************************************************************************)
(* The floor of a fleet.                                                   *)
(***************************************************************************)
Levels == {"missing", "absent", "weak", "partial", "strong"}
Enough == {"partial", "strong"}

(* The weaker of two levels is enough exactly when both are. *)
LEMMA WeakerIsEnough ==
  ASSUME NEW a \in Levels, NEW b \in Levels
  PROVE  /\ WeakerLevel(a, b) \in Levels
         /\ WeakerLevel(a, b) \in Enough <=> a \in Enough /\ b \in Enough
<1> DEFINE order == FLEET_FLOOR_ORDER
<1>1. DOMAIN order = 1..5
  BY DEF FLEET_FLOOR_ORDER
<1>2. \A i \in 1..5 : /\ order[i] = "missing" <=> i = 1
                      /\ order[i] = "absent" <=> i = 2
                      /\ order[i] = "weak" <=> i = 3
                      /\ order[i] = "partial" <=> i = 4
                      /\ order[i] = "strong" <=> i = 5
  BY DEF FLEET_FLOOR_ORDER
<1>3. ToSet(order) = Levels
  BY <1>1 DEF ToSet, Levels, FLEET_FLOOR_ORDER
<1> HIDE DEF order
<1>4. /\ Rank(order, "missing") = 1 /\ Rank(order, "absent") = 2 /\ Rank(order, "weak") = 3
      /\ Rank(order, "partial") = 4 /\ Rank(order, "strong") = 5
  BY <1>1, <1>2, <1>3 DEF Rank, Levels
<1>5. QED
  BY <1>4 DEF order, WeakerLevel, Levels, Enough

LEMMA RunLevelIsLevel ==
  ASSUME NEW s, NEW d
  PROVE  RunLevel(s, d) \in Levels
BY StrengthRanks DEF RunLevel, Levels

FloorOf(floor, sidecars, d, n) ==
  floor = [i \in 1..n |-> IF i = 1 THEN RunLevel(sidecars[i], d)
                          ELSE WeakerLevel(floor[i - 1], RunLevel(sidecars[i], d))]

(* The recursion of foldCoverageFleet() has a value. *)
LEMMA FloorExists ==
  ASSUME NEW sidecars, NEW d, NEW N \in Nat
  PROVE  \E floor : FloorOf(floor, sidecars, d, N)
<1> DEFINE Folded(n) == \E floor : FloorOf(floor, sidecars, d, n)
           P == {n \in Nat : Folded(n)}
           level(i) == RunLevel(sidecars[i], d)
<1>1. 0 \in P
  <2>1. FloorOf(<<>>, sidecars, d, 0)
    BY DEF FloorOf
  <2>2. QED
    BY <2>1
<1>2. ASSUME NEW n \in Nat, n \in P PROVE n + 1 \in P
  <2>1. PICK f : FloorOf(f, sidecars, d, n)
    BY <1>2
  <2> DEFINE g == [i \in 1..(n + 1) |->
                     IF i <= n THEN f[i]
                     ELSE IF i = 1 THEN level(i) ELSE WeakerLevel(f[i - 1], level(i))]
             h == [i \in 1..(n + 1) |-> IF i = 1 THEN level(i) ELSE WeakerLevel(g[i - 1], level(i))]
  <2>2. ASSUME NEW i \in 1..(n + 1)
        PROVE  g[i] = IF i = 1 THEN level(i) ELSE WeakerLevel(g[i - 1], level(i))
    <3> HIDE DEF level
    <3>1. CASE i <= n
      <4>1. g[i] = f[i] /\ i \in 1..n
        BY <3>1
      <4>2. i # 1 => g[i - 1] = f[i - 1]
        BY <3>1
      <4> HIDE DEF g
      <4>3. QED
        BY <2>1, <4>1, <4>2 DEF FloorOf, level
    <3>2. CASE i = n + 1
      <4>1. i # 1 => g[i - 1] = f[i - 1]
        BY <3>2
      <4>2. QED
        BY <3>2, <4>1
    <3>3. QED
      BY <3>1, <3>2
  <2>3. g = h
    BY <2>2, Zenon
  <2> HIDE DEF g
  <2>4. FloorOf(g, sidecars, d, n + 1)
    BY <2>3 DEF FloorOf
  <2> HIDE DEF Folded
  <2>5. QED
    BY <2>4 DEF Folded
<1> HIDE DEF P
<1>3. N \in P
  BY <1>1, <1>2, NatInduct
<1>4. QED
  BY <1>3 DEF P

(* The floor is enough exactly when the level of every run is. *)
LEMMA FloorIsOfAll ==
  ASSUME NEW sidecars, NEW d, Len(sidecars) \in Nat \ {0}, DOMAIN sidecars = 1..Len(sidecars)
  PROVE  FleetPositiveFloor(sidecars, d) \in Enough
           <=> \A i \in DOMAIN sidecars : RunLevel(sidecars[i], d) \in Enough
<1> DEFINE N == Len(sidecars)
           level(i) == RunLevel(sidecars[i], d)
           floor == CHOOSE f : FloorOf(f, sidecars, d, N)
<1>1. N \in Nat \ {0} /\ DOMAIN sidecars = 1..N
  OBVIOUS
<1>2. FleetPositiveFloor(sidecars, d) = floor[N]
  BY <1>1 DEF FleetPositiveFloor, FloorOf
<1>3. FloorOf(floor, sidecars, d, N)
  BY <1>1, FloorExists
<1> HIDE DEF floor, N
<1>4. /\ 1 \in 1..N => floor[1] = level(1)
      /\ \A i \in 1..N : i # 1 => floor[i] = WeakerLevel(floor[i - 1], level(i))
  BY <1>1, <1>3 DEF FloorOf
<1> DEFINE Right(n) == /\ floor[n] \in Levels
                       /\ floor[n] \in Enough <=> \A i \in 1..n : level(i) \in Enough
           P == {n \in Nat : n + 1 \in 1..N => Right(n + 1)}
<1>5. \A i : level(i) \in Levels
  BY RunLevelIsLevel
<1> HIDE DEF level
<1>6. 0 \in P
  BY <1>4, <1>5
<1>7. ASSUME NEW n \in Nat, n \in P PROVE n + 1 \in P
  <2> SUFFICES ASSUME n + 2 \in 1..N PROVE Right(n + 2)
    OBVIOUS
  <2>1. Right(n + 1)
    BY <1>1, <1>7
  <2>2. (n + 2) - 1 = n + 1 /\ n + 2 # 1
    OBVIOUS
  <2>3. floor[n + 2] = WeakerLevel(floor[n + 1], level(n + 2))
    BY <1>4, <2>2
  <2>4. /\ floor[n + 2] \in Levels
        /\ floor[n + 2] \in Enough <=> floor[n + 1] \in Enough /\ level(n + 2) \in Enough
    BY <1>5, <2>1, <2>3, WeakerIsEnough
  <2>5. 1..(n + 2) = 1..(n + 1) \cup {n + 2}
    OBVIOUS
  <2>6. QED
    BY <2>1, <2>4, <2>5
<1> HIDE DEF P
<1>8. N - 1 \in P /\ N - 1 \in Nat
  BY <1>1, <1>6, <1>7, NatInduct
<1>9. Right(N)
  <2>1. (N - 1) + 1 = N /\ N \in 1..N
    BY <1>1
  <2>2. QED
    BY <1>8, <2>1 DEF P
<1>10. QED
  BY <1>1, <1>2, <1>9 DEF level

(* The coverage gate's answer to positive claims about one dimension is the *)
(* level of the run in the fleet (evaluateClaim and foldCoverageFleet).    *)
LEMMA GateIsLevel ==
  ASSUME NEW s \in Sidecars, NEW claims, NEW d \in Measured,
         {<<c.kind, c.dimension>> : c \in claims} = {<<"positive", d>>}
  PROVE  CoverageGate(s, claims) = SUCCESS
           <=> LoadCoverageAnnotation(s) = SUCCESS /\ RunLevel(s, d) \in Enough
<1>1. /\ claims # {}
      /\ \A c \in claims : c.kind = "positive" /\ c.dimension = d
  <2>1. \A c \in claims : <<c.kind, c.dimension>> = <<"positive", d>>
    OBVIOUS
  <2>2. claims # {}
    OBVIOUS
  <2>3. QED
    BY <2>1, <2>2
<1>2. \A c \in claims : Assertable(c)
  BY <1>1, MeasuredAssumption DEF Assertable
<1>3. \A c \in claims : Permitted(s, c) <=> RunLevel(s, d) \in Enough
  <2> TAKE c \in claims
  <2> DEFINE type == <<"measured", d>>
  <2>1. Permitted(s, c) <=> /\ CellsOf(s, type) # {}
                            /\ CellByType(s, type).strength \in {"strong", "partial"}
    BY <1>1 DEF Permitted
  <2>2. QED
    BY <2>1, StrengthRanks DEF RunLevel, Enough
<1>4. QED
  BY <1>1, <1>2, <1>3
  DEF CoverageGate, SUCCESS, CONFIG_ERROR, REGRESSION

(* A set of indices has a first one. *)
LEMMA FirstIndex ==
  ASSUME NEW n \in Nat, NEW S \in SUBSET (1..n), S # {}
  PROVE  Min(S) \in S
<1> DEFINE Less == OpToRel(<, Nat)
<1>1. IsWellFoundedOn(Less, Nat)
  BY NatLessThanWellFounded
<1>2. \A x, y \in Nat : <<x, y>> \in Less <=> x < y
  BY DEF OpToRel
<1>3. S \subseteq Nat
  OBVIOUS
<1> HIDE DEF Less
<1>4. PICK k \in S : \A m \in S : ~(<<m, k>> \in Less)
  BY <1>1, <1>3, WFMin, Zenon
<1>5. \A m \in S : ~(m < k)
  BY <1>2, <1>3, <1>4
<1>6. \A m \in S : k <= m
  BY <1>3, <1>5
<1>7. QED
  BY <1>6 DEF Min

(* A fleet has a summary exactly when every annotation of it is usable. *)
LEMMA SummaryOfUsable ==
  ASSUME NEW sidecars, Len(sidecars) \in Nat \ {0}, DOMAIN sidecars = 1..Len(sidecars),
         NEW d \in Measured
  PROVE  /\ CoverageFleet(sidecars).exit = SUCCESS
              <=> \A i \in DOMAIN sidecars : LoadCoverageAnnotation(sidecars[i]) = SUCCESS
         /\ CoverageFleet(sidecars).exit = SUCCESS =>
              CoverageFleet(sidecars).dimensions[d].fleet_positive_floor
                = FleetPositiveFloor(sidecars, d)
<1> DEFINE unusable == {i \in DOMAIN sidecars : LoadCoverageAnnotation(sidecars[i]) # SUCCESS}
<1>1. sidecars # <<>>
  OBVIOUS
<1>2. CASE unusable = {}
  <2>1. CoverageFleet(sidecars) =
          [exit |-> SUCCESS, dimensions |-> [e \in Measured |-> FleetDimension(sidecars, e)]]
    BY <1>1, <1>2 DEF CoverageFleet
  <2>2. FleetDimension(sidecars, d).fleet_positive_floor = FleetPositiveFloor(sidecars, d)
    BY DEF FleetDimension
  <2>3. CoverageFleet(sidecars).exit = SUCCESS
    BY <2>1
  <2>4. CoverageFleet(sidecars).dimensions[d] = FleetDimension(sidecars, d)
    BY <2>1
  <2>5. QED
    BY <1>2, <2>2, <2>3, <2>4
<1>3. CASE unusable # {}
  <2>1. Min(unusable) \in unusable
    BY <1>3, FirstIndex
  <2>2. CoverageFleet(sidecars) = [exit |-> LoadCoverageAnnotation(sidecars[Min(unusable)])]
    BY <1>1, <1>3 DEF CoverageFleet
  <2>3. CoverageFleet(sidecars).exit # SUCCESS
    BY <2>1, <2>2
  <2>4. QED
    BY <1>3, <2>3
<1>4. QED
  BY <1>2, <1>3

(* The floor that `runner coverage fleet` reports for a dimension reaches   *)
(* partial exactly when the coverage gate let every run of the fleet claim *)
(* the dimension.                                                          *)
THEOREM FloorSpeaksForAll == CoverageSpec => []FloorIsEveryRuns
<1>1. ASSUME FleetInv, NEW d \in Measured, summary # NoSummary, fleet # <<>>,
             {<<c.kind, c.dimension>> : c \in Asserted(policy)} = {<<"positive", d>>}
      PROVE  (\A i \in DOMAIN fleet : fleet[i].coverage = SUCCESS)
               <=> /\ summary.exit = SUCCESS
                   /\ summary.dimensions[d].fleet_positive_floor \in {"partial", "strong"}
  <2> DEFINE sidecars == SidecarsOf(fleet)
  <2>1. Len(fleet) \in Nat \ {0} /\ DOMAIN fleet = 1..Len(fleet)
    BY <1>1 DEF FleetInv
  <2>2. DOMAIN sidecars = DOMAIN fleet /\ \A i \in DOMAIN fleet : sidecars[i] = fleet[i].sidecar
    BY DEF SidecarsOf
  <2>3. Len(sidecars) = Len(fleet)
    BY <2>1, <2>2
  <2>4. \A i \in DOMAIN fleet :
          fleet[i].coverage = SUCCESS
            <=> /\ LoadCoverageAnnotation(sidecars[i]) = SUCCESS
                /\ RunLevel(sidecars[i], d) \in Enough
    BY <1>1, <2>2, GateIsLevel DEF FleetInv, GatedRun
  <2>5. summary = CoverageFleet(sidecars)
    BY <1>1 DEF FleetInv
  <2> HIDE DEF sidecars
  <2>6. /\ summary.exit = SUCCESS
             <=> \A i \in DOMAIN sidecars : LoadCoverageAnnotation(sidecars[i]) = SUCCESS
        /\ summary.exit = SUCCESS =>
             summary.dimensions[d].fleet_positive_floor = FleetPositiveFloor(sidecars, d)
    BY <2>1, <2>2, <2>3, <2>5, SummaryOfUsable
  <2>7. FleetPositiveFloor(sidecars, d) \in Enough
          <=> \A i \in DOMAIN sidecars : RunLevel(sidecars[i], d) \in Enough
    BY <2>1, <2>2, <2>3, FloorIsOfAll
  <2>8. QED
    BY <2>2, <2>4, <2>6, <2>7 DEF Enough
<1>2. FleetInv => FloorIsEveryRuns
  BY <1>1, Zenon DEF FloorIsEveryRuns
<1>3. QED
  BY <1>2, SpecFleet, PTL
=============================================================================
