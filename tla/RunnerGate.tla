----------------------------- MODULE RunnerGate ------------------------------
(***************************************************************************)
(* Runner archives at the gate: the validation of an archive and the three *)
(* commands that decide on it, verify-runner, compare and runner compare   *)
(* (runner_archive.ts, runner_archive_health.ts, compare_runner_archive.ts, *)
(* runner_compare.ts, cli_runner.ts, cli_compare.ts of harness/src).       *)
(*                                                                         *)
(* A job runs the three commands on a candidate and the baseline of the    *)
(* moment; a candidate that `runner compare` admits may be made the next   *)
(* baseline.  That last step is the team's, not a command's.  Another kind *)
(* of job runs the two commands on a cross-runtime diff, which the Runner  *)
(* may have computed of the same two archives.                             *)
(***************************************************************************)
EXTENDS CrossRuntime

CONSTANTS
  Archives,     \* The files a job may be given: see Archive.
  Gated,        \* Entries of filesystem_paths, process_execs and mcp_tools.
  Endpoints,    \* Entries of network_endpoints.
  Allows,       \* Policy decisions allow:*.
  Others,       \* Policy decisions deny:* and out of contract.
  RunnerDiffs,  \* Cross-runtime diff files of any origin: see CrossRuntime.
  WorkDirFree  \* A path, relative to the work dir of its run if it is in it.

VARIABLES
  baseline,   \* The archive that candidates are compared with, or Absent.
  origin,     \* The capabilities of the first baseline.
  diagnosed,  \* Whether a baseline so far was diagnostic_only.
  job         \* The last job's inputs and exit codes, or NoJob.

vars == <<baseline, origin, diagnosed, job>>

(* An entry belongs to one category of the surface. *)
ASSUME CategoriesAssumption ==
  /\ Gated \cap (Endpoints \cup Allows \cup Others) = {}
  /\ Endpoints \cap (Allows \cup Others) = {}
  /\ Allows \cap Others = {}

(* Processes and tools are in no work dir. *)
ASSUME WorkDirAssumption == WorkDirFree \in [Gated -> Gated]

(* Payloads of an archive.  The two health payloads name the measurements   *)
(* that are not clean; anything that is not JSON, has another schema or    *)
(* another shape is garbled.                                               *)
HEALTH == "observation-health.json"
REPORT == "correlation-report.json"
SURFACE == "capability-surface.json"
GarbledPayload == [kind |-> "garbled"]

(* An archive without a manifest that names it a Runner archive, one that  *)
(* cannot be read included.                                                *)
NoArchiveManifest == [kind |-> "none"]
Absent == [kind |-> "absent"]

(* What validateRunnerArchive() can tell apart is a record of three fields: *)
(* named, whether the extension is an archive's; manifest,                 *)
(* NoArchiveManifest or [shaped, listed], whether run_id and files have    *)
(* their shape and the contents whose digests the manifest lists; files,   *)
(* the contents of the other files.  Contents are functions from paths;    *)
(* equal digests are equal contents.                                       *)
IsFunction(f) == f = [path \in DOMAIN f |-> f[path]]

ASSUME ContentsAssumption ==
  \A a \in Archives :
    /\ IsFunction(a.files)
    /\ a.manifest # NoArchiveManifest => IsFunction(a.manifest.listed)

-----------------------------------------------------------------------------
(***************************************************************************)
(* validateRunnerArchive() and checkHonestHealth().                        *)
(***************************************************************************)
Recognised(a) == a # Absent /\ a.manifest # NoArchiveManifest

(* Every entry is there with its bytes and its digest, every file has an   *)
(* entry.                                                                  *)
ManifestValid(a) ==
  /\ Recognised(a)
  /\ a.manifest.shaped
  /\ DOMAIN a.files = DOMAIN a.manifest.listed
  /\ \A path \in DOMAIN a.files : a.files[path] = a.manifest.listed[path]

Parsed(a, path) ==
  /\ Recognised(a)
  /\ path \in DOMAIN a.files
  /\ a.files[path].kind = path

StructuralReasons(a) ==
  {reason \in {"manifest_or_digest_validation_failed"} : ~ManifestValid(a)}
    \cup {path \in {HEALTH, REPORT} : ~Parsed(a, path)}

MeasurementReasons(a) ==
  UNION {a.files[path].failing : path \in {p \in {HEALTH, REPORT} : Parsed(a, p)}}

(* A slip: allow_degraded waives every reason. *)
HealthPassedWaivingAll(a, allow_degraded) ==
  allow_degraded \/ (StructuralReasons(a) = {} /\ MeasurementReasons(a) = {})

HealthPassed(a, allow_degraded) ==
  /\ StructuralReasons(a) = {}
  /\ allow_degraded \/ MeasurementReasons(a) = {}

-----------------------------------------------------------------------------
(***************************************************************************)
(* compareRunnerArchivesCapabilitySurface()                                *)
(***************************************************************************)
DiagnosticOnly(a) == Parsed(a, HEALTH) /\ a.files[HEALTH].diagnostic_only

(* The entries of the surface; an archive without one has none. *)
Surface(a) == IF Parsed(a, SURFACE) THEN a.files[SURFACE].entries ELSE {}

(* A slip: a new decision is a report whatever it decides. *)
RegressionsReportingPolicy(b, c) ==
  LET added == Surface(c) \ Surface(b)
  IN  (added \cap Gated)
        \cup (IF DiagnosticOnly(b) \/ DiagnosticOnly(c)
              THEN {} ELSE added \cap Endpoints)

(* The added entries that count: endpoints do not when either side says    *)
(* that its endpoints are attempts only, and of the policy decisions only  *)
(* the new permissions do.                                                 *)
RegressionEntries(b, c) ==
  LET added == Surface(c) \ Surface(b)
  IN  (added \cap (Gated \cup Allows))
        \cup (IF DiagnosticOnly(b) \/ DiagnosticOnly(c)
              THEN {} ELSE added \cap Endpoints)

-----------------------------------------------------------------------------
(***************************************************************************)
(* The exit codes.                                                         *)
(***************************************************************************)
VerifyRunner(a, allow_degraded) ==
  IF a = Absent THEN CONFIG_ERROR
  ELSE IF ~ManifestValid(a) THEN ARTIFACT_CONTRACT
  ELSE IF HealthPassed(a, allow_degraded) THEN SUCCESS ELSE REGRESSION

(* A slip: the health of the baseline is not looked at. *)
CompareOneSided(b, c, allow_degraded) ==
  IF b = Absent \/ c = Absent THEN CONFIG_ERROR
  ELSE IF ~b.named \/ ~c.named THEN CONFIG_ERROR
  ELSE IF ~ManifestValid(b) \/ ~ManifestValid(c) THEN ARTIFACT_CONTRACT
  ELSE IF HealthPassed(c, allow_degraded) THEN SUCCESS ELSE REGRESSION

(* compare on two archives; a file of another extension is refused. *)
Compare(b, c, allow_degraded) ==
  IF b = Absent \/ c = Absent THEN CONFIG_ERROR
  ELSE IF ~b.named \/ ~c.named THEN CONFIG_ERROR
  ELSE IF ~ManifestValid(b) \/ ~ManifestValid(c) THEN ARTIFACT_CONTRACT
  ELSE IF HealthPassed(b, allow_degraded) /\ HealthPassed(c, allow_degraded)
       THEN SUCCESS ELSE REGRESSION

RunnerCompare(b, c, allow_degraded) ==
  IF b = Absent \/ c = Absent THEN CONFIG_ERROR
  ELSE IF ~b.named \/ ~c.named THEN CONFIG_ERROR
  ELSE IF ~HealthPassed(b, allow_degraded) \/ ~HealthPassed(c, allow_degraded)
       THEN ARTIFACT_CONTRACT
  ELSE IF ~Parsed(b, SURFACE) \/ ~Parsed(c, SURFACE) THEN ARTIFACT_CONTRACT
  ELSE IF RegressionEntries(b, c) # {} THEN REGRESSION ELSE SUCCESS

-----------------------------------------------------------------------------
(***************************************************************************)
(* The Runner's own diff of two archives it wrote: a set difference of the *)
(* surfaces, their paths taken relative to the work dirs.  The shape is    *)
(* clean when the measurements of both sides are.                          *)
(***************************************************************************)
Normalized(entries) ==
  {IF e \in Gated THEN WorkDirFree[e] ELSE e : e \in entries}

RunnerDiff(b, c) ==
  [schema       |-> RUNNER_CROSS_RUNTIME_DIFF_SCHEMA,
   base_runtime |-> "s5_openai_agents",
   head_runtime |-> "gemini_google_genai",
   altered |-> IF MeasurementReasons(b) \cup MeasurementReasons(c) = {}
               THEN {} ELSE {"status", "preconditions"},
   missing |-> {},
   surface |-> [added    |-> Normalized(Surface(c)) \ Normalized(Surface(b)),
                malformed |-> {}]]

-----------------------------------------------------------------------------
NoJob == [kind |-> "none"]

Init ==
  /\ baseline = Absent
  /\ origin = {}
  /\ diagnosed = FALSE
  /\ job = NoJob

(* The three commands on one candidate, with or without --allow-degraded. *)
Job(candidate, allow_degraded) ==
  /\ job = NoJob
  /\ job' = [kind |-> "archives",
             candidate |-> candidate,
             allow_degraded |-> allow_degraded,
             verify  |-> VerifyRunner(candidate, allow_degraded),
             compare |-> Compare(baseline, candidate, allow_degraded),
             runner  |-> RunnerCompare(baseline, candidate, allow_degraded)]
  /\ UNCHANGED <<baseline, origin, diagnosed>>

(* The two commands on a diff file. *)
CrossRuntimeJob(candidate, diff) ==
  /\ job = NoJob
  /\ job' = [kind |-> "diff",
             candidate |-> candidate,
             diff   |-> diff,
             report |-> CrossRuntimeReport(diff),
             gate   |-> CrossRuntimeGate(diff)]
  /\ UNCHANGED <<baseline, origin, diagnosed>>

(* The Runner makes its diff of archives that are whole. *)
RunnerDiffJob(candidate) ==
  /\ CrossRuntimeJob(candidate, RunnerDiff(baseline, candidate))
  /\ \A a \in {baseline, candidate} : StructuralReasons(a) = {} /\ Parsed(a, SURFACE)

(* The first baseline is a candidate that verify-runner accepted. *)
AdoptFirst ==
  /\ job.kind = "archives"
  /\ baseline = Absent
  /\ job.verify = SUCCESS
  /\ baseline' = job.candidate
  /\ origin' = Surface(baseline')
  /\ diagnosed' = DiagnosticOnly(baseline')
  /\ job' = NoJob

(* Any later one was admitted by runner compare. *)
Adopt ==
  /\ job.kind = "archives"
  /\ job.runner = SUCCESS
  /\ baseline' = job.candidate
  /\ diagnosed' = (diagnosed \/ DiagnosticOnly(baseline'))
  /\ job' = NoJob
  /\ UNCHANGED origin

Decline ==
  /\ job # NoJob
  /\ job' = NoJob
  /\ UNCHANGED <<baseline, origin, diagnosed>>

Next ==
  \/ \E candidate \in Archives \cup {Absent}, allow_degraded \in BOOLEAN :
       Job(candidate, allow_degraded)
  \/ \E diff \in RunnerDiffs : CrossRuntimeJob(Absent, diff)
  \/ \E candidate \in Archives : RunnerDiffJob(candidate)
  \/ AdoptFirst
  \/ Adopt
  \/ Decline

Spec == Init /\ [][Next]_vars

-----------------------------------------------------------------------------
(***************************************************************************)
(* Properties.                                                             *)
(***************************************************************************)
(* The three commands tell one story of the same files: compare succeeds   *)
(* exactly when verify-runner does on both sides and the files are named   *)
(* as archives; runner compare reaches its diff exactly when compare       *)
(* succeeds and both surfaces are there.                                   *)
VerbsAgree ==
  job.kind = "archives" =>
    LET Verified(a) == VerifyRunner(a, job.allow_degraded) = SUCCESS
    IN  /\ job.compare = SUCCESS <=>
             /\ Verified(baseline) /\ job.verify = SUCCESS
             /\ baseline.named /\ job.candidate.named
        /\ job.runner \in {SUCCESS, REGRESSION} <=>
             /\ job.compare = SUCCESS
             /\ Parsed(baseline, SURFACE) /\ Parsed(job.candidate, SURFACE)

(* The gate over the Runner's diff of the same two archives stands with    *)
(* runner compare (without the waiver) in two independent readings of one  *)
(* policy: where it succeeds, both sides were measured cleanly, and any    *)
(* entry that runner compare would count is a path of the baseline in      *)
(* another work dir; where it alone finds a regression, the entry is a     *)
(* decision that permits nothing, or an endpoint that was only attempted.  *)
(* And the report accepts the diffs that the gate judges.                  *)
CrossRuntimeAgrees ==
  job.kind = "diff" =>
    /\ job.report = SUCCESS <=> job.gate \in {SUCCESS, REGRESSION}
    /\ job.candidate # Absent /\ baseline.named /\ job.candidate.named =>
         LET compared == RunnerCompare(baseline, job.candidate, FALSE)
             added    == Surface(job.candidate) \ Surface(baseline)
         IN  /\ job.gate = SUCCESS =>
                  /\ compared \in {SUCCESS, REGRESSION}
                  /\ \A e \in RegressionEntries(baseline, job.candidate) :
                       /\ e \in Gated
                       /\ WorkDirFree[e] \in Normalized(Surface(baseline))
             /\ job.gate = REGRESSION /\ compared = SUCCESS =>
                  \E e \in added :
                    /\ e \notin Gated \cup Allows
                    /\ e \in Endpoints =>
                         DiagnosticOnly(baseline) \/ DiagnosticOnly(job.candidate)

(* What the comments say of the gate, runner_cross_runtime_validation.ts:   *)
(* 253-257 and cli_runner.ts:281-289: of preconditions, scope,             *)
(* canonicalization and unbound only the presence is validated, and of the *)
(* policy decisions added to a valid diff the allows are a regression, as  *)
(* within one runtime.  The code wants every value of the clean shape, and *)
(* counts any decision that is added, a denial too.                        *)
GateRoutesAsCommented ==
  /\ job.kind = "diff"
  /\ SchemaKnown(job.diff) /\ RuntimesQualified(job.diff) /\ SurfaceShaped(job.diff)
  /\ job.diff.altered \subseteq {"preconditions", "scope", "canonicalization", "unbound"}
  /\ job.diff.missing = {}
  => job.gate = IF job.diff.surface.added \subseteq Others THEN SUCCESS ELSE REGRESSION

(* --allow-degraded waives measurements only.  An archive that some command *)
(* judges by its contents, a waived one included, is the archive its       *)
(* manifest lists, and both health payloads were read.                     *)
JudgedArchiveIsIntact ==
  /\ job.kind = "archives"
  /\ \/ job.verify = SUCCESS
     \/ job.compare = SUCCESS
     \/ job.runner \in {SUCCESS, REGRESSION}
  => /\ job.candidate.files = job.candidate.manifest.listed
     /\ Parsed(job.candidate, HEALTH) /\ Parsed(job.candidate, REPORT)

(* However many candidates were admitted one after the other, with or      *)
(* without --allow-degraded, the baseline has no path, process, tool or    *)
(* permission that the first one did not have, and no endpoint either      *)
(* unless a baseline on the way was diagnostic_only.                       *)
BaselinesNeverGrow ==
  /\ Surface(baseline) \cap (Gated \cup Allows) \subseteq origin
  /\ ~diagnosed => Surface(baseline) \cap Endpoints \subseteq origin
=============================================================================
