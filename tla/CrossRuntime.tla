---------------------------- MODULE CrossRuntime -----------------------------
(***************************************************************************)
(* A cross-runtime diff, which the Runner computes of two archives, as     *)
(* `runner cross-runtime report` and `runner cross-runtime gate` read it   *)
(* (runner_cross_runtime.ts, runner_cross_runtime_validation.ts and        *)
(* cli_runner.ts of harness/src).                                          *)
(***************************************************************************)
EXTENDS ExitCodes

(* The file is missing, is not a JSON object, or is a record: its schema,  *)
(* its two runtimes, the parts that are of their type but do not have the  *)
(* value the clean shape fixes (altered), those that are missing or of     *)
(* another type (missing), and the surface: the entries added in some      *)
(* category, and the lists that are missing, not of strings or with an     *)
(* entry twice (malformed).  Run ids and sdk names are any strings; what   *)
(* is in the lists of removed and unchanged entries decides nothing.       *)
NoRunnerDiff == [schema |-> "absent"]
NotObject == [schema |-> "not an object"]
NoSurface == [malformed |-> {"surface"}]

RUNNER_CROSS_RUNTIME_DIFF_SCHEMA == "assay.runner.cross_runtime_diff.v0"

RUNNER_CROSS_RUNTIME_RUNTIMES == {"s5_openai_agents", "gemini_google_genai"}

ContextParts ==
  {"run_ids", "status", "preconditions", "scope", "canonicalization", "unbound"}
MarkerParts == {"binding_ids", "policy_outcomes", "sdk_metadata"}
DisclaimerParts == {"ambiguities", "non_claims", "notes"}

-----------------------------------------------------------------------------
(***************************************************************************)
(* validateCrossRuntimeDiff()                                              *)
(***************************************************************************)
SchemaKnown(diff) == diff.schema = RUNNER_CROSS_RUNTIME_DIFF_SCHEMA

(* Two runtimes of v0, and not one twice. *)
RuntimesQualified(diff) ==
  /\ {diff.base_runtime, diff.head_runtime} \subseteq RUNNER_CROSS_RUNTIME_RUNTIMES
  /\ diff.base_runtime # diff.head_runtime

(* The parts that are not as in the clean shape. *)
Deviating(diff) == diff.altered \cup diff.missing

(* Status, preconditions, scope, canonicalization and unbound are not only *)
(* objects: each has exactly the values of the clean shape.                *)
ContextClean(diff) == ContextParts \cap Deviating(diff) = {}

SurfaceShaped(diff) == diff.surface.malformed = {}

MarkersKept(diff) == MarkerParts \cap Deviating(diff) = {}

DisclaimersKept(diff) == DisclaimerParts \cap Deviating(diff) = {}

(* A slip: the context is passed through and left to the Runner. *)
ValidatePassingThrough(diff) ==
  /\ SchemaKnown(diff)
  /\ RuntimesQualified(diff)
  /\ SurfaceShaped(diff)
  /\ MarkersKept(diff)
  /\ DisclaimersKept(diff)

ValidateCrossRuntimeDiff(diff) ==
  /\ SchemaKnown(diff)
  /\ RuntimesQualified(diff)
  /\ ContextClean(diff)
  /\ SurfaceShaped(diff)
  /\ MarkersKept(diff)
  /\ DisclaimersKept(diff)

(* buildCrossRuntimeReport(): an entry added in any category. *)
HasAddedCapability(diff) == diff.surface.added # {}

-----------------------------------------------------------------------------
(***************************************************************************)
(* The exit codes.  The report is informational.                           *)
(***************************************************************************)
CrossRuntimeReport(diff) ==
  IF diff = NoRunnerDiff THEN CONFIG_ERROR
  ELSE IF ValidateCrossRuntimeDiff(diff) THEN SUCCESS ELSE ARTIFACT_CONTRACT

CrossRuntimeGate(diff) ==
  IF diff = NoRunnerDiff THEN CONFIG_ERROR
  ELSE IF ~ValidateCrossRuntimeDiff(diff) THEN ARTIFACT_CONTRACT
  ELSE IF HasAddedCapability(diff) THEN REGRESSION ELSE SUCCESS
=============================================================================
