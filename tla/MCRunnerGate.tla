---------------------------- MODULE MCRunnerGate -----------------------------
(***************************************************************************)
(* Values for RunnerGate and CoverageClaims, which read what the same      *)
(* Runner leaves.  RunnerGate has one entry of each kind, one path more    *)
(* that is the same in another work dir, and archives that are sound in    *)
(* all but one respect.                                                    *)
(***************************************************************************)
EXTENDS RunnerGate, CoverageClaims, Functions, TLC

CONSTANTS path, moved, endpoint, allowed, denied, drops

(* Payloads that parse, and garbled ones. *)
MCHealths ==
  [kind : {HEALTH}, failing : SUBSET {drops}, diagnostic_only : BOOLEAN]
MCReports == [kind : {REPORT}, failing : {{}, {"status"}}]
MCSurfaces ==
  [kind : {SURFACE},
   entries : SUBSET {path, endpoint, allowed} \cup {{denied}, {moved, allowed}}]

MCWorkDirFree == path :> path @@ moved :> path

Contents(health, report, surface) ==
  HEALTH :> health @@ REPORT :> report @@ SURFACE :> surface

(* Measurements fail on one side of an archive at a time. *)
MCFiles ==
  {Contents(m[1], m[2], s) :
     m \in {<<h, r>> \in MCHealths \X MCReports : {} \in {h.failing, r.failing}},
     s \in MCSurfaces}

MCSound ==
  Contents([kind |-> HEALTH, failing |-> {}, diagnostic_only |-> FALSE],
           [kind |-> REPORT, failing |-> {}],
           [kind |-> SURFACE, entries |-> {path}])

(* One payload garbled or missing, the manifest agreeing with the files. *)
MCDamaged ==
  {[MCSound EXCEPT ![p] = GarbledPayload] : p \in DOMAIN MCSound}
    \cup {Restrict(MCSound, DOMAIN MCSound \ {p}) : p \in DOMAIN MCSound}

SealedArchive(files) ==
  [named |-> TRUE, manifest |-> [shaped |-> TRUE, listed |-> files], files |-> files]

(* The sound archive under another extension, without a manifest, with a   *)
(* manifest of another shape, and with a file that the manifest does not   *)
(* list, lacks or has with other contents.                                 *)
MCFlawed ==
  {[SealedArchive(MCSound) EXCEPT !.named = FALSE],
   [SealedArchive(MCSound) EXCEPT !.manifest = NoArchiveManifest],
   [SealedArchive(MCSound) EXCEPT !.manifest.shaped = FALSE]}
    \cup {[SealedArchive(MCSound) EXCEPT !.files = f] : f \in MCDamaged}
    \cup {[SealedArchive(MCSound) EXCEPT !.manifest.listed = f] : f \in MCDamaged}

(* The Runner's diff of two archives that add this, and the same diff in    *)
(* every way not the clean shape.                                          *)
CleanDiff(added) ==
  [schema |-> RUNNER_CROSS_RUNTIME_DIFF_SCHEMA,
   base_runtime |-> "gemini_google_genai", head_runtime |-> "s5_openai_agents",
   altered |-> {}, missing |-> {}, surface |-> [added |-> added, malformed |-> {}]]

MCRunnerDiffs ==
  LET clean == CleanDiff({path})
  IN  {NoRunnerDiff, NotObject, CleanDiff({}), CleanDiff({denied}), clean,
       [clean EXCEPT !.schema = "assay.runner.cross_runtime_diff.v1"],
       [clean EXCEPT !.base_runtime = clean.head_runtime],
       [clean EXCEPT !.head_runtime = "claude_agent_sdk"],
       [clean EXCEPT !.surface = NoSurface],
       [clean EXCEPT !.surface.malformed = {"removed"}]}
        \cup UNION {{[clean EXCEPT !.altered = {part}], [clean EXCEPT !.missing = {part}]} :
                      part \in ContextParts \cup MarkerParts \cup DisclaimerParts}

MCArchives == {SealedArchive(f) : f \in MCFiles \cup MCDamaged} \cup MCFlawed

(***************************************************************************)
(* CoverageClaims: one measured dimension and one that is only reported.   *)
(***************************************************************************)
FILES == "filesystem_paths_touched"
SDK == "sdk_declared_tools"
MCMeasured == {FILES}

MCMeasuredCells ==
  [type : {<<"measured", FILES>>}, basis : {"measured", "unspecified"},
   strength : ToSet(Strengths) \cup {"unspecified"}]
    \cup [type : {<<"measured", SDK>>}, basis : {"reported"}, strength : {"strong"}]

MCExhaustiveCells ==
  [type : {<<"exhaustive", FILES>>}, basis : {"measured"},
   strength : {"partial", "weak", "absent"}]

MCCell == [type |-> <<"measured", FILES>>, basis |-> "measured", strength |-> "partial"]

(* No cell, one, and two of one type: the later one counts.                *)
MCCellLists ==
  {<<>>} \cup {<<c>> : c \in MCMeasuredCells \cup MCExhaustiveCells}
    \cup {<<MCCell, c>> : c \in MCMeasuredCells}

Annotation(schema, cells, blocked) ==
  [schema |-> schema, claim_cells |-> cells, blocked_claims |-> blocked]

MCSidecars ==
  {NoSidecar, NotJSON,
   Annotation("assay.other.v0", <<MCCell>>, {}),
   Annotation(COVERAGE_ANNOTATION_SCHEMA, <<[MCCell EXCEPT !.type = NoType]>>, {})}
    \cup {Annotation(COVERAGE_ANNOTATION_SCHEMA, cells, blocked) :
            cells \in MCCellLists, blocked \in {{}, {FILES}}}

MCClaim == [kind |-> "positive", dimension |-> FILES,
            strength |-> "partial", basis |-> "inferred"]

(* One claim in each respect of its own, two claims, none, and documents   *)
(* that are missing or of another schema.                                  *)
MCPolicies ==
  [schema : {CLAIM_ASSERTIONS_SCHEMA},
   claims : {{}, {MCClaim, [MCClaim EXCEPT !.kind = "exhaustive"]}}
     \cup {{[MCClaim EXCEPT !.kind = k, !.strength = s]} :
             k \in {"positive", "exhaustive", "bounded_negative", "sweeping"},
             s \in {"partial", Default, "prtial"}}
     \cup {{[MCClaim EXCEPT !.strength = s, !.basis = b]} :
             s \in {"weak", "strong"}, b \in {"inferred", Default, "gossip"}}
     \cup {{[MCClaim EXCEPT !.dimension = d, !.kind = k]} :
             d \in {SDK, NoDimension}, k \in {"positive", "bounded_negative"}}]
    \cup {[schema |-> "none", claims |-> {}], [schema |-> "other", claims |-> {}]}

=============================================================================
