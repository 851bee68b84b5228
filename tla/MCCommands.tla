----------------------------- MODULE MCCommands ------------------------------
(***************************************************************************)
(* An instance of the commands on the Runner's archives and on the files   *)
(* of the suite.  The commands share no memory, and one's files are no     *)
(* other's: a behaviour is of one of them, chosen first, in the            *)
(* environment that its module models.                                     *)
(***************************************************************************)
EXTENDS MCRunnerGate, MCPromotion, EvidencePack, TrustBasis

CONSTANTS d1, d2

VARIABLE subject   \* The commands that the behaviour is about.

-----------------------------------------------------------------------------
MCRegistered == {"inventory", "supply_chain"}
MCVerb == [c \in MCRegistered |-> c]
MCMode == "inventory" :> "descriptive" @@ "supply_chain" :> "gating"

Proof(state, run, artifact, version) ==
  [end_to_end |-> state, hosted_run |-> run, artifact |-> artifact, fixture |-> "f1",
   assay |-> [version |-> version, binary |-> b1, command |-> "scan"], os |-> "linux"]

CarrierRow(carrier, proof) ==
  [shaped |-> TRUE, carrier |-> carrier, verb |-> MCVerb[carrier], mode |-> MCMode[carrier],
   proof |-> proof, gap |-> IF proof.end_to_end = "declared" THEN "known" ELSE "none",
   scope |-> IF proof.end_to_end = "proven" THEN "hosted" ELSE "none"]
RecipeRow(proof) == [shaped |-> TRUE, proof |-> proof]

Seal(m) == [m EXCEPT !.digest = ComputeMatrixDigest(m)]
Matrix(carrier_rows, recipe_rows) ==
  LET m == [shaped |-> TRUE, carrier_rows |-> carrier_rows, recipe_rows |-> recipe_rows,
            generated |-> [harness |-> "h1", last |-> <<0, 9, 9>>, default |-> <<0, 9, 9>>,
                           verified_on |-> "2026-06-17"],
            digest |-> <<>>]
  IN  Seal(m)

Sound ==
  Matrix(<<CarrierRow("inventory", Proof("proven", r1, k1, <<0, 10, 0>>)),
           CarrierRow("supply_chain", Proof("declared", Blank, Blank, <<0, 9, 9>>))>>,
         <<RecipeRow(Proof("proven", r0, k2, NoVersion))>>)

MCEdited ==
  {Sound, Missing, NotJson,
   [Sound EXCEPT !.digest = <<>>],
   [Sound EXCEPT !.shaped = FALSE],
   Seal([Sound EXCEPT !.carrier_rows[2].gap = "unknown"]),
   Seal([Sound EXCEPT !.carrier_rows[1].scope = "malformed"]),
   Seal([Sound EXCEPT !.carrier_rows[1].proof.fixture = Blank]),
   Seal([Sound EXCEPT !.carrier_rows[1].proof.assay.version = MalformedVersion]),
   Seal([Sound EXCEPT !.carrier_rows[2].verb = "inventory"]),
   Seal([Sound EXCEPT !.carrier_rows = <<@[1]>>]),
   Seal([Sound EXCEPT !.recipe_rows[1].proof.assay.version = <<1, 2, 0>>]),
   Seal([Sound EXCEPT !.recipe_rows[1].proof.end_to_end = "maybe"]),
   [Sound EXCEPT !.generated.verified_on = "2026-02-30"],
   [Sound EXCEPT !.generated.default = <<0, 9, 8>>],
   [Sound EXCEPT !.carrier_rows = <<>>, !.recipe_rows = <<>>]}

-----------------------------------------------------------------------------
MCSchemaOf == k1 :> "inventory" @@ k2 :> "inventory"

Provenance(run, artifact, release) ==
  [shaped |-> TRUE, hermetic |-> TRUE, hosted_run |-> run, artifact |-> artifact,
   fixture |-> "f1", assay |-> [version |-> <<0, 10, 0>>, binary |-> b1, command |-> "scan"],
   os |-> "linux", harness |-> "h1", release |-> release]

Bundle(subjects) == [media_type |-> "v0.3", subjects |-> subjects]
Meta(bundle, digest) ==
  [shaped |-> TRUE, bundle |-> bundle, media_type |-> "v0.3", artifact_digest |-> digest]

Given(carrier, suite, prov, bundle, meta) ==
  "assay_carrier" :> carrier @@ "suite_matrix" :> suite @@ "recipe_provenance" :> prov
  @@ "harness_markdown" :> d1 @@ "external_attestation_bundle" :> bundle
  @@ "external_attestation_metadata" :> meta

RowBound == Given(k1, Sound, Provenance(r1, k1, "asset"), Bundle({"asset"}),
                  Meta(Bundle({"asset"}), "asset"))
RecipeBound ==
  [RowBound EXCEPT !["assay_carrier"] = k2,
                   !["recipe_provenance"] = Provenance(r0, k2, Blank),
                   !["harness_markdown"] = d2]
Ambiguous ==
  [RecipeBound EXCEPT !["suite_matrix"] =
     Seal([Sound EXCEPT !.recipe_rows = @ \o @])]
OtherBundle ==
  [RowBound EXCEPT
     !["external_attestation_bundle"] = Bundle({"asset", "other"}),
     !["external_attestation_metadata"] = Meta(Bundle({"asset", "other"}), "other")]

Unparsable == [RowBound EXCEPT !["recipe_provenance"] = NotJson]

MCInvocations ==
  {<<RowBound, TRUE>>, <<OtherBundle, TRUE>>, <<RecipeBound, FALSE>>,
   <<Ambiguous, FALSE>>, <<Unparsable, FALSE>>}

MCInputVersions ==
  "assay_carrier" :> {k2}
  @@ "suite_matrix" :> {Seal([Sound EXCEPT !.carrier_rows[1].proof.fixture = "f2"])}
  @@ "recipe_provenance" :> {[Provenance(r1, k1, "asset") EXCEPT !.hermetic = FALSE]}
  @@ "harness_markdown" :> {d2}
  @@ "external_attestation_bundle" :> {Bundle({"other"})}
  @@ "external_attestation_metadata" :> {NotJson, Meta(Bundle({"asset"}), "other")}

Reseal(p) ==
  [p EXCEPT !.manifest.digest = ManifestCore(p.manifest), !.sidecar = ManifestCore(p.manifest)]

ManifestEdits(m) ==
  {[m EXCEPT !.schema = IF @ = V0 THEN V1 ELSE V0],
   [m EXCEPT !.producer = "h2"],
   [m EXCEPT !.subject.carrier = "supply_chain"],
   [m EXCEPT !.sources = @ \o <<@[1]>>],
   [m EXCEPT !.projections[1].source_digest = d2],
   [m EXCEPT !.review_available = TRUE]}
  \cup IF m.external = <<>> THEN {}
       ELSE {[m EXCEPT !.external[1].to = ReleaseBinding],
             [m EXCEPT !.external = <<@[1]>>]}

MCPackEdits(p) ==
  {Reseal([p EXCEPT !.manifest = m]) : m \in ManifestEdits(p.manifest)}
  \cup {[p EXCEPT !.manifest = m] : m \in ManifestEdits(p.manifest)}
  \cup {[p EXCEPT !.files = ("extra" :> d1) @@ @],
        [p EXCEPT !.files = ("harness_markdown" :> d2) @@ @],
        [p EXCEPT !.links = {"harness_markdown"}],
        [p EXCEPT !.links = {"manifest"}], [p EXCEPT !.links = {"sidecar"}],
        [p EXCEPT !.sidecar = <<>>]}

Diff(regressed, removed, flag) ==
  [kind |-> "diff", regressed |-> regressed, removed |-> removed, counts_match |-> TRUE,
   has_regressions |-> flag]

MCDiffs ==
  {Diff(0, 0, FALSE), Diff(1, 0, TRUE), Diff(0, 1, FALSE), Diff(0, 0, TRUE),
   [Diff(0, 0, FALSE) EXCEPT !.counts_match = FALSE]}

-----------------------------------------------------------------------------
allVars == <<subject, vars, coverage_vars, promotionVars, suiteVars, packVars, trustVars>>

MCInit ==
  /\ subject \in {"runner", "claims", "promotion", "suite", "evidence-pack", "trust-basis"}
  /\ Init /\ CoverageInit /\ PromotionInit /\ SuiteInit /\ PackInit /\ TrustInit
  /\ subject # "claims" => policy.schema = "none"

MCNext ==
  /\ UNCHANGED subject
  /\ \/ /\ subject = "runner" /\ Next
        /\ UNCHANGED <<coverage_vars, promotionVars, suiteVars, packVars, trustVars>>
     \/ /\ subject = "claims" /\ CoverageNext
        /\ UNCHANGED <<vars, promotionVars, suiteVars, packVars, trustVars>>
     \/ /\ subject = "promotion" /\ PromotionNext
        /\ UNCHANGED <<vars, coverage_vars, suiteVars, packVars, trustVars>>
     \/ /\ subject = "suite" /\ SuiteNext
        /\ UNCHANGED <<vars, coverage_vars, promotionVars, packVars, trustVars>>
     \/ /\ subject = "evidence-pack" /\ PackNext
        /\ UNCHANGED <<vars, coverage_vars, promotionVars, suiteVars, trustVars>>
     \/ /\ subject = "trust-basis" /\ TrustNext
        /\ UNCHANGED <<vars, coverage_vars, promotionVars, suiteVars, packVars>>

MCSpec == MCInit /\ [][MCNext]_allVars
=============================================================================
