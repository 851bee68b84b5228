---------------------------- MODULE EvidencePack ----------------------------
(***************************************************************************)
(* Evidence packs (suite_evidence_pack.ts, suite_evidence_pack_external.ts *)
(* and suite_recipe_provenance.ts of harness/src).  Create reads its input *)
(* files, copies each of them with a second read, and writes a manifest of *)
(* their digests; verify accepts a directory only if the manifest, the     *)
(* files and the proofs in the bundled matrix agree.  Inputs may be edited *)
(* while create runs, and a pack may be edited at any time.                *)
(***************************************************************************)
EXTENDS SuiteMatrix, FiniteSets, TLC

CONSTANTS
  SchemaOf,         \* [carrier contents -> the schema it names]
  InputVersions,    \* [input -> the contents an edit may leave in it]
  Invocations,      \* Inputs of a create, and whether with the attestation.
  HARNESS_VERSION,  \* The version of the installed Harness.
  PackEdits(_),     \* The packs that a hand edit may make of one.
  MaxEdits          \* Bound on the edits and restarts of a behaviour.

ASSUME EditsAssumption == MaxEdits \in Nat

VARIABLES
  inputs,    \* [input -> contents]: the files create is given.
  external,  \* Whether the attestation inputs are given too.
  held,      \* [input -> contents]: what create has read.
  pack,      \* The output directory; those of its files in links are links.
  outside,   \* The manifest and the sidecar that a link in the pack leads to.
  todo,      \* The steps create has yet to do.
  created,   \* How create ended, while that describes the pack.
  accepted,  \* The manifests that verify has accepted, with their files.
  edits      \* Edits and restarts so far.

packVars == <<inputs, external, held, pack, outside, todo, created, accepted, edits>>

V0 == "suite.evidence_pack.v0"
V1 == "suite.evidence_pack.v1"

(* The inputs, their paths in the pack, and the order they are read in. *)
SourceInputs == <<"assay_carrier", "suite_matrix", "recipe_provenance">>
Inputs == <<"assay_carrier", "suite_matrix", "recipe_provenance", "harness_markdown">>
ExternalInputs == <<"external_attestation_bundle", "external_attestation_metadata">>

NotCreated == 99
NoManifest == [schema |-> Blank]
Torn == [kind |-> "torn"]     \* A file that is missing or cut short.
Lost == [manifest |-> NoManifest, sidecar |-> <<>>]
Unlisted == DOMAIN Lost       \* The two files that no manifest lists.
IsPack(p) ==
  p = [manifest |-> p.manifest, sidecar |-> p.sidecar, files |-> p.files, links |-> p.links]
EmptyPack == [manifest |-> NoManifest, sidecar |-> <<>>, files |-> <<>>, links |-> {}]

-----------------------------------------------------------------------------
(***************************************************************************)
(* The manifest and its digest.  Files are listed by their role; the       *)
(* digest of a file stands for its contents.                               *)
(***************************************************************************)
(* A slip: the external evidence is sealed in neither version. *)
ManifestCoreOfV0(m) ==
  <<m.schema, m.subject, ToSet(m.sources), ToSet(m.projections), m.review_available, {}>>

(* computeManifestDigest: without created_at, producer and the manifest    *)
(* field itself, the arrays sorted, external evidence in v1 only.          *)
ManifestCore(m) ==
  <<m.schema, m.subject, ToSet(m.sources), ToSet(m.projections), m.review_available,
    IF m.schema = V1 THEN ToSet(m.external) ELSE {}>>

Entry(role, contents) == [role |-> role, path |-> role, digest |-> contents]

ReleaseBinding == "recipe_provenance.release_asset.digest"

(* Bound to the release asset only when that is what was attested. *)
BindTo ==
  IF held["recipe_provenance"].release # Blank
     /\ held["recipe_provenance"].release
          = held["external_attestation_metadata"].artifact_digest
  THEN ReleaseBinding ELSE "none"

ExternalEntries ==
  LET bundle == held["external_attestation_bundle"]
      meta == held["external_attestation_metadata"]
  IN  << [role |-> ExternalInputs[1], path |-> ExternalInputs[1], digest |-> bundle,
          media_type |-> meta.media_type, subject_digest |-> meta.artifact_digest,
          to |-> BindTo, source_digest |-> meta],
         Entry(ExternalInputs[2], meta) >>

Manifest ==
  LET carrier == held["assay_carrier"]
      unsealed ==
        [schema |-> IF external THEN V1 ELSE V0,
         subject |-> [carrier |-> SchemaOf[carrier],
                      assay_version |-> held["recipe_provenance"].assay.version,
                      digest |-> carrier],
         producer |-> HARNESS_VERSION,
         sources |-> [i \in DOMAIN SourceInputs |->
                        Entry(SourceInputs[i], held[SourceInputs[i]])],
         projections |-> <<[role |-> "harness_markdown", path |-> "harness_markdown",
                            lossy |-> TRUE, source_digest |-> carrier,
                            digest |-> held["harness_markdown"]]>>,
         review_available |-> FALSE,
         external |-> IF external THEN ExternalEntries ELSE <<>>]
  IN  [field \in DOMAIN unsealed \cup {"digest"} |->
         IF field = "digest" THEN ManifestCore(unsealed) ELSE unsealed[field]]

-----------------------------------------------------------------------------
(***************************************************************************)
(* verifyEvidencePack.                                                     *)
(***************************************************************************)
Listed(m) == ToSet(m.sources) \cup ToSet(m.projections) \cup ToSet(m.external)
Paths(m) == {entry.path : entry \in Listed(m)}

(* No path is listed twice. *)
PathsUnique(m) ==
  Cardinality(Paths(m)) = Len(m.sources) + Len(m.projections) + Len(m.external)

(* The tree a reader sees: a link shows the file that it leads to, which   *)
(* for a listed path is an input of create.                                *)
Seen(p) ==
  [manifest |-> IF "manifest" \in p.links THEN outside.manifest ELSE p.manifest,
   sidecar |-> IF "sidecar" \in p.links THEN outside.sidecar ELSE p.sidecar,
   files |-> [path \in DOMAIN p.files |->
                IF path \in p.links THEN inputs[path] ELSE p.files[path]],
   links |-> p.links]

(* A slip: a link at a listed path is followed too. *)
FilesMatchThroughLinks(p) ==
  /\ PathsUnique(p.manifest)
  /\ Paths(p.manifest) = DOMAIN p.files
  /\ \A entry \in Listed(p.manifest) : p.files[entry.path] = entry.digest

(* Paths are unique, nothing is a link but the manifest and the sidecar,   *)
(* which no check looks at, nothing else is unlisted, and every file has   *)
(* its digest.                                                             *)
FilesMatch(p) ==
  /\ PathsUnique(p.manifest)
  /\ p.links \subseteq Unlisted
  /\ Paths(p.manifest) = DOMAIN p.files
  /\ \A entry \in Listed(p.manifest) : p.files[entry.path] = entry.digest

(* The three sources, each once, and the one lossy projection of one. *)
RolesComplete(m) ==
  /\ Len(m.sources) = Len(SourceInputs)
  /\ {m.sources[i].role : i \in DOMAIN m.sources} = ToSet(SourceInputs)
  /\ Len(m.projections) = 1
  /\ m.projections[1].role = "harness_markdown"
  /\ m.projections[1].lossy
  /\ \E i \in DOMAIN m.sources : m.sources[i].digest = m.projections[1].source_digest
  /\ ~m.review_available

Source(m, files, role) ==
  LET i == CHOOSE j \in DOMAIN m.sources : m.sources[j].role = role
  IN  files[m.sources[i].path]

ProofHolds(proof, prov) ==
  /\ proof.end_to_end = "proven"
  /\ proof.hosted_run = prov.hosted_run
  /\ proof.artifact = prov.artifact

(* The first row of the subject names this run, and so must every field of *)
(* its proof; or exactly one recipe row holds the proof beside a proven    *)
(* row.                                                                    *)
Binding(m, subject, prov) ==
  LET named == {i \in DOMAIN m.carrier_rows : m.carrier_rows[i].carrier = subject}
      proof == m.carrier_rows[Min(named)].proof
      recipes == {i \in DOMAIN m.recipe_rows : ProofHolds(m.recipe_rows[i].proof, prov)}
  IN  IF named = {} THEN "none"
      ELSE IF proof.hosted_run = prov.hosted_run
      THEN IF /\ ProofHolds(proof, prov)
              /\ proof.assay = prov.assay /\ proof.fixture = prov.fixture
              /\ proof.os = prov.os
           THEN "carrier_row_bound" ELSE "none"
      ELSE IF proof.end_to_end = "proven" /\ Cardinality(recipes) = 1
      THEN "recipe_row_bound" ELSE "none"

Coherent(m, files) ==
  LET carrier == Source(m, files, "assay_carrier")
      prov == Source(m, files, "recipe_provenance")
      suite == Source(m, files, "suite_matrix")
  IN  /\ prov # NotJson /\ prov.shaped /\ prov.hermetic
      /\ m.subject.assay_version = prov.assay.version
      /\ m.producer = prov.harness
      /\ m.subject.digest = carrier /\ prov.artifact = carrier
      /\ ValidateSuiteCompatibility(suite)
      /\ Binding(suite, m.subject.carrier, prov) # "none"
      /\ carrier \in DOMAIN SchemaOf /\ m.subject.carrier = SchemaOf[carrier]

(* The entries of a role, and the one that there should be. *)
InRole(m, role) == {i \in DOMAIN m.external : m.external[i].role = role}
External(m, role) == m.external[CHOOSE i \in DOMAIN m.external : InRole(m, role) = {i}]

(* A slip: the binding is believed. *)
ExternalValidUnbound(m, files) ==
  LET bundle == External(m, ExternalInputs[1])
      meta == External(m, ExternalInputs[2])
  IN  /\ Len(m.external) = 2
      /\ \A role \in ToSet(ExternalInputs) : \E i \in DOMAIN m.external : InRole(m, role) = {i}
      /\ bundle.source_digest = meta.digest
      /\ files[meta.path].artifact_digest = bundle.subject_digest
      /\ bundle.subject_digest \in files[bundle.path].subjects

(* verifyExternalEvidenceV1: one bundle and its metadata, which agree with *)
(* the entry and with the statement; its posture flags are its shape.      *)
ExternalValid(m, files) ==
  LET bundle == External(m, ExternalInputs[1])
      meta == External(m, ExternalInputs[2])
  IN  /\ Len(m.external) = 2
      /\ \A role \in ToSet(ExternalInputs) : \E i \in DOMAIN m.external : InRole(m, role) = {i}
      /\ bundle.to \in {"none", "recipe_provenance.assay.binary_digest", ReleaseBinding}
      /\ bundle.source_digest = meta.digest
      /\ LET doc == files[bundle.path]
             metaDoc == files[meta.path]
         IN  /\ doc # NotJson /\ metaDoc # NotJson
             /\ metaDoc.shaped
             /\ metaDoc.bundle = bundle.digest
             /\ metaDoc.media_type = bundle.media_type
             /\ metaDoc.artifact_digest = bundle.subject_digest
             /\ doc.media_type = bundle.media_type
             /\ bundle.subject_digest \in doc.subjects
      /\ bundle.to = ReleaseBinding =>
           Source(m, files, "recipe_provenance").release = bundle.subject_digest

(* The checks of a tree as it is seen. *)
Valid(p) ==
  /\ p.manifest.schema \in {V0, V1}
  /\ p.manifest.digest = ManifestCore(p.manifest)
  /\ p.sidecar = p.manifest.digest
  /\ RolesComplete(p.manifest)
  /\ FilesMatch(p)
  /\ Coherent(p.manifest, p.files)
  /\ IF p.manifest.schema = V1 THEN ExternalValid(p.manifest, p.files)
     ELSE p.manifest.external = <<>>

VerifyEvidencePack(p) == Valid(Seen(p))

-----------------------------------------------------------------------------
(***************************************************************************)
(* evidence-pack create, which is a call of buildEvidencePack and the      *)
(* check of what it built; with the attestation there is only the call.    *)
(***************************************************************************)
Each(op, roles) == [i \in DOMAIN roles |-> <<op, roles[i]>>]

(* buildEvidencePack() in its order, then the check of the command, which  *)
(* has no way to give the attestation inputs.                              *)
CreateSteps(with_external) ==
  Each("read", Inputs) \o Each("parse", <<"assay_carrier", "recipe_provenance">>)
  \o Each("copy", Inputs)
  \o (IF with_external
      THEN Each("read", ExternalInputs) \o Each("parse", <<ExternalInputs[2]>>)
           \o Each("copy", ExternalInputs)
      ELSE <<>>)
  \o Each("write", <<"manifest", "sidecar">>)
  \o (IF with_external THEN <<>> ELSE Each("verify", <<"pack">>))

Doing(op) == todo # <<>> /\ Head(todo)[1] = op
Target == Head(todo)[2]

NothingHeld == [i \in DOMAIN InputVersions |-> NotJson]

PackInit ==
  /\ inputs = NothingHeld
  /\ external = FALSE
  /\ held = NothingHeld
  /\ pack = EmptyPack
  /\ outside = Lost
  /\ todo = <<>>
  /\ created = NotCreated
  /\ accepted = {}
  /\ edits = 0

(* The inputs a create begins with; the directory is as an earlier create  *)
(* or a hand edit has left it.                                             *)
StartCreate(first, with_external) ==
  /\ todo = <<>> /\ edits < MaxEdits
  /\ inputs' = first
  /\ external' = with_external
  /\ todo' = CreateSteps(with_external)
  /\ created' = NotCreated
  /\ edits' = edits + 1
  /\ UNCHANGED <<held, pack, outside, accepted>>

EditInput(i, contents) ==
  /\ todo # <<>> /\ edits < MaxEdits
  /\ inputs[i] # contents
  /\ inputs' = [inputs EXCEPT ![i] = contents]
  /\ edits' = edits + 1
  /\ UNCHANGED <<external, held, pack, outside, todo, created, accepted>>

EndCreate(exit) == todo' = <<>> /\ created' = exit

(* The next step, after the last of which create has succeeded. *)
Advance ==
  /\ todo' = Tail(todo)
  /\ created' = IF Tail(todo) = <<>> THEN SUCCESS ELSE created

Read ==
  /\ Doing("read")
  /\ held' = [held EXCEPT ![Target] = inputs[Target]]
  /\ Advance
  /\ UNCHANGED <<inputs, external, pack, outside, accepted, edits>>

Parse ==
  /\ Doing("parse")
  /\ IF held[Target] = NotJson THEN EndCreate(CI_FORMATTER) ELSE Advance
  /\ UNCHANGED <<inputs, external, held, pack, outside, accepted, edits>>

(* copyFileSync() reads the input a second time. *)
Copy ==
  /\ Doing("copy")
  /\ pack' = [pack EXCEPT !.files = (Target :> inputs[Target]) @@ @]
  /\ Advance
  /\ UNCHANGED <<inputs, external, held, outside, accepted, edits>>

(* writeFileSync() of the manifest or the sidecar, through a link. *)
Put(file, contents) ==
  IF file \in pack.links
  THEN outside' = [outside EXCEPT ![file] = contents] /\ UNCHANGED pack
  ELSE pack' = [pack EXCEPT ![file] = contents] /\ UNCHANGED outside

Write ==
  /\ Doing("write")
  /\ Put(Target, IF Target = "manifest" THEN Manifest ELSE Manifest.digest)
  /\ Advance
  /\ UNCHANGED <<inputs, external, held, accepted, edits>>

(* A slip: what was just built is taken to be valid. *)
SelfVerifyTrusting ==
  /\ Doing("verify")
  /\ EndCreate(SUCCESS)
  /\ UNCHANGED <<inputs, external, held, pack, outside, accepted, edits>>

SelfVerify ==
  /\ Doing("verify")
  /\ EndCreate(IF VerifyEvidencePack(pack) THEN SUCCESS ELSE CI_FORMATTER)
  /\ UNCHANGED <<inputs, external, held, pack, outside, accepted, edits>>

(* A step throws, leaving the file it was about in any state, or the       *)
(* process is killed.                                                      *)
CreateFails ==
  /\ todo # <<>>
  /\ \/ UNCHANGED <<pack, outside>>
     \/ /\ Doing("copy")
        /\ pack' = [pack EXCEPT !.files = (Target :> Torn) @@ @]
        /\ UNCHANGED outside
     \/ Doing("write") /\ Put(Target, Lost[Target])
  /\ EndCreate(CI_FORMATTER)
  /\ held' = NothingHeld
  /\ UNCHANGED <<inputs, external, accepted, edits>>

(* evidence-pack verify, of which a reader keeps what it has accepted.     *)
Verify ==
  /\ VerifyEvidencePack(pack)
  /\ accepted' = accepted \cup {[manifest |-> Seen(pack).manifest, files |-> Seen(pack).files]}
  /\ UNCHANGED <<inputs, external, held, pack, outside, todo, created, edits>>

(* Where a hand edit makes a link, the file is moved out of the pack.      *)
EditPack ==
  /\ todo = <<>> /\ edits < MaxEdits
  /\ Seen(pack).manifest # NoManifest
  /\ pack' \in PackEdits(Seen(pack)) /\ IsPack(pack')
  /\ DOMAIN pack'.files \cap Unlisted = {}
  /\ outside' = [file \in Unlisted |->
                   IF file \in pack'.links \ pack.links THEN pack'[file] ELSE outside[file]]
  /\ created' = NotCreated
  /\ edits' = edits + 1
  /\ UNCHANGED <<inputs, external, held, todo, accepted>>

(* A hand edit of a file that the pack links to and does not hold. *)
EditOutside ==
  /\ todo = <<>> /\ edits < MaxEdits
  /\ Seen(pack).manifest # NoManifest
  /\ \E p \in PackEdits(Seen(pack)) :
       outside' = [file \in Unlisted |->
                     IF file \in pack.links THEN p[file] ELSE outside[file]]
  /\ outside' # outside
  /\ created' = NotCreated
  /\ edits' = edits + 1
  /\ UNCHANGED <<inputs, external, held, pack, todo, accepted>>

PackNext ==
  \/ \E invocation \in Invocations : StartCreate(invocation[1], invocation[2])
  \/ \E i \in DOMAIN InputVersions : \E contents \in InputVersions[i] : EditInput(i, contents)
  \/ Read \/ Parse \/ Copy \/ Write \/ SelfVerify \/ CreateFails
  \/ Verify \/ EditPack \/ EditOutside

PackSpec == PackInit /\ SuiteInit /\ [][PackNext /\ UNCHANGED suiteVars]_<<packVars, suiteVars>>

-----------------------------------------------------------------------------
(***************************************************************************)
(* Properties.                                                             *)
(***************************************************************************)
(* A create that succeeds leaves a manifest of what it read.  If it is the *)
(* command, which verifies, or once verify accepts the pack of a version 1 *)
(* call, which does not, the files are the bytes that were digested,       *)
(* whatever was edited between the two reads, and a row of the bundled     *)
(* matrix proves this very run and this very carrier.                      *)
CreatedPackIsBound ==
  created = SUCCESS =>
    /\ Seen(pack).manifest = Manifest
    /\ ~external \/ VerifyEvidencePack(pack) =>
         LET prov == pack.files["recipe_provenance"]
             suite == pack.files["suite_matrix"]
         IN  /\ \A i \in DOMAIN pack.files : pack.files[i] = held[i]
             /\ prov.artifact = pack.files["assay_carrier"]
             /\ \E row \in ToSet(suite.carrier_rows) \cup ToSet(suite.recipe_rows) :
                  ProofHolds(row.proof, prov)

(* The digest is the pack's identity: two packs that were accepted under   *)
(* one digest hold the same evidence, whichever edits and creates made     *)
(* them.                                                                   *)
DigestIdentifiesEvidence ==
  \A p, q \in accepted :
    p.manifest.digest = q.manifest.digest => p.files = q.files

(* As long as the manifest and the sidecar are files of the pack, which    *)
(* verify does not ask, no verdict depends on anything outside: an edit of *)
(* the files that create was given, or of any other, changes none.         *)
PackStandsAlone ==
  [][UNCHANGED pack /\ pack.links \cap Unlisted = {} =>
       VerifyEvidencePack(pack)' = VerifyEvidencePack(pack)]_packVars

(* What docs/contracts/EXIT_CODES.md:263 says of verify: a pack with a     *)
(* symlink in it, at a listed path or not, is refused.  The code looks at  *)
(* neither manifest.json nor evidence.sha256, and reads both through one.  *)
AcceptedPackHasNoLink == VerifyEvidencePack(pack) => pack.links = {}

(* An accepted pack that claims its attestation to be of the release asset *)
(* holds a statement that names the asset its provenance names, under      *)
(* whatever paths the manifest lists the two.                              *)
ReleaseBindingIsAttested ==
  \A p \in accepted : \A i \in DOMAIN p.manifest.external :
    /\ p.manifest.external[i].role = ExternalInputs[1]
    /\ p.manifest.external[i].to = ReleaseBinding
    => Source(p.manifest, p.files, "recipe_provenance").release
         \in p.files[p.manifest.external[i].path].subjects
=============================================================================
