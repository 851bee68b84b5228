---------------------------- MODULE SuiteMatrix ----------------------------
(***************************************************************************)
(* The suite compatibility matrix (suite_compatibility.ts and the suite    *)
(* commands of cli_suite.ts): a committed file of rows and their proofs,   *)
(* sealed by a digest of the rows, with a projection that is generated     *)
(* from the rows and from the version beside the file.                     *)
(***************************************************************************)
EXTENDS ExitCodes, Sequences, SequencesExt

CONSTANTS
  Registered,       \* The carriers with an adapter, from carrier_registry.ts.
  Verb, Mode,       \* [Registered -> what the Harness expects of a row]
  Edited,           \* The matrices that an edit may leave behind.
  HarnessVersions,  \* Versions of the sibling package.json; Blank for none.
  Dates             \* Calendar dates.

VARIABLES
  matrix,   \* The file.
  harness,  \* The version in the package.json beside it.
  ran       \* The last command and its exit code.

suiteVars == <<matrix, harness, ran>>

Blank == "blank"   \* A field that is empty or null.
Missing == [kind |-> "missing"]
NotJson == [kind |-> "not an object"]

(* A parsed document is a record; its fields are checked by the commands. *)
IsDocument(m) ==
  /\ m = [field \in DOMAIN m |-> m[field]]
  /\ {"shaped", "carrier_rows", "recipe_rows", "generated", "digest"} \subseteq DOMAIN m

IsList(rows) == rows \in Seq(ToSet(rows))

(* What a row says of the version is a tag's numbers or something else. *)
Versioned(rows) ==
  IsList(rows) /\ \A row \in ToSet(rows) : row.proof.assay.version \in Seq(Nat)

ASSUME EditedAssumption ==
  \A m \in Edited :
    \/ m \in {Missing, NotJson}
    \/ IsDocument(m) /\ Versioned(m.carrier_rows) /\ Versioned(m.recipe_rows)

(* A release tag as its three numbers. *)
NoVersion == <<>>
MalformedVersion == <<0>>
Tagged(version) == Len(version) = 3

NoCommand == [verb |-> "none", exit |-> SUCCESS]

-----------------------------------------------------------------------------
(***************************************************************************)
(* Validation.  A row is "shaped" when its enumerations, its verb and what *)
(* it discloses of a private reviewer are of the known forms.              *)
(***************************************************************************)
RowDigest(rows) == rows

(* A slip: the digest is that of the whole document but its own field. *)
DigestOfDocument(m) == RowDigest(<<m.carrier_rows, m.recipe_rows, m.generated>>)

(* computeMatrixDigest: neither the projection nor the manifest is in it. *)
ComputeMatrixDigest(m) == RowDigest(<<m.carrier_rows, m.recipe_rows>>)

Sealed(m) == m.digest = ComputeMatrixDigest(m)

ValidProof(proof, needed) ==
  /\ proof.assay.version = NoVersion \/ Tagged(proof.assay.version)
  /\ proof.end_to_end \in {"proven", "declared", "not_applicable", "unsupported"}
  /\ proof.end_to_end = "proven" => needed

ValidCarrierRow(row) ==
  /\ row.shaped
  /\ row.proof.end_to_end = "proven" => row.gap = "none" /\ row.scope = "hosted"
  /\ row.proof.end_to_end = "declared" => row.gap = "known"
  /\ row.scope # "malformed"
  /\ ValidProof(row.proof,
       /\ Blank \notin {row.proof.hosted_run, row.proof.artifact, row.proof.fixture,
                       row.proof.assay.binary, row.proof.assay.command}
       /\ row.proof.assay.version # NoVersion)

ValidRecipeRow(row) ==
  /\ row.shaped
  /\ ValidProof(row.proof, Blank \notin {row.proof.hosted_run, row.proof.artifact})

ValidateSuiteCompatibility(m) ==
  /\ m \notin {Missing, NotJson}
  /\ m.shaped /\ IsList(m.carrier_rows) /\ IsList(m.recipe_rows)
  /\ \A i \in DOMAIN m.carrier_rows : ValidCarrierRow(m.carrier_rows[i])
  /\ \A i \in DOMAIN m.recipe_rows : ValidRecipeRow(m.recipe_rows[i])
  /\ Sealed(m)

DriftAgainstRegistry(m) ==
  LET rows == ToSet(m.carrier_rows)
  IN  \/ {row.carrier : row \in rows} # Registered
      \/ \E row \in rows : row.carrier \in Registered /\
           (row.verb # Verb[row.carrier] \/ row.mode # Mode[row.carrier])

-----------------------------------------------------------------------------
(***************************************************************************)
(* The generated projection.                                               *)
(***************************************************************************)
ProofAssayVersions(m) ==
  {row.proof.assay.version : row \in ToSet(m.carrier_rows) \cup ToSet(m.recipe_rows)}
    \ {NoVersion}

(* A slip: the minor number decides. *)
LaterMinor(v, w) == v[2] > w[2]

Later(v, w) ==
  \E i \in 1..3 : v[i] > w[i] /\ \A j \in 1..i - 1 : v[j] = w[j]

MaxAssayVersion(versions) ==
  CHOOSE v \in versions : \A w \in versions : ~Later(w, v)

(* A slip: the deprecated alias keeps what is committed. *)
DeriveGeneratedKeepingAlias(m) ==
  LET last == MaxAssayVersion(ProofAssayVersions(m))
  IN  [harness |-> harness, last |-> last, default |-> m.generated.default,
       verified_on |-> m.generated.verified_on]

DeriveGenerated(m) ==
  LET last == MaxAssayVersion(ProofAssayVersions(m))
  IN  [harness |-> harness, last |-> last, default |-> last,
       verified_on |-> m.generated.verified_on]

Derivable(m) ==
  /\ m.generated.verified_on \in Dates
  /\ ProofAssayVersions(m) # {}
  /\ \A version \in ProofAssayVersions(m) : Tagged(version)

(* What `suite generate` refuses before it derives anything, in its order. *)
Refusal(m) ==
  IF m = Missing THEN CONFIG_ERROR
  ELSE IF m = NotJson THEN ARTIFACT_CONTRACT
  ELSE IF harness = Blank THEN CONFIG_ERROR
  ELSE IF ~Derivable(m) THEN ARTIFACT_CONTRACT
  ELSE SUCCESS

-----------------------------------------------------------------------------
(***************************************************************************)
(* The commands, and the commits between them.                             *)
(***************************************************************************)
SuiteInit ==
  /\ matrix = Missing
  /\ harness = Blank
  /\ ran = NoCommand

Exits(verb, exit) == ran' = [verb |-> verb, exit |-> exit]

Edit ==
  /\ matrix' \in Edited
  /\ harness' \in HarnessVersions
  /\ ran' = NoCommand

(* A write that fails may leave the file empty or cut short. *)
Generate ==
  IF Refusal(matrix) # SUCCESS
  THEN /\ UNCHANGED matrix
       /\ Exits("generate", Refusal(matrix))
  ELSE \/ /\ matrix' = [matrix EXCEPT !.generated = DeriveGenerated(matrix)]
          /\ Exits("generate", SUCCESS)
       \/ /\ matrix' \in {matrix, NotJson}
          /\ Exits("generate", CI_FORMATTER)

CheckGenerated ==
  IF Refusal(matrix) # SUCCESS THEN Refusal(matrix)
  ELSE IF matrix.generated = DeriveGenerated(matrix) THEN SUCCESS
  ELSE ARTIFACT_CONTRACT

GenerateCheck ==
  /\ UNCHANGED matrix
  /\ Exits("generate --check", CheckGenerated)

CheckSuite(m, against_registry) ==
  IF m = Missing THEN CONFIG_ERROR
  ELSE IF ~ValidateSuiteCompatibility(m) THEN ARTIFACT_CONTRACT
  ELSE IF against_registry /\ DriftAgainstRegistry(m) THEN ARTIFACT_CONTRACT
  ELSE SUCCESS

Check(against_registry) ==
  /\ UNCHANGED matrix
  /\ Exits("check", CheckSuite(matrix, against_registry))

(* `suite matrix`: the projection is printed whatever the verdict is. *)
Project ==
  /\ UNCHANGED matrix
  /\ Exits("matrix", CheckSuite(matrix, FALSE))

SuiteNext ==
  \/ Edit
  \/ /\ \/ Generate \/ GenerateCheck \/ Project
        \/ \E against_registry \in BOOLEAN : Check(against_registry)
     /\ UNCHANGED harness

SuiteSpec == SuiteInit /\ [][SuiteNext]_suiteVars

-----------------------------------------------------------------------------
(***************************************************************************)
(* Properties.                                                             *)
(***************************************************************************)
(* The order of release tags, whatever number of digits they have. *)
NotAfter(v, w) ==
  \/ v[1] < w[1]
  \/ v[1] = w[1] /\ v[2] < w[2]
  \/ v[1] = w[1] /\ v[2] = w[2] /\ v[3] <= w[3]

(* What `generate` has written passes `generate --check` until a commit    *)
(* comes, and it names a version that some proof records and that no proof *)
(* exceeds, whichever digits the versions have.                            *)
GeneratedIsCurrent ==
  ran.verb # "none" /\ ran.exit = SUCCESS /\ ran.verb \in {"generate", "generate --check"} =>
    /\ CheckGenerated = SUCCESS
    /\ matrix.generated.default = matrix.generated.last
    /\ matrix.generated.last \in ProofAssayVersions(matrix)
    /\ \A v \in ProofAssayVersions(matrix) : NotAfter(v, matrix.generated.last)

(* Regenerating the projection never changes what `suite check` says of    *)
(* the matrix, with or without the registry.                               *)
GenerationKeepsTheVerdict ==
  [][ran'.verb = "generate" /\ ran'.exit # CI_FORMATTER =>
       \A against_registry \in BOOLEAN :
         CheckSuite(matrix', against_registry) = CheckSuite(matrix, against_registry)]_suiteVars
=============================================================================
