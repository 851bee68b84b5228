---------------------------- MODULE SuiteProofs ----------------------------
(***************************************************************************)
(* Proofs about the suite commands and the evidence packs, for any         *)
(* matrices, inputs, edits and number of commands, and about the trust     *)
(* basis gate, for any diffs.  A pack is whatever a hand edit leaves in    *)
(* the directory: nothing is assumed of its manifest.                      *)
(***************************************************************************)
EXTENDS EvidencePack, TrustBasis, LogLemmas

(* The matrix on disk is missing, unreadable or a document. *)
MatrixReadable ==
  \/ matrix \in {Missing, NotJson}
  \/ /\ IsDocument(matrix)
     /\ Versioned(matrix.carrier_rows) /\ Versioned(matrix.recipe_rows)

(* What verify knew of a pack when it accepted it. *)
Admitted(p) ==
  /\ p.files = [path \in DOMAIN p.files |-> p.files[path]]
  /\ p.manifest.schema \in {V0, V1}
  /\ p.manifest.digest = ManifestCore(p.manifest)
  /\ IF p.manifest.schema = V1 THEN ExternalValid(p.manifest, p.files)
     ELSE p.manifest.external = <<>>
  /\ Paths(p.manifest) = DOMAIN p.files
  /\ \A entry \in Listed(p.manifest) : p.files[entry.path] = entry.digest

AdmittedInv == \A p \in accepted : Admitted(p)

-----------------------------------------------------------------------------
(***************************************************************************)
(* The matrix.                                                             *)
(***************************************************************************)
(* The fields of a document that `suite generate` does not write. *)
LEMMA GeneratedAlone ==
  ASSUME NEW m, IsDocument(m), NEW g
  PROVE  LET n == [m EXCEPT !.generated = g]
         IN  /\ IsDocument(n)
             /\ n.shaped = m.shaped /\ n.digest = m.digest
             /\ n.carrier_rows = m.carrier_rows /\ n.recipe_rows = m.recipe_rows
BY DEF IsDocument

LEMMA DocumentsAreNotMarkers ==
  ASSUME NEW m, IsDocument(m)
  PROVE  m # Missing /\ m # NotJson
<1>1. "shaped" \notin DOMAIN Missing /\ "shaped" \notin DOMAIN NotJson
  BY DEF Missing, NotJson
<1>2. QED
  BY <1>1 DEF IsDocument

(* The verdict of `suite check` rests on the four fields alone. *)
LEMMA VerdictOfFields ==
  ASSUME NEW m, NEW n, IsDocument(m), IsDocument(n),
         n.shaped = m.shaped, n.digest = m.digest,
         n.carrier_rows = m.carrier_rows, n.recipe_rows = m.recipe_rows,
         NEW against_registry
  PROVE  CheckSuite(n, against_registry) = CheckSuite(m, against_registry)
<1>1. m # Missing /\ m # NotJson /\ n # Missing /\ n # NotJson
  BY DocumentsAreNotMarkers
<1>2. Sealed(n) = Sealed(m)
  BY DEF Sealed, ComputeMatrixDigest, RowDigest
<1>3. ValidateSuiteCompatibility(n) = ValidateSuiteCompatibility(m)
  BY <1>1, <1>2, Zenon DEF ValidateSuiteCompatibility
<1>4. DriftAgainstRegistry(n) = DriftAgainstRegistry(m)
  BY Zenon DEF DriftAgainstRegistry
<1>5. QED
  BY <1>1, <1>3, <1>4, Zenon DEF CheckSuite

LEMMA MatrixInit == SuiteInit => MatrixReadable
BY DEF SuiteInit, MatrixReadable

LEMMA MatrixStep == MatrixReadable /\ [SuiteNext]_suiteVars => MatrixReadable'
<1> SUFFICES ASSUME MatrixReadable, [SuiteNext]_suiteVars PROVE MatrixReadable'
  OBVIOUS
<1>1. CASE Edit
  BY <1>1, EditedAssumption DEF Edit, MatrixReadable
<1>2. CASE Generate
  <2>1. CASE matrix' = [matrix EXCEPT !.generated = DeriveGenerated(matrix)] /\ IsDocument(matrix)
    <3>1. /\ IsDocument(matrix')
          /\ matrix'.carrier_rows = matrix.carrier_rows
          /\ matrix'.recipe_rows = matrix.recipe_rows
      BY <2>1, GeneratedAlone, Zenon
    <3>2. Versioned(matrix.carrier_rows) /\ Versioned(matrix.recipe_rows)
      BY <2>1, DocumentsAreNotMarkers, Zenon DEF MatrixReadable
    <3>3. QED
      BY <3>1, <3>2, Zenon DEF MatrixReadable
  <2>2. CASE matrix' \in {matrix, NotJson}
    BY <2>2 DEF MatrixReadable
  <2>3. Refusal(matrix) = SUCCESS => IsDocument(matrix)
    BY DEF MatrixReadable, Refusal, SUCCESS, CONFIG_ERROR, ARTIFACT_CONTRACT
  <2>4. QED
    BY <1>2, <2>1, <2>2, <2>3, Zenon DEF Generate
<1>3. CASE UNCHANGED matrix
  BY <1>3 DEF MatrixReadable
<1>4. QED
  BY <1>1, <1>2, <1>3, Zenon DEF SuiteNext, GenerateCheck, Check, Project, suiteVars

(* Regenerating the projection never changes what `suite check` says of    *)
(* the matrix, with or without the registry.                               *)
THEOREM GenerationIsNeutral == SuiteSpec => GenerationKeepsTheVerdict
<1>1. ASSUME MatrixReadable, SuiteNext, ran'.verb = "generate", ran'.exit # CI_FORMATTER,
             NEW against_registry \in BOOLEAN
      PROVE  CheckSuite(matrix', against_registry) = CheckSuite(matrix, against_registry)
  <2>1. Generate
    <3>1. \A verb, exit : Exits(verb, exit) => ran'.verb = verb
      BY DEF Exits
    <3>2. /\ Edit => ran'.verb = "none"
          /\ GenerateCheck => ran'.verb = "generate --check"
          /\ Project => ran'.verb = "matrix"
          /\ \A r \in BOOLEAN : Check(r) => ran'.verb = "check"
      <4>1. Edit => ran'.verb = "none"
        BY DEF Edit, NoCommand
      <4>2. QED
        BY <3>1, <4>1, Zenon DEF GenerateCheck, Project, Check
    <3>3. "generate" \notin {"none", "generate --check", "matrix", "check"}
      OBVIOUS
    <3>4. QED
      BY <1>1, <3>2, <3>3, Zenon DEF SuiteNext
  <2>2. CASE UNCHANGED matrix
    BY <2>2, Zenon
  <2>3. CASE /\ Refusal(matrix) = SUCCESS
             /\ matrix' = [matrix EXCEPT !.generated = DeriveGenerated(matrix)]
    <3>1. IsDocument(matrix)
      BY <1>1, <2>3 DEF MatrixReadable, Refusal, SUCCESS, CONFIG_ERROR, ARTIFACT_CONTRACT
    <3>2. QED
      BY <2>3, <3>1, GeneratedAlone, VerdictOfFields, Zenon
  <2>4. QED
    BY <1>1, <2>1, <2>2, <2>3 DEF Generate, Exits
<1>2. MatrixReadable /\ [SuiteNext]_suiteVars =>
        [ran'.verb = "generate" /\ ran'.exit # CI_FORMATTER =>
           \A against_registry \in BOOLEAN :
             CheckSuite(matrix', against_registry) = CheckSuite(matrix, against_registry)]_suiteVars
  BY <1>1, Zenon
<1>3. QED
  BY <1>2, MatrixInit, MatrixStep, PTL DEF SuiteSpec, GenerationKeepsTheVerdict

(***************************************************************************)
(* The projection is current: the latest of the versions exists.           *)
(***************************************************************************)
Tags == {v \in Seq(Nat) : Tagged(v)}

HasLatest(versions) ==
  versions = {} \/ \E v \in versions : \A w \in versions : ~Later(w, v)

VersionsUpTo(rows, k) == {rows[i].proof.assay.version : i \in 1..k} \ {NoVersion}

LEMMA ElementsOf == ASSUME NEW S, NEW s \in Seq(S) PROVE \A i \in 1..Len(s) : s[i] \in S
OBVIOUS

LEMMA TagParts == ASSUME NEW v \in Tags PROVE v[1] \in Nat /\ v[2] \in Nat /\ v[3] \in Nat
<1>1. v \in Seq(Nat) /\ Len(v) = 3
  BY DEF Tags, Tagged
<1>2. \A i \in 1..3 : v[i] \in Nat
  BY <1>1, ElementsOf, Zenon
<1>3. QED
  BY <1>2

(* The order of the code, number by number, is the order of tags. *)
LEMMA LaterIsOrder ==
  ASSUME NEW v \in Tags, NEW w \in Tags
  PROVE  ~Later(w, v) <=> NotAfter(w, v)
<1>1. v[1] \in Nat /\ v[2] \in Nat /\ v[3] \in Nat /\ w[1] \in Nat /\ w[2] \in Nat /\ w[3] \in Nat
  BY TagParts
<1>2. Later(w, v) <=> \/ w[1] > v[1]
                      \/ w[2] > v[2] /\ w[1] = v[1]
                      \/ w[3] > v[3] /\ w[1] = v[1] /\ w[2] = v[2]
  <2>1. ASSUME NEW i \in 1..3, w[i] > v[i], \A j \in 1..i - 1 : w[j] = v[j]
        PROVE  \/ w[1] > v[1]
               \/ w[2] > v[2] /\ w[1] = v[1]
               \/ w[3] > v[3] /\ w[1] = v[1] /\ w[2] = v[2]
    <3>1. i = 1 \/ i = 2 \/ i = 3
      OBVIOUS
    <3>2. (i = 2 => 1 \in 1..i - 1) /\ (i = 3 => 1 \in 1..i - 1 /\ 2 \in 1..i - 1)
      OBVIOUS
    <3>3. QED
      BY <2>1, <3>1, <3>2
  <2>2. \A j : j \in 1..1 - 1 => FALSE
    OBVIOUS
  <2>3. \A j : j \in 1..2 - 1 => j = 1
    OBVIOUS
  <2>4. \A j : j \in 1..3 - 1 => j = 1 \/ j = 2
    OBVIOUS
  <2>5. ASSUME w[1] > v[1] PROVE Later(w, v)
    <3>1. 1 \in 1..3
      OBVIOUS
    <3>2. QED
      BY <2>2, <2>5, <3>1, Zenon DEF Later
  <2>6. ASSUME w[2] > v[2], w[1] = v[1] PROVE Later(w, v)
    <3>1. 2 \in 1..3
      OBVIOUS
    <3>2. QED
      BY <2>3, <2>6, <3>1, Zenon DEF Later
  <2>7. ASSUME w[3] > v[3], w[1] = v[1], w[2] = v[2] PROVE Later(w, v)
    <3>1. 3 \in 1..3
      OBVIOUS
    <3>2. QED
      BY <2>4, <2>7, <3>1, Zenon DEF Later
  <2>8. QED
    BY <2>1, <2>5, <2>6, <2>7, Zenon DEF Later
<1>3. QED
  BY <1>1, <1>2 DEF NotAfter

LEMMA OrderOfTags ==
  ASSUME NEW u \in Tags, NEW v \in Tags, NEW w \in Tags
  PROVE  /\ NotAfter(u, v) \/ NotAfter(v, u)
         /\ NotAfter(u, v) /\ NotAfter(v, w) => NotAfter(u, w)
BY TagParts DEF NotAfter

LEMMA LatestOfBoth ==
  ASSUME NEW V \in SUBSET Tags, NEW W \in SUBSET Tags, HasLatest(V), HasLatest(W)
  PROVE  HasLatest(V \cup W)
<1>1. CASE V = {} \/ W = {}
  BY <1>1, Zenon DEF HasLatest
<1>2. CASE V # {} /\ W # {}
  <2>1. PICK v \in V : \A x \in V : NotAfter(x, v)
    BY <1>2, LaterIsOrder DEF HasLatest
  <2>2. PICK w \in W : \A x \in W : NotAfter(x, w)
    BY <1>2, LaterIsOrder DEF HasLatest
  <2>3. CASE NotAfter(v, w)
    <3>1. \A x \in V \cup W : NotAfter(x, w)
      BY <2>1, <2>2, <2>3, OrderOfTags
    <3>2. QED
      BY <3>1, LaterIsOrder DEF HasLatest
  <2>4. CASE NotAfter(w, v)
    <3>1. \A x \in V \cup W : NotAfter(x, v)
      BY <2>1, <2>2, <2>4, OrderOfTags
    <3>2. QED
      BY <3>1, LaterIsOrder DEF HasLatest
  <2>5. QED
    BY <2>3, <2>4, OrderOfTags
<1>3. QED
  BY <1>1, <1>2

LEMMA LatestOfOne == ASSUME NEW v \in Tags PROVE HasLatest({v})
<1>1. NotAfter(v, v)
  BY TagParts DEF NotAfter
<1>2. QED
  BY <1>1, LaterIsOrder, Zenon DEF HasLatest

(* Row by row. *)
LEMMA LatestOfRows ==
  ASSUME NEW rows, Versioned(rows),
         \A row \in ToSet(rows) : row.proof.assay.version \in Tags \cup {NoVersion}
  PROVE  HasLatest({row.proof.assay.version : row \in ToSet(rows)} \ {NoVersion})
<1> DEFINE P == {k \in Nat : k <= Len(rows) => HasLatest(VersionsUpTo(rows, k))}
<1>1. rows \in Seq(ToSet(rows))
  BY Zenon DEF Versioned, IsList
<1>2. /\ Len(rows) \in Nat /\ DOMAIN rows = 1..Len(rows)
      /\ \A i \in 1..Len(rows) : rows[i] \in ToSet(rows)
  BY <1>1
<1>3. 0 \in P
  <2>1. 1..0 = {}
    OBVIOUS
  <2>2. QED
    BY <2>1 DEF HasLatest, VersionsUpTo
<1>4. ASSUME NEW k \in Nat, k \in P PROVE k + 1 \in P
  <2> SUFFICES ASSUME k + 1 <= Len(rows) PROVE HasLatest(VersionsUpTo(rows, k + 1))
    OBVIOUS
  <2> DEFINE v == rows[k + 1].proof.assay.version
  <2>1. v \in Tags \cup {NoVersion}
    <3>1. k + 1 \in 1..Len(rows)
      BY <1>2
    <3>2. QED
      BY <1>2, <3>1, Zenon DEF v
  <2>2. VersionsUpTo(rows, k) \subseteq Tags
    <3>1. ASSUME NEW i \in 1..k PROVE rows[i].proof.assay.version \in Tags \cup {NoVersion}
      <4>1. i \in 1..Len(rows)
        BY <1>2
      <4>2. QED
        BY <1>2, <4>1, Zenon
    <3>2. QED
      BY <3>1, Zenon DEF VersionsUpTo
  <2>3. HasLatest(VersionsUpTo(rows, k))
    BY <1>2, <1>4
  <2>4. 1..(k + 1) = 1..k \cup {k + 1}
    OBVIOUS
  <2>5. VersionsUpTo(rows, k + 1) = VersionsUpTo(rows, k) \cup ({v} \ {NoVersion})
    BY <2>4, Zenon DEF VersionsUpTo, v
  <2> HIDE DEF v
  <2>6. CASE v = NoVersion
    <3>1. VersionsUpTo(rows, k + 1) = VersionsUpTo(rows, k)
      BY <2>5, <2>6, Zenon
    <3>2. QED
      BY <2>3, <3>1, Zenon
  <2>7. CASE v # NoVersion
    <3>1. v \in Tags /\ VersionsUpTo(rows, k + 1) = VersionsUpTo(rows, k) \cup {v}
      BY <2>1, <2>5, <2>7, Zenon
    <3>2. {v} \in SUBSET Tags /\ HasLatest({v})
      BY <3>1, LatestOfOne, Zenon
    <3>3. QED
      BY <2>2, <2>3, <3>1, <3>2, LatestOfBoth, Zenon
  <2>8. QED
    BY <2>6, <2>7
<1> HIDE DEF P
<1>5. Len(rows) \in P
  BY <1>2, <1>3, <1>4, NatInduct
<1>6. VersionsUpTo(rows, Len(rows))
        = {row.proof.assay.version : row \in ToSet(rows)} \ {NoVersion}
  BY <1>2, Zenon DEF VersionsUpTo, ToSet
<1>7. QED
  <2>1. Len(rows) <= Len(rows)
    BY <1>2
  <2>2. QED
    BY <1>2, <1>5, <1>6, <2>1, Zenon DEF P

(* The version that is derived is one that a proof records, and the last. *)
LEMMA DerivedIsLatest ==
  ASSUME NEW m, Versioned(m.carrier_rows), Versioned(m.recipe_rows), Derivable(m)
  PROVE  /\ MaxAssayVersion(ProofAssayVersions(m)) \in ProofAssayVersions(m)
         /\ \A v \in ProofAssayVersions(m) : NotAfter(v, MaxAssayVersion(ProofAssayVersions(m)))
<1> DEFINE C == {row.proof.assay.version : row \in ToSet(m.carrier_rows)}
           R == {row.proof.assay.version : row \in ToSet(m.recipe_rows)}
           A == ProofAssayVersions(m)
<1>1. A = (C \ {NoVersion}) \cup (R \ {NoVersion})
  BY Zenon DEF ProofAssayVersions, A, C, R
<1>2. A # {} /\ \A v \in A : Tagged(v)
  BY Zenon DEF Derivable, A
<1>3. C \cup R \subseteq Seq(Nat)
  BY Zenon DEF Versioned, C, R
<1>4. A \subseteq Tags
  BY <1>1, <1>2, <1>3, Zenon DEF Tags
<1>5. C \subseteq Tags \cup {NoVersion} /\ R \subseteq Tags \cup {NoVersion}
  BY <1>1, <1>4, Zenon
<1>6. HasLatest(C \ {NoVersion})
  <2>1. \A row \in ToSet(m.carrier_rows) : row.proof.assay.version \in Tags \cup {NoVersion}
    BY <1>5, Zenon DEF C
  <2>2. QED
    BY <2>1, LatestOfRows, Zenon DEF C
<1>7. HasLatest(R \ {NoVersion})
  <2>1. \A row \in ToSet(m.recipe_rows) : row.proof.assay.version \in Tags \cup {NoVersion}
    BY <1>5, Zenon DEF R
  <2>2. QED
    BY <2>1, LatestOfRows, Zenon DEF R
<1>8. HasLatest(A)
  <2>1. C \ {NoVersion} \in SUBSET Tags /\ R \ {NoVersion} \in SUBSET Tags
    BY <1>5, Zenon
  <2>2. QED
    BY <1>1, <1>6, <1>7, <2>1, LatestOfBoth, Zenon
<1> HIDE DEF A, C, R
<1>9. \E v \in A : \A w \in A : ~Later(w, v)
  BY <1>2, <1>8, Zenon DEF HasLatest
<1>10. MaxAssayVersion(A) \in A /\ \A w \in A : ~Later(w, MaxAssayVersion(A))
  BY <1>9, Zenon DEF MaxAssayVersion
<1>11. MaxAssayVersion(A) \in Tags /\ \A w \in A : w \in Tags
  BY <1>4, <1>10, Zenon
<1>12. \A w \in A : NotAfter(w, MaxAssayVersion(A))
  BY <1>10, <1>11, LaterIsOrder, Zenon
<1>13. QED
  BY <1>10, <1>12, Zenon DEF A

(* A command that generated or checked the projection left it as it is     *)
(* derived from the rows and the version of now.                           *)
JustGenerated ==
  ran.exit = SUCCESS /\ ran.verb \in {"generate", "generate --check"}

CurrentInv ==
  /\ MatrixReadable
  /\ JustGenerated =>
       /\ Refusal(matrix) = SUCCESS
       /\ matrix.generated = DeriveGenerated(matrix)

(* Writing the projection leaves what it is derived from. *)
LEMMA DerivedAgain ==
  ASSUME NEW m, NEW n, IsDocument(m), n = [m EXCEPT !.generated = DeriveGenerated(m)]
  PROVE  /\ n.generated = DeriveGenerated(m)
         /\ DeriveGenerated(n) = DeriveGenerated(m)
         /\ Derivable(m) => Derivable(n)
<1>1. n.generated = DeriveGenerated(m)
  BY DEF IsDocument
<1>2. n.carrier_rows = m.carrier_rows /\ n.recipe_rows = m.recipe_rows
  BY GeneratedAlone, Zenon
<1>3. ProofAssayVersions(n) = ProofAssayVersions(m)
  BY <1>2, Zenon DEF ProofAssayVersions
<1>4. n.generated.verified_on = m.generated.verified_on
  BY <1>1 DEF DeriveGenerated
<1>5. DeriveGenerated(n) = DeriveGenerated(m)
  BY <1>3, <1>4, Zenon DEF DeriveGenerated
<1>6. QED
  BY <1>1, <1>3, <1>4, <1>5, Zenon DEF Derivable

LEMMA NotRefused ==
  ASSUME MatrixReadable, Refusal(matrix) = SUCCESS
  PROVE  IsDocument(matrix) /\ harness # Blank /\ Derivable(matrix)
BY DEF MatrixReadable, Refusal, SUCCESS, CONFIG_ERROR, ARTIFACT_CONTRACT

LEMMA CurrentStep == CurrentInv /\ [SuiteNext]_suiteVars => CurrentInv'
<1> SUFFICES ASSUME CurrentInv, [SuiteNext]_suiteVars PROVE CurrentInv'
  OBVIOUS
<1>1. MatrixReadable /\ MatrixReadable'
  BY MatrixStep DEF CurrentInv
<1> SUFFICES ASSUME JustGenerated'
             PROVE  (Refusal(matrix) = SUCCESS /\ matrix.generated = DeriveGenerated(matrix))'
  BY <1>1, Zenon DEF CurrentInv
<1>2. ran'.exit = SUCCESS /\ ran'.verb \in {"generate", "generate --check"}
  BY Zenon DEF JustGenerated
<1>3. \A verb, exit : Exits(verb, exit) => ran'.verb = verb /\ ran'.exit = exit
  BY DEF Exits
<1>4. /\ ~Edit /\ ~Project
      /\ \A r \in BOOLEAN : ~Check(r)
  <2>1. Edit => ran'.verb = "none"
    BY DEF Edit, NoCommand
  <2>2. /\ Project => ran'.verb = "matrix"
        /\ \A r \in BOOLEAN : Check(r) => ran'.verb = "check"
    BY <1>3, Zenon DEF Project, Check
  <2>3. /\ "none" \notin {"generate", "generate --check"}
        /\ "matrix" \notin {"generate", "generate --check"}
        /\ "check" \notin {"generate", "generate --check"}
    BY Zenon
  <2>4. QED
    BY <1>2, <2>1, <2>2, <2>3, Zenon
<1>5. CASE UNCHANGED suiteVars
  <2>1. JustGenerated
    <3>1. ran' = ran
      BY <1>5 DEF suiteVars
    <3>2. QED
      BY <1>2, <3>1, Zenon DEF JustGenerated
  <2>2. Refusal(matrix) = SUCCESS /\ matrix.generated = DeriveGenerated(matrix)
    BY <2>1, Zenon DEF CurrentInv
  <2>3. QED
    BY <1>5, <2>2 DEF Refusal, DeriveGenerated, suiteVars
<1>6. CASE Generate /\ UNCHANGED harness
  <2>1. /\ Refusal(matrix) = SUCCESS
        /\ matrix' = [matrix EXCEPT !.generated = DeriveGenerated(matrix)]
    <3>1. SUCCESS # CI_FORMATTER
      BY DEF SUCCESS, CI_FORMATTER
    <3>2. \A exit : Exits("generate", exit) => exit = SUCCESS
      BY <1>2, <1>3, Zenon
    <3>3. ~Exits("generate", CI_FORMATTER)
      BY <3>1, <3>2, Zenon
    <3>4. Refusal(matrix) = SUCCESS
      BY <1>6, <3>2, Zenon DEF Generate
    <3>5. QED
      BY <1>6, <3>3, <3>4, Zenon DEF Generate
  <2>2. IsDocument(matrix) /\ harness # Blank /\ Derivable(matrix)
    BY <1>1, <2>1, NotRefused, Zenon
  <2> DEFINE n == matrix'
  <2>3. /\ n.generated = DeriveGenerated(matrix)
        /\ DeriveGenerated(n) = DeriveGenerated(matrix)
        /\ Derivable(n) /\ IsDocument(n)
    BY <2>1, <2>2, DerivedAgain, GeneratedAlone, Zenon
  <2>4. n # Missing /\ n # NotJson
    BY <2>3, DocumentsAreNotMarkers, Zenon
  <2> HIDE DEF n
  <2>5. Refusal(n) = SUCCESS
    BY <2>2, <2>3, <2>4, Zenon DEF Refusal
  <2>6. Refusal(matrix)' = Refusal(n) /\ DeriveGenerated(matrix)' = DeriveGenerated(n)
    BY <1>6, Zenon DEF Refusal, DeriveGenerated, n
  <2>7. QED
    BY <2>3, <2>5, <2>6, Zenon DEF n
<1>7. CASE GenerateCheck /\ UNCHANGED harness
  <2>1. CheckGenerated = SUCCESS
    BY <1>2, <1>3, <1>7, Zenon DEF GenerateCheck
  <2>2. Refusal(matrix) = SUCCESS /\ matrix.generated = DeriveGenerated(matrix)
    BY <2>1 DEF CheckGenerated, SUCCESS, ARTIFACT_CONTRACT
  <2>3. QED
    BY <1>7, <2>2, Zenon DEF Refusal, DeriveGenerated, GenerateCheck
<1>8. QED
  BY <1>4, <1>5, <1>6, <1>7, Zenon DEF SuiteNext

(* What `generate` has written passes `generate --check` until a commit    *)
(* comes, and names the last of the versions that the proofs record.       *)
THEOREM ProjectionIsCurrent == SuiteSpec => []GeneratedIsCurrent
<1>1. SuiteInit => CurrentInv
  <2>1. SuiteInit => ran.verb = "none"
    BY DEF SuiteInit, NoCommand
  <2>2. "none" \notin {"generate", "generate --check"}
    OBVIOUS
  <2>3. QED
    BY <2>1, <2>2, MatrixInit, Zenon DEF CurrentInv, JustGenerated
<1>2. CurrentInv => GeneratedIsCurrent
  <2> SUFFICES ASSUME CurrentInv, JustGenerated
               PROVE  /\ CheckGenerated = SUCCESS
                      /\ matrix.generated.default = matrix.generated.last
                      /\ matrix.generated.last \in ProofAssayVersions(matrix)
                      /\ \A v \in ProofAssayVersions(matrix) :
                           NotAfter(v, matrix.generated.last)
    BY Zenon DEF GeneratedIsCurrent, JustGenerated
  <2>1. Refusal(matrix) = SUCCESS /\ matrix.generated = DeriveGenerated(matrix)
    BY Zenon DEF CurrentInv
  <2>2. IsDocument(matrix) /\ Derivable(matrix)
    BY <2>1, NotRefused, Zenon DEF CurrentInv
  <2>3. Versioned(matrix.carrier_rows) /\ Versioned(matrix.recipe_rows)
    BY <2>2, DocumentsAreNotMarkers, Zenon DEF CurrentInv, MatrixReadable
  <2>4. /\ matrix.generated.last = MaxAssayVersion(ProofAssayVersions(matrix))
        /\ matrix.generated.default = matrix.generated.last
    BY <2>1 DEF DeriveGenerated
  <2>5. CheckGenerated = SUCCESS
    BY <2>1, Zenon DEF CheckGenerated
  <2>6. QED
    BY <2>2, <2>3, <2>4, <2>5, DerivedIsLatest, Zenon
<1>3. QED
  BY <1>1, <1>2, CurrentStep, PTL DEF SuiteSpec

-----------------------------------------------------------------------------
(***************************************************************************)
(* The packs.                                                              *)
(***************************************************************************)
(* A directory with no link at a listed path shows its own files. *)
LEMMA SeenWithoutLinks ==
  ASSUME NEW p, FilesMatch(Seen(p))
  PROVE  /\ DOMAIN Seen(p).files = DOMAIN p.files
         /\ \A path \in DOMAIN p.files : path \notin Unlisted => Seen(p).files[path] = p.files[path]
BY DEF Seen, FilesMatch

LEMMA VerifiedIsAdmitted ==
  ASSUME NEW p, VerifyEvidencePack(p)
  PROVE  Admitted([manifest |-> Seen(p).manifest, files |-> Seen(p).files])
<1> DEFINE q == Seen(p)
           a == [manifest |-> q.manifest, files |-> q.files]
<1>1. a.manifest = q.manifest /\ a.files = q.files
  OBVIOUS
<1>2. q.files = [path \in DOMAIN q.files |-> q.files[path]]
  BY DEF Seen
<1>3. Valid(q)
  BY Zenon DEF VerifyEvidencePack
<1> HIDE DEF a, q
<1>4. /\ Paths(q.manifest) = DOMAIN q.files
      /\ \A entry \in Listed(q.manifest) : q.files[entry.path] = entry.digest
  BY <1>3 DEF Valid, FilesMatch
<1>5. /\ q.manifest.schema \in {V0, V1}
      /\ q.manifest.digest = ManifestCore(q.manifest)
      /\ IF q.manifest.schema = V1 THEN ExternalValid(q.manifest, q.files)
         ELSE q.manifest.external = <<>>
  BY <1>3, Zenon DEF Valid
<1>6. Admitted(a)
  BY <1>1, <1>2, <1>4, <1>5, Zenon DEF Admitted
<1>7. QED
  BY <1>6 DEF a, q

(* Under one digest the manifests list the same files with the same        *)
(* digests, so the directories hold the same bytes.                        *)
LEMMA DigestsDetermineFiles ==
  ASSUME NEW p, NEW q, Admitted(p), Admitted(q), p.manifest.digest = q.manifest.digest
  PROVE  p.files = q.files
<1>1. ManifestCore(p.manifest) = ManifestCore(q.manifest)
  BY DEF Admitted
<1>2. /\ p.manifest.schema = q.manifest.schema
      /\ ToSet(p.manifest.sources) = ToSet(q.manifest.sources)
      /\ ToSet(p.manifest.projections) = ToSet(q.manifest.projections)
  BY <1>1 DEF ManifestCore
<1>3. ToSet(p.manifest.external) = ToSet(q.manifest.external)
  <2>1. CASE p.manifest.schema # V1
    BY <1>2, <2>1, Zenon DEF Admitted
  <2>2. CASE p.manifest.schema = V1
    BY <1>1, <1>2, <2>2 DEF ManifestCore
  <2>3. QED
    BY <2>1, <2>2
<1>4. Listed(p.manifest) = Listed(q.manifest)
  BY <1>2, <1>3, Zenon DEF Listed
<1>5. Paths(p.manifest) = Paths(q.manifest)
  BY <1>4, Zenon DEF Paths
<1>6. DOMAIN p.files = DOMAIN q.files
  BY <1>5, Zenon DEF Admitted
<1>7. ASSUME NEW path \in DOMAIN p.files PROVE p.files[path] = q.files[path]
  <2>1. PICK entry \in Listed(p.manifest) : entry.path = path
    BY <1>7 DEF Admitted, Paths
  <2>2. QED
    BY <1>4, <2>1 DEF Admitted
<1>8. QED
  BY <1>6, <1>7 DEF Admitted

LEMMA AdmittedStep ==
  AdmittedInv /\ [PackNext /\ UNCHANGED suiteVars]_<<packVars, suiteVars>> => AdmittedInv'
<1> SUFFICES ASSUME AdmittedInv, [PackNext /\ UNCHANGED suiteVars]_<<packVars, suiteVars>>
             PROVE  AdmittedInv'
  OBVIOUS
<1>1. CASE Verify
  <2>1. Admitted([manifest |-> Seen(pack).manifest, files |-> Seen(pack).files])
    BY <1>1, VerifiedIsAdmitted, Zenon DEF Verify
  <2>2. accepted' = accepted
          \cup {[manifest |-> Seen(pack).manifest, files |-> Seen(pack).files]}
    BY <1>1, Zenon DEF Verify
  <2>3. QED
    BY <2>1, <2>2, Zenon DEF AdmittedInv
<1>2. CASE UNCHANGED accepted
  BY <1>2, Zenon DEF AdmittedInv
<1>3. QED
  BY <1>1, <1>2, Zenon DEF PackNext, StartCreate, EditInput, Read, Parse, Copy, Write,
     SelfVerify, CreateFails, EditPack, EditOutside, packVars

(* The digest is the pack's identity: two packs that were accepted under   *)
(* one digest hold the same evidence, whatever edits and creates made      *)
(* them and whatever their manifests hold besides.                         *)
THEOREM DigestsIdentify == PackSpec => []DigestIdentifiesEvidence
<1>1. PackInit => AdmittedInv
  BY DEF PackInit, AdmittedInv
<1>2. AdmittedInv => DigestIdentifiesEvidence
  BY DigestsDetermineFiles, Zenon DEF AdmittedInv, DigestIdentifiesEvidence
<1>3. QED
  BY <1>1, <1>2, AdmittedStep, PTL DEF PackSpec

(* A claim of the manifest to be bound to the release asset holds in the   *)
(* bytes of the pack: there is one entry of the role, and verify compared  *)
(* what it names with the provenance and the statement.                    *)
THEOREM AttestationsHold == PackSpec => []ReleaseBindingIsAttested
<1>1. PackInit => AdmittedInv
  BY DEF PackInit, AdmittedInv
<1>2. ASSUME NEW p, Admitted(p), NEW i \in DOMAIN p.manifest.external,
             p.manifest.external[i].role = ExternalInputs[1],
             p.manifest.external[i].to = ReleaseBinding
      PROVE  Source(p.manifest, p.files, "recipe_provenance").release
               \in p.files[p.manifest.external[i].path].subjects
  <2> DEFINE m == p.manifest
             bundle == External(m, ExternalInputs[1])
  <2>1. ExternalValid(m, p.files)
    <3>1. DOMAIN <<>> = {}
      OBVIOUS
    <3>2. QED
      BY <1>2, <3>1, Zenon DEF Admitted
  <2>2. bundle = m.external[i]
    <3>1. ExternalInputs[1] \in ToSet(ExternalInputs)
      BY DEF ExternalInputs, ToSet
    <3>2. \E j \in DOMAIN m.external : InRole(m, ExternalInputs[1]) = {j}
      BY <2>1, <3>1, Zenon DEF ExternalValid
    <3>3. i \in InRole(m, ExternalInputs[1])
      BY <1>2, Zenon DEF InRole
    <3>4. InRole(m, ExternalInputs[1]) = {i}
      BY <3>2, <3>3, Zenon
    <3>5. \A j : InRole(m, ExternalInputs[1]) = {j} => j = i
      BY <3>4, Zenon
    <3>6. QED
      BY <1>2, <3>4, <3>5, Zenon DEF External
  <2>3. /\ bundle.subject_digest \in p.files[bundle.path].subjects
        /\ bundle.to = ReleaseBinding =>
             Source(m, p.files, "recipe_provenance").release = bundle.subject_digest
    BY <2>1, Zenon DEF ExternalValid
  <2>4. QED
    BY <1>2, <2>2, <2>3, Zenon
<1>3. AdmittedInv => ReleaseBindingIsAttested
  BY <1>2, Zenon DEF AdmittedInv, ReleaseBindingIsAttested
<1>4. QED
  BY <1>1, <1>3, AdmittedStep, PTL DEF PackSpec

(* An edit outside of a pack, by anyone and at any time, changes no verdict *)
(* of verify unless the manifest or the sidecar is a link: any other link  *)
(* is refused before and after.                                            *)
THEOREM VerdictsStandAlone == PackSpec => PackStandsAlone
<1>1. ASSUME UNCHANGED pack, pack.links \cap Unlisted = {}
      PROVE  VerifyEvidencePack(pack)' = VerifyEvidencePack(pack)
  <2>1. CASE pack.links = {}
    <3>1. Seen(pack)' = Seen(pack)
      BY <1>1, <2>1 DEF Seen
    <3>2. QED
      BY <3>1, Zenon DEF VerifyEvidencePack, Valid, FilesMatch
  <2>2. CASE pack.links # {}
    <3>1. ~(pack.links \subseteq Unlisted) /\ ~(pack'.links \subseteq Unlisted)
      BY <1>1, <2>2, Zenon
    <3>2. Seen(pack).links = pack.links /\ Seen(pack)'.links = pack'.links
      BY DEF Seen
    <3>3. ~FilesMatch(Seen(pack)) /\ ~FilesMatch(Seen(pack))'
      BY <3>1, <3>2, Zenon DEF FilesMatch
    <3>4. QED
      BY <3>3, Zenon DEF VerifyEvidencePack, Valid
  <2>3. QED
    BY <2>1, <2>2
<1>2. [UNCHANGED pack /\ pack.links \cap Unlisted = {} =>
         VerifyEvidencePack(pack)' = VerifyEvidencePack(pack)]_packVars
  BY <1>1, Zenon
<1>3. QED
  BY <1>2, PTL DEF PackStandsAlone

-----------------------------------------------------------------------------
(***************************************************************************)
(* What create leaves behind.                                              *)
(***************************************************************************)
Subjects == ToSet(Inputs) \cup ToSet(ExternalInputs)
Gathering == {"read", "parse", "copy"} \X Subjects
WriteManifest == <<"write", "manifest">>
WriteSidecar == <<"write", "sidecar">>
VerifyPack == <<"verify", "pack">>
Writes == {WriteManifest, WriteSidecar}
Checks == {VerifyPack}
Operations == Gathering \cup Writes \cup Checks

(* Every read comes before the manifest is written and every verify after. *)
InOrder(steps) ==
  /\ steps \in Seq(Operations)
  /\ \A i \in 1..Len(steps) : steps[i][1] = "read" =>
       \E j \in 1..Len(steps) : i < j /\ steps[j] = WriteManifest
  /\ \A i, j \in 1..Len(steps) :
       steps[i][1] = "verify" /\ steps[j] = WriteManifest => j < i

ManifestDue(steps) == \E i \in 1..Len(steps) : steps[i] = WriteManifest
VerifyDue(steps) == \E i \in 1..Len(steps) : steps[i] = VerifyPack

(* What CreatedPackIsBound says of the files. *)
Bound(p) ==
  /\ \A i \in DOMAIN p.files : p.files[i] = held[i]
  /\ p.files["recipe_provenance"].artifact = p.files["assay_carrier"]
  /\ \E row \in ToSet(p.files["suite_matrix"].carrier_rows)
                \cup ToSet(p.files["suite_matrix"].recipe_rows) :
       ProofHolds(row.proof, p.files["recipe_provenance"])

ManifestSeen == IF "manifest" \in pack.links THEN outside.manifest ELSE pack.manifest

(* What is written outside through a link is written where it is read. *)
Outside == outside = [manifest |-> outside.manifest, sidecar |-> outside.sidecar]

CreateInv ==
  /\ IsPack(pack) /\ Outside
  /\ InOrder(todo)
  /\ todo # <<>> => (ManifestDue(todo) \/ ManifestSeen = Manifest) /\ (external \/ VerifyDue(todo))
  /\ created = SUCCESS =>
       todo = <<>> /\ ManifestSeen = Manifest /\ (external \/ Bound(pack))

LEMMA FunctionIsSeq ==
  ASSUME NEW S, NEW n \in Nat, NEW f \in [1..n -> S] PROVE f \in Seq(S) /\ Len(f) = n
OBVIOUS

LEMMA WiderSeq ==
  ASSUME NEW S, NEW T, S \subseteq T, NEW s \in Seq(S) PROVE s \in Seq(T)
<1>1. Len(s) \in Nat /\ s \in [1..Len(s) -> S]
  OBVIOUS
<1>2. s \in [1..Len(s) -> T]
  BY <1>1
<1>3. QED
  BY <1>1, <1>2, FunctionIsSeq, Zenon

Joins(j, s, t) ==
  /\ Len(s) \in Nat /\ Len(t) \in Nat /\ Len(j) = Len(s) + Len(t)
  /\ \A i \in 1..Len(s) : j[i] = s[i]
  /\ \A i \in 1..Len(t) : j[Len(s) + i] = t[i]

LEMMA Joined ==
  ASSUME NEW S, NEW s \in Seq(S), NEW t \in Seq(S)
  PROVE  s \o t \in Seq(S) /\ Joins(s \o t, s, t)
BY DEF Joins

LEMMA EachIsSeq ==
  ASSUME NEW op, NEW R, NEW roles \in Seq(R), NEW T, \A role \in R : <<op, role>> \in T
  PROVE  /\ Each(op, roles) \in Seq(T)
         /\ Len(Each(op, roles)) = Len(roles)
         /\ \A i \in 1..Len(roles) : Each(op, roles)[i] = <<op, roles[i]>>
<1> DEFINE f == Each(op, roles)
           n == Len(roles)
<1>1. n \in Nat /\ DOMAIN roles = 1..n /\ \A i \in 1..n : roles[i] \in R
  OBVIOUS
<1>2. f = [i \in 1..n |-> <<op, roles[i]>>]
  BY <1>1, Zenon DEF Each
<1> HIDE DEF f, n
<1>3. \A i \in 1..n : f[i] = <<op, roles[i]>>
  BY <1>2
<1>4. \A i \in 1..n : <<op, roles[i]>> \in T
  BY <1>1, Zenon
<1>5. f \in [1..n -> T]
  BY <1>2, <1>4, Zenon
<1>6. f \in Seq(T) /\ Len(f) = n
  BY <1>1, <1>5, FunctionIsSeq, Zenon
<1>7. QED
  BY <1>3, <1>6, Zenon DEF f, n

LEMMA GatheringSteps ==
  ASSUME NEW op \in {"read", "parse", "copy"}, NEW roles \in Seq(Subjects)
  PROVE  Each(op, roles) \in Seq(Gathering)
<1>1. \A role \in Subjects : <<op, role>> \in Gathering
  BY Zenon DEF Gathering
<1>2. QED
  BY <1>1, EachIsSeq, Zenon

(* A list of such steps before the two writes, and the verify if it is one *)
(* of the steps, is in order.                                              *)
LEMMA OrderOfSteps ==
  ASSUME NEW p \in Seq(Gathering), NEW w \in Seq(Operations), NEW v \in Seq(Checks),
         Len(w) = 2, w[1] = WriteManifest, w[2] = WriteSidecar
  PROVE  /\ InOrder((p \o w) \o v) /\ ManifestDue((p \o w) \o v)
         /\ Len(v) = 1 => VerifyDue((p \o w) \o v)
<1> DEFINE t == (p \o w) \o v
           n == Len(p)
<1>1. Gathering \subseteq Operations /\ Checks \subseteq Operations
  BY DEF Operations
<1>2. p \in Seq(Operations) /\ v \in Seq(Operations)
  BY <1>1, WiderSeq, Zenon
<1> DEFINE q == p \o w
<1>3. /\ q \in Seq(Operations) /\ t \in Seq(Operations)
      /\ Joins(q, p, w) /\ Joins(t, q, v)
  BY <1>2, Joined, Zenon
<1> HIDE DEF q, t, n
<1>4. /\ n \in Nat /\ Len(q) = n + 2 /\ Len(t) = n + 2 + Len(v) /\ Len(v) \in Nat
      /\ \A i \in 1..n : t[i] = p[i]
  <2>1. n \in Nat /\ Len(q) = n + 2 /\ Len(t) = n + 2 + Len(v) /\ Len(v) \in Nat
    BY <1>3 DEF Joins, n
  <2>2. ASSUME NEW i \in 1..n PROVE t[i] = p[i]
    <3>1. i \in 1..Len(q)
      BY <2>1
    <3>2. t[i] = q[i]
      BY <1>3, <3>1, Zenon DEF Joins
    <3>3. q[i] = p[i]
      BY <1>3, Zenon DEF Joins, n
    <3>4. QED
      BY <3>2, <3>3
  <2>3. QED
    BY <2>1, <2>2
<1>5. t[n + 1] = WriteManifest /\ t[n + 2] = WriteSidecar
  <2>1. n + 1 \in 1..Len(q) /\ n + 2 \in 1..Len(q) /\ 1 \in 1..Len(w) /\ 2 \in 1..Len(w)
    BY <1>4
  <2>2. t[n + 1] = q[n + 1] /\ t[n + 2] = q[n + 2]
    BY <1>3, <2>1, Zenon DEF Joins
  <2>3. q[n + 1] = w[1] /\ q[n + 2] = w[2]
    BY <1>3, <2>1, Zenon DEF Joins, n
  <2>4. QED
    BY <2>2, <2>3, Zenon
<1>6. ASSUME NEW i \in 1..Len(t), n + 2 < i PROVE t[i] = VerifyPack
  <2> DEFINE k == i - (n + 2)
  <2>1. k \in 1..Len(v) /\ Len(q) + k = i
    BY <1>3, <1>4, <1>6
  <2>2. v[k] \in Checks
    BY <2>1, ElementsOf, Zenon
  <2> HIDE DEF k
  <2>3. t[Len(q) + k] = v[k]
    BY <1>3, <2>1, Zenon DEF Joins
  <2>4. QED
    BY <2>1, <2>2, <2>3, Zenon DEF Checks
<1>7. \A i \in 1..n : p[i][1] \in {"read", "parse", "copy"} /\ p[i] # WriteManifest
  <2>1. ASSUME NEW i \in 1..n PROVE p[i] \in Gathering
    BY ElementsOf, Zenon DEF n
  <2>2. \A g \in Gathering : g[1] \in {"read", "parse", "copy"} /\ g # WriteManifest
    BY DEF Gathering, WriteManifest
  <2>3. QED
    BY <2>1, <2>2
<1>8. \A i \in 1..Len(t) : i \in 1..n \/ i = n + 1 \/ i = n + 2 \/ n + 2 < i
  BY <1>3, <1>4
<1>9. /\ WriteManifest[1] = "write" /\ WriteSidecar[1] = "write" /\ VerifyPack[1] = "verify"
      /\ "write" # "read" /\ "verify" # "read" /\ "write" # "verify"
  BY DEF WriteManifest, WriteSidecar, VerifyPack
<1>10. ASSUME NEW i \in 1..Len(t), t[i][1] = "read"
       PROVE  \E j \in 1..Len(t) : i < j /\ t[j] = WriteManifest
  <2>1. i \in 1..n
    BY <1>5, <1>6, <1>8, <1>9, <1>10, Zenon
  <2>2. n + 1 \in 1..Len(t) /\ i < n + 1
    BY <1>3, <1>4, <2>1
  <2>3. QED
    BY <1>5, <2>2, Zenon
<1>11. ASSUME NEW i \in 1..Len(t), NEW j \in 1..Len(t), t[i][1] = "verify", t[j] = WriteManifest
       PROVE  j < i
  <2>1. n + 2 < i
    <3>1. i \notin 1..n
      BY <1>4, <1>7, <1>11
    <3>2. QED
      BY <1>5, <1>8, <1>9, <1>11, <3>1, Zenon
  <2>2. ~(n + 2 < j)
    BY <1>6, <1>9, <1>11, Zenon
  <2>3. QED
    BY <1>3, <1>4, <2>1, <2>2
<1>12. InOrder(t)
  BY <1>3, <1>10, <1>11, Zenon DEF InOrder
<1>13. n + 1 \in 1..Len(t)
  BY <1>3, <1>4
<1>14. ManifestDue(t)
  BY <1>5, <1>13, Zenon DEF ManifestDue
<1>15. ASSUME Len(v) = 1 PROVE VerifyDue(t)
  <2>1. n + 3 \in 1..Len(t) /\ n + 2 < n + 3
    BY <1>3, <1>4, <1>15
  <2>2. QED
    BY <1>6, <2>1, Zenon DEF VerifyDue
<1>16. QED
  BY <1>12, <1>14, <1>15, Zenon DEF t

LEMMA StepsAreInOrder ==
  ASSUME NEW with_external
  PROVE  /\ InOrder(CreateSteps(with_external)) /\ ManifestDue(CreateSteps(with_external))
         /\ with_external \/ VerifyDue(CreateSteps(with_external))
<1> DEFINE A == Each("read", Inputs)
           B == Each("parse", <<"assay_carrier", "recipe_provenance">>)
           C == Each("copy", Inputs)
           D == Each("read", ExternalInputs)
           E == Each("parse", <<ExternalInputs[2]>>)
           F == Each("copy", ExternalInputs)
           X == IF with_external THEN (D \o E) \o F ELSE <<>>
           W == Each("write", <<"manifest", "sidecar">>)
           V == IF with_external THEN <<>> ELSE Each("verify", <<"pack">>)
<1>1. /\ Inputs \in Seq(Subjects) /\ ExternalInputs \in Seq(Subjects)
      /\ <<"assay_carrier", "recipe_provenance">> \in Seq(Subjects)
      /\ <<ExternalInputs[2]>> \in Seq(Subjects)
  <2>1. \A S : \A a, b, c, d \in S :
          <<a>> \in Seq(S) /\ <<a, b>> \in Seq(S) /\ <<a, b, c, d>> \in Seq(S)
    OBVIOUS
  <2>2. /\ "assay_carrier" \in Subjects /\ "suite_matrix" \in Subjects
        /\ "recipe_provenance" \in Subjects /\ "harness_markdown" \in Subjects
        /\ "external_attestation_bundle" \in Subjects
        /\ "external_attestation_metadata" \in Subjects
    BY DEF Subjects, ToSet, Inputs, ExternalInputs
  <2>3. ExternalInputs[2] = "external_attestation_metadata"
    BY DEF ExternalInputs
  <2>4. QED
    BY <2>1, <2>2, <2>3, Zenon DEF Inputs, ExternalInputs
<1>2. /\ A \in Seq(Gathering) /\ B \in Seq(Gathering) /\ C \in Seq(Gathering)
      /\ D \in Seq(Gathering) /\ E \in Seq(Gathering) /\ F \in Seq(Gathering)
  <2>1. \A op \in {"read", "parse", "copy"} : \A roles \in Seq(Subjects) :
          Each(op, roles) \in Seq(Gathering)
    BY GatheringSteps, Zenon
  <2>2. QED
    BY <1>1, <2>1, Zenon
<1>3. /\ W \in Seq(Operations) /\ Len(W) = 2
      /\ W[1] = WriteManifest /\ W[2] = WriteSidecar
  <2> DEFINE roles == <<"manifest", "sidecar">>
             R == {"manifest", "sidecar"}
  <2>1. Len(roles) = 2 /\ roles[1] = "manifest" /\ roles[2] = "sidecar" /\ roles \in Seq(R)
    OBVIOUS
  <2>2. W = Each("write", roles)
    BY Zenon
  <2>3. \A role \in R : <<"write", role>> \in Operations
    BY DEF Operations, Writes, WriteManifest, WriteSidecar
  <2> HIDE DEF roles, R, W
  <2>4. /\ W \in Seq(Operations) /\ Len(W) = Len(roles)
        /\ \A i \in 1..Len(roles) : W[i] = <<"write", roles[i]>>
    BY <2>1, <2>2, <2>3, EachIsSeq, Zenon
  <2>5. 1 \in 1..2 /\ 2 \in 1..2
    OBVIOUS
  <2>6. QED
    BY <2>1, <2>4, <2>5, Zenon DEF WriteManifest, WriteSidecar
<1>4. V \in Seq(Checks) /\ (with_external \/ Len(V) = 1)
  <2> DEFINE roles == <<"pack">>
             R == {"pack"}
             W1 == Each("verify", roles)
  <2>1. Len(roles) = 1 /\ roles \in Seq(R)
    OBVIOUS
  <2>2. \A role \in R : <<"verify", role>> \in Checks
    BY DEF Checks, VerifyPack
  <2> HIDE DEF roles, R
  <2>3. W1 \in Seq(Checks) /\ Len(W1) = 1
    BY <2>1, <2>2, EachIsSeq, Zenon
  <2>4. <<>> \in Seq(Checks)
    OBVIOUS
  <2>5. V = IF with_external THEN <<>> ELSE W1
    BY Zenon DEF roles
  <2> HIDE DEF W1, V
  <2>6. QED
    BY <2>3, <2>4, <2>5, Zenon
<1>5. CreateSteps(with_external) = ((((A \o B) \o C) \o X) \o W) \o V
  BY Zenon DEF CreateSteps
<1> HIDE DEF A, B, C, D, E, F, W, V
<1>6. X \in Seq(Gathering)
  BY <1>2
<1> HIDE DEF X
<1>7. ((A \o B) \o C) \o X \in Seq(Gathering)
  BY <1>2, <1>6
<1>8. QED
  BY <1>3, <1>4, <1>5, <1>7, OrderOfSteps, Zenon

(* The steps that are left are in order when one is done. *)
LEMMA TailInOrder ==
  ASSUME NEW steps, InOrder(steps), steps # <<>>
  PROVE  /\ InOrder(Tail(steps))
         /\ ManifestDue(steps) /\ Head(steps) # WriteManifest => ManifestDue(Tail(steps))
         /\ Head(steps)[1] = "read" => ManifestDue(Tail(steps))
         /\ Head(steps)[1] = "verify" => ~ManifestDue(steps)
         /\ VerifyDue(steps) /\ Head(steps)[1] # "verify" => VerifyDue(Tail(steps))
         /\ ~ManifestDue(<<>>) /\ ~VerifyDue(<<>>)
<1> DEFINE t == Tail(steps)
           n == Len(steps)
<1>1. /\ steps \in Seq(Operations) /\ n \in Nat \ {0} /\ Head(steps) = steps[1]
      /\ t \in Seq(Operations) /\ Len(t) = n - 1
      /\ \A i \in 1..(n - 1) : t[i] = steps[i + 1]
  BY DEF InOrder
<1>2. /\ \A i \in 1..n : steps[i][1] = "read" =>
           \E j \in 1..n : i < j /\ steps[j] = WriteManifest
      /\ \A i, j \in 1..n : steps[i][1] = "verify" /\ steps[j] = WriteManifest => j < i
  BY Zenon DEF InOrder
<1> HIDE DEF t, n
<1>3. ASSUME NEW j \in 1..n, 1 < j, steps[j] = WriteManifest
      PROVE  j - 1 \in 1..(n - 1) /\ t[j - 1] = WriteManifest
  <2>1. j - 1 \in 1..(n - 1) /\ (j - 1) + 1 = j
    BY <1>1, <1>3
  <2>2. QED
    BY <1>1, <1>3, <2>1
<1>4. ASSUME NEW i \in 1..(n - 1)
      PROVE  i + 1 \in 1..n /\ 1 < i + 1 /\ t[i] = steps[i + 1]
  BY <1>1
<1>5. \A i \in 1..(n - 1) : t[i][1] = "read" =>
        \E j \in 1..(n - 1) : i < j /\ t[j] = WriteManifest
  <2> SUFFICES ASSUME NEW i \in 1..(n - 1), t[i][1] = "read"
               PROVE  \E j \in 1..(n - 1) : i < j /\ t[j] = WriteManifest
    OBVIOUS
  <2>1. PICK j \in 1..n : i + 1 < j /\ steps[j] = WriteManifest
    BY <1>2, <1>4
  <2>2. 1 < j /\ i < j - 1
    BY <1>1, <2>1
  <2>3. QED
    BY <1>3, <2>1, <2>2
<1>6. \A i, j \in 1..(n - 1) : t[i][1] = "verify" /\ t[j] = WriteManifest => j < i
  <2> SUFFICES ASSUME NEW i \in 1..(n - 1), NEW j \in 1..(n - 1),
                      t[i][1] = "verify", t[j] = WriteManifest
               PROVE  j < i
    OBVIOUS
  <2>1. j + 1 < i + 1
    BY <1>2, <1>4
  <2>2. QED
    BY <1>1, <2>1
<1>7. InOrder(t)
  BY <1>1, <1>5, <1>6, Zenon DEF InOrder
<1>8. ASSUME NEW j \in 1..n, steps[j] = WriteManifest, j # 1
      PROVE  ManifestDue(t)
  <2>1. 1 < j
    BY <1>1, <1>8
  <2>2. QED
    BY <1>1, <1>3, <1>8, <2>1, Zenon DEF ManifestDue
<1>9. ManifestDue(steps) /\ Head(steps) # WriteManifest => ManifestDue(t)
  BY <1>1, <1>8, Zenon DEF ManifestDue, n
<1>10. 1 \in 1..n
  BY <1>1
<1>11. Head(steps)[1] = "read" => ManifestDue(t)
  <2> SUFFICES ASSUME steps[1][1] = "read" PROVE ManifestDue(t)
    BY <1>1, Zenon
  <2>1. PICK j \in 1..n : 1 < j /\ steps[j] = WriteManifest
    BY <1>2, <1>10, Zenon
  <2>2. j # 1
    BY <2>1
  <2>3. QED
    BY <1>8, <2>1, <2>2, Zenon
<1>12. Head(steps)[1] = "verify" => ~ManifestDue(steps)
  <2> SUFFICES ASSUME steps[1][1] = "verify", NEW j \in 1..n, steps[j] = WriteManifest
               PROVE  FALSE
    BY <1>1, Zenon DEF ManifestDue, n
  <2>1. j < 1
    BY <1>2, <1>10, Zenon
  <2>2. QED
    BY <1>1, <2>1
<1>13. VerifyDue(steps) /\ Head(steps)[1] # "verify" => VerifyDue(t)
  <2> SUFFICES ASSUME NEW j \in 1..n, steps[j] = VerifyPack, steps[1][1] # "verify"
               PROVE  VerifyDue(t)
    BY <1>1, Zenon DEF VerifyDue, n
  <2>1. j # 1
    BY DEF VerifyPack
  <2>2. j - 1 \in 1..(n - 1) /\ (j - 1) + 1 = j
    BY <1>1, <2>1
  <2>3. t[j - 1] = VerifyPack
    BY <1>1, <2>2
  <2>4. QED
    BY <1>1, <2>2, <2>3, Zenon DEF VerifyDue
<1>14. ~ManifestDue(<<>>) /\ ~VerifyDue(<<>>)
  BY DEF ManifestDue, VerifyDue
<1>15. QED
  BY <1>7, <1>9, <1>11, <1>12, <1>13, <1>14, Zenon DEF t

(* The manifest lists what create has read under its own paths. *)
LEMMA ManifestFields ==
  /\ Manifest.sources =
       [i \in DOMAIN SourceInputs |-> Entry(SourceInputs[i], held[SourceInputs[i]])]
  /\ Manifest.projections =
       <<[role |-> "harness_markdown", path |-> "harness_markdown", lossy |-> TRUE,
          source_digest |-> held["assay_carrier"], digest |-> held["harness_markdown"]]>>
  /\ Manifest.external = IF external THEN ExternalEntries ELSE <<>>
BY DEF Manifest

LEMMA ManifestListsWhatWasRead ==
  /\ \A entry \in Listed(Manifest) : entry.digest = held[entry.path]
  /\ \A role \in ToSet(SourceInputs) :
       role \in Paths(Manifest) /\ \A files : Source(Manifest, files, role) = files[role]
<1>1. \A entry \in ToSet(Manifest.sources) : entry.digest = held[entry.path]
  BY ManifestFields DEF ToSet, Entry
<1>2. \A entry \in ToSet(Manifest.projections) : entry.digest = held[entry.path]
  BY ManifestFields DEF ToSet
<1>3. \A entry \in ToSet(Manifest.external) : entry.digest = held[entry.path]
  <2>1. \A entry \in ToSet(ExternalEntries) : entry.digest = held[entry.path]
    BY DEF ToSet, ExternalEntries, Entry, ExternalInputs
  <2>2. ToSet(<<>>) = {}
    BY DEF ToSet
  <2>3. QED
    BY <2>1, <2>2, ManifestFields, Zenon
<1>4. ASSUME NEW role \in ToSet(SourceInputs)
      PROVE  role \in Paths(Manifest) /\ \A files : Source(Manifest, files, role) = files[role]
  <2> DEFINE m == Manifest
  <2>1. \A i \in DOMAIN m.sources : m.sources[i].path = m.sources[i].role
    BY ManifestFields DEF Entry
  <2>2. PICK i \in DOMAIN m.sources : m.sources[i].role = role
    BY ManifestFields DEF ToSet, Entry
  <2> HIDE DEF m
  <2>3. role \in Paths(m)
    <3>1. m.sources[i] \in Listed(m) /\ m.sources[i].path = role
      BY <2>1, <2>2, Zenon DEF Listed, ToSet
    <3>2. QED
      BY <3>1, Zenon DEF Paths
  <2>4. \A files : Source(m, files, role) = files[role]
    <3> DEFINE k == CHOOSE j \in DOMAIN m.sources : m.sources[j].role = role
    <3>1. k \in DOMAIN m.sources /\ m.sources[k].role = role
      BY <2>2, Zenon
    <3>2. m.sources[k].path = role
      BY <2>1, <3>1, Zenon
    <3>3. QED
      BY <3>2, Zenon DEF Source
  <2>5. QED
    BY <2>3, <2>4, Zenon DEF m
<1>5. QED
  BY <1>1, <1>2, <1>3, <1>4, Zenon DEF Listed

(* It lists neither itself nor the sidecar. *)
LEMMA ManifestListsInputs == \A path \in Paths(Manifest) : path \notin Unlisted
<1>1. Unlisted = {"manifest", "sidecar"}
  BY DEF Unlisted, Lost
<1>2. \A entry \in ToSet(Manifest.sources) : entry.path \notin {"manifest", "sidecar"}
  BY ManifestFields DEF ToSet, Entry, SourceInputs
<1>3. \A entry \in ToSet(Manifest.projections) : entry.path \notin {"manifest", "sidecar"}
  BY ManifestFields DEF ToSet
<1>4. \A entry \in ToSet(Manifest.external) : entry.path \notin {"manifest", "sidecar"}
  <2>1. \A entry \in ToSet(ExternalEntries) : entry.path \notin {"manifest", "sidecar"}
    BY DEF ToSet, ExternalEntries, Entry, ExternalInputs
  <2>2. ToSet(<<>>) = {}
    BY DEF ToSet
  <2>3. QED
    BY <2>1, <2>2, ManifestFields, Zenon
<1>5. QED
  BY <1>1, <1>2, <1>3, <1>4, Zenon DEF Paths, Listed

LEMMA LeastExists ==
  ASSUME NEW S \in SUBSET Nat, S # {}
  PROVE  Min(S) \in S
<1> DEFINE P == {k \in Nat : \A m \in 0..k : m \notin S}
<1>1. SUFFICES ASSUME \A k \in S : \E m \in S : ~(k <= m) PROVE FALSE
  BY Zenon DEF Min
<1>2. 0 \in P
  BY <1>1
<1>3. ASSUME NEW k \in Nat, k \in P PROVE k + 1 \in P
  <2>1. \A m \in 0..(k + 1) : m \in 0..k \/ m = k + 1
    BY <1>3
  <2>2. k + 1 \notin S
    <3>1. \A m \in S : k + 1 <= m
      BY <1>3
    <3>2. QED
      BY <1>1, <3>1
  <2>3. QED
    BY <1>3, <2>1, <2>2
<1> HIDE DEF P
<1>4. Nat \subseteq P
  BY <1>2, <1>3, NatInduct
<1>5. PICK k \in S : TRUE
  OBVIOUS
<1>6. k \in 0..k /\ k \in Nat
  OBVIOUS
<1>7. QED
  BY <1>4, <1>6, Zenon DEF P

(* A binding rests on a row of the matrix that holds the proof. *)
LEMMA BindingNamesARow ==
  ASSUME NEW m, NEW subject, NEW prov, IsList(m.carrier_rows),
         Binding(m, subject, prov) # "none"
  PROVE  \E row \in ToSet(m.carrier_rows) \cup ToSet(m.recipe_rows) : ProofHolds(row.proof, prov)
<1> DEFINE named == {i \in DOMAIN m.carrier_rows : m.carrier_rows[i].carrier = subject}
           proof == m.carrier_rows[Min(named)].proof
           recipes == {i \in DOMAIN m.recipe_rows : ProofHolds(m.recipe_rows[i].proof, prov)}
<1>1. named # {} /\ (ProofHolds(proof, prov) \/ Cardinality(recipes) = 1)
  BY Zenon DEF Binding
<1>2. CASE ProofHolds(proof, prov)
  <2>1. DOMAIN m.carrier_rows \subseteq Nat
    <3>1. \A S, s : s \in Seq(S) => DOMAIN s \subseteq Nat
      OBVIOUS
    <3>2. QED
      BY <3>1, Zenon DEF IsList
  <2>2. Min(named) \in named
    <3>1. named \in SUBSET Nat
      BY <2>1, Zenon
    <3>2. QED
      BY <1>1, <3>1, LeastExists, Zenon
  <2>3. m.carrier_rows[Min(named)] \in ToSet(m.carrier_rows)
    BY <2>2, Zenon DEF ToSet
  <2>4. QED
    BY <1>2, <2>3, Zenon
<1>3. CASE Cardinality(recipes) = 1
  <2> HIDE DEF recipes
  <2>1. recipes # {}
    BY <1>3, FS_EmptySet
  <2>2. PICK i \in DOMAIN m.recipe_rows : ProofHolds(m.recipe_rows[i].proof, prov)
    BY <2>1, Zenon DEF recipes
  <2>3. m.recipe_rows[i] \in ToSet(m.recipe_rows)
    BY Zenon DEF ToSet
  <2>4. QED
    BY <2>2, <2>3, Zenon
<1>4. QED
  BY <1>1, <1>2, <1>3

LEMMA VerifiedIsBound ==
  ASSUME NEW p, VerifyEvidencePack(p), Seen(p).manifest = Manifest
  PROVE  Bound(p)
<1> DEFINE c == Seen(p).files
<1>1. FilesMatch(Seen(p)) /\ Coherent(Manifest, c)
  BY Zenon DEF VerifyEvidencePack, Valid
<1>2. /\ Paths(Manifest) = DOMAIN p.files
      /\ \A entry \in Listed(Manifest) : c[entry.path] = entry.digest
  BY <1>1, SeenWithoutLinks, Zenon DEF FilesMatch
<1>3. \A path \in DOMAIN p.files : c[path] = p.files[path]
  BY <1>1, <1>2, SeenWithoutLinks, ManifestListsInputs, Zenon
<1> HIDE DEF c
<1>4. \A path \in DOMAIN p.files : p.files[path] = held[path]
  <2> SUFFICES ASSUME NEW path \in DOMAIN p.files PROVE p.files[path] = held[path]
    OBVIOUS
  <2>1. PICK entry \in Listed(Manifest) : entry.path = path
    BY <1>2, Zenon DEF Paths
  <2>2. entry.digest = held[path]
    BY <2>1, ManifestListsWhatWasRead, Zenon
  <2>3. QED
    BY <1>2, <1>3, <2>1, <2>2, Zenon
<1>5. \A role \in ToSet(SourceInputs) : Source(Manifest, c, role) = p.files[role]
  <2> SUFFICES ASSUME NEW role \in ToSet(SourceInputs)
               PROVE  Source(Manifest, c, role) = p.files[role]
    OBVIOUS
  <2>1. role \in Paths(Manifest) /\ Source(Manifest, c, role) = c[role]
    BY ManifestListsWhatWasRead, Zenon
  <2>2. QED
    BY <1>2, <1>3, <2>1, Zenon
<1>6. /\ "assay_carrier" \in ToSet(SourceInputs) /\ "suite_matrix" \in ToSet(SourceInputs)
      /\ "recipe_provenance" \in ToSet(SourceInputs)
  BY DEF SourceInputs, ToSet
<1>7. /\ p.files["recipe_provenance"].artifact = p.files["assay_carrier"]
      /\ ValidateSuiteCompatibility(p.files["suite_matrix"])
      /\ Binding(p.files["suite_matrix"], Manifest.subject.carrier, p.files["recipe_provenance"])
           # "none"
  BY <1>1, <1>5, <1>6, Zenon DEF Coherent
<1>8. IsList(p.files["suite_matrix"].carrier_rows)
  BY <1>7, Zenon DEF ValidateSuiteCompatibility
<1>9. QED
  BY <1>4, <1>7, <1>8, BindingNamesARow, Zenon DEF Bound

LEMMA CreateBegins == PackInit => CreateInv
<1> SUFFICES ASSUME PackInit PROVE CreateInv
  OBVIOUS
<1>1. IsPack(pack) /\ Outside
  BY DEF PackInit, IsPack, EmptyPack, Outside, Lost
<1>2. InOrder(todo)
  BY DEF PackInit, InOrder
<1>3. todo = <<>> /\ created # SUCCESS
  BY DEF PackInit, NotCreated, SUCCESS
<1>4. QED
  BY <1>1, <1>2, <1>3, Zenon DEF CreateInv

(* What is done to the parts of a pack, or of what it links to. *)
LEMMA PartsOfPack ==
  ASSUME NEW p, IsPack(p), NEW x
  PROVE  /\ IsPack([p EXCEPT !.files = x]) /\ [p EXCEPT !.files = x].manifest = p.manifest
         /\ [p EXCEPT !.files = x].links = p.links
         /\ IsPack([p EXCEPT !.sidecar = x]) /\ [p EXCEPT !.sidecar = x].manifest = p.manifest
         /\ [p EXCEPT !.sidecar = x].links = p.links
         /\ IsPack([p EXCEPT !.manifest = x]) /\ [p EXCEPT !.manifest = x].manifest = x
         /\ [p EXCEPT !.manifest = x].links = p.links
BY DEF IsPack

(* A file that is written is read as it was written, and the other as it was. *)
LEMMA PutKeeps ==
  ASSUME IsPack(pack), Outside, NEW file \in {"manifest", "sidecar"}, NEW x, Put(file, x)
  PROVE  /\ IsPack(pack') /\ Outside'
         /\ ManifestSeen' = IF file = "manifest" THEN x ELSE ManifestSeen
<1>1. CASE file \in pack.links
  <2>1. outside' = [outside EXCEPT ![file] = x] /\ pack' = pack
    BY <1>1, Zenon DEF Put
  <2>2. /\ outside' = [manifest |-> outside'.manifest, sidecar |-> outside'.sidecar]
        /\ file = "manifest" => outside'.manifest = x
        /\ file = "sidecar" => outside'.manifest = outside.manifest
    BY <2>1 DEF Outside
  <2>3. QED
    BY <1>1, <2>1, <2>2, Zenon DEF ManifestSeen, Outside
<1>2. CASE file \notin pack.links
  <2>1. pack' = [pack EXCEPT ![file] = x] /\ outside' = outside
    BY <1>2, Zenon DEF Put
  <2>2. CASE file = "manifest"
    <3>1. pack' = [pack EXCEPT !.manifest = x]
      BY <2>1, <2>2
    <3>2. IsPack(pack') /\ pack'.manifest = x /\ pack'.links = pack.links
      BY <3>1, PartsOfPack, Zenon
    <3>3. QED
      BY <1>2, <2>1, <2>2, <3>2, Zenon DEF ManifestSeen, Outside
  <2>3. CASE file = "sidecar"
    <3>1. pack' = [pack EXCEPT !.sidecar = x] /\ file # "manifest"
      BY <2>1, <2>3
    <3>2. IsPack(pack') /\ pack'.manifest = pack.manifest /\ pack'.links = pack.links
      BY <3>1, PartsOfPack, Zenon
    <3>3. QED
      BY <2>1, <3>1, <3>2, Zenon DEF ManifestSeen, Outside
  <2>4. QED
    BY <2>2, <2>3, Zenon
<1>3. QED
  BY <1>1, <1>2

(* The first of the steps that are left is one of create. *)
LEMMA FirstStep == ASSUME InOrder(todo), todo # <<>> PROVE Head(todo) \in Operations
<1>1. todo \in Seq(Operations)
  BY Zenon DEF InOrder
<1>2. QED
  BY <1>1

LEMMA WrittenTarget ==
  ASSUME InOrder(todo), Doing("write") PROVE Target \in {"manifest", "sidecar"}
<1>1. Head(todo) \in Operations /\ Head(todo)[1] = "write"
  BY FirstStep, Zenon DEF Doing
<1>2. \A s \in Operations : s[1] = "write" => s[2] \in {"manifest", "sidecar"}
  BY DEF Operations, Writes, Checks, Gathering, WriteManifest, WriteSidecar, VerifyPack
<1>3. QED
  BY <1>1, <1>2, Zenon DEF Target

(* After a step, the manifest is still due or describes what was read. *)
LEMMA AdvanceKeeps ==
  ASSUME CreateInv, todo # <<>>, Advance, Head(todo)[1] # "verify",
         IsPack(pack'), Outside', external' = external,
         ManifestDue(Tail(todo)) \/ ManifestSeen' = Manifest'
  PROVE  CreateInv'
<1>1. InOrder(todo') /\ (external' \/ VerifyDue(todo'))
  BY TailInOrder, Zenon DEF CreateInv, Advance
<1>2. ManifestDue(todo') \/ ManifestSeen' = Manifest'
  BY Zenon DEF Advance
<1>3. created' = SUCCESS => todo' = <<>>
  BY Zenon DEF CreateInv, Advance
<1>4. ~ManifestDue(<<>>) /\ ~VerifyDue(<<>>)
  BY DEF ManifestDue, VerifyDue
<1>5. created' = SUCCESS => todo' = <<>> /\ ManifestSeen' = Manifest' /\ external'
  BY <1>1, <1>2, <1>3, <1>4, Zenon
<1>6. QED
  BY <1>1, <1>2, <1>5, Zenon DEF CreateInv

LEMMA CreateStep == CreateInv /\ [PackNext]_packVars => CreateInv'
<1> SUFFICES ASSUME CreateInv, [PackNext]_packVars PROVE CreateInv'
  OBVIOUS
<1> USE DEF CreateInv
<1>1. SUCCESS # NotCreated /\ SUCCESS # CI_FORMATTER
  BY DEF SUCCESS, NotCreated, CI_FORMATTER
<1>2. InOrder(<<>>)
  BY DEF InOrder
<1>3. held' = held /\ external' = external => Manifest' = Manifest
  <2> SUFFICES ASSUME held' = held, external' = external PROVE Manifest' = Manifest
    OBVIOUS
  <2>1. ExternalEntries' = ExternalEntries
    BY Zenon DEF BindTo, ExternalEntries
  <2>2. QED
    BY <2>1 DEF Manifest
<1>4. held' = held => (Bound(pack)' <=> Bound(pack'))
  BY Zenon DEF Bound
<1>5. /\ pack' = pack /\ outside' = outside => ManifestSeen' = ManifestSeen
      /\ outside' = outside => Outside'
  BY Zenon DEF ManifestSeen, Outside
<1>7. ASSUME NEW first, NEW with_external, StartCreate(first, with_external) PROVE CreateInv'
  BY <1>1, <1>5, <1>7, StepsAreInOrder, Zenon DEF StartCreate
<1>8. ASSUME NEW i, NEW contents, EditInput(i, contents) PROVE CreateInv'
  BY <1>3, <1>5, <1>8, Zenon DEF EditInput
<1>9. ASSUME Doing("read") \/ Doing("parse") \/ Doing("copy") \/ Doing("write")
      PROVE  todo # <<>> /\ Head(todo)[1] # "verify"
  BY <1>9 DEF Doing
<1>10. CASE Read
  BY <1>5, <1>9, <1>10, TailInOrder, AdvanceKeeps, Zenon DEF Read, Doing
<1>11. ASSUME Doing("parse") \/ Doing("copy") PROVE Head(todo) # WriteManifest
  BY <1>11 DEF Doing, WriteManifest
<1>12. CASE Parse
  <2>1. CASE EndCreate(CI_FORMATTER)
    BY <1>1, <1>2, <1>5, <1>12, <2>1, Zenon DEF Parse, EndCreate
  <2>2. CASE Advance
    <3>1. ManifestDue(Tail(todo)) \/ ManifestSeen' = Manifest'
      BY <1>3, <1>5, <1>9, <1>11, <1>12, TailInOrder, Zenon DEF Parse
    <3>2. QED
      BY <1>5, <1>9, <1>12, <2>2, <3>1, AdvanceKeeps, Zenon DEF Parse
  <2>3. QED
    BY <1>12, <2>1, <2>2, Zenon DEF Parse
<1>13. CASE Copy
  <2>1. IsPack(pack') /\ pack'.manifest = pack.manifest /\ pack'.links = pack.links
    BY <1>13, PartsOfPack, Zenon DEF Copy
  <2>2. ManifestSeen' = ManifestSeen
    BY <1>13, <2>1, Zenon DEF Copy, ManifestSeen
  <2>3. ManifestDue(Tail(todo)) \/ ManifestSeen' = Manifest'
    BY <1>3, <1>9, <1>11, <1>13, <2>2, TailInOrder, Zenon DEF Copy
  <2>4. QED
    BY <1>5, <1>9, <1>13, <2>1, <2>3, AdvanceKeeps, Zenon DEF Copy
<1>14. CASE Write
  <2> DEFINE x == IF Target = "manifest" THEN Manifest ELSE Manifest.digest
  <2>1. /\ Target \in {"manifest", "sidecar"} /\ Put(Target, x)
        /\ Advance /\ UNCHANGED <<external, held>> /\ Doing("write")
    BY <1>14, WrittenTarget, Zenon DEF Write
  <2>2. /\ IsPack(pack') /\ Outside'
        /\ ManifestSeen' = IF Target = "manifest" THEN x ELSE ManifestSeen
    BY <2>1, PutKeeps, Zenon
  <2>3. ManifestDue(Tail(todo)) \/ ManifestSeen' = Manifest'
    <3>1. CASE Target = "manifest"
      BY <1>3, <2>1, <2>2, <3>1, Zenon
    <3>2. CASE Target # "manifest"
      <4>1. Head(todo) # WriteManifest
        BY <3>2 DEF Target, WriteManifest
      <4>2. QED
        BY <1>3, <1>9, <2>1, <2>2, <3>2, <4>1, TailInOrder, Zenon
    <3>3. QED
      BY <3>1, <3>2
  <2>4. QED
    BY <1>9, <2>1, <2>2, <2>3, AdvanceKeeps, Zenon
<1>15. CASE SelfVerify
  <2>1. todo # <<>> /\ ManifestSeen = Manifest
    BY <1>15, TailInOrder, Zenon DEF SelfVerify, Doing
  <2>2. todo' = <<>> /\ UNCHANGED <<pack, outside, held, external>>
        /\ created' = IF VerifyEvidencePack(pack) THEN SUCCESS ELSE CI_FORMATTER
    BY <1>15, Zenon DEF SelfVerify, EndCreate
  <2>3. Seen(pack).manifest = ManifestSeen
    BY DEF Seen, ManifestSeen
  <2>4. created' = SUCCESS => Bound(pack)
    BY <1>1, <2>1, <2>2, <2>3, VerifiedIsBound, Zenon
  <2>5. QED
    BY <1>2, <1>3, <1>4, <1>5, <2>1, <2>2, <2>4, Zenon
<1>16. CASE CreateFails
  <2>1. IsPack(pack') /\ Outside'
    <3>1. CASE UNCHANGED <<pack, outside>>
      BY <1>5, <3>1, Zenon
    <3>2. CASE pack' = [pack EXCEPT !.files = (Target :> Torn) @@ @] /\ UNCHANGED outside
      BY <1>5, <3>2, PartsOfPack, Zenon
    <3>3. CASE Doing("write") /\ Put(Target, Lost[Target])
      BY <3>3, WrittenTarget, PutKeeps, Zenon
    <3>4. QED
      BY <1>16, <3>1, <3>2, <3>3, Zenon DEF CreateFails
  <2>2. QED
    BY <1>1, <1>2, <1>16, <2>1, Zenon DEF CreateFails, EndCreate
<1>17. CASE EditPack
  <2>1. Outside'
    BY <1>17 DEF EditPack, Outside, Unlisted, Lost
  <2>2. QED
    BY <1>1, <1>17, <2>1, Zenon DEF EditPack
<1>18. CASE EditOutside
  <2>1. Outside'
    BY <1>18 DEF EditOutside, Outside, Unlisted, Lost
  <2>2. QED
    BY <1>1, <1>18, <2>1, Zenon DEF EditOutside
<1>19. CASE UNCHANGED <<held, external, pack, outside, todo, created>>
  <2>1. Bound(pack)' <=> Bound(pack)
    BY <1>4, <1>19, Zenon
  <2>2. QED
    BY <1>3, <1>5, <1>19, <2>1, Zenon
<1>20. Verify \/ UNCHANGED packVars => UNCHANGED <<held, external, pack, outside, todo, created>>
  BY Zenon DEF Verify, packVars
<1>21. QED
  BY <1>7, <1>8, <1>10, <1>12, <1>13, <1>14, <1>15, <1>16, <1>17, <1>18, <1>19, <1>20, Zenon
  DEF PackNext

(* The manifest that a create leaves, and what it says of the files once   *)
(* the command, or a reader of a version 1 pack, has verified them:        *)
(* whatever is edited meanwhile and whatever the directory held before.    *)
THEOREM CreatesAreBound == PackSpec => []CreatedPackIsBound
<1>1. ASSUME CreateInv, created = SUCCESS
      PROVE  /\ Seen(pack).manifest = Manifest
             /\ ~external \/ VerifyEvidencePack(pack) => Bound(pack)
  <2>1. Seen(pack).manifest = Manifest
    BY <1>1 DEF CreateInv, Seen, ManifestSeen
  <2>2. CASE VerifyEvidencePack(pack)
    BY <2>1, <2>2, VerifiedIsBound, Zenon
  <2>3. QED
    BY <1>1, <2>1, <2>2, Zenon DEF CreateInv
<1>2. CreateInv => CreatedPackIsBound
  BY <1>1, Zenon DEF Bound, CreatedPackIsBound
<1>3. [PackNext /\ UNCHANGED suiteVars]_<<packVars, suiteVars>> => [PackNext]_packVars
  BY Zenon DEF packVars
<1>4. QED
  BY <1>2, <1>3, CreateBegins, CreateStep, PTL DEF PackSpec

-----------------------------------------------------------------------------
(***************************************************************************)
(* The trust basis gate.                                                   *)
(***************************************************************************)
Projections == {"summary", "junit"}

TrustTypes ==
  /\ child \in [ended : {"never ran", "exit", "error", "signal"},
                status : Statuses \cup {NotDecided}, printed : Printed]
  /\ projected \in [Projections -> Printed]
  /\ projecting \subseteq Projections
  /\ wrote \subseteq Projections

(* The gate's decision and its file; before it, the report has no state. *)
GateInv ==
  /\ gate \in {SUCCESS, REGRESSION} =>
       /\ child.ended = "exit" /\ child.status \in {0, 1}
       /\ child.printed \in Diffs
       /\ out = child.printed
  /\ gate = SUCCESS => ~HasRegressions
  /\ gate = NotDecided => projecting = {} /\ wrote = {}

(* What the report has written, and has yet to write, is the gate's file. *)
ReportInv ==
  /\ projecting # {} => diff = out /\ Readable(out)
  /\ wrote # {} => Readable(out)
  /\ \A p \in wrote : projected[p] = out
  /\ wrote \cap projecting = {}

TrustInv == TrustTypes /\ GateInv /\ ReportInv

-----------------------------------------------------------------------------
(* A diff whose flag and whose lists agree, and whose flag is down, makes  *)
(* no failing case: the report's count and the gate's flag cannot differ.  *)
LEMMA CleanDiffHasNoFailures ==
  ASSUME NEW d, Readable(d), ~d.has_regressions
  PROVE  JUnitFailures(d) = 0
<1>1. d.regressed \in Nat /\ d.removed \in Nat
  BY DiffsAssumption DEF Readable
<1>2. ~(d.regressed > 0 \/ d.removed > 0)
  BY Zenon DEF Readable
<1>3. QED
  BY <1>1, <1>2 DEF JUnitFailures

LEMMA TrustInvInit == TrustInit => TrustInv
<1> SUFFICES ASSUME TrustInit PROVE TrustInv
  OBVIOUS
<1>1. TrustTypes
  BY DEF TrustInit, TrustTypes, Projections, NoChild, Printed
<1>2. GateInv
  BY DEF TrustInit, GateInv, NotDecided, SUCCESS, REGRESSION
<1>3. ReportInv
  BY DEF TrustInit, ReportInv
<1>4. QED
  BY <1>1, <1>2, <1>3 DEF TrustInv

(* No command of the gate or of the report breaks the invariant. *)
LEMMA TrustInvStep == TrustInv /\ [TrustNext]_trustVars => TrustInv'
<1> SUFFICES ASSUME TrustInv, [TrustNext]_trustVars PROVE TrustInv'
  OBVIOUS
<1> USE DEF TrustInv
<1>1. CASE GateStarts
  <2>1. TrustTypes'
    BY <1>1 DEF GateStarts, TrustTypes, NoChild, Printed
  <2>2. GateInv'
    BY <1>1 DEF GateStarts, GateInv, NotDecided, SUCCESS, REGRESSION
  <2>3. ReportInv'
    BY <1>1 DEF GateStarts, ReportInv
  <2>4. QED
    BY <2>1, <2>2, <2>3
<1>2. CASE InputMissing
  <2>1. TrustTypes'
    BY <1>2 DEF InputMissing, TrustTypes
  <2>2. GateInv'
    BY <1>2 DEF InputMissing, GateInv, NotDecided, SUCCESS, REGRESSION, CONFIG_ERROR
  <2>3. ReportInv'
    BY <1>2 DEF InputMissing, ReportInv, Readable
  <2>4. QED
    BY <2>1, <2>2, <2>3
<1>3. CASE ChildExits
  <2>1. TrustTypes'
    <3>1. PICK status \in Statuses, printed \in Printed :
             child' = [ended |-> "exit", status |-> status, printed |-> printed]
      BY <1>3 DEF ChildExits
    <3>2. UNCHANGED <<projecting, projected, wrote>>
      BY <1>3 DEF ChildExits
    <3>3. QED
      BY <3>1, <3>2 DEF TrustTypes
  <2>2. GateInv' /\ ReportInv'
    BY <1>3 DEF ChildExits, GateInv, ReportInv, NotDecided, SUCCESS, REGRESSION, Readable
  <2>3. QED
    BY <2>1, <2>2
<1>4. CASE ChildKilled
  <2>1. TrustTypes'
    <3>1. PICK how \in {"error", "signal"}, printed \in Printed :
             child' = [ended |-> how, status |-> NotDecided, printed |-> printed]
      BY <1>4 DEF ChildKilled
    <3>2. UNCHANGED <<projecting, projected, wrote>>
      BY <1>4 DEF ChildKilled
    <3>3. QED
      BY <3>1, <3>2 DEF TrustTypes
  <2>2. GateInv' /\ ReportInv'
    BY <1>4 DEF ChildKilled, GateInv, ReportInv, NotDecided, SUCCESS, REGRESSION, Readable
  <2>3. QED
    BY <2>1, <2>2
<1>5. CASE GateDecides
  <2>1. gate = NotDecided /\ projecting = {} /\ wrote = {}
    BY <1>5 DEF GateDecides, GateInv
  <2>2. TrustTypes' /\ ReportInv'
    BY <1>5, <2>1 DEF GateDecides, TrustTypes, ReportInv
  <2>3. gate' \in {SUCCESS, REGRESSION} => Accepted /\ out' = child.printed
    BY <1>5 DEF GateDecides, SUCCESS, REGRESSION, CONFIG_ERROR
  <2>4. gate' = SUCCESS => ~HasRegressions
    <3>1. SUCCESS # REGRESSION /\ SUCCESS # CONFIG_ERROR
      BY DEF SUCCESS, REGRESSION, CONFIG_ERROR
    <3>2. QED
      BY <1>5, <3>1, Zenon DEF GateDecides
  <2>5. child' = child /\ gate' # NotDecided
    BY <1>5 DEF GateDecides, SUCCESS, REGRESSION, CONFIG_ERROR, NotDecided
  <2>6. GateInv'
    BY <2>3, <2>4, <2>5, Zenon DEF GateInv, Accepted, HasRegressions
  <2>7. QED
    BY <2>2, <2>6
<1>6. ASSUME NEW projections \in SUBSET Projections, ReportReads(projections)
      PROVE  TrustInv'
  <2>1. TrustTypes'
    BY <1>6 DEF ReportReads, TrustTypes
  <2>2. GateInv'
    BY <1>6, Zenon DEF ReportReads, GateInv, HasRegressions
  <2>3. ReportInv'
    BY <1>6, Zenon DEF ReportReads, ReportInv, Readable
  <2>4. QED
    BY <2>1, <2>2, <2>3
<1>7. CASE ReportWrites
  <2>1. NextProjection \in projecting /\ NextProjection \in Projections
    BY <1>7 DEF ReportWrites, NextProjection, TrustTypes, Projections
  <2>2. diff = out /\ Readable(out)
    BY <1>7 DEF ReportWrites, ReportInv
  <2>3. projected' = [projected EXCEPT ![NextProjection] = out]
    BY <1>7, <2>2 DEF ReportWrites
  <2>4. TrustTypes'
    BY <1>7, <2>1, <2>2, <2>3 DEF ReportWrites, TrustTypes, Readable, Printed
  <2>5. GateInv'
    <3>1. UNCHANGED <<child, out, gate>> /\ gate # NotDecided
      BY <1>7 DEF ReportWrites, GateInv
    <3>2. QED
      BY <3>1, Zenon DEF GateInv, HasRegressions
  <2>6. ReportInv'
    <3>1. \A p \in wrote' : projected'[p] = out
      BY <1>7, <2>1, <2>3 DEF ReportWrites, ReportInv, TrustTypes
    <3>2. out' = out /\ (projecting' # {} => diff' = diff)
      BY <1>7 DEF ReportWrites
    <3>3. (wrote \cap projecting = {})'
      BY <1>7 DEF ReportWrites, ReportInv
    <3>4. QED
      BY <2>2, <3>1, <3>2, <3>3, Zenon DEF ReportInv, Readable
  <2>7. QED
    BY <2>4, <2>5, <2>6
<1>8. CASE ReportFails
  <2>1. NextProjection \in projecting
    BY <1>8 DEF ReportFails, NextProjection, TrustTypes, Projections
  <2>2. NextProjection \notin wrote
    BY <2>1 DEF ReportInv
  <2>3. TrustTypes'
    BY <1>8 DEF ReportFails, TrustTypes, Printed
  <2>4. GateInv'
    <3>1. UNCHANGED <<child, out, gate>> /\ gate # NotDecided
      BY <1>8 DEF ReportFails, GateInv
    <3>2. QED
      BY <3>1, Zenon DEF GateInv, HasRegressions
  <2>5. ReportInv'
    <3>1. \A p \in wrote : projected'[p] = projected[p]
      BY <1>8, <2>2 DEF ReportFails, TrustTypes
    <3>2. QED
      BY <1>8, <3>1 DEF ReportFails, ReportInv, Readable
  <2>6. QED
    BY <2>3, <2>4, <2>5
<1>9. CASE UNCHANGED trustVars
  BY <1>9, Zenon DEF trustVars, TrustTypes, GateInv, ReportInv, HasRegressions, Readable
<1>10. QED
  BY <1>1, <1>2, <1>3, <1>4, <1>5, <1>6, <1>7, <1>8, <1>9, Zenon DEF TrustNext, Projections

(* For any diffs: every reachable state satisfies the invariant. *)
THEOREM TrustInvHolds == TrustSpec => []TrustInv
BY TrustInvInit, TrustInvStep, PTL DEF TrustSpec

(* A verdict comes from a child that ended by itself, with its status, and *)
(* the file beside it is what that child printed.                          *)
THEOREM VerdictIsTheChilds == TrustSpec => []VerdictRestsOnItsDiff
<1>1. TrustInv => VerdictRestsOnItsDiff
  BY DEF TrustInv, GateInv, VerdictRestsOnItsDiff, HasRegressions, SUCCESS, REGRESSION
<1>2. QED
  BY <1>1, TrustInvHolds, PTL

(* Two validations of one file: the flag that the gate goes by and the     *)
(* lists that the report counts cannot tell different stories of a pass.   *)
THEOREM ReportsAgree == TrustSpec => []PassedGateHasCleanReport
<1>1. ASSUME TrustInv, gate = SUCCESS, NEW p \in wrote
      PROVE  projected[p] = child.printed /\ JUnitFailures(projected[p]) = 0
  <2>1. projected[p] = out /\ out = child.printed /\ Readable(out)
    BY <1>1 DEF TrustInv, GateInv, ReportInv
  <2>2. ~child.printed.has_regressions
    BY <1>1, Zenon DEF TrustInv, GateInv, HasRegressions
  <2>3. QED
    BY <2>1, <2>2, CleanDiffHasNoFailures, Zenon
<1>2. TrustInv => PassedGateHasCleanReport
  BY <1>1 DEF PassedGateHasCleanReport
<1>3. QED
  BY <1>2, TrustInvHolds, PTL
=============================================================================
