--------------------------- MODULE EvidenceMapper ---------------------------
(***************************************************************************)
(* Evidence of other frameworks on its way to the gate: an adapter leaves  *)
(* an artifact, the mapper (mapper/map_to_assay.py) turns it into          *)
(* placeholder events or refuses it, `verify` (cli_verify.ts) checks the   *)
(* events, `compare` (compare.ts) judges them against a baseline that was  *)
(* mapped before.  Three programs in two languages share no code, only the *)
(* shape of the events.                                                    *)
(***************************************************************************)
EXTENDS ExitCodes, Integers, Sequences, SequencesExt

CONSTANT Artifacts   \* What an adapter may leave for the mapper.

VARIABLES
  mapped,     \* The mapper's output file, or NoFile.
  reference,  \* The mapped file that later ones are compared with, or NoFile.
  edited,     \* Whether someone edited the output since it was written.
  outcome     \* The last verify or compare of the present files, or NoOutcome.

mapper_vars == <<mapped, reference, edited, outcome>>

PAUSE_SCHEMA == "assay.harness.approval-interruption.v1"
DECISION_SCHEMA == "assay.harness.policy-decision.v1"
ANCHOR_ALIASES == {"resume_state_ref", "continuation_anchor_ref"}
ALLOWED_FRAMEWORKS == {"openai_agents_sdk", "langgraph_deepagents", "claude_agent_sdk"}
ALLOWED_DECISIONS == {"allow", "deny", "require_approval"}

(* Keys of raw runtime state and of raw payloads, and one that is neither. *)
REJECTED_KEYS == {"session"}
FORBIDDEN_PAYLOAD_KEYS == {"raw_arguments"}

(* An Artifact has a schema, framework, surface, a flag for its required   *)
(* keys, the keys no contract names (extra), and the fields of its family. *)
(* Parts of it have extra keys of their own.                               *)
IsPart(item) ==
  /\ item = [key \in DOMAIN item |-> item[key]]
  /\ "extra" \in DOMAIN item /\ "interruptions" \notin DOMAIN item

AreParts(items) ==
  items \in Seq(ToSet(items)) /\ \A i \in DOMAIN items : IsPart(items[i])

ASSUME ArtifactsAssumption ==
  \A a \in Artifacts : a.schema = PAUSE_SCHEMA =>
    /\ AreParts(a.interruptions) /\ AreParts(a.policy_decisions)
    /\ AreParts(a.resumed) /\ AreParts(a.process_summary)

(* A reference is HashRef(s) or something else. *)
HashRef(s) == <<"sha256", s>>
IsHashRef(ref) == Len(ref) = 2 /\ ref[1] = "sha256"

NoFile == <<[type |-> "none"]>>
NotJSON == [type |-> "not-json"]
NoOutcome == [command |-> "none", exit |-> SUCCESS]

-----------------------------------------------------------------------------
(***************************************************************************)
(* The validation of the mapper.                                           *)
(***************************************************************************)
AcceptsInterruption(item) == item.extra = {} /\ IsHashRef(item.arguments_hash)

AcceptsPolicyDecision(item) ==
  "target_ref" \in DOMAIN item /\ item.decision \in ALLOWED_DECISIONS

AcceptsResumed(item) ==
  IsHashRef(item.resume_state_ref) /\ item.resume_decision \in {"approved", "rejected"}

(* _normalized_record(): extra keys at the top are dropped unless they are *)
(* raw state, and those of a decision, a resume or a summary are dropped   *)
(* whatever they are.                                                      *)
AcceptsPause(a) ==
  /\ a.extra \cap REJECTED_KEYS = {}
  /\ a.framework \in ALLOWED_FRAMEWORKS
  /\ a.surface = "tool_approval"
  /\ a.complete
  /\ Cardinality(a.anchors) = 1
  /\ a.pause_reason = "tool_approval"
  /\ a.interruptions # <<>>
  /\ \A item \in ToSet(a.interruptions) : AcceptsInterruption(item)
  /\ IsHashRef(a.anchor)
  /\ \A item \in ToSet(a.policy_decisions) : AcceptsPolicyDecision(item)
  /\ \A item \in ToSet(a.resumed) : AcceptsResumed(item)
  /\ \A item \in ToSet(a.process_summary) : item.denied_action_count >= 0

(* _normalized_decision_record(): no extra key at all.                     *)
AcceptsDecision(a) ==
  /\ a.framework \in ALLOWED_FRAMEWORKS
  /\ a.surface = "per_call_permission"
  /\ a.complete
  /\ a.extra = {}
  /\ a.decision \in {"allow", "deny"}
  /\ IsHashRef(a.arguments_hash)

Accepts(a) ==
  \/ a.schema = PAUSE_SCHEMA /\ AcceptsPause(a)
  \/ a.schema = DECISION_SCHEMA /\ AcceptsDecision(a)

-----------------------------------------------------------------------------
(***************************************************************************)
(* _build_events(): one event per part, numbered in order.  The content    *)
(* hash stands for the data: the framework and what was observed.          *)
(***************************************************************************)
Envelope(a, type, observed) ==
  [type |-> type, sealed |-> TRUE, run |-> "import", hash |-> "sha256",
   data |-> [external_system |-> a.framework, observed |-> observed]]

(* A slip: the part goes into the event as it came. *)
NormalizedKeepingExtra(item) == item

(* What a validator returns of a part: the fields of the contract.         *)
Normalized(item) == [item EXCEPT !.extra = {}]

InterruptionData(a) ==
  [pause_reason |-> a.pause_reason, resume_state_ref |-> a.anchor, extra |-> {},
   interruptions |-> [i \in DOMAIN a.interruptions |-> Normalized(a.interruptions[i])]]

PauseEvents(a) ==
  LET Events(type, items) ==
        [i \in DOMAIN items |-> Envelope(a, type, Normalized(items[i]))]
  IN  <<Envelope(a, "approval-interruption", InterruptionData(a))>>
        \o Events("policy-decision", a.policy_decisions)
        \o Events("resumed-run", a.resumed)
        \o Events("process-summary", a.process_summary)

DecisionEvents(a) ==
  <<Envelope(a, "policy-decision",
      [decision |-> a.decision, tool_name |-> a.tool_name,
       arguments_hash |-> a.arguments_hash, extra |-> {}])>>

BuildEvents(a) ==
  IF a.schema = DECISION_SCHEMA THEN DecisionEvents(a) ELSE PauseEvents(a)

-----------------------------------------------------------------------------
(***************************************************************************)
(* verifyEvents() of cli_verify.ts.                                        *)
(***************************************************************************)
(* scanForbiddenKeys() walks the whole of the data.                        *)
KeysWithin(data) ==
  data.observed.extra \cup
    (IF "interruptions" \in DOMAIN data.observed
     THEN UNION {item.extra : item \in ToSet(data.observed.interruptions)} ELSE {})

TypeErrors(event) ==
  /\ event # NotJSON
  /\ \/ KeysWithin(event.data) \cap (REJECTED_KEYS \cup FORBIDDEN_PAYLOAD_KEYS) # {}
     \/ /\ event.type = "approval-interruption"
        /\ \/ event.data.observed.pause_reason # "tool_approval"
           \/ event.data.observed.interruptions = <<>>
           \/ ~IsHashRef(event.data.observed.resume_state_ref)

EnvelopeErrors(file) ==
  LET events == ToSet(file) \ {NotJSON}
  IN  (\E e \in events : ~e.sealed) \/ Cardinality({e.run : e \in events}) > 1

HashErrors(event) == event # NotJSON /\ event.hash = "malformed"

(* verify --category: a line that does not parse fails every category.     *)
VerifyEvents(file, category) ==
  IF file = NoFile THEN CONFIG_ERROR
  ELSE IF \/ NotJSON \in ToSet(file)
          \/ category \in {"all", "envelope"} /\ EnvelopeErrors(file)
          \/ category \in {"all", "hash"} /\ \E e \in ToSet(file) : HashErrors(e)
          \/ category \in {"all", "type"} /\ \E e \in ToSet(file) : TypeErrors(e)
       THEN ARTIFACT_CONTRACT ELSE SUCCESS

-----------------------------------------------------------------------------
(***************************************************************************)
(* compareEvidence() on mapped files: a decision of the decision family    *)
(* names its tool by another key, so all its denials have one key.  The    *)
(* target of a decision stands for its policy id too.                      *)
(***************************************************************************)
IsDenial(event) ==
  event.type = "policy-decision" /\ event.data.observed.decision = "deny"

DenialKey(event) ==
  IF "target_ref" \in DOMAIN event.data.observed
  THEN event.data.observed.target_ref ELSE "undefined"

DenialKeys(file) == {DenialKey(e) : e \in {x \in ToSet(file) : IsDenial(x)}}

MappedTypes(file) == {e.type : e \in ToSet(file)}

DeniedCounts(file) ==
  {e.data.observed.denied_action_count :
     e \in {x \in ToSet(file) : x.type = "process-summary"}}

(* A slip: the hashes are reported but do not count. *)
MappedRegressionsUnhashed(base, cand) ==
  \/ ~(DenialKeys(cand) \subseteq DenialKeys(base))
  \/ ~(MappedTypes(cand) \subseteq MappedTypes(base))
  \/ \E b \in DeniedCounts(base), c \in DeniedCounts(cand) : c > b

MappedRegressions(base, cand) ==
  \/ ~(DenialKeys(cand) \subseteq DenialKeys(base))
  \/ ~(MappedTypes(cand) \subseteq MappedTypes(base))
  \/ \E n \in DOMAIN base \cap DOMAIN cand :
       /\ base[n].type = cand[n].type
       /\ <<base[n].hash, base[n].data>> # <<cand[n].hash, cand[n].data>>
  \/ \E b \in DeniedCounts(base), c \in DeniedCounts(cand) : c > b

-----------------------------------------------------------------------------
MapperInit ==
  /\ mapped = NoFile
  /\ reference = NoFile
  /\ edited = FALSE
  /\ outcome = NoOutcome

(* A valid artifact is mapped; no output is in the way, or it may go.  One *)
(* that is refused leaves the output of an earlier one where it is.        *)
MapArtifact(artifact, overwrite) ==
  /\ mapped = NoFile \/ overwrite
  /\ Accepts(artifact)
  /\ mapped' = BuildEvents(artifact)
  /\ edited' = FALSE
  /\ outcome' = NoOutcome
  /\ UNCHANGED reference

(* The output is edited by hand, once: a line is garbled, belongs to       *)
(* another run, or is no envelope or has no proper hash any more.          *)
EditMapped ==
  /\ mapped # NoFile /\ ~edited
  /\ \E n \in DOMAIN mapped :
       mapped' \in {[mapped EXCEPT ![n] = NotJSON],
                    [mapped EXCEPT ![n].run = "other"],
                    [mapped EXCEPT ![n].sealed = FALSE],
                    [mapped EXCEPT ![n].hash = "malformed"]}
  /\ edited' = TRUE
  /\ outcome' = NoOutcome
  /\ UNCHANGED reference

Verify(category) ==
  /\ outcome' = [command |-> category, exit |-> VerifyEvents(mapped, category)]
  /\ UNCHANGED <<mapped, reference, edited>>

(* The verified output becomes the reference of later ones. *)
KeepReference ==
  /\ outcome = [command |-> "all", exit |-> SUCCESS]
  /\ reference' = mapped
  /\ outcome' = NoOutcome
  /\ UNCHANGED <<mapped, edited>>

(* compare: a line that does not parse is an uncaught error.               *)
CompareMapped ==
  /\ outcome' = [command |-> "compare",
       exit |-> IF NoFile \in {mapped, reference} THEN CONFIG_ERROR
                ELSE IF NotJSON \in ToSet(mapped) \cup ToSet(reference) THEN UNCAUGHT
                ELSE IF MappedRegressions(reference, mapped) THEN REGRESSION
                ELSE SUCCESS]
  /\ UNCHANGED <<mapped, reference, edited>>

MapperNext ==
  \/ \E artifact \in Artifacts, overwrite \in BOOLEAN : MapArtifact(artifact, overwrite)
  \/ EditMapped
  \/ \E category \in {"all", "envelope", "hash", "type"} : Verify(category)
  \/ KeepReference
  \/ CompareMapped

MapperSpec == MapperInit /\ [][MapperNext]_mapper_vars

-----------------------------------------------------------------------------
(***************************************************************************)
(* Properties.                                                             *)
(***************************************************************************)
(* Whatever an adapter puts into an artifact, and however deep, what the   *)
(* mapper writes of it passes the verifier in each of its categories: the  *)
(* two programs agree on the events, and no raw state or payload gets      *)
(* through.                                                                *)
MappedEvidenceVerifies ==
  mapped # NoFile /\ ~edited /\ outcome.command # "compare" => outcome.exit = SUCCESS

(* What a denial is about. *)
Target(e) ==
  IF "target_ref" \in DOMAIN e.data.observed
  THEN e.data.observed.target_ref ELSE e.data.observed.tool_name

Denied(file) == {Target(e) : e \in {x \in ToSet(file) : IsDenial(x)}}

(* The gate admits mapped evidence only if it denies no call that the      *)
(* reference did not deny, in either family of artifacts, although in one  *)
(* of them all denials look alike to the comparison of denials.  They look *)
(* like the denial of a target of the other family that is literally       *)
(* called undefined, so a reference with one proves nothing.               *)
AdmittedMappingAddsNoDenial ==
  outcome = [command |-> "compare", exit |-> SUCCESS] =>
    \/ Denied(mapped) \subseteq Denied(reference)
    \/ "undefined" \in Denied(reference)
=============================================================================
