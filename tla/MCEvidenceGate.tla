--------------------------- MODULE MCEvidenceGate ----------------------------
(***************************************************************************)
(* Instances of EvidenceGate and EvidenceMapper.  They are two ways to the *)
(* same comparison and share no file: a behaviour is about one of the two. *)
(***************************************************************************)
EXTENDS EvidenceGate, EvidenceMapper

VARIABLE subject

mc_vars == <<vars, mapper_vars, subject>>

(* Policy ids are only compared for equality. *)
Symmetry == Permutations(PolicyIds)

-----------------------------------------------------------------------------
(* Artifacts of the pause family: a sound one, and one that differs in each *)
(* field that a validator looks at, with keys no contract names at the top *)
(* and in every part.                                                      *)
MCExtras == {"session", "raw_arguments", "note"}
MCState == HashRef("state")
MCInterruption == [tool_name |-> "a", arguments_hash |-> HashRef("a"), extra |-> {}]
MCDecision == [decision |-> "deny", target_ref |-> "a", extra |-> {}]
MCResume == [resume_state_ref |-> MCState, resume_decision |-> "approved", extra |-> {}]
MCSummary == [denied_action_count |-> 1, extra |-> {}]

MCPause ==
  [schema |-> PAUSE_SCHEMA, framework |-> "langgraph_deepagents",
   surface |-> "tool_approval", complete |-> TRUE, extra |-> {},
   anchors |-> {"resume_state_ref"}, anchor |-> MCState,
   pause_reason |-> "tool_approval", interruptions |-> <<MCInterruption>>,
   policy_decisions |-> <<>>, resumed |-> <<>>, process_summary |-> <<>>]

MCOddTops ==
  {[MCPause EXCEPT !.extra = {k}] : k \in MCExtras}
    \cup {[MCPause EXCEPT !.anchors = s] : s \in SUBSET ANCHOR_ALIASES}
    \cup {[MCPause EXCEPT !.anchor = <<"plain">>], [MCPause EXCEPT !.complete = FALSE],
          [MCPause EXCEPT !.framework = "other"], [MCPause EXCEPT !.surface = "other"],
          [MCPause EXCEPT !.schema = "other"], [MCPause EXCEPT !.pause_reason = "other"],
          [MCPause EXCEPT !.interruptions = <<>>]}

MCOddParts ==
  {[MCPause EXCEPT !.interruptions = <<[MCInterruption EXCEPT !.extra = {k}]>>] :
     k \in MCExtras}
    \cup {[MCPause EXCEPT !.interruptions =
             <<[MCInterruption EXCEPT !.arguments_hash = <<"plain">>]>>]}
    \cup {[MCPause EXCEPT !.policy_decisions = <<[MCDecision EXCEPT !.extra = {k}]>>] :
            k \in MCExtras}
    \cup {[MCPause EXCEPT !.resumed = <<r>>] :
            r \in {[MCResume EXCEPT !.extra = {k}] : k \in MCExtras}
                   \cup {[MCResume EXCEPT !.resume_decision = "maybe"],
                         [MCResume EXCEPT !.resume_state_ref = <<"plain">>]}}
    \cup {[MCPause EXCEPT !.process_summary = <<[MCSummary EXCEPT !.extra = {k}]>>] :
            k \in MCExtras}
    \cup {[MCPause EXCEPT !.process_summary = <<[denied_action_count |-> -1, extra |-> {}]>>]}

(* Decisions about one tool and about two, the other two decisions, a count *)
(* of denials that another artifact has, or has not, and a decision about   *)
(* a target called undefined and about none.                                *)
MCDecided ==
  {[MCPause EXCEPT !.policy_decisions =
      <<[MCDecision EXCEPT !.decision = d], [MCDecision EXCEPT !.target_ref = "b"]>>] :
     d \in {"allow", "deny"}}
    \cup {[MCPause EXCEPT !.policy_decisions = <<[MCDecision EXCEPT !.decision = d]>>] :
            d \in {"allow", "deny", "require_approval", "maybe"}}
    \cup {[MCPause EXCEPT !.policy_decisions = <<[MCDecision EXCEPT !.target_ref = t]>>,
                          !.process_summary = <<[MCSummary EXCEPT !.denied_action_count = n]>>] :
            t \in {"a", "b"}, n \in 0..1}
    \cup {[MCPause EXCEPT !.policy_decisions = <<[MCDecision EXCEPT !.target_ref = "undefined"]>>],
          [MCPause EXCEPT !.policy_decisions = <<[decision |-> "deny", extra |-> {}]>>]}

(* Artifacts of the decision family. *)
MCPerCall ==
  [schema |-> DECISION_SCHEMA, framework |-> "claude_agent_sdk",
   surface |-> "per_call_permission", complete |-> TRUE, extra |-> {},
   decision |-> "deny", tool_name |-> "a", arguments_hash |-> HashRef("a")]

MCPerCalls ==
  {[MCPerCall EXCEPT !.decision = d, !.tool_name = t] :
     d \in ALLOWED_DECISIONS, t \in {"a", "b"}}
    \cup {[MCPerCall EXCEPT !.extra = {k}] : k \in MCExtras}
    \cup {[MCPerCall EXCEPT !.complete = FALSE], [MCPerCall EXCEPT !.surface = "tool_approval"],
          [MCPerCall EXCEPT !.framework = "other"],
          [MCPerCall EXCEPT !.arguments_hash = <<"plain">>]}

MCArtifacts == MCOddTops \cup MCOddParts \cup MCDecided \cup MCPerCalls

-----------------------------------------------------------------------------
MCInit ==
  /\ Init
  /\ MapperInit
  /\ subject \in {"harness", "mapper"}

MCNext ==
  \/ /\ subject = "harness"
     /\ Next
     /\ UNCHANGED <<mapper_vars, subject>>
  \/ /\ subject = "mapper"
     /\ MapperNext
     /\ UNCHANGED <<vars, subject>>

MCSpec == MCInit /\ [][MCNext]_mc_vars
=============================================================================
