----------------------------- MODULE EvidenceLog -----------------------------
(***************************************************************************)
(* The events of harness/src/evidence.ts and the counters kept next to     *)
(* them.  A log is a sequence of events; assayseq is the position in it.   *)
(* The content hash of an event stands for its data, so an event that      *)
(* refers to another by hash carries that data.                            *)
(***************************************************************************)
EXTENDS Naturals, Sequences, FiniteSets, SequencesExt

Decisions == {"allow", "deny", "require_approval"}

(* The process counters of EvidenceCompiler. *)
Counts == [total : Nat, allowed : Nat, denied : Nat, approval : Nat, resume : Nat]
NoCounts == [total |-> 0, allowed |-> 0, denied |-> 0, approval |-> 0, resume |-> 0]

PolicyDecisionEvent(policy, t) ==
  [type |-> "policy-decision", tool |-> t, decision |-> policy[t]]
DeniedActionEvent(t) == [type |-> "denied-action", tool |-> t]
InterruptionEvent(pause) == [type |-> "approval-interruption", data |-> pause]
ResumedEvent(pause, decision) ==
  [type |-> "resumed-run", ref |-> pause.ref, nonce |-> pause.nonce,
   from |-> pause, decision |-> decision]
SummaryEvent(c) == [type |-> "process-summary", counts |-> c]

(* How many of the calls the policy decides in the given way. *)
Decided(policy, tools, decision) ==
  Cardinality({i \in DOMAIN tools : policy[tools[i]] = decision})

(* A slip: denials are not counted among the calls. *)
CountedWithoutDenials(policy, c, tools) ==
  [c EXCEPT !.total    = @ + Len(tools) - Decided(policy, tools, "deny"),
            !.allowed  = @ + Decided(policy, tools, "allow"),
            !.denied   = @ + Decided(policy, tools, "deny"),
            !.approval = @ + Decided(policy, tools, "require_approval")]

(* The counters after emitPolicyDecision() on each of the calls. *)
Counted(policy, c, tools) ==
  [c EXCEPT !.total    = @ + Len(tools),
            !.allowed  = @ + Decided(policy, tools, "allow"),
            !.denied   = @ + Decided(policy, tools, "deny"),
            !.approval = @ + Decided(policy, tools, "require_approval")]

(* A slip: a tool that is called again gets no second verdict. *)
VerdictsOnce(policy, tools) ==
  FlattenSeq([i \in DOMAIN tools |->
    IF \E k \in 1..(i - 1) : tools[k] = tools[i] THEN <<>>
    ELSE IF policy[tools[i]] = "deny"
         THEN <<PolicyDecisionEvent(policy, tools[i]), DeniedActionEvent(tools[i])>>
         ELSE <<PolicyDecisionEvent(policy, tools[i])>>])

(* The events of an uninterrupted run: a verdict on each call, and a      *)
(* denied action after each denial.                                       *)
Verdicts(policy, tools) ==
  FlattenSeq([i \in DOMAIN tools |->
    IF policy[tools[i]] = "deny"
    THEN <<PolicyDecisionEvent(policy, tools[i]), DeniedActionEvent(tools[i])>>
    ELSE <<PolicyDecisionEvent(policy, tools[i])>>])

(* The events of an interruption: verdicts only, then the interruption. *)
Interruption(policy, pause) ==
  Append([i \in DOMAIN pause.tools |-> PolicyDecisionEvent(policy, pause.tools[i])],
         InterruptionEvent(pause))

(* The whole log of a run, by the way it returned: never interrupted, left *)
(* at its interruption, or resumed from it.                                *)
UninterruptedLog(policy, tools) ==
  Append(Verdicts(policy, tools), SummaryEvent(Counted(policy, NoCounts, tools)))
LeftLog(policy, pause) ==
  Append(Interruption(policy, pause),
         SummaryEvent(Counted(policy, NoCounts, pause.tools)))
ResumedLog(policy, pause, decision) ==
  Interruption(policy, pause) \o
    <<ResumedEvent(pause, decision),
      SummaryEvent([Counted(policy, NoCounts, pause.tools) EXCEPT !.resume = 1])>>

(* The whole lines that are left of a log when a write of it ended early:   *)
(* at any byte, the first of them or the newline after the last included.  *)
Beginnings(log) == {SubSeq(log, 1, n) : n \in 0..Len(log)}

(* What is left of a line that a write ended in; it is not JSON. *)
HalfLine == [type |-> "half-line"]

(* How many events before position n pass the test. *)
CountBefore(log, n, Test(_)) == Cardinality({i \in 1..(n - 1) : Test(log[i])})

IsDecision(e) == e.type = "policy-decision"
IsAllow(e) == IsDecision(e) /\ e.decision = "allow"
IsDeny(e) == IsDecision(e) /\ e.decision = "deny"
IsApproval(e) == IsDecision(e) /\ e.decision = "require_approval"
IsDeniedAction(e) == e.type = "denied-action"
IsResumed(e) == e.type = "resumed-run"
IsInterruption(e) == e.type = "approval-interruption"
IsSummary(e) == e.type = "process-summary"
=============================================================================
