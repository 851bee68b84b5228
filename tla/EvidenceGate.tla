---------------------------- MODULE EvidenceGate -----------------------------
(***************************************************************************)
(* The regression gate: `compare` and `baseline update` of the CLI         *)
(* (harness/src/compare.ts, cli_compare.ts, cli_baseline.ts) over the      *)
(* evidence file that `run` writes.  Each command is a process of its own, *)
(* so a run may rewrite the evidence while an update is under way, and a   *)
(* reader may find it half written.                                        *)
(*                                                                         *)
(* Only evidence of the harness itself is compared here, not fixtures of   *)
(* the mapper and not Runner archives.                                     *)
(***************************************************************************)
EXTENDS EvidenceLog, ExitCodes

CONSTANTS
  Tools,          \* Tool names the model may call.
  ApprovalTools,  \* Those defined with needsApproval.
  PolicyIds,      \* Values of policy_id; an id stands for its snapshot too.
  Stamps,         \* The time of a run: what else its hashed data carries.
  MaxTurn         \* Bound on the calls of one run.

ASSUME ToolsAssumption == ApprovalTools \subseteq Tools

VARIABLES
  evidence,  \* The file `run` writes.
  baseline,  \* baselines/baseline.assay.ndjson.
  updating,  \* An update has checked the evidence and not copied it yet.
  gate       \* Exit code of a compare of the present files, or NotRun.

vars == <<evidence, baseline, updating, gate>>

NotRun == 99   \* The present files have not been compared.

Absent == [kind |-> "absent"]
Broken == [kind |-> "broken"]               \* A line is not JSON.
Empty == [kind |-> "empty", log |-> <<>>]   \* No line at all.

(* What runHarness() can hand to the command that writes the file. *)
Policies == [Tools -> Decisions]
Calls(tools) == UNION {[1..n -> tools] : n \in 0..MaxTurn}
Pauses == [tools : Calls(ApprovalTools) \ {<<>>}, ref : {"state"}, nonce : {1}]
Logs ==
  {UninterruptedLog(policy, tools) :
     policy \in Policies, tools \in Calls(Tools)}
    \cup {LeftLog(policy, pause) : policy \in Policies, pause \in Pauses}
    \cup {ResumedLog(policy, pause, mode) :
            policy \in Policies, pause \in Pauses, mode \in {"approve", "reject"}}
Evidence == [kind : {"log"}, log : Logs, policy : PolicyIds, stamp : Stamps]

(* A file that ends between two lines is read like any other. *)
CutLogs == (UNION {Beginnings(Front(log)) : log \in Logs}) \ {<<>>}
CutEvidence == [kind : {"log"}, log : CutLogs, policy : PolicyIds, stamp : Stamps]

-----------------------------------------------------------------------------
(***************************************************************************)
(* compareEvidence()                                                       *)
(***************************************************************************)
(* The data an event's content hash covers.  A summary names no policy. *)
Content(f, n) ==
  [event |-> f.log[n], stamp |-> f.stamp,
   policy |-> IF IsSummary(f.log[n]) THEN {} ELSE {f.policy}]

Denials(f) ==
  {<<e.tool, f.policy>> : e \in {x \in Range(f.log) : IsDeny(x) \/ IsDeniedAction(x)}}

EventTypes(f) == {e.type : e \in Range(f.log)}

(* Events are matched by type and assayseq. *)
HashMismatch(base, cand) ==
  \E n \in DOMAIN base.log \cap DOMAIN cand.log :
    /\ base.log[n].type = cand.log[n].type
    /\ Content(base, n) # Content(cand, n)

(* denied_action_count of the last process summary, compared if both files *)
(* are closed by one.                                                      *)
LastSummary(f) == SelectLastInSeq(f.log, IsSummary)
Closed(f) == LastSummary(f) # 0
DeniedCount(f) == f.log[LastSummary(f)].counts.denied
DeniedCountIncreased(base, cand) ==
  /\ Closed(base) /\ Closed(cand)
  /\ DeniedCount(cand) > DeniedCount(base)

(* A slip: the hashes are reported but do not count. *)
RegressionsUnhashed(base, cand) ==
  \/ ~(Denials(cand) \subseteq Denials(base))
  \/ ~(EventTypes(cand) \subseteq EventTypes(base))
  \/ DeniedCountIncreased(base, cand)

(* A slip: any denied count is taken for an increase. *)
RegressionsEager(base, cand) ==
  \/ ~(Denials(cand) \subseteq Denials(base))
  \/ ~(EventTypes(cand) \subseteq EventTypes(base))
  \/ HashMismatch(base, cand)
  \/ Closed(cand) /\ DeniedCount(cand) > 0

HasRegressions(base, cand) ==
  \/ ~(Denials(cand) \subseteq Denials(base))
  \/ ~(EventTypes(cand) \subseteq EventTypes(base))
  \/ HashMismatch(base, cand)
  \/ DeniedCountIncreased(base, cand)

-----------------------------------------------------------------------------
Init ==
  /\ evidence = Absent
  /\ baseline = Absent
  /\ updating = FALSE
  /\ gate = NotRun

(* `run` writes its evidence, from a run under any policy. *)
WriteEvidence ==
  /\ evidence' \in Evidence
  /\ gate' = NotRun
  /\ UNCHANGED <<baseline, updating>>

(* A reader, a crash or a full disk catches `run` while it writes: the file *)
(* is empty, or ends within a line or between two.                         *)
TearEvidence ==
  /\ evidence' \in {Empty, Broken} \cup CutEvidence
  /\ gate' = NotRun
  /\ UNCHANGED <<baseline, updating>>

(* A slip: lines that are not JSON are skipped. *)
CompareLenient ==
  LET Parsed(f) == IF f = Broken THEN Empty ELSE f
  IN  /\ Absent \notin {evidence, baseline}
      /\ gate' = IF HasRegressions(Parsed(baseline), Parsed(evidence))
                 THEN REGRESSION ELSE SUCCESS
      /\ UNCHANGED <<evidence, baseline, updating>>

(* compare --baseline --candidate; a parse error is not caught. *)
Compare ==
  /\ gate' = IF Absent \in {evidence, baseline} THEN CONFIG_ERROR
             ELSE IF Broken \in {evidence, baseline} THEN UNCAUGHT
             ELSE IF HasRegressions(baseline, evidence) THEN REGRESSION
             ELSE SUCCESS
  /\ UNCHANGED <<evidence, baseline, updating>>

(* baseline update --from: the evidence is read and every line checked, if *)
(* there is one.                                                           *)
UpdateChecks ==
  /\ ~updating
  /\ evidence \notin {Absent, Broken}
  /\ updating' = TRUE
  /\ UNCHANGED <<evidence, baseline, gate>>

(* ... and then copied, which reads it once more. *)
UpdateCopies ==
  /\ updating
  /\ updating' = FALSE
  /\ baseline' = evidence
  /\ gate' = NotRun
  /\ UNCHANGED evidence

(* The process dies between the two. *)
UpdateDies ==
  /\ updating
  /\ updating' = FALSE
  /\ UNCHANGED <<evidence, baseline, gate>>

Next ==
  \/ WriteEvidence
  \/ TearEvidence
  \/ Compare
  \/ UpdateChecks
  \/ UpdateCopies
  \/ UpdateDies

Spec == Init /\ [][Next]_vars

-----------------------------------------------------------------------------
(* How many decisions precede position n. *)
Rank(log, n) == CountBefore(log, n, IsDecision)

(* The log shows up to position n in which kind of run its denials were:   *)
(* interrupted, or else each of them with its denied action.               *)
ShowsItsKind(log, n) ==
  \/ \E k \in DOMAIN log : IsInterruption(log[k])
  \/ \A k \in 1..(n - 1) : IsDeny(log[k]) => IsDeniedAction(log[k + 1])

(* A candidate the gate admits took the decisions of the baseline, in its  *)
(* order, as far as both go: decisions of one rank are the same.  And if   *)
(* it is a whole log and goes further, what it adds was not denied.        *)
(* Neither the denial keys nor the hashes promise this alone.  All that is *)
(* excepted is a candidate cut between two lines: without its summary it   *)
(* may deny again what the baseline denied, and if it was cut before it    *)
(* shows that the run was interrupted, its decisions may differ from the   *)
(* first denial on.                                                        *)
AdmittedRunDiffersInItsTail ==
  gate = SUCCESS =>
    LET base == baseline.log
        cand == evidence.log
    IN  /\ \A m \in DOMAIN base, n \in DOMAIN cand :
             /\ IsDecision(base[m]) /\ IsDecision(cand[n])
             /\ Rank(base, m) = Rank(cand, n)
             /\ ShowsItsKind(cand, n)
             => base[m] = cand[n]
        /\ Closed(evidence) => \A n \in DOMAIN cand :
             IsDeny(cand[n]) => Rank(cand, n) < Rank(base, Len(base) + 1)

(* A baseline that was just updated from the candidate admits it: no part  *)
(* of a comparison fails on what did not change.                           *)
UpdatedBaselineAdmits ==
  gate = REGRESSION => baseline # evidence

(* An update copies a file it has not checked when a run writes in between *)
(* its two reads, and it checks lines, not that the log is whole.  However *)
(* a baseline was damaged so, no run that is closed by its summary passes  *)
(* against it: a broken one admits nothing, an empty one only what is      *)
(* empty, and one cut between two lines only what was cut as well.         *)
TornBaselineAdmitsNoRun ==
  gate = SUCCESS =>
    /\ Broken \notin {baseline, evidence}
    /\ baseline = Empty => evidence = Empty
    /\ ~Closed(baseline) => ~Closed(evidence)

(* What the README says of the gate: a removed denial does not fail it.    *)
(* The candidate made the calls of the baseline under the same policy id   *)
(* and at the same time, and the only difference is that calls which were  *)
(* denied are allowed.                                                     *)
RemovedDenialPasses ==
  gate # NotRun /\ {baseline, evidence} \subseteq Evidence =>
    LET base == SelectSeq(baseline.log, IsDecision)
        cand == SelectSeq(evidence.log, IsDecision)
    IN  /\ baseline.policy = evidence.policy
        /\ baseline.stamp = evidence.stamp
        /\ EventTypes(evidence) \subseteq EventTypes(baseline)
        /\ Len(base) = Len(cand)
        /\ \A n \in DOMAIN base :
             \/ cand[n] = base[n]
             \/ base[n].decision = "deny" /\ cand[n] = [base[n] EXCEPT !.decision = "allow"]
        => gate = SUCCESS
=============================================================================
