----------------------------- MODULE HarnessRun ------------------------------
(***************************************************************************)
(* runHarness() of harness/src/harness.ts: agent run, policy verdicts,     *)
(* approval flow, resume, evidence.  Several runs of one process           *)
(* interleave at the two awaits on the agent and share consumedResumeRefs. *)
(*                                                                         *)
(* The Agents SDK behind run(), getInterruptions(), approve() and reject() *)
(* is external: a turn executes the calls that need no approval and stops  *)
(* at those that do; an approved call executes on resume, a rejected one   *)
(* does not.                                                               *)
(***************************************************************************)
EXTENDS EvidenceLog

CONSTANTS
  Runs,           \* The runHarness() calls of one process.
  Tools,          \* Tool names the model may call.
  ApprovalTools,  \* Those defined with needsApproval.
  Refs,           \* Values of resume_state_ref; equal states hash alike.
  MaxTurn         \* Bound on the calls of one turn.

ASSUME ToolsAssumption == ApprovalTools \subseteq Tools

Modes == {"approve", "reject", "leave"}   \* autoApprove or unset, autoDeny, neither.

VARIABLES
  policy,    \* The policy, as the decision evaluateTool() takes for each tool.
  consumed,  \* consumedResumeRefs, shared by all runs of the process.
  nonces,    \* Nonces drawn so far.
  mode,      \* The approval flags each run was started with.
  pc,        \* Where each run is suspended, or how it ended.
  log,       \* The events of each run's compiler.
  counts,    \* The counters of each run's compiler.
  denied,    \* The `denied` of each run's result.
  paused,    \* The interruption a resuming run answers.
  executed   \* The tool calls the SDK has executed for each run.

locals == <<mode, pc, log, counts, denied, paused, executed>>
vars == <<policy, consumed, nonces, locals>>

NoPause == [tools |-> <<>>, ref |-> "none", nonce |-> 0]

(* The calls of one turn. *)
Turns(tools) == UNION {[1..n -> tools] : n \in 0..MaxTurn}

-----------------------------------------------------------------------------
Init ==
  /\ policy \in [Tools -> Decisions]
  /\ consumed = {}
  /\ nonces = 0
  /\ mode = [r \in Runs |-> "approve"]
  /\ pc = [r \in Runs |-> "idle"]
  /\ log = [r \in Runs |-> <<>>]
  /\ counts = [r \in Runs |-> NoCounts]
  /\ denied = [r \in Runs |-> {}]
  /\ paused = [r \in Runs |-> NoPause]
  /\ executed = [r \in Runs |-> <<>>]

(* runHarness() is called and awaits run(agent, input). *)
Start(r, m) ==
  /\ pc[r] = "idle"
  /\ pc' = [pc EXCEPT ![r] = "running"]
  /\ mode' = [mode EXCEPT ![r] = m]
  /\ UNCHANGED <<policy, consumed, nonces, log, counts, denied, paused, executed>>

(* The agent run throws: a summary, then the error goes to the caller. *)
RunThrows(r) ==
  /\ pc[r] = "running"
  /\ pc' = [pc EXCEPT ![r] = "failed"]
  /\ log' = [log EXCEPT ![r] = Append(@, SummaryEvent(counts[r]))]
  /\ \E ran \in Turns(Tools \ ApprovalTools) :
       executed' = [executed EXCEPT ![r] = ran]
  /\ UNCHANGED <<policy, consumed, nonces, mode, counts, denied, paused>>

(* A slip: the counters of a summary are those at the start of the run. *)
RunCompletesUncounted(r) ==
  /\ pc[r] = "running"
  /\ \E ran \in Turns(Tools \ ApprovalTools) :
       /\ executed' = [executed EXCEPT ![r] = ran]
       /\ counts' = [counts EXCEPT ![r] = Counted(policy, @, ran)]
       /\ log' = [log EXCEPT ![r] =
                    Append(@ \o Verdicts(policy, ran), SummaryEvent(counts[r]))]
       /\ denied' = [denied EXCEPT ![r] = {t \in Range(ran) : policy[t] = "deny"}]
  /\ pc' = [pc EXCEPT ![r] = "returned"]
  /\ UNCHANGED <<policy, consumed, nonces, mode, paused>>

(* No interruption: every call the agent made, all executed by now, gets  *)
(* its verdict.                                                           *)
RunCompletes(r) ==
  /\ pc[r] = "running"
  /\ \E ran \in Turns(Tools \ ApprovalTools) :
       /\ executed' = [executed EXCEPT ![r] = ran]
       /\ counts' = [counts EXCEPT ![r] = Counted(policy, @, ran)]
       /\ log' = [log EXCEPT ![r] =
                    Append(@ \o Verdicts(policy, ran), SummaryEvent(counts'[r]))]
       /\ denied' = [denied EXCEPT ![r] = {t \in Range(ran) : policy[t] = "deny"}]
  /\ pc' = [pc EXCEPT ![r] = "returned"]
  /\ UNCHANGED <<policy, consumed, nonces, mode, paused>>

(* The arguments of an interruption are not JSON: the error escapes. *)
BadArguments(r) ==
  /\ pc[r] = "running"
  /\ pc' = [pc EXCEPT ![r] = "failed"]
  /\ \E ran \in Turns(Tools \ ApprovalTools) :
       executed' = [executed EXCEPT ![r] = ran]
  /\ UNCHANGED <<policy, consumed, nonces, mode, log, counts, denied, paused>>

(* The agent stops at calls that need approval; calls it executed before   *)
(* that get no verdict.  Verdicts and the interruption are emitted.        *)
Interrupt(r, pause) ==
  /\ pc[r] = "running"
  /\ pause.tools # <<>>
  /\ pause.nonce = nonces + 1
  /\ nonces' = nonces + 1
  /\ \E ran \in Turns(Tools \ ApprovalTools) :
       executed' = [executed EXCEPT ![r] = ran]
  /\ counts' = [counts EXCEPT ![r] = Counted(policy, @, pause.tools)]
  /\ UNCHANGED <<policy, mode, denied>>

(* The state was resumed from before: the exact-once guard throws. *)
ResumeRefused(r, pause) ==
  /\ Interrupt(r, pause)
  /\ pause.ref \in consumed
  /\ pc' = [pc EXCEPT ![r] = "failed"]
  /\ log' = [log EXCEPT ![r] = @ \o Interruption(policy, pause)]
  /\ UNCHANGED <<consumed, paused>>

(* A slip: the state is marked as consumed only when the resume returns. *)
ResumeUnmarked(r, pause) ==
  /\ Interrupt(r, pause)
  /\ pause.ref \notin consumed
  /\ mode[r] # "leave"
  /\ pc' = [pc EXCEPT ![r] = "resuming"]
  /\ log' = [log EXCEPT ![r] = @ \o Interruption(policy, pause)]
  /\ paused' = [paused EXCEPT ![r] = pause]
  /\ UNCHANGED consumed

(* A slip: the nonce of the pause is marked, not its state. *)
ResumeMarksNonce(r, pause) ==
  /\ Interrupt(r, pause)
  /\ pause.ref \notin consumed
  /\ consumed' = consumed \cup {pause.nonce}
  /\ mode[r] # "leave"
  /\ pc' = [pc EXCEPT ![r] = "resuming"]
  /\ log' = [log EXCEPT ![r] = @ \o Interruption(policy, pause)]
  /\ paused' = [paused EXCEPT ![r] = pause]

(* Every interruption is approved, or every one rejected, and the run      *)
(* awaits the agent again.                                                 *)
Resume(r, pause) ==
  /\ Interrupt(r, pause)
  /\ pause.ref \notin consumed
  /\ consumed' = consumed \cup {pause.ref}
  /\ mode[r] # "leave"
  /\ pc' = [pc EXCEPT ![r] = "resuming"]
  /\ log' = [log EXCEPT ![r] = @ \o Interruption(policy, pause)]
  /\ paused' = [paused EXCEPT ![r] = pause]

(* A slip: the early return forgets the summary. *)
LeaveOpen(r, pause) ==
  /\ Interrupt(r, pause)
  /\ pause.ref \notin consumed
  /\ consumed' = consumed \cup {pause.ref}
  /\ mode[r] = "leave"
  /\ pc' = [pc EXCEPT ![r] = "returned"]
  /\ log' = [log EXCEPT ![r] = @ \o Interruption(policy, pause)]
  /\ UNCHANGED paused

(* Neither flag: the run returns interrupted, its state marked consumed. *)
Leave(r, pause) ==
  /\ Interrupt(r, pause)
  /\ pause.ref \notin consumed
  /\ consumed' = consumed \cup {pause.ref}
  /\ mode[r] = "leave"
  /\ pc' = [pc EXCEPT ![r] = "returned"]
  /\ log' = [log EXCEPT ![r] =
               Append(@ \o Interruption(policy, pause), SummaryEvent(counts'[r]))]
  /\ UNCHANGED paused

(* What the agent executed on resume: approved calls, then more. *)
Resumed(r) ==
  \E more \in Turns(Tools \ ApprovalTools) :
    executed' = [executed EXCEPT ![r] =
      @ \o (IF mode[r] = "approve" THEN paused[r].tools ELSE <<>>) \o more]

(* The resumed run throws: nothing more is emitted. *)
ResumeThrows(r) ==
  /\ pc[r] = "resuming"
  /\ Resumed(r)
  /\ pc' = [pc EXCEPT ![r] = "failed"]
  /\ UNCHANGED <<policy, consumed, nonces, mode, log, counts, denied, paused>>

(* A slip: a fresh nonce goes into the resumed-run event. *)
ResumeReturnsRenonced(r) ==
  /\ pc[r] = "resuming"
  /\ Resumed(r)
  /\ counts' = [counts EXCEPT ![r].resume = @ + 1]
  /\ log' = [log EXCEPT ![r] = @ \o
       <<ResumedEvent([paused[r] EXCEPT !.nonce = nonces + 1], mode[r]),
         SummaryEvent(counts'[r])>>]
  /\ pc' = [pc EXCEPT ![r] = "returned"]
  /\ nonces' = nonces + 1
  /\ UNCHANGED <<policy, consumed, mode, denied, paused>>

(* The resumed run returns, finished or interrupted again: its calls get   *)
(* no verdicts.                                                            *)
ResumeReturns(r) ==
  /\ pc[r] = "resuming"
  /\ Resumed(r)
  /\ counts' = [counts EXCEPT ![r].resume = @ + 1]
  /\ log' = [log EXCEPT ![r] = @ \o
       <<ResumedEvent(paused[r], mode[r]), SummaryEvent(counts'[r])>>]
  /\ pc' = [pc EXCEPT ![r] = "returned"]
  /\ UNCHANGED <<policy, consumed, nonces, mode, denied, paused>>

(* What getInterruptions(), the state hash and randomBytes can yield. *)
Pauses == [tools : Turns(ApprovalTools), ref : Refs, nonce : {nonces + 1}]

Step(r) ==
  \/ RunThrows(r)
  \/ RunCompletes(r)
  \/ BadArguments(r)
  \/ \E pause \in Pauses :
       ResumeRefused(r, pause) \/ Resume(r, pause) \/ Leave(r, pause)
  \/ ResumeThrows(r)
  \/ ResumeReturns(r)

Next == \E r \in Runs : Step(r) \/ \E m \in Modes : Start(r, m)

Spec == Init /\ [][Next]_vars

-----------------------------------------------------------------------------
(***************************************************************************)
(* Properties.                                                             *)
(***************************************************************************)
Event ==
  [type : {"policy-decision"}, tool : Tools, decision : Decisions]
    \cup [type : {"denied-action"}, tool : Tools]
    \cup [type : {"process-summary"}, counts : Counts]
Pause == [tools : Seq(Tools), ref : Refs \cup {"none"}, nonce : Nat]

(* Every variable stays in its type: the counters and the local results of *)
(* each run, and the states of its two awaits.                             *)
TypeOK ==
  /\ policy \in [Tools -> Decisions]
  /\ consumed \subseteq Refs
  /\ nonces \in Nat
  /\ mode \in [Runs -> Modes]
  /\ pc \in [Runs -> {"idle", "running", "resuming", "returned", "failed"}]
  /\ counts \in [Runs -> Counts]
  /\ denied \in [Runs -> SUBSET Tools]
  /\ paused \in [Runs -> Pause]
  /\ executed \in [Runs -> Seq(Tools)]
  /\ \A r \in Runs : \A i \in 1..Len(log[r]) :
       log[r][i].type \notin {"approval-interruption", "resumed-run"}
         => log[r][i] \in Event

(* A process summary says of the events before it what they are, on every  *)
(* path that emits one: compare and the mapper take its counters on trust.  *)
SummaryCountsTheLog ==
  \A r \in Runs : \A n \in DOMAIN log[r] :
    IsSummary(log[r][n]) =>
      log[r][n].counts = [total    |-> CountBefore(log[r], n, IsDecision),
                          allowed  |-> CountBefore(log[r], n, IsAllow),
                          denied   |-> CountBefore(log[r], n, IsDeny),
                          approval |-> CountBefore(log[r], n, IsApproval),
                          resume   |-> CountBefore(log[r], n, IsResumed)]

(* However its awaits interleave with other runs, the evidence a run        *)
(* returns is one of the three whole logs, closed by its only summary:     *)
(* what the gate compares is never a mixture or a part of them.            *)
ReturnedLogIsWhole ==
  \A r \in Runs : pc[r] = "returned" =>
    \/ log[r] = UninterruptedLog(policy, executed[r])
    \/ \E pause \in [tools : Turns(ApprovalTools), ref : Refs, nonce : 1..nonces] :
         \/ log[r] = LeftLog(policy, pause)
         \/ log[r] = ResumedLog(policy, pause, mode[r])

(* A resumed-run event answers the interruption of its own run, although    *)
(* other runs paused in between: same state, same nonce, same artifact.    *)
ResumeIsBound ==
  \A r \in Runs : \A n \in DOMAIN log[r] : IsResumed(log[r][n]) =>
    \E k \in 1..(n - 1) :
      /\ IsInterruption(log[r][k])
      /\ log[r][n].from = log[r][k].data
      /\ log[r][n].ref = log[r][k].data.ref
      /\ log[r][n].nonce = log[r][k].data.nonce

(* Runs of one process never both resume from one state, wherever their    *)
(* awaits interleave: the exact-once guard.                                *)
ExactOnceResume ==
  \A r, q \in Runs :
    r # q /\ paused[r] # NoPause /\ paused[q] # NoPause
      => paused[r].ref # paused[q].ref

(* A run that was never interrupted reports exactly what it executed: one  *)
(* verdict per call in order, a denied action and an entry of `denied` for *)
(* the denied ones.                                                        *)
UninterruptedRunIsJudged ==
  \A r \in Runs :
    pc[r] = "returned" /\ CountBefore(log[r], Len(log[r]), IsInterruption) = 0 =>
      /\ Len(executed[r]) = CountBefore(log[r], Len(log[r]) + 1, IsDecision)
      /\ \A n \in DOMAIN log[r] : IsDecision(log[r][n]) =>
           executed[r][CountBefore(log[r], n, IsDecision) + 1] = log[r][n].tool
      /\ denied[r] = {log[r][n].tool :
                        n \in {k \in DOMAIN log[r] : IsDeniedAction(log[r][k])}}
      /\ denied[r] = {t \in Range(executed[r]) : policy[t] = "deny"}

(* What the envelope contract says of denied-action: "Tool call blocked by *)
(* policy".                                                                *)
DeniedActionsAreBlocked ==
  \A r \in Runs : denied[r] \cap Range(executed[r]) = {}
=============================================================================
