-------------------------- MODULE HarnessRunProofs ---------------------------
(***************************************************************************)
(* runHarness() and the run command around it, for any number of runs,     *)
(* tools, states and calls: the exact-once guard, and what the evidence of  *)
(* a run holds.                                                            *)
(***************************************************************************)
EXTENDS CliRun, LogLemmas

(* What the guard keeps: the local maps of the runs are maps, every state  *)
(* that was resumed from is consumed, and by one run only.                 *)
GuardInv ==
  /\ DOMAIN paused = Runs
  /\ \A r \in Runs : paused[r] # NoPause => paused[r].ref \in consumed
  /\ ExactOnceResume

(* No run has paused yet. *)
LEMMA GuardInit == Init => GuardInv
  BY DEF Init, GuardInv, ExactOnceResume

(* A run that resumes takes a state nobody resumed from, and marks it       *)
(* before it awaits the agent: Resume() of runHarness().                   *)
LEMMA GuardResume ==
  ASSUME NEW r \in Runs, NEW pause, GuardInv, Resume(r, pause)
  PROVE  GuardInv'
<1>1. /\ pause.ref \notin consumed
      /\ consumed' = consumed \cup {pause.ref}
      /\ paused' = [paused EXCEPT ![r] = pause]
  BY DEF Resume
<1>2. DOMAIN paused' = Runs
  BY <1>1 DEF GuardInv
<1>3. \A q \in Runs : paused'[q] = IF q = r THEN pause ELSE paused[q]
  BY <1>1 DEF GuardInv
<1>4. \A q \in Runs : paused'[q] # NoPause => paused'[q].ref \in consumed'
  BY <1>1, <1>3 DEF GuardInv
<1>5. ASSUME NEW p \in Runs, NEW q \in Runs,
             p # q, paused'[p] # NoPause, paused'[q] # NoPause
      PROVE  paused'[p].ref # paused'[q].ref
  <2>1. CASE p = r
    BY <2>1, <1>1, <1>3, <1>5 DEF GuardInv
  <2>2. CASE q = r
    BY <2>2, <1>1, <1>3, <1>5 DEF GuardInv
  <2>3. CASE p # r /\ q # r
    BY <2>3, <1>3, <1>5 DEF GuardInv, ExactOnceResume
  <2> QED
    BY <2>1, <2>2, <2>3
<1>6. ExactOnceResume'
  BY <1>5 DEF ExactOnceResume, NoPause
<1> QED
  BY <1>2, <1>4, <1>6 DEF GuardInv

(* Every other step leaves the pauses alone and forgets no consumed state. *)
LEMMA GuardOther ==
  ASSUME GuardInv, UNCHANGED paused, consumed \subseteq consumed'
  PROVE  GuardInv'
  BY DEF GuardInv, ExactOnceResume, NoPause

LEMMA GuardStep ==
  ASSUME GuardInv, [Next]_vars
  PROVE  GuardInv'
<1>1. ASSUME NEW r \in Runs, NEW pause \in Pauses, Resume(r, pause)
      PROVE  GuardInv'
  BY <1>1, GuardResume
<1>2. ASSUME NEW r \in Runs, NEW pause \in Pauses,
             ResumeRefused(r, pause) \/ Leave(r, pause)
      PROVE  UNCHANGED paused /\ consumed \subseteq consumed'
  BY <1>2 DEF ResumeRefused, Leave
<1>3. ASSUME NEW r \in Runs,
             RunThrows(r) \/ RunCompletes(r) \/ BadArguments(r)
               \/ ResumeThrows(r) \/ ResumeReturns(r)
      PROVE  UNCHANGED paused /\ consumed \subseteq consumed'
  BY <1>3 DEF RunThrows, RunCompletes, BadArguments, ResumeThrows, ResumeReturns
<1>4. ASSUME NEW r \in Runs, NEW m \in Modes, Start(r, m)
      PROVE  UNCHANGED paused /\ consumed \subseteq consumed'
  BY <1>4 DEF Start
<1>5. CASE UNCHANGED vars
  BY <1>5, GuardOther DEF vars, locals
<1> QED
  BY <1>1, <1>2, <1>3, <1>4, <1>5, GuardOther DEF Next, Step

(* Two runs of one process never resume from one state, however many runs  *)
(* there are and wherever they interleave: consumedResumeRefs is read and  *)
(* written before the await on the agent.                                  *)
THEOREM ResumeOnce == Spec => []ExactOnceResume
<1>1. Init => GuardInv
  BY GuardInit
<1>2. GuardInv /\ [Next]_vars => GuardInv'
  BY GuardStep
<1>3. GuardInv => ExactOnceResume
  BY DEF GuardInv
<1> QED
  BY <1>1, <1>2, <1>3, PTL DEF Spec

-----------------------------------------------------------------------------
(***************************************************************************)
(* The logs of the runs.                                                   *)
(***************************************************************************)
(* The interruptions a process has seen by its n-th nonce. *)
PausesBy(n) == [tools : Turns(ApprovalTools) \ {<<>>}, ref : Refs, nonce : 1..n]

(* How a run returns. *)
Returned(r) ==
  \/ /\ executed[r] \in Turns(Tools \ ApprovalTools)
     /\ log[r] = UninterruptedLog(policy, executed[r])
     /\ denied[r] = {t \in Range(executed[r]) : policy[t] = "deny"}
  \/ /\ denied[r] = {}
     /\ \E pause \in PausesBy(nonces) :
          \/ log[r] = LeftLog(policy, pause)
          \/ log[r] = ResumedLog(policy, pause, mode[r])

(* How it fails: before an interruption, with or without the summary, or   *)
(* after one.                                                              *)
Failed(r) ==
  \/ log[r] = <<>>
  \/ log[r] = <<SummaryEvent(NoCounts)>>
  \/ \E pause \in PausesBy(nonces) : log[r] = Interruption(policy, pause)

(* The log of a run by where the run is.  It is inductive: the counters and *)
(* the pause a run carries over its awaits are those of its own log.       *)
Formed(r) ==
  /\ pc[r] \in {"idle", "running"} =>
       log[r] = <<>> /\ counts[r] = NoCounts /\ executed[r] = <<>>
  /\ pc[r] = "resuming" =>
       /\ paused[r] \in PausesBy(nonces)
       /\ log[r] = Interruption(policy, paused[r])
       /\ counts[r] = CountedOnce(policy, paused[r].tools, 0)
  /\ pc[r] = "returned" => Returned(r)
  /\ pc[r] = "failed" => Failed(r)
  /\ pc[r] # "returned" => denied[r] = {}

TypeInv ==
  /\ policy \in [Tools -> Decisions]
  /\ consumed \subseteq Refs
  /\ nonces \in Nat
  /\ mode \in [Runs -> Modes]
  /\ pc \in [Runs -> {"idle", "running", "resuming", "returned", "failed"}]
  /\ counts \in [Runs -> Counts]
  /\ denied \in [Runs -> SUBSET Tools]
  /\ paused \in [Runs -> Pause]
  /\ executed \in [Runs -> Seq(Tools)]
  /\ DOMAIN log = Runs

LogInv == TypeInv /\ \A r \in Runs : Formed(r)

LEMMA TurnsAreSequences ==
  ASSUME NEW S, NEW tools \in Turns(S)
  PROVE  tools \in Seq(S)
<1>1. PICK n \in 0..MaxTurn : tools \in [1..n -> S]
  BY DEF Turns
<1>2. n \in Nat
  OBVIOUS
<1>3. QED
  BY <1>1, <1>2

LEMMA TurnsOfTools ==
  /\ \A tools \in Turns(ApprovalTools) : tools \in Seq(Tools)
  /\ \A tools \in Turns(Tools \ ApprovalTools) : tools \in Seq(Tools)
<1>1. ASSUME NEW S \in SUBSET Tools, NEW tools \in Turns(S) PROVE tools \in Seq(Tools)
  <2>1. tools \in Seq(S)
    BY TurnsAreSequences
  <2>2. QED
    BY <2>1
<1>2. QED
  BY <1>1, ToolsAssumption

(* What a step of one run leaves to the others. *)
Kept(q) ==
  /\ pc'[q] = pc[q] /\ log'[q] = log[q] /\ counts'[q] = counts[q] /\ mode'[q] = mode[q]
  /\ denied'[q] = denied[q] /\ paused'[q] = paused[q] /\ executed'[q] = executed[q]

LEMMA OthersKeep ==
  ASSUME NEW q \in Runs, Formed(q), Kept(q), UNCHANGED policy,
         nonces \in Nat, nonces' \in Nat, nonces <= nonces'
  PROVE  Formed(q)'
<1>1. \A p \in PausesBy(nonces) : p \in PausesBy(nonces')
  BY DEF PausesBy
<1>2. Returned(q) => Returned(q)'
  BY <1>1 DEF Returned, Kept
<1>3. Failed(q) => Failed(q)'
  BY <1>1 DEF Failed, Kept
<1>4. QED
  BY <1>1, <1>2, <1>3 DEF Formed, Kept

LEMMA LogInit == Init => LogInv
<1> SUFFICES ASSUME Init PROVE LogInv
  OBVIOUS
<1>1. NoCounts \in Counts /\ NoPause \in Pause /\ <<>> \in Seq(Tools)
  BY DEF NoCounts, Counts, NoPause, Pause
<1>2. TypeInv
  BY <1>1 DEF Init, TypeInv, Modes
<1>3. \A r \in Runs : Formed(r)
  BY DEF Init, Formed
<1> QED
  BY <1>2, <1>3 DEF LogInv

LEMMA LogStart ==
  ASSUME LogInv, NEW r \in Runs, NEW m \in Modes, Start(r, m)
  PROVE  LogInv'
<1>1. TypeInv'
  BY DEF LogInv, TypeInv, Start
<1>2. Formed(r)'
  BY DEF LogInv, TypeInv, Formed, Start
<1>3. \A q \in Runs \ {r} : Kept(q)
  BY DEF LogInv, TypeInv, Kept, Start
<1>4. UNCHANGED <<policy, nonces>> /\ nonces \in Nat /\ nonces' \in Nat
  BY DEF LogInv, TypeInv, Start
<1>5. QED
  BY <1>1, <1>2, <1>3, <1>4, OthersKeep DEF LogInv

(* The run throws before it has paused. *)
LEMMA LogRunFails ==
  ASSUME LogInv, NEW r \in Runs, RunThrows(r) \/ BadArguments(r)
  PROVE  LogInv'
<1>1. PICK ran \in Turns(Tools \ ApprovalTools) : executed' = [executed EXCEPT ![r] = ran]
  BY DEF RunThrows, BadArguments
<1>2. ran \in Seq(Tools)
  BY TurnsOfTools
<1>3. /\ pc[r] = "running" /\ pc' = [pc EXCEPT ![r] = "failed"]
      /\ UNCHANGED <<policy, consumed, nonces, mode, counts, denied, paused>>
      /\ \/ log' = [log EXCEPT ![r] = Append(@, SummaryEvent(counts[r]))]
         \/ log' = log
  BY DEF RunThrows, BadArguments
<1>4. TypeInv'
  BY <1>1, <1>2, <1>3 DEF LogInv, TypeInv
<1>5. log[r] = <<>> /\ counts[r] = NoCounts /\ denied[r] = {}
  BY <1>3 DEF LogInv, Formed
<1>6. pc'[r] = "failed" /\ denied'[r] = {}
  BY <1>3, <1>5 DEF LogInv, TypeInv
<1>7. log'[r] = <<>> \/ log'[r] = <<SummaryEvent(NoCounts)>>
  BY <1>3, <1>5 DEF LogInv, TypeInv
<1>8. Formed(r)'
  BY <1>6, <1>7 DEF Formed, Failed
<1>9. \A q \in Runs \ {r} : Kept(q)
  BY <1>1, <1>3 DEF LogInv, TypeInv, Kept
<1>10. nonces \in Nat /\ nonces' \in Nat /\ nonces <= nonces'
  BY <1>3 DEF LogInv, TypeInv
<1>11. QED
  BY <1>3, <1>4, <1>8, <1>9, <1>10, OthersKeep DEF LogInv

LEMMA LogRunCompletes ==
  ASSUME LogInv, NEW r \in Runs, RunCompletes(r)
  PROVE  LogInv'
<1>1. PICK ran \in Turns(Tools \ ApprovalTools) :
        /\ executed' = [executed EXCEPT ![r] = ran]
        /\ counts' = [counts EXCEPT ![r] = Counted(policy, @, ran)]
        /\ log' = [log EXCEPT ![r] =
                     Append(@ \o Verdicts(policy, ran), SummaryEvent(counts'[r]))]
        /\ denied' = [denied EXCEPT ![r] = {t \in Range(ran) : policy[t] = "deny"}]
  BY DEF RunCompletes
<1>2. /\ pc[r] = "running" /\ pc' = [pc EXCEPT ![r] = "returned"]
      /\ UNCHANGED <<policy, consumed, nonces, mode, paused>>
  BY DEF RunCompletes
<1>3. ran \in Seq(Tools)
  BY TurnsOfTools
<1>4. log[r] = <<>> /\ counts[r] = NoCounts
  BY <1>2 DEF LogInv, Formed
<1>5. /\ Counted(policy, NoCounts, ran) = CountedOnce(policy, ran, 0)
      /\ CountedOnce(policy, ran, 0) \in Counts
  BY <1>3, CountedFromNone
<1>6. /\ counts'[r] = Counted(policy, NoCounts, ran)
      /\ counts' \in [Runs -> Counts]
  BY <1>1, <1>4, <1>5 DEF LogInv, TypeInv
<1>7. {t \in Range(ran) : policy[t] = "deny"} \in SUBSET Tools
  BY <1>3 DEF Range
<1>8. TypeInv'
  <2>1. denied' \in [Runs -> SUBSET Tools]
    BY <1>1, <1>7 DEF LogInv, TypeInv
  <2>2. QED
    BY <1>1, <1>2, <1>3, <1>6, <2>1 DEF LogInv, TypeInv
<1>9. /\ log'[r] = Append(<<>> \o Verdicts(policy, ran), SummaryEvent(Counted(policy, NoCounts, ran)))
      /\ executed'[r] = ran
      /\ denied'[r] = {t \in Range(ran) : policy[t] = "deny"}
      /\ pc'[r] = "returned"
  BY <1>1, <1>2, <1>4, <1>6 DEF LogInv, TypeInv
<1>10. <<>> \o Verdicts(policy, ran) = Verdicts(policy, ran)
  <2>1. Verdicts(policy, ran) \in Seq(VerdictEvents(policy, ran))
    BY <1>3, VerdictsHold DEF VerdictsOf
  <2>2. QED
    BY <2>1
<1>11. log'[r] = UninterruptedLog(policy, ran)
  BY <1>9, <1>10 DEF UninterruptedLog
<1>12. Returned(r)'
  BY <1>2, <1>9, <1>11 DEF Returned
<1>13. Formed(r)'
  BY <1>9, <1>12 DEF Formed
<1>14. \A q \in Runs \ {r} : Kept(q)
  BY <1>1, <1>2 DEF LogInv, TypeInv, Kept
<1>15. nonces \in Nat /\ nonces' \in Nat /\ nonces <= nonces'
  BY <1>2 DEF LogInv, TypeInv
<1>16. QED
  BY <1>2, <1>8, <1>13, <1>14, <1>15, OthersKeep DEF LogInv

(* What every step that interrupts a run has in common. *)
LEMMA LogInterrupt ==
  ASSUME LogInv, NEW r \in Runs, NEW pause \in Pauses, Interrupt(r, pause)
  PROVE  /\ pause \in PausesBy(nonces') /\ pause \in Pause /\ pause.tools \in Seq(Tools)
         /\ pause.ref \in Refs
         /\ nonces \in Nat /\ nonces' \in Nat /\ nonces <= nonces'
         /\ log[r] = <<>> /\ denied[r] = {} /\ r \in DOMAIN log /\ r \in DOMAIN pc
         /\ counts' \in [Runs -> Counts]
         /\ counts'[r] = Counted(policy, NoCounts, pause.tools)
         /\ executed' \in [Runs -> Seq(Tools)]
         /\ <<>> \o Interruption(policy, pause) = Interruption(policy, pause)
         /\ \A q \in Runs \ {r} : counts'[q] = counts[q] /\ executed'[q] = executed[q]
<1>1. /\ pc[r] = "running" /\ pause.tools # <<>> /\ pause.nonce = nonces + 1
      /\ nonces' = nonces + 1
      /\ counts' = [counts EXCEPT ![r] = Counted(policy, @, pause.tools)]
  BY DEF Interrupt
<1>2. PICK ran \in Turns(Tools \ ApprovalTools) : executed' = [executed EXCEPT ![r] = ran]
  BY DEF Interrupt
<1>3. pause.tools \in Turns(ApprovalTools) /\ pause.ref \in Refs
  BY DEF Pauses
<1>4. pause.tools \in Seq(Tools) /\ ran \in Seq(Tools)
  BY <1>3, TurnsOfTools
<1>5. nonces \in Nat /\ nonces' \in Nat /\ nonces <= nonces'
  BY <1>1 DEF LogInv, TypeInv
<1>6. pause \in PausesBy(nonces') /\ pause \in Pause
  BY <1>1, <1>3, <1>4, <1>5 DEF Pauses, PausesBy, Pause
<1>7. log[r] = <<>> /\ counts[r] = NoCounts /\ denied[r] = {}
  BY <1>1 DEF LogInv, Formed
<1>8. /\ Counted(policy, NoCounts, pause.tools) = CountedOnce(policy, pause.tools, 0)
      /\ CountedOnce(policy, pause.tools, 0) \in Counts
  BY <1>4, CountedFromNone
<1>9. /\ counts' \in [Runs -> Counts]
      /\ counts'[r] = Counted(policy, NoCounts, pause.tools)
      /\ \A q \in Runs \ {r} : counts'[q] = counts[q]
  BY <1>1, <1>7, <1>8 DEF LogInv, TypeInv
<1>10. executed' \in [Runs -> Seq(Tools)] /\ \A q \in Runs \ {r} : executed'[q] = executed[q]
  BY <1>2, <1>4 DEF LogInv, TypeInv
<1>11. <<>> \o Interruption(policy, pause) = Interruption(policy, pause)
  <2>1. Interruption(policy, pause) \in Seq(InterruptionEvents(policy, pause, {}))
    BY <1>4, InterruptionShape
  <2>2. QED
    BY <2>1
<1>12. QED
  BY <1>3, <1>4, <1>5, <1>6, <1>7, <1>9, <1>10, <1>11 DEF LogInv, TypeInv

LEMMA LogResumeRefused ==
  ASSUME LogInv, NEW r \in Runs, NEW pause \in Pauses, ResumeRefused(r, pause)
  PROVE  LogInv'
<1>1. Interrupt(r, pause)
  BY DEF ResumeRefused
<1>2. /\ pc' = [pc EXCEPT ![r] = "failed"]
      /\ log' = [log EXCEPT ![r] = @ \o Interruption(policy, pause)]
      /\ UNCHANGED <<policy, mode, denied, consumed, paused>>
  BY <1>1 DEF ResumeRefused, Interrupt
<1>3. TypeInv'
  BY <1>1, <1>2, LogInterrupt DEF LogInv, TypeInv
<1>4. log'[r] = Interruption(policy, pause) /\ pc'[r] = "failed" /\ denied'[r] = {}
  BY <1>1, <1>2, LogInterrupt
<1>5. Formed(r)'
  BY <1>1, <1>2, <1>4, LogInterrupt DEF Formed, Failed
<1>6. \A q \in Runs \ {r} : Kept(q)
  BY <1>1, <1>2, LogInterrupt DEF LogInv, TypeInv, Kept
<1>7. QED
  BY <1>1, <1>2, <1>3, <1>5, <1>6, LogInterrupt, OthersKeep DEF LogInv

LEMMA LogResume ==
  ASSUME LogInv, NEW r \in Runs, NEW pause \in Pauses, Resume(r, pause)
  PROVE  LogInv'
<1>1. Interrupt(r, pause)
  BY DEF Resume
<1>2. /\ pc' = [pc EXCEPT ![r] = "resuming"]
      /\ log' = [log EXCEPT ![r] = @ \o Interruption(policy, pause)]
      /\ paused' = [paused EXCEPT ![r] = pause]
      /\ consumed' = consumed \cup {pause.ref}
      /\ UNCHANGED <<policy, mode, denied>>
  BY <1>1 DEF Resume, Interrupt
<1>3. TypeInv'
  BY <1>1, <1>2, LogInterrupt DEF LogInv, TypeInv
<1>4. log'[r] = Interruption(policy, pause) /\ pc'[r] = "resuming" /\ denied'[r] = {}
  BY <1>1, <1>2, LogInterrupt
<1>5. paused'[r] = pause
  BY <1>2 DEF LogInv, TypeInv
<1>6. counts'[r] = CountedOnce(policy, pause.tools, 0)
  BY <1>1, LogInterrupt, CountedFromNone
<1>7. Formed(r)'
  BY <1>1, <1>2, <1>4, <1>5, <1>6, LogInterrupt DEF Formed
<1>8. \A q \in Runs \ {r} : Kept(q)
  BY <1>1, <1>2, LogInterrupt DEF LogInv, TypeInv, Kept
<1>9. QED
  BY <1>1, <1>2, <1>3, <1>7, <1>8, LogInterrupt, OthersKeep DEF LogInv

LEMMA LogLeave ==
  ASSUME LogInv, NEW r \in Runs, NEW pause \in Pauses, Leave(r, pause)
  PROVE  LogInv'
<1>1. Interrupt(r, pause)
  BY DEF Leave
<1>2. /\ pc' = [pc EXCEPT ![r] = "returned"]
      /\ log' = [log EXCEPT ![r] =
                   Append(@ \o Interruption(policy, pause), SummaryEvent(counts'[r]))]
      /\ consumed' = consumed \cup {pause.ref}
      /\ UNCHANGED <<policy, mode, denied, paused>>
  BY <1>1 DEF Leave, Interrupt
<1>3. TypeInv'
  BY <1>1, <1>2, LogInterrupt DEF LogInv, TypeInv
<1>4. /\ log'[r] = Append(<<>> \o Interruption(policy, pause),
                          SummaryEvent(Counted(policy, NoCounts, pause.tools)))
      /\ pc'[r] = "returned" /\ denied'[r] = {}
  BY <1>1, <1>2, LogInterrupt
<1>5. log'[r] = LeftLog(policy, pause)
  BY <1>1, <1>4, LogInterrupt DEF LeftLog
<1>6. Formed(r)'
  BY <1>1, <1>2, <1>4, <1>5, LogInterrupt DEF Formed, Returned
<1>7. \A q \in Runs \ {r} : Kept(q)
  BY <1>1, <1>2, LogInterrupt DEF LogInv, TypeInv, Kept
<1>8. QED
  BY <1>1, <1>2, <1>3, <1>6, <1>7, LogInterrupt, OthersKeep DEF LogInv

(* What the agent executes on resume are calls of its tools. *)
LEMMA LogResumed ==
  ASSUME LogInv, NEW r \in Runs, pc[r] = "resuming", Resumed(r)
  PROVE  /\ executed' \in [Runs -> Seq(Tools)]
         /\ \A q \in Runs \ {r} : executed'[q] = executed[q]
<1>1. PICK more \in Turns(Tools \ ApprovalTools) :
        executed' = [executed EXCEPT ![r] =
          @ \o (IF mode[r] = "approve" THEN paused[r].tools ELSE <<>>) \o more]
  BY DEF Resumed
<1> DEFINE approved == IF mode[r] = "approve" THEN paused[r].tools ELSE <<>>
<1>2. more \in Seq(Tools)
  BY TurnsOfTools
<1>3. paused[r].tools \in Seq(Tools) /\ executed[r] \in Seq(Tools)
  BY DEF LogInv, TypeInv, Pause
<1>4. approved \in Seq(Tools)
  BY <1>3
<1> HIDE DEF approved
<1>5. executed[r] \o approved \o more \in Seq(Tools)
  BY <1>2, <1>3, <1>4
<1>6. executed' = [executed EXCEPT ![r] = executed[r] \o approved \o more]
  BY <1>1 DEF approved
<1>7. QED
  BY <1>5, <1>6 DEF LogInv, TypeInv

LEMMA LogResumeThrows ==
  ASSUME LogInv, NEW r \in Runs, ResumeThrows(r)
  PROVE  LogInv'
<1>1. /\ pc[r] = "resuming" /\ pc' = [pc EXCEPT ![r] = "failed"]
      /\ UNCHANGED <<policy, consumed, nonces, mode, log, counts, denied, paused>>
  BY DEF ResumeThrows
<1>2. /\ executed' \in [Runs -> Seq(Tools)]
      /\ \A q \in Runs \ {r} : executed'[q] = executed[q]
  BY <1>1, LogResumed DEF ResumeThrows
<1>3. TypeInv'
  BY <1>1, <1>2 DEF LogInv, TypeInv
<1>4. /\ paused[r] \in PausesBy(nonces) /\ log[r] = Interruption(policy, paused[r])
      /\ denied[r] = {}
  BY <1>1 DEF LogInv, Formed
<1>5. pc'[r] = "failed"
  BY <1>1 DEF LogInv, TypeInv
<1>6. Formed(r)'
  BY <1>1, <1>4, <1>5 DEF Formed, Failed
<1>7. \A q \in Runs \ {r} : Kept(q)
  BY <1>1, <1>2 DEF LogInv, TypeInv, Kept
<1>8. nonces \in Nat /\ nonces' \in Nat /\ nonces <= nonces'
  BY <1>1 DEF LogInv, TypeInv
<1>9. QED
  BY <1>1, <1>3, <1>6, <1>7, <1>8, OthersKeep DEF LogInv

LEMMA LogResumeReturns ==
  ASSUME LogInv, NEW r \in Runs, ResumeReturns(r)
  PROVE  LogInv'
<1>1. /\ pc[r] = "resuming" /\ pc' = [pc EXCEPT ![r] = "returned"]
      /\ counts' = [counts EXCEPT ![r].resume = @ + 1]
      /\ log' = [log EXCEPT ![r] = @ \o
                   <<ResumedEvent(paused[r], mode[r]), SummaryEvent(counts'[r])>>]
      /\ UNCHANGED <<policy, consumed, nonces, mode, denied, paused>>
  BY DEF ResumeReturns
<1>2. /\ executed' \in [Runs -> Seq(Tools)]
      /\ \A q \in Runs \ {r} : executed'[q] = executed[q]
  BY <1>1, LogResumed DEF ResumeReturns
<1> DEFINE p == paused[r]
           c == CountedOnce(policy, p.tools, 0)
<1>3. /\ p \in PausesBy(nonces) /\ log[r] = Interruption(policy, p)
      /\ counts[r] = c /\ denied[r] = {}
  BY <1>1 DEF LogInv, Formed
<1>4. p.tools \in Seq(Tools)
  BY DEF LogInv, TypeInv, Pause
<1>5. [c EXCEPT !.resume = @ + 1] = CountedOnce(policy, p.tools, 1)
  BY DEF CountedOnce
<1>6. Counted(policy, NoCounts, p.tools) = c /\ CountedOnce(policy, p.tools, 1) \in Counts
  BY <1>4, CountedFromNone
<1> HIDE DEF c
<1>7. [Counted(policy, NoCounts, p.tools) EXCEPT !.resume = 1] = CountedOnce(policy, p.tools, 1)
  <2>1. [c EXCEPT !.resume = 1] = CountedOnce(policy, p.tools, 1)
    BY DEF c, CountedOnce
  <2>2. QED
    BY <1>6, <2>1
<1> HIDE DEF p
<1>8. counts' = [counts EXCEPT ![r] = CountedOnce(policy, p.tools, 1)]
  <2>1. counts' = [counts EXCEPT ![r] = [c EXCEPT !.resume = @ + 1]]
    BY <1>1, <1>3
  <2>2. QED
    BY <1>5, <2>1
<1>9. /\ counts' \in [Runs -> Counts] /\ counts'[r] = CountedOnce(policy, p.tools, 1)
      /\ \A q \in Runs \ {r} : counts'[q] = counts[q]
  BY <1>6, <1>8 DEF LogInv, TypeInv
<1>10. TypeInv'
  BY <1>1, <1>2, <1>9 DEF LogInv, TypeInv
<1>11. /\ log'[r] = Interruption(policy, p) \o
                      <<ResumedEvent(p, mode[r]), SummaryEvent(CountedOnce(policy, p.tools, 1))>>
       /\ pc'[r] = "returned"
  BY <1>1, <1>3, <1>9 DEF LogInv, TypeInv, p
<1>12. log'[r] = ResumedLog(policy, p, mode[r])
  BY <1>7, <1>11, Zenon DEF ResumedLog
<1>13. Returned(r)'
  BY <1>1, <1>3, <1>12 DEF Returned
<1>14. Formed(r)'
  BY <1>11, <1>13 DEF Formed
<1>15. \A q \in Runs \ {r} : Kept(q)
  BY <1>1, <1>2, <1>9 DEF LogInv, TypeInv, Kept
<1>16. nonces \in Nat /\ nonces' \in Nat /\ nonces <= nonces'
  BY <1>1 DEF LogInv, TypeInv
<1>17. QED
  BY <1>1, <1>10, <1>14, <1>15, <1>16, OthersKeep DEF LogInv

LEMMA LogStutter ==
  ASSUME LogInv, UNCHANGED vars
  PROVE  LogInv'
<1>1. UNCHANGED <<policy, consumed, nonces, mode, pc, log, counts, denied, paused, executed>>
  BY DEF vars, locals
<1>2. TypeInv'
  BY <1>1 DEF LogInv, TypeInv
<1>3. \A q \in Runs : Kept(q)
  BY <1>1 DEF Kept
<1>4. nonces \in Nat /\ nonces' \in Nat /\ nonces <= nonces'
  BY <1>1 DEF LogInv, TypeInv
<1>5. QED
  BY <1>1, <1>2, <1>3, <1>4, OthersKeep DEF LogInv

LEMMA LogStep ==
  ASSUME LogInv, [Next]_vars
  PROVE  LogInv'
<1>1. ASSUME NEW r \in Runs, NEW m \in Modes, Start(r, m) PROVE LogInv'
  BY <1>1, LogStart
<1>2. ASSUME NEW r \in Runs, RunThrows(r) \/ BadArguments(r) PROVE LogInv'
  BY <1>2, LogRunFails
<1>3. ASSUME NEW r \in Runs, RunCompletes(r) PROVE LogInv'
  BY <1>3, LogRunCompletes
<1>4. ASSUME NEW r \in Runs, NEW pause \in Pauses, ResumeRefused(r, pause) PROVE LogInv'
  BY <1>4, LogResumeRefused
<1>5. ASSUME NEW r \in Runs, NEW pause \in Pauses, Resume(r, pause) PROVE LogInv'
  BY <1>5, LogResume
<1>6. ASSUME NEW r \in Runs, NEW pause \in Pauses, Leave(r, pause) PROVE LogInv'
  BY <1>6, LogLeave
<1>7. ASSUME NEW r \in Runs, ResumeThrows(r) PROVE LogInv'
  BY <1>7, LogResumeThrows
<1>8. ASSUME NEW r \in Runs, ResumeReturns(r) PROVE LogInv'
  BY <1>8, LogResumeReturns
<1>9. CASE UNCHANGED vars
  BY <1>9, LogStutter
<1>10. QED
  BY <1>1, <1>2, <1>3, <1>4, <1>5, <1>6, <1>7, <1>8, <1>9 DEF Next, Step

-----------------------------------------------------------------------------
(***************************************************************************)
(* What the logs of the runs say.                                          *)
(***************************************************************************)
(* A log a run can have at any time. *)
AnyLog(l) ==
  \/ l = <<>>
  \/ l = <<SummaryEvent(NoCounts)>>
  \/ \E tools \in Seq(Tools) : l = UninterruptedLog(policy, tools)
  \/ \E pause \in Pause :
       \/ l = Interruption(policy, pause)
       \/ l = LeftLog(policy, pause)
       \/ \E d \in Modes : l = ResumedLog(policy, pause, d)

LEMMA RealPauses ==
  ASSUME LogInv, NEW pause \in PausesBy(nonces)
  PROVE  pause \in Pause /\ pause.tools \in Seq(Tools)
<1>1. pause.tools \in Turns(ApprovalTools) /\ pause.ref \in Refs /\ pause.nonce \in Nat
  BY DEF PausesBy, LogInv, TypeInv
<1>2. pause.tools \in Seq(Tools)
  BY <1>1, TurnsOfTools
<1>3. QED
  BY <1>1, <1>2 DEF PausesBy, Pause

LEMMA LogsOfRuns ==
  ASSUME LogInv, NEW r \in Runs
  PROVE  AnyLog(log[r])
<1>1. Formed(r) /\ mode[r] \in Modes /\ pc[r] \in {"idle", "running", "resuming", "returned", "failed"}
  BY DEF LogInv, TypeInv
<1>2. CASE pc[r] \in {"idle", "running"}
  BY <1>1, <1>2 DEF Formed, AnyLog
<1>3. CASE pc[r] = "resuming"
  BY <1>1, <1>3, RealPauses DEF Formed, AnyLog
<1>4. CASE pc[r] = "failed"
  BY <1>1, <1>4, RealPauses DEF Formed, Failed, AnyLog
<1>5. CASE pc[r] = "returned"
  <2>1. CASE executed[r] \in Turns(Tools \ ApprovalTools)
               /\ log[r] = UninterruptedLog(policy, executed[r])
    BY <2>1, TurnsOfTools DEF AnyLog
  <2>2. CASE \E pause \in PausesBy(nonces) :
               \/ log[r] = LeftLog(policy, pause)
               \/ log[r] = ResumedLog(policy, pause, mode[r])
    BY <1>1, <2>2, RealPauses DEF AnyLog
  <2>3. QED
    BY <1>1, <1>5, <2>1, <2>2 DEF Formed, Returned
<1>6. QED
  BY <1>1, <1>2, <1>3, <1>4, <1>5

(* The events of a log that are not verdicts, by their place. *)
PauseEnds(l, pause) ==
  LET n == Len(pause.tools)
  IN  \/ Len(l) = n + 1
      \/ /\ Len(l) = n + 2
         /\ l[n + 2] = SummaryEvent(CountedOnce(policy, pause.tools, 0))
      \/ /\ Len(l) = n + 3
         /\ \E d \in Modes : l[n + 2] = ResumedEvent(pause, d)
         /\ l[n + 3] = SummaryEvent(CountedOnce(policy, pause.tools, 1))

LEMMA LogShapes ==
  ASSUME NEW l, AnyLog(l)
  PROVE  \/ l = <<>>
         \/ l = <<SummaryEvent(NoCounts)>>
         \/ \E tools \in Seq(Tools) : UninterruptedShape(l, policy, tools)
         \/ \E pause \in Pause : PauseShape(l, policy, pause) /\ PauseEnds(l, pause)
<1>1. ASSUME NEW tools \in Seq(Tools), l = UninterruptedLog(policy, tools)
      PROVE  UninterruptedShape(l, policy, tools)
  BY <1>1, UninterruptedLogShape
<1>2. ASSUME NEW pause \in Pause, l = Interruption(policy, pause)
      PROVE  PauseShape(l, policy, pause) /\ PauseEnds(l, pause)
  <2>1. pause.tools \in Seq(Tools)
    BY DEF Pause
  <2>2. QED
    BY <1>2, <2>1, InterruptionShape DEF PauseEnds
<1>3. ASSUME NEW pause \in Pause, l = LeftLog(policy, pause)
      PROVE  PauseShape(l, policy, pause) /\ PauseEnds(l, pause)
  <2>1. pause.tools \in Seq(Tools)
    BY DEF Pause
  <2>2. QED
    BY <1>3, <2>1, LeftLogShape DEF PauseEnds
<1>4. ASSUME NEW pause \in Pause, NEW d \in Modes, l = ResumedLog(policy, pause, d)
      PROVE  PauseShape(l, policy, pause) /\ PauseEnds(l, pause)
  <2>1. pause.tools \in Seq(Tools)
    BY DEF Pause
  <2>2. QED
    BY <1>4, <2>1, ResumedLogShape DEF PauseEnds
<1>5. QED
  BY <1>1, <1>2, <1>3, <1>4 DEF AnyLog

(* The kinds of the events. *)
LEMMA EventKinds ==
  /\ \A p, t : LET e == PolicyDecisionEvent(p, t)
               IN  ~IsSummary(e) /\ ~IsResumed(e) /\ ~IsInterruption(e) /\ ~IsDeniedAction(e)
  /\ \A pause : LET e == InterruptionEvent(pause)
                IN  /\ ~IsSummary(e) /\ ~IsResumed(e) /\ IsInterruption(e) /\ e.data = pause
                    /\ ~IsDecision(e) /\ ~IsDeniedAction(e)
  /\ \A pause, d : LET e == ResumedEvent(pause, d)
                   IN  /\ ~IsSummary(e) /\ IsResumed(e) /\ ~IsInterruption(e)
                       /\ e.from = pause /\ e.ref = pause.ref /\ e.nonce = pause.nonce
  /\ \A c : LET e == SummaryEvent(c)
            IN  /\ IsSummary(e) /\ ~IsResumed(e) /\ ~IsInterruption(e) /\ e.counts = c
                /\ ~IsDecision(e) /\ ~IsDeniedAction(e)
BY DEF PolicyDecisionEvent, InterruptionEvent, ResumedEvent, SummaryEvent, IsDecision,
       IsSummary, IsResumed, IsInterruption, IsDeniedAction

(* A summary tells the counts of the events before it. *)
Told(l) == \A n \in DOMAIN l : IsSummary(l[n]) => l[n].counts = FirstCounts(l, n - 1)

LEMMA SummariesTell ==
  ASSUME NEW l, AnyLog(l)
  PROVE  Told(l)
<1>1. CASE l = <<>>
  BY <1>1 DEF Told
<1>2. CASE l = <<SummaryEvent(NoCounts)>>
  <2>1. FirstCounts(l, 0) = NoCounts
    <3>1. /\ {i \in 1..((0 + 1) - 1) : IsDecision(l[i])} = {}
          /\ {i \in 1..((0 + 1) - 1) : IsAllow(l[i])} = {}
          /\ {i \in 1..((0 + 1) - 1) : IsDeny(l[i])} = {}
          /\ {i \in 1..((0 + 1) - 1) : IsApproval(l[i])} = {}
          /\ {i \in 1..((0 + 1) - 1) : IsResumed(l[i])} = {}
      OBVIOUS
    <3>2. QED
      BY <3>1, FS_EmptySet DEF FirstCounts, CountBefore, NoCounts
  <2>2. DOMAIN l = {1} /\ l[1] = SummaryEvent(NoCounts) /\ 1 - 1 = 0
    BY <1>2
  <2>3. QED
    BY <2>1, <2>2, EventKinds DEF Told
<1>3. ASSUME NEW tools \in Seq(Tools), UninterruptedShape(l, policy, tools) PROVE Told(l)
  <2> DEFINE v == Verdicts(policy, tools)
             n == Len(v)
  <2>1. v \in Seq(VerdictEvents(policy, tools))
    BY VerdictsHold DEF VerdictsOf
  <2>2. FirstCounts(v, n) = CountedOnce(policy, tools, 0)
    BY VerdictsAreCounted
  <2>3. /\ n \in Nat /\ DOMAIN l = 1..(n + 1) /\ \A i \in 1..n : l[i] = v[i]
        /\ l[n + 1] = SummaryEvent(CountedOnce(policy, tools, 0))
    BY <1>3 DEF UninterruptedShape
  <2>4. \A i \in 1..n : ~IsSummary(v[i])
    BY <2>1, EventFields
  <2> HIDE DEF v, n
  <2>5. FirstCounts(l, n) = FirstCounts(v, n)
    BY <2>3, FirstCountsAgree
  <2>6. \A i \in DOMAIN l : i \in 1..n \/ i = n + 1
    BY <2>3
  <2>7. (n + 1) - 1 = n
    BY <2>3
  <2>8. QED
    BY <2>2, <2>3, <2>4, <2>5, <2>6, <2>7, EventKinds DEF Told
<1>4. ASSUME NEW pause \in Pause, PauseShape(l, policy, pause), PauseEnds(l, pause) PROVE Told(l)
  <2> DEFINE n == Len(pause.tools)
  <2>1. pause.tools \in Seq(Tools) /\ n \in Nat
    BY DEF Pause
  <2>2. /\ DOMAIN l = 1..Len(l)
        /\ \A i \in 1..n : ~IsSummary(l[i])
        /\ ~IsSummary(l[n + 1])
    BY <1>4, EventKinds DEF PauseShape
  <2>3. FirstCounts(l, n + 1) = CountedOnce(policy, pause.tools, 0)
    BY <1>4, <2>1, PauseCounts
  <2>4. IsResumed(l[n + 2]) => FirstCounts(l, n + 2) = CountedOnce(policy, pause.tools, 1)
    BY <1>4, <2>1, PauseCounts
  <2>5. CASE Len(l) = n + 1
    <3>1. \A i \in DOMAIN l : i \in 1..n \/ i = n + 1
      BY <2>1, <2>2, <2>5
    <3>2. QED
      BY <2>2, <3>1 DEF Told
  <2>6. CASE Len(l) = n + 2 /\ l[n + 2] = SummaryEvent(CountedOnce(policy, pause.tools, 0))
    <3>1. \A i \in DOMAIN l : i \in 1..n \/ i = n + 1 \/ i = n + 2
      BY <2>1, <2>2, <2>6
    <3>2. (n + 2) - 1 = n + 1
      BY <2>1
    <3>3. QED
      BY <2>2, <2>3, <2>6, <3>1, <3>2, EventKinds DEF Told
  <2>7. CASE /\ Len(l) = n + 3
             /\ \E d \in Modes : l[n + 2] = ResumedEvent(pause, d)
             /\ l[n + 3] = SummaryEvent(CountedOnce(policy, pause.tools, 1))
    <3>1. \A i \in DOMAIN l : i \in 1..n \/ i = n + 1 \/ i = n + 2 \/ i = n + 3
      BY <2>1, <2>2, <2>7
    <3>2. (n + 3) - 1 = n + 2
      BY <2>1
    <3>3. IsResumed(l[n + 2]) /\ ~IsSummary(l[n + 2])
      BY <2>7, EventKinds
    <3>4. QED
      BY <2>2, <2>4, <2>7, <3>1, <3>2, <3>3, EventKinds DEF Told
  <2>8. QED
    BY <1>4, <2>5, <2>6, <2>7 DEF PauseEnds
<1>5. QED
  BY <1>1, <1>2, <1>3, <1>4, LogShapes

LEMMA LogInvTells == LogInv => SummaryCountsTheLog
<1> SUFFICES ASSUME LogInv, NEW r \in Runs, NEW n \in DOMAIN log[r], IsSummary(log[r][n])
             PROVE  log[r][n].counts =
                      [total    |-> CountBefore(log[r], n, IsDecision),
                       allowed  |-> CountBefore(log[r], n, IsAllow),
                       denied   |-> CountBefore(log[r], n, IsDeny),
                       approval |-> CountBefore(log[r], n, IsApproval),
                       resume   |-> CountBefore(log[r], n, IsResumed)]
  BY DEF SummaryCountsTheLog
<1>1. log[r][n].counts = FirstCounts(log[r], n - 1)
  BY LogsOfRuns, SummariesTell DEF Told
<1>2. n \in Int
  <2>1. AnyLog(log[r])
    BY LogsOfRuns
  <2>2. ASSUME NEW tools \in Seq(Tools), UninterruptedShape(log[r], policy, tools) PROVE n \in Int
    BY <2>2 DEF UninterruptedShape
  <2>3. ASSUME NEW pause \in Pause, PauseShape(log[r], policy, pause) PROVE n \in Int
    BY <2>3 DEF PauseShape
  <2>4. CASE log[r] = <<>> \/ log[r] = <<SummaryEvent(NoCounts)>>
    BY <2>4
  <2>5. QED
    BY <2>1, <2>2, <2>3, <2>4, LogShapes
<1>3. (n - 1) + 1 = n
  BY <1>2
<1>4. QED
  BY <1>1, <1>3 DEF FirstCounts

LEMMA LogInvWhole == LogInv => ReturnedLogIsWhole
BY DEF LogInv, Formed, Returned, PausesBy, ReturnedLogIsWhole

(* A resumed-run event follows the interruption it answers. *)
Bound(l) ==
  \A n \in DOMAIN l : IsResumed(l[n]) =>
    \E k \in 1..(n - 1) :
      /\ IsInterruption(l[k])
      /\ l[n].from = l[k].data
      /\ l[n].ref = l[k].data.ref
      /\ l[n].nonce = l[k].data.nonce

LEMMA ResumesAreBound ==
  ASSUME NEW l, AnyLog(l)
  PROVE  Bound(l)
<1>1. CASE l = <<>>
  BY <1>1 DEF Bound
<1>2. CASE l = <<SummaryEvent(NoCounts)>>
  <2>1. DOMAIN l = {1} /\ l[1] = SummaryEvent(NoCounts)
    BY <1>2
  <2>2. QED
    BY <2>1, EventKinds DEF Bound
<1>3. ASSUME NEW tools \in Seq(Tools), UninterruptedShape(l, policy, tools) PROVE Bound(l)
  <2> DEFINE v == Verdicts(policy, tools)
             n == Len(v)
  <2>1. v \in Seq(VerdictEvents(policy, tools))
    BY VerdictsHold DEF VerdictsOf
  <2>2. /\ n \in Nat /\ DOMAIN l = 1..(n + 1) /\ \A i \in 1..n : l[i] = v[i]
        /\ l[n + 1] = SummaryEvent(CountedOnce(policy, tools, 0))
    BY <1>3 DEF UninterruptedShape
  <2>3. \A i \in 1..n : ~IsResumed(v[i])
    BY <2>1, EventFields
  <2> HIDE DEF v, n
  <2>4. \A i \in DOMAIN l : i \in 1..n \/ i = n + 1
    BY <2>2
  <2>5. QED
    BY <2>2, <2>3, <2>4, EventKinds DEF Bound
<1>4. ASSUME NEW pause \in Pause, PauseShape(l, policy, pause), PauseEnds(l, pause) PROVE Bound(l)
  <2> DEFINE n == Len(pause.tools)
  <2>1. n \in Nat
    BY DEF Pause
  <2>2. /\ DOMAIN l = 1..Len(l)
        /\ \A i \in 1..n : ~IsResumed(l[i])
        /\ ~IsResumed(l[n + 1])
        /\ l[n + 1] = InterruptionEvent(pause)
    BY <1>4, EventKinds DEF PauseShape
  <2>3. CASE Len(l) = n + 1
    <3>1. \A i \in DOMAIN l : i \in 1..n \/ i = n + 1
      BY <2>1, <2>2, <2>3
    <3>2. QED
      BY <2>2, <3>1 DEF Bound
  <2>4. CASE Len(l) = n + 2 /\ l[n + 2] = SummaryEvent(CountedOnce(policy, pause.tools, 0))
    <3>1. \A i \in DOMAIN l : i \in 1..n \/ i = n + 1 \/ i = n + 2
      BY <2>1, <2>2, <2>4
    <3>2. QED
      BY <2>2, <2>4, <3>1, EventKinds DEF Bound
  <2>5. CASE /\ Len(l) = n + 3
             /\ \E d \in Modes : l[n + 2] = ResumedEvent(pause, d)
             /\ l[n + 3] = SummaryEvent(CountedOnce(policy, pause.tools, 1))
    <3>1. \A i \in DOMAIN l : i \in 1..n \/ i = n + 1 \/ i = n + 2 \/ i = n + 3
      BY <2>1, <2>2, <2>5
    <3>2. n + 1 \in 1..((n + 2) - 1)
      BY <2>1
    <3>3. IsInterruption(l[n + 1]) /\ l[n + 1].data = pause /\ ~IsResumed(l[n + 3])
      BY <2>2, <2>5, EventKinds
    <3>4. l[n + 2].from = pause /\ l[n + 2].ref = pause.ref /\ l[n + 2].nonce = pause.nonce
      BY <2>5, EventKinds
    <3> HIDE DEF n
    <3>5. QED
      BY <2>2, <3>1, <3>2, <3>3, <3>4 DEF Bound
  <2>6. QED
    BY <1>4, <2>3, <2>4, <2>5 DEF PauseEnds
<1>5. QED
  BY <1>1, <1>2, <1>3, <1>4, LogShapes

LEMMA LogInvBound == LogInv => ResumeIsBound
BY LogsOfRuns, ResumesAreBound DEF Bound, ResumeIsBound

(* Every event but an interruption and a resume is in its type. *)
Typed(l) ==
  \A i \in 1..Len(l) :
    l[i].type \notin {"approval-interruption", "resumed-run"} => l[i] \in Event

LEMMA VerdictsAreEvents ==
  ASSUME TypeInv, NEW t \in Tools
  PROVE  PolicyDecisionEvent(policy, t) \in Event /\ DeniedActionEvent(t) \in Event
<1>1. policy[t] \in Decisions
  BY DEF TypeInv
<1>2. QED
  BY <1>1 DEF Event, PolicyDecisionEvent, DeniedActionEvent

LEMMA EventsAreTyped ==
  ASSUME TypeInv, NEW l, AnyLog(l)
  PROVE  Typed(l)
<1>1. \A c \in Counts : SummaryEvent(c) \in Event
  BY DEF SummaryEvent, Event
<1>2. CASE l = <<>>
  BY <1>2 DEF Typed
<1>3. CASE l = <<SummaryEvent(NoCounts)>>
  <2>1. Len(l) = 1 /\ l[1] = SummaryEvent(NoCounts)
    BY <1>3
  <2>2. NoCounts \in Counts
    BY DEF NoCounts, Counts
  <2>3. QED
    BY <1>1, <2>1, <2>2 DEF Typed
<1>4. ASSUME NEW tools \in Seq(Tools), UninterruptedShape(l, policy, tools) PROVE Typed(l)
  <2> DEFINE v == Verdicts(policy, tools)
             n == Len(v)
  <2>1. v \in Seq(VerdictEvents(policy, tools))
    BY VerdictsHold DEF VerdictsOf
  <2>2. /\ n \in Nat /\ Len(l) = n + 1 /\ \A i \in 1..n : l[i] = v[i]
        /\ l[n + 1] = SummaryEvent(CountedOnce(policy, tools, 0))
    BY <1>4 DEF UninterruptedShape
  <2>3. \A i \in DOMAIN tools : tools[i] \in Tools
    OBVIOUS
  <2>4. VerdictEvents(policy, tools) \subseteq Event
    BY <2>3, VerdictsAreEvents DEF VerdictEvents
  <2>5. CountedOnce(policy, tools, 0) \in Counts
    BY CountedFromNone
  <2>6. \A i \in 1..n : v[i] \in Event
    BY <2>1, <2>4
  <2> HIDE DEF v, n
  <2>7. \A i \in 1..Len(l) : i \in 1..n \/ i = n + 1
    BY <2>2
  <2>8. QED
    BY <1>1, <2>2, <2>5, <2>6, <2>7 DEF Typed
<1>5. ASSUME NEW pause \in Pause, PauseShape(l, policy, pause), PauseEnds(l, pause) PROVE Typed(l)
  <2> DEFINE n == Len(pause.tools)
  <2>1. pause.tools \in Seq(Tools) /\ n \in Nat
    BY DEF Pause
  <2>2. \A i \in 1..n : l[i] \in Event
    <3>1. \A i \in 1..n : pause.tools[i] \in Tools
      BY <2>1
    <3>2. QED
      BY <1>5, <3>1, VerdictsAreEvents DEF PauseShape
  <2>3. l[n + 1].type = "approval-interruption"
    BY <1>5 DEF PauseShape, InterruptionEvent
  <2>4. CountedOnce(policy, pause.tools, 0) \in Counts /\ CountedOnce(policy, pause.tools, 1) \in Counts
    BY <2>1, CountedFromNone
  <2>5. CASE Len(l) = n + 1
    <3>1. \A i \in 1..Len(l) : i \in 1..n \/ i = n + 1
      BY <2>1, <2>5
    <3>2. QED
      BY <2>2, <2>3, <3>1 DEF Typed
  <2>6. CASE Len(l) = n + 2 /\ l[n + 2] = SummaryEvent(CountedOnce(policy, pause.tools, 0))
    <3>1. \A i \in 1..Len(l) : i \in 1..n \/ i = n + 1 \/ i = n + 2
      BY <2>1, <2>6
    <3>2. QED
      BY <1>1, <2>2, <2>3, <2>4, <2>6, <3>1 DEF Typed
  <2>7. CASE /\ Len(l) = n + 3
             /\ \E d \in Modes : l[n + 2] = ResumedEvent(pause, d)
             /\ l[n + 3] = SummaryEvent(CountedOnce(policy, pause.tools, 1))
    <3>1. \A i \in 1..Len(l) : i \in 1..n \/ i = n + 1 \/ i = n + 2 \/ i = n + 3
      BY <2>1, <2>7
    <3>2. l[n + 2].type = "resumed-run"
      BY <2>7 DEF ResumedEvent
    <3>3. QED
      BY <1>1, <2>2, <2>3, <2>4, <2>7, <3>1, <3>2 DEF Typed
  <2>8. QED
    BY <1>5, <2>5, <2>6, <2>7 DEF PauseEnds
<1>6. QED
  BY <1>2, <1>3, <1>4, <1>5, LogShapes

LEMMA LogInvType == LogInv => TypeOK
<1>1. LogInv => \A r \in Runs : Typed(log[r])
  BY LogsOfRuns, EventsAreTyped DEF LogInv
<1>2. QED
  BY <1>1 DEF LogInv, TypeInv, TypeOK, Typed

-----------------------------------------------------------------------------
(* A log that was interrupted shows it before its last event. *)
LEMMA InterruptedShows ==
  ASSUME NEW l, NEW pause \in Pause, PauseShape(l, policy, pause), PauseEnds(l, pause),
         Len(l) # Len(pause.tools) + 1
  PROVE  /\ \E n \in DOMAIN l : IsInterruption(l[n])
         /\ CountBefore(l, Len(l), IsInterruption) # 0
         /\ l # <<>> /\ IsSummary(l[Len(l)])
<1> DEFINE n == Len(pause.tools)
           R == {i \in 1..(Len(l) - 1) : IsInterruption(l[i])}
<1>1. n \in Nat /\ Len(l) \in {n + 2, n + 3}
  BY DEF Pause, PauseEnds
<1>2. IsInterruption(l[n + 1])
  BY EventKinds DEF PauseShape
<1>3. n + 1 \in DOMAIN l /\ n + 1 \in 1..(Len(l) - 1) /\ Len(l) - 1 \in Nat
  <2>1. DOMAIN l = 1..Len(l)
    BY DEF PauseShape
  <2>2. ASSUME NEW k \in Nat, NEW m \in {k + 2, k + 3}
        PROVE  k + 1 \in 1..m /\ k + 1 \in 1..(m - 1) /\ m - 1 \in Nat
    OBVIOUS
  <2> HIDE DEF n
  <2>3. QED
    BY <1>1, <2>1, <2>2
<1>4. R # {} /\ R \subseteq 1..(Len(l) - 1)
  BY <1>2, <1>3
<1>5. IsFiniteSet(1..(Len(l) - 1))
  BY <1>3, CardinalityOfFirst
<1>6. IsFiniteSet(R)
  BY <1>4, <1>5, FS_Subset
<1> HIDE DEF R
<1>7. Cardinality(R) # 0
  BY <1>4, <1>6, FS_EmptySet
<1>8. CountBefore(l, Len(l), IsInterruption) # 0
  BY <1>7 DEF CountBefore, R
<1>9. IsSummary(l[Len(l)])
  BY <1>1, EventKinds DEF PauseEnds
<1>10. l # <<>>
  <2>1. DOMAIN <<>> = {}
    OBVIOUS
  <2>2. QED
    BY <1>3, <2>1
<1>11. \E k \in DOMAIN l : IsInterruption(l[k])
  BY <1>2, <1>3, Zenon
<1>12. QED
  BY <1>8, <1>9, <1>10, <1>11

(* How a run that returned left its log and its result. *)
JudgedShape(l, tools, d) ==
  /\ tools \in Seq(Tools)
  /\ UninterruptedShape(l, policy, tools)
  /\ d = {t \in Range(tools) : policy[t] = "deny"}

InterruptedShape(l, d) ==
  /\ Len(l) \in Nat \ {0} /\ DOMAIN l = 1..Len(l)
  /\ d = {}
  /\ \E n \in DOMAIN l : IsInterruption(l[n])
  /\ CountBefore(l, Len(l), IsInterruption) # 0
  /\ l # <<>> /\ IsSummary(l[Len(l)])

LEMMA ReturnedShapes ==
  ASSUME LogInv, NEW r \in Runs, pc[r] = "returned"
  PROVE  JudgedShape(log[r], executed[r], denied[r]) \/ InterruptedShape(log[r], denied[r])
<1>1. Returned(r)
  BY DEF LogInv, Formed
<1>2. CASE /\ executed[r] \in Turns(Tools \ ApprovalTools)
           /\ log[r] = UninterruptedLog(policy, executed[r])
           /\ denied[r] = {t \in Range(executed[r]) : policy[t] = "deny"}
  <2>1. executed[r] \in Seq(Tools)
    BY <1>2, TurnsOfTools
  <2>2. UninterruptedShape(log[r], policy, executed[r])
    BY <1>2, <2>1, UninterruptedLogShape
  <2>3. QED
    BY <1>2, <2>1, <2>2 DEF JudgedShape
<1>3. ASSUME denied[r] = {}, NEW pause \in PausesBy(nonces),
             \/ log[r] = LeftLog(policy, pause)
             \/ log[r] = ResumedLog(policy, pause, mode[r])
      PROVE  InterruptedShape(log[r], denied[r])
  <2> DEFINE l == log[r]
             n == Len(pause.tools)
  <2>1. pause \in Pause /\ pause.tools \in Seq(Tools) /\ mode[r] \in Modes
    BY RealPauses DEF LogInv, TypeInv
  <2>2. n \in Nat
    BY <2>1
  <2>3. PauseShape(l, policy, pause) /\ PauseEnds(l, pause) /\ Len(l) # n + 1
    <3>1. CASE l = LeftLog(policy, pause)
      <4>1. /\ PauseShape(l, policy, pause) /\ Len(l) = n + 2
            /\ l[n + 2] = SummaryEvent(CountedOnce(policy, pause.tools, 0))
        BY <2>1, <3>1, LeftLogShape
      <4>2. QED
        BY <2>2, <4>1 DEF PauseEnds
    <3>2. CASE l = ResumedLog(policy, pause, mode[r])
      <4>1. /\ PauseShape(l, policy, pause) /\ Len(l) = n + 3
            /\ l[n + 2] = ResumedEvent(pause, mode[r])
            /\ l[n + 3] = SummaryEvent(CountedOnce(policy, pause.tools, 1))
        BY <2>1, <3>2, ResumedLogShape
      <4>2. QED
        BY <2>1, <2>2, <4>1 DEF PauseEnds
    <3>3. QED
      BY <1>3, <3>1, <3>2
  <2> HIDE DEF l
  <2>4. /\ \E k \in DOMAIN l : IsInterruption(l[k])
        /\ CountBefore(l, Len(l), IsInterruption) # 0
        /\ l # <<>> /\ IsSummary(l[Len(l)])
    BY <2>1, <2>3, InterruptedShows
  <2>5. Len(l) \in Nat \ {0} /\ DOMAIN l = 1..Len(l)
    <3>1. n + 1 <= Len(l) /\ Len(l) \in Nat /\ DOMAIN l = 1..Len(l)
      BY <2>3 DEF PauseShape
    <3> HIDE DEF n
    <3>2. QED
      BY <2>2, <3>1
  <2>6. QED
    BY <1>3, <2>4, <2>5, Zenon DEF InterruptedShape, l
<1>4. QED
  BY <1>1, <1>2, <1>3 DEF Returned

(* The verdicts of a log that was never interrupted, against the calls.    *)
LEMMA JudgedLog ==
  ASSUME NEW l, NEW tools, NEW d, JudgedShape(l, tools, d)
  PROVE  /\ Len(tools) = CountBefore(l, Len(l) + 1, IsDecision)
         /\ \A n \in DOMAIN l : IsDecision(l[n]) =>
              tools[CountBefore(l, n, IsDecision) + 1] = l[n].tool
         /\ d = {l[n].tool : n \in {k \in DOMAIN l : IsDeniedAction(l[k])}}
         /\ \A n \in DOMAIN l : IsDeny(l[n]) => d # {}
         /\ d # {} => \E n \in DOMAIN l : IsDeny(l[n])
         /\ l # <<>> /\ IsSummary(l[Len(l)])
<1> DEFINE v == Verdicts(policy, tools)
           n == Len(v)
<1>1. tools \in Seq(Tools) /\ d = {t \in Range(tools) : policy[t] = "deny"}
  BY DEF JudgedShape
<1>2. VerdictsOf(v, policy, tools)
  BY <1>1, VerdictsHold
<1>3. v \in Seq(VerdictEvents(policy, tools))
  BY <1>2 DEF VerdictsOf
<1>4. /\ n \in Nat /\ DOMAIN l = 1..(n + 1) /\ Len(l) = n + 1
      /\ \A i \in 1..n : l[i] = v[i]
      /\ l[n + 1] = SummaryEvent(CountedOnce(policy, tools, 0))
  BY DEF JudgedShape, UninterruptedShape
<1>5. DOMAIN v = 1..n /\ \A i \in 1..n : v[i] \in VerdictEvents(policy, tools)
  BY <1>3
<1>6. Len(tools) \in Nat /\ DOMAIN tools = 1..Len(tools)
  BY <1>1
<1>7. FirstCounts(v, n) = CountedOnce(policy, tools, 0)
  BY <1>1, VerdictsAreCounted
<1> HIDE DEF v, n
<1>8. IsSummary(l[n + 1]) /\ ~IsDecision(l[n + 1]) /\ ~IsDeniedAction(l[n + 1]) /\ ~IsDeny(l[n + 1])
  BY <1>4, EventKinds DEF IsDeny
<1>9. \A i \in DOMAIN l : i \in 1..n \/ i = n + 1
  BY <1>4
<1>10. Len(tools) = CountBefore(l, Len(l) + 1, IsDecision)
  <2>1. CountBefore(v, n + 1, IsDecision) = Len(tools)
    BY <1>7 DEF FirstCounts, CountedOnce
  <2>2. (n + 1) - 1 = n /\ (Len(l) + 1) - 1 = n + 1
    BY <1>4
  <2>3. {i \in 1..(n + 1) : IsDecision(l[i])} = {i \in 1..n : IsDecision(v[i])}
    <3>1. \A i : i \in 1..(n + 1) <=> i \in 1..n \/ i = n + 1
      BY <1>4
    <3>2. QED
      BY <1>4, <1>8, <3>1
  <2>4. QED
    BY <2>1, <2>2, <2>3 DEF CountBefore
<1>11. ASSUME NEW i \in DOMAIN l, IsDecision(l[i])
       PROVE  tools[CountBefore(l, i, IsDecision) + 1] = l[i].tool
  <2>1. i \in 1..n /\ l[i] = v[i]
    BY <1>4, <1>8, <1>9, <1>11
  <2>2. PICK k \in 1..Len(tools) : /\ v[i] = PolicyDecisionEvent(policy, tools[k])
                                   /\ CountBefore(v, i, IsDecision) = k - 1
    BY <1>2, <1>5, <1>11, <2>1 DEF VerdictsOf
  <2>3. \A j \in 1..(i - 1) : j \in 1..n
    BY <1>4, <2>1
  <2>4. {j \in 1..(i - 1) : IsDecision(l[j])} = {j \in 1..(i - 1) : IsDecision(v[j])}
    BY <1>4, <2>3
  <2>5. CountBefore(l, i, IsDecision) = k - 1
    BY <2>2, <2>4 DEF CountBefore
  <2>6. (k - 1) + 1 = k
    BY <1>6
  <2>7. l[i].tool = tools[k]
    BY <2>1, <2>2 DEF PolicyDecisionEvent
  <2>8. QED
    BY <2>5, <2>6, <2>7
<1>12. ASSUME NEW i \in 1..n, IsDeniedAction(v[i])
       PROVE  v[i].tool \in d
  <2>1. PICK k \in DOMAIN tools : policy[tools[k]] = "deny" /\ v[i] = DeniedActionEvent(tools[k])
    <3>1. v[i] \in VerdictEvents(policy, tools)
      BY <1>5
    <3>2. QED
      BY <1>12, <3>1, EventKinds DEF VerdictEvents
  <2>2. QED
    BY <1>1, <2>1 DEF DeniedActionEvent, Range
<1>13. ASSUME NEW t \in d
       PROVE  /\ \E i \in 1..n : IsDeniedAction(v[i]) /\ v[i].tool = t
              /\ \E i \in 1..n : IsDeny(v[i])
  <2>1. PICK k \in DOMAIN tools : tools[k] = t /\ policy[t] = "deny"
    BY <1>1 DEF Range
  <2>2. DeniedActionEvent(t) \in Range(v)
    BY <1>2, <1>6, <2>1 DEF VerdictsOf
  <2>3. PICK i \in 1..n : v[i] = DeniedActionEvent(t)
    BY <1>5, <2>2 DEF Range
  <2>4. PICK m \in DOMAIN v : v[m] = PolicyDecisionEvent(policy, tools[k])
    BY <1>2, <1>6, <2>1 DEF VerdictsOf
  <2>5. IsDeniedAction(v[i]) /\ v[i].tool = t
    BY <2>3 DEF IsDeniedAction, DeniedActionEvent
  <2>6. IsDeny(v[m])
    BY <2>1, <2>4 DEF IsDeny, IsDecision, PolicyDecisionEvent
  <2>7. QED
    BY <1>5, <2>5, <2>6
<1>14. \A i \in 1..n : i \in DOMAIN l
  BY <1>4
<1>15. d = {l[i].tool : i \in {k \in DOMAIN l : IsDeniedAction(l[k])}}
  BY <1>4, <1>8, <1>9, <1>12, <1>13, <1>14
<1>16. ASSUME NEW i \in DOMAIN l, IsDeny(l[i]) PROVE d # {}
  <2>1. i \in 1..n /\ l[i] = v[i] /\ IsDecision(v[i])
    BY <1>4, <1>8, <1>9, <1>16 DEF IsDeny
  <2>2. PICK k \in 1..Len(tools) : v[i] = PolicyDecisionEvent(policy, tools[k])
    BY <1>2, <1>5, <2>1 DEF VerdictsOf
  <2>3. policy[tools[k]] = "deny"
    BY <1>16, <2>1, <2>2 DEF IsDeny, PolicyDecisionEvent
  <2>4. QED
    BY <1>1, <1>6, <2>3 DEF Range
<1>17. d # {} => \E i \in DOMAIN l : IsDeny(l[i])
  BY <1>4, <1>13, <1>14
<1>18. l # <<>> /\ IsSummary(l[Len(l)])
  <2>1. n + 1 \in DOMAIN l /\ DOMAIN <<>> = {}
    BY <1>4
  <2>2. QED
    BY <1>4, <1>8, <2>1
<1>19. QED
  BY <1>10, <1>11, <1>15, <1>16, <1>17, <1>18

LEMMA LogInvJudged == LogInv => UninterruptedRunIsJudged
<1> SUFFICES ASSUME LogInv, NEW r \in Runs, pc[r] = "returned",
                    CountBefore(log[r], Len(log[r]), IsInterruption) = 0
             PROVE  /\ Len(executed[r]) = CountBefore(log[r], Len(log[r]) + 1, IsDecision)
                    /\ \A n \in DOMAIN log[r] : IsDecision(log[r][n]) =>
                         executed[r][CountBefore(log[r], n, IsDecision) + 1] = log[r][n].tool
                    /\ denied[r] = {log[r][n].tool :
                                      n \in {k \in DOMAIN log[r] : IsDeniedAction(log[r][k])}}
                    /\ denied[r] = {t \in Range(executed[r]) : policy[t] = "deny"}
  BY DEF UninterruptedRunIsJudged
<1>1. JudgedShape(log[r], executed[r], denied[r])
  BY ReturnedShapes DEF InterruptedShape
<1>2. QED
  BY <1>1, JudgedLog DEF JudgedShape

-----------------------------------------------------------------------------
(***************************************************************************)
(* The theorems on runHarness().                                           *)
(***************************************************************************)
LEMMA LogsKeepForm == Spec => []LogInv
<1>1. Init => LogInv
  BY LogInit
<1>2. LogInv /\ [Next]_vars => LogInv'
  BY LogStep
<1> QED
  BY <1>1, <1>2, PTL DEF Spec

(* The local variables of any number of runs keep their types across both  *)
(* awaits of runHarness().                                                 *)
THEOREM RunTypes == Spec => []TypeOK
  BY LogsKeepForm, LogInvType, PTL

(* Whatever the policy and the calls are, the counters in a process summary *)
(* are those of the events before it: what emitPolicyDecision() counts is   *)
(* what the log holds, on each path that reaches emitProcessSummary().      *)
THEOREM SummariesAreTrue == Spec => []SummaryCountsTheLog
  BY LogsKeepForm, LogInvTells, PTL

(* What runHarness() returns is the whole log of one of the three ways it   *)
(* can return, for any interleaving of any number of runs.                 *)
THEOREM EvidenceIsWhole == Spec => []ReturnedLogIsWhole
  BY LogsKeepForm, LogInvWhole, PTL

(* emitResumedRun() refers to the interruption that the same run emitted,   *)
(* although the run awaited the agent in between.                          *)
THEOREM ResumesAnswer == Spec => []ResumeIsBound
  BY LogsKeepForm, LogInvBound, PTL

(* A run that was not interrupted has a verdict for every call it made, in  *)
(* the order of the calls, and reports the denied ones.                    *)
THEOREM CallsAreJudged == Spec => []UninterruptedRunIsJudged
  BY LogsKeepForm, LogInvJudged, PTL

-----------------------------------------------------------------------------
(***************************************************************************)
(* The run command.                                                        *)
(***************************************************************************)
(* A command that reported did so on one run that returned, and nothing     *)
(* moves after it has exited.                                              *)
Reported(r) ==
  /\ pc[r] = "returned"
  /\ file = log[r]
  /\ exit = IF denied[r] # {} THEN POLICY_VIOLATION ELSE SUCCESS
  /\ policyFile = "valid"

(* The lines of the file are the first of the log, but for a last one that  *)
(* was cut.                                                                *)
Begins(lines, l) ==
  /\ Len(lines) \in Nat /\ DOMAIN lines = 1..Len(lines) /\ Len(lines) <= Len(l)
  /\ \A n \in DOMAIN lines :
       \/ n \in DOMAIN l /\ lines[n] = l[n]
       \/ lines[n] = HalfLine /\ n = Len(lines)

(* A command whose write failed. *)
Cut(r) ==
  /\ pc[r] = "returned"
  /\ Begins(file, log[r])
  /\ exit = UNCAUGHT
  /\ policyFile = "valid"

CliInv ==
  /\ LogInv
  /\ policyFile # "valid" => \A r \in Runs : pc[r] = "idle"
  /\ \/ exit \in {Running, CONFIG_ERROR, RESUME_ERROR, UNCAUGHT} /\ file = <<>>
     \/ exit \in {SUCCESS, POLICY_VIOLATION} /\ \E r \in Runs : Reported(r)
     \/ exit = UNCAUGHT /\ \E r \in Runs : Cut(r)

LEMMA ReturnedLogsAreSequences ==
  ASSUME LogInv, NEW r \in Runs, pc[r] = "returned"
  PROVE  Len(log[r]) \in Nat \ {0} /\ DOMAIN log[r] = 1..Len(log[r])
<1>1. CASE JudgedShape(log[r], executed[r], denied[r])
  <2> DEFINE n == Len(Verdicts(policy, executed[r]))
  <2>1. n \in Nat /\ Len(log[r]) = n + 1 /\ DOMAIN log[r] = 1..(n + 1)
    BY <1>1 DEF JudgedShape, UninterruptedShape
  <2> HIDE DEF n
  <2>2. QED
    BY <2>1
<1>2. CASE InterruptedShape(log[r], denied[r])
  BY <1>2 DEF InterruptedShape
<1>3. QED
  BY <1>1, <1>2, ReturnedShapes

(* What a failed write leaves of a log are its first lines. *)
LEMMA CutsBegin ==
  ASSUME NEW l, Len(l) \in Nat \ {0}, DOMAIN l = 1..Len(l),
         NEW lines \in Beginnings(l)
                        \cup {Append(cut, HalfLine) : cut \in Beginnings(Front(l))}
  PROVE  Begins(lines, l)
<1>1. CASE lines \in Beginnings(l)
  <2>1. PICK n \in 0..Len(l) : lines = SubSeq(l, 1, n)
    BY <1>1 DEF Beginnings
  <2>2. /\ Len(lines) = n /\ DOMAIN lines = 1..n
        /\ \A i \in 1..n : lines[i] = l[i]
    BY <2>1
  <2>3. QED
    BY <2>2 DEF Begins
<1>2. ASSUME NEW cut \in Beginnings(Front(l)), lines = Append(cut, HalfLine)
      PROVE  Begins(lines, l)
  <2>1. /\ Len(Front(l)) = Len(l) - 1 /\ DOMAIN Front(l) = 1..(Len(l) - 1)
        /\ \A i \in 1..(Len(l) - 1) : Front(l)[i] = l[i]
    BY DEF Front
  <2>2. PICK n \in 0..(Len(l) - 1) : cut = SubSeq(Front(l), 1, n)
    BY <1>2, <2>1 DEF Beginnings
  <2>3. /\ Len(cut) = n /\ DOMAIN cut = 1..n
        /\ \A i \in 1..n : cut[i] = l[i]
    BY <2>1, <2>2
  <2>4. /\ Len(lines) = n + 1 /\ DOMAIN lines = 1..(n + 1)
        /\ \A i \in 1..n : lines[i] = l[i]
        /\ lines[n + 1] = HalfLine
    BY <1>2, <2>3
  <2>5. QED
    BY <2>4 DEF Begins
<1>3. QED
  BY <1>1, <1>2

LEMMA CliBegins == CliInit => CliInv
  BY LogInit DEF CliInit, CliInv, Init

LEMMA CliKeeps ==
  ASSUME CliInv, [CliNext]_<<vars, cliVars>>
  PROVE  CliInv'
<1>1. exit = Running => file = <<>>
  BY DEF CliInv, Running, SUCCESS, POLICY_VIOLATION, UNCAUGHT
<1>2. ASSUME UNCHANGED vars PROVE LogInv'
  BY <1>2, LogStutter DEF CliInv
<1>3. CASE PolicyMissing
  BY <1>1, <1>2, <1>3 DEF PolicyMissing, Exit, CliInv, vars, locals
<1>4. CASE PolicyInvalid
  BY <1>1, <1>2, <1>4 DEF PolicyInvalid, Exit, CliInv, vars, locals
<1>5. CASE Run
  <2>1. LogInv'
    BY <1>5, LogStep DEF Run, CliInv
  <2>2. QED
    BY <1>1, <1>5, <2>1 DEF Run, CliInv, cliVars
<1>6. CASE \E r \in Runs : RunFailed(r)
  BY <1>1, <1>2, <1>6 DEF RunFailed, Exit, CliInv, vars, locals
<1>7. ASSUME NEW r \in Runs, Report(r) PROVE CliInv'
  <2>1. /\ exit = Running /\ pc[r] = "returned" /\ file' = log[r]
        /\ exit' = IF denied[r] # {} THEN POLICY_VIOLATION ELSE SUCCESS
        /\ UNCHANGED policyFile /\ UNCHANGED vars
    BY <1>7 DEF Report, Exit
  <2>2. UNCHANGED <<pc, log, denied>>
    BY <2>1 DEF vars, locals
  <2>3. policyFile = "valid"
    BY <2>1 DEF CliInv
  <2>4. Reported(r)'
    BY <2>1, <2>2, <2>3 DEF Reported
  <2>5. QED
    BY <1>2, <2>1, <2>2, <2>3, <2>4 DEF CliInv
<1>8. ASSUME NEW r \in Runs, WriteFails(r) PROVE CliInv'
  <2>1. /\ exit = Running /\ pc[r] = "returned" /\ exit' = UNCAUGHT
        /\ file' \in Beginnings(log[r])
                     \cup {Append(cut, HalfLine) : cut \in Beginnings(Front(log[r]))}
        /\ UNCHANGED policyFile /\ UNCHANGED vars
    BY <1>8 DEF WriteFails, Exit
  <2>2. UNCHANGED <<pc, log>>
    BY <2>1 DEF vars, locals
  <2>3. policyFile = "valid"
    BY <2>1 DEF CliInv
  <2>4. Len(log[r]) \in Nat \ {0} /\ DOMAIN log[r] = 1..Len(log[r])
    BY <2>1, ReturnedLogsAreSequences DEF CliInv
  <2>5. Begins(file', log[r])
    BY <2>1, <2>4, CutsBegin
  <2>6. Cut(r)'
    BY <2>1, <2>2, <2>3, <2>5 DEF Cut, Begins
  <2>7. QED
    BY <1>2, <2>1, <2>2, <2>3, <2>6 DEF CliInv
<1>9. CASE UNCHANGED <<vars, cliVars>>
  BY <1>2, <1>9 DEF CliInv, Reported, Cut, Begins, vars, locals, cliVars
<1>10. QED
  BY <1>3, <1>4, <1>5, <1>6, <1>7, <1>8, <1>9 DEF CliNext

LEMMA ReportsAreEvident ==
  ASSUME CliInv
  PROVE  SuccessIsEvident /\ WrittenEvidenceFitsExit
<1>1. CASE exit \in {Running, CONFIG_ERROR, RESUME_ERROR, UNCAUGHT} /\ file = <<>>
  BY <1>1 DEF SuccessIsEvident, WrittenEvidenceFitsExit, Running, CONFIG_ERROR,
              RESUME_ERROR, UNCAUGHT, SUCCESS
<1>2. ASSUME NEW r \in Runs, Reported(r)
      PROVE  SuccessIsEvident /\ WrittenEvidenceFitsExit
  <2>1. /\ pc[r] = "returned" /\ file = log[r]
        /\ exit = IF denied[r] # {} THEN POLICY_VIOLATION ELSE SUCCESS
    BY <1>2 DEF Reported
  <2>2. Len(log[r]) \in Nat
    BY <2>1, ReturnedLogsAreSequences DEF CliInv
  <2>3. WrittenEvidenceFitsExit
    BY <2>1, <2>2 DEF WrittenEvidenceFitsExit, SUCCESS, POLICY_VIOLATION, UNCAUGHT
  <2>4. CASE JudgedShape(log[r], executed[r], denied[r])
    <3>1. /\ \A n \in DOMAIN file : IsDeny(file[n]) => denied[r] # {}
          /\ file # <<>> /\ IsSummary(file[Len(file)])
      BY <2>1, <2>4, JudgedLog
    <3>2. QED
      BY <2>1, <2>3, <3>1 DEF SuccessIsEvident, Last, SUCCESS, POLICY_VIOLATION
  <2>5. CASE InterruptedShape(log[r], denied[r])
    BY <2>1, <2>3, <2>5 DEF InterruptedShape, SuccessIsEvident, Last
  <2>6. QED
    BY <2>1, <2>4, <2>5, ReturnedShapes DEF CliInv
<1>3. ASSUME NEW r \in Runs, Cut(r)
      PROVE  SuccessIsEvident /\ WrittenEvidenceFitsExit
  <2>1. exit = UNCAUGHT /\ pc[r] = "returned" /\ Begins(file, log[r])
    BY <1>3 DEF Cut
  <2>2. WrittenEvidenceFitsExit
    BY <2>1 DEF WrittenEvidenceFitsExit, Begins, SUCCESS, UNCAUGHT
  <2>3. SuccessIsEvident
    BY <2>1 DEF SuccessIsEvident, SUCCESS, UNCAUGHT
  <2>4. QED
    BY <2>2, <2>3
<1>4. QED
  BY <1>1, <1>2, <1>3 DEF CliInv

LEMMA CliKeepsForm == CliSpec => []CliInv
<1>1. CliInit => CliInv
  BY CliBegins
<1>2. CliInv /\ [CliNext]_<<vars, cliVars>> => CliInv'
  BY CliKeeps
<1> QED
  BY <1>1, <1>2, PTL DEF CliSpec

(* `run` exits with 0 only over evidence that is closed by its summary and  *)
(* whose denials, if any, were at an interruption.                         *)
THEOREM CliSuccess == CliSpec => []SuccessIsEvident
  BY CliKeepsForm, ReportsAreEvident, PTL

(* What `run` leaves in the output file is the log of a run that returned,  *)
(* whole unless the write failed, and then never beside the exit code 0.    *)
THEOREM CliEvidence == CliSpec => []WrittenEvidenceFitsExit
  BY CliKeepsForm, ReportsAreEvident, PTL
=============================================================================
