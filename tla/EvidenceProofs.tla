---------------------------- MODULE EvidenceProofs ----------------------------
(***************************************************************************)
(* Theorems about the two ways to the regression gate.  For any policies   *)
(* and any length of the runs, what a comparison admits: the argument is   *)
(* that the verdict of the gate is about the files as they are, and that   *)
(* the log of a run is verdicts up to a point and none after it.  For any  *)
(* artifacts an adapter may leave, that the mapper and the verifier agree, *)
(* and what a comparison of mapped files admits.                           *)
(***************************************************************************)
EXTENDS EvidenceGate, EvidenceMapper, LogLemmas

-----------------------------------------------------------------------------
(***************************************************************************)
(* What the gate relies on in a log: its first h events are verdicts and   *)
(* denied actions, the rest are neither, and the last and only it is a     *)
(* summary, which counts the denials.  Denied actions follow denials, except in the log   *)
(* of an interrupted run, which has none.                                  *)
(***************************************************************************)
Interrupted(log) == \E n \in DOMAIN log : IsInterruption(log[n])

StepsOfVerdicts(log, h) ==
  \A n \in 1..h :
    IsDeniedAction(log[n]) <=> n > 1 /\ IsDeny(log[n - 1])

RunLog(log, h) ==
  /\ h \in Nat /\ Len(log) \in Nat /\ h + 1 <= Len(log) /\ DOMAIN log = 1..Len(log)
  /\ \A n \in 1..h : IsDecision(log[n]) \/ IsDeniedAction(log[n])
  /\ \A n \in 1..Len(log) : n > h => ~IsDecision(log[n]) /\ ~IsDeniedAction(log[n])
  /\ IsSummary(log[Len(log)])
  /\ \A n \in 1..(Len(log) - 1) : ~IsSummary(log[n])
  /\ log[Len(log)].counts.denied = CountBefore(log, h + 1, IsDeny)
  /\ Interrupted(log) => \A n \in 1..h : ~IsDeniedAction(log[n])
  /\ ~Interrupted(log) => StepsOfVerdicts(log, h)

LEMMA VerdictSteps ==
  ASSUME NEW policy, NEW T, NEW tools \in Seq(T)
  PROVE  StepsOfVerdicts(Verdicts(policy, tools), Len(Verdicts(policy, tools)))
<1> DEFINE N == Len(tools)
           E == VerdictEvents(policy, tools)
           log == Verdicts(policy, tools)
<1>1. PICK g : Grows(g, policy, tools) /\ log = g[N]
  BY VerdictsGrow
<1>2. N \in Nat /\ DOMAIN tools = 1..N
  OBVIOUS
<1>3. log \in Seq(E)
  BY <1>1, <1>2 DEF Grows
<1>4. Len(log) \in Nat
  BY <1>3
<1> HIDE DEF log, E
<1>5. \A k \in 1..N : /\ Len(g[k - 1]) \in Nat
                      /\ Opens(log, Len(g[k - 1]), policy, tools[k])
  <2> SUFFICES ASSUME NEW k \in 1..N
               PROVE  Len(g[k - 1]) \in Nat /\ Opens(log, Len(g[k - 1]), policy, tools[k])
    OBVIOUS
  <2>1. N \in k..N
    BY <1>2
  <2>2. Lengthens(g, k, policy, tools) /\ Includes(g, N, k, policy, tools)
    BY <1>1, <2>1, BlockPositions
  <2>3. QED
    BY <1>1, <2>2 DEF Lengthens, Includes
<1>6. \A n \in 1..Len(log) : \E k \in 1..N : Belongs(n, k, g, policy, tools)
  BY <1>1, EventsBelongToCalls
<1>7. ASSUME NEW n \in 1..Len(log), NEW k \in 1..N, Belongs(n, k, g, policy, tools)
      PROVE  \/ /\ log[n] = PolicyDecisionEvent(policy, tools[k])
                /\ n = Len(g[k - 1]) + 1
             \/ /\ log[n] = DeniedActionEvent(tools[k])
                /\ n - 1 = Len(g[k - 1]) + 1 /\ n > 1
                /\ log[n - 1] = PolicyDecisionEvent(policy, tools[k])
                /\ policy[tools[k]] = "deny"
  <2>1. CASE n = Len(g[k - 1]) + 1
    BY <1>5, <2>1 DEF Opens
  <2>2. CASE policy[tools[k]] = "deny" /\ n = Len(g[k - 1]) + 2
    <3>1. n - 1 = Len(g[k - 1]) + 1 /\ n > 1
      BY <1>5, <2>2
    <3>2. QED
      BY <1>5, <2>2, <3>1 DEF Opens
  <2>3. QED
    BY <1>7, <2>1, <2>2 DEF Belongs
<1>8. \A t : /\ IsDecision(PolicyDecisionEvent(policy, t))
             /\ ~IsDeniedAction(PolicyDecisionEvent(policy, t))
             /\ IsDeny(PolicyDecisionEvent(policy, t)) <=> policy[t] = "deny"
             /\ IsDeniedAction(DeniedActionEvent(t))
             /\ ~IsDeny(DeniedActionEvent(t))
  BY DEF PolicyDecisionEvent, DeniedActionEvent, IsDecision, IsDeniedAction, IsDeny
<1>9. ASSUME NEW n \in 1..Len(log), IsDeniedAction(log[n])
      PROVE  n > 1 /\ IsDeny(log[n - 1])
  <2>1. PICK k \in 1..N : Belongs(n, k, g, policy, tools)
    BY <1>6
  <2>2. QED
    BY <1>7, <1>8, <1>9, <2>1
<1>10. ASSUME NEW n \in 1..Len(log), n > 1, IsDeny(log[n - 1])
       PROVE  IsDeniedAction(log[n])
  <2>1. n - 1 \in 1..Len(log)
    BY <1>4, <1>10
  <2>2. PICK k \in 1..N : Belongs(n - 1, k, g, policy, tools)
    BY <1>6, <2>1
  <2>3. /\ log[n - 1] = PolicyDecisionEvent(policy, tools[k])
        /\ n - 1 = Len(g[k - 1]) + 1
    BY <1>7, <1>8, <1>10, <2>1, <2>2
  <2>4. policy[tools[k]] = "deny"
    BY <1>8, <1>10, <2>3
  <2>5. Len(g[k - 1]) + 2 = n
    BY <1>5, <2>3
  <2>6. log[n] = DeniedActionEvent(tools[k])
    BY <1>5, <2>4, <2>5 DEF Opens
  <2>7. QED
    BY <1>8, <2>6
<1>11. StepsOfVerdicts(log, Len(log))
  BY <1>9, <1>10 DEF StepsOfVerdicts
<1>12. QED
  BY <1>11 DEF log

LEMMA UninterruptedIsRunLog ==
  ASSUME NEW policy, NEW T, NEW tools \in Seq(T)
  PROVE  RunLog(UninterruptedLog(policy, tools), Len(Verdicts(policy, tools)))
<1> DEFINE v == Verdicts(policy, tools)
           h == Len(v)
           log == UninterruptedLog(policy, tools)
           c == CountedOnce(policy, tools, 0)
<1>1. /\ h \in Nat /\ DOMAIN log = 1..(h + 1) /\ Len(log) = h + 1
      /\ \A i \in 1..h : log[i] = v[i]
      /\ log[h + 1] = SummaryEvent(c)
  BY UninterruptedLogShape DEF UninterruptedShape
<1>2. v \in Seq(VerdictEvents(policy, tools))
  BY VerdictsHold DEF VerdictsOf
<1>3. \A i \in 1..h : v[i] \in VerdictEvents(policy, tools)
  BY <1>2
<1>4. StepsOfVerdicts(v, h)
  BY VerdictSteps
<1>5. FirstCounts(v, h) = c
  BY VerdictsAreCounted
<1> HIDE DEF v, h, log, c
<1>6. \A i \in 1..h : /\ IsDecision(log[i]) \/ IsDeniedAction(log[i])
                      /\ ~IsInterruption(log[i]) /\ ~IsSummary(log[i])
  BY <1>1, <1>3, EventFields
<1>7. /\ IsSummary(log[h + 1]) /\ ~IsDecision(log[h + 1]) /\ ~IsDeniedAction(log[h + 1])
      /\ ~IsInterruption(log[h + 1]) /\ log[h + 1].counts = c
  BY <1>1 DEF SummaryEvent, IsSummary, IsDecision, IsDeniedAction, IsInterruption
<1>8. FirstCounts(log, h) = c
  BY <1>1, <1>5, FirstCountsAgree
<1>9. c.denied = CountBefore(log, h + 1, IsDeny)
  BY <1>8 DEF FirstCounts
<1>10. ~Interrupted(log)
  BY <1>1, <1>6, <1>7 DEF Interrupted
<1>11. StepsOfVerdicts(log, h)
  <2> SUFFICES ASSUME NEW n \in 1..h
               PROVE  IsDeniedAction(log[n]) <=> n > 1 /\ IsDeny(log[n - 1])
    BY DEF StepsOfVerdicts
  <2>1. log[n] = v[n] /\ (n > 1 => n - 1 \in 1..h)
    BY <1>1
  <2>2. n > 1 => log[n - 1] = v[n - 1]
    BY <1>1, <2>1
  <2>3. QED
    BY <1>4, <2>1, <2>2 DEF StepsOfVerdicts
<1>12. /\ \A n \in 1..Len(log) : n > h => n = h + 1
       /\ \A n \in 1..(Len(log) - 1) : n \in 1..h
  BY <1>1
<1>13. RunLog(log, h)
  BY <1>1, <1>6, <1>7, <1>9, <1>10, <1>11, <1>12 DEF RunLog
<1>14. QED
  BY <1>13 DEF log, h, v

(* The head of a log that begins with an interruption. *)
LEMMA PauseHead ==
  ASSUME NEW policy, NEW T, NEW pause, pause.tools \in Seq(T),
         NEW log, PauseShape(log, policy, pause)
  PROVE  /\ Interrupted(log)
         /\ \A n \in 1..Len(pause.tools) : IsDecision(log[n]) /\ ~IsDeniedAction(log[n])
         /\ \A n \in 1..(Len(pause.tools) + 1) : ~IsSummary(log[n])
         /\ ~IsDecision(log[Len(pause.tools) + 1]) /\ ~IsDeniedAction(log[Len(pause.tools) + 1])
         /\ CountBefore(log, Len(pause.tools) + 1, IsDeny) = Decided(policy, pause.tools, "deny")
<1> DEFINE m == Len(pause.tools)
<1>1. m \in Nat /\ DOMAIN pause.tools = 1..m
  OBVIOUS
<1>2. /\ DOMAIN log = 1..Len(log) /\ Len(log) \in Nat /\ m + 1 <= Len(log)
      /\ \A i \in 1..m : log[i] = PolicyDecisionEvent(policy, pause.tools[i])
      /\ log[m + 1] = InterruptionEvent(pause)
  BY DEF PauseShape
<1>3. Interrupted(log)
  <2>1. m + 1 \in DOMAIN log
    BY <1>1, <1>2
  <2>2. IsInterruption(log[m + 1])
    BY <1>2 DEF InterruptionEvent, IsInterruption
  <2>3. QED
    BY <2>1, <2>2 DEF Interrupted
<1>4. /\ \A n \in 1..m : IsDecision(log[n]) /\ ~IsDeniedAction(log[n])
      /\ \A n \in 1..m : IsDeny(log[n]) <=> policy[pause.tools[n]] = "deny"
  <2>1. \A t : /\ IsDecision(PolicyDecisionEvent(policy, t))
               /\ ~IsDeniedAction(PolicyDecisionEvent(policy, t))
               /\ IsDeny(PolicyDecisionEvent(policy, t)) <=> policy[t] = "deny"
    BY DEF PolicyDecisionEvent, IsDecision, IsDeniedAction, IsDeny
  <2> HIDE DEF m
  <2>2. QED
    BY <1>2, <2>1, Zenon
<1>5. ~IsDecision(log[m + 1]) /\ ~IsDeniedAction(log[m + 1]) /\ ~IsSummary(log[m + 1])
  BY <1>2 DEF InterruptionEvent, IsDecision, IsDeniedAction, IsSummary
<1>6. CountBefore(log, m + 1, IsDeny) = Decided(policy, pause.tools, "deny")
  <2>1. (m + 1) - 1 = m
    BY <1>1
  <2>2. {i \in 1..m : IsDeny(log[i])} = {i \in DOMAIN pause.tools : policy[pause.tools[i]] = "deny"}
    BY <1>1, <1>4
  <2> HIDE DEF m
  <2>3. QED
    BY <2>1, <2>2 DEF CountBefore, Decided
<1>7. QED
  <2>1. \A n \in 1..m : ~IsSummary(log[n])
    BY <1>4 DEF IsDecision, IsSummary
  <2>2. \A n \in 1..(m + 1) : n \in 1..m \/ n = m + 1
    BY <1>1
  <2>3. \A n \in 1..(m + 1) : ~IsSummary(log[n])
    BY <1>5, <2>1, <2>2
  <2>4. QED
    BY <1>3, <1>4, <1>5, <1>6, <2>3

LEMMA LeftIsRunLog ==
  ASSUME NEW policy, NEW T, NEW pause, pause.tools \in Seq(T)
  PROVE  RunLog(LeftLog(policy, pause), Len(pause.tools))
<1> DEFINE m == Len(pause.tools)
           log == LeftLog(policy, pause)
<1>1. m \in Nat
  OBVIOUS
<1>2. /\ PauseShape(log, policy, pause) /\ Len(log) = m + 2
      /\ log[m + 2] = SummaryEvent(CountedOnce(policy, pause.tools, 0))
  BY LeftLogShape
<1>3. /\ Interrupted(log)
      /\ \A n \in 1..m : IsDecision(log[n]) /\ ~IsDeniedAction(log[n])
      /\ \A n \in 1..(m + 1) : ~IsSummary(log[n])
      /\ ~IsDecision(log[m + 1]) /\ ~IsDeniedAction(log[m + 1])
      /\ CountBefore(log, m + 1, IsDeny) = Decided(policy, pause.tools, "deny")
  BY <1>2, PauseHead
<1>4. /\ IsSummary(log[m + 2]) /\ ~IsDecision(log[m + 2]) /\ ~IsDeniedAction(log[m + 2])
      /\ log[m + 2].counts.denied = Decided(policy, pause.tools, "deny")
  BY <1>2 DEF SummaryEvent, IsSummary, IsDecision, IsDeniedAction, CountedOnce
<1>5. DOMAIN log = 1..Len(log)
  BY <1>2 DEF PauseShape
<1> HIDE DEF m, log
<1>6. /\ \A n \in 1..Len(log) : n > m => n = m + 1 \/ n = m + 2
      /\ \A n \in 1..(Len(log) - 1) : n \in 1..m \/ n = m + 1
  BY <1>1, <1>2
<1>7. Len(log) \in Nat /\ m + 1 <= Len(log)
  BY <1>1, <1>2
<1>8. RunLog(log, m)
  BY <1>1, <1>2, <1>3, <1>4, <1>5, <1>6, <1>7 DEF RunLog
<1>9. QED
  BY <1>8 DEF m, log

LEMMA ResumedIsRunLog ==
  ASSUME NEW policy, NEW T, NEW pause, pause.tools \in Seq(T), NEW mode
  PROVE  RunLog(ResumedLog(policy, pause, mode), Len(pause.tools))
<1> DEFINE m == Len(pause.tools)
           log == ResumedLog(policy, pause, mode)
<1>1. m \in Nat
  OBVIOUS
<1>2. /\ PauseShape(log, policy, pause) /\ Len(log) = m + 3
      /\ log[m + 2] = ResumedEvent(pause, mode)
      /\ log[m + 3] = SummaryEvent(CountedOnce(policy, pause.tools, 1))
  BY ResumedLogShape
<1>3. /\ Interrupted(log)
      /\ \A n \in 1..m : IsDecision(log[n]) /\ ~IsDeniedAction(log[n])
      /\ \A n \in 1..(m + 1) : ~IsSummary(log[n])
      /\ ~IsDecision(log[m + 1]) /\ ~IsDeniedAction(log[m + 1])
      /\ CountBefore(log, m + 1, IsDeny) = Decided(policy, pause.tools, "deny")
  BY <1>2, PauseHead
<1>4. /\ ~IsDecision(log[m + 2]) /\ ~IsDeniedAction(log[m + 2]) /\ ~IsSummary(log[m + 2])
      /\ IsSummary(log[m + 3]) /\ ~IsDecision(log[m + 3]) /\ ~IsDeniedAction(log[m + 3])
      /\ log[m + 3].counts.denied = Decided(policy, pause.tools, "deny")
  BY <1>2 DEF ResumedEvent, SummaryEvent, IsSummary, IsDecision, IsDeniedAction, CountedOnce
<1>5. DOMAIN log = 1..Len(log)
  BY <1>2 DEF PauseShape
<1> HIDE DEF m, log
<1>6. /\ \A n \in 1..Len(log) : n > m => n = m + 1 \/ n = m + 2 \/ n = m + 3
      /\ \A n \in 1..(Len(log) - 1) : n \in 1..m \/ n = m + 1 \/ n = m + 2
  BY <1>1, <1>2
<1>7. Len(log) \in Nat /\ m + 1 <= Len(log)
  BY <1>1, <1>2
<1>8. RunLog(log, m)
  BY <1>1, <1>2, <1>3, <1>4, <1>5, <1>6, <1>7 DEF RunLog
<1>9. QED
  BY <1>8 DEF m, log

(* Whatever `run` writes is such a log. *)
LEMMA LogsAreRunLogs == \A log \in Logs : \E h : RunLog(log, h)
<1>1. \A tools \in Calls(Tools) : tools \in Seq(Tools)
  BY DEF Calls
<1>2. \A pause \in Pauses : pause.tools \in Seq(ApprovalTools)
  BY DEF Pauses, Calls
<1>3. ASSUME NEW policy \in Policies, NEW tools \in Calls(Tools)
      PROVE  \E h : RunLog(UninterruptedLog(policy, tools), h)
  BY <1>1, UninterruptedIsRunLog
<1>4. ASSUME NEW policy \in Policies, NEW pause \in Pauses
      PROVE  /\ \E h : RunLog(LeftLog(policy, pause), h)
             /\ \A mode : \E h : RunLog(ResumedLog(policy, pause, mode), h)
  BY <1>2, LeftIsRunLog, ResumedIsRunLog
<1>5. QED
  BY <1>3, <1>4 DEF Logs

(***************************************************************************)
(* What is left of that in a log cut between two lines: verdicts up to a   *)
(* point and none after it, and denied actions after denials or none at    *)
(* all.  Nothing closes it.                                                *)
(***************************************************************************)
VerdictLog(log, h) ==
  /\ h \in Nat /\ Len(log) \in Nat /\ h <= Len(log) /\ DOMAIN log = 1..Len(log)
  /\ \A n \in 1..h : IsDecision(log[n]) \/ IsDeniedAction(log[n])
  /\ \A n \in 1..Len(log) : n > h => ~IsDecision(log[n]) /\ ~IsDeniedAction(log[n])
  /\ \/ \A n \in 1..h : ~IsDeniedAction(log[n])
     \/ StepsOfVerdicts(log, h) /\ ~Interrupted(log)

LEMMA RunLogIsVerdictLog ==
  ASSUME NEW log, NEW h, RunLog(log, h)
  PROVE  VerdictLog(log, h)
<1>1. /\ h \in Nat /\ Len(log) \in Nat /\ h + 1 <= Len(log) /\ DOMAIN log = 1..Len(log)
      /\ \A n \in 1..h : IsDecision(log[n]) \/ IsDeniedAction(log[n])
      /\ \A n \in 1..Len(log) : n > h => ~IsDecision(log[n]) /\ ~IsDeniedAction(log[n])
  BY DEF RunLog
<1>2. \/ \A n \in 1..h : ~IsDeniedAction(log[n])
      \/ StepsOfVerdicts(log, h) /\ ~Interrupted(log)
  BY Zenon DEF RunLog
<1>3. h <= Len(log)
  BY <1>1
<1>4. QED
  BY <1>1, <1>2, <1>3 DEF VerdictLog

NoSummary(log) == \A n \in DOMAIN log : ~IsSummary(log[n])

LEMMA CutIsVerdictLog ==
  ASSUME NEW log, NEW h, RunLog(log, h),
         NEW cut \in Beginnings(Front(log)) \ {<<>>}
  PROVE  /\ \E k : VerdictLog(cut, k)
         /\ NoSummary(cut) /\ 1 \in DOMAIN cut
<1>1. /\ h \in Nat /\ Len(log) \in Nat /\ h + 1 <= Len(log) /\ DOMAIN log = 1..Len(log)
      /\ \A n \in 1..(Len(log) - 1) : ~IsSummary(log[n])
  BY DEF RunLog
<1>2. /\ Len(Front(log)) = Len(log) - 1 /\ DOMAIN Front(log) = 1..(Len(log) - 1)
      /\ \A i \in 1..(Len(log) - 1) : Front(log)[i] = log[i]
  BY <1>1 DEF Front
<1>3. PICK n \in 0..(Len(log) - 1) : cut = SubSeq(Front(log), 1, n)
  BY <1>2 DEF Beginnings
<1>4. /\ Len(cut) = n /\ DOMAIN cut = 1..n
      /\ \A i \in 1..n : cut[i] = log[i] /\ i \in 1..(Len(log) - 1) /\ i \in 1..Len(log)
  BY <1>1, <1>2, <1>3
<1>5. n # 0
  <2>1. SUFFICES ASSUME n = 0 PROVE cut = <<>>
    OBVIOUS
  <2>2. QED
    BY <1>2, <1>3, <2>1
<1>6. NoSummary(cut) /\ 1 \in DOMAIN cut
  BY <1>1, <1>4, <1>5 DEF NoSummary
<1>7. Interrupted(cut) => Interrupted(log)
  BY <1>1, <1>4 DEF Interrupted
<1> DEFINE k == IF n < h THEN n ELSE h
<1>8. k \in Nat /\ k <= n /\ k <= h /\ (n < h => k = n) /\ (~(n < h) => k = h)
  BY <1>1
<1> HIDE DEF k
<1>9. VerdictLog(log, h)
  BY RunLogIsVerdictLog
<1>10. \A i \in 1..k : i \in 1..h /\ cut[i] = log[i]
  BY <1>1, <1>4, <1>8
<1>11. /\ \A i \in 1..k : IsDecision(cut[i]) \/ IsDeniedAction(cut[i])
       /\ \A i \in 1..n : i > k => ~IsDecision(cut[i]) /\ ~IsDeniedAction(cut[i])
  <2>1. \A i \in 1..n : i > k => i > h
    BY <1>1, <1>8
  <2>2. QED
    BY <1>4, <1>9, <1>10, <2>1 DEF VerdictLog
<1>12. ASSUME \A i \in 1..h : ~IsDeniedAction(log[i]) PROVE VerdictLog(cut, k)
  BY <1>4, <1>8, <1>10, <1>11, <1>12 DEF VerdictLog
<1>13. ASSUME StepsOfVerdicts(log, h), ~Interrupted(log) PROVE VerdictLog(cut, k)
  <2>1. \A i \in 1..k : i > 1 => i - 1 \in 1..k
    BY <1>8
  <2>2. StepsOfVerdicts(cut, k)
    BY <1>10, <1>13, <2>1 DEF StepsOfVerdicts
  <2>3. QED
    BY <1>4, <1>7, <1>8, <1>11, <1>13, <2>2 DEF VerdictLog
<1>14. \E j : VerdictLog(cut, j)
  BY <1>9, <1>12, <1>13 DEF VerdictLog
<1>15. QED
  BY <1>6, <1>14

-----------------------------------------------------------------------------
(***************************************************************************)
(* What the comparison tells of two logs.                                  *)
(***************************************************************************)
LEMMA CardinalitiesOfPositions ==
  ASSUME NEW k \in Int, NEW B, B \subseteq 1..k, NEW A, A \subseteq B
  PROVE  /\ Cardinality(A) \in Nat /\ Cardinality(B) \in Nat
         /\ Cardinality(A) <= Cardinality(B)
         /\ A # B => Cardinality(A) < Cardinality(B)
<1>1. IsFiniteSet(1..k)
  BY FS_Interval
<1>2. IsFiniteSet(B)
  BY <1>1, FS_Subset
<1>3. IsFiniteSet(A) /\ Cardinality(A) <= Cardinality(B)
      /\ (Cardinality(A) = Cardinality(B) => A = B)
  BY <1>2, FS_Subset, Zenon
<1>4. Cardinality(A) \in Nat /\ Cardinality(B) \in Nat
  BY <1>2, <1>3, FS_CardinalityType
<1>5. QED
  BY <1>3, <1>4

(* An event of the log is what an event type stands for. *)
LEMMA TypesOfLog ==
  ASSUME NEW f, NEW n \in DOMAIN f.log
  PROVE  f.log[n].type \in EventTypes(f)
BY Zenon DEF EventTypes, Range

LEMMA LastSummaryIsLast ==
  ASSUME NEW f, NEW h, RunLog(f.log, h)
  PROVE  /\ LastSummary(f) = Len(f.log) /\ LastSummary(f) # 0
         /\ DeniedCount(f) = CountBefore(f.log, h + 1, IsDeny)
         /\ DeniedCount(f) \in Nat
<1> DEFINE I == {i \in 1..Len(f.log) : IsSummary(f.log[i])}
<1>1. Len(f.log) \in Nat /\ h \in Nat /\ h + 1 <= Len(f.log) /\ IsSummary(f.log[Len(f.log)])
  BY DEF RunLog
<1>2. Len(f.log) \in I /\ \A i \in I : i \in Nat /\ i <= Len(f.log)
  BY <1>1
<1>3. LastSummary(f) = Max(I)
  <2>1. I # {}
    BY <1>2
  <2>2. QED
    BY <2>1 DEF LastSummary, SelectLastInSeq
<1> HIDE DEF I
<1>4. Max(I) = Len(f.log)
  <2>1. Len(f.log) \in I /\ \A y \in I : Len(f.log) >= y
    BY <1>1, <1>2
  <2>2. Max(I) \in I /\ \A y \in I : Max(I) >= y
    BY <2>1 DEF Max
  <2>3. Max(I) >= Len(f.log) /\ Len(f.log) >= Max(I) /\ Max(I) \in Nat
    BY <1>2, <2>1, <2>2
  <2>4. QED
    BY <1>1, <2>3
<1>5. LastSummary(f) = Len(f.log) /\ LastSummary(f) # 0
  BY <1>1, <1>3, <1>4
<1>6. DeniedCount(f) = CountBefore(f.log, h + 1, IsDeny)
  BY <1>5 DEF DeniedCount, RunLog
<1>7. CountBefore(f.log, h + 1, IsDeny) \in Nat
  <2>1. (h + 1) - 1 = h /\ h \in Int
    BY <1>1
  <2>2. {i \in 1..h : IsDeny(f.log[i])} \subseteq 1..h
    OBVIOUS
  <2>3. Cardinality({i \in 1..h : IsDeny(f.log[i])}) \in Nat
    BY <2>1, <2>2, CardinalitiesOfPositions
  <2>4. QED
    BY <2>1, <2>3 DEF CountBefore
<1>8. QED
  BY <1>5, <1>6, <1>7

(* Events at the same place and of the same type are the same event if the *)
(* gate finds no hash that differs.                                        *)
LEMMA HashesAgree ==
  ASSUME NEW base, NEW cand, ~HashMismatch(base, cand),
         NEW n, n \in DOMAIN base.log, n \in DOMAIN cand.log,
         base.log[n].type = cand.log[n].type
  PROVE  base.log[n] = cand.log[n]
<1>1. Content(base, n) = Content(cand, n)
  BY Zenon DEF HashMismatch
<1>2. Content(base, n).event = base.log[n] /\ Content(cand, n).event = cand.log[n]
  BY DEF Content
<1>3. QED
  BY <1>1, <1>2

Heads(base, g, cand, h) == \A n \in 1..g : n <= h => base.log[n] = cand.log[n]

(* A candidate the gate admits agrees with the baseline as far as both     *)
(* have verdicts, denied actions included, and the candidate shows in which *)
(* kind of run they were.                                                  *)
LEMMA AdmittedHeadsAgree ==
  ASSUME NEW base, NEW g, VerdictLog(base.log, g),
         NEW cand, NEW k, VerdictLog(cand.log, k),
         NEW h \in 0..k, Interrupted(cand.log) \/ StepsOfVerdicts(cand.log, h),
         ~HasRegressions(base, cand)
  PROVE  Heads(base, g, cand, h)
<1> DEFINE Agree(n) == \A i \in 1..n : base.log[i] = cand.log[i]
           P == {n \in Nat : n <= g /\ n <= h => Agree(n)}
<1>1. /\ g \in Nat /\ DOMAIN base.log = 1..Len(base.log) /\ g <= Len(base.log)
      /\ Len(base.log) \in Nat
      /\ h \in Nat /\ DOMAIN cand.log = 1..Len(cand.log) /\ h <= Len(cand.log)
      /\ Len(cand.log) \in Nat /\ k \in Nat /\ h <= k
  BY DEF VerdictLog
<1>2. ~HashMismatch(base, cand) /\ EventTypes(cand) \subseteq EventTypes(base)
  BY Zenon DEF HasRegressions
<1>3. Interrupted(cand.log) => Interrupted(base.log)
  <2> SUFFICES ASSUME Interrupted(cand.log) PROVE Interrupted(base.log)
    OBVIOUS
  <2>1. PICK n \in DOMAIN cand.log : IsInterruption(cand.log[n])
    BY DEF Interrupted
  <2>2. cand.log[n].type \in EventTypes(base)
    BY <1>2, TypesOfLog
  <2>3. PICK m \in DOMAIN base.log : base.log[m].type = cand.log[n].type
    BY <2>2, Zenon DEF EventTypes, Range
  <2>4. IsInterruption(base.log[m])
    BY <2>1, <2>3 DEF IsInterruption
  <2>5. QED
    BY <2>4 DEF Interrupted
<1>4. ASSUME \A n \in 1..g : ~IsDeniedAction(base.log[n])
      PROVE  \A n \in 1..h : ~IsDeniedAction(cand.log[n])
  <2> SUFFICES ASSUME NEW n \in 1..h, IsDeniedAction(cand.log[n])
               PROVE  FALSE
    OBVIOUS
  <2>1. n \in DOMAIN cand.log
    BY <1>1
  <2>2. cand.log[n].type \in EventTypes(base)
    BY <1>2, <2>1, TypesOfLog
  <2>3. PICK i \in DOMAIN base.log : base.log[i].type = cand.log[n].type
    BY <2>2, Zenon DEF EventTypes, Range
  <2>4. IsDeniedAction(base.log[i])
    BY <2>3 DEF IsDeniedAction
  <2>5. i \in 1..Len(base.log)
    BY <1>1
  <2>6. i \in 1..g
    BY <1>1, <2>4, <2>5 DEF VerdictLog
  <2>7. QED
    BY <1>4, <2>4, <2>6
<1>5. 0 \in P
  OBVIOUS
<1>6. ASSUME NEW n \in Nat, n \in P PROVE n + 1 \in P
  <2> SUFFICES ASSUME n + 1 <= g, n + 1 <= h PROVE Agree(n + 1)
    OBVIOUS
  <2>1. Agree(n)
    BY <1>1, <1>6
  <2>2. /\ n + 1 \in 1..g /\ n + 1 \in 1..h /\ n + 1 \in 1..k
        /\ n + 1 \in DOMAIN base.log /\ n + 1 \in DOMAIN cand.log
    BY <1>1
  <2>3. (n + 1) - 1 = n /\ (n + 1 > 1 => n \in 1..n) /\ n + 1 \in Nat
    OBVIOUS
  <2>4. IsDeniedAction(base.log[n + 1]) <=> IsDeniedAction(cand.log[n + 1])
    <3>1. CASE \A i \in 1..g : ~IsDeniedAction(base.log[i])
      BY <1>4, <2>2, <3>1
    <3>2. CASE StepsOfVerdicts(base.log, g) /\ ~Interrupted(base.log)
      <4>1. StepsOfVerdicts(base.log, g) /\ StepsOfVerdicts(cand.log, h)
        BY <1>3, <3>2
      <4>2. /\ IsDeniedAction(base.log[n + 1]) <=> n + 1 > 1 /\ IsDeny(base.log[n])
            /\ IsDeniedAction(cand.log[n + 1]) <=> n + 1 > 1 /\ IsDeny(cand.log[n])
        BY <2>2, <2>3, <4>1 DEF StepsOfVerdicts
      <4>3. n + 1 > 1 => base.log[n] = cand.log[n]
        BY <2>1, <2>3
      <4>4. QED
        BY <4>2, <4>3
    <3>3. QED
      BY <3>1, <3>2 DEF VerdictLog
  <2>5. /\ IsDecision(base.log[n + 1]) \/ IsDeniedAction(base.log[n + 1])
        /\ IsDecision(cand.log[n + 1]) \/ IsDeniedAction(cand.log[n + 1])
    BY <2>2, Zenon DEF VerdictLog
  <2>6. base.log[n + 1].type = cand.log[n + 1].type
    BY <2>4, <2>5 DEF IsDecision, IsDeniedAction
  <2>7. base.log[n + 1] = cand.log[n + 1]
    BY <1>2, <2>2, <2>6, HashesAgree
  <2>8. \A i \in 1..(n + 1) : i \in 1..n \/ i = n + 1
    OBVIOUS
  <2>9. QED
    BY <2>1, <2>7, <2>8
<1>7. Nat \subseteq P
  <2> HIDE DEF P
  <2>1. QED
    BY <1>5, <1>6, NatInduct
<1>8. ASSUME NEW n \in 1..g, n <= h PROVE base.log[n] = cand.log[n]
  <2>1. n \in Nat /\ n \in 1..n /\ n <= g
    BY <1>1
  <2>2. n \in P
    BY <1>7, <2>1
  <2>3. Agree(n)
    BY <1>8, <2>1, <2>2
  <2>4. QED
    BY <2>1, <2>3
<1>9. QED
  BY <1>8 DEF Heads

SameEvent(base, m, cand, n) == base.log[m] = cand.log[n]

(* Decisions of one rank are the same. *)
LEMMA AdmittedDecisionsAgree ==
  ASSUME NEW base, NEW g, VerdictLog(base.log, g),
         NEW cand, NEW h, VerdictLog(cand.log, h),
         NEW m \in DOMAIN base.log, NEW n \in DOMAIN cand.log,
         Heads(base, g, cand, n),
         IsDecision(base.log[m]), IsDecision(cand.log[n]),
         Rank(base.log, m) = Rank(cand.log, n)
  PROVE  SameEvent(base, m, cand, n)
<1>1. /\ g \in Nat /\ DOMAIN base.log = 1..Len(base.log) /\ Len(base.log) \in Nat
      /\ h \in Nat /\ DOMAIN cand.log = 1..Len(cand.log) /\ Len(cand.log) \in Nat
  BY DEF VerdictLog
<1>2. m \in 1..g /\ n \in 1..h
  BY <1>1 DEF VerdictLog
<1> DEFINE A == {i \in 1..(m - 1) : IsDecision(base.log[i])}
           B == {i \in 1..(n - 1) : IsDecision(cand.log[i])}
<1>3. Cardinality(A) = Cardinality(B)
  BY Zenon DEF Rank, CountBefore
<1>4. A \subseteq 1..(m - 1) /\ B \subseteq 1..(n - 1) /\ m - 1 \in Int /\ n - 1 \in Int
  BY <1>1, <1>2
<1>5. \A i \in 1..m : i <= n => base.log[i] = cand.log[i]
  BY <1>1, <1>2 DEF Heads
<1>6. \A i \in 1..n : i <= g => base.log[i] = cand.log[i]
  BY <1>1, <1>2 DEF Heads
<1>7. CASE m < n
  <2>1. A \subseteq B
    <3> SUFFICES ASSUME NEW i \in 1..(m - 1), IsDecision(base.log[i]) PROVE i \in B
      OBVIOUS
    <3>1. i \in 1..(n - 1) /\ i \in 1..m /\ i <= n
      BY <1>1, <1>2, <1>7
    <3>2. QED
      BY <1>5, <3>1
  <2>2. m \in B /\ m \notin A
    <3>1. m \in 1..(n - 1) /\ m \in 1..m /\ m <= n /\ m \notin 1..(m - 1)
      BY <1>1, <1>2, <1>7
    <3>2. IsDecision(cand.log[m])
      BY <1>5, <3>1
    <3>3. QED
      BY <3>1, <3>2
  <2> HIDE DEF A, B
  <2>3. Cardinality(A) < Cardinality(B) /\ Cardinality(A) \in Nat /\ Cardinality(B) \in Nat
    BY <1>4, <2>1, <2>2, CardinalitiesOfPositions
  <2>4. QED
    BY <1>3, <2>3
<1>8. CASE n < m
  <2>1. B \subseteq A
    <3> SUFFICES ASSUME NEW i \in 1..(n - 1), IsDecision(cand.log[i]) PROVE i \in A
      OBVIOUS
    <3>1. i \in 1..(m - 1) /\ i \in 1..n /\ i <= g
      BY <1>1, <1>2, <1>8
    <3>2. QED
      BY <1>6, <3>1
  <2>2. n \in A /\ n \notin B
    <3>1. n \in 1..(m - 1) /\ n \in 1..n /\ n <= g /\ n \notin 1..(n - 1)
      BY <1>1, <1>2, <1>8
    <3>2. IsDecision(base.log[n])
      BY <1>6, <3>1
    <3>3. QED
      BY <3>1, <3>2
  <2> HIDE DEF A, B
  <2>3. Cardinality(B) < Cardinality(A) /\ Cardinality(A) \in Nat /\ Cardinality(B) \in Nat
    BY <1>4, <2>1, <2>2, CardinalitiesOfPositions
  <2>4. QED
    BY <1>3, <2>3
<1>9. CASE m = n
  <2>1. m \in 1..m /\ m <= n
    BY <1>1, <1>2, <1>9
  <2>2. QED
    BY <1>5, <1>9, <2>1 DEF SameEvent
<1>10. m \in Int /\ n \in Int
  BY <1>1, <1>2
<1>11. m < n \/ n < m \/ m = n
  BY <1>10
<1>12. QED
  BY <1>7, <1>8, <1>9, <1>11

(* What a candidate adds was not denied. *)
LEMMA AdmittedTailIsNotDenied ==
  ASSUME NEW base, NEW g, RunLog(base.log, g),
         NEW cand, NEW h, RunLog(cand.log, h),
         Heads(base, g, cand, h), ~HasRegressions(base, cand),
         NEW n \in DOMAIN cand.log, IsDeny(cand.log[n])
  PROVE  Rank(cand.log, n) < Rank(base.log, Len(base.log) + 1)
<1>1. /\ g \in Nat /\ DOMAIN base.log = 1..Len(base.log) /\ Len(base.log) \in Nat
      /\ g + 1 <= Len(base.log)
      /\ h \in Nat /\ DOMAIN cand.log = 1..Len(cand.log) /\ Len(cand.log) \in Nat
  BY DEF RunLog
<1>2. IsDecision(cand.log[n])
  BY DEF IsDeny
<1>3. n \in 1..h
  BY <1>1, <1>2 DEF RunLog
<1>4. n <= g
  <2> SUFFICES ASSUME ~(n <= g) PROVE FALSE
    OBVIOUS
  <2> DEFINE A == {i \in 1..g : IsDeny(base.log[i])}
             B == {i \in 1..h : IsDeny(cand.log[i])}
  <2>1. A \subseteq B
    <3> SUFFICES ASSUME NEW i \in 1..g, IsDeny(base.log[i]) PROVE i \in B
      OBVIOUS
    <3>1. i \in 1..h /\ i <= h
      BY <1>1, <1>3
    <3>2. base.log[i] = cand.log[i]
      BY <3>1 DEF Heads
    <3>3. QED
      BY <3>1, <3>2
  <2>2. n \in B /\ n \notin A
    BY <1>1, <1>3
  <2>3. B \subseteq 1..h /\ h \in Int
    BY <1>1
  <2>4. DeniedCount(base) = Cardinality(A)
    <3>1. (g + 1) - 1 = g
      BY <1>1
    <3>2. DeniedCount(base) = CountBefore(base.log, g + 1, IsDeny)
      BY LastSummaryIsLast
    <3>3. QED
      BY <3>1, <3>2 DEF CountBefore
  <2>5. DeniedCount(cand) = Cardinality(B)
    <3>1. (h + 1) - 1 = h
      BY <1>1
    <3>2. DeniedCount(cand) = CountBefore(cand.log, h + 1, IsDeny)
      BY LastSummaryIsLast
    <3>3. QED
      BY <3>1, <3>2 DEF CountBefore
  <2> HIDE DEF A, B
  <2>6. Cardinality(A) < Cardinality(B) /\ Cardinality(A) \in Nat /\ Cardinality(B) \in Nat
    BY <2>1, <2>2, <2>3, CardinalitiesOfPositions
  <2>7. LastSummary(base) # 0 /\ LastSummary(cand) # 0
    BY LastSummaryIsLast
  <2>8. DeniedCountIncreased(base, cand)
    BY <2>4, <2>5, <2>6, <2>7 DEF DeniedCountIncreased, Closed
  <2>9. QED
    BY <2>8 DEF HasRegressions
<1> DEFINE A == {i \in 1..(n - 1) : IsDecision(cand.log[i])}
           B == {i \in 1..Len(base.log) : IsDecision(base.log[i])}
<1>5. \A i \in 1..n : i \in 1..Len(base.log) /\ base.log[i] = cand.log[i]
  BY <1>1, <1>3, <1>4 DEF Heads
<1>6. A \subseteq B
  <2> SUFFICES ASSUME NEW i \in 1..(n - 1), IsDecision(cand.log[i]) PROVE i \in B
    OBVIOUS
  <2>1. i \in 1..n
    BY <1>1, <1>3
  <2>2. QED
    BY <1>5, <2>1
<1>7. n \in B /\ n \notin A
  <2>1. n \in 1..n /\ n \notin 1..(n - 1)
    BY <1>3
  <2>2. QED
    BY <1>2, <1>5, <2>1
<1>8. B \subseteq 1..Len(base.log) /\ Len(base.log) \in Int
  BY <1>1
<1>9. Rank(cand.log, n) = Cardinality(A)
  BY Zenon DEF Rank, CountBefore
<1>10. Rank(base.log, Len(base.log) + 1) = Cardinality(B)
  <2>1. (Len(base.log) + 1) - 1 = Len(base.log)
    BY <1>1
  <2>2. QED
    BY <2>1 DEF Rank, CountBefore
<1> HIDE DEF A, B
<1>11. Cardinality(A) < Cardinality(B)
  BY <1>6, <1>7, <1>8, CardinalitiesOfPositions
<1>12. QED
  BY <1>9, <1>10, <1>11

-----------------------------------------------------------------------------
(***************************************************************************)
(* The gate over time: its verdict is about the files as they are.         *)
(***************************************************************************)
LogFiles == Evidence \cup CutEvidence
Files == {Absent, Broken, Empty} \cup LogFiles

Comparable == {evidence, baseline} \cap {Absent, Broken} = {}

GateInv ==
  /\ evidence \in Files /\ baseline \in Files
  /\ gate = SUCCESS => Comparable /\ ~HasRegressions(baseline, evidence)
  /\ gate = REGRESSION => Comparable /\ HasRegressions(baseline, evidence)

LEMMA InitGateInv == Init => GateInv
BY DEF Init, GateInv, Files, NotRun, SUCCESS, REGRESSION

LEMMA NextGateInv == GateInv /\ [Next]_vars => GateInv'
<1> SUFFICES ASSUME GateInv, [Next]_vars PROVE GateInv'
  OBVIOUS
<1>1. NotRun # SUCCESS /\ NotRun # REGRESSION
  BY DEF NotRun, SUCCESS, REGRESSION
<1> DEFINE Kept == evidence' = evidence /\ baseline' = baseline
<1>2. (evidence' \in Files /\ baseline' \in Files /\ gate' = NotRun) => GateInv'
  BY <1>1, Zenon DEF GateInv
<1>3. (Kept /\ gate' = gate) => GateInv'
  BY Zenon DEF GateInv, Comparable
<1>4. CASE WriteEvidence
  BY <1>2, <1>4 DEF WriteEvidence, GateInv, Files, LogFiles
<1>5. CASE TearEvidence
  BY <1>2, <1>5 DEF TearEvidence, GateInv, Files, LogFiles
<1>6. CASE Compare
  <2>1. Kept
    BY <1>6 DEF Compare
  <2>2. (Comparable' <=> Comparable)
        /\ (HasRegressions(baseline, evidence)' <=> HasRegressions(baseline, evidence))
    BY <2>1, Zenon DEF Comparable
  <2>3. gate' = SUCCESS => Comparable /\ ~HasRegressions(baseline, evidence)
    BY <1>6 DEF Compare, Comparable, SUCCESS, REGRESSION, CONFIG_ERROR, UNCAUGHT
  <2>4. gate' = REGRESSION => Comparable /\ HasRegressions(baseline, evidence)
    BY <1>6 DEF Compare, Comparable, SUCCESS, REGRESSION, CONFIG_ERROR, UNCAUGHT
  <2>5. QED
    BY <2>1, <2>2, <2>3, <2>4, Zenon DEF GateInv
<1>7. CASE UpdateChecks
  BY <1>3, <1>7 DEF UpdateChecks
<1>8. CASE UpdateCopies
  BY <1>2, <1>8 DEF UpdateCopies, GateInv
<1>9. CASE UpdateDies
  BY <1>3, <1>9 DEF UpdateDies
<1>10. CASE UNCHANGED vars
  BY <1>3, <1>10 DEF vars
<1>11. QED
  BY <1>4, <1>5, <1>6, <1>7, <1>8, <1>9, <1>10, Zenon DEF Next

LEMMA GateInvHolds == Spec => []GateInv
BY InitGateInv, NextGateInv, PTL DEF Spec

(* A file of evidence holds the log of a run. *)
LEMMA EvidenceIsRunLog ==
  ASSUME NEW f \in Evidence
  PROVE  \E h : RunLog(f.log, h)
<1>1. f.log \in Logs
  BY DEF Evidence
<1>2. QED
  BY <1>1, LogsAreRunLogs

LEMMA KindsOfFiles ==
  /\ \A f \in LogFiles : f # Empty /\ f # Absent /\ f # Broken
  /\ Empty # Absent /\ Empty # Broken
  /\ DOMAIN Empty.log = {} /\ EventTypes(Empty) = {} /\ ~Closed(Empty)
<1>1. DOMAIN Empty.log = {}
  BY DEF Empty
<1>2. Range(Empty.log) = {}
  BY <1>1, Zenon DEF Range
<1>3. EventTypes(Empty) = {}
  BY <1>2, Zenon DEF EventTypes
<1>4. ~Closed(Empty)
  <2>1. {i \in 1..Len(Empty.log) : IsSummary(Empty.log[i])} = {}
    BY DEF Empty
  <2>2. LastSummary(Empty) = 0
    BY <2>1 DEF LastSummary, SelectLastInSeq
  <2>3. QED
    BY <2>2 DEF Closed
<1>5. \A f \in LogFiles : f.kind = "log"
  BY DEF LogFiles, Evidence, CutEvidence
<1>6. Empty.kind = "empty" /\ Absent.kind = "absent" /\ Broken.kind = "broken"
  BY DEF Empty, Absent, Broken
<1>7. QED
  BY <1>1, <1>3, <1>4, <1>5, <1>6

(* A file with lines is whole and closed by its summary, or was cut and has *)
(* no summary.                                                             *)
WholeFile(f) == Closed(f) /\ \E h : RunLog(f.log, h)
CutFile(f) == ~Closed(f) /\ NoSummary(f.log) /\ \E h : VerdictLog(f.log, h)

LEMMA WholeOrCut ==
  ASSUME NEW f \in LogFiles
  PROVE  (WholeFile(f) \/ CutFile(f)) /\ 1 \in DOMAIN f.log
<1>1. CASE f \in Evidence
  <2>1. PICK h : RunLog(f.log, h)
    BY <1>1, EvidenceIsRunLog
  <2>2. Closed(f)
    BY <2>1, LastSummaryIsLast DEF Closed
  <2>3. 1 \in DOMAIN f.log
    BY <2>1 DEF RunLog
  <2>4. QED
    BY <2>1, <2>2, <2>3 DEF WholeFile
<1>2. CASE f \in CutEvidence
  <2>1. f.log \in CutLogs
    BY <1>2 DEF CutEvidence
  <2>2. PICK log \in Logs : f.log \in Beginnings(Front(log)) \ {<<>>}
    BY <2>1 DEF CutLogs
  <2>3. PICK h : RunLog(log, h)
    BY LogsAreRunLogs
  <2>4. /\ \E k : VerdictLog(f.log, k)
        /\ NoSummary(f.log) /\ 1 \in DOMAIN f.log
    BY <2>2, <2>3, CutIsVerdictLog
  <2>5. {i \in 1..Len(f.log) : IsSummary(f.log[i])} = {}
    BY <2>4 DEF NoSummary, VerdictLog
  <2>6. LastSummary(f) = 0
    BY <2>5 DEF LastSummary, SelectLastInSeq
  <2>7. QED
    BY <2>4, <2>6 DEF CutFile, Closed
<1>3. QED
  BY <1>1, <1>2 DEF LogFiles

(* Nothing is a regression of itself. *)
LEMMA NoRegressionOfItself ==
  ASSUME NEW f \in LogFiles \cup {Empty}
  PROVE  ~HasRegressions(f, f)
<1>1. ~HashMismatch(f, f)
  BY Zenon DEF HashMismatch
<1>2. ~DeniedCountIncreased(f, f)
  <2>1. CASE WholeFile(f)
    <3>1. PICK h : RunLog(f.log, h)
      BY <2>1 DEF WholeFile
    <3>2. DeniedCount(f) \in Nat
      BY <3>1, LastSummaryIsLast
    <3>3. ~(DeniedCount(f) > DeniedCount(f))
      BY <3>2
    <3>4. QED
      BY <3>3, Zenon DEF DeniedCountIncreased
  <2>2. CASE ~Closed(f)
    BY <2>2 DEF DeniedCountIncreased
  <2>3. QED
    BY <2>1, <2>2, WholeOrCut, KindsOfFiles DEF CutFile
<1>3. QED
  BY <1>1, <1>2, Zenon DEF HasRegressions

(* An empty baseline has no event type that a log could share. *)
LEMMA EmptyAdmitsEmpty ==
  ASSUME NEW cand \in LogFiles \cup {Empty}, ~HasRegressions(Empty, cand)
  PROVE  cand = Empty
<1> SUFFICES ASSUME cand \in LogFiles PROVE FALSE
  OBVIOUS
<1>1. 1 \in DOMAIN cand.log
  BY WholeOrCut
<1>2. cand.log[1].type \in EventTypes(cand)
  BY <1>1, TypesOfLog
<1>3. EventTypes(cand) \subseteq EventTypes(Empty)
  BY Zenon DEF HasRegressions
<1>4. QED
  BY <1>2, <1>3, KindsOfFiles

(* The summary of a whole log is a new event type to a log without one. *)
LEMMA OnlyClosedAdmitsClosed ==
  ASSUME NEW base \in LogFiles \cup {Empty}, NEW cand \in LogFiles \cup {Empty},
         ~HasRegressions(base, cand), Closed(cand)
  PROVE  WholeFile(base) /\ WholeFile(cand)
<1>1. WholeFile(cand)
  BY WholeOrCut, KindsOfFiles DEF CutFile
<1>2. PICK h : RunLog(cand.log, h)
  BY <1>1 DEF WholeFile
<1>3. PICK n \in DOMAIN cand.log : IsSummary(cand.log[n])
  BY <1>2 DEF RunLog
<1>4. cand.log[n].type \in EventTypes(base)
  <2>1. EventTypes(cand) \subseteq EventTypes(base)
    BY Zenon DEF HasRegressions
  <2>2. QED
    BY <2>1, TypesOfLog
<1>5. PICK k \in DOMAIN base.log : base.log[k].type = cand.log[n].type
  BY <1>4, Zenon DEF EventTypes, Range
<1>6. IsSummary(base.log[k])
  BY <1>3, <1>5 DEF IsSummary
<1>7. ~CutFile(base) /\ base # Empty
  BY <1>5, <1>6, KindsOfFiles DEF CutFile, NoSummary
<1>8. QED
  BY <1>1, <1>7, WholeOrCut

LEMMA UpdatedAdmits == GateInv => UpdatedBaselineAdmits
<1> SUFFICES ASSUME GateInv, gate = REGRESSION, baseline = evidence PROVE FALSE
  BY DEF UpdatedBaselineAdmits
<1>1. Comparable /\ HasRegressions(baseline, evidence) /\ evidence \in Files
  BY Zenon DEF GateInv
<1>2. evidence \in LogFiles \cup {Empty}
  BY <1>1 DEF Comparable, Files
<1>3. HasRegressions(evidence, evidence)
  BY <1>1
<1>4. QED
  BY <1>2, <1>3, NoRegressionOfItself

LEMMA TornAdmitsNoRun == GateInv => TornBaselineAdmitsNoRun
<1> SUFFICES ASSUME GateInv, gate = SUCCESS PROVE TornBaselineAdmitsNoRun
  BY DEF TornBaselineAdmitsNoRun
<1>1. /\ Comparable /\ ~HasRegressions(baseline, evidence)
      /\ evidence \in Files /\ baseline \in Files
  BY Zenon DEF GateInv
<1>2. evidence \in LogFiles \cup {Empty} /\ baseline \in LogFiles \cup {Empty}
  BY <1>1 DEF Comparable, Files
<1>3. Broken \notin {baseline, evidence}
  BY <1>1 DEF Comparable
<1>4. baseline = Empty => evidence = Empty
  BY <1>1, <1>2, EmptyAdmitsEmpty
<1>5. ~Closed(baseline) => ~Closed(evidence)
  BY <1>1, <1>2, OnlyClosedAdmitsClosed DEF WholeFile
<1>6. QED
  BY <1>3, <1>4, <1>5 DEF TornBaselineAdmitsNoRun

(* The part of a log that shows its kind has its denied actions where they  *)
(* belong.                                                                 *)
LEMMA ShownVerdicts ==
  ASSUME NEW log, NEW h, VerdictLog(log, h), NEW n \in 1..h, ShowsItsKind(log, n)
  PROVE  Interrupted(log) \/ StepsOfVerdicts(log, n)
<1>1. h \in Nat /\ n \in Nat
  BY DEF VerdictLog
<1>2. CASE \E k \in DOMAIN log : IsInterruption(log[k])
  BY <1>2 DEF Interrupted
<1>3. CASE StepsOfVerdicts(log, h)
  <2>1. \A i \in 1..n : i \in 1..h
    BY <1>1
  <2>2. QED
    BY <1>3, <2>1 DEF StepsOfVerdicts
<1>4. CASE /\ \A i \in 1..h : ~IsDeniedAction(log[i])
           /\ \A k \in 1..(n - 1) : IsDeny(log[k]) => IsDeniedAction(log[k + 1])
  <2>1. \A i \in 1..n : i \in 1..h /\ (i > 1 => i - 1 \in 1..(n - 1) /\ (i - 1) + 1 = i)
    BY <1>1
  <2>2. \A i \in 1..n : ~IsDeniedAction(log[i]) /\ ~(i > 1 /\ IsDeny(log[i - 1]))
    BY <1>4, <2>1
  <2>3. QED
    BY <2>2 DEF StepsOfVerdicts
<1>5. QED
  BY <1>2, <1>3, <1>4 DEF ShowsItsKind, VerdictLog

DecisionsAgree(base, cand) ==
  \A m \in DOMAIN base.log, n \in DOMAIN cand.log :
    /\ IsDecision(base.log[m]) /\ IsDecision(cand.log[n])
    /\ Rank(base.log, m) = Rank(cand.log, n)
    /\ ShowsItsKind(cand.log, n)
    => base.log[m] = cand.log[n]

LEMMA AdmittedAgrees ==
  ASSUME NEW base \in LogFiles, NEW cand \in LogFiles, ~HasRegressions(base, cand)
  PROVE  DecisionsAgree(base, cand)
<1>1. PICK g : VerdictLog(base.log, g)
  BY WholeOrCut, RunLogIsVerdictLog DEF WholeFile, CutFile
<1>2. PICK k : VerdictLog(cand.log, k)
  BY WholeOrCut, RunLogIsVerdictLog DEF WholeFile, CutFile
<1>3. ASSUME NEW m \in DOMAIN base.log, NEW n \in DOMAIN cand.log,
             IsDecision(base.log[m]), IsDecision(cand.log[n]),
             Rank(base.log, m) = Rank(cand.log, n),
             ShowsItsKind(cand.log, n)
      PROVE  base.log[m] = cand.log[n]
  <2>1. n \in 1..k /\ n \in 0..k
    BY <1>2, <1>3 DEF VerdictLog
  <2>2. Interrupted(cand.log) \/ StepsOfVerdicts(cand.log, n)
    BY <1>2, <1>3, <2>1, ShownVerdicts
  <2>3. Heads(base, g, cand, n)
    BY <1>1, <1>2, <2>1, <2>2, AdmittedHeadsAgree
  <2>4. /\ VerdictLog(base.log, g) /\ VerdictLog(cand.log, k) /\ Heads(base, g, cand, n)
        /\ m \in DOMAIN base.log /\ n \in DOMAIN cand.log
        /\ IsDecision(base.log[m]) /\ IsDecision(cand.log[n])
        /\ Rank(base.log, m) = Rank(cand.log, n)
    BY <1>1, <1>2, <1>3, <2>3, Zenon
  <2>5. SameEvent(base, m, cand, n)
    BY <2>4, AdmittedDecisionsAgree
  <2>6. QED
    BY <2>5 DEF SameEvent
<1>4. QED
  BY <1>3, Zenon DEF DecisionsAgree

LEMMA AdmittedAddsNoDenial ==
  ASSUME NEW base, NEW cand, WholeFile(base), WholeFile(cand), ~HasRegressions(base, cand),
         NEW n \in DOMAIN cand.log, IsDeny(cand.log[n])
  PROVE  Rank(cand.log, n) < Rank(base.log, Len(base.log) + 1)
<1>1. PICK g : RunLog(base.log, g)
  BY DEF WholeFile
<1>2. PICK h : RunLog(cand.log, h)
  BY DEF WholeFile
<1>3. VerdictLog(base.log, g) /\ VerdictLog(cand.log, h)
  BY <1>1, <1>2, RunLogIsVerdictLog
<1>4. Interrupted(cand.log) \/ StepsOfVerdicts(cand.log, h)
  BY <1>2, Zenon DEF RunLog
<1>5. h \in 0..h
  BY <1>2 DEF RunLog
<1>6. Heads(base, g, cand, h)
  BY <1>3, <1>4, <1>5, AdmittedHeadsAgree
<1>7. QED
  BY <1>1, <1>2, <1>6, AdmittedTailIsNotDenied

LEMMA AdmittedDiffersInItsTail == GateInv => AdmittedRunDiffersInItsTail
<1> SUFFICES ASSUME GateInv, gate = SUCCESS PROVE AdmittedRunDiffersInItsTail
  BY DEF AdmittedRunDiffersInItsTail
<1>1. /\ Comparable /\ ~HasRegressions(baseline, evidence)
      /\ evidence \in Files /\ baseline \in Files
  BY Zenon DEF GateInv
<1>2. evidence \in LogFiles \cup {Empty} /\ baseline \in LogFiles \cup {Empty}
  BY <1>1 DEF Comparable, Files
<1>3. CASE evidence = Empty
  BY <1>3, KindsOfFiles DEF AdmittedRunDiffersInItsTail
<1>4. CASE evidence \in LogFiles
  <2>1. baseline \in LogFiles
    BY <1>1, <1>2, <1>4, EmptyAdmitsEmpty, KindsOfFiles
  <2>2. DecisionsAgree(baseline, evidence)
    BY <1>1, <1>4, <2>1, AdmittedAgrees
  <2>3. ASSUME Closed(evidence), NEW n \in DOMAIN evidence.log, IsDeny(evidence.log[n])
        PROVE  Rank(evidence.log, n) < Rank(baseline.log, Len(baseline.log) + 1)
    <3>1. WholeFile(baseline) /\ WholeFile(evidence)
      BY <1>1, <1>2, <2>3, OnlyClosedAdmitsClosed
    <3>2. QED
      BY <1>1, <2>3, <3>1, AdmittedAddsNoDenial
  <2>4. QED
    BY <2>2, <2>3, Zenon DEF AdmittedRunDiffersInItsTail, DecisionsAgree
<1>5. QED
  BY <1>2, <1>3, <1>4

(* For any tools, policies and length of the runs: a candidate the gate    *)
(* admits takes the decisions of the baseline in its order, and if it is a *)
(* whole log it denies nothing beyond them.  A candidate cut between two   *)
(* lines is held to the first part only as far as it shows in which kind   *)
(* of run its denials were.                                                *)
THEOREM AdmissionIsPrefix == Spec => []AdmittedRunDiffersInItsTail
BY GateInvHolds, AdmittedDiffersInItsTail, PTL

(* A baseline that was just updated from the candidate admits it. *)
THEOREM UpdateIsAdmitted == Spec => []UpdatedBaselineAdmits
BY GateInvHolds, UpdatedAdmits, PTL

(* Whatever an update copied without having checked it, no whole log passes *)
(* against a baseline that is broken, empty or cut between two lines.      *)
THEOREM TornBaselineIsStrict == Spec => []TornBaselineAdmitsNoRun
BY GateInvHolds, TornAdmitsNoRun, PTL
-----------------------------------------------------------------------------

(* No category of `verify` objects to the event. *)
CleanEvent(e) ==
  /\ e # NotJSON
  /\ e.sealed /\ e.run = "import" /\ e.hash = "sha256"
  /\ ~TypeErrors(e)

CleanFile(file) == \A n \in DOMAIN file : CleanEvent(file[n])

OutputClean == mapped # NoFile /\ ~edited => CleanFile(mapped)

MapperInv == OutputClean /\ MappedEvidenceVerifies

-----------------------------------------------------------------------------
(***************************************************************************)
(* The mapper's events.                                                    *)
(***************************************************************************)
(* What a validator returns of a part has no key outside of its contract. *)
LEMMA NormalizedHasNoExtra ==
  ASSUME NEW item, IsPart(item)
  PROVE  Normalized(item).extra = {} /\ "interruptions" \notin DOMAIN Normalized(item)
BY DEF IsPart, Normalized

LEMMA PartEventClean ==
  ASSUME NEW a, NEW item, IsPart(item),
         NEW type \in {"policy-decision", "resumed-run", "process-summary"}
  PROVE  CleanEvent(Envelope(a, type, Normalized(item)))
<1> DEFINE e == Envelope(a, type, Normalized(item))
<1>1. /\ e.type = type /\ e.sealed /\ e.run = "import" /\ e.hash = "sha256"
      /\ e.data.observed = Normalized(item)
  BY DEF Envelope
<1>2. e # NotJSON
  <2>1. NotJSON.type = "not-json"
    BY DEF NotJSON
  <2>2. QED
    BY <1>1, <2>1
<1> HIDE DEF e
<1>3. KeysWithin(e.data) = {}
  BY <1>1, NormalizedHasNoExtra, Zenon DEF KeysWithin
<1>4. e.type # "approval-interruption"
  BY <1>1
<1>5. ~TypeErrors(e)
  BY <1>3, <1>4, Zenon DEF TypeErrors
<1>6. CleanEvent(e)
  BY <1>1, <1>2, <1>5, Zenon DEF CleanEvent
<1>7. QED
  BY <1>6 DEF e

LEMMA InterruptionClean ==
  ASSUME NEW a \in Artifacts, a.schema = PAUSE_SCHEMA, AcceptsPause(a)
  PROVE  CleanEvent(Envelope(a, "approval-interruption", InterruptionData(a)))
<1> DEFINE e == Envelope(a, "approval-interruption", InterruptionData(a))
           d == InterruptionData(a)
<1>1. /\ e.type = "approval-interruption" /\ e.sealed /\ e.run = "import" /\ e.hash = "sha256"
      /\ e.data.observed = d
  BY DEF Envelope
<1>2. e # NotJSON
  <2>1. NotJSON.type = "not-json"
    BY DEF NotJSON
  <2>2. QED
    BY <1>1, <2>1
<1>3. /\ d.pause_reason = "tool_approval" /\ d.resume_state_ref = a.anchor /\ d.extra = {}
      /\ d.interruptions = [i \in DOMAIN a.interruptions |-> Normalized(a.interruptions[i])]
  BY DEF InterruptionData, AcceptsPause
<1>4. d.interruptions # <<>>
  <2>1. a.interruptions \in Seq(ToSet(a.interruptions)) /\ a.interruptions # <<>>
    BY ArtifactsAssumption DEF AreParts, AcceptsPause
  <2>2. 1 \in DOMAIN a.interruptions
    BY <2>1
  <2>3. 1 \in DOMAIN d.interruptions
    BY <1>3, <2>2
  <2>4. DOMAIN <<>> = {}
    OBVIOUS
  <2>5. QED
    BY <2>3, <2>4, Zenon
<1>5. \A item \in ToSet(d.interruptions) : item.extra = {}
  <2>1. \A i \in DOMAIN a.interruptions : IsPart(a.interruptions[i])
    BY ArtifactsAssumption DEF AreParts
  <2>2. \A i \in DOMAIN d.interruptions : d.interruptions[i].extra = {}
    BY <1>3, <2>1, NormalizedHasNoExtra
  <2>3. QED
    BY <2>2, Zenon DEF ToSet
<1> HIDE DEF e, d
<1>6. KeysWithin(e.data) = {}
  <2>1. UNION {item.extra : item \in ToSet(d.interruptions)} = {}
    BY <1>5
  <2>2. QED
    BY <1>1, <1>3, <2>1, Zenon DEF KeysWithin
<1>7. ~TypeErrors(e)
  <2>1. KeysWithin(e.data) \cap (REJECTED_KEYS \cup FORBIDDEN_PAYLOAD_KEYS) = {}
    BY <1>6, Zenon
  <2>2. IsHashRef(e.data.observed.resume_state_ref)
    BY <1>1, <1>3, Zenon DEF AcceptsPause
  <2>3. QED
    BY <1>1, <1>3, <1>4, <2>1, <2>2, Zenon DEF TypeErrors
<1>8. CleanEvent(e)
  BY <1>1, <1>2, <1>7, Zenon DEF CleanEvent
<1>9. QED
  BY <1>8 DEF e, d

LEMMA DecisionClean ==
  ASSUME NEW a
  PROVE  CleanFile(DecisionEvents(a))
<1> DEFINE o == [decision |-> a.decision, tool_name |-> a.tool_name,
                 arguments_hash |-> a.arguments_hash, extra |-> {}]
           e == Envelope(a, "policy-decision", o)
<1>1. /\ e.type = "policy-decision" /\ e.sealed /\ e.run = "import" /\ e.hash = "sha256"
      /\ e.data.observed = o
  BY DEF Envelope
<1>2. e # NotJSON
  <2>1. NotJSON.type = "not-json"
    BY DEF NotJSON
  <2>2. QED
    BY <1>1, <2>1
<1>3. o.extra = {} /\ "interruptions" \notin DOMAIN o
  OBVIOUS
<1>4. DecisionEvents(a) = <<e>>
  BY DEF DecisionEvents
<1> HIDE DEF e, o
<1>5. KeysWithin(e.data) = {}
  BY <1>1, <1>3, Zenon DEF KeysWithin
<1>6. e.type # "approval-interruption"
  BY <1>1
<1>7. CleanEvent(e)
  BY <1>1, <1>2, <1>5, <1>6, Zenon DEF CleanEvent, TypeErrors
<1>8. QED
  BY <1>4, <1>7 DEF CleanFile

(* An event of two logs put together is an event of one of them. *)
ConcatOf(s, t) ==
  \A n \in DOMAIN (s \o t) :
    (\E i \in DOMAIN s : (s \o t)[n] = s[i]) \/ \E i \in DOMAIN t : (s \o t)[n] = t[i]

LEMMA ConcatElements ==
  ASSUME NEW S, NEW s \in Seq(S), NEW T, NEW t \in Seq(T)
  PROVE  ConcatOf(s, t)
<1> SUFFICES ASSUME NEW n \in DOMAIN (s \o t)
             PROVE  \/ \E i \in DOMAIN s : (s \o t)[n] = s[i]
                    \/ \E i \in DOMAIN t : (s \o t)[n] = t[i]
  BY DEF ConcatOf
<1>1. s \in Seq(S \cup T) /\ t \in Seq(S \cup T)
  OBVIOUS
<1>2. n \in 1..(Len(s) + Len(t))
  BY <1>1
<1>3. CASE n <= Len(s)
  BY <1>1, <1>2, <1>3
<1>4. CASE n > Len(s)
  <2>1. (n - Len(s)) \in DOMAIN t /\ (s \o t)[n] = t[n - Len(s)]
    BY <1>1, <1>2, <1>4
  <2>2. QED
    BY <2>1
<1>5. QED
  BY <1>2, <1>3, <1>4

LEMMA CleanConcat ==
  ASSUME NEW S, NEW s \in Seq(S), NEW T, NEW t \in Seq(T), CleanFile(s), CleanFile(t)
  PROVE  CleanFile(s \o t)
<1>1. ConcatOf(s, t)
  BY ConcatElements
<1>2. QED
  BY <1>1, Zenon DEF ConcatOf, CleanFile

(* Whatever an artifact holds, what is built of it once it is accepted is  *)
(* clean.                                                                  *)
LEMMA BuiltIsClean ==
  ASSUME NEW a \in Artifacts, Accepts(a)
  PROVE  CleanFile(BuildEvents(a))
<1>1. CASE a.schema = DECISION_SCHEMA
  BY <1>1, DecisionClean DEF BuildEvents
<1>2. CASE a.schema = PAUSE_SCHEMA
  <2> DEFINE Events(type, items) ==
        [i \in DOMAIN items |-> Envelope(a, type, Normalized(items[i]))]
  <2>1. ASSUME NEW items, AreParts(items),
               NEW type \in {"policy-decision", "resumed-run", "process-summary"}
        PROVE  CleanFile(Events(type, items)) /\ Events(type, items) \in Seq(ToSet(Events(type, items)))
    <3>1. CleanFile(Events(type, items))
      BY <2>1, PartEventClean DEF AreParts, CleanFile
    <3>2. DOMAIN items = 1..Len(items) /\ Len(items) \in Nat
      BY <2>1 DEF AreParts
    <3>3. Events(type, items) \in Seq(ToSet(Events(type, items)))
      BY <3>2 DEF ToSet
    <3>4. QED
      BY <3>1, <3>3
  <2>2. AcceptsPause(a) /\ a.schema # DECISION_SCHEMA
    BY <1>2 DEF Accepts, PAUSE_SCHEMA, DECISION_SCHEMA
  <2>3. /\ AreParts(a.policy_decisions) /\ AreParts(a.resumed) /\ AreParts(a.process_summary)
    BY <1>2, ArtifactsAssumption
  <2> DEFINE first == <<Envelope(a, "approval-interruption", InterruptionData(a))>>
             decisions == Events("policy-decision", a.policy_decisions)
             resumes == Events("resumed-run", a.resumed)
             summaries == Events("process-summary", a.process_summary)
  <2>4. CleanFile(first) /\ first \in Seq(ToSet(first))
    <3>1. CleanFile(first)
      BY <1>2, <2>2, InterruptionClean DEF CleanFile
    <3>2. QED
      BY <3>1 DEF ToSet
  <2>5. /\ CleanFile(decisions) /\ decisions \in Seq(ToSet(decisions))
        /\ CleanFile(resumes) /\ resumes \in Seq(ToSet(resumes))
        /\ CleanFile(summaries) /\ summaries \in Seq(ToSet(summaries))
    BY <2>1, <2>3
  <2>6. BuildEvents(a) = ((first \o decisions) \o resumes) \o summaries
    BY <2>2, Zenon DEF BuildEvents, PauseEvents
  <2> HIDE DEF first, decisions, resumes, summaries
  <2> DEFINE two == first \o decisions
             three == two \o resumes
  <2>7. CleanFile(two) /\ two \in Seq(ToSet(first) \cup ToSet(decisions))
    BY <2>4, <2>5, CleanConcat
  <2> HIDE DEF two
  <2>8. CleanFile(three)
    BY <2>5, <2>7, CleanConcat
  <2>9. three \in Seq((ToSet(first) \cup ToSet(decisions)) \cup ToSet(resumes))
    BY <2>5, <2>7
  <2> HIDE DEF three
  <2>10. CleanFile(three \o summaries)
    BY <2>5, <2>8, <2>9, CleanConcat
  <2>11. QED
    BY <2>6, <2>10 DEF two, three
<1>3. QED
  BY <1>1, <1>2 DEF Accepts

-----------------------------------------------------------------------------
(***************************************************************************)
(* The verifier.                                                           *)
(***************************************************************************)
LEMMA CleanVerifies ==
  ASSUME NEW file, file # NoFile, CleanFile(file), NEW category
  PROVE  VerifyEvents(file, category) = SUCCESS
<1>1. \A e \in ToSet(file) : CleanEvent(e)
  BY Zenon DEF ToSet, CleanFile
<1>2. NotJSON \notin ToSet(file)
  BY <1>1, Zenon DEF CleanEvent
<1>3. \A e \in ToSet(file) : ~TypeErrors(e)
  BY <1>1, Zenon DEF CleanEvent
<1>4. \A e \in ToSet(file) : ~HashErrors(e)
  BY <1>1 DEF CleanEvent, HashErrors
<1>5. ~EnvelopeErrors(file)
  <2>1. \A e \in ToSet(file) : e.sealed /\ e.run = "import"
    BY <1>1, Zenon DEF CleanEvent
  <2> DEFINE runs == {e.run : e \in ToSet(file) \ {NotJSON}}
  <2>2. runs \subseteq {"import"}
    BY <2>1
  <2>3. Cardinality(runs) <= 1 /\ Cardinality(runs) \in Nat
    <3>1. IsFiniteSet({"import"}) /\ Cardinality({"import"}) = 1
      BY FS_Singleton
    <3>2. QED
      BY <2>2, <3>1, FS_Subset, FS_CardinalityType
  <2>4. ~(Cardinality(runs) > 1)
    BY <2>3
  <2>5. QED
    BY <2>1, <2>4, Zenon DEF EnvelopeErrors
<1>6. QED
  BY <1>2, <1>3, <1>4, <1>5, Zenon DEF VerifyEvents

-----------------------------------------------------------------------------
LEMMA InitMapperInv == MapperInit => MapperInv
BY DEF MapperInit, MapperInv, OutputClean, MappedEvidenceVerifies, NoOutcome

LEMMA NextMapperInv == MapperInv /\ [MapperNext]_mapper_vars => MapperInv'
<1> SUFFICES ASSUME MapperInv, [MapperNext]_mapper_vars PROVE MapperInv'
  OBVIOUS
<1>1. ASSUME NEW artifact \in Artifacts, NEW overwrite \in BOOLEAN,
             MapArtifact(artifact, overwrite)
      PROVE  MapperInv'
  <2>1. CleanFile(mapped')
    BY <1>1, BuiltIsClean DEF MapArtifact
  <2>2. OutputClean'
    BY <2>1, Zenon DEF OutputClean, CleanFile
  <2>3. outcome'.exit = SUCCESS
    BY <1>1 DEF MapArtifact, NoOutcome
  <2>4. QED
    BY <2>2, <2>3 DEF MapperInv, MappedEvidenceVerifies
<1>2. CASE EditMapped
  BY <1>2, Zenon DEF EditMapped, MapperInv, OutputClean, MappedEvidenceVerifies
<1>3. ASSUME NEW category, Verify(category) PROVE MapperInv'
  <2>1. OutputClean'
    BY <1>3, Zenon DEF Verify, MapperInv, OutputClean, CleanFile
  <2>2. mapped # NoFile /\ ~edited => VerifyEvents(mapped, category) = SUCCESS
    BY CleanVerifies, Zenon DEF MapperInv, OutputClean
  <2>3. outcome'.exit = VerifyEvents(mapped, category) /\ mapped' = mapped /\ edited' = edited
    BY <1>3 DEF Verify
  <2>4. MappedEvidenceVerifies'
    BY <2>2, <2>3, Zenon DEF MappedEvidenceVerifies
  <2>5. QED
    BY <2>1, <2>4 DEF MapperInv
<1>4. CASE KeepReference
  <2>1. OutputClean'
    BY <1>4, Zenon DEF KeepReference, MapperInv, OutputClean, CleanFile
  <2>2. outcome'.exit = SUCCESS
    BY <1>4 DEF KeepReference, NoOutcome
  <2>3. QED
    BY <2>1, <2>2 DEF MapperInv, MappedEvidenceVerifies
<1>5. CASE CompareMapped
  <2>1. OutputClean'
    BY <1>5, Zenon DEF CompareMapped, MapperInv, OutputClean, CleanFile
  <2>2. outcome'.command = "compare"
    BY <1>5, Zenon DEF CompareMapped
  <2>3. QED
    BY <2>1, <2>2 DEF MapperInv, MappedEvidenceVerifies
<1>6. CASE UNCHANGED mapper_vars
  BY <1>6, Zenon DEF mapper_vars, MapperInv, OutputClean, CleanFile, MappedEvidenceVerifies
<1>7. QED
  BY <1>1, <1>2, <1>3, <1>4, <1>5, <1>6, Zenon DEF MapperNext

(* Whatever an adapter puts into an artifact, and however deep, what the   *)
(* mapper writes of it passes the verifier in each of its categories.      *)
THEOREM MapperAndVerifierAgree == MapperSpec => []MappedEvidenceVerifies
<1>1. MapperInv => MappedEvidenceVerifies
  BY DEF MapperInv
<1>2. QED
  BY <1>1, InitMapperInv, NextMapperInv, PTL DEF MapperSpec

-----------------------------------------------------------------------------
(***************************************************************************)
(* The two families of mapped files.                                       *)
(***************************************************************************)
(* The seal, the run and the hash of an event may be edited, or the whole  *)
(* line; its type and data stay what they were.                            *)
IsEnvelope(e) ==
  \E type, sealed, run, hash, data :
    e = [type |-> type, sealed |-> sealed, run |-> run, hash |-> hash, data |-> data]

NamesTarget(e) == "target_ref" \in DOMAIN e.data.observed

DecisionLine(e) ==
  e = NotJSON \/ (IsEnvelope(e) /\ e.type = "policy-decision" /\ ~NamesTarget(e))

PauseLine(e) ==
  e = NotJSON \/ (IsEnvelope(e) /\ (IsDenial(e) => NamesTarget(e)))

DecisionFile(file) == DOMAIN file = {1} /\ DecisionLine(file[1])

PauseFile(file) ==
  /\ 1 \in DOMAIN file
  /\ file[1] = NotJSON \/ file[1].type = "approval-interruption"
  /\ \A n \in DOMAIN file : PauseLine(file[n])

OfFamily(file) == file = NoFile \/ DecisionFile(file) \/ PauseFile(file)

FamiliesKept == OfFamily(mapped) /\ OfFamily(reference)

AdmissionInv == MapperInv /\ FamiliesKept /\ AdmittedMappingAddsNoDenial

LEMMA EnvelopeIsEnvelope ==
  ASSUME NEW a, NEW type, NEW observed
  PROVE  /\ IsEnvelope(Envelope(a, type, observed))
         /\ Envelope(a, type, observed).type = type
         /\ Envelope(a, type, observed).data.observed = observed
BY DEF IsEnvelope, Envelope

(* An edit of the envelope leaves the type and the data of the event. *)
EnvelopeEdits(e, x) == {[e EXCEPT !.run = x], [e EXCEPT !.sealed = x], [e EXCEPT !.hash = x]}

SameEnvelope(e, y) == IsEnvelope(y) /\ y.type = e.type /\ y.data = e.data

LEMMA EditedEnvelope ==
  ASSUME NEW e, IsEnvelope(e), NEW x, NEW y \in EnvelopeEdits(e, x)
  PROVE  SameEnvelope(e, y)
<1>1. PICK type, sealed, run, hash, data :
        e = [type |-> type, sealed |-> sealed, run |-> run, hash |-> hash, data |-> data]
  BY DEF IsEnvelope
<1>2. PICK s, r, h :
        y = [type |-> type, sealed |-> s, run |-> r, hash |-> h, data |-> data]
  <2>1. CASE y = [e EXCEPT !.run = x]
    <3>1. y = [type |-> type, sealed |-> sealed, run |-> x, hash |-> hash, data |-> data]
      BY <1>1, <2>1
    <3>2. QED
      BY <3>1, Zenon
  <2>2. CASE y = [e EXCEPT !.sealed = x]
    <3>1. y = [type |-> type, sealed |-> x, run |-> run, hash |-> hash, data |-> data]
      BY <1>1, <2>2
    <3>2. QED
      BY <3>1, Zenon
  <2>3. CASE y = [e EXCEPT !.hash = x]
    <3>1. y = [type |-> type, sealed |-> sealed, run |-> run, hash |-> x, data |-> data]
      BY <1>1, <2>3
    <3>2. QED
      BY <3>1, Zenon
  <2>4. QED
    BY <2>1, <2>2, <2>3, Zenon DEF EnvelopeEdits
<1>3. IsEnvelope(y)
  BY <1>2, Zenon DEF IsEnvelope
<1>4. y.type = type /\ y.data = data
  BY <1>2
<1>5. e.type = type /\ e.data = data
  BY <1>1
<1>6. QED
  BY <1>3, <1>4, <1>5, Zenon DEF SameEnvelope

LEMMA EditedLine ==
  ASSUME NEW e, NEW x, NEW y \in EnvelopeEdits(e, x), e # NotJSON
  PROVE  /\ DecisionLine(e) => DecisionLine(y)
         /\ PauseLine(e) => PauseLine(y)
         /\ PauseLine(e) => y.type = e.type
<1>1. IsEnvelope(e) => SameEnvelope(e, y)
  BY EditedEnvelope, Zenon
<1>2. QED
  BY <1>1, Zenon DEF SameEnvelope, DecisionLine, PauseLine, NamesTarget, IsDenial

(* What is built of an accepted artifact is of one of the two families. *)
LEMMA BuiltIsOfFamily ==
  ASSUME NEW a \in Artifacts, Accepts(a)
  PROVE  OfFamily(BuildEvents(a))
<1>1. CASE a.schema = DECISION_SCHEMA
  <2> DEFINE o == [decision |-> a.decision, tool_name |-> a.tool_name,
                   arguments_hash |-> a.arguments_hash, extra |-> {}]
             e == Envelope(a, "policy-decision", o)
  <2>1. BuildEvents(a) = <<e>>
    BY <1>1 DEF BuildEvents, DecisionEvents
  <2>2. "target_ref" \notin DOMAIN o
    OBVIOUS
  <2> HIDE DEF o
  <2>3. IsEnvelope(e) /\ e.type = "policy-decision" /\ e.data.observed = o
    BY EnvelopeIsEnvelope
  <2> HIDE DEF e
  <2>4. DecisionLine(e)
    BY <2>2, <2>3, Zenon DEF DecisionLine, NamesTarget
  <2>5. DOMAIN <<e>> = {1} /\ <<e>>[1] = e
    OBVIOUS
  <2>6. QED
    BY <2>1, <2>4, <2>5, Zenon DEF OfFamily, DecisionFile
<1>2. CASE a.schema = PAUSE_SCHEMA
  <2> DEFINE Events(type, items) ==
        [i \in DOMAIN items |-> Envelope(a, type, Normalized(items[i]))]
      Lines(file) == \A n \in DOMAIN file : PauseLine(file[n])
  <2>1. AcceptsPause(a) /\ a.schema # DECISION_SCHEMA
    BY <1>2 DEF Accepts, PAUSE_SCHEMA, DECISION_SCHEMA
  <2>2. /\ AreParts(a.policy_decisions) /\ AreParts(a.resumed) /\ AreParts(a.process_summary)
    BY <1>2, ArtifactsAssumption
  <2>3. ASSUME NEW items, AreParts(items),
               NEW type \in {"policy-decision", "resumed-run", "process-summary"},
               type = "policy-decision" =>
                 \A i \in DOMAIN items : "target_ref" \in DOMAIN items[i]
        PROVE  Lines(Events(type, items)) /\ Events(type, items) \in Seq(ToSet(Events(type, items)))
    <3>1. ASSUME NEW i \in DOMAIN items
          PROVE  PauseLine(Envelope(a, type, Normalized(items[i])))
      <4> DEFINE o == Normalized(items[i])
                 e == Envelope(a, type, o)
      <4>1. type = "policy-decision" => "target_ref" \in DOMAIN o
        BY <2>3 DEF Normalized
      <4> HIDE DEF o
      <4>2. IsEnvelope(e) /\ e.type = type /\ e.data.observed = o
        BY EnvelopeIsEnvelope
      <4> HIDE DEF e
      <4>3. IsDenial(e) => NamesTarget(e)
        BY <4>1, <4>2, Zenon DEF IsDenial, NamesTarget
      <4>4. PauseLine(e)
        BY <4>2, <4>3, Zenon DEF PauseLine
      <4>5. QED
        BY <4>4 DEF e, o
    <3>2. DOMAIN items = 1..Len(items) /\ Len(items) \in Nat
      BY <2>3 DEF AreParts
    <3>3. Events(type, items) \in Seq(ToSet(Events(type, items)))
      BY <3>2 DEF ToSet
    <3>4. QED
      BY <3>1, <3>3
  <2>4. \A i \in DOMAIN a.policy_decisions : "target_ref" \in DOMAIN a.policy_decisions[i]
    BY <2>1, Zenon DEF AcceptsPause, AcceptsPolicyDecision, ToSet
  <2> DEFINE e == Envelope(a, "approval-interruption", InterruptionData(a))
             first == <<e>>
             decisions == Events("policy-decision", a.policy_decisions)
             resumes == Events("resumed-run", a.resumed)
             summaries == Events("process-summary", a.process_summary)
  <2>5. /\ Lines(decisions) /\ decisions \in Seq(ToSet(decisions))
        /\ Lines(resumes) /\ resumes \in Seq(ToSet(resumes))
        /\ Lines(summaries) /\ summaries \in Seq(ToSet(summaries))
    BY <2>2, <2>3, <2>4
  <2>6. IsEnvelope(e) /\ e.type = "approval-interruption"
    BY EnvelopeIsEnvelope
  <2>7. BuildEvents(a) = ((first \o decisions) \o resumes) \o summaries
    BY <2>1, Zenon DEF BuildEvents, PauseEvents
  <2> HIDE DEF e, decisions, resumes, summaries
  <2>8. PauseLine(e)
    BY <2>6, Zenon DEF PauseLine, IsDenial
  <2>9. Lines(first) /\ first \in Seq(ToSet(first)) /\ 1 \in DOMAIN first /\ first[1] = e
    <3>1. DOMAIN first = {1} /\ first[1] = e
      OBVIOUS
    <3>2. Lines(first)
      BY <2>8, <3>1
    <3>3. first \in Seq(ToSet(first))
      BY DEF ToSet
    <3>4. QED
      BY <3>1, <3>2, <3>3
  <2> HIDE DEF first
  <2>10. ASSUME NEW S, NEW s \in Seq(S), NEW T, NEW t \in Seq(T), Lines(s), Lines(t),
                1 \in DOMAIN s
         PROVE  /\ Lines(s \o t) /\ s \o t \in Seq(S \cup T)
                /\ 1 \in DOMAIN (s \o t) /\ (s \o t)[1] = s[1]
    <3>1. ConcatOf(s, t)
      BY ConcatElements
    <3>2. s \o t \in Seq(S \cup T) /\ 1 \in DOMAIN (s \o t) /\ (s \o t)[1] = s[1]
      <4>1. s \in Seq(S \cup T) /\ t \in Seq(S \cup T)
        OBVIOUS
      <4>2. Len(s) \in Nat /\ Len(t) \in Nat /\ 1 <= Len(s)
        BY <2>10
      <4>3. QED
        BY <4>1, <4>2
    <3>3. Lines(s \o t)
      BY <2>10, <3>1, Zenon DEF ConcatOf
    <3>4. QED
      BY <3>2, <3>3
  <2> DEFINE two == first \o decisions
             three == two \o resumes
             four == three \o summaries
  <2>11. /\ Lines(two) /\ two \in Seq(ToSet(first) \cup ToSet(decisions))
         /\ 1 \in DOMAIN two /\ two[1] = first[1]
    BY <2>5, <2>9, <2>10
  <2> HIDE DEF two
  <2>12. /\ Lines(three) /\ three \in Seq((ToSet(first) \cup ToSet(decisions)) \cup ToSet(resumes))
         /\ 1 \in DOMAIN three /\ three[1] = two[1]
    BY <2>5, <2>10, <2>11
  <2> HIDE DEF three
  <2>13. Lines(four) /\ 1 \in DOMAIN four /\ four[1] = three[1]
    BY <2>5, <2>10, <2>12
  <2>14. four[1].type = "approval-interruption"
    BY <2>6, <2>9, <2>11, <2>12, <2>13
  <2>15. BuildEvents(a) = four
    BY <2>7 DEF two, three
  <2> HIDE DEF four
  <2>16. PauseFile(four)
    BY <2>13, <2>14, Zenon DEF PauseFile
  <2>17. QED
    BY <2>15, <2>16, Zenon DEF OfFamily
<1>3. QED
  BY <1>1, <1>2 DEF Accepts

(* An edit leaves a file in its family. *)
LineEdits(file, n) ==
  {[file EXCEPT ![n] = NotJSON],
   [file EXCEPT ![n].run = "other"],
   [file EXCEPT ![n].sealed = FALSE],
   [file EXCEPT ![n].hash = "malformed"]}

LEMMA EditKeepsFamily ==
  ASSUME NEW file, OfFamily(file), file # NoFile, NEW n \in DOMAIN file, file[n] # NotJSON,
         NEW edit \in LineEdits(file, n)
  PROVE  OfFamily(edit)
<1>1. \E y : /\ edit = [file EXCEPT ![n] = y]
             /\ DecisionLine(file[n]) => DecisionLine(y)
             /\ PauseLine(file[n]) => PauseLine(y) /\ (y = NotJSON \/ y.type = file[n].type)
  <2> DEFINE e == file[n]
             Fits(y) == /\ DecisionLine(e) => DecisionLine(y)
                        /\ PauseLine(e) => PauseLine(y) /\ (y = NotJSON \/ y.type = e.type)
  <2>1. Fits(NotJSON)
    BY Zenon DEF DecisionLine, PauseLine
  <2>2. \A x : \A y \in EnvelopeEdits(e, x) : Fits(y)
    <3> SUFFICES ASSUME NEW x, NEW y \in EnvelopeEdits(e, x)
                 PROVE  Fits(y)
      OBVIOUS
    <3> HIDE DEF e
    <3>1. e # NotJSON
      BY DEF e
    <3>2. QED
      BY <3>1, EditedLine, Zenon
  <2>3. /\ Fits([e EXCEPT !.run = "other"]) /\ Fits([e EXCEPT !.sealed = FALSE])
        /\ Fits([e EXCEPT !.hash = "malformed"])
    <3>1. /\ [e EXCEPT !.run = "other"] \in EnvelopeEdits(e, "other")
          /\ [e EXCEPT !.sealed = FALSE] \in EnvelopeEdits(e, FALSE)
          /\ [e EXCEPT !.hash = "malformed"] \in EnvelopeEdits(e, "malformed")
      <4> HIDE DEF e
      <4>1. QED
        BY Zenon DEF EnvelopeEdits
    <3> HIDE DEF Fits, e
    <3>2. QED
      BY <2>2, <3>1, Zenon
  <2>4. \/ edit = [file EXCEPT ![n] = NotJSON]
        \/ edit = [file EXCEPT ![n] = [e EXCEPT !.run = "other"]]
        \/ edit = [file EXCEPT ![n] = [e EXCEPT !.sealed = FALSE]]
        \/ edit = [file EXCEPT ![n] = [e EXCEPT !.hash = "malformed"]]
    BY DEF LineEdits
  <2>5. \E y : edit = [file EXCEPT ![n] = y] /\ Fits(y)
    <3> HIDE DEF Fits, e
    <3>1. QED
      BY <2>1, <2>3, <2>4, Zenon
  <2>6. QED
    BY <2>5
<1>2. PICK y : /\ edit = [file EXCEPT ![n] = y]
               /\ DecisionLine(file[n]) => DecisionLine(y)
               /\ PauseLine(file[n]) => PauseLine(y) /\ (y = NotJSON \/ y.type = file[n].type)
  BY <1>1
<1>3. /\ DOMAIN edit = DOMAIN file
      /\ \A k \in DOMAIN file : edit[k] = IF k = n THEN y ELSE file[k]
  BY <1>2
<1>4. CASE DecisionFile(file)
  <2>1. n = 1
    BY <1>4 DEF DecisionFile
  <2>2. DecisionFile(edit)
    BY <1>2, <1>3, <1>4, <2>1 DEF DecisionFile
  <2>3. QED
    BY <2>2 DEF OfFamily
<1>5. CASE PauseFile(file)
  <2>1. \A k \in DOMAIN file : PauseLine(edit[k])
    BY <1>2, <1>3, <1>5 DEF PauseFile
  <2>2. edit[1] = NotJSON \/ edit[1].type = "approval-interruption"
    BY <1>2, <1>3, <1>5 DEF PauseFile
  <2>3. PauseFile(edit)
    BY <1>3, <1>5, <2>1, <2>2 DEF PauseFile
  <2>4. QED
    BY <2>3 DEF OfFamily
<1>6. QED
  BY <1>4, <1>5 DEF OfFamily

-----------------------------------------------------------------------------
(***************************************************************************)
(* What a comparison of two mapped files admits.                           *)
(***************************************************************************)
LEMMA AdmittedFilesAddNoDenial ==
  ASSUME NEW base, NEW cand, OfFamily(base), OfFamily(cand), base # NoFile, cand # NoFile,
         NotJSON \notin ToSet(base), NotJSON \notin ToSet(cand),
         ~MappedRegressions(base, cand)
  PROVE  Denied(cand) \subseteq Denied(base) \/ "undefined" \in Denied(base)
<1>1. /\ \A n \in DOMAIN base : base[n] # NotJSON
      /\ \A n \in DOMAIN cand : cand[n] # NotJSON
  BY Zenon DEF ToSet
<1>2. /\ DenialKeys(cand) \subseteq DenialKeys(base)
      /\ MappedTypes(cand) \subseteq MappedTypes(base)
  BY Zenon DEF MappedRegressions
<1>3. ASSUME NEW e \in ToSet(cand), IsDenial(e)
      PROVE  \E b \in ToSet(base) : IsDenial(b) /\ DenialKey(b) = DenialKey(e)
  <2>1. DenialKey(e) \in DenialKeys(cand)
    BY <1>3, Zenon DEF DenialKeys
  <2>2. DenialKey(e) \in DenialKeys(base)
    BY <1>2, <2>1
  <2>3. QED
    BY <2>2, Zenon DEF DenialKeys
<1>4. ASSUME PauseFile(base)
      PROVE  \A b \in ToSet(base) : IsDenial(b) => Target(b) = DenialKey(b)
  <2> SUFFICES ASSUME NEW b \in ToSet(base), IsDenial(b) PROVE Target(b) = DenialKey(b)
    OBVIOUS
  <2>1. PauseLine(b) /\ b # NotJSON
    BY <1>1, <1>4, Zenon DEF PauseFile, ToSet
  <2>2. NamesTarget(b)
    BY <2>1, Zenon DEF PauseLine
  <2>3. QED
    BY <2>2, Zenon DEF Target, DenialKey, NamesTarget
<1>5. CASE PauseFile(cand) /\ PauseFile(base)
  <2>1. ASSUME NEW e \in ToSet(cand), IsDenial(e) PROVE Target(e) \in Denied(base)
    <3>1. PauseLine(e) /\ e # NotJSON
      BY <1>1, <1>5, Zenon DEF PauseFile, ToSet
    <3>2. NamesTarget(e)
      BY <2>1, <3>1, Zenon DEF PauseLine
    <3>3. Target(e) = DenialKey(e)
      BY <3>2, Zenon DEF Target, DenialKey, NamesTarget
    <3>4. PICK b \in ToSet(base) : IsDenial(b) /\ DenialKey(b) = DenialKey(e)
      BY <1>3, <2>1
    <3>5. Target(b) = Target(e)
      BY <1>4, <1>5, <3>3, <3>4
    <3>6. QED
      BY <3>4, <3>5, Zenon DEF Denied
  <2>2. QED
    BY <2>1, Zenon DEF Denied
<1>6. CASE PauseFile(cand) /\ DecisionFile(base)
  <2>1. cand[1].type = "approval-interruption" /\ cand[1] \in ToSet(cand)
    BY <1>1, <1>6, Zenon DEF PauseFile, ToSet
  <2>2. cand[1].type \in MappedTypes(base)
    BY <1>2, <2>1, Zenon DEF MappedTypes
  <2>3. \A b \in ToSet(base) : b.type = "policy-decision"
    BY <1>1, <1>6 DEF DecisionFile, DecisionLine, ToSet
  <2>4. QED
    BY <2>1, <2>2, <2>3 DEF MappedTypes
<1>7. CASE DecisionFile(cand)
  <2>1. /\ ToSet(cand) = {cand[1]} /\ cand[1].type = "policy-decision"
        /\ ~NamesTarget(cand[1]) /\ 1 \in DOMAIN cand
    BY <1>1, <1>7 DEF DecisionFile, DecisionLine, ToSet
  <2>2. CASE PauseFile(base)
    <3>1. ASSUME IsDenial(cand[1]) PROVE "undefined" \in Denied(base)
      <4>1. DenialKey(cand[1]) = "undefined"
        BY <2>1, Zenon DEF DenialKey, NamesTarget
      <4>2. PICK b \in ToSet(base) : IsDenial(b) /\ DenialKey(b) = "undefined"
        BY <1>3, <2>1, <3>1, <4>1
      <4>3. Target(b) = "undefined"
        BY <1>4, <2>2, <4>2
      <4>4. QED
        BY <4>2, <4>3, Zenon DEF Denied
    <3>2. ASSUME ~IsDenial(cand[1]) PROVE Denied(cand) = {}
      BY <2>1, <3>2 DEF Denied
    <3>3. QED
      BY <3>1, <3>2
  <2>3. CASE DecisionFile(base)
    <3>1. base[1].type = "policy-decision" /\ 1 \in DOMAIN base
      BY <1>1, <2>3 DEF DecisionFile, DecisionLine
    <3>2. <<base[1].hash, base[1].data>> = <<cand[1].hash, cand[1].data>>
      BY <2>1, <3>1, Zenon DEF MappedRegressions
    <3>3. base[1].data = cand[1].data
      BY <3>2
    <3>4. base[1] \in ToSet(base)
      BY <3>1, Zenon DEF ToSet
    <3>5. IsDenial(cand[1]) => IsDenial(base[1]) /\ Target(base[1]) = Target(cand[1])
      BY <3>1, <3>3, Zenon DEF IsDenial, Target
    <3>6. IsDenial(cand[1]) => Target(cand[1]) \in Denied(base)
      BY <3>4, <3>5, Zenon DEF Denied
    <3>7. QED
      BY <2>1, <3>6 DEF Denied
  <2>4. QED
    BY <2>2, <2>3 DEF OfFamily
<1>8. QED
  BY <1>5, <1>6, <1>7 DEF OfFamily

LEMMA InitAdmissionInv == MapperInit => AdmissionInv
<1> SUFFICES ASSUME MapperInit PROVE AdmissionInv
  OBVIOUS
<1>1. MapperInv
  BY InitMapperInv
<1>2. FamiliesKept
  BY Zenon DEF MapperInit, FamiliesKept, OfFamily
<1>3. outcome.command = "none"
  BY DEF MapperInit, NoOutcome
<1>4. AdmittedMappingAddsNoDenial
  BY <1>3 DEF AdmittedMappingAddsNoDenial
<1>5. QED
  BY <1>1, <1>2, <1>4 DEF AdmissionInv

LEMMA NextAdmissionInv == AdmissionInv /\ [MapperNext]_mapper_vars => AdmissionInv'
<1> SUFFICES ASSUME AdmissionInv, [MapperNext]_mapper_vars PROVE AdmissionInv'
  OBVIOUS
<1>1. MapperInv /\ FamiliesKept
  BY DEF AdmissionInv
<1>2. MapperInv'
  BY <1>1, NextMapperInv
<1>3. ASSUME outcome'.command # "compare" PROVE AdmittedMappingAddsNoDenial'
  BY <1>3 DEF AdmittedMappingAddsNoDenial
<1>4. ASSUME NEW artifact \in Artifacts, NEW overwrite \in BOOLEAN,
             MapArtifact(artifact, overwrite)
      PROVE  FamiliesKept' /\ AdmittedMappingAddsNoDenial'
  <2>1. OfFamily(mapped')
    BY <1>4, BuiltIsOfFamily DEF MapArtifact
  <2>2. reference' = reference /\ outcome'.command = "none"
    BY <1>4 DEF MapArtifact, NoOutcome
  <2>3. FamiliesKept'
    BY <1>1, <2>1, <2>2, Zenon DEF FamiliesKept, OfFamily
  <2>4. QED
    BY <1>3, <2>2, <2>3
<1>5. CASE EditMapped
  <2>1. PICK n \in DOMAIN mapped :
          mapped' \in LineEdits(mapped, n)
    BY <1>5, Zenon DEF EditMapped, LineEdits
  <2>2. mapped # NoFile /\ ~edited /\ reference' = reference /\ outcome'.command = "none"
    BY <1>5 DEF EditMapped, NoOutcome
  <2>3. mapped[n] # NotJSON
    BY <1>1, <2>2, Zenon DEF MapperInv, OutputClean, CleanFile, CleanEvent
  <2>4. OfFamily(mapped)
    BY <1>1 DEF FamiliesKept
  <2>5. OfFamily(mapped')
    BY <2>1, <2>2, <2>3, <2>4, EditKeepsFamily, Zenon
  <2>6. FamiliesKept'
    BY <1>1, <2>2, <2>5, Zenon DEF FamiliesKept, OfFamily
  <2>7. QED
    BY <1>2, <1>3, <2>2, <2>6, Zenon DEF AdmissionInv
<1>6. ASSUME NEW category \in {"all", "envelope", "hash", "type"}, Verify(category)
      PROVE  FamiliesKept' /\ AdmittedMappingAddsNoDenial'
  <2>1. mapped' = mapped /\ reference' = reference /\ outcome'.command = category
    BY <1>6 DEF Verify
  <2>2. FamiliesKept'
    BY <1>1, <2>1, Zenon DEF FamiliesKept
  <2>3. category # "compare"
    BY <1>6
  <2>4. QED
    BY <1>3, <2>1, <2>2, <2>3
<1>7. CASE KeepReference
  <2>1. mapped' = mapped /\ reference' = mapped /\ outcome'.command = "none"
    BY <1>7 DEF KeepReference, NoOutcome
  <2>2. FamiliesKept'
    BY <1>1, <2>1, Zenon DEF FamiliesKept
  <2>3. outcome'.command # "compare"
    BY <2>1
  <2>4. QED
    BY <1>2, <1>3, <2>2, <2>3, Zenon DEF AdmissionInv
<1>8. CASE CompareMapped
  <2>1. mapped' = mapped /\ reference' = reference
    BY <1>8, Zenon DEF CompareMapped
  <2>2. FamiliesKept'
    BY <1>1, <2>1, Zenon DEF FamiliesKept
  <2>3. ASSUME outcome'.exit = SUCCESS
        PROVE  Denied(mapped) \subseteq Denied(reference) \/ "undefined" \in Denied(reference)
    <3>1. /\ NoFile \notin {mapped, reference}
          /\ NotJSON \notin ToSet(mapped) \cup ToSet(reference)
          /\ ~MappedRegressions(reference, mapped)
      BY <1>8, <2>3 DEF CompareMapped, SUCCESS, CONFIG_ERROR, UNCAUGHT, REGRESSION
    <3>2. OfFamily(mapped) /\ OfFamily(reference)
      BY <1>1 DEF FamiliesKept
    <3>3. QED
      BY <3>1, <3>2, AdmittedFilesAddNoDenial
  <2>4. outcome' = [command |-> "compare", exit |-> SUCCESS] => outcome'.exit = SUCCESS
    OBVIOUS
  <2>5. AdmittedMappingAddsNoDenial'
    BY <2>1, <2>3, <2>4, Zenon DEF AdmittedMappingAddsNoDenial
  <2>6. QED
    BY <1>2, <2>2, <2>5, Zenon DEF AdmissionInv
<1>9. CASE UNCHANGED mapper_vars
  <2>1. mapped' = mapped /\ reference' = reference /\ outcome' = outcome
    BY <1>9 DEF mapper_vars
  <2>2. QED
    BY <1>2, <2>1, Zenon DEF AdmissionInv, FamiliesKept, AdmittedMappingAddsNoDenial
<1>10. QED
  BY <1>2, <1>4, <1>5, <1>6, <1>7, <1>8, <1>9, Zenon DEF MapperNext, AdmissionInv

(* For any artifacts: the gate admits mapped evidence only if it denies no *)
(* call that the reference did not deny, unless the reference denies a     *)
(* target that is called undefined.                                        *)
THEOREM MappedAdmission == MapperSpec => []AdmittedMappingAddsNoDenial
<1>1. AdmissionInv => AdmittedMappingAddsNoDenial
  BY DEF AdmissionInv
<1>2. QED
  BY <1>1, InitAdmissionInv, NextAdmissionInv, PTL DEF MapperSpec
=============================================================================
