------------------------------ MODULE LogLemmas ------------------------------
(***************************************************************************)
(* What the logs of EvidenceLog hold, for any calls under any policy: the  *)
(* events of the verdicts, how many there are of each kind and in which    *)
(* order.  FlattenSeq is a fold, so the facts about Verdicts go by the     *)
(* prefixes of the calls.                                                  *)
(***************************************************************************)
EXTENDS EvidenceLog, FiniteSetTheorems, WellFoundedInduction, TLAPS

(* Induction on the natural numbers, for a set in place of a predicate. *)
LEMMA NatInduct ==
  ASSUME NEW P, 0 \in P, \A n \in Nat : n \in P => n + 1 \in P
  PROVE  Nat \subseteq P
<1> DEFINE Less == OpToRel(<, Nat)
           T == Nat \ P
<1>1. IsWellFoundedOn(Less, Nat)
  BY NatLessThanWellFounded
<1>2. \A x, y \in Nat : <<x, y>> \in Less <=> x < y
  BY DEF OpToRel
<1> SUFFICES ASSUME T # {} PROVE FALSE
  OBVIOUS
<1> HIDE DEF Less
<1>3. T \subseteq Nat
  OBVIOUS
<1>4. PICK k \in T : \A m \in T : ~(<<m, k>> \in Less)
  <2> HIDE DEF T
  <2>1. QED
    BY <1>1, <1>3, WFMin, Zenon
<1>5. k \in Nat /\ k # 0
  OBVIOUS
<1>6. k - 1 \in Nat /\ (k - 1) + 1 = k /\ k - 1 < k
  BY <1>5
<1>7. k - 1 \notin T
  BY <1>2, <1>4, <1>5, <1>6
<1> QED
  BY <1>6, <1>7

-----------------------------------------------------------------------------
(***************************************************************************)
(* Verdicts as a fold.                                                     *)
(***************************************************************************)
(* What one call adds to the log of an uninterrupted run. *)
Block(policy, t) ==
  IF policy[t] = "deny"
  THEN <<PolicyDecisionEvent(policy, t), DeniedActionEvent(t)>>
  ELSE <<PolicyDecisionEvent(policy, t)>>

VerdictEvents(policy, tools) ==
  {PolicyDecisionEvent(policy, tools[i]) : i \in DOMAIN tools}
    \cup {DeniedActionEvent(tools[i]) : i \in {k \in DOMAIN tools : policy[tools[k]] = "deny"}}

(* The log after each prefix of the calls. *)
Grows(g, policy, tools) ==
  /\ g[0] = <<>>
  /\ \A k \in 0..Len(tools) : g[k] \in Seq(VerdictEvents(policy, tools))
  /\ \A k \in 1..Len(tools) : g[k] = g[k - 1] \o Block(policy, tools[k])

(* The function a fold defines exists. *)
LEMMA FoldExists ==
  ASSUME NEW s, NEW N \in Nat
  PROVE  \E f : f = [i \in 1..N |-> IF i = 1 THEN s[i] ELSE f[i - 1] \o s[i]]
<1> DEFINE Folded(n) == \E f : f = [i \in 1..n |-> IF i = 1 THEN s[i] ELSE f[i - 1] \o s[i]]
           P == {n \in Nat : Folded(n)}
<1>1. 0 \in P
  <2>1. <<>> = [i \in 1..0 |-> IF i = 1 THEN s[i] ELSE <<>>[i - 1] \o s[i]]
    OBVIOUS
  <2>2. QED
    BY <2>1
<1>2. ASSUME NEW n \in Nat, n \in P PROVE n + 1 \in P
  <2>1. PICK f : f = [i \in 1..n |-> IF i = 1 THEN s[i] ELSE f[i - 1] \o s[i]]
    BY <1>2
  <2> DEFINE g == [i \in 1..(n + 1) |->
                     IF i <= n THEN f[i] ELSE IF i = 1 THEN s[i] ELSE f[i - 1] \o s[i]]
             h == [i \in 1..(n + 1) |-> IF i = 1 THEN s[i] ELSE g[i - 1] \o s[i]]
  <2>2. ASSUME NEW i \in 1..(n + 1)
        PROVE  g[i] = IF i = 1 THEN s[i] ELSE g[i - 1] \o s[i]
    <3>1. CASE i <= n
      <4>1. g[i] = f[i] /\ i \in 1..n
        BY <3>1
      <4>2. i # 1 => g[i - 1] = f[i - 1]
        BY <3>1
      <4> HIDE DEF g
      <4>3. QED
        BY <2>1, <4>1, <4>2
    <3>2. CASE i = n + 1
      <4>1. i # 1 => g[i - 1] = f[i - 1]
        BY <3>2
      <4>2. QED
        BY <3>2, <4>1
    <3>3. QED
      BY <3>1, <3>2
  <2>3. g = h
    BY <2>2, Zenon
  <2> HIDE DEF g
  <2>4. Folded(n + 1)
    BY <2>3
  <2> HIDE DEF Folded
  <2>5. QED
    BY <2>4
<1> HIDE DEF P
<1>3. Nat \subseteq P
  BY <1>1, <1>2, NatInduct
<1>4. QED
  BY <1>3 DEF P

LEMMA VerdictsGrow ==
  ASSUME NEW policy, NEW T, NEW tools \in Seq(T)
  PROVE  \E g : Grows(g, policy, tools) /\ Verdicts(policy, tools) = g[Len(tools)]
<1> DEFINE s == [i \in DOMAIN tools |-> Block(policy, tools[i])]
           N == Len(tools)
           E == VerdictEvents(policy, tools)
<1>1. N \in Nat /\ DOMAIN tools = 1..N
  OBVIOUS
<1>2. DOMAIN s = 1..N /\ Len(s) = N
  BY <1>1
<1>3. Verdicts(policy, tools) = FlattenSeq(s)
  BY Zenon DEF Verdicts, Block
<1>4. \A i \in 1..N : s[i] \in Seq(E) /\ s[i] = Block(policy, tools[i])
  <2> SUFFICES ASSUME NEW i \in 1..N PROVE Block(policy, tools[i]) \in Seq(E)
    BY <1>1
  <2>1. PolicyDecisionEvent(policy, tools[i]) \in E
    BY <1>1 DEF VerdictEvents
  <2>2. policy[tools[i]] = "deny" => DeniedActionEvent(tools[i]) \in E
    BY <1>1 DEF VerdictEvents
  <2> HIDE DEF E
  <2>3. QED
    BY <2>1, <2>2 DEF Block
<1>5. PICK f : f = [i \in 1..N |-> IF i = 1 THEN s[i] ELSE f[i - 1] \o s[i]]
  BY <1>1, FoldExists
<1> DEFINE c == CHOOSE h : h = [i \in 1..N |-> IF i = 1 THEN s[i] ELSE h[i - 1] \o s[i]]
<1>6. c = [i \in 1..N |-> IF i = 1 THEN s[i] ELSE c[i - 1] \o s[i]]
  BY <1>5
<1>7. N # 0 => FlattenSeq(s) = c[N]
  BY <1>2 DEF FlattenSeq
<1>8. N = 0 => FlattenSeq(s) = <<>>
  BY <1>2 DEF FlattenSeq
<1> HIDE DEF s, N, E, c
<1> DEFINE g == [k \in 0..N |-> IF k = 0 THEN <<>> ELSE c[k]]
<1>9. g[0] = <<>>
  BY <1>1
<1>10. \A k \in 1..N : g[k] = g[k - 1] \o s[k]
  <2> SUFFICES ASSUME NEW k \in 1..N PROVE g[k] = g[k - 1] \o s[k]
    OBVIOUS
  <2>1. g[k] = c[k]
    BY <1>1
  <2>2. CASE k = 1
    <3>1. c[1] = s[1]
      BY <1>6, <2>2
    <3>2. <<>> \o s[1] = s[1]
      BY <1>4, <2>2
    <3>3. g[k - 1] = <<>>
      BY <1>9, <2>2
    <3>4. QED
      BY <2>1, <2>2, <3>1, <3>2, <3>3
  <2>3. CASE k # 1
    <3>1. c[k] = c[k - 1] \o s[k]
      BY <1>6, <2>3
    <3>2. g[k - 1] = c[k - 1]
      BY <1>1, <2>3
    <3>3. QED
      BY <2>1, <3>1, <3>2
  <2>4. QED
    BY <2>2, <2>3
<1>11. g[N] = Verdicts(policy, tools)
  BY <1>1, <1>3, <1>7, <1>8
<1> HIDE DEF g
<1>12. \A k \in 0..N : g[k] \in Seq(E)
  <2> DEFINE P == {k \in Nat : k <= N => g[k] \in Seq(E)}
  <2>1. 0 \in P
    <3>1. <<>> \in Seq(E)
      OBVIOUS
    <3>2. QED
      BY <1>9, <3>1
  <2>2. ASSUME NEW n \in Nat, n \in P PROVE n + 1 \in P
    <3>1. SUFFICES ASSUME n + 1 <= N PROVE g[n + 1] \in Seq(E)
      OBVIOUS
    <3>2. g[n] \in Seq(E) /\ n + 1 \in 1..N /\ (n + 1) - 1 = n
      BY <1>1, <2>2, <3>1
    <3>3. g[n + 1] = g[n] \o s[n + 1]
      BY <1>10, <3>2
    <3>4. QED
      BY <1>4, <3>2, <3>3
  <2> HIDE DEF P
  <2>3. Nat \subseteq P
    BY <2>1, <2>2, NatInduct
  <2>4. QED
    BY <1>1, <2>3 DEF P
<1>13. Grows(g, policy, tools)
  BY <1>4, <1>9, <1>10, <1>12 DEF Grows, N, E
<1>14. QED
  BY <1>11, <1>13 DEF N

-----------------------------------------------------------------------------
(***************************************************************************)
(* Counting events.                                                        *)
(***************************************************************************)
(* How many events of the log are in the set. *)
Num(log, S) == Cardinality({i \in DOMAIN log : log[i] \in S})

LEMMA NumEmpty == ASSUME NEW S PROVE Num(<<>>, S) = 0
<1>1. {i \in DOMAIN <<>> : <<>>[i] \in S} = {}
  OBVIOUS
<1>2. QED
  BY <1>1, FS_EmptySet DEF Num

LEMMA NumAppend ==
  ASSUME NEW E, NEW log \in Seq(E), NEW e \in E, NEW S
  PROVE  /\ Num(log, S) \in Nat
         /\ Num(Append(log, e), S) = Num(log, S) + IF e \in S THEN 1 ELSE 0
<1> DEFINE n == Len(log)
           A == {i \in DOMAIN log : log[i] \in S}
           B == {i \in DOMAIN Append(log, e) : Append(log, e)[i] \in S}
<1>1. n \in Nat /\ DOMAIN log = 1..n /\ DOMAIN Append(log, e) = 1..(n + 1)
  OBVIOUS
<1>2. \A i \in 1..n : Append(log, e)[i] = log[i]
  OBVIOUS
<1>3. Append(log, e)[n + 1] = e
  OBVIOUS
<1>4. IsFiniteSet(1..n)
  BY <1>1, FS_Interval
<1>5. A \subseteq 1..n
  BY <1>1
<1>6. IsFiniteSet(A) /\ Cardinality(A) \in Nat
  BY <1>4, <1>5, FS_Subset, FS_CardinalityType
<1>7. n + 1 \notin A
  BY <1>1
<1>8. B = IF e \in S THEN A \cup {n + 1} ELSE A
  <2>1. \A i : i \in 1..(n + 1) <=> i \in 1..n \/ i = n + 1
    BY <1>1
  <2>2. QED
    BY <1>1, <1>2, <1>3, <2>1
<1> HIDE DEF A, B, n
<1>9. Cardinality(B) = Cardinality(A) + IF e \in S THEN 1 ELSE 0
  <2>1. Cardinality(A \cup {n + 1}) = Cardinality(A) + 1
    BY <1>6, <1>7, FS_AddElement, Zenon
  <2>2. QED
    BY <1>6, <1>8, <2>1
<1>10. QED
  BY <1>6, <1>9 DEF Num, A, B

(* Two events added at once are the same two added one by one. *)
LEMMA ConcatPair ==
  ASSUME NEW E, NEW s \in Seq(E), NEW d \in E, NEW a \in E
  PROVE  s \o <<d, a>> = Append(Append(s, d), a)
OBVIOUS

(* The verdicts in the set are as many as the calls they are about. *)
CountsCalls(log, k, policy, tools, S) ==
  Num(log, S) = Cardinality({i \in 1..k : PolicyDecisionEvent(policy, tools[i]) \in S})

LEMMA NumVerdicts ==
  ASSUME NEW policy, NEW T, NEW tools \in Seq(T), NEW g, Grows(g, policy, tools),
         NEW S, \A i \in DOMAIN tools : DeniedActionEvent(tools[i]) \notin S
  PROVE  \A k \in 0..Len(tools) : CountsCalls(g[k], k, policy, tools, S)
<1> DEFINE N == Len(tools)
           E == VerdictEvents(policy, tools)
           D(i) == PolicyDecisionEvent(policy, tools[i])
           Of(k) == {i \in 1..k : D(i) \in S}
           P == {k \in Nat : k <= N => Num(g[k], S) = Cardinality(Of(k))}
<1>1. N \in Nat /\ DOMAIN tools = 1..N
  OBVIOUS
<1>2. 0 \in P
  <2>1. Of(0) = {}
    OBVIOUS
  <2>2. g[0] = <<>>
    BY DEF Grows
  <2>3. QED
    BY <2>1, <2>2, NumEmpty, FS_EmptySet
<1>3. ASSUME NEW k \in Nat, k \in P PROVE k + 1 \in P
  <2> SUFFICES ASSUME k + 1 <= N
               PROVE  Num(g[k + 1], S) = Cardinality(Of(k + 1))
    OBVIOUS
  <2>1. k + 1 \in 1..N /\ k \in 0..N /\ (k + 1) - 1 = k
    BY <1>1
  <2>2. Num(g[k], S) = Cardinality(Of(k))
    BY <1>3, <2>1
  <2>3. g[k] \in Seq(E) /\ g[k + 1] = g[k] \o Block(policy, tools[k + 1])
    BY <2>1 DEF Grows
  <2>4. D(k + 1) \in E
    BY <1>1, <2>1 DEF VerdictEvents
  <2>5. Num(g[k + 1], S) = Num(g[k], S) + IF D(k + 1) \in S THEN 1 ELSE 0
    <3> HIDE DEF E
    <3>1. CASE policy[tools[k + 1]] = "deny"
      <4>1. DeniedActionEvent(tools[k + 1]) \in E
        BY <1>1, <2>1, <3>1 DEF VerdictEvents, E
      <4>2. g[k + 1] = Append(Append(g[k], D(k + 1)), DeniedActionEvent(tools[k + 1]))
        <5> DEFINE d == D(k + 1)
                   a == DeniedActionEvent(tools[k + 1])
                   s == g[k]
        <5>1. g[k + 1] = s \o <<d, a>>
          BY <2>3, <3>1, Zenon DEF Block
        <5>2. s \in Seq(E) /\ d \in E /\ a \in E
          BY <2>3, <2>4, <4>1
        <5> HIDE DEF d, a, s
        <5>3. s \o <<d, a>> = Append(Append(s, d), a)
          BY <5>2, ConcatPair
        <5>4. QED
          BY <5>1, <5>3 DEF d, a, s
      <4> DEFINE h == Append(g[k], D(k + 1))
      <4>3. h \in Seq(E)
        BY <2>3, <2>4
      <4>4. Num(h, S) = Num(g[k], S) + IF D(k + 1) \in S THEN 1 ELSE 0
        BY <2>3, <2>4, NumAppend
      <4>5. /\ Num(h, S) \in Nat
            /\ Num(g[k + 1], S) = Num(h, S) + IF DeniedActionEvent(tools[k + 1]) \in S THEN 1 ELSE 0
        <5>1. g[k + 1] = Append(h, DeniedActionEvent(tools[k + 1]))
          BY <4>2
        <5> DEFINE d == DeniedActionEvent(tools[k + 1])
                   h2 == Append(h, d)
        <5>2. g[k + 1] = h2 /\ d \in E
          BY <4>1, <5>1
        <5> HIDE DEF h, d
        <5>3. Num(h, S) \in Nat /\ Num(Append(h, d), S) = Num(h, S) + IF d \in S THEN 1 ELSE 0
          BY <4>3, <5>2, NumAppend
        <5>4. QED
          BY <5>2, <5>3 DEF d
      <4>6. DeniedActionEvent(tools[k + 1]) \notin S
        BY <1>1, <2>1
      <4> HIDE DEF h
      <4>7. QED
        BY <4>4, <4>5, <4>6
    <3>2. CASE policy[tools[k + 1]] # "deny"
      <4>1. g[k + 1] = Append(g[k], D(k + 1))
        BY <2>3, <2>4, <3>2 DEF Block
      <4>2. QED
        BY <2>3, <2>4, <4>1, NumAppend
    <3>3. QED
      BY <3>1, <3>2
  <2>6. Cardinality(Of(k + 1)) = Cardinality(Of(k)) + IF D(k + 1) \in S THEN 1 ELSE 0
    <3>1. IsFiniteSet(1..k) /\ Of(k) \subseteq 1..k
      BY FS_Interval
    <3>2. IsFiniteSet(Of(k)) /\ k + 1 \notin Of(k)
      BY <3>1, FS_Subset
    <3>3. Of(k + 1) = IF D(k + 1) \in S THEN Of(k) \cup {k + 1} ELSE Of(k)
      <4>1. \A i : i \in 1..(k + 1) <=> i \in 1..k \/ i = k + 1
        OBVIOUS
      <4>2. QED
        BY <4>1
    <3>4. Cardinality(Of(k)) \in Nat
      BY <3>2, FS_CardinalityType
    <3> HIDE DEF Of, D
    <3>5. Cardinality(Of(k) \cup {k + 1}) = Cardinality(Of(k)) + 1
      BY <3>2, FS_AddElement, Zenon
    <3>6. QED
      BY <3>3, <3>4, <3>5
  <2>7. QED
    BY <2>2, <2>5, <2>6
<1> HIDE DEF P
<1>4. Nat \subseteq P
  BY <1>2, <1>3, NatInduct
<1>5. QED
  BY <1>1, <1>4 DEF P, CountsCalls

-----------------------------------------------------------------------------
(***************************************************************************)
(* The order of the verdicts.                                              *)
(***************************************************************************)
Continues(log, earlier) ==
  Len(earlier) <= Len(log) /\ \A i \in 1..Len(earlier) : log[i] = earlier[i]

(* A later log continues an earlier one. *)
LEMMA EarlierLogsArePrefixes ==
  ASSUME NEW policy, NEW T, NEW tools \in Seq(T), NEW g, Grows(g, policy, tools),
         NEW j \in 0..Len(tools)
  PROVE  \A k \in j..Len(tools) : Continues(g[k], g[j])
<1> DEFINE N == Len(tools)
           E == VerdictEvents(policy, tools)
           P == {k \in Nat : j + k <= N => Continues(g[j + k], g[j])}
<1>1. N \in Nat /\ j \in Nat
  OBVIOUS
<1>2. \A k \in 0..N : g[k] \in Seq(E)
  BY DEF Grows
<1>3. 0 \in P
  BY <1>1, <1>2 DEF Continues
<1>4. ASSUME NEW k \in Nat, k \in P PROVE k + 1 \in P
  <2> SUFFICES ASSUME j + (k + 1) <= N PROVE Continues(g[j + (k + 1)], g[j])
    OBVIOUS
  <2> DEFINE m == j + k
             b == Block(policy, tools[m + 1])
  <2>1. m \in 0..N /\ m + 1 \in 1..N /\ m + 1 \in 0..N /\ (m + 1) - 1 = m /\ j + (k + 1) = m + 1
    BY <1>1
  <2>2. Continues(g[m], g[j])
    BY <1>4, <2>1
  <2>3. g[m + 1] = g[m] \o b
    BY <2>1 DEF Grows
  <2>4. g[m] \in Seq(E) /\ g[j] \in Seq(E)
    BY <1>2, <2>1
  <2> DEFINE F == {PolicyDecisionEvent(policy, tools[m + 1]), DeniedActionEvent(tools[m + 1])}
  <2>5. b \in Seq(F)
    <3>1. PolicyDecisionEvent(policy, tools[m + 1]) \in F /\ DeniedActionEvent(tools[m + 1]) \in F
      OBVIOUS
    <3> HIDE DEF F, m
    <3>2. QED
      BY <3>1 DEF Block
  <2> HIDE DEF E, F, m, b
  <2>6. Len(g[m]) <= Len(g[m + 1]) /\ \A i \in 1..Len(g[m]) : g[m + 1][i] = g[m][i]
    BY <2>3, <2>4, <2>5
  <2>7. Len(g[j]) \in Nat /\ Len(g[m]) \in Nat
    BY <2>4
  <2>8. Len(g[m + 1]) \in Nat
    BY <2>3, <2>4, <2>5
  <2>9. Continues(g[m + 1], g[j])
    BY <2>2, <2>6, <2>7, <2>8 DEF Continues
  <2>10. QED
    BY <2>1, <2>9
<1> HIDE DEF P
<1>5. Nat \subseteq P
  BY <1>3, <1>4, NatInduct
<1>6. \A k \in j..N : k - j \in P /\ j + (k - j) = k
  BY <1>1, <1>5
<1>7. QED
  BY <1>6 DEF P

Opens(log, n, policy, t) ==
  /\ log[n + 1] = PolicyDecisionEvent(policy, t)
  /\ policy[t] = "deny" => log[n + 2] = DeniedActionEvent(t)

Lengthens(g, k, policy, tools) ==
  /\ Len(g[k - 1]) \in Nat
  /\ policy[tools[k]] = "deny" => Len(g[k]) = Len(g[k - 1]) + 2
  /\ policy[tools[k]] # "deny" => Len(g[k]) = Len(g[k - 1]) + 1

Includes(g, m, k, policy, tools) ==
  Len(g[k]) <= Len(g[m]) /\ Opens(g[m], Len(g[k - 1]), policy, tools[k])

(* A verdict opens what its call adds, and a denied action follows it. *)
LEMMA BlockPositions ==
  ASSUME NEW policy, NEW T, NEW tools \in Seq(T), NEW g, Grows(g, policy, tools),
         NEW k \in 1..Len(tools)
  PROVE  /\ Lengthens(g, k, policy, tools)
         /\ \A m \in k..Len(tools) : Includes(g, m, k, policy, tools)
<1> DEFINE E == VerdictEvents(policy, tools)
           n == Len(g[k - 1])
           d == PolicyDecisionEvent(policy, tools[k])
           a == DeniedActionEvent(tools[k])
<1>1. g[k - 1] \in Seq(E) /\ g[k] = g[k - 1] \o Block(policy, tools[k])
  <2>1. k - 1 \in 0..Len(tools)
    OBVIOUS
  <2>2. QED
    BY <2>1 DEF Grows
<1>2. Block(policy, tools[k]) = IF policy[tools[k]] = "deny" THEN <<d, a>> ELSE <<d>>
  BY DEF Block
<1> HIDE DEF E, d, a
<1>3. n \in Nat /\ g[k - 1] \in Seq(E \cup {d, a})
  BY <1>1
<1>4. /\ policy[tools[k]] = "deny" =>
           Len(g[k]) = n + 2 /\ g[k][n + 1] = d /\ g[k][n + 2] = a
      /\ policy[tools[k]] # "deny" => Len(g[k]) = n + 1 /\ g[k][n + 1] = d
  <2>1. CASE policy[tools[k]] = "deny"
    <3>1. <<d, a>> \in Seq(E \cup {d, a}) /\ g[k] = g[k - 1] \o <<d, a>>
      BY <1>1, <1>2, <2>1
    <3>2. QED
      BY <1>3, <2>1, <3>1
  <2>2. CASE policy[tools[k]] # "deny"
    <3>1. <<d>> \in Seq(E \cup {d, a}) /\ g[k] = g[k - 1] \o <<d>>
      BY <1>1, <1>2, <2>2
    <3>2. QED
      BY <1>3, <2>2, <3>1
  <2>3. QED
    BY <2>1, <2>2
<1>5. \A m \in k..Len(tools) : Continues(g[m], g[k])
  <2>1. k \in 0..Len(tools)
    OBVIOUS
  <2>2. QED
    BY <2>1, EarlierLogsArePrefixes
<1>6. Len(g[k]) \in Nat /\ n + 1 \in 1..Len(g[k])
      /\ (policy[tools[k]] = "deny" => n + 2 \in 1..Len(g[k]))
  BY <1>3, <1>4
<1>7. \A m \in k..Len(tools) :
        /\ g[m][n + 1] = d
        /\ policy[tools[k]] = "deny" => g[m][n + 2] = a
  BY <1>4, <1>5, <1>6 DEF Continues
<1>8. Lengthens(g, k, policy, tools)
  BY <1>3, <1>4 DEF Lengthens
<1>9. \A m \in k..Len(tools) : Len(g[k]) <= Len(g[m])
  BY <1>5 DEF Continues
<1>10. \A m \in k..Len(tools) : Opens(g[m], n, policy, tools[k])
  BY <1>7 DEF Opens, d, a
<1>11. QED
  BY <1>8, <1>9, <1>10, Zenon DEF n, Includes

Belongs(n, k, g, policy, tools) ==
  \/ n = Len(g[k - 1]) + 1
  \/ (policy[tools[k]] = "deny" /\ n = Len(g[k - 1]) + 2)

(* Every event of the verdicts belongs to one call. *)
LEMMA EventsBelongToCalls ==
  ASSUME NEW policy, NEW T, NEW tools \in Seq(T), NEW g, Grows(g, policy, tools)
  PROVE  \A n \in 1..Len(g[Len(tools)]) : \E k \in 1..Len(tools) :
           Belongs(n, k, g, policy, tools)
<1> DEFINE N == Len(tools)
           Owned(n, m) == \E k \in 1..m : Belongs(n, k, g, policy, tools)
           P == {m \in Nat : m <= N => \A n \in 1..Len(g[m]) : Owned(n, m)}
<1>1. N \in Nat
  OBVIOUS
<1>2. 0 \in P
  <2>1. g[0] = <<>>
    BY DEF Grows
  <2>2. QED
    BY <2>1
<1>3. ASSUME NEW m \in Nat, m \in P PROVE m + 1 \in P
  <2> SUFFICES ASSUME m + 1 <= N, NEW n \in 1..Len(g[m + 1]) PROVE Owned(n, m + 1)
    OBVIOUS
  <2>1. m + 1 \in 1..N /\ (m + 1) - 1 = m /\ m <= N
    BY <1>1
  <2>2. /\ Len(g[m]) \in Nat
        /\ policy[tools[m + 1]] = "deny" => Len(g[m + 1]) = Len(g[m]) + 2
        /\ policy[tools[m + 1]] # "deny" => Len(g[m + 1]) = Len(g[m]) + 1
    <3> DEFINE k == m + 1
    <3>1. k \in 1..Len(tools) /\ k - 1 = m
      BY <2>1
    <3> HIDE DEF k
    <3>2. Lengthens(g, k, policy, tools)
      BY <3>1, BlockPositions
    <3>3. QED
      BY <3>1, <3>2 DEF k, Lengthens
  <2>3. CASE n <= Len(g[m])
    <3>1. n \in 1..Len(g[m])
      BY <2>2, <2>3
    <3>2. Owned(n, m)
      BY <1>3, <2>1, <3>1
    <3>3. QED
      BY <3>2
  <2>4. CASE n > Len(g[m])
    <3>1. n = Len(g[m]) + 1 \/ (policy[tools[m + 1]] = "deny" /\ n = Len(g[m]) + 2)
      <4>1. CASE policy[tools[m + 1]] = "deny"
        BY <2>2, <2>4, <4>1
      <4>2. CASE policy[tools[m + 1]] # "deny"
        BY <2>2, <2>4, <4>2
      <4>3. QED
        BY <4>1, <4>2
    <3>2. m + 1 \in 1..(m + 1)
      OBVIOUS
    <3>3. Belongs(n, m + 1, g, policy, tools)
      BY <2>1, <3>1 DEF Belongs
    <3>4. QED
      BY <3>2, <3>3
  <2>5. QED
    BY <2>2, <2>3, <2>4
<1> HIDE DEF P
<1>4. Nat \subseteq P
  BY <1>2, <1>3, NatInduct
<1>5. N \in P
  BY <1>1, <1>4
<1>6. QED
  BY <1>5 DEF P

-----------------------------------------------------------------------------
(***************************************************************************)
(* What Verdicts and Interruption hold.                                    *)
(***************************************************************************)
(* The verdicts name one event for each call, in order, and in between only *)
(* denied actions, each after the verdict that denied it.                  *)
VerdictsOf(log, policy, tools) ==
  /\ log \in Seq(VerdictEvents(policy, tools))
  /\ \A n \in DOMAIN log : IsDecision(log[n]) =>
       \E k \in 1..Len(tools) :
         /\ log[n] = PolicyDecisionEvent(policy, tools[k])
         /\ CountBefore(log, n, IsDecision) = k - 1
  /\ \A k \in 1..Len(tools) :
       /\ \E n \in DOMAIN log : log[n] = PolicyDecisionEvent(policy, tools[k])
       /\ policy[tools[k]] = "deny" => DeniedActionEvent(tools[k]) \in Range(log)

CallVerdicts(policy, tools) == {PolicyDecisionEvent(policy, tools[i]) : i \in DOMAIN tools}

LEMMA EventFields ==
  ASSUME NEW policy, NEW tools, NEW e \in VerdictEvents(policy, tools)
  PROVE  /\ IsDecision(e) <=> e \in CallVerdicts(policy, tools)
         /\ ~IsDecision(e) => IsDeniedAction(e)
         /\ ~IsResumed(e) /\ ~IsInterruption(e) /\ ~IsSummary(e)
BY DEF VerdictEvents, CallVerdicts, PolicyDecisionEvent, DeniedActionEvent,
       IsDecision, IsDeniedAction, IsResumed, IsInterruption, IsSummary

(* Every call has its verdict, in the order of the calls. *)
LEMMA DecisionsBefore ==
  ASSUME NEW policy, NEW T, NEW tools \in Seq(T), NEW g, Grows(g, policy, tools),
         NEW k \in 1..Len(tools)
  PROVE  CountBefore(g[Len(tools)], Len(g[k - 1]) + 1, IsDecision) = k - 1
<1> DEFINE N == Len(tools)
           E == VerdictEvents(policy, tools)
           S == CallVerdicts(policy, tools)
           n == Len(g[k - 1])
           log == g[N]
<1>1. N \in Nat /\ DOMAIN tools = 1..N /\ k - 1 \in 0..N /\ N \in (k - 1)..N
  OBVIOUS
<1>2. Continues(log, g[k - 1])
  BY <1>1, EarlierLogsArePrefixes
<1>3. g[k - 1] \in Seq(E)
  BY <1>1 DEF Grows
<1>4. n \in Nat /\ DOMAIN g[k - 1] = 1..n
  BY <1>3
<1>5. \A i \in 1..n : log[i] = g[k - 1][i] /\ g[k - 1][i] \in E
  BY <1>2, <1>3, <1>4 DEF Continues
<1>6. \A i \in 1..n : IsDecision(log[i]) <=> g[k - 1][i] \in S
  BY <1>5, EventFields
<1>7. CountBefore(log, n + 1, IsDecision) = Num(g[k - 1], S)
  <2>1. (n + 1) - 1 = n
    BY <1>4
  <2>2. {i \in 1..n : IsDecision(log[i])} = {i \in DOMAIN g[k - 1] : g[k - 1][i] \in S}
    BY <1>4, <1>6
  <2> HIDE DEF n, log, S
  <2>3. QED
    BY <2>1, <2>2 DEF CountBefore, Num
<1>8. Num(g[k - 1], S) = k - 1
  <2>1. \A i \in DOMAIN tools : DeniedActionEvent(tools[i]) \notin S
    BY DEF CallVerdicts, DeniedActionEvent, PolicyDecisionEvent
  <2>2. CountsCalls(g[k - 1], k - 1, policy, tools, S)
    <3> HIDE DEF S
    <3>1. \A j \in 0..Len(tools) : CountsCalls(g[j], j, policy, tools, S)
      BY <2>1, NumVerdicts
    <3>2. QED
      BY <1>1, <3>1
  <2>3. {i \in 1..(k - 1) : PolicyDecisionEvent(policy, tools[i]) \in S} = 1..(k - 1)
    BY <1>1 DEF CallVerdicts
  <2>4. Cardinality(1..(k - 1)) = k - 1
    BY <1>1, FS_Interval
  <2> HIDE DEF S
  <2>5. QED
    BY <2>2, <2>3, <2>4 DEF CountsCalls
<1>9. QED
  BY <1>7, <1>8

LEMMA VerdictsHold ==
  ASSUME NEW policy, NEW T, NEW tools \in Seq(T)
  PROVE  VerdictsOf(Verdicts(policy, tools), policy, tools)
<1> DEFINE N == Len(tools)
           E == VerdictEvents(policy, tools)
           log == Verdicts(policy, tools)
<1>1. PICK g : Grows(g, policy, tools) /\ log = g[N]
  BY VerdictsGrow
<1>2. N \in Nat /\ DOMAIN tools = 1..N
  OBVIOUS
<1>3. log \in Seq(E)
  BY <1>1, <1>2 DEF Grows
<1>4. \A k \in 1..N : Includes(g, N, k, policy, tools) /\ Lengthens(g, k, policy, tools)
  <2> SUFFICES ASSUME NEW k \in 1..Len(tools)
               PROVE  Includes(g, Len(tools), k, policy, tools) /\ Lengthens(g, k, policy, tools)
    OBVIOUS
  <2>1. Len(tools) \in k..Len(tools)
    BY <1>2
  <2>2. \A m \in k..Len(tools) : Includes(g, m, k, policy, tools)
    BY <1>1, BlockPositions
  <2>3. Lengthens(g, k, policy, tools)
    BY <1>1, BlockPositions
  <2>4. QED
    BY <2>1, <2>2, <2>3
<1>5. ASSUME NEW k \in 1..N
      PROVE  /\ Opens(log, Len(g[k - 1]), policy, tools[k])
             /\ Len(g[k - 1]) + 1 \in DOMAIN log
             /\ policy[tools[k]] = "deny" => Len(g[k - 1]) + 2 \in DOMAIN log
  <2>1. Opens(log, Len(g[k - 1]), policy, tools[k]) /\ Len(g[k]) <= Len(log)
    BY <1>1, <1>4 DEF Includes
  <2>2. Lengthens(g, k, policy, tools)
    BY <1>4
  <2>3. Len(log) \in Nat /\ DOMAIN log = 1..Len(log)
    BY <1>3
  <2> HIDE DEF log, E, N
  <2>4. QED
    BY <2>1, <2>2, <2>3 DEF Lengthens
<1> HIDE DEF log, E, N
<1>6. ASSUME NEW n \in DOMAIN log, IsDecision(log[n])
      PROVE  \E k \in 1..N : /\ log[n] = PolicyDecisionEvent(policy, tools[k])
                             /\ CountBefore(log, n, IsDecision) = k - 1
  <2>1. n \in 1..Len(g[Len(tools)])
    BY <1>1, <1>3, <1>6 DEF N
  <2>2. PICK k \in 1..Len(tools) : Belongs(n, k, g, policy, tools)
    <3>1. \A p \in 1..Len(g[Len(tools)]) : \E k \in 1..Len(tools) :
            Belongs(p, k, g, policy, tools)
      BY <1>1, EventsBelongToCalls
    <3>2. QED
      BY <2>1, <3>1
  <2>3. Opens(log, Len(g[k - 1]), policy, tools[k])
    BY <1>5 DEF N
  <2>4. n = Len(g[k - 1]) + 1
    <3>1. CASE policy[tools[k]] = "deny" /\ n = Len(g[k - 1]) + 2
      <4>1. log[n] = DeniedActionEvent(tools[k])
        BY <2>3, <3>1 DEF Opens
      <4>2. QED
        BY <1>6, <4>1 DEF IsDecision, DeniedActionEvent
    <3>2. QED
      BY <2>2, <3>1 DEF Belongs
  <2>5. CountBefore(g[Len(tools)], Len(g[k - 1]) + 1, IsDecision) = k - 1
    BY <1>1, DecisionsBefore
  <2>6. log[n] = PolicyDecisionEvent(policy, tools[k])
    BY <2>3, <2>4 DEF Opens
  <2>7. CountBefore(log, n, IsDecision) = k - 1
    BY <1>1, <2>4, <2>5 DEF N
  <2>8. QED
    BY <2>6, <2>7 DEF N
<1>7. \A k \in 1..N :
       /\ \E n \in DOMAIN log : log[n] = PolicyDecisionEvent(policy, tools[k])
       /\ policy[tools[k]] = "deny" => DeniedActionEvent(tools[k]) \in Range(log)
  BY <1>5, Zenon DEF Opens, Range
<1>8. QED
  BY <1>3, <1>6, <1>7 DEF VerdictsOf, log, E, N

-----------------------------------------------------------------------------
(***************************************************************************)
(* What the counters of a summary say of the events.                       *)
(***************************************************************************)
(* The counts of the first n events of a log. *)
FirstCounts(log, n) ==
  [total    |-> CountBefore(log, n + 1, IsDecision),
   allowed  |-> CountBefore(log, n + 1, IsAllow),
   denied   |-> CountBefore(log, n + 1, IsDeny),
   approval |-> CountBefore(log, n + 1, IsApproval),
   resume   |-> CountBefore(log, n + 1, IsResumed)]

(* The first n events count the same in every log they open. *)
LEMMA FirstCountsAgree ==
  ASSUME NEW a, NEW b, NEW n \in Nat, \A i \in 1..n : a[i] = b[i]
  PROVE  FirstCounts(a, n) = FirstCounts(b, n)
<1>1. (n + 1) - 1 = n
  OBVIOUS
<1>2. /\ {i \in 1..n : IsDecision(a[i])} = {i \in 1..n : IsDecision(b[i])}
      /\ {i \in 1..n : IsAllow(a[i])} = {i \in 1..n : IsAllow(b[i])}
      /\ {i \in 1..n : IsDeny(a[i])} = {i \in 1..n : IsDeny(b[i])}
      /\ {i \in 1..n : IsApproval(a[i])} = {i \in 1..n : IsApproval(b[i])}
      /\ {i \in 1..n : IsResumed(a[i])} = {i \in 1..n : IsResumed(b[i])}
  OBVIOUS
<1>3. QED
  BY <1>1, <1>2 DEF FirstCounts, CountBefore

(* The verdicts that take one decision. *)
VerdictsFor(policy, tools, d) ==
  {PolicyDecisionEvent(policy, tools[i]) : i \in {k \in DOMAIN tools : policy[tools[k]] = d}}

LEMMA VerdictFields ==
  ASSUME NEW policy, NEW tools, NEW e \in VerdictEvents(policy, tools)
  PROVE  /\ IsAllow(e) <=> e \in VerdictsFor(policy, tools, "allow")
         /\ IsDeny(e) <=> e \in VerdictsFor(policy, tools, "deny")
         /\ IsApproval(e) <=> e \in VerdictsFor(policy, tools, "require_approval")
BY DEF VerdictEvents, VerdictsFor, PolicyDecisionEvent, DeniedActionEvent,
       IsAllow, IsDeny, IsApproval, IsDecision

LEMMA CardinalityOfFirst ==
  ASSUME NEW n \in Nat
  PROVE  IsFiniteSet(1..n) /\ Cardinality(1..n) = n
BY FS_Interval

LEMMA NumOfVerdicts ==
  ASSUME NEW policy, NEW T, NEW tools \in Seq(T), NEW S,
         \A i \in DOMAIN tools : DeniedActionEvent(tools[i]) \notin S
  PROVE  Num(Verdicts(policy, tools), S)
           = Cardinality({i \in DOMAIN tools : PolicyDecisionEvent(policy, tools[i]) \in S})
<1>1. PICK g : Grows(g, policy, tools) /\ Verdicts(policy, tools) = g[Len(tools)]
  BY VerdictsGrow
<1>2. Len(tools) \in 0..Len(tools) /\ DOMAIN tools = 1..Len(tools)
  OBVIOUS
<1>3. \A k \in 0..Len(tools) : CountsCalls(g[k], k, policy, tools, S)
  BY <1>1, NumVerdicts
<1>4. QED
  BY <1>1, <1>2, <1>3 DEF CountsCalls

LEMMA NumForDecision ==
  ASSUME NEW policy, NEW T, NEW tools \in Seq(T), NEW d
  PROVE  Num(Verdicts(policy, tools), VerdictsFor(policy, tools, d)) = Decided(policy, tools, d)
<1> DEFINE S == VerdictsFor(policy, tools, d)
<1>1. \A i \in DOMAIN tools : DeniedActionEvent(tools[i]) \notin S
  BY DEF VerdictsFor, DeniedActionEvent, PolicyDecisionEvent
<1>2. {i \in DOMAIN tools : PolicyDecisionEvent(policy, tools[i]) \in S}
        = {i \in DOMAIN tools : policy[tools[i]] = d}
  BY DEF VerdictsFor, PolicyDecisionEvent
<1> HIDE DEF S
<1>3. Num(Verdicts(policy, tools), S)
        = Cardinality({i \in DOMAIN tools : PolicyDecisionEvent(policy, tools[i]) \in S})
  BY <1>1, NumOfVerdicts
<1>4. QED
  BY <1>2, <1>3 DEF Decided, S

LEMMA NumForCalls ==
  ASSUME NEW policy, NEW T, NEW tools \in Seq(T)
  PROVE  Num(Verdicts(policy, tools), CallVerdicts(policy, tools)) = Len(tools)
<1> DEFINE S == CallVerdicts(policy, tools)
<1>1. \A i \in DOMAIN tools : DeniedActionEvent(tools[i]) \notin S
  BY DEF CallVerdicts, DeniedActionEvent, PolicyDecisionEvent
<1>2. {i \in DOMAIN tools : PolicyDecisionEvent(policy, tools[i]) \in S} = 1..Len(tools)
  BY DEF CallVerdicts
<1> HIDE DEF S
<1>3. Num(Verdicts(policy, tools), S)
        = Cardinality({i \in DOMAIN tools : PolicyDecisionEvent(policy, tools[i]) \in S})
  BY <1>1, NumOfVerdicts
<1>4. Cardinality(1..Len(tools)) = Len(tools)
  <2>1. Len(tools) \in Nat
    OBVIOUS
  <2>2. QED
    BY <2>1, CardinalityOfFirst
<1>5. QED
  BY <1>2, <1>3, <1>4 DEF S

(* The counters of emitPolicyDecision() and a resume, if there was one. *)
CountedOnce(policy, tools, resumes) ==
  [total |-> Len(tools), allowed |-> Decided(policy, tools, "allow"),
   denied |-> Decided(policy, tools, "deny"),
   approval |-> Decided(policy, tools, "require_approval"), resume |-> resumes]

LEMMA DecidedIsNat ==
  ASSUME NEW policy, NEW T, NEW tools \in Seq(T), NEW d
  PROVE  Decided(policy, tools, d) \in Nat
<1>1. IsFiniteSet(DOMAIN tools)
  <2>1. DOMAIN tools = 1..Len(tools) /\ Len(tools) \in Int /\ 1 \in Int
    OBVIOUS
  <2>2. QED
    BY <2>1, FS_Interval
<1>2. {i \in DOMAIN tools : policy[tools[i]] = d} \subseteq DOMAIN tools
  OBVIOUS
<1>3. QED
  BY <1>1, <1>2, FS_Subset, FS_CardinalityType DEF Decided

CountsWith(c, n, a, d, q) ==
  [c EXCEPT !.total = n, !.allowed = a, !.denied = d, !.approval = q]

CountsOf(n, a, d, q, k) ==
  [total |-> n, allowed |-> a, denied |-> d, approval |-> q, resume |-> k]

LEMMA CountsUpdate ==
  ASSUME NEW c \in Counts, NEW n \in Nat, NEW a \in Nat, NEW d \in Nat, NEW q \in Nat
  PROVE  CountsWith(c, n, a, d, q) = CountsOf(n, a, d, q, c.resume)
<1> DEFINE x == [c EXCEPT !.total = n, !.allowed = a, !.denied = d, !.approval = q]
<1>1. x \in Counts
  BY DEF Counts
<1>2. x.total = n /\ x.allowed = a /\ x.denied = d /\ x.approval = q /\ x.resume = c.resume
  BY DEF Counts
<1> HIDE DEF x
<1>3. x = [total |-> n, allowed |-> a, denied |-> d, approval |-> q, resume |-> c.resume]
  BY <1>1, <1>2 DEF Counts
<1> QED
  BY <1>3 DEF x, CountsWith, CountsOf

LEMMA CountedFromNone ==
  ASSUME NEW policy, NEW T, NEW tools \in Seq(T)
  PROVE  /\ Counted(policy, NoCounts, tools) = CountedOnce(policy, tools, 0)
         /\ CountedOnce(policy, tools, 0) \in Counts
         /\ [CountedOnce(policy, tools, 0) EXCEPT !.resume = 1] = CountedOnce(policy, tools, 1)
         /\ [CountedOnce(policy, tools, 0) EXCEPT !.resume = @ + 1] = CountedOnce(policy, tools, 1)
         /\ CountedOnce(policy, tools, 1) \in Counts
<1> SUFFICES ASSUME NEW a \in Nat, a = Decided(policy, tools, "allow"),
                    NEW d \in Nat, d = Decided(policy, tools, "deny"),
                    NEW q \in Nat, q = Decided(policy, tools, "require_approval"),
                    NEW n \in Nat, n = Len(tools)
             PROVE  /\ Counted(policy, NoCounts, tools) = CountsOf(n, a, d, q, 0)
                    /\ CountsOf(n, a, d, q, 0) \in Counts
                    /\ [CountsOf(n, a, d, q, 0) EXCEPT !.resume = 1] = CountsOf(n, a, d, q, 1)
                    /\ [CountsOf(n, a, d, q, 0) EXCEPT !.resume = @ + 1] = CountsOf(n, a, d, q, 1)
                    /\ CountsOf(n, a, d, q, 1) \in Counts
  <2>1. /\ Decided(policy, tools, "allow") \in Nat
        /\ Decided(policy, tools, "deny") \in Nat
        /\ Decided(policy, tools, "require_approval") \in Nat
        /\ Len(tools) \in Nat
    BY DecidedIsNat
  <2>2. QED
    BY <2>1 DEF CountedOnce, CountsOf
<1>1. Counted(policy, NoCounts, tools)
        = CountsWith(NoCounts, NoCounts.total + n, NoCounts.allowed + a,
                     NoCounts.denied + d, NoCounts.approval + q)
  BY Zenon DEF Counted, CountsWith
<1>2. NoCounts \in Counts /\ NoCounts.resume = 0
  BY DEF NoCounts, Counts
<1>3. /\ NoCounts.total + n = n /\ NoCounts.allowed + a = a
      /\ NoCounts.denied + d = d /\ NoCounts.approval + q = q
  BY DEF NoCounts
<1>4. CountsWith(NoCounts, n, a, d, q) = CountsOf(n, a, d, q, 0)
  BY <1>2, CountsUpdate
<1>5. Counted(policy, NoCounts, tools) = CountsOf(n, a, d, q, 0)
  BY <1>1, <1>3, <1>4
<1>6. QED
  BY <1>5 DEF CountsOf, Counts

(* The verdicts of an uninterrupted run are counted right. *)
LEMMA VerdictsAreCounted ==
  ASSUME NEW policy, NEW T, NEW tools \in Seq(T)
  PROVE  FirstCounts(Verdicts(policy, tools), Len(Verdicts(policy, tools)))
           = CountedOnce(policy, tools, 0)
<1> DEFINE v == Verdicts(policy, tools)
           n == Len(v)
<1>1. v \in Seq(VerdictEvents(policy, tools))
  BY VerdictsHold DEF VerdictsOf
<1>2. n \in Nat /\ DOMAIN v = 1..n /\ (n + 1) - 1 = n
  BY <1>1
<1>3. \A i \in 1..n : v[i] \in VerdictEvents(policy, tools)
  BY <1>1, <1>2
<1>4. \A i \in 1..n : /\ IsDecision(v[i]) <=> v[i] \in CallVerdicts(policy, tools)
                      /\ IsAllow(v[i]) <=> v[i] \in VerdictsFor(policy, tools, "allow")
                      /\ IsDeny(v[i]) <=> v[i] \in VerdictsFor(policy, tools, "deny")
                      /\ IsApproval(v[i]) <=> v[i] \in VerdictsFor(policy, tools, "require_approval")
                      /\ ~IsResumed(v[i])
  BY <1>3, EventFields, VerdictFields
<1> HIDE DEF v, n
<1>5. CountBefore(v, n + 1, IsDecision) = Num(v, CallVerdicts(policy, tools))
  BY <1>2, <1>4 DEF CountBefore, Num
<1>6. CountBefore(v, n + 1, IsAllow) = Num(v, VerdictsFor(policy, tools, "allow"))
  BY <1>2, <1>4 DEF CountBefore, Num
<1>7. CountBefore(v, n + 1, IsDeny) = Num(v, VerdictsFor(policy, tools, "deny"))
  BY <1>2, <1>4 DEF CountBefore, Num
<1>8. CountBefore(v, n + 1, IsApproval) = Num(v, VerdictsFor(policy, tools, "require_approval"))
  BY <1>2, <1>4 DEF CountBefore, Num
<1>9. CountBefore(v, n + 1, IsResumed) = 0
  <2>1. {i \in 1..n : IsResumed(v[i])} = {}
    BY <1>4
  <2>2. QED
    BY <1>2, <2>1, FS_EmptySet DEF CountBefore
<1>10. FirstCounts(v, n) = CountedOnce(policy, tools, 0)
  BY <1>5, <1>6, <1>7, <1>8, <1>9, NumForCalls, NumForDecision DEF FirstCounts, CountedOnce, v
<1>11. QED
  BY <1>10 DEF v, n

-----------------------------------------------------------------------------
(***************************************************************************)
(* The shapes of the logs.                                                 *)
(***************************************************************************)
(* A log that ends an uninterrupted run. *)
UninterruptedShape(log, policy, tools) ==
  /\ Len(Verdicts(policy, tools)) \in Nat
  /\ DOMAIN log = 1..(Len(Verdicts(policy, tools)) + 1)
  /\ Len(log) = Len(Verdicts(policy, tools)) + 1
  /\ \A i \in 1..Len(Verdicts(policy, tools)) : log[i] = Verdicts(policy, tools)[i]
  /\ log[Len(Verdicts(policy, tools)) + 1] = SummaryEvent(CountedOnce(policy, tools, 0))

LEMMA UninterruptedLogShape ==
  ASSUME NEW policy, NEW T, NEW tools \in Seq(T)
  PROVE  UninterruptedShape(UninterruptedLog(policy, tools), policy, tools)
<1> DEFINE v == Verdicts(policy, tools)
           e == SummaryEvent(CountedOnce(policy, tools, 0))
           F == VerdictEvents(policy, tools) \cup {e}
           log == UninterruptedLog(policy, tools)
<1>1. v \in Seq(VerdictEvents(policy, tools))
  BY VerdictsHold DEF VerdictsOf
<1>2. log = Append(v, e)
  <2>1. Counted(policy, NoCounts, tools) = CountedOnce(policy, tools, 0)
    BY CountedFromNone
  <2>2. QED
    BY <2>1, Zenon DEF UninterruptedLog
<1> HIDE DEF v, e, log
<1>3. v \in Seq(F) /\ e \in F
  BY <1>1
<1> HIDE DEF F
<1>4. /\ Len(v) \in Nat /\ DOMAIN log = 1..(Len(v) + 1) /\ Len(log) = Len(v) + 1
      /\ \A i \in 1..Len(v) : log[i] = v[i]
      /\ log[Len(v) + 1] = e
  BY <1>2, <1>3
<1>5. QED
  BY <1>4 DEF UninterruptedShape, v, e, log

(* A log that begins with an interruption. *)
PauseShape(log, policy, pause) ==
  /\ Len(pause.tools) \in Nat /\ Len(log) \in Nat
  /\ Len(pause.tools) + 1 <= Len(log)
  /\ DOMAIN log = 1..Len(log)
  /\ \A i \in 1..Len(pause.tools) : log[i] = PolicyDecisionEvent(policy, pause.tools[i])
  /\ log[Len(pause.tools) + 1] = InterruptionEvent(pause)

InterruptionEvents(policy, pause, others) ==
  CallVerdicts(policy, pause.tools) \cup {InterruptionEvent(pause)} \cup others

LEMMA InterruptionShape ==
  ASSUME NEW policy, NEW T, NEW pause, pause.tools \in Seq(T), NEW others
  PROVE  /\ PauseShape(Interruption(policy, pause), policy, pause)
         /\ Len(Interruption(policy, pause)) = Len(pause.tools) + 1
         /\ Interruption(policy, pause) \in Seq(InterruptionEvents(policy, pause, others))
<1> DEFINE n == Len(pause.tools)
           F == InterruptionEvents(policy, pause, others)
           v == [i \in DOMAIN pause.tools |-> PolicyDecisionEvent(policy, pause.tools[i])]
           e == InterruptionEvent(pause)
           log == Interruption(policy, pause)
<1>1. n \in Nat /\ DOMAIN pause.tools = 1..n
  OBVIOUS
<1>2. \A i \in 1..n : PolicyDecisionEvent(policy, pause.tools[i]) \in F
  BY <1>1 DEF InterruptionEvents, CallVerdicts
<1>3. e \in F
  BY DEF InterruptionEvents
<1>4. log = Append(v, e)
  BY Zenon DEF Interruption
<1> HIDE DEF n, F, log, e
<1>5. v \in Seq(F) /\ Len(v) = n
  BY <1>1, <1>2
<1>6. \A i \in 1..n : v[i] = PolicyDecisionEvent(policy, pause.tools[i])
  BY <1>1
<1> HIDE DEF v
<1>7. log \in Seq(F) /\ Len(log) = n + 1 /\ DOMAIN log = 1..(n + 1)
  BY <1>1, <1>3, <1>4, <1>5
<1>8. (\A i \in 1..n : log[i] = v[i]) /\ log[n + 1] = e
  BY <1>1, <1>3, <1>4, <1>5
<1>9. QED
  BY <1>1, <1>6, <1>7, <1>8 DEF PauseShape, n, F, log, e

LEMMA LeftLogShape ==
  ASSUME NEW policy, NEW T, NEW pause, pause.tools \in Seq(T)
  PROVE  /\ PauseShape(LeftLog(policy, pause), policy, pause)
         /\ Len(LeftLog(policy, pause)) = Len(pause.tools) + 2
         /\ LeftLog(policy, pause)[Len(pause.tools) + 2]
              = SummaryEvent(CountedOnce(policy, pause.tools, 0))
<1> DEFINE n == Len(pause.tools)
           v == Interruption(policy, pause)
           e == SummaryEvent(CountedOnce(policy, pause.tools, 0))
           F == InterruptionEvents(policy, pause, {e})
           log == LeftLog(policy, pause)
<1>1. log = Append(v, e)
  <2>1. Counted(policy, NoCounts, pause.tools) = CountedOnce(policy, pause.tools, 0)
    BY CountedFromNone
  <2>2. QED
    BY <2>1, Zenon DEF LeftLog
<1>2. PauseShape(v, policy, pause) /\ Len(v) = n + 1
  BY InterruptionShape
<1>3. v \in Seq(F) /\ e \in F
  BY InterruptionShape DEF InterruptionEvents
<1>4. n \in Nat
  OBVIOUS
<1> HIDE DEF n, v, e, F, log
<1>5. /\ Len(log) = n + 2 /\ DOMAIN log = 1..(n + 2)
      /\ \A i \in 1..(n + 1) : log[i] = v[i]
      /\ log[n + 2] = e
  BY <1>1, <1>2, <1>3, <1>4
<1>6. PauseShape(log, policy, pause)
  BY <1>2, <1>4, <1>5 DEF PauseShape, n
<1>7. QED
  BY <1>5, <1>6 DEF n, e, log

LEMMA ResumedLogShape ==
  ASSUME NEW policy, NEW T, NEW pause, pause.tools \in Seq(T), NEW decision
  PROVE  /\ PauseShape(ResumedLog(policy, pause, decision), policy, pause)
         /\ Len(ResumedLog(policy, pause, decision)) = Len(pause.tools) + 3
         /\ ResumedLog(policy, pause, decision)[Len(pause.tools) + 2]
              = ResumedEvent(pause, decision)
         /\ ResumedLog(policy, pause, decision)[Len(pause.tools) + 3]
              = SummaryEvent(CountedOnce(policy, pause.tools, 1))
<1> DEFINE n == Len(pause.tools)
           v == Interruption(policy, pause)
           d == ResumedEvent(pause, decision)
           e == SummaryEvent(CountedOnce(policy, pause.tools, 1))
           F == InterruptionEvents(policy, pause, {d, e})
           log == ResumedLog(policy, pause, decision)
<1>1. log = v \o <<d, e>>
  <2>1. [Counted(policy, NoCounts, pause.tools) EXCEPT !.resume = 1]
          = CountedOnce(policy, pause.tools, 1)
    <3> DEFINE c == CountedOnce(policy, pause.tools, 0)
    <3>1. Counted(policy, NoCounts, pause.tools) = c
      BY CountedFromNone
    <3>2. [c EXCEPT !.resume = 1] = CountedOnce(policy, pause.tools, 1)
      BY DEF CountedOnce
    <3> HIDE DEF c
    <3>3. QED
      BY <3>1, <3>2
  <2>2. QED
    BY <2>1, Zenon DEF ResumedLog
<1>2. PauseShape(v, policy, pause) /\ Len(v) = n + 1
  BY InterruptionShape
<1>3. v \in Seq(F) /\ d \in F /\ e \in F
  BY InterruptionShape DEF InterruptionEvents
<1>4. n \in Nat
  OBVIOUS
<1> HIDE DEF n, v, d, e, F, log
<1>5. <<d, e>> \in Seq(F) /\ Len(<<d, e>>) = 2
  BY <1>3
<1>6. /\ Len(log) = n + 3 /\ DOMAIN log = 1..(n + 3)
      /\ \A i \in 1..(n + 1) : log[i] = v[i]
      /\ log[n + 2] = d /\ log[n + 3] = e
  BY <1>1, <1>2, <1>3, <1>4, <1>5
<1>7. PauseShape(log, policy, pause)
  BY <1>2, <1>4, <1>6 DEF PauseShape, n
<1>8. QED
  BY <1>6, <1>7 DEF n, d, e, log

(* The events of an interruption are counted right, and a resume once. *)
LEMMA PauseCounts ==
  ASSUME NEW policy, NEW T, NEW pause, pause.tools \in Seq(T),
         NEW log, PauseShape(log, policy, pause)
  PROVE  /\ FirstCounts(log, Len(pause.tools) + 1) = CountedOnce(policy, pause.tools, 0)
         /\ IsResumed(log[Len(pause.tools) + 2]) =>
              FirstCounts(log, Len(pause.tools) + 2) = CountedOnce(policy, pause.tools, 1)
<1> DEFINE tools == pause.tools
           n == Len(tools)
<1>1. n \in Nat /\ DOMAIN tools = 1..n
  OBVIOUS
<1>2. \A i \in 1..n : /\ IsDecision(log[i])
                      /\ IsAllow(log[i]) <=> policy[tools[i]] = "allow"
                      /\ IsDeny(log[i]) <=> policy[tools[i]] = "deny"
                      /\ IsApproval(log[i]) <=> policy[tools[i]] = "require_approval"
                      /\ ~IsResumed(log[i])
  <2>1. \A i \in 1..n : log[i] = PolicyDecisionEvent(policy, tools[i])
    BY DEF PauseShape
  <2>2. \A t : /\ IsDecision(PolicyDecisionEvent(policy, t))
               /\ IsAllow(PolicyDecisionEvent(policy, t)) <=> policy[t] = "allow"
               /\ IsDeny(PolicyDecisionEvent(policy, t)) <=> policy[t] = "deny"
               /\ IsApproval(PolicyDecisionEvent(policy, t)) <=> policy[t] = "require_approval"
               /\ ~IsResumed(PolicyDecisionEvent(policy, t))
    BY DEF PolicyDecisionEvent, IsDecision, IsAllow, IsDeny, IsApproval, IsResumed
  <2> HIDE DEF n, tools
  <2>3. QED
    BY <2>1, <2>2, Zenon
<1>3. ~IsDecision(log[n + 1]) /\ ~IsResumed(log[n + 1])
  BY DEF PauseShape, InterruptionEvent, IsDecision, IsResumed
<1>4. IsResumed(log[n + 2]) => ~IsDecision(log[n + 2])
  BY DEF IsDecision, IsResumed
<1>5. \A e : ~IsDecision(e) => ~IsAllow(e) /\ ~IsDeny(e) /\ ~IsApproval(e)
  BY DEF IsAllow, IsDeny, IsApproval
<1>6. Cardinality(1..n) = n
  BY <1>1, CardinalityOfFirst
<1> HIDE DEF n, tools
<1>7. ASSUME NEW m \in {n + 1, n + 2}, m = n + 2 => IsResumed(log[n + 2])
      PROVE  /\ {i \in 1..m : IsDecision(log[i])} = 1..n
             /\ {i \in 1..m : IsAllow(log[i])} = {i \in 1..n : policy[tools[i]] = "allow"}
             /\ {i \in 1..m : IsDeny(log[i])} = {i \in 1..n : policy[tools[i]] = "deny"}
             /\ {i \in 1..m : IsApproval(log[i])} = {i \in 1..n : policy[tools[i]] = "require_approval"}
             /\ {i \in 1..m : IsResumed(log[i])} = IF m = n + 2 THEN {n + 2} ELSE {}
             /\ (m + 1) - 1 = m
  <2>1. \A i : i \in 1..m <=> i \in 1..n \/ i = n + 1 \/ (i = n + 2 /\ m = n + 2)
    BY <1>1
  <2>2. (m + 1) - 1 = m
    BY <1>1
  <2>3. QED
    BY <1>2, <1>3, <1>4, <1>5, <1>7, <2>1, <2>2
<1>8. ASSUME NEW m \in {n + 1, n + 2}, m = n + 2 => IsResumed(log[n + 2])
      PROVE  FirstCounts(log, m) = CountedOnce(policy, tools, IF m = n + 2 THEN 1 ELSE 0)
  <2>1. /\ CountBefore(log, m + 1, IsDecision) = n
        /\ CountBefore(log, m + 1, IsAllow) = Decided(policy, tools, "allow")
        /\ CountBefore(log, m + 1, IsDeny) = Decided(policy, tools, "deny")
        /\ CountBefore(log, m + 1, IsApproval) = Decided(policy, tools, "require_approval")
    BY <1>1, <1>6, <1>7, <1>8 DEF CountBefore, Decided
  <2>2. CountBefore(log, m + 1, IsResumed) = IF m = n + 2 THEN 1 ELSE 0
    <3> DEFINE R == {i \in 1..m : IsResumed(log[i])}
    <3>1. CountBefore(log, m + 1, IsResumed) = Cardinality(R)
      <4>1. (m + 1) - 1 = m
        BY <1>7, <1>8
      <4>2. QED
        BY <4>1 DEF CountBefore
    <3>2. R = IF m = n + 2 THEN {n + 2} ELSE {}
      BY <1>7, <1>8
    <3> HIDE DEF R
    <3>3. Cardinality({}) = 0 /\ Cardinality({n + 2}) = 1
      BY FS_EmptySet, FS_Singleton
    <3>4. QED
      BY <3>1, <3>2, <3>3
  <2>3. QED
    BY <2>1, <2>2 DEF FirstCounts, CountedOnce, n
<1>9. n + 1 # n + 2
  BY <1>1
<1>10. FirstCounts(log, n + 1) = CountedOnce(policy, tools, 0)
  BY <1>8, <1>9
<1>11. IsResumed(log[n + 2]) => FirstCounts(log, n + 2) = CountedOnce(policy, tools, 1)
  BY <1>8
<1>12. QED
  BY <1>10, <1>11 DEF n, tools
=============================================================================
