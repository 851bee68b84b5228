---------------------------- MODULE PolicyProofs -----------------------------
(***************************************************************************)
(* The policy engine and the run under a policy file: matchPattern() means *)
(* what a pattern means, for every name and pattern, and the verdicts in    *)
(* the evidence follow the lists of the file.                              *)
(***************************************************************************)
EXTENDS PolicedRun, HarnessRunProofs

-----------------------------------------------------------------------------
(***************************************************************************)
(* matchPattern() against what a pattern means.                            *)
(***************************************************************************)
(* Where the first i tokens can end, given the same for one token less. *)
EndsAfter(name, pattern, e, i) ==
  IF i = 0 THEN {0}
  ELSE IF pattern[i] = Star
       THEN {j \in 0..Len(name) : \E k \in e[i - 1] : k <= j}
       ELSE {j \in 1..Len(name) : j - 1 \in e[i - 1] /\ name[j] = pattern[i]}

Ends(name, pattern, e, n) == e = [i \in 0..n |-> EndsAfter(name, pattern, e, i)]

LEMMA EndsExist ==
  ASSUME NEW name, NEW pattern, NEW N \in Nat
  PROVE  \E e : Ends(name, pattern, e, N)
<1> DEFINE Defined(n) == \E e : Ends(name, pattern, e, n)
           P == {n \in Nat : Defined(n)}
<1>1. 0 \in P
  <2> DEFINE e == [i \in 0..0 |-> {0}]
             h == [i \in 0..0 |-> EndsAfter(name, pattern, e, i)]
  <2>1. \A i \in 0..0 : EndsAfter(name, pattern, e, i) = {0}
    BY DEF EndsAfter
  <2>2. h = e
    BY <2>1
  <2>3. Ends(name, pattern, e, 0)
    BY <2>2 DEF Ends
  <2>4. QED
    BY <2>3
<1>2. ASSUME NEW n \in Nat, n \in P PROVE n + 1 \in P
  <2>1. PICK f : f = [i \in 0..n |-> EndsAfter(name, pattern, f, i)]
    BY <1>2 DEF Ends
  <2> DEFINE g == [i \in 0..(n + 1) |-> IF i <= n THEN f[i] ELSE EndsAfter(name, pattern, f, i)]
             h == [i \in 0..(n + 1) |-> EndsAfter(name, pattern, g, i)]
  <2>2. ASSUME NEW i \in 0..(n + 1) PROVE g[i] = EndsAfter(name, pattern, g, i)
    <3>1. i # 0 => g[i - 1] = f[i - 1]
      OBVIOUS
    <3>2. EndsAfter(name, pattern, g, i) = EndsAfter(name, pattern, f, i)
      <4> HIDE DEF g
      <4>1. QED
        BY <3>1 DEF EndsAfter
    <3>3. g[i] = EndsAfter(name, pattern, f, i)
      <4>1. CASE i <= n
        <5>1. i \in 0..n /\ g[i] = f[i]
          BY <4>1
        <5>2. QED
          BY <2>1, <5>1
      <4>2. CASE ~(i <= n)
        BY <4>2
      <4>3. QED
        BY <4>1, <4>2
    <3>4. QED
      BY <3>2, <3>3
  <2>3. g = h
    BY <2>2, Zenon
  <2> HIDE DEF g
  <2>4. Ends(name, pattern, g, n + 1)
    BY <2>3 DEF Ends
  <2>5. Defined(n + 1)
    BY <2>4
  <2> HIDE DEF Defined
  <2>6. QED
    BY <2>5
<1> HIDE DEF P
<1>3. Nat \subseteq P
  BY <1>1, <1>2, NatInduct
<1>4. QED
  BY <1>3 DEF P

(* The first i tokens are cut out of the first j of the name. *)
CutTo(name, pattern, i, j, cut) ==
  /\ cut \in [0..i -> 0..Len(name)]
  /\ cut[0] = 0 /\ cut[i] = j
  /\ \A m \in 1..i :
       /\ cut[m - 1] <= cut[m]
       /\ pattern[m] # Star => cut[m] = cut[m - 1] + 1 /\ name[cut[m]] = pattern[m]

CanCut(name, pattern, i, j) == \E cut : CutTo(name, pattern, i, j, cut)

LEMMA CutMore ==
  ASSUME NEW name, Len(name) \in Nat, NEW pattern, NEW i \in Nat,
         NEW k \in 0..Len(name), CanCut(name, pattern, i, k), NEW j \in 0..Len(name), k <= j,
         pattern[i + 1] # Star => j = k + 1 /\ name[j] = pattern[i + 1]
  PROVE  CanCut(name, pattern, i + 1, j)
<1>1. PICK c : CutTo(name, pattern, i, k, c)
  BY DEF CanCut
<1> DEFINE d == [m \in 0..(i + 1) |-> IF m = i + 1 THEN j ELSE c[m]]
<1>2. d \in [0..(i + 1) -> 0..Len(name)]
  <2>1. \A m \in 0..(i + 1) : m # i + 1 => m \in 0..i
    OBVIOUS
  <2>2. QED
    BY <1>1, <2>1 DEF CutTo
<1>3. d[0] = 0 /\ d[i + 1] = j
  BY <1>1 DEF CutTo
<1>4. ASSUME NEW m \in 1..(i + 1)
      PROVE  /\ d[m - 1] <= d[m]
             /\ pattern[m] # Star => d[m] = d[m - 1] + 1 /\ name[d[m]] = pattern[m]
  <2>1. CASE m = i + 1
    <3>1. d[m] = j /\ d[m - 1] = c[i]
      BY <2>1
    <3>2. c[i] = k
      BY <1>1 DEF CutTo
    <3> HIDE DEF d
    <3>3. QED
      BY <2>1, <3>1, <3>2
  <2>2. CASE m # i + 1
    <3>1. d[m] = c[m] /\ d[m - 1] = c[m - 1] /\ m \in 1..i
      BY <2>2
    <3> HIDE DEF d
    <3>2. QED
      BY <1>1, <3>1 DEF CutTo
  <2>3. QED
    BY <2>1, <2>2
<1> HIDE DEF d
<1>5. CutTo(name, pattern, i + 1, j, d)
  BY <1>2, <1>3, <1>4 DEF CutTo
<1>6. QED
  BY <1>5 DEF CanCut

LEMMA CutLess ==
  ASSUME NEW name, Len(name) \in Nat, NEW pattern, NEW i \in Nat,
         NEW j \in 0..Len(name), CanCut(name, pattern, i + 1, j)
  PROVE  \E k \in 0..Len(name) :
           /\ CanCut(name, pattern, i, k) /\ k <= j
           /\ pattern[i + 1] # Star => j = k + 1 /\ name[j] = pattern[i + 1]
<1>1. PICK c : CutTo(name, pattern, i + 1, j, c)
  BY DEF CanCut
<1> DEFINE d == [m \in 0..i |-> c[m]]
           k == c[i]
<1>2. i \in 0..(i + 1) /\ \A m \in 0..i : m \in 0..(i + 1)
  OBVIOUS
<1>3. d \in [0..i -> 0..Len(name)] /\ k \in 0..Len(name)
  BY <1>1, <1>2 DEF CutTo
<1>4. d[0] = 0 /\ d[i] = k
  BY <1>1 DEF CutTo
<1>5. ASSUME NEW m \in 1..i
      PROVE  /\ d[m - 1] <= d[m]
             /\ pattern[m] # Star => d[m] = d[m - 1] + 1 /\ name[d[m]] = pattern[m]
  <2>1. d[m] = c[m] /\ d[m - 1] = c[m - 1] /\ m \in 1..(i + 1)
    OBVIOUS
  <2> HIDE DEF d
  <2>2. QED
    BY <1>1, <2>1 DEF CutTo
<1> HIDE DEF d
<1>6. CanCut(name, pattern, i, k)
  BY <1>3, <1>4, <1>5 DEF CanCut, CutTo
<1>7. /\ k <= j
      /\ pattern[i + 1] # Star => j = k + 1 /\ name[j] = pattern[i + 1]
  <2>1. i + 1 \in 1..(i + 1) /\ (i + 1) - 1 = i
    OBVIOUS
  <2>2. QED
    BY <1>1, <2>1 DEF CutTo
<1> HIDE DEF k
<1>8. QED
  BY <1>3, <1>6, <1>7

(* The table of globToRegex() finds the cuts. *)
LEMMA EndsAreCuts ==
  ASSUME NEW name, Len(name) \in Nat, NEW pattern, NEW N \in Nat,
         NEW e, Ends(name, pattern, e, N)
  PROVE  \A i \in 0..N : e[i] = {j \in 0..Len(name) : CanCut(name, pattern, i, j)}
<1> DEFINE C(i) == {j \in 0..Len(name) : CanCut(name, pattern, i, j)}
           P == {i \in Nat : i <= N => e[i] = C(i)}
<1>1. \A i \in 0..N : e[i] = EndsAfter(name, pattern, e, i)
  BY DEF Ends
<1>2. 0 \in P
  <2>1. e[0] = {0}
    <3>1. e[0] = EndsAfter(name, pattern, e, 0)
      BY <1>1
    <3>2. EndsAfter(name, pattern, e, 0) = {0}
      BY DEF EndsAfter
    <3>3. QED
      BY <3>1, <3>2
  <2>2. \A j \in 0..Len(name) : CanCut(name, pattern, 0, j) => j = 0
    BY DEF CanCut, CutTo
  <2>3. CutTo(name, pattern, 0, 0, [m \in 0..0 |-> 0])
    BY DEF CutTo
  <2>4. C(0) = {0}
    BY <2>2, <2>3 DEF CanCut
  <2>5. QED
    BY <2>1, <2>4
<1>3. ASSUME NEW i \in Nat, i \in P PROVE i + 1 \in P
  <2> SUFFICES ASSUME i + 1 <= N PROVE e[i + 1] = C(i + 1)
    OBVIOUS
  <2>1. e[i] = C(i) /\ i + 1 \in 0..N /\ (i + 1) - 1 = i /\ i + 1 # 0
    BY <1>3
  <2>2. e[i + 1] = IF pattern[i + 1] = Star
                   THEN {j \in 0..Len(name) : \E k \in e[i] : k <= j}
                   ELSE {j \in 1..Len(name) : j - 1 \in e[i] /\ name[j] = pattern[i + 1]}
    BY <1>1, <2>1 DEF EndsAfter
  <2>3. ASSUME NEW j \in e[i + 1] PROVE j \in C(i + 1)
    <3>1. j \in 0..Len(name)
      BY <2>2
    <3>2. PICK k \in 0..Len(name) : /\ CanCut(name, pattern, i, k) /\ k <= j
                                    /\ pattern[i + 1] # Star => j = k + 1 /\ name[j] = pattern[i + 1]
      <4>1. CASE pattern[i + 1] = Star
        BY <2>1, <2>2, <4>1
      <4>2. CASE pattern[i + 1] # Star
        <5>1. j \in 1..Len(name) /\ j - 1 \in C(i) /\ name[j] = pattern[i + 1]
          BY <2>1, <2>2, <4>2
        <5>2. j - 1 <= j /\ j = (j - 1) + 1
          BY <5>1
        <5>3. QED
          BY <5>1, <5>2
      <4>3. QED
        BY <4>1, <4>2
    <3>3. CanCut(name, pattern, i + 1, j)
      BY <3>1, <3>2, CutMore
    <3>4. QED
      BY <3>1, <3>3
  <2>4. ASSUME NEW j \in C(i + 1) PROVE j \in e[i + 1]
    <3>1. PICK k \in 0..Len(name) : /\ CanCut(name, pattern, i, k) /\ k <= j
                                    /\ pattern[i + 1] # Star => j = k + 1 /\ name[j] = pattern[i + 1]
      BY CutLess
    <3>2. k \in e[i]
      BY <2>1, <3>1
    <3>3. CASE pattern[i + 1] = Star
      BY <2>2, <3>1, <3>2, <3>3
    <3>4. CASE pattern[i + 1] # Star
      <4>1. j \in 1..Len(name) /\ j - 1 = k
        BY <3>1, <3>4
      <4>2. QED
        BY <2>2, <3>1, <3>2, <3>4, <4>1
    <3>5. QED
      BY <3>3, <3>4
  <2> HIDE DEF C
  <2>5. QED
    BY <2>3, <2>4
<1> HIDE DEF P, C
<1>4. Nat \subseteq P
  BY <1>2, <1>3, NatInduct
<1>5. QED
  BY <1>4 DEF P, C

LEMMA RegexCuts ==
  ASSUME NEW name, Len(name) \in Nat, NEW pattern, Len(pattern) \in Nat
  PROVE  GlobToRegex(name, pattern) <=> CanCut(name, pattern, Len(pattern), Len(name))
<1> DEFINE e == CHOOSE x : Ends(name, pattern, x, Len(pattern))
<1>1. GlobToRegex(name, pattern) = (Len(name) \in e[Len(pattern)])
  BY DEF GlobToRegex, Ends, EndsAfter
<1>2. Ends(name, pattern, e, Len(pattern))
  BY EndsExist
<1> HIDE DEF e
<1>3. e[Len(pattern)] = {j \in 0..Len(name) : CanCut(name, pattern, Len(pattern), j)}
  BY <1>2, EndsAreCuts
<1>4. Len(name) \in 0..Len(name)
  OBVIOUS
<1>5. Len(name) \in e[Len(pattern)] <=> CanCut(name, pattern, Len(pattern), Len(name))
  BY <1>3, <1>4
<1>6. QED
  BY <1>1, <1>5, Zenon

(* A piece is a token if it is one token long. *)
Piece(name, a, b, t) == SubSeq(name, a + 1, b) = <<t>>
Token(name, a, b, t) == b = a + 1 /\ name[b] = t

LEMMA PieceIsToken ==
  ASSUME NEW X, NEW name \in Seq(X), NEW a \in 0..Len(name), NEW b \in 0..Len(name), a <= b, NEW t
  PROVE  Piece(name, a, b, t) <=> Token(name, a, b, t)
<1> DEFINE s == SubSeq(name, a + 1, b)
<1>1. Len(s) = b - a /\ \A i \in 1..(b - a) : s[i] = name[a + i]
  OBVIOUS
<1>2. s \in Seq(X)
  OBVIOUS
<1>3. ASSUME s = <<t>> PROVE b = a + 1 /\ name[b] = t
  <2>1. Len(<<t>>) = 1 /\ <<t>>[1] = t
    OBVIOUS
  <2> HIDE DEF s
  <2>2. b - a = 1
    BY <1>1, <1>3, <2>1
  <2>3. s[1] = name[a + 1] /\ b = a + 1
    BY <1>1, <2>2
  <2>4. QED
    BY <1>3, <2>1, <2>3
<1>4. ASSUME b = a + 1, name[b] = t PROVE s = <<t>>
  <2>1. b - a = 1 /\ a + 1 = b
    BY <1>4
  <2> HIDE DEF s
  <2>2. Len(s) = 1 /\ 1 \in 1..(b - a)
    BY <1>1, <2>1
  <2>3. s[1] = name[a + 1]
    BY <1>1, <2>2
  <2>4. s[1] = t
    BY <1>4, <2>1, <2>3
  <2>5. QED
    BY <1>2, <2>2, <2>4
<1>5. QED
  BY <1>3, <1>4 DEF Piece, Token

LEMMA GlobIsCut ==
  ASSUME NEW X, NEW name \in Seq(X), NEW Y, NEW pattern \in Seq(Y)
  PROVE  Glob(name, pattern) <=> CanCut(name, pattern, Len(pattern), Len(name))
<1> DEFINE n == Len(name)
           m == Len(pattern)
<1>1. n \in Nat /\ m \in Nat /\ DOMAIN pattern = 1..m
  OBVIOUS
<1>2. ASSUME NEW cut \in [0..m -> 0..n], NEW i \in 1..m, cut[i - 1] <= cut[i]
      PROVE  Piece(name, cut[i - 1], cut[i], pattern[i])
               <=> Token(name, cut[i - 1], cut[i], pattern[i])
  <2>1. i \in 0..m /\ i - 1 \in 0..m
    BY <1>1
  <2>2. cut[i] \in 0..n /\ cut[i - 1] \in 0..n
    BY <2>1
  <2> DEFINE x == cut[i - 1]
             y == cut[i]
             t == pattern[i]
  <2> HIDE DEF x, y, t
  <2>3. x \in 0..Len(name) /\ y \in 0..Len(name) /\ x <= y
    BY <1>2, <2>2 DEF x, y
  <2>4. Piece(name, x, y, t) <=> Token(name, x, y, t)
    BY <2>3, PieceIsToken
  <2>5. QED
    BY <2>4 DEF x, y, t
<1> DEFINE Fits(cut, i) == /\ cut[i - 1] <= cut[i]
                           /\ pattern[i] # Star => Piece(name, cut[i - 1], cut[i], pattern[i])
<1>3. Glob(name, pattern) <=>
        \E cut \in [0..m -> 0..n] : cut[0] = 0 /\ cut[m] = n /\ \A i \in DOMAIN pattern : Fits(cut, i)
  BY Zenon DEF Glob, Piece
<1>4. CanCut(name, pattern, m, n) <=>
        \E cut \in [0..m -> 0..n] : /\ cut[0] = 0 /\ cut[m] = n
                                    /\ \A i \in 1..m :
                                         /\ cut[i - 1] <= cut[i]
                                         /\ pattern[i] # Star => Token(name, cut[i - 1], cut[i], pattern[i])
  BY DEF CanCut, CutTo, Token
<1> HIDE DEF n, m
<1>5. QED
  BY <1>1, <1>2, <1>3, <1>4 DEF n, m

StartsWith(t, s) == Len(s) <= Len(t) /\ \A i \in 1..Len(s) : s[i] = t[i]
EndsWith(t, s) ==
  Len(s) <= Len(t) /\ \A i \in 1..Len(s) : s[i] = t[Len(t) - Len(s) + i]

LEMMA PrefixTokens ==
  ASSUME NEW X, NEW s \in Seq(X), NEW Y, NEW t \in Seq(Y)
  PROVE  IsPrefix(s, t) <=> StartsWith(t, s)
<1>1. Len(s) \in Nat /\ Len(t) \in Nat
  OBVIOUS
<1>2. ASSUME Len(s) <= Len(t)
      PROVE  SubSeq(s, 1, Len(s)) = SubSeq(t, 1, Len(s)) <=> \A i \in 1..Len(s) : s[i] = t[i]
  <2> DEFINE k == Len(s)
             a == SubSeq(s, 1, k)
             b == SubSeq(t, 1, k)
  <2>1. /\ a \in Seq(X \cup Y) /\ Len(a) = k /\ \A i \in 1..k : a[i] = s[i]
        /\ b \in Seq(X \cup Y) /\ Len(b) = k /\ \A i \in 1..k : b[i] = t[i]
    BY <1>1, <1>2
  <2> HIDE DEF a, b, k
  <2>2. a = b <=> \A i \in 1..k : a[i] = b[i]
    BY <2>1
  <2>3. QED
    BY <2>1, <2>2 DEF a, b, k
<1>3. QED
  BY <1>2 DEF IsPrefix, StartsWith

LEMMA SuffixTokens ==
  ASSUME NEW X, NEW s \in Seq(X), NEW Y, NEW t \in Seq(Y)
  PROVE  IsSuffix(s, t) <=> EndsWith(t, s)
<1> DEFINE a == Reverse(s)
           b == Reverse(t)
           n == Len(s)
           m == Len(t)
<1>1. n \in Nat /\ m \in Nat
  OBVIOUS
<1>2. a \in Seq(X) /\ Len(a) = n /\ \A i \in 1..n : a[i] = s[(n - i) + 1]
  BY DEF Reverse
<1>3. b \in Seq(Y) /\ Len(b) = m /\ \A i \in 1..m : b[i] = t[(m - i) + 1]
  BY DEF Reverse
<1> HIDE DEF a, b, n, m
<1>4. IsPrefix(a, b) <=> n <= m /\ \A i \in 1..n : a[i] = b[i]
  <2>1. IsPrefix(a, b) <=> StartsWith(b, a)
    BY <1>2, <1>3, PrefixTokens
  <2>2. QED
    BY <1>2, <1>3, <2>1 DEF StartsWith
<1>5. ASSUME n <= m, \A i \in 1..n : a[i] = b[i], NEW i \in 1..n PROVE s[i] = t[m - n + i]
  <2> DEFINE j == (n - i) + 1
  <2>1. j \in 1..n /\ j \in 1..m /\ (n - j) + 1 = i /\ (m - j) + 1 = m - n + i
    BY <1>1, <1>5
  <2> HIDE DEF j
  <2>2. QED
    BY <1>2, <1>3, <1>5, <2>1
<1>6. ASSUME n <= m, \A i \in 1..n : s[i] = t[m - n + i], NEW i \in 1..n PROVE a[i] = b[i]
  <2> DEFINE j == (n - i) + 1
  <2>1. j \in 1..n /\ i \in 1..m /\ (m - i) + 1 = m - n + j
    BY <1>1, <1>6
  <2> HIDE DEF j
  <2>2. a[i] = s[j] /\ b[i] = t[(m - i) + 1]
    BY <1>2, <1>3, <2>1 DEF j
  <2>3. QED
    BY <1>6, <2>1, <2>2
<1>7. QED
  BY <1>4, <1>5, <1>6 DEF IsSuffix, EndsWith, a, b, n, m

(* A name matches itself; cut after every token. *)
LEMMA ExactGlob ==
  ASSUME NEW X, NEW name \in Seq(X)
  PROVE  Glob(name, name)
<1> DEFINE n == Len(name)
           c == [i \in 0..n |-> i]
<1>1. n \in Nat
  OBVIOUS
<1>2. CutTo(name, name, n, n, c)
  <2>1. c \in [0..n -> 0..n] /\ c[0] = 0 /\ c[n] = n
    BY <1>1
  <2>2. \A i \in 1..n : c[i] = i /\ c[i - 1] = i - 1 /\ (i - 1) + 1 = i
    BY <1>1
  <2> HIDE DEF c
  <2>3. QED
    BY <1>1, <2>1, <2>2 DEF CutTo
<1>3. QED
  BY <1>2, GlobIsCut DEF CanCut

LEMMA FirstForm ==
  ASSUME NEW Y, NEW pattern \in Seq(Y), StarFirst(pattern)
  PROVE  /\ 2 <= Len(pattern) /\ pattern[1] = Star
         /\ Tail(pattern) \in Seq(Y) /\ Len(Tail(pattern)) = Len(pattern) - 1
         /\ \A i \in 1..(Len(pattern) - 1) : Tail(pattern)[i] = pattern[i + 1]
<1>1. <<Star, Dot>> \in Seq({Star, Dot}) /\ Len(<<Star, Dot>>) = 2 /\ <<Star, Dot>>[1] = Star
  OBVIOUS
<1>2. StartsWith(pattern, <<Star, Dot>>)
  BY <1>1, PrefixTokens DEF StarFirst
<1>3. 2 <= Len(pattern) /\ pattern[1] = Star
  BY <1>1, <1>2 DEF StartsWith
<1>4. Len(pattern) \in Nat /\ pattern # <<>>
  BY <1>3
<1>5. QED
  BY <1>3, <1>4

(* endsWith() on the rest of a pattern that begins with an asterisk and a   *)
(* dot.                                                                    *)
LEMMA FirstGlob ==
  ASSUME NEW X, NEW name \in Seq(X), NEW Y, NEW pattern \in Seq(Y),
         StarFirst(pattern), IsSuffix(Tail(pattern), name)
  PROVE  Glob(name, pattern)
<1> DEFINE n == Len(name)
           m == Len(pattern)
           c == [i \in 0..m |-> IF i = 0 THEN 0 ELSE n - m + i]
<1>1. /\ n \in Nat /\ m \in Nat /\ 2 <= m /\ pattern[1] = Star
      /\ Tail(pattern) \in Seq(Y) /\ Len(Tail(pattern)) = m - 1
      /\ \A i \in 1..(m - 1) : Tail(pattern)[i] = pattern[i + 1]
  BY FirstForm
<1>2. EndsWith(name, Tail(pattern))
  BY <1>1, SuffixTokens
<1>3. m - 1 <= n /\ \A i \in 1..(m - 1) : pattern[i + 1] = name[n - (m - 1) + i]
  BY <1>1, <1>2 DEF EndsWith
<1> HIDE DEF n, m
<1>4. c \in [0..m -> 0..n] /\ c[0] = 0 /\ c[m] = n
  BY <1>1, <1>3
<1>5. ASSUME NEW i \in 1..m
      PROVE  /\ c[i - 1] <= c[i]
             /\ pattern[i] # Star => c[i] = c[i - 1] + 1 /\ name[c[i]] = pattern[i]
  <2>1. CASE i = 1
    BY <1>1, <1>3, <2>1
  <2>2. CASE i # 1
    <3>1. c[i] = n - m + i /\ c[i - 1] = n - m + (i - 1) /\ c[i] = c[i - 1] + 1
      BY <1>1, <2>2
    <3>2. c[i - 1] <= c[i]
      BY <1>1, <3>1
    <3>3. i - 1 \in 1..(m - 1) /\ (i - 1) + 1 = i /\ n - (m - 1) + (i - 1) = n - m + i
      BY <1>1, <2>2
    <3>4. name[n - m + i] = pattern[i]
      BY <1>3, <3>3
    <3> HIDE DEF c
    <3>5. QED
      BY <3>1, <3>2, <3>4
  <2>3. QED
    BY <2>1, <2>2
<1> HIDE DEF c
<1>6. CutTo(name, pattern, m, n, c)
  BY <1>4, <1>5 DEF CutTo, n
<1>7. QED
  BY <1>6, GlobIsCut DEF CanCut, n, m

LEMMA FirstGlobOnly ==
  ASSUME NEW X, NEW name \in Seq(X), NEW Y, NEW pattern \in Seq(Y),
         StarFirst(pattern), \A i \in DOMAIN pattern : pattern[i] = Star => i = 1,
         Glob(name, pattern)
  PROVE  IsSuffix(Tail(pattern), name)
<1> DEFINE n == Len(name)
           m == Len(pattern)
<1>1. /\ n \in Nat /\ m \in Nat /\ 2 <= m /\ DOMAIN pattern = 1..m
      /\ Tail(pattern) \in Seq(Y) /\ Len(Tail(pattern)) = m - 1
      /\ \A i \in 1..(m - 1) : Tail(pattern)[i] = pattern[i + 1]
  BY FirstForm
<1>2. PICK c : CutTo(name, pattern, m, n, c)
  BY GlobIsCut DEF CanCut
<1> HIDE DEF n, m
<1>3. /\ c \in [0..m -> 0..n] /\ c[m] = n
      /\ \A i \in 1..m : pattern[i] # Star => c[i] = c[i - 1] + 1 /\ name[c[i]] = pattern[i]
  BY <1>2 DEF CutTo, n
<1> DEFINE P == {k \in Nat : k <= m - 1 => c[m - k] = n - k}
<1>4. 0 \in P
  BY <1>1, <1>3
<1>5. ASSUME NEW k \in Nat, k \in P PROVE k + 1 \in P
  <2> SUFFICES ASSUME k + 1 <= m - 1 PROVE c[m - (k + 1)] = n - (k + 1)
    OBVIOUS
  <2>1. m - k \in 1..m /\ m - k # 1 /\ (m - k) - 1 = m - (k + 1) /\ m - (k + 1) \in 0..m
    BY <1>1
  <2>2. c[m - k] = n - k
    BY <1>1, <1>5
  <2>3. c[m - k] = c[m - (k + 1)] + 1
    BY <1>1, <1>3, <2>1
  <2>4. c[m - (k + 1)] \in 0..n
    BY <1>3, <2>1
  <2>5. QED
    BY <1>1, <2>2, <2>3, <2>4
<1> HIDE DEF P
<1>6. Nat \subseteq P
  BY <1>4, <1>5, NatInduct
<1>7. \A i \in 1..m : c[i] = n - m + i
  <2> SUFFICES ASSUME NEW i \in 1..m PROVE c[i] = n - m + i
    OBVIOUS
  <2>1. m - i \in Nat /\ m - i <= m - 1 /\ m - (m - i) = i /\ n - (m - i) = n - m + i
    BY <1>1
  <2>2. QED
    BY <1>6, <2>1 DEF P
<1>8. m - 1 <= n
  <2>1. c[1] \in 0..n /\ c[1] = n - m + 1
    BY <1>1, <1>3, <1>7
  <2>2. QED
    BY <1>1, <2>1
<1>9. \A i \in 1..(m - 1) : pattern[i + 1] = name[n - (m - 1) + i]
  <2> SUFFICES ASSUME NEW i \in 1..(m - 1) PROVE pattern[i + 1] = name[n - (m - 1) + i]
    OBVIOUS
  <2>1. i + 1 \in 1..m /\ i + 1 # 1 /\ n - m + (i + 1) = n - (m - 1) + i
    BY <1>1
  <2> DEFINE k == i + 1
  <2>2. k \in 1..m /\ pattern[k] # Star
    BY <1>1, <2>1
  <2> HIDE DEF k
  <2>3. name[c[k]] = pattern[k] /\ c[k] = n - m + k
    BY <1>3, <1>7, <2>2
  <2>4. QED
    BY <2>1, <2>3 DEF k
<1>10. EndsWith(name, Tail(pattern))
  BY <1>1, <1>8, <1>9 DEF EndsWith, n
<1>11. QED
  BY <1>1, <1>10, SuffixTokens

LEMMA LastForm ==
  ASSUME NEW Y, NEW pattern \in Seq(Y), StarLast(pattern)
  PROVE  /\ 2 <= Len(pattern) /\ pattern[Len(pattern)] = Star
         /\ Front(pattern) \in Seq(Y) /\ Len(Front(pattern)) = Len(pattern) - 1
         /\ \A i \in 1..(Len(pattern) - 1) : Front(pattern)[i] = pattern[i]
<1>1. <<Dot, Star>> \in Seq({Star, Dot}) /\ Len(<<Dot, Star>>) = 2 /\ <<Dot, Star>>[2] = Star
  OBVIOUS
<1>2. EndsWith(pattern, <<Dot, Star>>)
  BY <1>1, SuffixTokens DEF StarLast
<1>3. 2 <= Len(pattern) /\ pattern[Len(pattern) - 2 + 2] = Star
  BY <1>1, <1>2 DEF EndsWith
<1>4. Len(pattern) \in Nat /\ Len(pattern) - 2 + 2 = Len(pattern)
  OBVIOUS
<1>5. QED
  BY <1>3, <1>4 DEF Front

(* startsWith() on the rest of a pattern that ends with a dot and an        *)
(* asterisk.                                                               *)
LEMMA LastGlob ==
  ASSUME NEW X, NEW name \in Seq(X), NEW Y, NEW pattern \in Seq(Y),
         StarLast(pattern), IsPrefix(Front(pattern), name)
  PROVE  Glob(name, pattern)
<1> DEFINE n == Len(name)
           m == Len(pattern)
           c == [i \in 0..m |-> IF i = m THEN n ELSE i]
<1>1. /\ n \in Nat /\ m \in Nat /\ 2 <= m /\ pattern[m] = Star
      /\ Front(pattern) \in Seq(Y) /\ Len(Front(pattern)) = m - 1
      /\ \A i \in 1..(m - 1) : Front(pattern)[i] = pattern[i]
  BY LastForm
<1>2. StartsWith(name, Front(pattern))
  BY <1>1, PrefixTokens
<1>3. m - 1 <= n /\ \A i \in 1..(m - 1) : pattern[i] = name[i]
  BY <1>1, <1>2 DEF StartsWith
<1> HIDE DEF n, m
<1>4. c \in [0..m -> 0..n] /\ c[0] = 0 /\ c[m] = n
  BY <1>1, <1>3
<1>5. ASSUME NEW i \in 1..m
      PROVE  /\ c[i - 1] <= c[i]
             /\ pattern[i] # Star => c[i] = c[i - 1] + 1 /\ name[c[i]] = pattern[i]
  <2>1. CASE i = m
    BY <1>1, <1>3, <2>1
  <2>2. CASE i # m
    <3>1. c[i] = i /\ c[i - 1] = i - 1 /\ (i - 1) + 1 = i /\ i \in 1..(m - 1)
      BY <1>1, <2>2
    <3> HIDE DEF c
    <3>2. QED
      BY <1>3, <3>1
  <2>3. QED
    BY <2>1, <2>2
<1> HIDE DEF c
<1>6. CutTo(name, pattern, m, n, c)
  BY <1>4, <1>5 DEF CutTo, n
<1>7. QED
  BY <1>6, GlobIsCut DEF CanCut, n, m

(* Tokens before the first asterisk are cut off one by one. *)
CutSingly(c, p) == \A i \in 0..p : c[i] = i

LEMMA CutsBeforeStar ==
  ASSUME NEW name, Len(name) \in Nat, NEW pattern, NEW m \in Nat, NEW j,
         NEW c, CutTo(name, pattern, m, j, c),
         NEW p \in 0..m, \A i \in 1..p : pattern[i] # Star
  PROVE  CutSingly(c, p)
<1> DEFINE P == {k \in Nat : k <= p => c[k] = k}
<1>1. c[0] = 0 /\ \A i \in 1..m : pattern[i] # Star => c[i] = c[i - 1] + 1
  BY DEF CutTo
<1>2. 0 \in P
  BY <1>1
<1>3. ASSUME NEW k \in Nat, k \in P PROVE k + 1 \in P
  <2> SUFFICES ASSUME k + 1 <= p PROVE c[k + 1] = k + 1
    OBVIOUS
  <2>1. k + 1 \in 1..p /\ k + 1 \in 1..m /\ (k + 1) - 1 = k /\ c[k] = k
    BY <1>3
  <2>2. QED
    BY <1>1, <2>1
<1> HIDE DEF P
<1>4. Nat \subseteq P
  BY <1>2, <1>3, NatInduct
<1>5. QED
  BY <1>4 DEF P, CutSingly

LEMMA LastGlobOnly ==
  ASSUME NEW X, NEW name \in Seq(X), NEW Y, NEW pattern \in Seq(Y),
         StarLast(pattern), \A i \in DOMAIN pattern : pattern[i] = Star => i = Len(pattern),
         Glob(name, pattern)
  PROVE  IsPrefix(Front(pattern), name)
<1> DEFINE n == Len(name)
           m == Len(pattern)
<1>1. /\ n \in Nat /\ m \in Nat /\ 2 <= m /\ DOMAIN pattern = 1..m
      /\ Front(pattern) \in Seq(Y) /\ Len(Front(pattern)) = m - 1
      /\ \A i \in 1..(m - 1) : Front(pattern)[i] = pattern[i]
  BY LastForm
<1>2. PICK c : CutTo(name, pattern, m, n, c)
  BY GlobIsCut DEF CanCut
<1>3. \A i \in 1..(m - 1) : pattern[i] # Star
  BY <1>1
<1>4. m - 1 \in 0..m
  BY <1>1
<1>5. \A i \in 0..(m - 1) : c[i] = i
  <2> DEFINE p == m - 1
  <2> HIDE DEF p
  <2>1. p \in 0..m /\ \A i \in 1..p : pattern[i] # Star
    BY <1>3, <1>4 DEF p
  <2>2. CutSingly(c, p)
    BY <1>1, <1>2, <2>1, CutsBeforeStar
  <2>3. QED
    BY <2>2 DEF p, CutSingly
<1> HIDE DEF n, m
<1>6. c \in [0..m -> 0..n] /\ \A i \in 1..m : pattern[i] # Star => name[c[i]] = pattern[i]
  BY <1>2 DEF CutTo, n
<1>7. m - 1 <= n
  <2>1. m - 1 \in 0..(m - 1)
    BY <1>1
  <2>2. c[m - 1] = m - 1 /\ c[m - 1] \in 0..n
    BY <1>4, <1>5, <1>6, <2>1
  <2>3. QED
    BY <1>1, <2>2
<1>8. \A i \in 1..(m - 1) : pattern[i] = name[i]
  BY <1>1, <1>3, <1>5, <1>6
<1>9. StartsWith(name, Front(pattern))
  BY <1>1, <1>7, <1>8 DEF StartsWith, n
<1>10. QED
  BY <1>1, <1>9, PrefixTokens

(* A pattern without asterisks means the name itself. *)
LEMMA PlainGlobOnly ==
  ASSUME NEW X, NEW name \in Seq(X), NEW Y, NEW pattern \in Seq(Y),
         Star \notin ToSet(pattern), Glob(name, pattern)
  PROVE  pattern = name
<1> DEFINE n == Len(name)
           m == Len(pattern)
<1>1. n \in Nat /\ m \in Nat /\ DOMAIN pattern = 1..m /\ m \in 0..m
  OBVIOUS
<1>2. PICK c : CutTo(name, pattern, m, n, c)
  BY GlobIsCut DEF CanCut
<1>3. \A i \in 1..m : pattern[i] # Star
  BY <1>1 DEF ToSet
<1>4. \A i \in 0..m : c[i] = i
  <2>1. CutSingly(c, m)
    BY <1>1, <1>2, <1>3, CutsBeforeStar
  <2>2. QED
    BY <2>1 DEF CutSingly
<1> HIDE DEF n, m
<1>5. c[m] = n /\ \A i \in 1..m : pattern[i] # Star => name[c[i]] = pattern[i]
  BY <1>2 DEF CutTo
<1>6. m = n /\ \A i \in 1..m : name[i] = pattern[i]
  BY <1>1, <1>3, <1>4, <1>5
<1>7. QED
  BY <1>6 DEF n, m

(* matchPattern() takes nothing the pattern does not mean, and a plain      *)
(* pattern for all it means.                                               *)
LEMMA PatternsMatchTheirMeaning ==
  ASSUME NEW X, NEW name \in Seq(X), NEW Y, NEW pattern \in Seq(Y)
  PROVE  /\ MatchPattern(name, pattern) => Glob(name, pattern)
         /\ Plain(pattern) /\ Glob(name, pattern) => MatchPattern(name, pattern)
<1>1. Len(name) \in Nat /\ Len(pattern) \in Nat /\ DOMAIN pattern = 1..Len(pattern)
  OBVIOUS
<1>2. GlobToRegex(name, pattern) <=> Glob(name, pattern)
  BY <1>1, RegexCuts, GlobIsCut
<1>3. MatchPattern(name, pattern) => Glob(name, pattern)
  BY <1>2, ExactGlob, FirstGlob, LastGlob DEF MatchPattern
<1>4. ASSUME Plain(pattern), Glob(name, pattern) PROVE MatchPattern(name, pattern)
  <2> DEFINE R == {i \in DOMAIN pattern : pattern[i] = Star}
  <2>1. IsFiniteSet(R)
    <3>1. IsFiniteSet(1..Len(pattern)) /\ R \subseteq 1..Len(pattern)
      BY <1>1, CardinalityOfFirst
    <3>2. QED
      BY <3>1, FS_Subset
  <2>2. StarFirst(pattern) \/ StarLast(pattern) => \E k : R = {k}
    <3>1. StarFirst(pattern) \/ StarLast(pattern) => Cardinality(R) = 1
      BY <1>4 DEF Plain
    <3> HIDE DEF R
    <3>2. QED
      BY <2>1, <3>1, FS_Singleton
  <2>3. CASE StarFirst(pattern)
    <3>1. 1 \in R
      BY <1>1, <2>3, FirstForm
    <3>2. \A i \in DOMAIN pattern : pattern[i] = Star => i = 1
      BY <2>2, <2>3, <3>1
    <3>3. QED
      BY <1>4, <2>3, <3>2, FirstGlobOnly DEF MatchPattern
  <2>4. CASE StarLast(pattern)
    <3>1. Len(pattern) \in R
      BY <1>1, <2>4, LastForm
    <3>2. \A i \in DOMAIN pattern : pattern[i] = Star => i = Len(pattern)
      BY <2>2, <2>4, <3>1
    <3>3. QED
      BY <1>4, <2>4, <3>2, LastGlobOnly DEF MatchPattern
  <2>5. CASE ~StarFirst(pattern) /\ ~StarLast(pattern) /\ Star \in ToSet(pattern)
    BY <1>2, <1>4, <2>5 DEF MatchPattern
  <2>6. CASE Star \notin ToSet(pattern)
    BY <1>4, <2>6, PlainGlobOnly DEF MatchPattern
  <2>7. QED
    BY <2>3, <2>4, <2>5, <2>6
<1>5. QED
  BY <1>3, <1>4

-----------------------------------------------------------------------------
(***************************************************************************)
(* The verdicts of the engine.                                             *)
(***************************************************************************)
Patterns(section) == section.deny \cup section.require_approval \cup section.allow

(* evaluateTool() and evaluateMcp() decide what the lists mean. *)
LEMMA EvaluateIsGoverned ==
  ASSUME NEW name, String(name), NEW section, \A p \in Patterns(section) : String(p)
  PROVE  Governed(section, name, Evaluate(section, name))
<1>1. \A p \in Patterns(section) :
        /\ MatchPattern(name, p) => Glob(name, p)
        /\ Plain(p) /\ Glob(name, p) => MatchPattern(name, p)
  <2> SUFFICES ASSUME NEW p \in Patterns(section)
               PROVE  /\ MatchPattern(name, p) => Glob(name, p)
                      /\ Plain(p) /\ Glob(name, p) => MatchPattern(name, p)
    OBVIOUS
  <2>1. name \in Seq(ToSet(name)) /\ p \in Seq(ToSet(p))
    BY DEF String
  <2>2. QED
    BY <2>1, PatternsMatchTheirMeaning
<1> DEFINE Listed(patterns) == \E p \in patterns : MatchPattern(name, p)
           Says(patterns) == \E p \in patterns : Glob(name, p)
           Insists(patterns) == \E p \in patterns : Plain(p) /\ Glob(name, p)
           d == Evaluate(section, name)
<1>2. \A s \in SUBSET Patterns(section) : (Listed(s) => Says(s)) /\ (Insists(s) => Listed(s))
  BY <1>1
<1>3. /\ section.deny \in SUBSET Patterns(section)
      /\ section.require_approval \in SUBSET Patterns(section)
      /\ section.allow \in SUBSET Patterns(section)
  BY DEF Patterns
<1>4. /\ Says(section.deny) <=> Says(section.deny)
      /\ Insists(section.deny \cup section.require_approval)
           <=> Insists(section.deny) \/ Insists(section.require_approval)
      /\ Insists(section.require_approval \cup section.allow)
           <=> Insists(section.require_approval) \/ Insists(section.allow)
  OBVIOUS
<1>5. \/ Listed(section.deny) /\ d = "deny"
      \/ ~Listed(section.deny) /\ Listed(section.require_approval) /\ d = "require_approval"
      \/ ~Listed(section.deny) /\ ~Listed(section.require_approval) /\ Listed(section.allow) /\ d = "allow"
      \/ ~Listed(section.deny) /\ ~Listed(section.require_approval) /\ ~Listed(section.allow) /\ d = "deny"
  BY DEF Evaluate
<1> HIDE DEF Listed, Says, Insists, d
<1>6. /\ d = "allow" => Says(section.allow) /\ ~Insists(section.deny \cup section.require_approval)
      /\ d = "require_approval" => Says(section.require_approval) /\ ~Insists(section.deny)
      /\ d = "deny" => \/ Says(section.deny)
                       \/ ~Insists(section.require_approval \cup section.allow)
  BY <1>2, <1>3, <1>4, <1>5
<1>7. QED
  BY <1>6 DEF Governed, Says, Insists, d

-----------------------------------------------------------------------------
(***************************************************************************)
(* The run under a policy file.                                            *)
(***************************************************************************)
Answer(name) ==
  CASE name = <<>> \/ policyFile = "missing" -> CONFIG_ERROR
    [] name # <<>> /\ policyFile = "invalid" -> UNCAUGHT
    [] OTHER -> IF EvaluateTool(name) = "deny" THEN POLICY_VIOLATION ELSE SUCCESS

LaneEvents(name) ==
  <<[type |-> "policy-decision", tool |-> name, decision |-> EvaluateMcp(name),
     anchored |-> FALSE],
    [type |-> "mcp-interaction", tool |-> name, decision |-> EvaluateMcp(name),
     anchored |-> EvaluateMcp(name) = "require_approval"]>>

(* The decisions of the run are those of the engine on the file, and so are *)
(* the answer of the command and the events of the lane.                   *)
PolicedInv ==
  /\ CliInv
  /\ policy = [t \in Tools |-> EvaluateTool(t)]
  /\ config \in Configs
  /\ \/ asked = NotAsked
     \/ \E name \in Names : asked = [tool |-> name, exit |-> Answer(name)]
  /\ \/ lane = <<>>
     \/ \E name \in Names : lane = LaneEvents(name)

LEMMA PolicedBegins == PolicedInit => PolicedInv
  BY CliBegins DEF PolicedInit, EngineInit, PolicedInv

(* No step of the run or the command touches the policy or its file.       *)
LEMMA PolicyStays ==
  ASSUME CliNext
  PROVE  UNCHANGED <<policy, policyFile>>
<1>1. ASSUME NEW r \in Runs, Step(r) PROVE UNCHANGED policy
  BY <1>1 DEF Step, RunThrows, RunCompletes, BadArguments, ResumeRefused, Resume, Leave,
              Interrupt, ResumeThrows, ResumeReturns
<1>2. ASSUME NEW r \in Runs, NEW m \in Modes, Start(r, m) PROVE UNCHANGED policy
  BY <1>2 DEF Start
<1>3. CASE Run
  BY <1>1, <1>2, <1>3 DEF Run, Next, cliVars
<1>4. CASE PolicyMissing \/ PolicyInvalid
  BY <1>4 DEF PolicyMissing, PolicyInvalid, Exit, vars
<1>5. ASSUME NEW r \in Runs, RunFailed(r) \/ WriteFails(r) \/ Report(r)
      PROVE  UNCHANGED <<policy, policyFile>>
  BY <1>5 DEF RunFailed, WriteFails, Report, Exit, vars
<1>6. QED
  BY <1>3, <1>4, <1>5 DEF CliNext

LEMMA PolicedKeeps ==
  ASSUME PolicedInv, [PolicedNext]_<<vars, cliVars, engineVars>>
  PROVE  PolicedInv'
<1>1. CASE CliNext /\ UNCHANGED engineVars
  <2>1. CliInv'
    BY <1>1, CliKeeps DEF PolicedInv
  <2>2. UNCHANGED <<policy, policyFile, config, asked, lane>>
    BY <1>1, PolicyStays DEF engineVars
  <2>3. QED
    BY <2>1, <2>2 DEF PolicedInv, Answer, LaneEvents, EvaluateTool, EvaluateMcp
<1>2. CASE Ask
  <2>1. UNCHANGED <<vars, cliVars>> /\ lane = <<>> /\ asked = NotAsked
    BY <1>2 DEF Ask
  <2>2. CliInv'
    BY <2>1, CliKeeps DEF PolicedInv
  <2>3. PICK name \in Names : PolicyCommand(name, policyFile) \/ EvaluateMcpCall(name)
    BY <1>2 DEF Ask
  <2>4. UNCHANGED <<policy, policyFile>>
    BY <2>1 DEF vars, cliVars
  <2>5. CASE PolicyCommand(name, policyFile)
    <3>1. asked' = [tool |-> name, exit |-> Answer(name)] /\ UNCHANGED <<config, lane>>
      BY <2>5 DEF PolicyCommand, Answer
    <3>2. asked' = [tool |-> name, exit |-> Answer(name)']
      BY <2>4, <3>1 DEF Answer, EvaluateTool
    <3>3. QED
      BY <2>1, <2>2, <2>4, <3>1, <3>2 DEF PolicedInv, EvaluateTool
  <2>6. CASE EvaluateMcpCall(name)
    <3>1. lane' = <<>> \o LaneEvents(name) /\ UNCHANGED <<config, asked>>
      BY <2>1, <2>6 DEF EvaluateMcpCall, LaneEvents
    <3>2. <<>> \o LaneEvents(name) = LaneEvents(name)
      <4> DEFINE a == [type |-> "policy-decision", tool |-> name, decision |-> EvaluateMcp(name),
                       anchored |-> FALSE]
                 b == [type |-> "mcp-interaction", tool |-> name, decision |-> EvaluateMcp(name),
                       anchored |-> EvaluateMcp(name) = "require_approval"]
      <4>1. LaneEvents(name) = <<a, b>>
        BY DEF LaneEvents
      <4> HIDE DEF a, b
      <4>2. <<a, b>> \in Seq({a, b})
        OBVIOUS
      <4>3. QED
        BY <4>1, <4>2
    <3>3. lane' = LaneEvents(name)'
      BY <3>1, <3>2 DEF LaneEvents, EvaluateMcp
    <3>4. QED
      BY <2>1, <2>2, <2>4, <3>1, <3>3 DEF PolicedInv, EvaluateTool
  <2>7. QED
    BY <2>3, <2>5, <2>6
<1>3. CASE UNCHANGED <<vars, cliVars, engineVars>>
  <2>1. CliInv'
    BY <1>3, CliKeeps DEF PolicedInv
  <2>2. UNCHANGED <<policy, policyFile, config, asked, lane>>
    BY <1>3 DEF engineVars, vars, cliVars
  <2>3. QED
    BY <2>1, <2>2 DEF PolicedInv, Answer, LaneEvents, EvaluateTool, EvaluateMcp
<1>4. QED
  BY <1>1, <1>2, <1>3 DEF PolicedNext

(* The verdicts in a log are the policy on the tools they name. *)
LEMMA VerdictsAreThePolicy ==
  ASSUME NEW l, AnyLog(l), NEW n \in DOMAIN l, IsDecision(l[n])
  PROVE  \E t \in Tools : l[n] = PolicyDecisionEvent(policy, t)
<1>1. CASE l = <<>>
  BY <1>1
<1>2. CASE l = <<SummaryEvent(NoCounts)>>
  <2>1. l[n] = SummaryEvent(NoCounts)
    BY <1>2
  <2>2. QED
    BY <2>1, EventKinds
<1>3. ASSUME NEW tools \in Seq(Tools), UninterruptedShape(l, policy, tools)
      PROVE  \E t \in Tools : l[n] = PolicyDecisionEvent(policy, t)
  <2> DEFINE v == Verdicts(policy, tools)
             k == Len(v)
  <2>1. v \in Seq(VerdictEvents(policy, tools))
    BY VerdictsHold DEF VerdictsOf
  <2>2. /\ k \in Nat /\ DOMAIN l = 1..(k + 1) /\ \A i \in 1..k : l[i] = v[i]
        /\ l[k + 1] = SummaryEvent(CountedOnce(policy, tools, 0))
    BY <1>3 DEF UninterruptedShape
  <2>3. \A i \in 1..k : v[i] \in VerdictEvents(policy, tools)
    BY <2>1
  <2> HIDE DEF v, k
  <2>4. n \in 1..k \/ n = k + 1
    BY <2>2
  <2>5. l[n] \in VerdictEvents(policy, tools)
    BY <2>2, <2>3, <2>4, EventKinds
  <2>6. l[n] \in CallVerdicts(policy, tools)
    BY <2>5, EventFields
  <2>7. QED
    BY <2>6 DEF CallVerdicts
<1>4. ASSUME NEW pause \in Pause, PauseShape(l, policy, pause), PauseEnds(l, pause)
      PROVE  \E t \in Tools : l[n] = PolicyDecisionEvent(policy, t)
  <2> DEFINE k == Len(pause.tools)
  <2>1. pause.tools \in Seq(Tools) /\ k \in Nat
    BY DEF Pause
  <2>2. \A i \in 1..k : l[i] = PolicyDecisionEvent(policy, pause.tools[i]) /\ pause.tools[i] \in Tools
    BY <1>4, <2>1 DEF PauseShape
  <2>3. DOMAIN l = 1..Len(l) /\ Len(l) \in {k + 1, k + 2, k + 3}
    BY <1>4 DEF PauseShape, PauseEnds
  <2>4. ASSUME NEW j \in Nat, NEW m \in {j + 1, j + 2, j + 3}, NEW i \in 1..m
        PROVE  i \in 1..j \/ i = j + 1 \/ (i = j + 2 /\ m # j + 1) \/ (i = j + 3 /\ m = j + 3)
    OBVIOUS
  <2>5. ~IsDecision(l[k + 1])
    BY <1>4, EventKinds DEF PauseShape
  <2>6. \A p, d : ~IsDecision(ResumedEvent(p, d))
    BY DEF ResumedEvent, IsDecision
  <2>7. /\ Len(l) # k + 1 => ~IsDecision(l[k + 2])
        /\ Len(l) = k + 3 => ~IsDecision(l[k + 3])
    <3>1. k + 1 # k + 2 /\ k + 1 # k + 3 /\ k + 2 # k + 3
      BY <2>1
    <3>2. QED
      BY <1>4, <2>6, <3>1, EventKinds DEF PauseEnds
  <2> HIDE DEF k
  <2>8. n \in 1..k
    BY <2>1, <2>3, <2>4, <2>5, <2>7
  <2>9. QED
    BY <2>2, <2>8
<1>5. QED
  BY <1>1, <1>2, <1>3, <1>4, LogShapes

LEMMA PolicedFollows ==
  ASSUME PolicedInv
  PROVE  VerdictsFollowThePatterns
<1>1. /\ \A p \in Patterns(config.tools) : String(p)
      /\ \A p \in Patterns(config.mcp) : String(p)
  BY ConfigsAssumption DEF PolicedInv, Patterns
<1>2. ASSUME NEW n \in DOMAIN file, IsDecision(file[n])
      PROVE  /\ Governed(config.tools, file[n].tool, file[n].decision)
             /\ file[n].tool = asked.tool =>
                  (asked.exit = POLICY_VIOLATION <=> file[n].decision = "deny")
  <2>1. PICK r \in Runs : Reported(r) \/ Cut(r)
    BY <1>2 DEF PolicedInv, CliInv
  <2>2. /\ n \in DOMAIN log[r] /\ file[n] = log[r][n]
        /\ policyFile = "valid" /\ AnyLog(log[r])
    <3>1. ~IsDecision(HalfLine)
      BY DEF IsDecision, HalfLine
    <3>2. QED
      BY <1>2, <2>1, <3>1, LogsOfRuns DEF Reported, Cut, Begins, PolicedInv, CliInv
  <2>3. PICK t \in Tools : file[n] = PolicyDecisionEvent(policy, t)
    BY <1>2, <2>2, VerdictsAreThePolicy
  <2>4. file[n].tool = t /\ file[n].decision = EvaluateTool(t)
    BY <2>3 DEF PolicyDecisionEvent, PolicedInv
  <2>5. String(t) /\ t # <<>>
    BY ToolNamesAssumption
  <2>6. Governed(config.tools, t, EvaluateTool(t))
    BY <1>1, <2>5, EvaluateIsGoverned DEF EvaluateTool
  <2>7. asked.tool = t => (asked.exit = POLICY_VIOLATION <=> EvaluateTool(t) = "deny")
    <3>1. CASE asked = NotAsked
      BY <2>5, <3>1 DEF NotAsked
    <3>2. ASSUME NEW name \in Names, asked = [tool |-> name, exit |-> Answer(name)], asked.tool = t
          PROVE  asked.exit = POLICY_VIOLATION <=> EvaluateTool(t) = "deny"
      <4>1. name = t /\ asked.exit = Answer(t)
        BY <3>2
      <4>2. Answer(t) = IF EvaluateTool(t) = "deny" THEN POLICY_VIOLATION ELSE SUCCESS
        BY <2>2, <2>5 DEF Answer
      <4>3. QED
        BY <4>1, <4>2 DEF POLICY_VIOLATION, SUCCESS
    <3>3. QED
      BY <3>1, <3>2 DEF PolicedInv
  <2>8. QED
    BY <2>4, <2>6, <2>7
<1>3. ASSUME NEW n \in DOMAIN lane, lane[n].type = "mcp-interaction"
      PROVE  /\ Governed(config.mcp, lane[n].tool, lane[n].decision)
             /\ lane[n - 1].type = "policy-decision"
             /\ lane[n - 1].decision = lane[n].decision
  <2>1. PICK name \in Names : lane = LaneEvents(name)
    BY <1>3 DEF PolicedInv
  <2>2. n = 2 /\ n - 1 = 1
    BY <1>3, <2>1 DEF LaneEvents
  <2>3. /\ lane[2].tool = name /\ lane[2].decision = EvaluateMcp(name)
        /\ lane[1].type = "policy-decision" /\ lane[1].decision = EvaluateMcp(name)
    BY <2>1 DEF LaneEvents
  <2>4. Governed(config.mcp, name, EvaluateMcp(name))
    BY <1>1, NamesAssumption, EvaluateIsGoverned DEF EvaluateMcp
  <2>5. QED
    BY <2>2, <2>3, <2>4
<1>4. QED
  BY <1>2, <1>3 DEF VerdictsFollowThePatterns

(* Whatever the policy file says and whatever the tools are called, the     *)
(* evidence of a run, the `policy` command and the MCP lane decide what the *)
(* patterns mean: evaluateTool(), evaluateMcp() and matchPattern().        *)
THEOREM VerdictsFollow == PolicedSpec => []VerdictsFollowThePatterns
<1>1. PolicedInit => PolicedInv
  BY PolicedBegins
<1>2. PolicedInv /\ [PolicedNext]_<<vars, cliVars, engineVars>> => PolicedInv'
  BY PolicedKeeps
<1>3. PolicedInv => VerdictsFollowThePatterns
  BY PolicedFollows
<1> QED
  BY <1>1, <1>2, <1>3, PTL DEF PolicedSpec
=============================================================================
