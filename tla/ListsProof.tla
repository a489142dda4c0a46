----------------------------- MODULE ListsProof -----------------------------
(***************************************************************************)
(* Lemmas about sequences, and about what Only leaves of them.             *)
(***************************************************************************)
EXTENDS Lists, WellFoundedInduction, TLAPS

-----------------------------------------------------------------------------
(* Induction.  A set of numbers is well founded, so what holds of 0 and of *)
(* each successor is a set without a least counterexample.                 *)

LEMMA BelowWellFounded == IsWellFoundedOn({ss \in Nat \X Nat : ss[1] < ss[2]}, Nat)
BY NatLessThanWellFounded DEF OpToRel

LEMMA NatSetInduction ==
  ASSUME NEW S \in SUBSET Nat, 0 \in S, \A n \in S : n + 1 \in S
  PROVE  S = Nat
<1> DEFINE T == Nat \ S
           R == {ss \in Nat \X Nat : ss[1] < ss[2]}
<1>1. IsWellFoundedOn(R, Nat)
  BY BelowWellFounded
<1>2. \A a, b \in Nat : a < b => <<a, b>> \in R
  OBVIOUS
<1> HIDE DEF R
<1>3. SUFFICES ASSUME T # {} PROVE FALSE
  OBVIOUS
<1>4. PICK x \in T : \A y \in T : ~(<<y, x>> \in R)
  <2>1. T \subseteq Nat
    OBVIOUS
  <2> HIDE DEF T
  <2> QED BY <1>1, <1>3, <2>1, WFMin
<1>5. x # 0 /\ x - 1 \in Nat /\ x - 1 < x
  BY <1>4
<1>6. x - 1 \in S
  BY <1>2, <1>4, <1>5
<1> QED BY <1>4, <1>5, <1>6

LEMMA AppendFacts ==
  ASSUME NEW S, NEW s \in Seq(S), NEW e \in S
  PROVE  /\ Append(s, e) \in Seq(S) /\ Len(s) \in Nat /\ Len(Append(s, e)) = Len(s) + 1
         /\ Append(s, e)[Len(s) + 1] = e
         /\ \A i \in 1 .. Len(s) : Append(s, e)[i] = s[i]
OBVIOUS

LEMMA EmptySeq ==
  ASSUME NEW S
  PROVE  <<>> \in Seq(S) /\ Len(<<>>) = 0
OBVIOUS

LEMMA SplitLast ==
  ASSUME NEW S, NEW s \in Seq(S), s # <<>>
  PROVE  \E r \in Seq(S), e \in S : s = Append(r, e) /\ Len(s) = Len(r) + 1
<1> DEFINE r == [i \in 1 .. Len(s) - 1 |-> s[i]]
<1>1. Len(s) \in Nat /\ Len(s) # 0 /\ DOMAIN s = 1 .. Len(s) /\ \A i \in 1 .. Len(s) : s[i] \in S
  OBVIOUS
<1>2. Len(s) - 1 \in Nat /\ \A i \in 1 .. Len(s) - 1 : i \in 1 .. Len(s)
  BY <1>1
<1>3. r \in Seq(S) /\ Len(r) = Len(s) - 1 /\ \A i \in 1 .. Len(s) - 1 : r[i] = s[i]
  BY <1>1, <1>2
<1>4. s[Len(s)] \in S
  BY <1>1
<1> HIDE DEF r
<1>5. /\ Append(r, s[Len(s)]) \in Seq(S) /\ Len(Append(r, s[Len(s)])) = Len(s)
      /\ \A i \in 1 .. Len(s) : Append(r, s[Len(s)])[i] = s[i]
  <2>1. Len(r) \in Nat /\ Len(r) + 1 = Len(s)
    BY <1>1, <1>3
  <2>2. ASSUME NEW i \in 1 .. Len(s) PROVE Append(r, s[Len(s)])[i] = s[i]
    <3>1. i = Len(r) + 1 \/ i \in 1 .. Len(r)
      BY <2>1
    <3>2. CASE i = Len(r) + 1
      BY <1>3, <1>4, <2>1, <3>2, AppendFacts
    <3>3. CASE i \in 1 .. Len(r)
      BY <1>3, <1>4, <2>1, <3>3, AppendFacts
    <3> QED BY <3>1, <3>2, <3>3
  <2> QED BY <1>3, <1>4, <2>1, <2>2, AppendFacts
<1>6. s = Append(r, s[Len(s)])
  <2>1. \A p, q \in Seq(S) : Len(p) = Len(q) /\ (\A i \in 1 .. Len(p) : p[i] = q[i]) => p = q
    OBVIOUS
  <2> QED BY <1>5, <2>1
<1>7. Len(s) = Len(r) + 1
  BY <1>1, <1>3
<1> QED BY <1>3, <1>4, <1>6, <1>7

LEMMA SeqSetInduction ==
  ASSUME NEW S, NEW P \in SUBSET Seq(S), <<>> \in P,
         \A s \in P : \A e \in S : Append(s, e) \in P
  PROVE  P = Seq(S)
<1> DEFINE N == {n \in Nat : \A s \in Seq(S) : Len(s) = n => s \in P}
<1>1. 0 \in N
  <2>1. \A s \in Seq(S) : Len(s) = 0 => s = <<>>
    OBVIOUS
  <2> QED BY <2>1
<1>2. ASSUME NEW n \in N PROVE n + 1 \in N
  <2> SUFFICES ASSUME NEW s \in Seq(S), Len(s) = n + 1 PROVE s \in P
    OBVIOUS
  <2>1. s # <<>> /\ n \in Nat
    OBVIOUS
  <2>2. PICK r \in Seq(S), e \in S : s = Append(r, e) /\ Len(s) = Len(r) + 1
    BY <2>1, SplitLast
  <2>3. Len(r) = n
    BY <2>1, <2>2
  <2>4. r \in P
    BY <2>2, <2>3
  <2> QED BY <2>2, <2>4
<1>3. N = Nat
  <2>1. N \in SUBSET Nat
    OBVIOUS
  <2> HIDE DEF N
  <2> QED BY <1>1, <1>2, <2>1, NatSetInduction
<1>4. \A s \in Seq(S) : Len(s) \in Nat
  OBVIOUS
<1> QED BY <1>3, <1>4

-----------------------------------------------------------------------------
(* Only.                                                                   *)

Steps(s, T, g) ==
  g = [i \in 0 .. Len(s) |->
         IF i = 0 THEN <<>> ELSE IF s[i] \in T THEN Append(g[i - 1], s[i]) ELSE g[i - 1]]

LEMMA StepsExist ==
  ASSUME NEW S, NEW T, NEW s \in Seq(S)
  PROVE  \E g : Steps(s, T, g)
<1> DEFINE P == {r \in Seq(S) : \E g : Steps(r, T, g)}
<1>1. <<>> \in P
  <2>1. Steps(<<>>, T, [i \in 0 .. 0 |-> <<>>])
    BY DEF Steps
  <2> QED BY <2>1
<1>2. ASSUME NEW r \in P, NEW e \in S PROVE Append(r, e) \in P
  <2>1. PICK g : Steps(r, T, g)
    OBVIOUS
  <2> DEFINE a == Append(r, e)
             n == Len(r)
             last == IF e \in T THEN Append(g[n], e) ELSE g[n]
             h == [i \in 0 .. n + 1 |-> IF i = n + 1 THEN last ELSE g[i]]
  <2>2. /\ n \in Nat /\ a \in Seq(S) /\ Len(a) = n + 1 /\ a[n + 1] = e
        /\ \A i \in 1 .. n : a[i] = r[i]
    OBVIOUS
  <2>3. \A i \in 0 .. n + 1 : i = n + 1 \/ i = 0 \/ (i \in 1 .. n /\ i - 1 \in 0 .. n /\ i - 1 # n + 1)
    BY <2>2
  <2>4. h[n] = g[n] /\ n + 1 # 0 /\ (n + 1) - 1 = n /\ n + 1 \in 0 .. n + 1
    BY <2>2
  <2>5. \A i \in 0 .. n : g[i] = IF i = 0 THEN <<>> ELSE IF r[i] \in T THEN Append(g[i - 1], r[i]) ELSE g[i - 1]
    BY <2>1, <2>2 DEF Steps
  <2>6. ASSUME NEW i \in 0 .. n + 1
        PROVE  h[i] = IF i = 0 THEN <<>> ELSE IF a[i] \in T THEN Append(h[i - 1], a[i]) ELSE h[i - 1]
    <3>1. CASE i = n + 1
      <4>1. h[i] = last /\ a[i] = e /\ h[i - 1] = g[n] /\ i # 0
        BY <2>2, <2>4, <3>1
      <4> HIDE DEF h, a
      <4> QED BY <4>1
    <3>2. CASE i = 0
      <4>1. 0 \in 0 .. n /\ 0 # n + 1 /\ 0 \in 0 .. n + 1
        BY <2>2
      <4>2. h[0] = g[0]
        BY <4>1
      <4> HIDE DEF h, a
      <4> QED BY <2>5, <3>2, <4>1, <4>2
    <3>3. CASE i # n + 1 /\ i # 0
      <4>1. i \in 1 .. n /\ i - 1 \in 0 .. n + 1 /\ i - 1 # n + 1 /\ i \in 0 .. n
        BY <2>2, <2>3, <3>3
      <4>2. h[i] = g[i] /\ h[i - 1] = g[i - 1] /\ a[i] = r[i]
        BY <2>2, <3>3, <4>1
      <4> HIDE DEF h, a
      <4> QED BY <2>5, <3>3, <4>1, <4>2
    <3> QED BY <3>1, <3>2, <3>3
  <2>7. Steps(a, T, h)
    <3>1. h = [i \in 0 .. n + 1 |-> h[i]]
      OBVIOUS
    <3> HIDE DEF h, a
    <3> QED BY <2>2, <2>6, <3>1, Zenon DEF Steps
  <2> QED BY <2>2, <2>7
<1>3. P \in SUBSET Seq(S)
  OBVIOUS
<1> HIDE DEF P
<1>4. P = Seq(S)
  BY <1>1, <1>2, <1>3, SeqSetInduction
<1> QED BY <1>4 DEF P

LEMMA OnlySteps ==
  ASSUME NEW S, NEW T, NEW s \in Seq(S)
  PROVE  \E g : Steps(s, T, g) /\ Only(s, T) = g[Len(s)]
<1> DEFINE g == CHOOSE h : Steps(s, T, h)
<1>1. Steps(s, T, g)
  BY StepsExist
<1>2. Only(s, T) = g[Len(s)]
  BY DEF Only, Steps
<1> QED BY <1>1, <1>2

LEMMA StepsAt ==
  ASSUME NEW S, NEW T, NEW s \in Seq(S)
  PROVE  \A g : Steps(s, T, g) => g[0] = <<>>
<1> SUFFICES ASSUME NEW g, Steps(s, T, g) PROVE g[0] = <<>>
  OBVIOUS
<1>1. 0 \in 0 .. Len(s)
  OBVIOUS
<1> QED BY <1>1 DEF Steps

Stepped(s, T, g, i) == IF s[i + 1] \in T THEN Append(g[i], s[i + 1]) ELSE g[i]

LEMMA StepsNext ==
  ASSUME NEW S, NEW T, NEW s \in Seq(S)
  PROVE  \A g : Steps(s, T, g) => \A i \in 0 .. Len(s) - 1 : g[i + 1] = Stepped(s, T, g, i)
<1> SUFFICES ASSUME NEW g, Steps(s, T, g), NEW i \in 0 .. Len(s) - 1 PROVE g[i + 1] = Stepped(s, T, g, i)
  OBVIOUS
<1> DEFINE n == Len(s)
           Step(j) == IF j = 0 THEN <<>> ELSE IF s[j] \in T THEN Append(g[j - 1], s[j]) ELSE g[j - 1]
<1>1. g = [j \in 0 .. n |-> Step(j)]
  BY DEF Steps
<1>2. n \in Nat /\ i \in 0 .. n - 1
  OBVIOUS
<1> HIDE DEF n, Step
<1>3. \A j \in 0 .. n : g[j] = Step(j)
  BY <1>1
<1>4. i + 1 \in 0 .. n /\ i + 1 # 0 /\ (i + 1) - 1 = i
  BY <1>2
<1>5. g[i + 1] = Step(i + 1)
  BY <1>3, <1>4
<1>6. Step(i + 1) = Stepped(s, T, g, i)
  BY <1>4 DEF Step, Stepped
<1> QED BY <1>5, <1>6

LEMMA OnlyEmpty ==
  ASSUME NEW T
  PROVE  Only(<<>>, T) = <<>>
<1> DEFINE s == <<>>
<1>1. s \in Seq({}) /\ Len(s) = 0
  BY EmptySeq
<1> HIDE DEF s
<1>2. PICK g : Steps(s, T, g) /\ Only(s, T) = g[Len(s)]
  BY <1>1, OnlySteps
<1>3. s \in Seq({}) /\ Steps(s, T, g)
  BY <1>1, <1>2
<1>4. g[0] = <<>>
  BY <1>3, StepsAt, Zenon
<1>5. Only(s, T) = <<>>
  BY <1>1, <1>2, <1>4
<1> QED BY <1>5 DEF s

LEMMA OnlyAppend ==
  ASSUME NEW S, NEW T, NEW s \in Seq(S), NEW e \in S
  PROVE  /\ e \in T => Only(Append(s, e), T) = Append(Only(s, T), e)
         /\ e \notin T => Only(Append(s, e), T) = Only(s, T)
<1> DEFINE a == Append(s, e)
           n == Len(s)
<1>1. /\ n \in Nat /\ a \in Seq(S) /\ Len(a) = n + 1 /\ a[n + 1] = e
      /\ \A i \in 1 .. n : a[i] = s[i]
  BY AppendFacts
<1>2. PICK g : Steps(s, T, g) /\ Only(s, T) = g[Len(s)]
  BY OnlySteps
<1> HIDE DEF a
<1>3. PICK h : Steps(a, T, h) /\ Only(a, T) = h[Len(a)]
  BY <1>1, OnlySteps
<1>12. s \in Seq(S) /\ Steps(s, T, g)
  BY <1>2
<1>13. a \in Seq(S) /\ Steps(a, T, h)
  BY <1>1, <1>3
<1>14. \A i \in 0 .. n - 1 : g[i + 1] = Stepped(s, T, g, i)
  BY <1>12, StepsNext
<1>15. \A i \in 0 .. Len(a) - 1 : h[i + 1] = Stepped(a, T, h, i)
  BY <1>13, StepsNext
<1> DEFINE N == {i \in Nat : i <= n => h[i] = g[i]}
<1>4. 0 \in N
  <2>1. h[0] = <<>> /\ g[0] = <<>>
    BY <1>12, <1>13, StepsAt, Zenon
  <2> QED BY <2>1
<1>5. ASSUME NEW i \in N PROVE i + 1 \in N
  <2> SUFFICES ASSUME i + 1 <= n PROVE h[i + 1] = g[i + 1]
    OBVIOUS
  <2>1. i \in Nat /\ i <= n /\ i \in 0 .. n - 1 /\ i \in 0 .. Len(a) - 1 /\ i + 1 \in 1 .. n
    BY <1>1
  <2>2. h[i] = g[i] /\ a[i + 1] = s[i + 1]
    BY <1>1, <2>1
  <2>3. h[i + 1] = Stepped(a, T, h, i) /\ g[i + 1] = Stepped(s, T, g, i)
    BY <1>14, <1>15, <2>1
  <2>4. Stepped(a, T, h, i) = Stepped(s, T, g, i)
    BY <2>2 DEF Stepped
  <2> QED BY <2>3, <2>4
<1>6. N = Nat
  <2>1. N \in SUBSET Nat
    OBVIOUS
  <2> HIDE DEF N
  <2> QED BY <1>4, <1>5, <2>1, NatSetInduction
<1>7. h[n] = g[n]
  BY <1>1, <1>6
<1>8. n \in Nat /\ n \in 0 .. Len(a) - 1 /\ Len(a) = n + 1
  BY <1>1
<1> HIDE DEF n, N
<1>9. h[n + 1] = Stepped(a, T, h, n)
  BY <1>15, <1>8
<1>10. a[n + 1] = e /\ Only(s, T) = g[n] /\ Only(a, T) = h[n + 1]
  BY <1>1, <1>2, <1>3, <1>8 DEF n
<1>11. /\ e \in T => Only(a, T) = Append(Only(s, T), e)
       /\ e \notin T => Only(a, T) = Only(s, T)
  BY <1>7, <1>9, <1>10 DEF Stepped
<1> QED BY <1>11 DEF a

LEMMA OnlyType ==
  ASSUME NEW S, NEW T, NEW s \in Seq(S)
  PROVE  Only(s, T) \in Seq(S)
<1> DEFINE P == {r \in Seq(S) : Only(r, T) \in Seq(S)}
<1>1. <<>> \in P
  BY OnlyEmpty, EmptySeq
<1>2. ASSUME NEW r \in P, NEW e \in S PROVE Append(r, e) \in P
  <2>1. r \in Seq(S) /\ Only(r, T) \in Seq(S)
    OBVIOUS
  <2>2. /\ e \in T => Only(Append(r, e), T) = Append(Only(r, T), e)
        /\ e \notin T => Only(Append(r, e), T) = Only(r, T)
    BY <2>1, OnlyAppend
  <2>3. Append(r, e) \in Seq(S) /\ Append(Only(r, T), e) \in Seq(S)
    BY <2>1, AppendFacts
  <2>4. Only(Append(r, e), T) \in Seq(S)
    BY <2>1, <2>2, <2>3
  <2> QED BY <2>3, <2>4
<1>3. P \in SUBSET Seq(S)
  OBVIOUS
<1> HIDE DEF P
<1>4. P = Seq(S)
  BY <1>1, <1>2, <1>3, SeqSetInduction
<1> QED BY <1>4 DEF P

\* Filtering twice is filtering once.
LEMMA OnlyTwice ==
  ASSUME NEW S, NEW A, NEW B, NEW s \in Seq(S)
  PROVE  Only(Only(s, A), B) = Only(s, A \cap B)
<1> DEFINE C == A \cap B
           P == {r \in Seq(S) : Only(Only(r, A), B) = Only(r, C)}
<1>1. <<>> \in P
  <2>1. Only(<<>>, A) = <<>> /\ Only(<<>>, B) = <<>> /\ Only(<<>>, C) = <<>>
    BY OnlyEmpty
  <2> QED BY <2>1, EmptySeq
<1>2. ASSUME NEW r \in P, NEW e \in S PROVE Append(r, e) \in P
  <2>1. /\ r \in Seq(S) /\ Only(r, A) \in Seq(S) /\ Append(r, e) \in Seq(S)
        /\ Only(Only(r, A), B) = Only(r, C) /\ (e \in C <=> e \in A /\ e \in B)
    BY OnlyType, AppendFacts
  <2> HIDE DEF C
  <2>2. /\ e \in A => Only(Append(r, e), A) = Append(Only(r, A), e)
        /\ e \notin A => Only(Append(r, e), A) = Only(r, A)
    BY <2>1, OnlyAppend
  <2>3. /\ e \in C => Only(Append(r, e), C) = Append(Only(r, C), e)
        /\ e \notin C => Only(Append(r, e), C) = Only(r, C)
    BY <2>1, OnlyAppend
  <2>4. /\ e \in B => Only(Append(Only(r, A), e), B) = Append(Only(Only(r, A), B), e)
        /\ e \notin B => Only(Append(Only(r, A), e), B) = Only(Only(r, A), B)
    BY <2>1, OnlyAppend
  <2>5. Only(Only(Append(r, e), A), B) = Only(Append(r, e), C)
    BY <2>1, <2>2, <2>3, <2>4, Zenon
  <2> QED BY <2>1, <2>5
<1>3. P \in SUBSET Seq(S)
  OBVIOUS
<1> HIDE DEF P, C
<1>4. P = Seq(S)
  BY <1>1, <1>2, <1>3, SeqSetInduction
<1> QED BY <1>4 DEF P, C

\* Only what the sequence holds matters.
LEMMA OnlySame ==
  ASSUME NEW S, NEW s \in Seq(S)
  PROVE  \A A, B : A \cap S = B \cap S => Only(s, A) = Only(s, B)
<1> SUFFICES ASSUME NEW A, NEW B, A \cap S = B \cap S PROVE Only(s, A) = Only(s, B)
  OBVIOUS
<1> DEFINE P == {r \in Seq(S) : Only(r, A) = Only(r, B)}
<1>1. <<>> \in P
  <2>1. Only(<<>>, A) = <<>> /\ Only(<<>>, B) = <<>>
    BY OnlyEmpty
  <2> QED BY <2>1, EmptySeq
<1>2. ASSUME NEW r \in P, NEW e \in S PROVE Append(r, e) \in P
  <2>1. (e \in A <=> e \in B) /\ r \in Seq(S) /\ Append(r, e) \in Seq(S) /\ Only(r, A) = Only(r, B)
    BY AppendFacts
  <2>2. /\ e \in A => Only(Append(r, e), A) = Append(Only(r, A), e)
        /\ e \notin A => Only(Append(r, e), A) = Only(r, A)
    BY <2>1, OnlyAppend
  <2>3. /\ e \in B => Only(Append(r, e), B) = Append(Only(r, B), e)
        /\ e \notin B => Only(Append(r, e), B) = Only(r, B)
    BY <2>1, OnlyAppend
  <2>4. Only(Append(r, e), A) = Only(Append(r, e), B)
    BY <2>1, <2>2, <2>3, Zenon
  <2> QED BY <2>1, <2>4
<1>3. P \in SUBSET Seq(S)
  OBVIOUS
<1> HIDE DEF P
<1>4. P = Seq(S)
  BY <1>1, <1>2, <1>3, SeqSetInduction
<1> QED BY <1>4 DEF P

LEMMA ConcatAppend ==
  ASSUME NEW S, NEW s \in Seq(S), NEW e \in S, NEW c \in S
  PROVE  /\ <<c>> \o Append(s, e) = Append(<<c>> \o s, e)
         /\ <<c>> \o s \in Seq(S) /\ <<c>> \o <<>> = <<c>> /\ Append(<<>>, c) = <<c>>
OBVIOUS

LEMMA OnlyFront ==
  ASSUME NEW S, NEW T, NEW s \in Seq(S), NEW c \in S
  PROVE  /\ c \in T => Only(<<c>> \o s, T) = <<c>> \o Only(s, T)
         /\ c \notin T => Only(<<c>> \o s, T) = Only(s, T)
<1> DEFINE F(r) == /\ c \in T => Only(<<c>> \o r, T) = <<c>> \o Only(r, T)
                   /\ c \notin T => Only(<<c>> \o r, T) = Only(r, T)
           P == {r \in Seq(S) : F(r)}
<1>1. <<>> \in P
  <2>1. <<c>> \o <<>> = <<c>> /\ Append(<<>>, c) = <<c>> /\ <<>> \in Seq(S) /\ Only(<<>>, T) = <<>>
    BY EmptySeq, ConcatAppend, OnlyEmpty
  <2>2. /\ c \in T => Only(Append(<<>>, c), T) = Append(Only(<<>>, T), c)
        /\ c \notin T => Only(Append(<<>>, c), T) = Only(<<>>, T)
    BY <2>1, OnlyAppend
  <2> QED BY <2>1, <2>2
<1>2. ASSUME NEW r \in P, NEW e \in S PROVE Append(r, e) \in P
  <2>1. r \in Seq(S) /\ Append(r, e) \in Seq(S) /\ Only(r, T) \in Seq(S) /\ F(r)
    BY OnlyType, AppendFacts
  <2>2. <<c>> \o Append(r, e) = Append(<<c>> \o r, e) /\ <<c>> \o r \in Seq(S)
    BY <2>1, ConcatAppend
  <2>3. <<c>> \o Append(Only(r, T), e) = Append(<<c>> \o Only(r, T), e)
    BY <2>1, ConcatAppend
  <2>4. /\ e \in T => Only(Append(<<c>> \o r, e), T) = Append(Only(<<c>> \o r, T), e)
        /\ e \notin T => Only(Append(<<c>> \o r, e), T) = Only(<<c>> \o r, T)
    <3> DEFINE q == <<c>> \o r
    <3>1. q \in Seq(S)
      BY <2>2
    <3> HIDE DEF q
    <3>2. /\ e \in T => Only(Append(q, e), T) = Append(Only(q, T), e)
          /\ e \notin T => Only(Append(q, e), T) = Only(q, T)
      BY <3>1, OnlyAppend
    <3> QED BY <3>2 DEF q
  <2>5. /\ e \in T => Only(Append(r, e), T) = Append(Only(r, T), e)
        /\ e \notin T => Only(Append(r, e), T) = Only(r, T)
    BY <2>1, OnlyAppend
  <2>6. F(Append(r, e))
    BY <2>1, <2>2, <2>3, <2>4, <2>5, Zenon
  <2> HIDE DEF F
  <2> QED BY <2>1, <2>6
<1>3. P \in SUBSET Seq(S)
  OBVIOUS
<1> HIDE DEF P, F
<1>4. P = Seq(S)
  BY <1>1, <1>2, <1>3, SeqSetInduction
<1>5. F(s)
  BY <1>4 DEF P
<1> QED BY <1>5 DEF F

LEMMA ConcatFacts ==
  ASSUME NEW S, NEW s \in Seq(S), NEW r \in Seq(S), NEW e \in S
  PROVE  /\ s \o r \in Seq(S) /\ s \o <<>> = s
         /\ s \o Append(r, e) = Append(s \o r, e)
OBVIOUS

\* Filtering the parts of a sequence filters the whole.
LEMMA OnlyConcat ==
  ASSUME NEW S, NEW T, NEW s \in Seq(S), NEW t \in Seq(S)
  PROVE  Only(s \o t, T) = Only(s, T) \o Only(t, T)
<1> DEFINE P == {r \in Seq(S) : Only(s \o r, T) = Only(s, T) \o Only(r, T)}
<1>1. <<>> \in P
  <2>1. s \o <<>> = s /\ Only(<<>>, T) = <<>> /\ <<>> \in Seq(S) /\ Only(s, T) \in Seq(S)
    BY OnlyEmpty, OnlyType, EmptySeq
  <2>2. Only(s, T) \o <<>> = Only(s, T)
    BY <2>1
  <2> QED BY <2>1, <2>2
<1>2. ASSUME NEW r \in P, NEW e \in S PROVE Append(r, e) \in P
  <2> DEFINE u == s \o r
             o == Only(r, T)
             p == Only(s, T)
  <2>1. r \in Seq(S) /\ Append(r, e) \in Seq(S) /\ o \in Seq(S) /\ p \in Seq(S) /\ u \in Seq(S)
    BY OnlyType, AppendFacts, ConcatFacts
  <2>2. Only(u, T) = p \o o
    OBVIOUS
  <2>3. s \o Append(r, e) = Append(u, e)
    BY <2>1, ConcatFacts
  <2> HIDE DEF u, o, p
  <2>4. p \o Append(o, e) = Append(p \o o, e)
    BY <2>1, ConcatFacts
  <2>5. /\ e \in T => Only(Append(u, e), T) = Append(Only(u, T), e)
        /\ e \notin T => Only(Append(u, e), T) = Only(u, T)
    BY <2>1, OnlyAppend
  <2>6. /\ e \in T => Only(Append(r, e), T) = Append(o, e)
        /\ e \notin T => Only(Append(r, e), T) = o
    BY <2>1, OnlyAppend DEF o
  <2>7. Only(s \o Append(r, e), T) = p \o Only(Append(r, e), T)
    BY <2>2, <2>3, <2>4, <2>5, <2>6, Zenon
  <2> QED BY <2>1, <2>7 DEF p
<1>3. P \in SUBSET Seq(S)
  OBVIOUS
<1> HIDE DEF P
<1>4. P = Seq(S)
  BY <1>1, <1>2, <1>3, SeqSetInduction
<1> QED BY <1>4 DEF P

\* What is left is in the set.
LEMMA OnlyIn ==
  ASSUME NEW S, NEW T, NEW s \in Seq(S)
  PROVE  Only(s, T) \in Seq(S \cap T)
<1> DEFINE P == {r \in Seq(S) : Only(r, T) \in Seq(S \cap T)}
<1>1. <<>> \in P
  BY OnlyEmpty, EmptySeq
<1>2. ASSUME NEW r \in P, NEW e \in S PROVE Append(r, e) \in P
  <2>1. r \in Seq(S) /\ Only(r, T) \in Seq(S \cap T) /\ Append(r, e) \in Seq(S)
    BY AppendFacts
  <2>2. /\ e \in T => Only(Append(r, e), T) = Append(Only(r, T), e)
        /\ e \notin T => Only(Append(r, e), T) = Only(r, T)
    BY <2>1, OnlyAppend
  <2>3. e \in T => Append(Only(r, T), e) \in Seq(S \cap T)
    <3> DEFINE o == Only(r, T)
               U == S \cap T
    <3>1. e \in T => e \in U
      OBVIOUS
    <3>2. o \in Seq(U)
      BY <2>1
    <3> HIDE DEF o, U
    <3>3. e \in T => Append(o, e) \in Seq(U)
      BY <3>1, <3>2, AppendFacts
    <3> QED BY <3>3 DEF o, U
  <2>4. Only(Append(r, e), T) \in Seq(S \cap T)
    BY <2>1, <2>2, <2>3
  <2> QED BY <2>1, <2>4
<1>3. P \in SUBSET Seq(S)
  OBVIOUS
<1> HIDE DEF P
<1>4. P = Seq(S)
  BY <1>1, <1>2, <1>3, SeqSetInduction
<1> QED BY <1>4 DEF P

-----------------------------------------------------------------------------
(* Parts of sequences.                                                     *)

LEMMA SameSeq ==
  ASSUME NEW S, NEW s \in Seq(S), NEW t \in Seq(S),
         Len(s) = Len(t), \A i \in 1 .. Len(s) : s[i] = t[i]
  PROVE  s = t
OBVIOUS

LEMMA ConcatParts ==
  ASSUME NEW S, NEW s \in Seq(S), NEW t \in Seq(S)
  PROVE  /\ s \o t \in Seq(S) /\ Len(s) \in Nat /\ Len(t) \in Nat /\ Len(s \o t) = Len(s) + Len(t)
         /\ \A i \in 1 .. Len(s) : (s \o t)[i] = s[i]
         /\ \A i \in Len(s) + 1 .. Len(s) + Len(t) : (s \o t)[i] = t[i - Len(s)]
         /\ \A i \in 1 .. Len(t) : (s \o t)[Len(s) + i] = t[i]
OBVIOUS

LEMMA HeadOf ==
  ASSUME NEW S, NEW s \in Seq(S), NEW d \in 0 .. Len(s)
  PROVE  /\ SubSeq(s, 1, d) \in Seq(S) /\ Len(SubSeq(s, 1, d)) = d
         /\ \A i \in 1 .. d : SubSeq(s, 1, d)[i] = s[i]
OBVIOUS

LEMMA RestOf ==
  ASSUME NEW S, NEW s \in Seq(S), NEW d \in 0 .. Len(s)
  PROVE  /\ SubSeq(s, d + 1, Len(s)) \in Seq(S) /\ Len(SubSeq(s, d + 1, Len(s))) = Len(s) - d
         /\ \A i \in 1 .. Len(s) - d : SubSeq(s, d + 1, Len(s))[i] = s[d + i]
<1>1. Len(s) \in Nat /\ d \in Nat /\ d <= Len(s) /\ Len(s) - d \in Nat
  OBVIOUS
<1>2. \A i \in 1 .. Len(s) - d : d + i \in 1 .. Len(s) /\ s[d + i] \in S
  BY <1>1
<1> QED BY <1>1, <1>2

\* A sequence is its head and its rest.
LEMMA HeadAndRest ==
  ASSUME NEW S, NEW s \in Seq(S), NEW d \in 0 .. Len(s)
  PROVE  s = SubSeq(s, 1, d) \o SubSeq(s, d + 1, Len(s))
<1> DEFINE h == SubSeq(s, 1, d)
           r == SubSeq(s, d + 1, Len(s))
<1>1. /\ h \in Seq(S) /\ Len(h) = d /\ \A i \in 1 .. d : h[i] = s[i]
      /\ r \in Seq(S) /\ Len(r) = Len(s) - d /\ \A i \in 1 .. Len(s) - d : r[i] = s[d + i]
      /\ Len(s) \in Nat /\ d \in Nat /\ d <= Len(s)
  <2>1. h \in Seq(S) /\ Len(h) = d /\ \A i \in 1 .. d : h[i] = s[i]
    BY HeadOf
  <2>2. r \in Seq(S) /\ Len(r) = Len(s) - d /\ \A i \in 1 .. Len(s) - d : r[i] = s[d + i]
    BY RestOf
  <2>3. Len(s) \in Nat /\ d \in Nat /\ d <= Len(s)
    OBVIOUS
  <2> QED BY <2>1, <2>2, <2>3
<1> HIDE DEF h, r
<1>2. h \o r \in Seq(S) /\ Len(h \o r) = Len(s)
  <2>1. h \o r \in Seq(S) /\ Len(h \o r) = Len(h) + Len(r)
    BY <1>1, ConcatParts
  <2> QED BY <1>1, <2>1
<1>3. ASSUME NEW i \in 1 .. Len(s) PROVE s[i] = (h \o r)[i]
  <2>1. CASE i <= d
    <3>1. i \in 1 .. Len(h)
      BY <1>1, <2>1
    <3>2. (h \o r)[i] = h[i]
      BY <1>1, <3>1, ConcatParts
    <3> QED BY <1>1, <2>1, <3>2
  <2>2. CASE ~(i <= d)
    <3>1. i - d \in 1 .. Len(r) /\ i = d + (i - d)
      BY <1>1, <2>2
    <3>2. (h \o r)[Len(h) + (i - d)] = r[i - d]
      BY <1>1, <3>1, ConcatParts
    <3> QED BY <1>1, <3>1, <3>2
  <2> QED BY <2>1, <2>2
<1>4. s = h \o r
  BY <1>2, <1>3, SameSeq
<1> QED BY <1>4 DEF h, r

LEMMA WholeSeq ==
  ASSUME NEW S, NEW s \in Seq(S)
  PROVE  SubSeq(s, 1, Len(s)) = s
<1>1. Len(s) \in 0 .. Len(s)
  OBVIOUS
<1> DEFINE h == SubSeq(s, 1, Len(s))
<1>2. h \in Seq(S) /\ Len(h) = Len(s) /\ \A i \in 1 .. Len(s) : h[i] = s[i]
  BY <1>1, HeadOf
<1> HIDE DEF h
<1>3. h = s
  BY <1>2, SameSeq
<1> QED BY <1>3 DEF h

LEMMA HeadOfAppend ==
  ASSUME NEW S, NEW s \in Seq(S), NEW e \in S, NEW d \in 0 .. Len(s)
  PROVE  SubSeq(Append(s, e), 1, d) = SubSeq(s, 1, d)
<1> DEFINE a == Append(s, e)
           h == SubSeq(a, 1, d)
           g == SubSeq(s, 1, d)
<1>1. /\ a \in Seq(S) /\ Len(s) \in Nat /\ Len(a) = Len(s) + 1 /\ d \in 0 .. Len(a)
      /\ \A i \in 1 .. Len(s) : a[i] = s[i]
  BY AppendFacts
<1> HIDE DEF a
<1>2. h \in Seq(S) /\ Len(h) = d /\ \A i \in 1 .. d : h[i] = a[i]
  BY <1>1, HeadOf
<1>3. g \in Seq(S) /\ Len(g) = d /\ \A i \in 1 .. d : g[i] = s[i]
  BY HeadOf
<1> HIDE DEF h, g
<1>4. \A i \in 1 .. d : h[i] = g[i]
  BY <1>1, <1>2, <1>3
<1>5. h = g
  BY <1>2, <1>3, <1>4, SameSeq
<1> QED BY <1>5 DEF h, g, a

==============================================================================
