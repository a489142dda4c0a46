---------------------------- MODULE PipelineProof ----------------------------
(***************************************************************************)
(* Proofs about Pipeline, for any handlers and any number of contexts and  *)
(* packets.                                                                *)
(***************************************************************************)
EXTENDS Pipeline, ListsProof, FiniteSetTheorems, TLAPS

-----------------------------------------------------------------------------
(* The elements of a sequence, and its order.                              *)

LEMMA InSet ==
  ASSUME NEW S, NEW s \in Seq(S)
  PROVE  /\ \A x : x \in SX!ToSet(s) <=> \E i \in 1 .. Len(s) : s[i] = x
         /\ SX!ToSet(s) \subseteq S
BY DEF SX!ToSet

LEMMA SetEmpty == SX!ToSet(<<>>) = {}
BY DEF SX!ToSet

LEMMA SetAppend ==
  ASSUME NEW S, NEW s \in Seq(S), NEW e \in S
  PROVE  SX!ToSet(Append(s, e)) = SX!ToSet(s) \cup {e}
<1> DEFINE a == Append(s, e)
           n == Len(s)
<1>1. /\ n \in Nat /\ a \in Seq(S) /\ Len(a) = n + 1 /\ a[n + 1] = e
      /\ \A i \in 1 .. n : a[i] = s[i]
  BY AppendFacts
<1> HIDE DEF a
<1>2. \A x : x \in SX!ToSet(a) <=> \E i \in 1 .. n + 1 : a[i] = x
  BY <1>1, InSet
<1>3. \A x : x \in SX!ToSet(s) <=> \E i \in 1 .. n : s[i] = x
  BY InSet
<1>4. \A i \in 1 .. n + 1 : i \in 1 .. n \/ i = n + 1
  BY <1>1
<1>5. n + 1 \in 1 .. n + 1 /\ \A i \in 1 .. n : i \in 1 .. n + 1
  BY <1>1
<1> HIDE DEF n
<1>6. SX!ToSet(a) = SX!ToSet(s) \cup {e}
  BY <1>1, <1>2, <1>3, <1>4, <1>5
<1> QED BY <1>6 DEF a

LEMMA FrontFacts ==
  ASSUME NEW S, NEW s \in Seq(S), NEW e \in S
  PROVE  /\ <<e>> \o s \in Seq(S) /\ Len(s) \in Nat /\ Len(<<e>> \o s) = Len(s) + 1
         /\ (<<e>> \o s)[1] = e
         /\ \A i \in 2 .. Len(s) + 1 : (<<e>> \o s)[i] = s[i - 1]
         /\ \A i \in 1 .. Len(s) : (<<e>> \o s)[i + 1] = s[i]
OBVIOUS

LEMMA SetFront ==
  ASSUME NEW S, NEW s \in Seq(S), NEW e \in S
  PROVE  SX!ToSet(<<e>> \o s) = SX!ToSet(s) \cup {e}
<1> DEFINE a == <<e>> \o s
           n == Len(s)
<1>1. /\ n \in Nat /\ a \in Seq(S) /\ Len(a) = n + 1 /\ a[1] = e
      /\ \A i \in 1 .. n : a[i + 1] = s[i]
  BY FrontFacts
<1> HIDE DEF a
<1>2. \A x : x \in SX!ToSet(a) <=> \E i \in 1 .. n + 1 : a[i] = x
  BY <1>1, InSet
<1>3. \A x : x \in SX!ToSet(s) <=> \E i \in 1 .. n : s[i] = x
  BY InSet
<1>4. \A i \in 1 .. n + 1 : i = 1 \/ \E j \in 1 .. n : i = j + 1
  <2>1. \A i \in 1 .. n + 1 : i = 1 \/ (i - 1 \in 1 .. n /\ i = (i - 1) + 1)
    BY <1>1
  <2> QED BY <2>1
<1>5. 1 \in 1 .. n + 1 /\ \A i \in 1 .. n : i + 1 \in 1 .. n + 1
  BY <1>1
<1> HIDE DEF n
<1>6. ASSUME NEW i \in 1 .. n + 1 PROVE a[i] = e \/ a[i] \in SX!ToSet(s)
  <2>1. CASE i = 1
    BY <1>1, <2>1
  <2>2. CASE i # 1
    <3>1. PICK j \in 1 .. n : i = j + 1
      BY <1>4, <2>2
    <3>2. a[i] = s[j]
      BY <1>1, <3>1
    <3> QED BY <1>3, <3>2
  <2> QED BY <2>1, <2>2
<1>7. e \in SX!ToSet(a)
  BY <1>1, <1>2, <1>5
<1>8. \A x \in SX!ToSet(s) : x \in SX!ToSet(a)
  BY <1>1, <1>2, <1>3, <1>5
<1>9. SX!ToSet(a) = SX!ToSet(s) \cup {e}
  BY <1>2, <1>6, <1>7, <1>8
<1> QED BY <1>9 DEF a

\* No element is there twice.
Unique(s) == \A i, j \in 1 .. Len(s) : s[i] = s[j] => i = j

LEMMA UniqueAppend ==
  ASSUME NEW S, NEW s \in Seq(S), NEW e \in S
  PROVE  Unique(Append(s, e)) <=> Unique(s) /\ e \notin SX!ToSet(s)
<1> DEFINE a == Append(s, e)
           n == Len(s)
<1>1. /\ n \in Nat /\ a \in Seq(S) /\ Len(a) = n + 1 /\ a[n + 1] = e
      /\ \A i \in 1 .. n : a[i] = s[i]
  BY AppendFacts
<1> HIDE DEF a
<1>2. \A x : x \in SX!ToSet(s) <=> \E i \in 1 .. n : s[i] = x
  BY InSet
<1>3. \A i \in 1 .. n + 1 : i \in 1 .. n \/ i = n + 1
  BY <1>1
<1>4. n + 1 \in 1 .. n + 1 /\ n + 1 \notin 1 .. n /\ \A i \in 1 .. n : i \in 1 .. n + 1
  BY <1>1
<1>5. Unique(a) <=> \A i, j \in 1 .. n + 1 : a[i] = a[j] => i = j
  BY <1>1 DEF Unique
<1>6. Unique(s) <=> \A i, j \in 1 .. n : s[i] = s[j] => i = j
  BY DEF Unique
<1> HIDE DEF n
<1>7. Unique(a) <=> Unique(s) /\ e \notin SX!ToSet(s)
  BY <1>1, <1>2, <1>3, <1>4, <1>5, <1>6
<1> QED BY <1>7 DEF a

LEMMA UniqueFront ==
  ASSUME NEW S, NEW s \in Seq(S), NEW e \in S, Unique(s), e \notin SX!ToSet(s)
  PROVE  Unique(<<e>> \o s)
<1> DEFINE a == <<e>> \o s
           n == Len(s)
<1>1. /\ n \in Nat /\ a \in Seq(S) /\ Len(a) = n + 1 /\ a[1] = e
      /\ \A i \in 2 .. n + 1 : a[i] = s[i - 1]
  BY FrontFacts
<1> HIDE DEF a
<1>2. \A x : x \in SX!ToSet(s) <=> \E i \in 1 .. n : s[i] = x
  BY InSet
<1>3. \A i \in 1 .. n + 1 : i = 1 \/ (i \in 2 .. n + 1 /\ i - 1 \in 1 .. n /\ i # 1)
  BY <1>1
<1>4. \A i, j \in 2 .. n + 1 : i - 1 = j - 1 => i = j
  OBVIOUS
<1>5. Unique(a) <=> \A i, j \in 1 .. n + 1 : a[i] = a[j] => i = j
  BY <1>1 DEF Unique
<1>6. \A i, j \in 1 .. n : s[i] = s[j] => i = j
  BY DEF Unique
<1> HIDE DEF n
<1>7. ASSUME NEW i \in 1 .. n + 1, NEW j \in 1 .. n + 1, a[i] = a[j] PROVE i = j
  <2>1. \A k \in 2 .. n + 1 : a[k] # e
    BY <1>1, <1>2, <1>3
  <2>2. CASE i = 1 \/ j = 1
    BY <1>1, <1>3, <1>7, <2>1, <2>2
  <2>3. CASE i \in 2 .. n + 1 /\ j \in 2 .. n + 1
    BY <1>1, <1>3, <1>4, <1>6, <1>7, <2>3
  <2> QED BY <1>3, <2>2, <2>3
<1>8. Unique(a)
  BY <1>5, <1>7
<1> QED BY <1>8 DEF a

LEMMA OnlySet ==
  ASSUME NEW S, NEW T, NEW s \in Seq(S)
  PROVE  SX!ToSet(Only(s, T)) = SX!ToSet(s) \cap T
<1> DEFINE P == {r \in Seq(S) : SX!ToSet(Only(r, T)) = SX!ToSet(r) \cap T}
<1>1. <<>> \in P
  BY OnlyEmpty, EmptySeq, SetEmpty
<1>2. ASSUME NEW r \in P, NEW e \in S PROVE Append(r, e) \in P
  <2>1. r \in Seq(S) /\ Append(r, e) \in Seq(S) /\ Only(r, T) \in Seq(S)
    BY OnlyType, AppendFacts
  <2>2. /\ e \in T => Only(Append(r, e), T) = Append(Only(r, T), e)
        /\ e \notin T => Only(Append(r, e), T) = Only(r, T)
    BY <2>1, OnlyAppend
  <2>3. /\ SX!ToSet(Append(r, e)) = SX!ToSet(r) \cup {e}
        /\ SX!ToSet(Append(Only(r, T), e)) = SX!ToSet(Only(r, T)) \cup {e}
    BY <2>1, SetAppend
  <2>4. SX!ToSet(Only(Append(r, e), T)) = SX!ToSet(Append(r, e)) \cap T
    BY <2>2, <2>3
  <2> QED BY <2>1, <2>4
<1>3. P \in SUBSET Seq(S)
  OBVIOUS
<1> HIDE DEF P
<1>4. P = Seq(S)
  BY <1>1, <1>2, <1>3, SeqSetInduction
<1> QED BY <1>4 DEF P

LEMMA OnlyUnique ==
  ASSUME NEW S, NEW T, NEW s \in Seq(S), Unique(s)
  PROVE  Unique(Only(s, T))
<1> DEFINE P == {r \in Seq(S) : Unique(r) => Unique(Only(r, T))}
<1>1. <<>> \in P
  BY OnlyEmpty, EmptySeq
<1>2. ASSUME NEW r \in P, NEW e \in S PROVE Append(r, e) \in P
  <2>1. /\ r \in Seq(S) /\ Append(r, e) \in Seq(S) /\ Only(r, T) \in Seq(S)
        /\ Unique(r) => Unique(Only(r, T))
    BY OnlyType, AppendFacts
  <2>2. /\ e \in T => Only(Append(r, e), T) = Append(Only(r, T), e)
        /\ e \notin T => Only(Append(r, e), T) = Only(r, T)
    BY <2>1, OnlyAppend
  <2>3. /\ Unique(Append(r, e)) <=> Unique(r) /\ e \notin SX!ToSet(r)
        /\ Unique(Append(Only(r, T), e)) <=> Unique(Only(r, T)) /\ e \notin SX!ToSet(Only(r, T))
    BY <2>1, UniqueAppend
  <2>4. SX!ToSet(Only(r, T)) = SX!ToSet(r) \cap T
    BY <2>1, OnlySet
  <2>5. Unique(Append(r, e)) => Unique(Only(Append(r, e), T))
    BY <2>1, <2>2, <2>3, <2>4
  <2> QED BY <2>1, <2>5
<1>3. P \in SUBSET Seq(S)
  OBVIOUS
<1> HIDE DEF P
<1>4. P = Seq(S)
  BY <1>1, <1>2, <1>3, SeqSetInduction
<1> QED BY <1>4 DEF P

\* b is the next in s that is in T after a.
Gap(s, T, a, b) ==
  /\ a \in T /\ b \in T
  /\ \E p, q \in 1 .. Len(s) :
       p < q /\ s[p] = a /\ s[q] = b /\ \A k \in p + 1 .. q - 1 : s[k] \notin T

\* a is the last in s that is in T.
Ending(s, T, a) ==
  a \in T /\ \E p \in 1 .. Len(s) : s[p] = a /\ \A k \in p + 1 .. Len(s) : s[k] \notin T

\* Who is next to each other in Only(s, T) has nobody of T in between in s.
Gaps(s, T, o) ==
  /\ \A i \in 1 .. Len(o) - 1 : Gap(s, T, o[i], o[i + 1])
  /\ o # <<>> => Ending(s, T, o[Len(o)])
  /\ o = <<>> => \A k \in 1 .. Len(s) : s[k] \notin T

LEMMA GapAppend ==
  ASSUME NEW S, NEW T, NEW s \in Seq(S), NEW e \in S, NEW a, NEW b, Gap(s, T, a, b)
  PROVE  Gap(Append(s, e), T, a, b)
<1> DEFINE r == Append(s, e)
           n == Len(s)
<1>1. /\ n \in Nat /\ Len(r) = n + 1 /\ \A i \in 1 .. n : r[i] = s[i]
  BY AppendFacts
<1> HIDE DEF r
<1>2. PICK p, q \in 1 .. n : p < q /\ s[p] = a /\ s[q] = b /\ \A k \in p + 1 .. q - 1 : s[k] \notin T
  BY DEF Gap
<1>3. p \in 1 .. n + 1 /\ q \in 1 .. n + 1 /\ \A k \in p + 1 .. q - 1 : k \in 1 .. n
  BY <1>1
<1>4. r[p] = a /\ r[q] = b /\ \A k \in p + 1 .. q - 1 : r[k] \notin T
  BY <1>1, <1>2, <1>3
<1>5. a \in T /\ b \in T
  BY DEF Gap
<1>6. Gap(r, T, a, b)
  BY <1>1, <1>2, <1>3, <1>4, <1>5 DEF Gap
<1> QED BY <1>6 DEF r

LEMMA EndingAppend ==
  ASSUME NEW S, NEW T, NEW s \in Seq(S), NEW e \in S
  PROVE  /\ e \in T => Ending(Append(s, e), T, e)
         /\ \A a : e \notin T /\ Ending(s, T, a) => Ending(Append(s, e), T, a)
         /\ \A a : e \in T /\ Ending(s, T, a) => Gap(Append(s, e), T, a, e)
<1> DEFINE r == Append(s, e)
           n == Len(s)
<1>1. /\ n \in Nat /\ Len(r) = n + 1 /\ r[n + 1] = e /\ \A i \in 1 .. n : r[i] = s[i]
  BY AppendFacts
<1> HIDE DEF r
<1>2. n + 1 \in 1 .. n + 1 /\ \A k \in (n + 1) + 1 .. n + 1 : FALSE
  BY <1>1
<1>3. e \in T => Ending(r, T, e)
  BY <1>1, <1>2 DEF Ending
<1>4. ASSUME NEW a, Ending(s, T, a)
      PROVE  /\ e \notin T => Ending(r, T, a)
             /\ e \in T => Gap(r, T, a, e)
  <2>1. a \in T
    BY <1>4 DEF Ending
  <2>2. PICK p \in 1 .. n : s[p] = a /\ \A k \in p + 1 .. n : s[k] \notin T
    BY <1>4 DEF Ending
  <2>3. p \in 1 .. n + 1 /\ p < n + 1 /\ (n + 1) - 1 = n
    BY <1>1
  <2>4. \A k \in p + 1 .. n : k \in 1 .. n
    BY <1>1
  <2>5. r[p] = a /\ \A k \in p + 1 .. n : r[k] \notin T
    BY <1>1, <2>2, <2>4
  <2>6. \A k \in p + 1 .. n + 1 : k \in p + 1 .. n \/ k = n + 1
    BY <1>1
  <2>7. e \notin T => Ending(r, T, a)
    BY <1>1, <2>1, <2>3, <2>5, <2>6 DEF Ending
  <2>8. e \in T => Gap(r, T, a, e)
    BY <1>1, <1>2, <2>1, <2>3, <2>5 DEF Gap
  <2> QED BY <2>7, <2>8
<1> QED BY <1>3, <1>4 DEF r

LEMMA OnlyGaps ==
  ASSUME NEW S, NEW T, NEW s \in Seq(S)
  PROVE  Gaps(s, T, Only(s, T))
<1> DEFINE P == {r \in Seq(S) : Gaps(r, T, Only(r, T))}
<1>1. <<>> \in P
  <2>1. Gaps(<<>>, T, <<>>)
    BY DEF Gaps
  <2> QED BY <2>1, OnlyEmpty, EmptySeq
<1>2. ASSUME NEW r \in P, NEW e \in S PROVE Append(r, e) \in P
  <2> DEFINE o == Only(r, T)
             m == Len(o)
             a == Append(r, e)
  <2>1. /\ r \in Seq(S) /\ a \in Seq(S) /\ o \in Seq(S) /\ Gaps(r, T, o)
        /\ Len(a) = Len(r) + 1 /\ a[Len(r) + 1] = e /\ \A i \in 1 .. Len(r) : a[i] = r[i]
        /\ Len(r) \in Nat
    BY OnlyType, AppendFacts
  <2>2. /\ e \in T => Only(a, T) = Append(o, e)
        /\ e \notin T => Only(a, T) = o
    BY <2>1, OnlyAppend
  <2>3. \A x, y : Gap(r, T, x, y) => Gap(a, T, x, y)
    BY <2>1, GapAppend
  <2>4. /\ e \in T => Ending(a, T, e)
        /\ \A x : e \notin T /\ Ending(r, T, x) => Ending(a, T, x)
        /\ \A x : e \in T /\ Ending(r, T, x) => Gap(a, T, x, e)
    BY <2>1, EndingAppend
  <2>5. /\ \A i \in 1 .. m - 1 : Gap(r, T, o[i], o[i + 1])
        /\ o # <<>> => Ending(r, T, o[m])
        /\ o = <<>> => \A k \in 1 .. Len(r) : r[k] \notin T
    BY <2>1 DEF Gaps
  <2> HIDE DEF o, a
  <2>6. CASE e \notin T
    <3>1. o = <<>> => \A k \in 1 .. Len(a) : a[k] \notin T
      BY <2>1, <2>5, <2>6
    <3>2. Gaps(a, T, o)
      BY <2>3, <2>4, <2>5, <2>6, <3>1 DEF Gaps
    <3> QED BY <2>1, <2>2, <2>6, <3>2 DEF a
  <2>7. CASE e \in T
    <3> DEFINE b == Append(o, e)
    <3>1. /\ m \in Nat /\ Len(b) = m + 1 /\ b[m + 1] = e /\ (\A i \in 1 .. m : b[i] = o[i])
          /\ b # <<>> /\ (m # 0 => o # <<>>)
      BY <2>1, AppendFacts
    <3> HIDE DEF b, m
    <3>2. ASSUME NEW i \in 1 .. m PROVE Gap(a, T, b[i], b[i + 1])
      <4>1. CASE i = m
        BY <2>4, <2>5, <2>7, <3>1, <4>1
      <4>2. CASE i # m
        <5>1. i \in 1 .. m - 1 /\ i + 1 \in 1 .. m
          BY <3>1, <4>2
        <5> QED BY <2>3, <2>5, <3>1, <5>1
      <4> QED BY <4>1, <4>2
    <3>3. Len(b) - 1 = m
      BY <3>1
    <3>4. Gaps(a, T, b)
      BY <2>4, <2>7, <3>1, <3>2, <3>3 DEF Gaps
    <3> QED BY <2>1, <2>2, <2>7, <3>4 DEF a, b
  <2> QED BY <2>6, <2>7
<1>3. P \in SUBSET Seq(S)
  OBVIOUS
<1> HIDE DEF P
<1>4. P = Seq(S)
  BY <1>1, <1>2, <1>3, SeqSetInduction
<1> QED BY <1>4 DEF P

-----------------------------------------------------------------------------
(* The invariant.                                                          *)

Ins  == {c \in DOMAIN of : Inbound(c)}
Outs == {c \in DOMAIN of : Outbound(c)}
Made == Cardinality(DOMAIN of)

Frame == [c : Ids, ev : {"read", "write", "close"}, in : BOOLEAN, guard : BOOLEAN]

Typed ==
  /\ Made \in 0 .. MaxCtxs /\ DOMAIN of = 1 .. Made /\ of \in [1 .. Made -> Handlers]
  /\ ctxs \in Seq(1 .. Made) /\ Unique(ctxs)
  /\ nextIn \in [Ids -> Ids \cup {None}] /\ nextOut \in [Ids -> Ids \cup {None}]
  /\ front \in Ids \cup {None} /\ back \in Ids \cup {None}
  /\ attached \subseteq SX!ToSet(ctxs)
  /\ count \in [Handlers -> Nat] /\ ctx \in [Handlers -> Ids \cup {None}]
  /\ final \in BOOLEAN /\ owned \in BOOLEAN /\ calls \in 0 .. MaxCalls
  /\ stack \in [Threads -> Seq(Frame)]
  /\ crashed \in {"no", "entering", "inside"}

\* Contexts of h in the lists that wait for finalize to attach them.
Waiting(h) == {c \in SX!ToSet(ctxs) \ attached : of[c] = h}

\* A context is attached once, wherever it is put, removed and linked.
CountSound == \A h \in Handlers : count[h] + Cardinality(Waiting(h)) <= Made

Sole(c) == \A d \in DOMAIN of : of[d] = of[c] => d = c

\* What attachPipeline leaves with the handler of a single context.
ContextSound ==
  /\ \A h \in Handlers : (\A d \in DOMAIN of : of[d] # h) => count[h] = 0
  /\ \A c \in SX!ToSet(ctxs) : Sole(c) =>
       /\ c \in attached => ctx[of[c]] = c
       /\ c \notin attached => count[of[c]] = 0

\* finalize has linked the lists as they are.
LinksSound ==
  final =>
    /\ attached = SX!ToSet(ctxs)
    /\ \A c \in SX!ToSet(inCtxs) : nextIn[c] = After(inCtxs, c)
    /\ \A c \in SX!ToSet(outCtxs) : nextOut[c] = After(SX!Reverse(outCtxs), c)
    /\ front = (IF inCtxs = <<>> THEN None ELSE inCtxs[1])
    /\ back = (IF outCtxs = <<>> THEN None ELSE outCtxs[Len(outCtxs)])

\* b is next to a in the list of the direction.
Follows(a, b, ev) ==
  IF ev = "read"
  THEN \E i \in 1 .. Len(inCtxs) - 1 : inCtxs[i] = a /\ inCtxs[i + 1] = b
  ELSE \E i \in 1 .. Len(outCtxs) - 1 : outCtxs[i] = b /\ outCtxs[i + 1] = a

\* A call is at a context of its direction, next to the one that made it.
Along(st) ==
  \A t \in Threads : \A i \in 1 .. Len(st[t]) :
    /\ st[t][i].ev = "read" => st[t][i].c \in SX!ToSet(inCtxs)
    /\ st[t][i].ev # "read" => st[t][i].c \in SX!ToSet(outCtxs)
    /\ i > 1 => Follows(st[t][i - 1].c, st[t][i].c, st[t][i].ev)

\* Who called on is inside, and who is inside has a guard.
Guarded(st) ==
  \A t \in Threads : \A i \in 1 .. Len(st[t]) :
    /\ st[t][i].in => st[t][i].guard
    /\ i < Len(st[t]) => st[t][i].in

StackSound ==
  /\ \A t \in Threads : stack[t] # <<>> => final
  /\ Along(stack) /\ Guarded(stack)

IInv ==
  Typed /\ Mirrors /\ CountSound /\ ContextSound /\ LinksSound /\ StackSound /\ GuardsHold

LEMMA PutFacts ==
  ASSUME NEW S, NEW s \in Seq(S), NEW e \in S, NEW atFront \in BOOLEAN
  PROVE  /\ Put(s, e, atFront) \in Seq(S)
         /\ SX!ToSet(Put(s, e, atFront)) = SX!ToSet(s) \cup {e}
         /\ Unique(s) /\ e \notin SX!ToSet(s) => Unique(Put(s, e, atFront))
         /\ \A T : /\ e \in T => Only(Put(s, e, atFront), T) = Put(Only(s, T), e, atFront)
                   /\ e \notin T => Only(Put(s, e, atFront), T) = Only(s, T)
<1>1. CASE atFront
  <2>1. \A r : Put(r, e, atFront) = <<e>> \o r
    BY <1>1 DEF Put
  <2>2. /\ <<e>> \o s \in Seq(S) /\ SX!ToSet(<<e>> \o s) = SX!ToSet(s) \cup {e}
        /\ Unique(s) /\ e \notin SX!ToSet(s) => Unique(<<e>> \o s)
    BY FrontFacts, SetFront, UniqueFront
  <2>3. \A T : /\ e \in T => Only(<<e>> \o s, T) = <<e>> \o Only(s, T)
               /\ e \notin T => Only(<<e>> \o s, T) = Only(s, T)
    BY OnlyFront
  <2> QED BY <2>1, <2>2, <2>3, Zenon
<1>2. CASE ~atFront
  <2>1. \A r : Put(r, e, atFront) = Append(r, e)
    BY <1>2 DEF Put
  <2>2. /\ Append(s, e) \in Seq(S) /\ SX!ToSet(Append(s, e)) = SX!ToSet(s) \cup {e}
        /\ Unique(s) /\ e \notin SX!ToSet(s) => Unique(Append(s, e))
    BY AppendFacts, SetAppend, UniqueAppend
  <2>3. \A T : /\ e \in T => Only(Append(s, e), T) = Append(Only(s, T), e)
               /\ e \notin T => Only(Append(s, e), T) = Only(s, T)
    BY OnlyAppend
  <2> QED BY <2>1, <2>2, <2>3, Zenon
<1> QED BY <1>1, <1>2

LEMMA CtxsFacts ==
  ASSUME Typed, Mirrors
  PROVE  /\ Made \in Nat /\ DOMAIN of = 1 .. Made /\ IsFiniteSet(DOMAIN of)
         /\ SX!ToSet(ctxs) \subseteq 1 .. Made
         /\ inCtxs \in Seq(1 .. Made) /\ SX!ToSet(inCtxs) = SX!ToSet(ctxs) \cap Ins
         /\ outCtxs \in Seq(1 .. Made) /\ SX!ToSet(outCtxs) = SX!ToSet(ctxs) \cap Outs
         /\ inCtxs = Only(ctxs, Ins) /\ outCtxs = Only(ctxs, Outs)
<1>1. Made \in Nat /\ DOMAIN of = 1 .. Made /\ ctxs \in Seq(1 .. Made)
  BY DEF Typed
<1>2. inCtxs = Only(ctxs, Ins) /\ outCtxs = Only(ctxs, Outs)
  BY DEF Mirrors, Ins, Outs
<1>3. IsFiniteSet(1 .. Made)
  BY <1>1, FS_Interval
<1>4. SX!ToSet(ctxs) \subseteq 1 .. Made
  BY <1>1, InSet
<1>5. /\ Only(ctxs, Ins) \in Seq(1 .. Made) /\ SX!ToSet(Only(ctxs, Ins)) = SX!ToSet(ctxs) \cap Ins
      /\ Only(ctxs, Outs) \in Seq(1 .. Made) /\ SX!ToSet(Only(ctxs, Outs)) = SX!ToSet(ctxs) \cap Outs
  BY <1>1, OnlyType, OnlySet
<1> QED BY <1>1, <1>2, <1>3, <1>4, <1>5

LEMMA InitInv ==
  ASSUME Sensible, Init
  PROVE  IInv
<1>1. of = [c \in {} |-> None] /\ DOMAIN of = {} /\ Made = 0 /\ 1 .. Made = {}
  <2>1. DOMAIN of = {}
    BY DEF Init
  <2>2. Made = 0
    BY <2>1, FS_EmptySet DEF Made
  <2> QED BY <2>1, <2>2 DEF Init
<1>2. ctxs = <<>> /\ inCtxs = <<>> /\ outCtxs = <<>> /\ SX!ToSet(ctxs) = {}
  BY SetEmpty DEF Init
<1>3. Unique(ctxs) /\ ctxs \in Seq(1 .. Made)
  BY <1>2, EmptySeq DEF Unique
<1>4. stack \in [Threads -> Seq(Frame)] /\ \A t \in Threads : stack[t] = <<>>
  BY EmptySeq DEF Init
<1>5. Typed
  <2>1. of \in [1 .. Made -> Handlers]
    BY <1>1
  <2>2. /\ nextIn \in [Ids -> Ids \cup {None}] /\ nextOut \in [Ids -> Ids \cup {None}]
        /\ front \in Ids \cup {None} /\ back \in Ids \cup {None}
        /\ count \in [Handlers -> Nat] /\ ctx \in [Handlers -> Ids \cup {None}]
    BY DEF Init
  <2>3. attached \subseteq SX!ToSet(ctxs) /\ final \in BOOLEAN /\ owned \in BOOLEAN /\ crashed = "no"
    BY DEF Init
  <2>4. Made \in 0 .. MaxCtxs /\ calls \in 0 .. MaxCalls
    BY <1>1 DEF Init, Sensible
  <2> QED BY <1>1, <1>3, <1>4, <2>1, <2>2, <2>3, <2>4 DEF Typed
<1>6. Mirrors
  BY <1>2, OnlyEmpty DEF Mirrors
<1>7. CountSound
  <2>1. \A h \in Handlers : count[h] = 0 /\ Waiting(h) = {}
    BY <1>2 DEF Init, Waiting
  <2> QED BY <1>1, <2>1, FS_EmptySet DEF CountSound
<1>8. ContextSound
  BY <1>2 DEF ContextSound, Init
<1>9. LinksSound /\ StackSound /\ GuardsHold
  BY <1>4 DEF LinksSound, StackSound, Along, Guarded, GuardsHold, Init
<1> QED BY <1>5, <1>6, <1>7, <1>8, <1>9 DEF IInv

-----------------------------------------------------------------------------
(* Building and changing the pipeline.                                     *)

\* Between packets nothing is on a stack.
LEMMA QuietSteps ==
  ASSUME Quiet, Keep, GuardsHold, stack \in [Threads -> Seq(Frame)]
  PROVE  /\ StackSound' /\ GuardsHold' /\ stack' \in [Threads -> Seq(Frame)]
         /\ owned' = owned /\ calls' = calls /\ crashed' = crashed
<1>1. stack' = stack /\ owned' = owned /\ calls' = calls /\ crashed' = crashed
  BY DEF Keep
<1>2. \A t \in Threads : stack'[t] = <<>> /\ Len(stack'[t]) = 0
  BY <1>1 DEF Quiet
<1>3. Along(stack)' /\ Guarded(stack)'
  BY <1>2 DEF Along, Guarded
<1> QED BY <1>1, <1>2, <1>3 DEF StackSound, GuardsHold

LEMMA AddInv ==
  ASSUME Sensible, IInv, NEW h \in Handlers, NEW atFront \in BOOLEAN, Add(h, atFront)
  PROVE  IInv'
<1> DEFINE c == Made + 1
           S == 1 .. c
           L == SX!ToSet(ctxs)
<1> USE DEF IInv
<1>1. /\ Made \in Nat /\ DOMAIN of = 1 .. Made /\ IsFiniteSet(DOMAIN of) /\ L \subseteq 1 .. Made
      /\ inCtxs \in Seq(1 .. Made) /\ SX!ToSet(inCtxs) = L \cap Ins
      /\ outCtxs \in Seq(1 .. Made) /\ SX!ToSet(outCtxs) = L \cap Outs
      /\ inCtxs = Only(ctxs, Ins) /\ outCtxs = Only(ctxs, Outs)
  BY CtxsFacts
<1>2. /\ of' = [d \in DOMAIN of \cup {c} |-> IF d = c THEN h ELSE of[d]]
      /\ ctxs' = Put(ctxs, c, atFront)
      /\ inCtxs' = IF Dir[h] = "OUT" THEN inCtxs ELSE Put(inCtxs, c, atFront)
      /\ outCtxs' = IF Dir[h] = "IN" THEN outCtxs ELSE Put(outCtxs, c, atFront)
      /\ final' = FALSE /\ Made < MaxCtxs
      /\ nextIn' = nextIn /\ nextOut' = nextOut /\ front' = front /\ back' = back
      /\ attached' = attached /\ count' = count /\ ctx' = ctx /\ Quiet /\ Keep
  BY DEF Add, Made, links, marks
<1>3. c \in S /\ c \notin 1 .. Made /\ 1 .. Made \subseteq S /\ (1 .. Made) \cup {c} = S /\ c \in Nat
  BY <1>1
<1>4. c \in 0 .. MaxCtxs /\ Dir[h] \in {"IN", "OUT", "BOTH"}
  BY <1>1, <1>2 DEF Sensible
<1> HIDE DEF c, S
<1>5. of' = [d \in S |-> IF d = c THEN h ELSE of[d]] /\ DOMAIN of' = S
  BY <1>1, <1>2, <1>3
<1>6. Made' = c
  <2>1. S = 1 .. c
    BY DEF S
  <2>2. Cardinality(1 .. c) = c
    <3>1. c >= 1 /\ c \in Int
      BY <1>1 DEF c
    <3>2. Cardinality(1 .. c) = IF 1 > c THEN 0 ELSE c - 1 + 1
      BY <3>1, FS_Interval
    <3> QED BY <3>1, <3>2
  <2> QED BY <1>5, <2>1, <2>2 DEF Made
<1>7. of \in [1 .. Made -> Handlers] /\ ctxs \in Seq(1 .. Made) /\ Unique(ctxs) /\ attached \subseteq L
  BY DEF Typed
<1>8. ctxs \in Seq(S) /\ inCtxs \in Seq(S) /\ outCtxs \in Seq(S)
  BY <1>1, <1>3, <1>7
<1>9. /\ ctxs' \in Seq(S) /\ SX!ToSet(ctxs') = L \cup {c} /\ Unique(ctxs')
      /\ \A T : /\ c \in T => Only(ctxs', T) = Put(Only(ctxs, T), c, atFront)
                /\ c \notin T => Only(ctxs', T) = Only(ctxs, T)
  <2>1. c \notin L
    BY <1>1, <1>3
  <2> QED BY <1>2, <1>3, <1>7, <1>8, <2>1, PutFacts
<1>10. \A d \in 1 .. Made : of'[d] = of[d] /\ d # c
  BY <1>3, <1>5
<1>11. of'[c] = h
  BY <1>3, <1>5
<1>12. Typed'
  <2>1. stack' \in [Threads -> Seq(Frame)] /\ owned' = owned /\ calls' = calls /\ crashed' = crashed
    BY <1>2, QuietSteps DEF Typed
  <2>2. of' \in [S -> Handlers]
    BY <1>3, <1>5, <1>7
  <2>3. attached' \subseteq SX!ToSet(ctxs)'
    BY <1>2, <1>7, <1>9
  <2>4. final' \in BOOLEAN
    BY <1>2
  <2> QED BY <1>2, <1>4, <1>5, <1>6, <1>9, <2>1, <2>2, <2>3, <2>4 DEF Typed, S
<1>13. Mirrors'
  <2> DEFINE I == {d \in S : Dir[of'[d]] \in {"IN", "BOTH"}}
             O == {d \in S : Dir[of'[d]] \in {"OUT", "BOTH"}}
  <2>1. I \cap (1 .. Made) = Ins \cap (1 .. Made) /\ O \cap (1 .. Made) = Outs \cap (1 .. Made)
    BY <1>1, <1>3, <1>10 DEF Ins, Outs, Inbound, Outbound
  <2>2. (c \in I <=> Dir[h] # "OUT") /\ (c \in O <=> Dir[h] # "IN")
    BY <1>3, <1>4, <1>11
  <2> HIDE DEF I, O
  <2>3. Only(ctxs, I) = Only(ctxs, Ins) /\ Only(ctxs, O) = Only(ctxs, Outs)
    <3>1. \A A, B : A \cap (1 .. Made) = B \cap (1 .. Made) => Only(ctxs, A) = Only(ctxs, B)
      <4> DEFINE M == 1 .. Made
      <4>1. ctxs \in Seq(M)
        BY <1>7
      <4> HIDE DEF M
      <4>2. \A A, B : A \cap M = B \cap M => Only(ctxs, A) = Only(ctxs, B)
        BY <4>1, OnlySame
      <4> QED BY <4>2 DEF M
    <3> QED BY <2>1, <3>1
  <2>4. inCtxs' = Only(ctxs', I) /\ outCtxs' = Only(ctxs', O)
    BY <1>1, <1>2, <1>9, <2>2, <2>3
  <2> QED BY <1>5, <2>4 DEF Mirrors, Inbound, Outbound, I, O
<1>14. CountSound'
  <2> SUFFICES ASSUME NEW k \in Handlers PROVE count'[k] + Cardinality(Waiting(k)') <= Made'
    BY DEF CountSound
  <2>1. count[k] \in Nat /\ count[k] + Cardinality(Waiting(k)) <= Made
    BY DEF CountSound, Typed
  <2>2. Waiting(k)' = {d \in (L \cup {c}) \ attached : of'[d] = k}
    BY <1>2, <1>9 DEF Waiting
  <2>3. Waiting(k)' \subseteq Waiting(k) \cup {c}
    BY <1>1, <1>10, <2>2 DEF Waiting
  <2>4. IsFiniteSet(Waiting(k))
    <3>1. Waiting(k) \subseteq DOMAIN of
      BY <1>1 DEF Waiting
    <3> QED BY <1>1, <3>1, FS_Subset
  <2>5. IsFiniteSet(Waiting(k) \cup {c}) /\ Cardinality(Waiting(k) \cup {c}) <= Cardinality(Waiting(k)) + 1
    <3>1. Cardinality(Waiting(k)) \in Nat
      BY <2>4, FS_CardinalityType
    <3> QED BY <2>4, <3>1, FS_AddElement
  <2>6. Cardinality(Waiting(k)') <= Cardinality(Waiting(k) \cup {c})
    BY <2>3, <2>5, FS_Subset
  <2>7. /\ Cardinality(Waiting(k)) \in Nat /\ Cardinality(Waiting(k)') \in Nat
        /\ Cardinality(Waiting(k) \cup {c}) \in Nat
    BY <2>3, <2>4, <2>5, FS_Subset, FS_CardinalityType
  <2> QED BY <1>1, <1>2, <1>6, <2>1, <2>5, <2>6, <2>7 DEF c
<1>15. ContextSound'
  <2>1. ASSUME NEW k \in Handlers, \A d \in S : of'[d] # k PROVE count'[k] = 0
    <3>1. \A d \in DOMAIN of : of[d] # k
      BY <1>1, <1>3, <1>10, <2>1
    <3> QED BY <1>2, <3>1 DEF ContextSound
  <2>2. ASSUME NEW d \in L \cup {c}, \A e \in S : of'[e] = of'[d] => e = d
        PROVE  /\ d \in attached => ctx[of'[d]] = d
               /\ d \notin attached => count[of'[d]] = 0
    <3>1. CASE d = c
      <4>1. d \notin attached
        BY <1>1, <1>3, <1>7, <3>1
      <4>2. \A e \in DOMAIN of : of[e] # h
        BY <1>1, <1>3, <1>10, <1>11, <2>2, <3>1
      <4> QED BY <1>11, <3>1, <4>1, <4>2 DEF ContextSound
    <3>2. CASE d # c
      <4>1. d \in L /\ d \in 1 .. Made /\ of'[d] = of[d]
        BY <1>1, <1>10, <2>2, <3>2
      <4>2. Sole(d)
        BY <1>1, <1>3, <1>10, <2>2, <4>1 DEF Sole
      <4> QED BY <4>1, <4>2 DEF ContextSound
    <3> QED BY <3>1, <3>2
  <2> QED BY <1>2, <1>5, <1>9, <2>1, <2>2 DEF ContextSound, Sole
<1>16. LinksSound'
  BY <1>2 DEF LinksSound
<1>17. StackSound' /\ GuardsHold'
  BY <1>2, QuietSteps DEF Typed
<1> QED BY <1>12, <1>13, <1>14, <1>15, <1>16, <1>17

LEMMA RemoveInv ==
  ASSUME Sensible, IInv, Quiet, NEW gone, RemoveAt(gone)
  PROVE  IInv'
<1> DEFINE K == Ids \ gone
           L == SX!ToSet(ctxs)
<1> USE DEF IInv
<1>1. /\ Made \in Nat /\ DOMAIN of = 1 .. Made /\ IsFiniteSet(DOMAIN of) /\ L \subseteq 1 .. Made
      /\ inCtxs = Only(ctxs, Ins) /\ outCtxs = Only(ctxs, Outs)
  BY CtxsFacts
<1>2. /\ ctxs' = Only(ctxs, K) /\ inCtxs' = Only(inCtxs, K) /\ outCtxs' = Only(outCtxs, K)
      /\ attached' = attached \ gone /\ final' = FALSE
      /\ of' = of /\ nextIn' = nextIn /\ nextOut' = nextOut /\ front' = front /\ back' = back
      /\ count' = count /\ ctx' = ctx /\ Keep /\ Made' = Made
  BY DEF RemoveAt, Made, links
<1>3. /\ of \in [1 .. Made -> Handlers] /\ ctxs \in Seq(1 .. Made) /\ Unique(ctxs) /\ attached \subseteq L
      /\ 1 .. Made \subseteq Ids
  <2>1. Made \in 0 .. MaxCtxs /\ MaxCtxs \in Nat
    BY DEF Typed, Sensible
  <2>2. 1 .. Made \subseteq Ids
    BY <2>1 DEF Ids
  <2> QED BY <2>2 DEF Typed
<1> HIDE DEF K
<1>4. /\ ctxs' \in Seq(1 .. Made) /\ SX!ToSet(ctxs') = L \cap K /\ Unique(ctxs')
  BY <1>2, <1>3, OnlyType, OnlySet, OnlyUnique
<1>5. L \cap K = L \ gone
  BY <1>1, <1>3 DEF K
<1>6. Typed'
  <2>1. stack' \in [Threads -> Seq(Frame)] /\ owned' = owned /\ calls' = calls /\ crashed' = crashed
    BY <1>2, QuietSteps DEF Typed
  <2>2. attached' \subseteq SX!ToSet(ctxs)'
    BY <1>2, <1>3, <1>4, <1>5
  <2>3. final' \in BOOLEAN
    BY <1>2
  <2> QED BY <1>2, <1>4, <2>1, <2>2, <2>3 DEF Typed
<1>7. Mirrors'
  <2>1. /\ Only(Only(ctxs, Ins), K) = Only(ctxs, Ins \cap K)
        /\ Only(Only(ctxs, K), Ins) = Only(ctxs, K \cap Ins)
        /\ Only(Only(ctxs, Outs), K) = Only(ctxs, Outs \cap K)
        /\ Only(Only(ctxs, K), Outs) = Only(ctxs, K \cap Outs)
    BY <1>3, OnlyTwice
  <2>2. Ins \cap K = K \cap Ins /\ Outs \cap K = K \cap Outs
    OBVIOUS
  <2>3. inCtxs' = Only(ctxs', Ins) /\ outCtxs' = Only(ctxs', Outs)
    BY <1>1, <1>2, <2>1, <2>2
  <2> QED BY <1>2, <2>3 DEF Mirrors, Ins, Outs, Inbound, Outbound
<1>8. CountSound'
  <2> SUFFICES ASSUME NEW k \in Handlers PROVE count'[k] + Cardinality(Waiting(k)') <= Made'
    BY DEF CountSound
  <2>1. count[k] \in Nat /\ count[k] + Cardinality(Waiting(k)) <= Made
    BY DEF CountSound, Typed
  <2>2. Waiting(k)' \subseteq Waiting(k)
    BY <1>2, <1>4, <1>5 DEF Waiting
  <2>3. IsFiniteSet(Waiting(k))
    <3>1. Waiting(k) \subseteq DOMAIN of
      BY <1>1 DEF Waiting
    <3> QED BY <1>1, <3>1, FS_Subset
  <2>4. /\ Cardinality(Waiting(k)') <= Cardinality(Waiting(k))
        /\ Cardinality(Waiting(k)') \in Nat /\ Cardinality(Waiting(k)) \in Nat
    BY <2>2, <2>3, FS_Subset, FS_CardinalityType
  <2> QED BY <1>1, <1>2, <2>1, <2>4
<1>9. ContextSound'
  BY <1>2, <1>4, <1>5 DEF ContextSound, Sole
<1>10. LinksSound'
  BY <1>2 DEF LinksSound
<1>11. StackSound' /\ GuardsHold'
  BY <1>2, QuietSteps DEF Typed
<1> QED BY <1>6, <1>7, <1>8, <1>9, <1>10, <1>11

LEMMA AfterIn ==
  ASSUME NEW S, NEW s \in Seq(S), NEW x
  PROVE  \/ After(s, x) = None
         \/ \E i \in 1 .. Len(s) - 1 : s[i] = x /\ s[i + 1] = After(s, x) /\ After(s, x) \in S
<1>1. CASE \E i \in 1 .. Len(s) - 1 : s[i] = x
  <2> DEFINE i == CHOOSE j \in 1 .. Len(s) - 1 : s[j] = x
  <2>1. i \in 1 .. Len(s) - 1 /\ s[i] = x
    BY <1>1
  <2>2. After(s, x) = s[i + 1]
    BY <1>1 DEF After
  <2> HIDE DEF i
  <2>3. i + 1 \in 1 .. Len(s)
    BY <2>1
  <2>4. s[i + 1] \in S
    BY <2>3
  <2> QED BY <2>1, <2>2, <2>4
<1>2. CASE ~ \E i \in 1 .. Len(s) - 1 : s[i] = x
  BY <1>2 DEF After
<1> QED BY <1>1, <1>2

LEMMA ReverseFacts ==
  ASSUME NEW S, NEW s \in Seq(S)
  PROVE  /\ SX!Reverse(s) \in Seq(S) /\ Len(SX!Reverse(s)) = Len(s)
         /\ \A i \in 1 .. Len(s) : SX!Reverse(s)[i] = s[(Len(s) - i) + 1]
         /\ SX!ToSet(SX!Reverse(s)) = SX!ToSet(s)
<1> DEFINE r == SX!Reverse(s)
           n == Len(s)
<1>1. n \in Nat /\ \A i \in 1 .. n : (n - i) + 1 \in 1 .. n
  OBVIOUS
<1>2. r = [i \in 1 .. n |-> s[(n - i) + 1]]
  BY DEF SX!Reverse
<1>3. \A i \in 1 .. n : s[i] \in S
  OBVIOUS
<1> HIDE DEF r, n
<1>4. r \in Seq(S) /\ Len(r) = n /\ \A i \in 1 .. n : r[i] = s[(n - i) + 1]
  BY <1>1, <1>2, <1>3
<1>5. \A x : x \in SX!ToSet(r) <=> \E i \in 1 .. n : r[i] = x
  BY <1>4, InSet
<1>6. \A x : x \in SX!ToSet(s) <=> \E i \in 1 .. n : s[i] = x
  BY InSet DEF n
<1>7. \A i \in 1 .. n : r[i] \in SX!ToSet(s)
  BY <1>1, <1>4, <1>6
<1>8. \A i \in 1 .. n : s[i] \in SX!ToSet(r)
  <2> SUFFICES ASSUME NEW i \in 1 .. n PROVE s[i] \in SX!ToSet(r)
    OBVIOUS
  <2>1. (n - i) + 1 \in 1 .. n /\ (n - ((n - i) + 1)) + 1 = i
    BY <1>1
  <2>2. r[(n - i) + 1] = s[i]
    BY <1>4, <2>1
  <2> QED BY <1>5, <2>1, <2>2
<1>9. SX!ToSet(r) = SX!ToSet(s)
  BY <1>5, <1>6, <1>7, <1>8
<1> QED BY <1>4, <1>9 DEF r, n

LEMMA LinkedFacts ==
  ASSUME NEW S, S \subseteq Ids, NEW s \in Seq(S), NEW next \in [Ids -> Ids \cup {None}]
  PROVE  /\ Linked(next, s) \in [Ids -> Ids \cup {None}]
         /\ \A c \in SX!ToSet(s) : Linked(next, s)[c] = After(s, c)
<1> DEFINE At(c) == IF c \in SX!ToSet(s) THEN After(s, c) ELSE next[c]
<1>1. Linked(next, s) = [c \in Ids |-> At(c)]
  BY DEF Linked
<1>2. \A c : After(s, c) \in Ids \cup {None}
  BY AfterIn
<1>3. \A c \in Ids : At(c) \in Ids \cup {None}
  BY <1>2
<1>4. \A c \in SX!ToSet(s) : c \in Ids /\ At(c) = After(s, c)
  BY InSet
<1> HIDE DEF At
<1> QED BY <1>1, <1>3, <1>4

LEMMA WaitingFacts ==
  ASSUME Typed, Mirrors, NEW h
  PROVE  /\ Waiting(h) \subseteq DOMAIN of /\ IsFiniteSet(Waiting(h)) /\ Cardinality(Waiting(h)) \in Nat
         /\ Cardinality({}) = 0 /\ \A c : Cardinality({c}) = 1
<1>1. IsFiniteSet(DOMAIN of) /\ Waiting(h) \subseteq DOMAIN of
  BY CtxsFacts DEF Waiting
<1>2. IsFiniteSet(Waiting(h))
  BY <1>1, FS_Subset
<1> QED BY <1>1, <1>2, FS_CardinalityType, FS_EmptySet, FS_Singleton

LEMMA FinalizeInv ==
  ASSUME Sensible, IInv, Finalize
  PROVE  IInv'
<1> DEFINE L == SX!ToSet(ctxs)
<1> USE DEF IInv
<1>1. /\ Made \in Nat /\ DOMAIN of = 1 .. Made /\ L \subseteq 1 .. Made
      /\ inCtxs \in Seq(1 .. Made) /\ outCtxs \in Seq(1 .. Made)
  BY CtxsFacts
<1>2. /\ nextIn' = Linked(nextIn, inCtxs) /\ nextOut' = Linked(nextOut, SX!Reverse(outCtxs))
      /\ front' = (IF inCtxs = <<>> THEN None ELSE inCtxs[1])
      /\ back' = (IF outCtxs = <<>> THEN None ELSE outCtxs[Len(outCtxs)])
      /\ count' = [h \in Handlers |-> count[h] + Cardinality(Waiting(h))]
      /\ ctx' = [h \in Handlers |->
                   IF Waiting(h) = {} THEN ctx[h]
                   ELSE IF count'[h] = 1 THEN CHOOSE c \in Waiting(h) : TRUE ELSE None]
      /\ attached' = L /\ final' = TRUE /\ Quiet /\ Keep
      /\ of' = of /\ ctxs' = ctxs /\ inCtxs' = inCtxs /\ outCtxs' = outCtxs /\ Made' = Made
  BY DEF Finalize, Waiting, lists, Made
<1>3. 1 .. Made \subseteq Ids
  <2>1. Made \in 0 .. MaxCtxs /\ MaxCtxs \in Nat
    BY DEF Typed, Sensible
  <2> QED BY <2>1 DEF Ids
<1>4. /\ SX!Reverse(outCtxs) \in Seq(1 .. Made) /\ SX!ToSet(SX!Reverse(outCtxs)) = SX!ToSet(outCtxs)
  BY <1>1, ReverseFacts
<1>5. /\ nextIn' \in [Ids -> Ids \cup {None}] /\ nextOut' \in [Ids -> Ids \cup {None}]
      /\ \A c \in SX!ToSet(inCtxs) : nextIn'[c] = After(inCtxs, c)
      /\ \A c \in SX!ToSet(outCtxs) : nextOut'[c] = After(SX!Reverse(outCtxs), c)
  <2>1. nextIn \in [Ids -> Ids \cup {None}] /\ nextOut \in [Ids -> Ids \cup {None}]
    BY DEF Typed
  <2>2. /\ Linked(nextIn, inCtxs) \in [Ids -> Ids \cup {None}]
        /\ \A c \in SX!ToSet(inCtxs) : Linked(nextIn, inCtxs)[c] = After(inCtxs, c)
    BY <1>1, <1>3, <2>1, LinkedFacts
  <2>3. /\ Linked(nextOut, SX!Reverse(outCtxs)) \in [Ids -> Ids \cup {None}]
        /\ \A c \in SX!ToSet(SX!Reverse(outCtxs)) :
             Linked(nextOut, SX!Reverse(outCtxs))[c] = After(SX!Reverse(outCtxs), c)
    BY <1>3, <1>4, <2>1, LinkedFacts
  <2> QED BY <1>2, <1>4, <2>2, <2>3
<1>6. \A h : /\ Waiting(h) \subseteq 1 .. Made /\ Cardinality(Waiting(h)) \in Nat
             /\ Cardinality({}) = 0 /\ \A c : Cardinality({c}) = 1
  BY <1>1, WaitingFacts
<1>7. \A h \in Handlers : count[h] \in Nat /\ ctx[h] \in Ids \cup {None}
  BY DEF Typed
<1>8. \A h \in Handlers :
        /\ count'[h] = count[h] + Cardinality(Waiting(h)) /\ count'[h] \in Nat
        /\ Waiting(h) = {} => ctx'[h] = ctx[h]
        /\ Waiting(h) # {} /\ count'[h] = 1 => ctx'[h] \in Waiting(h)
        /\ Waiting(h) # {} /\ count'[h] # 1 => ctx'[h] = None
  BY <1>2, <1>6, <1>7
<1>9. Typed'
  <2>1. stack' \in [Threads -> Seq(Frame)] /\ owned' = owned /\ calls' = calls /\ crashed' = crashed
    BY <1>2, QuietSteps DEF Typed
  <2>2. front' \in Ids \cup {None} /\ back' \in Ids \cup {None}
    <3>1. inCtxs # <<>> => inCtxs[1] \in 1 .. Made
      BY <1>1
    <3>2. outCtxs # <<>> => outCtxs[Len(outCtxs)] \in 1 .. Made
      BY <1>1
    <3> QED BY <1>2, <1>3, <3>1, <3>2
  <2>3. count' \in [Handlers -> Nat]
    BY <1>2, <1>6, <1>7
  <2>4. ctx' \in [Handlers -> Ids \cup {None}]
    <3>1. \A h \in Handlers : ctx'[h] \in Ids \cup {None}
      BY <1>3, <1>6, <1>7, <1>8
    <3>2. ctx' = [h \in Handlers |-> ctx'[h]]
      BY <1>2
    <3> QED BY <3>1, <3>2
  <2>5. attached' \subseteq SX!ToSet(ctxs)' /\ final' \in BOOLEAN
    BY <1>2
  <2> QED BY <1>2, <1>5, <2>1, <2>2, <2>3, <2>4, <2>5 DEF Typed
<1>10. Mirrors'
  BY <1>2 DEF Mirrors, Inbound, Outbound
<1>11. CountSound'
  <2> SUFFICES ASSUME NEW h \in Handlers PROVE count'[h] + Cardinality(Waiting(h)') <= Made'
    BY DEF CountSound
  <2>1. Waiting(h)' = {}
    BY <1>2 DEF Waiting
  <2>2. count[h] + Cardinality(Waiting(h)) <= Made
    BY DEF CountSound
  <2> QED BY <1>1, <1>2, <1>6, <1>8, <2>1, <2>2
<1>12. ContextSound'
  <2>1. ASSUME NEW h \in Handlers, \A d \in DOMAIN of : of[d] # h PROVE count'[h] = 0
    <3>1. Waiting(h) = {}
      BY <1>1, <2>1 DEF Waiting
    <3>2. count[h] = 0
      BY <2>1 DEF ContextSound
    <3>3. Cardinality(Waiting(h)) = 0
      <4>1. Cardinality({}) = 0
        BY <1>6
      <4> QED BY <3>1, <4>1
    <3>4. count'[h] = count[h] + Cardinality(Waiting(h))
      BY <1>8
    <3> QED BY <3>2, <3>3, <3>4
  <2>2. ASSUME NEW c \in L, Sole(c) PROVE ctx'[of[c]] = c
    <3>1. of[c] \in Handlers
      BY <1>1 DEF Typed
    <3>2. CASE c \in attached
      <4>1. Waiting(of[c]) = {}
        BY <1>1, <2>2, <3>2 DEF Waiting, Sole
      <4> QED BY <1>8, <2>2, <3>1, <3>2, <4>1 DEF ContextSound
    <3>3. CASE c \notin attached
      <4>1. Waiting(of[c]) = {c}
        BY <1>1, <2>2, <3>3 DEF Waiting, Sole
      <4>2. count[of[c]] = 0
        BY <2>2, <3>3 DEF ContextSound
      <4>3. count'[of[c]] = 1
        <5>1. Cardinality({c}) = 1
          BY <1>6
        <5>2. count'[of[c]] = count[of[c]] + Cardinality(Waiting(of[c]))
          BY <1>8, <3>1
        <5> QED BY <4>1, <4>2, <5>1, <5>2
      <4> QED BY <1>8, <3>1, <4>1, <4>3
    <3> QED BY <3>2, <3>3
  <2>3. \A c \in L : Sole(c)' => Sole(c)
    BY <1>2 DEF Sole
  <2>4. \A h \in Handlers : (\A d \in DOMAIN of' : of'[d] # h) => count'[h] = 0
    BY <1>2, <2>1
  <2>5. \A c \in SX!ToSet(ctxs') : Sole(c)' =>
          /\ c \in attached' => ctx'[of'[c]] = c
          /\ c \notin attached' => count'[of'[c]] = 0
    <3> SUFFICES ASSUME NEW c \in SX!ToSet(ctxs'), Sole(c)'
                 PROVE  c \in attached' /\ ctx'[of'[c]] = c
      OBVIOUS
    <3>1. c \in L /\ c \in attached' /\ of' = of
      BY <1>2
    <3> QED BY <2>2, <2>3, <3>1
  <2> QED BY <2>4, <2>5 DEF ContextSound
<1>13. LinksSound'
  BY <1>2, <1>5 DEF LinksSound
<1>14. StackSound' /\ GuardsHold'
  BY <1>2, QuietSteps DEF Typed
<1> QED BY <1>9, <1>10, <1>11, <1>12, <1>13, <1>14

-----------------------------------------------------------------------------
(* Packets.                                                                *)

\* What a step has to show that leaves the pipeline as it was built.
LEMMA BuiltInv ==
  ASSUME IInv, Built, stack' \in [Threads -> Seq(Frame)], owned' \in BOOLEAN, calls' \in 0 .. MaxCalls,
         crashed' \in {"no", "entering"}, \A t \in Threads : stack'[t] # <<>> => final,
         Along(stack'), Guarded(stack')
  PROVE  IInv'
<1> USE DEF IInv
<1>1. /\ of' = of /\ ctxs' = ctxs /\ inCtxs' = inCtxs /\ outCtxs' = outCtxs /\ Made' = Made
      /\ nextIn' = nextIn /\ nextOut' = nextOut /\ front' = front /\ back' = back
      /\ attached' = attached /\ count' = count /\ ctx' = ctx /\ final' = final
  BY DEF Built, lists, links, marks, Made
<1>2. Typed'
  BY <1>1 DEF Typed
<1>3. Mirrors'
  BY <1>1 DEF Mirrors, Inbound, Outbound
<1>4. CountSound'
  <2>1. \A h : Waiting(h)' = Waiting(h)
    BY <1>1 DEF Waiting
  <2> QED BY <1>1, <2>1 DEF CountSound
<1>5. ContextSound'
  <2>1. \A c : Sole(c)' <=> Sole(c)
    BY <1>1 DEF Sole
  <2> QED BY <1>1, <2>1 DEF ContextSound
<1>6. LinksSound'
  BY <1>1 DEF LinksSound
<1>7. StackSound'
  <2>1. \A a, b, ev : Follows(a, b, ev)' <=> Follows(a, b, ev)
    BY <1>1 DEF Follows
  <2>2. Along(stack)'
    BY <1>1, <2>1 DEF Along
  <2>3. Guarded(stack)'
    BY DEF Guarded
  <2> QED BY <1>1, <2>2, <2>3 DEF StackSound
<1>8. GuardsHold'
  BY DEF GuardsHold
<1> QED BY <1>2, <1>3, <1>4, <1>5, <1>6, <1>7, <1>8

\* The frames of a step that changes the stack of one thread.
LEMMA OneStack ==
  ASSUME stack \in [Threads -> Seq(Frame)], NEW t \in Threads, NEW s \in Seq(Frame),
         NEW st, st = [stack EXCEPT ![t] = s]
  PROVE  /\ st \in [Threads -> Seq(Frame)] /\ st[t] = s
         /\ \A u \in Threads : u # t => st[u] = stack[u]
OBVIOUS

\* What holds of the frames of one thread.
AlongOne(s) ==
  \A i \in 1 .. Len(s) :
    /\ s[i].ev = "read" => s[i].c \in SX!ToSet(inCtxs)
    /\ s[i].ev # "read" => s[i].c \in SX!ToSet(outCtxs)
    /\ i > 1 => Follows(s[i - 1].c, s[i].c, s[i].ev)

GuardedOne(s) ==
  \A i \in 1 .. Len(s) :
    /\ s[i].in => s[i].guard
    /\ i < Len(s) => s[i].in

LEMMA OneByOne ==
  ASSUME NEW st
  PROVE  /\ Along(st) <=> \A t \in Threads : AlongOne(st[t])
         /\ Guarded(st) <=> \A t \in Threads : GuardedOne(st[t])
BY DEF Along, AlongOne, Guarded, GuardedOne

\* The step changes one stack to another sound one.
LEMMA StackInv ==
  ASSUME IInv, Built, NEW t \in Threads, NEW s \in Seq(Frame), stack' = [stack EXCEPT ![t] = s],
         owned' \in BOOLEAN, calls' \in 0 .. MaxCalls, crashed' \in {"no", "entering"},
         s # <<>> => final, AlongOne(s), GuardedOne(s)
  PROVE  IInv'
<1>1. stack \in [Threads -> Seq(Frame)]
  BY DEF IInv, Typed
<1>2. /\ stack' \in [Threads -> Seq(Frame)] /\ stack'[t] = s
      /\ \A u \in Threads : u # t => stack'[u] = stack[u]
  BY <1>1, OneStack
<1>3. \A u \in Threads : AlongOne(stack[u]) /\ GuardedOne(stack[u]) /\ (stack[u] # <<>> => final)
  BY OneByOne DEF IInv, StackSound
<1>4. \A u \in Threads : AlongOne(stack'[u]) /\ GuardedOne(stack'[u]) /\ (stack'[u] # <<>> => final)
  <2> SUFFICES ASSUME NEW u \in Threads
               PROVE  AlongOne(stack'[u]) /\ GuardedOne(stack'[u]) /\ (stack'[u] # <<>> => final)
    OBVIOUS
  <2>1. CASE u = t
    BY <1>2, <2>1
  <2>2. CASE u # t
    BY <1>2, <1>3, <2>2
  <2> QED BY <2>1, <2>2
<1>5. Along(stack') /\ Guarded(stack')
  BY <1>4, OneByOne
<1> QED BY <1>2, <1>4, <1>5, BuiltInv

Called(c, ev) == [c |-> c, ev |-> ev, in |-> FALSE, guard |-> FALSE]

LEMMA CalledFields ==
  ASSUME NEW c \in Ids, NEW ev \in {"read", "write", "close"}
  PROVE  /\ Called(c, ev) \in Frame /\ Called(c, ev).c = c /\ Called(c, ev).ev = ev
         /\ Called(c, ev).in = FALSE
BY DEF Called, Frame

\* The innermost call calls on.
LEMMA PushInv ==
  ASSUME IInv, Built, NEW t \in Threads, NEW c \in Ids, NEW ev \in {"read", "write", "close"},
         stack' = Push(t, c, ev), owned' \in BOOLEAN, calls' \in 0 .. MaxCalls,
         crashed' \in {"no", "entering"}, final,
         ev = "read" => c \in SX!ToSet(inCtxs), ev # "read" => c \in SX!ToSet(outCtxs),
         stack[t] # <<>> => Top(t).in /\ Follows(Top(t).c, c, ev)
  PROVE  IInv'
<1> DEFINE f == Called(c, ev)
           s == Append(stack[t], f)
           n == Len(stack[t])
<1>1. f \in Frame /\ f.c = c /\ f.ev = ev /\ f.in = FALSE
  <2>1. /\ Called(c, ev) \in Frame /\ Called(c, ev).c = c /\ Called(c, ev).ev = ev
        /\ Called(c, ev).in = FALSE
    BY ONLY c \in Ids, ev \in {"read", "write", "close"}, CalledFields
  <2> QED BY <2>1
<1>2. stack[t] \in Seq(Frame) /\ AlongOne(stack[t]) /\ GuardedOne(stack[t])
  BY OneByOne DEF IInv, StackSound, Typed
<1>3. stack' = [stack EXCEPT ![t] = s]
  BY DEF Push, Called
<1> HIDE DEF f
<1>4. /\ s \in Seq(Frame) /\ n \in Nat /\ Len(s) = n + 1 /\ s[n + 1] = f
      /\ \A i \in 1 .. n : s[i] = stack[t][i]
  BY <1>1, <1>2, AppendFacts
<1>5. n > 0 => stack[t] # <<>> /\ Top(t) = stack[t][n]
  BY <1>2 DEF Top
<1> HIDE DEF s, n
<1>6. ASSUME NEW i \in 1 .. n + 1
      PROVE  /\ s[i].ev = "read" => s[i].c \in SX!ToSet(inCtxs)
             /\ s[i].ev # "read" => s[i].c \in SX!ToSet(outCtxs)
             /\ i > 1 => Follows(s[i - 1].c, s[i].c, s[i].ev)
             /\ s[i].in => s[i].guard
             /\ i < n + 1 => s[i].in
  <2>1. CASE i = n + 1
    <3>1. i > 1 => i - 1 = n /\ n > 0 /\ n \in 1 .. n
      BY <1>4, <2>1
    <3>2. i > 1 => s[i - 1] = Top(t)
      BY <1>4, <1>5, <3>1
    <3>3. s[i] = f /\ ~(i < n + 1)
      BY <1>4, <2>1
    <3>4. i > 1 => Follows(s[i - 1].c, s[i].c, s[i].ev)
      BY <1>1, <1>5, <3>1, <3>2, <3>3
    <3> QED BY <1>1, <3>3, <3>4
  <2>2. CASE i # n + 1
    <3>1. i \in 1 .. n /\ s[i] = stack[t][i]
      BY <1>4, <2>2
    <3>2. i > 1 => s[i - 1] = stack[t][i - 1]
      BY <1>4, <3>1
    <3>3. /\ s[i].ev = "read" => s[i].c \in SX!ToSet(inCtxs)
          /\ s[i].ev # "read" => s[i].c \in SX!ToSet(outCtxs)
          /\ i > 1 => Follows(s[i - 1].c, s[i].c, s[i].ev)
      BY <1>2, <3>1, <3>2 DEF AlongOne, n
    <3>4. (s[i].in => s[i].guard) /\ (i < n => s[i].in)
      BY <1>2, <3>1 DEF GuardedOne, n
    <3>5. i < n \/ i = n
      BY <1>4, <3>1
    <3>6. i = n => s[i] = Top(t) /\ Top(t).in
      BY <1>4, <1>5, <3>1
    <3> QED BY <3>3, <3>4, <3>5, <3>6
  <2> QED BY <2>1, <2>2
<1>7. AlongOne(s) /\ GuardedOne(s)
  BY <1>4, <1>6 DEF AlongOne, GuardedOne
<1> QED BY <1>3, <1>4, <1>7, StackInv

\* The contexts of the lists, and where the links lead.
LEMMA LinksLead ==
  ASSUME Sensible, IInv, final
  PROVE  /\ SX!ToSet(inCtxs) \subseteq Ids /\ SX!ToSet(outCtxs) \subseteq Ids
         /\ front # None => front \in SX!ToSet(inCtxs)
         /\ back # None => back \in SX!ToSet(outCtxs)
         /\ \A a \in SX!ToSet(inCtxs) : nextIn[a] # None =>
              nextIn[a] \in SX!ToSet(inCtxs) /\ Follows(a, nextIn[a], "read")
         /\ \A a \in SX!ToSet(outCtxs) : nextOut[a] # None =>
              nextOut[a] \in SX!ToSet(outCtxs) /\ \A ev : ev # "read" => Follows(a, nextOut[a], ev)
<1> DEFINE S == 1 .. Made
           n == Len(outCtxs)
           r == SX!Reverse(outCtxs)
<1>1. inCtxs \in Seq(S) /\ outCtxs \in Seq(S)
  BY CtxsFacts DEF IInv
<1>2. S \subseteq Ids
  <2>1. Made \in 0 .. MaxCtxs /\ MaxCtxs \in Nat
    BY DEF IInv, Typed, Sensible
  <2> QED BY <2>1 DEF Ids
<1> HIDE DEF S
<1>3. SX!ToSet(inCtxs) \subseteq S /\ SX!ToSet(outCtxs) \subseteq S
  BY <1>1, InSet
<1>4. /\ \A a \in SX!ToSet(inCtxs) : nextIn[a] = After(inCtxs, a)
      /\ \A a \in SX!ToSet(outCtxs) : nextOut[a] = After(r, a)
      /\ front = (IF inCtxs = <<>> THEN None ELSE inCtxs[1])
      /\ back = (IF outCtxs = <<>> THEN None ELSE outCtxs[n])
  BY DEF IInv, LinksSound
<1>5. \A x : x \in SX!ToSet(inCtxs) <=> \E i \in 1 .. Len(inCtxs) : inCtxs[i] = x
  BY <1>1, InSet
<1>6. \A x : x \in SX!ToSet(outCtxs) <=> \E i \in 1 .. n : outCtxs[i] = x
  BY <1>1, InSet
<1>7. front # None => front \in SX!ToSet(inCtxs)
  <2>1. inCtxs # <<>> => 1 \in 1 .. Len(inCtxs)
    BY <1>1
  <2> QED BY <1>4, <1>5, <2>1
<1>8. back # None => back \in SX!ToSet(outCtxs)
  <2>1. outCtxs # <<>> => n \in 1 .. n
    BY <1>1
  <2> QED BY <1>4, <1>6, <2>1
<1>9. ASSUME NEW a \in SX!ToSet(inCtxs), nextIn[a] # None
      PROVE  nextIn[a] \in SX!ToSet(inCtxs) /\ Follows(a, nextIn[a], "read")
  <2>1. PICK i \in 1 .. Len(inCtxs) - 1 : inCtxs[i] = a /\ inCtxs[i + 1] = nextIn[a]
    <3>1. After(inCtxs, a) = nextIn[a]
      BY <1>4
    <3>2. \/ After(inCtxs, a) = None
          \/ \E i \in 1 .. Len(inCtxs) - 1 : inCtxs[i] = a /\ inCtxs[i + 1] = After(inCtxs, a)
      BY <1>1, AfterIn
    <3> QED BY <1>9, <3>1, <3>2
  <2>2. i + 1 \in 1 .. Len(inCtxs)
    BY <1>1
  <2> QED BY <1>5, <2>1, <2>2 DEF Follows
<1>10. r \in Seq(S) /\ Len(r) = n /\ \A i \in 1 .. n : r[i] = outCtxs[(n - i) + 1]
  BY <1>1, ReverseFacts
<1>11. n \in Nat
  BY <1>1
<1> HIDE DEF n, r
<1>12. ASSUME NEW a \in SX!ToSet(outCtxs), nextOut[a] # None, NEW ev, ev # "read"
       PROVE  nextOut[a] \in SX!ToSet(outCtxs) /\ Follows(a, nextOut[a], ev)
  <2>1. PICK i \in 1 .. n - 1 : r[i] = a /\ r[i + 1] = nextOut[a]
    <3>1. After(r, a) = nextOut[a]
      BY <1>4
    <3>2. r \in Seq(S)
      BY <1>10
    <3>3. \/ After(r, a) = None
          \/ \E i \in 1 .. Len(r) - 1 : r[i] = a /\ r[i + 1] = After(r, a)
      BY <3>2, AfterIn
    <3> QED BY <1>10, <1>12, <3>1, <3>3
  <2>2. /\ i \in 1 .. n /\ i + 1 \in 1 .. n /\ n - i \in 1 .. n - 1 /\ n - i \in 1 .. n
        /\ (n - (i + 1)) + 1 = n - i
    BY <1>11
  <2>3. outCtxs[(n - i) + 1] = a /\ outCtxs[n - i] = nextOut[a]
    BY <1>10, <2>1, <2>2
  <2>4. Follows(a, nextOut[a], ev)
    BY <1>12, <2>2, <2>3 DEF Follows, n
  <2> QED BY <1>6, <2>2, <2>3, <2>4
<1>13. \A a \in SX!ToSet(outCtxs) : nextOut[a] # None =>
         nextOut[a] \in SX!ToSet(outCtxs) /\ \A ev : ev # "read" => Follows(a, nextOut[a], ev)
  <2>1. "write" # "read"
    OBVIOUS
  <2> QED BY <1>12, <2>1
<1> QED BY <1>2, <1>3, <1>7, <1>8, <1>9, <1>13

LEMMA StartInv ==
  ASSUME Sensible, IInv, NEW ev \in {"read", "write"}, Start(ev)
  PROVE  IInv'
<1> DEFINE c == IF ev = "read" THEN front ELSE back
<1>1. /\ final /\ stack["worker"] = <<>> /\ calls < MaxCalls /\ calls' = calls + 1
      /\ stack' = (IF c = None THEN stack ELSE Push("worker", c, ev))
      /\ Built /\ owned' = owned /\ crashed' = "no"
  BY DEF Start, Ok
<1>2. owned' \in BOOLEAN /\ calls' \in 0 .. MaxCalls /\ crashed' \in {"no", "entering"}
  <2>1. calls \in 0 .. MaxCalls /\ MaxCalls \in Nat
    BY DEF IInv, Typed, Sensible
  <2> QED BY <1>1, <2>1 DEF IInv, Typed
<1>3. CASE c = None
  <2>1. stack' = stack
    BY <1>1, <1>3
  <2>2. stack' \in [Threads -> Seq(Frame)] /\ Along(stack') /\ Guarded(stack')
    BY <2>1 DEF IInv, Typed, StackSound
  <2> QED BY <1>1, <1>2, <2>2, BuiltInv
<1>4. CASE c # None
  <2>1. /\ c \in Ids /\ "worker" \in Threads /\ ev \in {"read", "write", "close"}
        /\ ev = "read" => c \in SX!ToSet(inCtxs)
        /\ ev # "read" => c \in SX!ToSet(outCtxs)
    BY <1>1, <1>4, LinksLead DEF Threads
  <2>2. stack' = Push("worker", c, ev)
    BY <1>1, <1>4
  <2>3. PICK w \in Threads : w = "worker"
    BY <2>1
  <2>4. PICK d \in Ids : d = c
    BY <2>1
  <2> HIDE DEF c
  <2>5. stack' = Push(w, d, ev) /\ stack[w] = <<>>
    BY <1>1, <2>2, <2>3, <2>4
  <2> QED BY <1>1, <1>2, <2>1, <2>4, <2>5, PushInv
<1> QED BY <1>3, <1>4

LEMMA StartCloseInv ==
  ASSUME Sensible, IInv, StartClose
  PROVE  IInv'
<1>1. /\ final /\ stack["owner"] = <<>> /\ back # None /\ stack' = Push("owner", back, "close")
      /\ Built /\ owned' = owned /\ calls' = calls /\ crashed' = "no"
  BY DEF StartClose, Ok
<1>2. owned' \in BOOLEAN /\ calls' \in 0 .. MaxCalls /\ crashed' \in {"no", "entering"}
  BY <1>1 DEF IInv, Typed
<1>3. back \in Ids /\ back \in SX!ToSet(outCtxs)
  BY <1>1, LinksLead
<1>4. PICK d \in Ids : d = back
  BY <1>3
<1>5. PICK w \in Threads : w = "owner"
  BY DEF Threads
<1>6. PICK ev \in {"read", "write", "close"} : ev = "close"
  OBVIOUS
<1>7. /\ stack' = Push(w, d, ev) /\ stack[w] = <<>> /\ ev # "read" /\ d \in SX!ToSet(outCtxs)
  BY <1>1, <1>3, <1>4, <1>5, <1>6
<1> QED BY <1>1, <1>2, <1>7, PushInv

\* The innermost call of t.
LEMMA TopFacts ==
  ASSUME IInv, NEW t \in Threads, stack[t] # <<>>
  PROVE  /\ stack[t] \in Seq(Frame) /\ Len(stack[t]) \in Nat /\ Len(stack[t]) \in 1 .. Len(stack[t])
         /\ AlongOne(stack[t]) /\ GuardedOne(stack[t]) /\ final
         /\ Top(t) = stack[t][Len(stack[t])] /\ Top(t) \in Frame
         /\ Top(t).ev = "read" => Top(t).c \in SX!ToSet(inCtxs)
         /\ Top(t).ev # "read" => Top(t).c \in SX!ToSet(outCtxs)
<1>1. stack[t] \in Seq(Frame) /\ AlongOne(stack[t]) /\ GuardedOne(stack[t]) /\ final
  BY OneByOne DEF IInv, Typed, StackSound
<1>2. Len(stack[t]) \in Nat /\ Len(stack[t]) \in 1 .. Len(stack[t])
  BY <1>1
<1>3. Top(t) = stack[t][Len(stack[t])]
  BY DEF Top
<1>4. stack[t][Len(stack[t])] \in Frame
  BY <1>1, <1>2
<1> QED BY <1>1, <1>2, <1>3, <1>4 DEF AlongOne

LEMMA FireInv ==
  ASSUME Sensible, IInv, NEW t \in Threads, NEW ev \in {"read", "write", "close"}, Fire(t, ev)
  PROVE  IInv'
<1> DEFINE a == Top(t).c
           c == IF ev = "read" THEN nextIn[a] ELSE nextOut[a]
<1>1. /\ stack[t] # <<>> /\ Top(t).in /\ c # None /\ stack' = Push(t, c, ev)
      /\ Built /\ owned' = owned /\ calls' = calls /\ crashed' = "no"
      /\ ev = Top(t).ev \/ (Dir[of[a]] = "BOTH" /\ Top(t).ev = "read" /\ ev = "write")
  BY DEF Fire, Ok
<1>2. owned' \in BOOLEAN /\ calls' \in 0 .. MaxCalls /\ crashed' \in {"no", "entering"}
  BY <1>1 DEF IInv, Typed
<1>3. /\ final
      /\ Top(t).ev = "read" => a \in SX!ToSet(inCtxs)
      /\ Top(t).ev # "read" => a \in SX!ToSet(outCtxs)
  BY <1>1, TopFacts
<1>4. ev = "read" => a \in SX!ToSet(inCtxs)
  BY <1>1, <1>3
<1>5. ev # "read" => a \in SX!ToSet(outCtxs)
  <2>1. CASE ev = Top(t).ev
    BY <1>3, <2>1
  <2>2. CASE Dir[of[a]] = "BOTH" /\ Top(t).ev = "read"
    <3>1. /\ SX!ToSet(inCtxs) = SX!ToSet(ctxs) \cap Ins /\ SX!ToSet(outCtxs) = SX!ToSet(ctxs) \cap Outs
      BY CtxsFacts DEF IInv
    <3>2. a \in SX!ToSet(ctxs) /\ a \in DOMAIN of
      BY <1>3, <2>2, <3>1 DEF Ins
    <3> QED BY <2>2, <3>1, <3>2 DEF Outs, Outbound
  <2> QED BY <1>1, <2>1, <2>2
<1> HIDE DEF a
<1>6. /\ c \in Ids
      /\ ev = "read" => c \in SX!ToSet(inCtxs)
      /\ ev # "read" => c \in SX!ToSet(outCtxs)
      /\ Follows(a, c, ev)
  <2>1. /\ SX!ToSet(inCtxs) \subseteq Ids /\ SX!ToSet(outCtxs) \subseteq Ids
        /\ a \in SX!ToSet(inCtxs) /\ nextIn[a] # None =>
             nextIn[a] \in SX!ToSet(inCtxs) /\ Follows(a, nextIn[a], "read")
        /\ a \in SX!ToSet(outCtxs) /\ nextOut[a] # None /\ ev # "read" =>
             nextOut[a] \in SX!ToSet(outCtxs) /\ Follows(a, nextOut[a], ev)
    BY <1>3, LinksLead
  <2>2. CASE ev = "read"
    BY <1>1, <1>4, <2>1, <2>2
  <2>3. CASE ev # "read"
    BY <1>1, <1>5, <2>1, <2>3
  <2> QED BY <2>2, <2>3
<1>7. PICK d \in Ids : d = c
  BY <1>6
<1> HIDE DEF c
<1>8. /\ stack' = Push(t, d, ev) /\ Follows(Top(t).c, d, ev)
      /\ (ev = "read" => d \in SX!ToSet(inCtxs)) /\ (ev # "read" => d \in SX!ToSet(outCtxs))
  BY <1>1, <1>6, <1>7 DEF a
<1> QED BY <1>1, <1>2, <1>3, <1>8, PushInv

Inside(f) == [f EXCEPT !.guard = TRUE, !.in = TRUE]

LEMMA InsideFields ==
  ASSUME NEW f \in Frame
  PROVE  /\ Inside(f) \in Frame /\ Inside(f).c = f.c /\ Inside(f).ev = f.ev
         /\ Inside(f).in /\ Inside(f).guard
BY DEF Inside, Frame

LEMMA EnterInv ==
  ASSUME Sensible, IInv, NEW t \in Threads, Enter(t)
  PROVE  IInv'
<1> DEFINE n == Len(stack[t])
           f == stack[t][n]
           s == [stack[t] EXCEPT ![n] = Inside(f)]
<1>1. /\ stack[t] # <<>> /\ Built /\ owned' = owned /\ calls' = calls
      /\ crashed' = IF Held(stack) THEN "no" ELSE IF n = 1 THEN "entering" ELSE "inside"
      /\ stack' = [stack EXCEPT ![t][n] = Inside(stack[t][n])]
  BY DEF Enter, Inside
<1>2. /\ stack[t] \in Seq(Frame) /\ n \in Nat /\ n \in 1 .. n /\ AlongOne(stack[t])
      /\ GuardedOne(stack[t]) /\ final /\ f \in Frame
  BY <1>1, TopFacts
<1>3. /\ Inside(f) \in Frame /\ Inside(f).c = f.c /\ Inside(f).ev = f.ev
      /\ Inside(f).in /\ Inside(f).guard
  BY <1>2, InsideFields
<1>4. stack' = [stack EXCEPT ![t] = s]
  BY <1>1
<1>5. /\ s \in Seq(Frame) /\ Len(s) = n /\ s[n] = Inside(f)
      /\ \A i \in 1 .. n : i # n => s[i] = stack[t][i]
  <2> HIDE DEF f
  <2> QED BY <1>2, <1>3
<1> HIDE DEF s
<1>6. \A i \in 1 .. n : s[i].c = stack[t][i].c /\ s[i].ev = stack[t][i].ev
  BY <1>3, <1>5
<1>7. AlongOne(s)
  <2>1. \A i \in 1 .. n : i > 1 => i - 1 \in 1 .. n
    BY <1>2
  <2> QED BY <1>2, <1>5, <1>6, <2>1 DEF AlongOne
<1>8. GuardedOne(s)
  BY <1>2, <1>3, <1>5 DEF GuardedOne
<1>9. crashed' \in {"no", "entering"}
  <2>1. CASE n = 1
    BY <1>1, <2>1
  <2>2. CASE n # 1
    <3>1. 1 \in 1 .. n /\ 1 < n /\ 1 \in DOMAIN stack[t]
      <4>1. DOMAIN stack[t] = 1 .. n
        BY <1>2
      <4>2. n \in Nat /\ n >= 1
        BY <1>2
      <4> HIDE DEF n
      <4>3. 1 \in 1 .. n /\ 1 < n
        BY <2>2, <4>2
      <4> QED BY <4>1, <4>3
    <3>2. stack[t][1].guard
      BY <1>2, <3>1 DEF GuardedOne
    <3>3. Held(stack)
      BY <3>1, <3>2 DEF Held
    <3> QED BY <1>1, <3>3
  <2> QED BY <2>1, <2>2
<1>10. owned' \in BOOLEAN /\ calls' \in 0 .. MaxCalls
  BY <1>1 DEF IInv, Typed
<1> HIDE DEF n, f
<1> QED BY <1>1, <1>2, <1>4, <1>5, <1>7, <1>8, <1>9, <1>10, StackInv

LEMMA ReturnInv ==
  ASSUME Sensible, IInv, NEW t \in Threads, Return(t)
  PROVE  IInv'
<1> DEFINE n == Len(stack[t])
           s == SubSeq(stack[t], 1, n - 1)
<1>1. /\ stack[t] # <<>> /\ Built /\ owned' = owned /\ calls' = calls /\ crashed' = "no"
      /\ stack' = [stack EXCEPT ![t] = s]
  BY DEF Return, Ok
<1>2. /\ stack[t] \in Seq(Frame) /\ n \in Nat /\ n \in 1 .. n /\ AlongOne(stack[t])
      /\ GuardedOne(stack[t]) /\ final
  BY <1>1, TopFacts
<1>3. s \in Seq(Frame) /\ Len(s) = n - 1 /\ \A i \in 1 .. n - 1 : s[i] = stack[t][i]
  BY <1>2
<1> HIDE DEF s
<1>4. \A i \in 1 .. n - 1 : i \in 1 .. n /\ i < n /\ (i > 1 => i - 1 \in 1 .. n - 1)
  <2>1. n \in Nat
    BY <1>2
  <2> HIDE DEF n
  <2> QED BY <2>1
<1>5. AlongOne(s)
  <2>1. ASSUME NEW i \in 1 .. n - 1
        PROVE  /\ s[i].ev = "read" => s[i].c \in SX!ToSet(inCtxs)
               /\ s[i].ev # "read" => s[i].c \in SX!ToSet(outCtxs)
               /\ i > 1 => Follows(s[i - 1].c, s[i].c, s[i].ev)
    <3>1. i \in 1 .. n /\ s[i] = stack[t][i] /\ (i > 1 => s[i - 1] = stack[t][i - 1])
      BY <1>3, <1>4
    <3> QED BY <1>2, <3>1 DEF AlongOne
  <2> QED BY <1>3, <2>1 DEF AlongOne
<1>6. GuardedOne(s)
  <2>1. ASSUME NEW i \in 1 .. n - 1 PROVE s[i].in /\ (s[i].in => s[i].guard)
    <3>1. i \in 1 .. n /\ i < n /\ s[i] = stack[t][i]
      BY <1>3, <1>4
    <3> QED BY <1>2, <3>1 DEF GuardedOne
  <2> QED BY <1>3, <2>1 DEF GuardedOne
<1>7. owned' \in BOOLEAN /\ calls' \in 0 .. MaxCalls /\ crashed' \in {"no", "entering"}
  BY <1>1 DEF IInv, Typed
<1> HIDE DEF n
<1> QED BY <1>1, <1>2, <1>3, <1>5, <1>6, <1>7, StackInv

LEMMA ResetInv ==
  ASSUME Sensible, IInv, Reset
  PROVE  IInv'
<1>1. /\ owned' = FALSE /\ Built /\ stack' = stack /\ calls' = calls /\ crashed' = "no"
  BY DEF Reset, Ok
<1>2. /\ stack' \in [Threads -> Seq(Frame)] /\ Along(stack') /\ Guarded(stack') /\ calls' \in 0 .. MaxCalls
      /\ owned' \in BOOLEAN /\ crashed' \in {"no", "entering"} /\ \A t \in Threads : stack'[t] # <<>> => final
  BY <1>1 DEF IInv, Typed, StackSound
<1> QED BY <1>1, <1>2, BuiltInv

-----------------------------------------------------------------------------
(* Every step, and what follows.                                           *)

LEMMA StepInv ==
  ASSUME Sensible, IInv, [Next]_vars
  PROVE  IInv'
<1>1. CASE \E h \in Handlers : Remove(h)
  <2>1. PICK h \in Handlers : Remove(h)
    BY <1>1
  <2>2. Quiet /\ \E gone : RemoveAt(gone)
    BY <2>1 DEF Remove
  <2> QED BY <2>2, RemoveInv
<1>2. CASE \E h \in Handlers : \E atFront \in BOOLEAN : Add(h, atFront)
  BY <1>2, AddInv
<1>3. CASE RemoveFront
  <2>1. Quiet /\ \E gone : RemoveAt(gone)
    BY <1>3 DEF RemoveFront
  <2> QED BY <2>1, RemoveInv
<1>4. CASE RemoveBack
  <2>1. Quiet /\ \E gone : RemoveAt(gone)
    BY <1>4 DEF RemoveBack
  <2> QED BY <2>1, RemoveInv
<1>5. CASE Finalize
  BY <1>5, FinalizeInv
<1>6. CASE StartClose
  BY <1>6, StartCloseInv
<1>7. CASE Reset
  BY <1>7, ResetInv
<1>8. CASE \E ev \in {"read", "write"} : Start(ev)
  BY <1>8, StartInv
<1>9. CASE \E t \in Threads : Enter(t)
  BY <1>9, EnterInv
<1>10. CASE \E t \in Threads : Return(t)
  BY <1>10, ReturnInv
<1>11. CASE \E t \in Threads : \E ev \in {"read", "write", "close"} : Fire(t, ev)
  BY <1>11, FireInv
<1>12. CASE UNCHANGED vars
  <2>1. Built /\ stack' = stack /\ owned' = owned /\ calls' = calls /\ crashed' = crashed
    BY <1>12 DEF vars, Built, lists, links, marks
  <2>2. /\ stack' \in [Threads -> Seq(Frame)] /\ Along(stack') /\ Guarded(stack') /\ calls' \in 0 .. MaxCalls
        /\ owned' \in BOOLEAN /\ crashed' \in {"no", "entering"} /\ \A t \in Threads : stack'[t] # <<>> => final
    BY <2>1 DEF IInv, Typed, StackSound, GuardsHold
  <2> QED BY <2>1, <2>2, BuiltInv
<1> QED
  BY <1>1, <1>2, <1>3, <1>4, <1>5, <1>6, <1>7, <1>8, <1>9, <1>10, <1>11, <1>12 DEF Next

LEMMA PlaceOf ==
  ASSUME Typed, NEW p \in 1 .. Len(ctxs)
  PROVE  Place(ctxs[p]) = p
<1>1. ctxs \in Seq(1 .. Made) /\ Unique(ctxs)
  BY DEF Typed
<1>2. DOMAIN ctxs = 1 .. Len(ctxs)
  BY <1>1
<1> DEFINE q == CHOOSE i \in 1 .. Len(ctxs) : ctxs[i] = ctxs[p]
<1>3. q \in 1 .. Len(ctxs) /\ ctxs[q] = ctxs[p]
  OBVIOUS
<1>4. Place(ctxs[p]) = q
  BY <1>2 DEF Place
<1> HIDE DEF q
<1> QED BY <1>1, <1>3, <1>4 DEF Unique

\* Next to each other in a list of a direction is next to each other in the
\* pipeline, but for handlers of the other direction.
LEMMA FollowsNeighbours ==
  ASSUME IInv, NEW a, NEW b, NEW ev, Follows(a, b, ev)
  PROVE  Neighbours(a, b, ev)
<1>1. /\ ctxs \in Seq(1 .. Made) /\ Len(ctxs) \in Nat /\ DOMAIN of = 1 .. Made
      /\ \A k \in 1 .. Len(ctxs) : ctxs[k] \in DOMAIN of
  BY DEF IInv, Typed
<1>2. inCtxs = Only(ctxs, Ins) /\ outCtxs = Only(ctxs, Outs)
  BY CtxsFacts DEF IInv
<1>3. Gaps(ctxs, Ins, inCtxs) /\ Gaps(ctxs, Outs, outCtxs)
  BY <1>1, <1>2, OnlyGaps
<1>4. ASSUME NEW T, NEW x, NEW y, Gap(ctxs, T, x, y)
      PROVE  /\ Place(x) < Place(y) /\ x \in T /\ y \in T
             /\ \A k \in (Place(x) + 1) .. (Place(y) - 1) : ctxs[k] \notin T /\ ctxs[k] \in DOMAIN of
  <2>1. PICK p, q \in 1 .. Len(ctxs) :
          p < q /\ ctxs[p] = x /\ ctxs[q] = y /\ \A k \in p + 1 .. q - 1 : ctxs[k] \notin T
    BY <1>4 DEF Gap
  <2>2. Place(x) = p /\ Place(y) = q
    BY <2>1, PlaceOf DEF IInv
  <2>3. \A k \in p + 1 .. q - 1 : k \in 1 .. Len(ctxs)
    BY <1>1
  <2> QED BY <1>1, <1>4, <2>1, <2>2, <2>3 DEF Gap
<1>5. CASE ev = "read"
  <2>1. Gap(ctxs, Ins, a, b)
    BY <1>3, <1>5 DEF Follows, Gaps
  <2>2. /\ Place(a) < Place(b) /\ b \in Ins
        /\ \A k \in (Place(a) + 1) .. (Place(b) - 1) : ctxs[k] \notin Ins /\ ctxs[k] \in DOMAIN of
    BY <1>4, <2>1
  <2> QED BY <1>5, <2>2 DEF Neighbours, Ins
<1>6. CASE ev # "read"
  <2>1. Gap(ctxs, Outs, b, a)
    BY <1>3, <1>6 DEF Follows, Gaps
  <2>2. /\ Place(b) < Place(a) /\ b \in Outs
        /\ \A k \in (Place(b) + 1) .. (Place(a) - 1) : ctxs[k] \notin Outs /\ ctxs[k] \in DOMAIN of
    BY <1>4, <2>1
  <2> QED BY <1>6, <2>2 DEF Neighbours, Outs
<1> QED BY <1>5, <1>6

LEMMA InOrder ==
  ASSUME IInv
  PROVE  PacketsInOrder
<1>1. VisitsInOrder
  <2> SUFFICES ASSUME NEW t \in Threads, NEW i \in DOMAIN stack[t]
               PROVE  /\ stack[t][i].c \in SX!ToSet(ctxs)
                      /\ i > 1 => Neighbours(stack[t][i - 1].c, stack[t][i].c, stack[t][i].ev)
    BY DEF VisitsInOrder
  <2>1. stack[t] \in Seq(Frame) /\ i \in 1 .. Len(stack[t])
    BY DEF IInv, Typed
  <2>2. AlongOne(stack[t])
    BY OneByOne DEF IInv, StackSound
  <2>3. stack[t][i].c \in SX!ToSet(inCtxs) \cup SX!ToSet(outCtxs)
    BY <2>1, <2>2 DEF AlongOne
  <2>4. SX!ToSet(inCtxs) \subseteq SX!ToSet(ctxs) /\ SX!ToSet(outCtxs) \subseteq SX!ToSet(ctxs)
    BY CtxsFacts DEF IInv
  <2>5. i > 1 => Neighbours(stack[t][i - 1].c, stack[t][i].c, stack[t][i].ev)
    BY <2>1, <2>2, FollowsNeighbours DEF AlongOne
  <2> QED BY <2>3, <2>4, <2>5
<1>2. KnowsContext
  BY DEF IInv, ContextSound, LinksSound, Sole, KnowsContext
<1> QED BY <1>1, <1>2 DEF PacketsInOrder, IInv

LEMMA TypeFollows ==
  ASSUME Sensible, IInv
  PROVE  TypeOK
<1>1. Typed /\ CountSound
  BY DEF IInv
<1>2. MaxCtxs \in Nat /\ Made \in 0 .. MaxCtxs /\ DOMAIN of = 1 .. Made
  BY <1>1 DEF Typed, Sensible
<1>3. 1 .. Made \subseteq Ids
  BY <1>2 DEF Ids
<1>4. SX!ToSet(ctxs) \subseteq DOMAIN of
  BY CtxsFacts DEF IInv
<1>5. count \in [Handlers -> 0 .. MaxCtxs]
  <2>1. ASSUME NEW h \in Handlers PROVE count[h] \in 0 .. MaxCtxs
    <3>1. count[h] \in Nat /\ count[h] + Cardinality(Waiting(h)) <= Made
      BY <1>1 DEF Typed, CountSound
    <3>2. Cardinality(Waiting(h)) \in Nat
      BY WaitingFacts DEF IInv
    <3> QED BY <1>2, <3>1, <3>2
  <2>2. count \in [Handlers -> Nat]
    BY <1>1 DEF Typed
  <2> QED BY <2>1, <2>2
<1>6. ASSUME NEW t \in Threads, NEW i \in DOMAIN stack[t]
      PROVE  stack[t][i] \in [c : Ids, ev : {"read", "write", "close"}, in : BOOLEAN, guard : BOOLEAN]
  <2>1. stack[t] \in Seq(Frame)
    BY <1>1 DEF Typed
  <2>2. i \in 1 .. Len(stack[t])
    BY <2>1
  <2>3. stack[t][i] \in Frame
    BY <2>1, <2>2
  <2> QED BY <2>3 DEF Frame
<1> QED BY <1>1, <1>2, <1>3, <1>4, <1>5, <1>6 DEF Typed, TypeOK

-----------------------------------------------------------------------------

\* The lists, the links between their contexts, what handlers know of their
\* contexts and the calls that are under way agree, whatever is added, removed
\* and linked between packets (Pipeline.cpp:18, 96).
THEOREM PipelineInductive == Sensible => (Spec => []IInv)
<1> SUFFICES ASSUME Sensible PROVE Spec => []IInv
  OBVIOUS
<1>1. Init => IInv
  BY InitInv
<1>2. IInv /\ [Next]_vars => IInv'
  BY StepInv
<1> QED BY <1>1, <1>2, PTL DEF Spec

\* A packet passes the handlers of its direction in the order of the pipeline,
\* a handler finds its pipeline, and a packet inside the pipeline keeps it when
\* close() resets the owner's pointer (HandlerContext-inl.h:220).
THEOREM PipelineAlways == Sensible => (Spec => [](TypeOK /\ PacketsInOrder /\ GuardsHold))
<1> SUFFICES ASSUME Sensible PROVE Spec => [](TypeOK /\ PacketsInOrder /\ GuardsHold)
  OBVIOUS
<1>1. IInv => TypeOK /\ PacketsInOrder /\ GuardsHold
  BY InOrder, TypeFollows DEF IInv
<1> QED BY <1>1, PipelineInductive, PTL

==============================================================================
