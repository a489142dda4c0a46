--------------------------- MODULE EndpointsProof ---------------------------
(***************************************************************************)
(* Proofs about the ends of a session, for any callers, candidates and     *)
(* frames: NicerIce, LibNiceIce, ExternalInput and, at the end, the three  *)
(* side by side; and about the padding of a subscriber.                    *)
(***************************************************************************)
EXTENDS Endpoints, ListsProof, FiniteSetTheorems, TLAPS

TaskRec == [by : Callers, k : Kinds, n : 1..MaxCalls, peer : {"null", "good"}]

Typed ==
  /\ made \in 0..3 /\ handler \in {"unset", "made", "freed"}
  /\ gone \in BOOLEAN /\ ready \in BOOLEAN /\ closed \in BOOLEAN /\ dropped \in BOOLEAN
  /\ late \in BOOLEAN /\ overtook \in BOOLEAN
  /\ call \in [Callers -> Calls \cup {Idle}] /\ calls \in 0..MaxCalls
  /\ given \in SUBSET ((1..MaxCalls) \X BOOLEAN) /\ told \in SUBSET (1..MaxCalls)
  /\ heard \in 0..MaxHeard
  /\ tasks \in Seq(TaskRec) /\ batch \in Seq(TaskRec)
  /\ job \in TaskRec \cup {Idle}
  /\ io \in {"new", "run", "ending", "last", "ended"}
  /\ crashed \in {"no", "unset", "twice", "freed", "null", "race"}

In(x, s) == \E i \in DOMAIN s : s[i] = x

\* x is posted and did not run to its end.
Work(x) == (job # Idle /\ x = job) \/ In(x, batch) \/ In(x, tasks)

\* A call and its task bear one number, and no two calls do.
IdsSound ==
  /\ \A c \in Callers : call[c] # Idle => call[c].n <= calls
  /\ \A c \in Callers : call[c] # Idle /\ call[c].k = "start" => c = Owner /\ call[c].n = 1
  /\ \A c \in Callers : call[c] # Idle /\ call[c].k = "close" => c = Owner /\ closed
  /\ \A c, d \in Callers : call[c] # Idle /\ call[d] # Idle /\ call[c].n = call[d].n => c = d
  /\ \A x \in TaskRec : Work(x) =>
       /\ x.n <= calls /\ (x.k = "start" => x.n = 1)
       /\ \A c \in Callers : call[c] # Idle /\ call[c].n = x.n =>
            call[c].k = x.k /\ call[c].at # "begin"

Has(k, s)   == \E i \in DOMAIN s : s[i].k = k
Once(k, s)  == \A i, j \in DOMAIN s : s[i].k = k /\ s[j].k = k => i = j
AtEnd(k, s) == \A i \in DOMAIN s : s[i].k = k => i = Len(s)

\* startSync runs once.
OneStart ==
  /\ Once("start", batch) /\ Once("start", tasks)
  /\ ~(Has("start", batch) /\ Has("start", tasks))
  /\ job.k = "start" => ~Has("start", batch) /\ ~Has("start", tasks)

StartBegins == call[Owner] # Idle /\ call[Owner].k = "start" /\ call[Owner].at = "begin"
StartAhead == StartBegins \/ \E x \in TaskRec : Work(x) /\ x.k = "start"

\* While startSync is ahead and its caller has not given up, nobody else calls.
Alone ==
  /\ \A c \in Callers : c # Owner => call[c] = Idle
  /\ call[Owner] # Idle /\ call[Owner].k = "start" /\ call[Owner].at \in {"begin", "wait"}
  /\ \A x \in TaskRec : Work(x) => x.k = "start"

\* Before startSync there is nothing.
StartSound ==
  /\ calls = 0 => made = 0 /\ handler = "unset" /\ ~closed
  /\ StartAhead => made = 0 /\ handler = "unset" /\ (~late => Alone)
  /\ ready => made = 3
  /\ made >= 2 => handler # "unset"

\* Unless a call went on behind it, the task of close is the last.
CloseLast ==
  ~overtook =>
    /\ job.k = "close" => batch = <<>> /\ tasks = <<>>
    /\ Has("close", batch) => tasks = <<>>
    /\ AtEnd("close", batch) /\ AtEnd("close", tasks)

Closing ==
  call[Owner] # Idle /\ call[Owner].k = "close" /\ call[Owner].at \in {"begin", "wait"}

\* closeSync frees once what there is, after the last task, and close waits for it.
CloseSound ==
  /\ gone <=> handler = "freed"
  /\ gone \/ (\E x \in TaskRec : Work(x) /\ x.k = "close") => CloseIsPosted
  /\ gone /\ ~late /\ ~overtook => \A x \in TaskRec : ~Work(x)
  /\ closed => gone \/ Closing
  /\ dropped => gone

\* Candidates and data have a peer to go to, once startSync has made it.
PeersSound ==
  made = 3 /\ ~late =>
    /\ \A c \in Callers : call[c] # Idle /\ call[c].at = "begin" /\ call[c].k \in {"cands", "send"} =>
         call[c].peer = "good"
    /\ \A x \in TaskRec : Work(x) /\ x.k \in {"cands", "send"} => x.peer = "good"

\* A promise is kept when nICEr was asked to take the candidates.
GivenSound ==
  \A c \in Callers : call[c] # Idle /\ call[c].k = "cands" /\ call[c].at = "done" =>
    \E taken \in BOOLEAN : <<call[c].n, taken>> \in given

Parts ==
  IdsSound /\ OneStart /\ StartSound /\ CloseLast /\ CloseSound /\ PeersSound /\ GivenSound

\* Nothing is claimed of a process that has crashed but how it came to that.
IInv == Typed /\ Sound /\ (crashed = "no" => Parts)

-----------------------------------------------------------------------------
(* Calls, tasks and queues.                                                *)

LEMMA CallFields ==
  ASSUME NEW e \in Calls
  PROVE  /\ e # Idle /\ e.k \in Kinds /\ e.n \in 1..MaxCalls /\ e.peer \in {"null", "good"}
         /\ e.at \in {"begin", "wait", "done"}
BY DEF Calls, Idle, Kinds

LEMMA TaskFields ==
  ASSUME NEW x \in TaskRec
  PROVE  x # Idle /\ x.k \in Kinds /\ x.n \in 1..MaxCalls /\ x.peer \in {"null", "good"}
BY DEF TaskRec, Idle, Kinds

LEMMA IdleFields == Idle.k = "none"
BY DEF Idle

Moved(e, a) == [e EXCEPT !.at = a]

LEMMA MovedFields ==
  ASSUME NEW e \in Calls, NEW a \in {"begin", "wait", "done"}
  PROVE  /\ Moved(e, a) \in Calls /\ Moved(e, a).k = e.k /\ Moved(e, a).n = e.n
         /\ Moved(e, a).peer = e.peer /\ Moved(e, a).at = a
BY DEF Moved, Calls

LEMMA TaskIsRec ==
  ASSUME Typed, NEW c \in Callers, call[c] # Idle
  PROVE  /\ Task(c) \in TaskRec /\ call[c] \in Calls /\ Task(c).k = call[c].k
         /\ Task(c).n = call[c].n /\ Task(c).peer = call[c].peer
<1>1. call[c] \in Calls
  BY DEF Typed
<1> QED BY <1>1, CallFields DEF Task, TaskRec

LEMMA EmptyQueue ==
  /\ <<>> \in Seq(TaskRec) /\ \A x : ~In(x, <<>>)
  /\ \A k : ~Has(k, <<>>) /\ Once(k, <<>>) /\ AtEnd(k, <<>>)
BY DEF In, Has, Once, AtEnd

LEMMA HasIn ==
  ASSUME NEW s \in Seq(TaskRec), NEW k
  PROVE  Has(k, s) <=> \E x \in TaskRec : In(x, s) /\ x.k = k
BY DEF Has, In

LEMMA AppendQueue ==
  ASSUME NEW s \in Seq(TaskRec), NEW e \in TaskRec, NEW k
  PROVE  /\ Append(s, e) \in Seq(TaskRec)
         /\ \A x : In(x, Append(s, e)) <=> In(x, s) \/ x = e
         /\ Has(k, Append(s, e)) <=> Has(k, s) \/ e.k = k
         /\ Once(k, s) /\ ~(Has(k, s) /\ e.k = k) => Once(k, Append(s, e))
         /\ ~Has(k, s) => AtEnd(k, Append(s, e))
<1>1. /\ Append(s, e) \in Seq(TaskRec) /\ DOMAIN s = 1 .. Len(s) /\ Len(s) \in Nat
      /\ DOMAIN Append(s, e) = 1 .. Len(s) + 1 /\ Len(Append(s, e)) = Len(s) + 1
      /\ \A i \in 1 .. Len(s) : Append(s, e)[i] = s[i]
      /\ Append(s, e)[Len(s) + 1] = e
  OBVIOUS
<1>2. 1 .. Len(s) + 1 = 1 .. Len(s) \cup {Len(s) + 1}
  BY <1>1
<1>3. \A x : In(x, Append(s, e)) <=> In(x, s) \/ x = e
  BY <1>1, <1>2, Zenon DEF In
<1>4. Has(k, Append(s, e)) <=> Has(k, s) \/ e.k = k
  BY <1>1, <1>2, Zenon DEF Has
<1>5. Once(k, s) /\ ~(Has(k, s) /\ e.k = k) => Once(k, Append(s, e))
  <2> SUFFICES ASSUME Once(k, s), ~(Has(k, s) /\ e.k = k),
                      NEW i \in 1 .. Len(s) + 1, NEW j \in 1 .. Len(s) + 1,
                      Append(s, e)[i].k = k, Append(s, e)[j].k = k
               PROVE  i = j
    BY <1>1 DEF Once
  <2>1. (i = Len(s) + 1 \/ j = Len(s) + 1) => e.k = k
    BY <1>1
  <2>2. (i # Len(s) + 1 \/ j # Len(s) + 1) => Has(k, s)
    BY <1>1, <1>2 DEF Has
  <2>3. CASE i # Len(s) + 1 /\ j # Len(s) + 1
    BY <1>1, <1>2, <2>3 DEF Once
  <2> QED BY <2>1, <2>2, <2>3
<1>6. ~Has(k, s) => AtEnd(k, Append(s, e))
  BY <1>1, <1>2, Zenon DEF AtEnd, Has
<1> QED BY <1>1, <1>3, <1>4, <1>5, <1>6

LEMMA TailQueue ==
  ASSUME NEW s \in Seq(TaskRec), s # <<>>, NEW k
  PROVE  /\ Head(s) \in TaskRec /\ Tail(s) \in Seq(TaskRec)
         /\ \A x : In(x, s) <=> x = Head(s) \/ In(x, Tail(s))
         /\ Has(k, s) <=> Head(s).k = k \/ Has(k, Tail(s))
         /\ Once(k, s) => Once(k, Tail(s)) /\ ~(Head(s).k = k /\ Has(k, Tail(s)))
         /\ AtEnd(k, s) => AtEnd(k, Tail(s)) /\ (Head(s).k = k => Tail(s) = <<>>)
<1>1. /\ Tail(s) \in Seq(TaskRec) /\ DOMAIN s = 1 .. Len(s) /\ Len(s) \in Nat /\ Len(s) # 0
      /\ DOMAIN Tail(s) = 1 .. Len(s) - 1 /\ Len(Tail(s)) = Len(s) - 1
      /\ \A i \in 1 .. Len(s) - 1 : Tail(s)[i] = s[i + 1]
      /\ Head(s) = s[1] /\ Head(s) \in TaskRec
  OBVIOUS
<1>2. \A i \in 1 .. Len(s) : i = 1 \/ (i - 1 \in 1 .. Len(s) - 1 /\ s[i] = Tail(s)[i - 1])
  <2> SUFFICES ASSUME NEW i \in 1 .. Len(s), i # 1
               PROVE  i - 1 \in 1 .. Len(s) - 1 /\ s[i] = Tail(s)[i - 1]
    OBVIOUS
  <2>1. i - 1 \in 1 .. Len(s) - 1 /\ (i - 1) + 1 = i
    BY <1>1
  <2> QED BY <1>1, <2>1
<1>3. 1 \in 1 .. Len(s) /\ \A i \in 1 .. Len(s) - 1 : i + 1 \in 1 .. Len(s) /\ i + 1 # 1
  BY <1>1
<1>4. \A x : In(x, s) <=> x = Head(s) \/ In(x, Tail(s))
  <2>1. ASSUME NEW x, In(x, s) PROVE x = Head(s) \/ In(x, Tail(s))
    BY <1>1, <1>2, <2>1 DEF In
  <2>2. ASSUME NEW x, x = Head(s) \/ In(x, Tail(s)) PROVE In(x, s)
    BY <1>1, <1>3, <2>2 DEF In
  <2> QED BY <2>1, <2>2
<1>5. Has(k, s) <=> Head(s).k = k \/ Has(k, Tail(s))
  <2>1. Has(k, s) => Head(s).k = k \/ Has(k, Tail(s))
    <3> SUFFICES ASSUME NEW i \in 1 .. Len(s), s[i].k = k, Head(s).k # k PROVE Has(k, Tail(s))
      BY <1>1, Zenon DEF Has
    <3>1. i - 1 \in 1 .. Len(s) - 1 /\ Tail(s)[i - 1].k = k
      BY <1>1, <1>2
    <3> QED BY <1>1, <3>1, Zenon DEF Has
  <2>2. Head(s).k = k \/ Has(k, Tail(s)) => Has(k, s)
    BY <1>1, <1>3 DEF Has
  <2> QED BY <2>1, <2>2
<1>6. ASSUME Once(k, s) PROVE Once(k, Tail(s)) /\ ~(Head(s).k = k /\ Has(k, Tail(s)))
  <2>1. ASSUME NEW i \in 1 .. Len(s) - 1, NEW j \in 1 .. Len(s) - 1,
               Tail(s)[i].k = k, Tail(s)[j].k = k
        PROVE  i = j
    <3>1. i + 1 = j + 1
      BY <1>1, <1>3, <1>6, <2>1 DEF Once
    <3> QED BY <3>1
  <2>2. ASSUME NEW i \in 1 .. Len(s) - 1, Tail(s)[i].k = k, Head(s).k = k
        PROVE  FALSE
    <3>1. i + 1 = 1
      BY <1>1, <1>3, <1>6, <2>2 DEF Once
    <3> QED BY <1>3, <3>1
  <2> QED BY <1>1, <2>1, <2>2 DEF Once, Has
<1>7. ASSUME AtEnd(k, s) PROVE AtEnd(k, Tail(s)) /\ (Head(s).k = k => Tail(s) = <<>>)
  <2>1. ASSUME NEW i \in 1 .. Len(s) - 1, Tail(s)[i].k = k
        PROVE  i = Len(s) - 1
    <3>1. i + 1 = Len(s)
      BY <1>1, <1>3, <1>7, <2>1 DEF AtEnd
    <3>2. i \in Int /\ Len(s) \in Int
      BY <1>1, <2>1
    <3> QED BY <3>1, <3>2
  <2>2. ASSUME Head(s).k = k PROVE Tail(s) = <<>>
    <3>1. Len(s) = 1
      BY <1>1, <1>3, <1>7, <2>2 DEF AtEnd
    <3>2. Len(Tail(s)) = 0
      BY <1>1, <3>1
    <3>3. \A u \in Seq(TaskRec) : Len(u) = 0 => u = <<>>
      OBVIOUS
    <3> QED BY <1>1, <3>2, <3>3
  <2> QED BY <1>1, <2>1, <2>2 DEF AtEnd
<1> QED BY <1>1, <1>4, <1>5, <1>6, <1>7

-----------------------------------------------------------------------------
(* What most steps do to calls and tasks.                                  *)

\* No call begins, and a call that goes on stays what it is.
Calm ==
  /\ calls' = calls /\ closed' = closed
  /\ \A c \in Callers : call'[c] # Idle =>
       /\ call[c] # Idle /\ call'[c].k = call[c].k /\ call'[c].n = call[c].n
       /\ call'[c].peer = call[c].peer /\ (call'[c].at = "begin" => call[c].at = "begin")

\* No task is posted.
NoMore == \A x \in TaskRec : Work(x)' => Work(x)

LEMMA SameCalls ==
  ASSUME call' = call, calls' = calls, closed' = closed
  PROVE  Calm
BY DEF Calm

LEMMA SameWork ==
  ASSUME job' = job, batch' = batch, tasks' = tasks
  PROVE  /\ NoMore /\ (OneStart => OneStart')
         /\ CloseLast /\ overtook' = overtook => CloseLast'
BY DEF NoMore, Work, OneStart, CloseLast

LEMMA CalmIds ==
  ASSUME IdsSound, Calm, NoMore
  PROVE  IdsSound'
<1> USE DEF Calm
<1>1. \A c \in Callers : call'[c] # Idle => call'[c].n <= calls'
  BY DEF IdsSound
<1>2. \A c \in Callers : call'[c] # Idle /\ call'[c].k = "start" => c = Owner /\ call'[c].n = 1
  BY DEF IdsSound
<1>3. \A c \in Callers : call'[c] # Idle /\ call'[c].k = "close" => c = Owner /\ closed'
  BY DEF IdsSound
<1>4. \A c, d \in Callers : call'[c] # Idle /\ call'[d] # Idle /\ call'[c].n = call'[d].n => c = d
  BY DEF IdsSound
<1>5. ASSUME NEW x \in TaskRec, Work(x)'
      PROVE  /\ x.n <= calls' /\ (x.k = "start" => x.n = 1)
             /\ \A c \in Callers : call'[c] # Idle /\ call'[c].n = x.n =>
                  call'[c].k = x.k /\ call'[c].at # "begin"
  <2>1. Work(x)
    BY <1>5 DEF NoMore
  <2> QED BY <2>1 DEF IdsSound
<1> QED BY <1>1, <1>2, <1>3, <1>4, <1>5 DEF IdsSound

LEMMA CalmPosted ==
  ASSUME Sensible, Calm, CloseIsPosted
  PROVE  CloseIsPosted'
BY DEF Sensible, Calm, CloseIsPosted

LEMMA CalmAhead ==
  ASSUME Sensible, Calm, NoMore, StartAhead'
  PROVE  StartAhead
BY DEF Sensible, Calm, NoMore, StartAhead, StartBegins

LEMMA CalmPeers ==
  ASSUME PeersSound, Calm, NoMore, made' = made, late => late'
  PROVE  PeersSound'
BY DEF PeersSound, Calm, NoMore

LEMMA SameAlone ==
  ASSUME Alone, call' = call, NoMore
  PROVE  Alone'
BY DEF Alone, NoMore

LEMMA CalmGiven ==
  ASSUME GivenSound, Calm, given \subseteq given',
         \A c \in Callers : call'[c] # Idle /\ call'[c].k = "cands" /\ call'[c].at = "done" =>
           call[c].at = "done" \/ \E taken \in BOOLEAN : <<call'[c].n, taken>> \in given'
  PROVE  GivenSound'
BY DEF GivenSound, Calm

LEMMA CalmClose ==
  ASSUME Sensible, CloseSound, Calm, NoMore, UNCHANGED <<gone, handler, dropped>>,
         late' = late, overtook' = overtook, Closing => Closing' \/ gone
  PROVE  CloseSound'
<1>1. CloseIsPosted => CloseIsPosted'
  BY CalmPosted
<1>2. (\E x \in TaskRec : Work(x)' /\ x.k = "close") => \E x \in TaskRec : Work(x) /\ x.k = "close"
  BY DEF NoMore
<1>3. gone /\ ~late /\ ~overtook => \A x \in TaskRec : ~Work(x)'
  BY DEF NoMore, CloseSound
<1>4. closed' = closed
  BY DEF Calm
<1> QED BY <1>1, <1>2, <1>3, <1>4 DEF CloseSound

LEMMA CalmStart ==
  ASSUME Sensible, StartSound, Calm, NoMore, UNCHANGED <<made, handler, ready>>,
         late' = late, StartAhead /\ ~late => call' = call
  PROVE  StartSound'
<1>1. StartAhead' => StartAhead
  BY CalmAhead
<1>2. StartAhead' /\ ~late' => Alone'
  BY <1>1, SameAlone DEF StartSound
<1>3. calls' = calls /\ closed' = closed
  BY DEF Calm
<1> QED BY <1>1, <1>2, <1>3 DEF StartSound

\* Steps that touch neither calls nor tasks nor the objects.
LEMMA StillParts ==
  ASSUME Sensible, Parts, UNCHANGED <<made, handler, gone, users, given>>, ready' => made = 3,
         NoMore, OneStart', CloseLast'
  PROVE  Parts'
<1> USE DEF Parts, users
<1>1. Calm
  BY SameCalls
<1>2. IdsSound' /\ PeersSound' /\ GivenSound'
  BY <1>1, CalmIds, CalmPeers, CalmGiven
<1>3. CloseSound'
  BY <1>1, CalmClose DEF Closing
<1>4. StartSound'
  <2>1. StartAhead' => StartAhead
    BY <1>1, CalmAhead
  <2>2. StartAhead' /\ ~late' => Alone'
    BY <2>1, SameAlone DEF StartSound
  <2> QED BY <2>1, <2>2 DEF StartSound
<1> QED BY <1>2, <1>3, <1>4

-----------------------------------------------------------------------------
(* Calls as each step leaves them.                                         *)

LEMMA KeptCalls ==
  ASSUME Typed, NEW t \in TaskRec, Kept(t)
  PROVE  /\ call' \in [Callers -> Calls \cup {Idle}]
         /\ \A c \in Callers :
              /\ call'[c] = Idle <=> call[c] = Idle
              /\ call[c] # Idle => /\ call'[c].k = call[c].k /\ call'[c].n = call[c].n
                                   /\ call'[c].peer = call[c].peer
                                   /\ IF call[c].n = t.n THEN call'[c].at = "done" ELSE call'[c] = call[c]
<1> DEFINE next(c) == IF call[c] # Idle /\ call[c].n = t.n THEN Moved(call[c], "done") ELSE call[c]
<1>1. call' = [c \in Callers |-> next(c)]
  BY DEF Kept, Moved
<1>2. ASSUME NEW c \in Callers
      PROVE  /\ next(c) \in Calls \cup {Idle} /\ (next(c) = Idle <=> call[c] = Idle)
             /\ call[c] # Idle => /\ next(c).k = call[c].k /\ next(c).n = call[c].n
                                  /\ next(c).peer = call[c].peer
                                  /\ IF call[c].n = t.n THEN next(c).at = "done" ELSE next(c) = call[c]
  <2>1. call[c] \in Calls \cup {Idle}
    BY DEF Typed
  <2>2. CASE call[c] \in Calls
    <3>1. /\ Moved(call[c], "done") \in Calls /\ Moved(call[c], "done") # Idle
          /\ Moved(call[c], "done").k = call[c].k /\ Moved(call[c], "done").n = call[c].n
          /\ Moved(call[c], "done").peer = call[c].peer /\ Moved(call[c], "done").at = "done"
      BY <2>2, MovedFields, CallFields
    <3> QED BY <2>2, <3>1
  <2>3. CASE call[c] = Idle
    BY <2>3
  <2> QED BY <2>1, <2>2, <2>3
<1> HIDE DEF next
<1> QED BY <1>1, <1>2

\* What a task does to the rest: it is over, and its caller may go on.
LEMMA RunFacts ==
  ASSUME Sensible, Typed, Parts, NEW k \in Kinds, Running(k), Kept(job) \/ call' = call
  PROVE  /\ job \in TaskRec /\ Work(job) /\ job.k = k /\ call' \in [Callers -> Calls \cup {Idle}]
         /\ Calm /\ NoMore /\ OneStart' /\ CloseLast' /\ IdsSound'
         /\ k # "close" => (Closing => Closing')
         /\ \A c \in Callers : call'[c] # Idle /\ call'[c].at = "done" =>
              call[c].at = "done" \/ (call'[c].n = job.n /\ call'[c].k = k)
         /\ UNCHANGED <<closed, dropped, calls, late, overtook, told, heard, tasks, batch, io>>
<1>1. job \in TaskRec /\ job.k = k
  <2>1. k # "none"
    BY DEF Kinds
  <2> QED BY <2>1, IdleFields DEF Running, Typed
<1>2. Work(job)
  BY <1>1, TaskFields DEF Work
<1>3. UNCHANGED <<closed, dropped, calls, late, overtook, told, heard, tasks, batch, io>>
  BY DEF Running
<1>4. /\ call' \in [Callers -> Calls \cup {Idle}]
      /\ \A c \in Callers :
           /\ call'[c] = Idle <=> call[c] = Idle
           /\ call[c] # Idle => /\ call'[c].k = call[c].k /\ call'[c].n = call[c].n
                                /\ call'[c].peer = call[c].peer
                                /\ call'[c] = call[c] \/ (call[c].n = job.n /\ call'[c].at = "done")
  <2>1. CASE call' = call
    BY <2>1 DEF Typed
  <2>2. CASE Kept(job)
    BY <1>1, <2>2, KeptCalls
  <2> QED BY <2>1, <2>2
<1>5. Calm
  BY <1>3, <1>4 DEF Calm
<1>6. NoMore
  BY <1>3 DEF NoMore, Work, Running
<1>7. OneStart' /\ CloseLast'
  <2>1. job' = Idle
    BY DEF Running
  <2> QED BY <1>3, <2>1, IdleFields DEF OneStart, CloseLast, Parts
<1>8. ASSUME NEW c \in Callers, call[c] # Idle, call[c].n = job.n
      PROVE  call[c].k = k
  BY <1>1, <1>2, <1>8 DEF IdsSound, Parts
<1>9. k # "close" => (Closing => Closing')
  <2> SUFFICES ASSUME k # "close", Closing PROVE Closing'
    OBVIOUS
  <2>1. Owner \in Callers /\ call[Owner] # Idle /\ call[Owner].n # job.n
    BY <1>8 DEF Closing, Sensible
  <2> QED BY <1>4, <2>1 DEF Closing
<1>10. IdsSound'
  BY <1>5, <1>6, CalmIds DEF Parts
<1>11. \A c \in Callers : call'[c] # Idle /\ call'[c].at = "done" =>
         call[c].at = "done" \/ (call'[c].n = job.n /\ call'[c].k = k)
  BY <1>4, <1>8
<1> QED BY <1>1, <1>2, <1>3, <1>4, <1>5, <1>6, <1>7, <1>9, <1>10, <1>11

\* The call of c ends.
LEMMA LeavesCalls ==
  ASSUME Sensible, Typed, NEW c \in Callers, call' = [call EXCEPT ![c] = Idle],
         calls' = calls, closed' = closed
  PROVE  /\ call' \in [Callers -> Calls \cup {Idle}] /\ Calm
         /\ call'[c] = Idle /\ \A d \in Callers : d # c => call'[d] = call[d]
<1>1. /\ call' \in [Callers -> Calls \cup {Idle}]
      /\ call'[c] = Idle /\ \A d \in Callers : d # c => call'[d] = call[d]
  BY DEF Typed
<1> QED BY <1>1 DEF Calm

LEMMA BeginCalls ==
  ASSUME Typed, NEW c \in Callers, NEW k \in Kinds, calls < MaxCalls, Sensible,
         call' = [call EXCEPT ![c] = [k |-> k, n |-> calls + 1, peer |-> Peer, at |-> "begin"]]
  PROVE  /\ call' \in [Callers -> Calls \cup {Idle}] /\ call'[c] # Idle
         /\ call'[c].k = k /\ call'[c].n = calls + 1 /\ call'[c].peer = Peer /\ call'[c].at = "begin"
         /\ \A d \in Callers : d # c => call'[d] = call[d]
<1> DEFINE e == [k |-> k, n |-> calls + 1, peer |-> Peer, at |-> "begin"]
<1>1. Peer \in {"null", "good"}
  BY DEF Peer
<1>2. calls + 1 \in 1..MaxCalls
  BY DEF Typed, Sensible
<1>3. e \in Calls /\ e.k = k /\ e.n = calls + 1 /\ e.peer = Peer /\ e.at = "begin"
  BY <1>1, <1>2 DEF Calls
<1>4. e # Idle
  BY <1>3, CallFields
<1> HIDE DEF e
<1>5. call' = [call EXCEPT ![c] = e]
  BY DEF e
<1>6. call' \in [Callers -> Calls \cup {Idle}] /\ call'[c] = e /\ \A d \in Callers : d # c => call'[d] = call[d]
  BY <1>3, <1>5 DEF Typed
<1> QED BY <1>3, <1>4, <1>6

LEMMA AsyncCalls ==
  ASSUME Typed, NEW c \in Callers, call[c] # Idle, Async(c)
  PROVE  /\ call' \in [Callers -> Calls \cup {Idle}]
         /\ \A d \in Callers : d # c => call'[d] = call[d]
         /\ call[c].k = "send" => call'[c] = Idle
         /\ call[c].k # "send" =>
              /\ call'[c] # Idle /\ call'[c].k = call[c].k /\ call'[c].n = call[c].n
              /\ call'[c].peer = call[c].peer /\ call'[c].at = "wait"
<1> DEFINE e == IF call[c].k = "send" THEN Idle ELSE Moved(call[c], "wait")
<1>1. call[c] \in Calls
  BY DEF Typed
<1>2. call' = [call EXCEPT ![c] = e]
  BY DEF Async, Moved
<1>3. /\ Moved(call[c], "wait") \in Calls /\ Moved(call[c], "wait") # Idle
      /\ Moved(call[c], "wait").k = call[c].k /\ Moved(call[c], "wait").n = call[c].n
      /\ Moved(call[c], "wait").peer = call[c].peer /\ Moved(call[c], "wait").at = "wait"
  BY <1>1, MovedFields, CallFields
<1>4. e \in Calls \cup {Idle}
  BY <1>3
<1>5. /\ call' \in [Callers -> Calls \cup {Idle}] /\ call'[c] = e
      /\ \A d \in Callers : d # c => call'[d] = call[d]
  <2> HIDE DEF e
  <2> QED BY <1>2, <1>4 DEF Typed
<1>6. (call[c].k = "send" => e = Idle) /\ (call[c].k # "send" => e = Moved(call[c], "wait"))
  OBVIOUS
<1> HIDE DEF e
<1> QED BY <1>3, <1>5, <1>6

-----------------------------------------------------------------------------
(* The callers.                                                            *)

LEMMA NoneYet ==
  ASSUME Sensible, Typed, Parts, calls = 0
  PROVE  (\A c \in Callers : call[c] = Idle) /\ \A x \in TaskRec : ~Work(x)
<1>1. ASSUME NEW c \in Callers, call[c] # Idle PROVE FALSE
  <2>1. call[c] \in Calls
    BY <1>1 DEF Typed
  <2>2. call[c].n \in 1..MaxCalls /\ call[c].n <= calls
    BY <1>1, <2>1, CallFields DEF Parts, IdsSound
  <2> QED BY <2>2
<1>2. ASSUME NEW x \in TaskRec, Work(x) PROVE FALSE
  <2>1. x.n \in 1..MaxCalls /\ x.n <= calls
    BY <1>2, TaskFields DEF Parts, IdsSound
  <2> QED BY <2>1
<1> QED BY <1>1, <1>2

LEMMA BeginStep ==
  ASSUME Sensible, IInv, crashed = "no", NEW c \in Callers, Begin(c)
  PROVE  IInv'
<1>1. PICK k \in Kinds :
        /\ Allowed(c, k)
        /\ call' = [call EXCEPT ![c] = [k |-> k, n |-> calls + 1, peer |-> Peer, at |-> "begin"]]
        /\ closed' = (closed \/ k = "close")
  BY DEF Begin
<1>2. /\ io # "new" /\ ~dropped /\ call[c] = Idle /\ calls < MaxCalls /\ calls' = calls + 1
      /\ UNCHANGED <<made, handler, gone, ready>>
      /\ UNCHANGED <<dropped, late, overtook, told, given, heard, tasks, batch, job, io, crashed>>
  BY DEF Begin, objects, worker
<1>3. Typed /\ Sound /\ Parts
  BY DEF IInv
<1>4. /\ call' \in [Callers -> Calls \cup {Idle}] /\ call'[c] # Idle
      /\ call'[c].k = k /\ call'[c].n = calls + 1 /\ call'[c].peer = Peer /\ call'[c].at = "begin"
      /\ \A d \in Callers : d # c => call'[d] = call[d]
  BY <1>1, <1>2, <1>3, BeginCalls
<1>5. calls \in Nat /\ MaxCalls \in Nat /\ calls + 1 \in 0..MaxCalls
  BY <1>2, <1>3 DEF Typed, Sensible
<1>6. Typed'
  BY <1>1, <1>2, <1>3, <1>4, <1>5 DEF Typed
<1>7. Sound'
  BY <1>2, <1>3 DEF Sound, CloseIsOrderly, CloseFrees, ToldMeansAsked, Asked
<1>8. OneStart' /\ CloseLast' /\ \A x \in TaskRec : Work(x)' <=> Work(x)
  BY <1>2, <1>3 DEF OneStart, CloseLast, Work, Parts
<1>9. ASSUME NEW d \in Callers, call[d] # Idle
      PROVE  call[d].n <= calls /\ call[d].n # calls + 1 /\ call[d].n <= calls + 1
  <2>1. call[d].n \in Nat /\ call[d].n <= calls
    <3>1. call[d] \in Calls
      BY <1>3, <1>9 DEF Typed
    <3>2. call[d].n \in 1..MaxCalls
      BY <3>1, CallFields
    <3> QED BY <1>3, <1>5, <1>9, <3>2 DEF Parts, IdsSound
  <2> QED BY <1>5, <2>1
<1>10. ASSUME NEW x \in TaskRec, Work(x)
       PROVE  x.n <= calls /\ x.n # calls + 1 /\ x.n <= calls + 1
  <2>1. x.n \in 1..MaxCalls /\ x.n <= calls
    BY <1>3, <1>10, TaskFields DEF Parts, IdsSound
  <2> QED BY <1>5, <2>1
<1>11. k = "start" => c = Owner /\ calls = 0
  BY <1>1 DEF Allowed
<1>12. k = "close" => c = Owner /\ ~closed
  BY <1>1 DEF Allowed
<1>13. IdsSound'
  <2>1. \A d \in Callers : call'[d] # Idle => call'[d].n <= calls'
    BY <1>2, <1>4, <1>5, <1>9
  <2>2. \A d \in Callers : call'[d] # Idle /\ call'[d].k = "start" => d = Owner /\ call'[d].n = 1
    BY <1>3, <1>4, <1>11 DEF Parts, IdsSound
  <2>3. \A d \in Callers : call'[d] # Idle /\ call'[d].k = "close" => d = Owner /\ closed'
    BY <1>1, <1>3, <1>4, <1>12 DEF Parts, IdsSound
  <2>4. \A d, e \in Callers : call'[d] # Idle /\ call'[e] # Idle /\ call'[d].n = call'[e].n => d = e
    BY <1>3, <1>4, <1>9 DEF Parts, IdsSound
  <2>5. ASSUME NEW x \in TaskRec, Work(x)
        PROVE  /\ x.n <= calls' /\ (x.k = "start" => x.n = 1)
               /\ \A d \in Callers : call'[d] # Idle /\ call'[d].n = x.n =>
                    call'[d].k = x.k /\ call'[d].at # "begin"
    BY <1>2, <1>3, <1>4, <1>10, <2>5 DEF Parts, IdsSound
  <2> QED BY <1>8, <2>1, <2>2, <2>3, <2>4, <2>5 DEF IdsSound
<1>14. gone => closed
  BY <1>3 DEF Parts, CloseSound, CloseIsPosted
<1>15. CloseSound'
  <2>1. CloseIsPosted => CloseIsPosted'
    BY <1>1, <1>2, <1>4, <1>12 DEF CloseIsPosted, Sensible
  <2>2. closed' => gone \/ Closing'
    <3>1. CASE k = "close"
      BY <1>4, <1>12, <3>1 DEF Closing
    <3>2. CASE k # "close"
      BY <1>1, <1>2, <1>3, <1>4, <3>2 DEF Closing, Parts, CloseSound, Sensible
    <3> QED BY <3>1, <3>2
  <2> QED BY <1>2, <1>3, <1>8, <2>1, <2>2 DEF CloseSound, Parts
<1>16. StartSound'
  <2>1. CASE k = "start"
    <3>1. (\A d \in Callers : call[d] = Idle) /\ \A x \in TaskRec : ~Work(x)
      BY <1>3, <1>11, <2>1, NoneYet
    <3>2. Alone'
      BY <1>4, <1>8, <1>11, <2>1, <3>1 DEF Alone
    <3> QED BY <1>2, <1>3, <1>5, <1>11, <2>1, <3>2 DEF StartSound, Parts
  <2>2. CASE k # "start"
    <3>1. StartAhead' => StartAhead
      BY <1>4, <1>8, <2>2 DEF StartAhead, StartBegins, Sensible
    <3>2. ASSUME StartAhead, ~late PROVE FALSE
      <4>1. c # Owner /\ made = 0
        BY <1>2, <1>3, <3>2 DEF Parts, StartSound, Alone
      <4>2. ~ready
        BY <1>3, <4>1 DEF Parts, StartSound
      <4> QED BY <1>1, <4>1, <4>2 DEF Allowed
    <3> QED BY <1>2, <1>3, <1>5, <3>1, <3>2 DEF StartSound, Parts
  <2> QED BY <2>1, <2>2
<1>17. PeersSound'
  <2>1. k \in {"cands", "send"} => ~closed
    BY <1>1 DEF Allowed
  <2>2. k \in {"cands", "send"} /\ made = 3 => Peer = "good"
    BY <1>14, <2>1 DEF Peer
  <2> QED BY <1>2, <1>3, <1>4, <1>8, <2>2 DEF PeersSound, Parts
<1>18. GivenSound'
  BY <1>2, <1>3, <1>4 DEF GivenSound, Parts
<1> QED BY <1>6, <1>7, <1>8, <1>13, <1>15, <1>16, <1>17, <1>18 DEF IInv, Parts

LEMMA AsyncStep ==
  ASSUME Sensible, IInv, crashed = "no", NEW c \in Callers, Async(c)
  PROVE  IInv'
<1>1. Typed /\ Sound /\ Parts
  BY DEF IInv
<1>2. /\ call[c] # Idle /\ call[c].at = "begin" /\ tasks' = Append(tasks, Task(c))
      /\ overtook' = (overtook \/ CloseIsPosted)
      /\ UNCHANGED <<made, handler, gone, ready>>
      /\ UNCHANGED <<closed, dropped, calls, late, told, given, heard, batch, job, io, crashed>>
  BY DEF Async, objects
<1>3. /\ Task(c) \in TaskRec /\ call[c] \in Calls /\ Task(c).k = call[c].k
      /\ Task(c).n = call[c].n /\ Task(c).peer = call[c].peer
  BY <1>1, <1>2, TaskIsRec
<1>4. /\ call' \in [Callers -> Calls \cup {Idle}]
      /\ \A d \in Callers : d # c => call'[d] = call[d]
      /\ call[c].k = "send" => call'[c] = Idle
      /\ call[c].k # "send" =>
           /\ call'[c] # Idle /\ call'[c].k = call[c].k /\ call'[c].n = call[c].n
           /\ call'[c].peer = call[c].peer /\ call'[c].at = "wait"
  BY <1>1, <1>2, AsyncCalls
<1>5. Calm
  BY <1>2, <1>4 DEF Calm
<1> DEFINE e == Task(c)
<1>6. /\ tasks \in Seq(TaskRec) /\ e \in TaskRec
      /\ tasks' \in Seq(TaskRec)
      /\ \A x : In(x, tasks') <=> In(x, tasks) \/ x = e
      /\ \A k : /\ Has(k, tasks') <=> Has(k, tasks) \/ e.k = k
                /\ Once(k, tasks) /\ ~(Has(k, tasks) /\ e.k = k) => Once(k, tasks')
                /\ ~Has(k, tasks) => AtEnd(k, tasks')
  BY <1>1, <1>2, <1>3, AppendQueue DEF Typed
<1>7. \A x \in TaskRec : Work(x)' <=> Work(x) \/ x = e
  BY <1>2, <1>6 DEF Work
<1>8. e.k = call[c].k /\ e.n = call[c].n /\ e.peer = call[c].peer
  BY <1>3
<1> HIDE DEF e
<1>9. Typed'
  <2>1. overtook' \in BOOLEAN
    BY <1>1, <1>2 DEF Typed, CloseIsPosted
  <2> QED BY <1>1, <1>2, <1>4, <1>6, <2>1 DEF Typed
<1>10. Sound'
  BY <1>1, <1>2 DEF Sound, CloseIsOrderly, CloseFrees, ToldMeansAsked, Asked
<1>11. IdsSound'
  <2>1. \A d \in Callers : call'[d] # Idle => call'[d].n <= calls'
    BY <1>1, <1>5 DEF Parts, IdsSound, Calm
  <2>2. \A d \in Callers : call'[d] # Idle /\ call'[d].k = "start" => d = Owner /\ call'[d].n = 1
    BY <1>1, <1>5 DEF Parts, IdsSound, Calm
  <2>3. \A d \in Callers : call'[d] # Idle /\ call'[d].k = "close" => d = Owner /\ closed'
    BY <1>1, <1>5 DEF Parts, IdsSound, Calm
  <2>4. \A d, b \in Callers : call'[d] # Idle /\ call'[b] # Idle /\ call'[d].n = call'[b].n => d = b
    BY <1>1, <1>5 DEF Parts, IdsSound, Calm
  <2>5. ASSUME NEW x \in TaskRec, Work(x)
        PROVE  /\ x.n <= calls' /\ (x.k = "start" => x.n = 1)
               /\ \A d \in Callers : call'[d] # Idle /\ call'[d].n = x.n =>
                    call'[d].k = x.k /\ call'[d].at # "begin"
    BY <1>1, <1>5, <2>5 DEF Parts, IdsSound, Calm
  <2>6. /\ e.n <= calls' /\ (e.k = "start" => e.n = 1)
        /\ \A d \in Callers : call'[d] # Idle /\ call'[d].n = e.n =>
             call'[d].k = e.k /\ call'[d].at # "begin"
    <3>1. e.n <= calls' /\ (e.k = "start" => e.n = 1)
      BY <1>1, <1>2, <1>8 DEF Parts, IdsSound
    <3>2. ASSUME NEW d \in Callers, call'[d] # Idle, call'[d].n = e.n
          PROVE  d = c
      BY <1>1, <1>2, <1>5, <1>8, <3>2 DEF Parts, IdsSound, Calm
    <3> QED BY <1>4, <1>8, <3>1, <3>2
  <2> QED BY <1>7, <2>1, <2>2, <2>3, <2>4, <2>5, <2>6 DEF IdsSound
<1>12. e.k = "start" => c = Owner /\ StartBegins /\ \A x \in TaskRec : ~(Work(x) /\ x.k = "start")
  <2> SUFFICES ASSUME e.k = "start"
               PROVE  c = Owner /\ StartBegins /\ \A x \in TaskRec : ~(Work(x) /\ x.k = "start")
    OBVIOUS
  <2>1. c = Owner /\ call[c].n = 1
    BY <1>1, <1>2, <1>8 DEF Parts, IdsSound
  <2>2. ASSUME NEW x \in TaskRec, Work(x), x.k = "start" PROVE FALSE
    BY <1>1, <1>2, <2>1, <2>2 DEF Parts, IdsSound
  <2> QED BY <1>2, <1>8, <2>1, <2>2 DEF StartBegins
<1>13. OneStart'
  <2>1. batch \in Seq(TaskRec) /\ (job = Idle \/ job \in TaskRec)
    BY <1>1 DEF Typed
  <2>2. (\A x \in TaskRec : ~(Work(x) /\ x.k = "start")) =>
          ~Has("start", batch) /\ ~Has("start", tasks) /\ job.k # "start"
    <3>1. Has("start", batch) => \E x \in TaskRec : Work(x) /\ x.k = "start"
      BY <2>1, HasIn DEF Work
    <3>2. Has("start", tasks) => \E x \in TaskRec : Work(x) /\ x.k = "start"
      BY <1>6, HasIn DEF Work
    <3>3. job.k = "start" => \E x \in TaskRec : Work(x) /\ x.k = "start"
      BY <2>1, IdleFields, TaskFields DEF Work
    <3> QED BY <3>1, <3>2, <3>3
  <2>3. OneStart
    BY <1>1 DEF Parts
  <2> QED BY <1>2, <1>6, <1>12, <2>2, <2>3 DEF OneStart
<1>14. CloseLast'
  <2> SUFFICES ASSUME ~overtook' PROVE CloseLast'
    BY DEF CloseLast
  <2>1. ~overtook /\ \A x \in TaskRec : ~(Work(x) /\ x.k = "close")
    BY <1>1, <1>2 DEF Parts, CloseSound
  <2>2. batch \in Seq(TaskRec) /\ (job = Idle \/ job \in TaskRec)
    BY <1>1 DEF Typed
  <2>3. ~Has("close", batch) /\ ~Has("close", tasks) /\ job.k # "close"
    <3>1. Has("close", batch) => \E x \in TaskRec : Work(x) /\ x.k = "close"
      BY <2>2, HasIn DEF Work
    <3>2. Has("close", tasks) => \E x \in TaskRec : Work(x) /\ x.k = "close"
      BY <1>6, HasIn DEF Work
    <3>3. job.k = "close" => \E x \in TaskRec : Work(x) /\ x.k = "close"
      BY <2>2, IdleFields, TaskFields DEF Work
    <3> QED BY <2>1, <3>1, <3>2, <3>3
  <2> QED BY <1>1, <1>2, <1>6, <2>1, <2>3 DEF CloseLast, Parts
<1>15. StartSound'
  <2>1. StartAhead' => StartAhead
    <3>1. StartBegins' => StartBegins
      BY <1>5 DEF StartBegins, Calm, Sensible
    <3> QED BY <1>7, <1>12, <3>1 DEF StartAhead
  <2>2. ASSUME StartAhead, ~late PROVE Alone'
    <3>1. Alone
      BY <1>1, <2>2 DEF Parts, StartSound
    <3>2. c = Owner /\ call[c].k = "start"
      BY <1>2, <3>1 DEF Alone
    <3> QED BY <1>4, <1>7, <1>8, <3>1, <3>2 DEF Alone
  <2> QED BY <1>1, <1>2, <2>1, <2>2 DEF StartSound, Parts
<1>16. CloseSound'
  <2>1. CloseIsPosted => CloseIsPosted'
    BY <1>5, CalmPosted
  <2>2. e.k = "close" => CloseIsPosted'
    BY <1>1, <1>2, <1>4, <1>8 DEF Parts, IdsSound, CloseIsPosted
  <2>3. ~(gone /\ ~overtook')
    BY <1>1, <1>2 DEF Parts, CloseSound
  <2>4. closed => gone \/ Closing'
    BY <1>1, <1>2, <1>4 DEF Parts, CloseSound, Closing, Sensible
  <2> QED BY <1>1, <1>2, <1>7, <2>1, <2>2, <2>3, <2>4 DEF CloseSound, Parts
<1>17. PeersSound'
  BY <1>1, <1>2, <1>5, <1>7, <1>8 DEF PeersSound, Parts, Calm
<1>18. GivenSound'
  <2>1. ASSUME NEW d \in Callers, call'[d] # Idle, call'[d].at = "done" PROVE call[d].at = "done"
    BY <1>4, <2>1
  <2> QED BY <1>1, <1>2, <1>5, <2>1, CalmGiven DEF Parts
<1> QED BY <1>9, <1>10, <1>11, <1>13, <1>14, <1>15, <1>16, <1>17, <1>18 DEF IInv, Parts

LEMMA ReturnStep ==
  ASSUME Sensible, IInv, crashed = "no", NEW c \in Callers, Return(c)
  PROVE  IInv'
<1>1. Typed /\ Sound /\ Parts
  BY DEF IInv
<1>2. /\ call[c] # Idle /\ call[c].at = "done" /\ call' = [call EXCEPT ![c] = Idle]
      /\ told' = IF call[c].k = "cands" THEN told \cup {call[c].n} ELSE told
      /\ UNCHANGED <<made, handler, gone, ready>>
      /\ UNCHANGED <<closed, dropped, calls, late, overtook, given, heard, tasks, batch, job, io, crashed>>
  BY DEF Return, objects, worker
<1>3. /\ call' \in [Callers -> Calls \cup {Idle}] /\ Calm
      /\ call'[c] = Idle /\ \A d \in Callers : d # c => call'[d] = call[d]
  BY <1>1, <1>2, LeavesCalls
<1>4. NoMore /\ OneStart' /\ CloseLast'
  BY <1>1, <1>2, SameWork DEF Parts
<1>5. call[c].k = "cands" => \E taken \in BOOLEAN : <<call[c].n, taken>> \in given
  BY <1>1, <1>2 DEF Parts, GivenSound
<1>6. Typed'
  <2>1. told' \in SUBSET (1..MaxCalls)
    <3>1. call[c] \in Calls
      BY <1>1, <1>2 DEF Typed
    <3>2. call[c].n \in 1..MaxCalls
      BY <3>1, CallFields
    <3> QED BY <1>1, <1>2, <3>2 DEF Typed
  <2> QED BY <1>1, <1>2, <1>3, <2>1 DEF Typed
<1>7. Sound'
  BY <1>1, <1>2, <1>5 DEF Sound, CloseIsOrderly, CloseFrees, ToldMeansAsked, Asked
<1>8. IdsSound' /\ PeersSound'
  BY <1>1, <1>2, <1>3, <1>4, CalmIds, CalmPeers DEF Parts
<1>9. GivenSound'
  BY <1>1, <1>2, <1>3, CalmGiven DEF Parts
<1>10. CloseSound'
  <2>1. Closing => Closing'
    BY <1>2, <1>3 DEF Closing, Sensible
  <2> QED BY <1>1, <1>2, <1>3, <1>4, <2>1, CalmClose DEF Parts
<1>11. StartSound'
  <2>1. ~(StartAhead /\ ~late)
    BY <1>1, <1>2 DEF Parts, StartSound, Alone
  <2> QED BY <1>1, <1>2, <1>3, <1>4, <2>1, CalmStart DEF Parts
<1> QED BY <1>4, <1>6, <1>7, <1>8, <1>9, <1>10, <1>11 DEF IInv, Parts

\* Whoever gives up lets closeSync run for him, if he waited for close.
LEMMA TimeOutStep ==
  ASSUME Sensible, IInv, crashed = "no", NEW c \in Callers, TimeOut(c)
  PROVE  IInv'
<1>1. Typed /\ Sound /\ Parts
  BY DEF IInv
<1>2. /\ call[c] # Idle /\ call[c].at = "wait" /\ late' = TRUE /\ GiveUp(call[c].k)
      /\ call' = [call EXCEPT ![c] = Idle]
      /\ UNCHANGED <<closed, dropped, calls, overtook, told, given, heard, tasks, batch, job, io>>
  BY DEF TimeOut, worker
<1>3. /\ call' \in [Callers -> Calls \cup {Idle}] /\ Calm
      /\ call'[c] = Idle /\ \A d \in Callers : d # c => call'[d] = call[d]
  BY <1>1, <1>2, LeavesCalls
<1>4. NoMore /\ OneStart' /\ CloseLast'
  BY <1>1, <1>2, SameWork DEF Parts
<1>5. made' = made /\ ready' = ready
  BY <1>2 DEF GiveUp, Freed, objects
<1>6. IdsSound' /\ PeersSound'
  BY <1>1, <1>2, <1>3, <1>4, <1>5, CalmIds, CalmPeers DEF Parts
<1>7. GivenSound'
  BY <1>1, <1>2, <1>3, CalmGiven DEF Parts
<1>8. StartAhead' => StartAhead
  BY <1>3, <1>4, CalmAhead
<1>9. CloseIsPosted => CloseIsPosted'
  BY <1>3, CalmPosted
<1>10. CASE call[c].k # "close"
  <2>1. UNCHANGED <<made, handler, gone, ready, crashed>>
    BY <1>2, <1>10 DEF GiveUp, objects
  <2>2. Typed' /\ Sound'
    BY <1>1, <1>2, <1>3, <2>1 DEF Typed, Sound, CloseIsOrderly, CloseFrees, ToldMeansAsked, Asked
  <2>3. StartSound'
    BY <1>1, <1>2, <1>8, <2>1 DEF Parts, StartSound
  <2>4. CloseSound'
    <3>1. Closing => Closing'
      BY <1>2, <1>3, <1>10 DEF Closing, Sensible
    <3> QED BY <1>1, <1>2, <1>4, <1>9, <2>1, <3>1 DEF Parts, CloseSound, NoMore
  <2> QED BY <1>4, <1>6, <1>7, <2>2, <2>3, <2>4 DEF IInv, Parts
<1>11. CASE call[c].k = "close"
  <2>1. /\ crashed' = (IF job # Idle THEN "race" ELSE Misuse)
        /\ handler' = "freed" /\ gone' = TRUE
    BY <1>2, <1>11 DEF GiveUp, Freed
  <2>2. c = Owner /\ closed /\ calls # 0
    <3>1. c = Owner /\ closed
      BY <1>1, <1>2, <1>11 DEF Parts, IdsSound
    <3> QED BY <1>1, <1>2, <3>1, NoneYet
  <2>3. Typed'
    <3>1. crashed' \in {"no", "unset", "twice", "freed", "null", "race"}
      BY <2>1 DEF Misuse
    <3> QED BY <1>1, <1>2, <1>3, <1>5, <2>1, <3>1 DEF Typed
  <2>4. Sound'
    <3>1. crashed' = "unset" => made' < 2
      BY <1>1, <1>5, <2>1 DEF Misuse, Typed, Parts, StartSound
    <3>2. CloseIsOrderly'
      BY <1>2, <3>1 DEF CloseIsOrderly
    <3> QED BY <1>1, <1>2, <2>1, <3>2 DEF Sound, CloseFrees, ToldMeansAsked, Asked
  <2>5. ASSUME crashed' = "no" PROVE StartSound' /\ CloseSound'
    <3>1. handler = "made"
      BY <2>1, <2>5 DEF Misuse
    <3>2. StartSound'
      BY <1>1, <1>2, <1>5, <1>8, <2>1, <2>2, <3>1 DEF Parts, StartSound
    <3>3. CloseIsPosted'
      BY <1>2, <1>3, <2>2 DEF CloseIsPosted
    <3> QED BY <1>1, <1>2, <2>1, <3>2, <3>3 DEF CloseSound, Parts
  <2> QED BY <1>4, <1>6, <1>7, <2>3, <2>4, <2>5 DEF IInv, Parts
<1> QED BY <1>10, <1>11

LEMMA DropStep ==
  ASSUME Sensible, IInv, crashed = "no", Drop
  PROVE  IInv'
<1>1. Typed /\ Sound /\ Parts
  BY DEF IInv
<1>2. /\ closed /\ (\A c \in Callers : call[c] = Idle) /\ dropped' = TRUE
      /\ UNCHANGED <<made, handler, gone, ready>>
      /\ UNCHANGED <<closed, call, calls, late, overtook, told, given, heard, tasks, batch,
                     job, io, crashed>>
  BY DEF Drop, objects, worker
<1>3. gone /\ handler = "freed"
  BY <1>1, <1>2 DEF Parts, CloseSound, Closing, Sensible
<1>4. Typed' /\ Sound'
  BY <1>1, <1>2, <1>3 DEF Typed, Sound, CloseIsOrderly, CloseFrees, ToldMeansAsked, Asked
<1>5. Calm /\ NoMore /\ OneStart' /\ CloseLast'
  BY <1>1, <1>2, SameWork, SameCalls DEF Parts
<1>6. IdsSound' /\ PeersSound' /\ GivenSound' /\ StartSound'
  BY <1>1, <1>2, <1>5, CalmIds, CalmPeers, CalmGiven, CalmStart DEF Parts
<1>7. CloseSound'
  <2>1. CloseIsPosted => CloseIsPosted'
    BY <1>5, CalmPosted
  <2> QED BY <1>1, <1>2, <1>3, <1>5, <2>1 DEF Parts, CloseSound, NoMore
<1> QED BY <1>4, <1>5, <1>6, <1>7 DEF IInv, Parts

-----------------------------------------------------------------------------
(* The IO worker.                                                          *)

LEMMA SwapStep ==
  ASSUME Sensible, IInv, crashed = "no", Swap
  PROVE  IInv'
<1>1. Typed /\ Sound /\ Parts
  BY DEF IInv
<1>2. /\ job = Idle /\ batch = <<>> /\ batch' = tasks /\ tasks' = <<>> /\ job' = job
      /\ io' \in {io, "last"}
      /\ UNCHANGED <<made, handler, gone, ready, users, given, heard, crashed>>
  BY DEF Swap, Between, objects
<1>3. NoMore
  BY <1>2, EmptyQueue DEF NoMore, Work
<1>4. OneStart' /\ CloseLast'
  BY <1>1, <1>2, EmptyQueue, IdleFields DEF Parts, OneStart, CloseLast, users
<1>5. Typed' /\ Sound'
  BY <1>1, <1>2, EmptyQueue DEF Typed, Sound, CloseIsOrderly, CloseFrees, ToldMeansAsked, Asked, users
<1>6. Parts'
  <2>1. ready' => made = 3
    BY <1>1, <1>2 DEF Parts, StartSound
  <2> QED BY <1>1, <1>2, <1>3, <1>4, <2>1, StillParts
<1> QED BY <1>5, <1>6 DEF IInv

LEMMA TakeStep ==
  ASSUME Sensible, IInv, crashed = "no", Take
  PROVE  IInv'
<1>1. Typed /\ Sound /\ Parts
  BY DEF IInv
<1>2. /\ job = Idle /\ batch # <<>> /\ batch' = Tail(batch) /\ tasks' = tasks
      /\ job' = (IF dropped THEN Idle ELSE Head(batch))
      /\ UNCHANGED <<made, handler, gone, ready, users, given, heard, io, crashed>>
  BY DEF Take, objects
<1>3. /\ Head(batch) \in TaskRec /\ batch' \in Seq(TaskRec)
      /\ \A x : In(x, batch) <=> x = Head(batch) \/ In(x, batch')
      /\ \A k : /\ Has(k, batch) <=> Head(batch).k = k \/ Has(k, batch')
                /\ Once(k, batch) => Once(k, batch') /\ ~(Head(batch).k = k /\ Has(k, batch'))
                /\ AtEnd(k, batch) => AtEnd(k, batch') /\ (Head(batch).k = k => batch' = <<>>)
  BY <1>1, <1>2, TailQueue DEF Typed
<1>4. NoMore
  BY <1>2, <1>3 DEF NoMore, Work
<1>5. OneStart' /\ CloseLast'
  <2>1. job'.k = "start" => Head(batch).k = "start"
    BY <1>2, IdleFields
  <2>2. job'.k = "close" => Head(batch).k = "close"
    BY <1>2, IdleFields
  <2>3. OneStart'
    BY <1>1, <1>2, <1>3, <2>1 DEF Parts, OneStart
  <2>4. CloseLast'
    BY <1>1, <1>2, <1>3, <2>2 DEF Parts, CloseLast, users
  <2> QED BY <2>3, <2>4
<1>6. Typed' /\ Sound'
  BY <1>1, <1>2, <1>3 DEF Typed, Sound, CloseIsOrderly, CloseFrees, ToldMeansAsked, Asked, users
<1>7. Parts'
  <2>1. ready' => made = 3
    BY <1>1, <1>2 DEF Parts, StartSound
  <2> QED BY <1>1, <1>2, <1>4, <1>5, <2>1, StillParts
<1> QED BY <1>6, <1>7 DEF IInv

\* The steps of the worker and of nICEr that run no task.
LEMMA OtherSteps ==
  ASSUME Sensible, IInv, crashed = "no", IoStart \/ IoClose \/ IoEnd \/ IceConnected \/ OnCandidate
  PROVE  IInv'
<1>1. Typed /\ Sound /\ Parts
  BY DEF IInv
<1>2. /\ UNCHANGED <<made, handler, gone, users, given, crashed, job, batch>>
      /\ ready' \in BOOLEAN /\ (ready' => made = 3)
      /\ heard' \in 0..MaxHeard /\ io' \in {"new", "run", "ending", "last", "ended"}
      /\ tasks' = tasks \/ (tasks' = <<>> /\ batch = <<>> /\ job = Idle)
  <2>1. CASE IoStart \/ IoClose
    BY <1>1, <2>1 DEF IoStart, IoClose, objects, Typed, Parts, StartSound
  <2>2. CASE IoEnd
    BY <1>1, <2>2 DEF IoEnd, Between, objects, Typed, Parts, StartSound
  <2>3. CASE IceConnected
    BY <1>1, <2>3 DEF IceConnected, worker, Typed
  <2>4. CASE OnCandidate
    BY <1>1, <2>4 DEF OnCandidate, worker, objects, Typed, Parts, StartSound, Sensible
  <2> QED BY <2>1, <2>2, <2>3, <2>4
<1>3. Typed' /\ Sound'
  <2>1. tasks' \in Seq(TaskRec)
    BY <1>1, <1>2, EmptyQueue DEF Typed
  <2> QED BY <1>1, <1>2, <2>1 DEF Typed, Sound, CloseIsOrderly, CloseFrees, ToldMeansAsked, Asked, users
<1>4. NoMore /\ OneStart' /\ CloseLast'
  <2>1. CASE tasks' = tasks
    BY <1>1, <1>2, <2>1, SameWork DEF Parts, users
  <2>2. CASE tasks' = <<>> /\ batch = <<>> /\ job = Idle
    BY <1>1, <1>2, <2>2, EmptyQueue, IdleFields DEF NoMore, Work, OneStart, CloseLast
  <2> QED BY <1>2, <2>1, <2>2
<1>5. Parts'
  BY <1>1, <1>2, <1>4, StillParts
<1> QED BY <1>3, <1>5 DEF IInv

-----------------------------------------------------------------------------
(* The tasks.                                                              *)

LEMMA RunStartStep ==
  ASSUME Sensible, IInv, crashed = "no", RunStart
  PROVE  IInv'
<1>1. Typed /\ Sound /\ Parts
  BY DEF IInv
<1>2. Running("start") /\ Kept(job) /\ UNCHANGED <<gone, ready, given, crashed>>
  BY DEF RunStart
<1>3. /\ job \in TaskRec /\ Work(job) /\ job.k = "start" /\ call' \in [Callers -> Calls \cup {Idle}]
      /\ Calm /\ NoMore /\ OneStart' /\ CloseLast' /\ IdsSound' /\ (Closing => Closing')
      /\ \A c \in Callers : call'[c] # Idle /\ call'[c].at = "done" =>
           call[c].at = "done" \/ (call'[c].n = job.n /\ call'[c].k = "start")
      /\ UNCHANGED <<closed, dropped, calls, late, overtook, told, heard, tasks, batch, io>>
  BY <1>1, <1>2, RunFacts DEF Kinds
<1>4. job' = Idle
  BY <1>2 DEF Running
<1>5. made' \in 0..3 /\ handler' \in {"unset", "made"} /\ (made' >= 2 => handler' = "made")
  <2>1. PICK n \in 0..3 :
          /\ made' = n
          /\ handler' \in (CASE n = 0 -> {"unset"} [] n = 1 -> {"unset", "made"} [] OTHER -> {"made"})
    BY DEF RunStart
  <2> QED BY <2>1
<1>6. made = 0 /\ handler = "unset" /\ (~late => Alone)
  BY <1>1, <1>3 DEF Parts, StartSound, StartAhead
<1>7. ~gone /\ ~ready /\ ~dropped
  BY <1>1, <1>6 DEF Parts, StartSound, CloseSound
<1>8. ~StartAhead'
  <2>1. job.n = 1
    BY <1>1, <1>3 DEF Parts, IdsSound
  <2>2. ~StartBegins
    BY <1>1, <1>3, <2>1 DEF Parts, IdsSound, StartBegins, Sensible
  <2>3. ~StartBegins'
    BY <1>3, <2>2 DEF StartBegins, Calm, Sensible
  <2>4. ASSUME NEW x \in TaskRec, Work(x)', x.k = "start" PROVE FALSE
    <3>1. In(x, batch) \/ In(x, tasks)
      BY <1>3, <1>4, <2>4, TaskFields DEF Work
    <3>2. Has("start", batch) \/ Has("start", tasks)
      BY <1>1, <2>4, <3>1, HasIn DEF Typed
    <3> QED BY <1>1, <1>3, <3>2 DEF Parts, OneStart
  <2> QED BY <2>3, <2>4 DEF StartAhead
<1>9. Typed'
  BY <1>1, <1>2, <1>3, <1>4, <1>5 DEF Typed
<1>10. Sound'
  BY <1>1, <1>2, <1>3, <1>7 DEF Sound, CloseIsOrderly, CloseFrees, ToldMeansAsked, Asked
<1>11. StartSound'
  <2>1. calls # 0
    BY <1>1, <1>3, NoneYet
  <2> QED BY <1>2, <1>3, <1>5, <1>7, <1>8, <2>1 DEF StartSound
<1>12. CloseSound'
  <2>1. CloseIsPosted => CloseIsPosted'
    BY <1>3, CalmPosted
  <2> QED BY <1>1, <1>2, <1>3, <1>5, <1>7, <2>1 DEF Parts, CloseSound, NoMore
<1>13. PeersSound'
  <2> SUFFICES ASSUME ~late PROVE PeersSound'
    BY <1>3 DEF PeersSound
  <2>1. Alone
    BY <1>6
  <2>2. \A c \in Callers : call'[c] # Idle => call'[c].k = "start"
    BY <1>3, <2>1 DEF Alone, Calm
  <2>3. \A x \in TaskRec : Work(x)' => x.k = "start"
    BY <1>3, <2>1 DEF Alone, NoMore
  <2> QED BY <2>2, <2>3 DEF PeersSound
<1>14. GivenSound'
  BY <1>1, <1>2, <1>3, CalmGiven DEF Parts
<1> QED BY <1>3, <1>9, <1>10, <1>11, <1>12, <1>13, <1>14 DEF IInv, Parts

LEMMA UsingType ==
  ASSUME NEW p
  PROVE  Using(p) \in {"no", "null", "freed"} /\ (Using(p) # "no" => p = "null" \/ gone)
BY DEF Using

\* No task but that of close touches the objects; each may misuse them.
LEMMA UserStep ==
  ASSUME Sensible, IInv, crashed = "no", NEW k \in {"cands", "creds", "send", "pair"}, Running(k),
         Kept(job) \/ (call' = call), UNCHANGED <<made, handler, gone, ready>>,
         given' = given \/ (\E taken \in BOOLEAN : given' = given \cup {<<job.n, taken>>}),
         k = "cands" /\ crashed' = "no" => \E taken \in BOOLEAN : <<job.n, taken>> \in given',
         NEW p, crashed' = Using(p), p = Peer \/ (p = job.peer /\ k \in {"cands", "send"})
  PROVE  IInv'
<1>1. Typed /\ Sound /\ Parts
  BY DEF IInv
<1>2. k \in Kinds /\ k # "close" /\ k # "start"
  BY DEF Kinds
<1>3. /\ job \in TaskRec /\ Work(job) /\ job.k = k /\ call' \in [Callers -> Calls \cup {Idle}]
      /\ Calm /\ NoMore /\ OneStart' /\ CloseLast' /\ IdsSound' /\ (Closing => Closing')
      /\ \A c \in Callers : call'[c] # Idle /\ call'[c].at = "done" =>
           call[c].at = "done" \/ (call'[c].n = job.n /\ call'[c].k = k)
      /\ UNCHANGED <<closed, dropped, calls, late, overtook, told, heard, tasks, batch, io>>
  BY <1>1, <1>2, RunFacts
<1>4. job' = Idle
  BY DEF Running
<1>5. given' \in SUBSET ((1..MaxCalls) \X BOOLEAN) /\ given \subseteq given'
  <2>1. job.n \in 1..MaxCalls
    BY <1>3, TaskFields
  <2> QED BY <1>1, <2>1 DEF Typed
<1>6. Typed'
  <2>1. crashed' \in {"no", "unset", "twice", "freed", "null", "race"}
    BY UsingType
  <2> QED BY <1>1, <1>3, <1>4, <1>5, <2>1 DEF Typed
<1>7. ASSUME made = 3, ~late, ~overtook PROVE p # "null" /\ ~gone
  <2>1. ~gone
    BY <1>1, <1>3, <1>7 DEF Parts, CloseSound
  <2>2. Peer = "good"
    BY <1>7, <2>1 DEF Peer
  <2>3. k \in {"cands", "send"} => job.peer = "good"
    BY <1>1, <1>3, <1>7 DEF Parts, PeersSound
  <2> QED BY <2>1, <2>2, <2>3
<1>8. Sound'
  <2>1. crashed' = "null" => made' < 3 \/ late' \/ overtook'
    <3>1. made \in 0..3
      BY <1>1 DEF Typed
    <3>2. made # 3 => made < 3
      BY <3>1
    <3> QED BY <1>3, <1>7, <3>2, UsingType
  <2>2. crashed' = "freed" => late' \/ overtook'
    <3>1. crashed' = "freed" => gone
      BY DEF Using
    <3> QED BY <1>1, <1>3, <3>1 DEF Parts, CloseSound
  <2>3. CloseIsOrderly'
    BY <2>1, <2>2, UsingType DEF CloseIsOrderly
  <2> QED BY <1>1, <1>3, <1>5, <2>3 DEF Sound, CloseFrees, ToldMeansAsked, Asked
<1>9. StartSound' /\ CloseSound' /\ PeersSound'
  <2>1. ~(StartAhead /\ ~late)
    BY <1>1, <1>2, <1>3 DEF Parts, StartSound, Alone
  <2> QED BY <1>1, <1>3, <2>1, CalmStart, CalmClose, CalmPeers DEF Parts
<1>10. crashed' = "no" => GivenSound'
  <2> SUFFICES ASSUME crashed' = "no" PROVE GivenSound'
    OBVIOUS
  <2>1. \A c \in Callers : call'[c] # Idle /\ call'[c].k = "cands" /\ call'[c].at = "done" =>
          call[c].at = "done" \/ \E taken \in BOOLEAN : <<call'[c].n, taken>> \in given'
    BY <1>3
  <2> QED BY <1>1, <1>3, <1>5, <2>1, CalmGiven DEF Parts
<1> QED BY <1>3, <1>6, <1>8, <1>9, <1>10 DEF IInv, Parts

LEMMA UserSteps ==
  ASSUME Sensible, IInv, crashed = "no", RunCands \/ RunCreds \/ RunSend \/ RunPair
  PROVE  IInv'
<1>1. ASSUME RunCands PROVE IInv'
  <2>1. /\ Running("cands") /\ Kept(job) /\ UNCHANGED <<made, handler, gone, ready>>
        /\ crashed' = Using(job.peer)
        /\ IF crashed' = "no"
           THEN \E taken \in BOOLEAN : given' = given \cup {<<job.n, taken>>}
           ELSE given' = given
    BY <1>1 DEF RunCands, objects
  <2>2. /\ given' = given \/ \E taken \in BOOLEAN : given' = given \cup {<<job.n, taken>>}
        /\ crashed' = "no" => \E taken \in BOOLEAN : <<job.n, taken>> \in given'
    BY <2>1
  <2> QED BY <2>1, <2>2, UserStep
<1>2. ASSUME RunCreds PROVE IInv'
  <2>1. /\ Running("creds") /\ Kept(job) /\ UNCHANGED <<made, handler, gone, ready>>
        /\ crashed' = Using(Peer) /\ given' = given
    BY <1>2 DEF RunCreds, objects
  <2> QED BY <2>1, UserStep
<1>3. ASSUME RunSend PROVE IInv'
  <2>1. /\ Running("send") /\ call' = call /\ UNCHANGED <<made, handler, gone, ready>>
        /\ crashed' = Using(job.peer) /\ given' = given
    BY <1>3 DEF RunSend, objects
  <2> QED BY <2>1, UserStep
<1>4. ASSUME RunPair PROVE IInv'
  <2>1. /\ Running("pair") /\ Kept(job) /\ UNCHANGED <<made, handler, gone, ready>>
        /\ crashed' = Using(Peer) /\ given' = given
    BY <1>4 DEF RunPair, objects
  <2> QED BY <2>1, UserStep
<1> QED BY <1>1, <1>2, <1>3, <1>4

LEMMA RunCloseStep ==
  ASSUME Sensible, IInv, crashed = "no", RunClose
  PROVE  IInv'
<1>1. Typed /\ Sound /\ Parts
  BY DEF IInv
<1>2. /\ Running("close") /\ Kept(job) /\ crashed' = Misuse /\ given' = given
      /\ handler' = "freed" /\ gone' = TRUE /\ made' = made /\ ready' = ready
  BY DEF RunClose, Freed
<1>3. /\ job \in TaskRec /\ Work(job) /\ job.k = "close" /\ call' \in [Callers -> Calls \cup {Idle}]
      /\ Calm /\ NoMore /\ OneStart' /\ CloseLast' /\ IdsSound'
      /\ \A c \in Callers : call'[c] # Idle /\ call'[c].at = "done" =>
           call[c].at = "done" \/ (call'[c].n = job.n /\ call'[c].k = "close")
      /\ UNCHANGED <<closed, dropped, calls, late, overtook, told, heard, tasks, batch, io>>
  BY <1>1, <1>2, RunFacts DEF Kinds
<1>4. job' = Idle
  BY <1>2 DEF Running
<1>5. Typed'
  <2>1. crashed' \in {"no", "unset", "twice", "freed", "null", "race"}
    BY <1>2 DEF Misuse
  <2> QED BY <1>1, <1>2, <1>3, <1>4, <2>1 DEF Typed
<1>6. Sound'
  <2>1. crashed' = "twice" => late' \/ overtook'
    <3>1. crashed' = "twice" => gone
      BY <1>1, <1>2 DEF Misuse, Parts, CloseSound
    <3> QED BY <1>1, <1>3, <3>1 DEF Parts, CloseSound
  <2>2. crashed' = "unset" => made' < 2
    BY <1>1, <1>2 DEF Misuse, Typed, Parts, StartSound
  <2>3. crashed' \in {"no", "twice", "unset"}
    BY <1>2 DEF Misuse
  <2>4. CloseIsOrderly'
    BY <2>1, <2>2, <2>3 DEF CloseIsOrderly
  <2> QED BY <1>1, <1>2, <1>3, <2>4 DEF Sound, CloseFrees, ToldMeansAsked, Asked
<1>7. ASSUME crashed' = "no" PROVE Parts'
  <2>1. handler = "made"
    BY <1>2, <1>7 DEF Misuse
  <2>2. StartSound'
    <3>1. ~StartAhead'
      BY <1>1, <1>3, <2>1, CalmAhead DEF Parts, StartSound
    <3>2. calls # 0
      BY <1>1, <1>3, NoneYet
    <3> QED BY <1>1, <1>2, <1>3, <3>1, <3>2 DEF Parts, StartSound
  <2>3. CloseSound'
    <3>1. CloseIsPosted'
      BY <1>1, <1>3, CalmPosted DEF Parts, CloseSound
    <3>2. ~overtook => \A x \in TaskRec : ~Work(x)'
      <4> SUFFICES ASSUME ~overtook PROVE \A x \in TaskRec : ~Work(x)'
        OBVIOUS
      <4>1. batch = <<>> /\ tasks = <<>>
        BY <1>1, <1>3 DEF Parts, CloseLast
      <4> QED BY <1>3, <1>4, <4>1, EmptyQueue DEF Work
    <3> QED BY <1>2, <1>3, <3>1, <3>2 DEF CloseSound
  <2>4. PeersSound' /\ GivenSound'
    BY <1>1, <1>2, <1>3, CalmPeers, CalmGiven DEF Parts
  <2> QED BY <1>3, <2>2, <2>3, <2>4 DEF Parts
<1> QED BY <1>5, <1>6, <1>7 DEF IInv

-----------------------------------------------------------------------------
(* Theorems.                                                               *)

LEMMA InvInit ==
  ASSUME Sensible, Init
  PROVE  IInv
<1> USE DEF Init
<1>1. Typed
  <2>1. 0 \in 0..MaxCalls /\ 0 \in 0..MaxHeard /\ 0 \in 0..3
    BY DEF Sensible
  <2>2. call \in [Callers -> Calls \cup {Idle}]
    OBVIOUS
  <2> QED BY <2>1, <2>2, EmptyQueue DEF Typed
<1>2. Sound
  BY DEF Sound, CloseIsOrderly, CloseFrees, ToldMeansAsked, Asked
<1>3. (\A c \in Callers : call[c] = Idle) /\ \A x : ~Work(x)
  BY EmptyQueue DEF Work
<1>4. ~StartAhead
  BY <1>3 DEF StartAhead, StartBegins, Sensible
<1>5. OneStart /\ CloseLast
  BY EmptyQueue, IdleFields DEF OneStart, CloseLast
<1>6. IdsSound /\ PeersSound /\ GivenSound
  BY <1>3 DEF IdsSound, PeersSound, GivenSound
<1>7. StartSound /\ CloseSound
  BY <1>3, <1>4 DEF StartSound, CloseSound
<1> QED BY <1>1, <1>2, <1>5, <1>6, <1>7 DEF IInv, Parts

LEMMA InvStep ==
  ASSUME Sensible, IInv, [Next]_vars
  PROVE  IInv'
<1>1. CASE UNCHANGED vars
  <2>1. UNCHANGED <<made, handler, gone, users, given, heard, ready, crashed, tasks, batch, job, io>>
    BY <1>1 DEF vars, objects, worker
  <2>2. Typed' /\ Sound'
    <3>1. Typed'
      BY <2>1 DEF IInv, Typed, users
    <3>2. Sound'
      BY <2>1 DEF IInv, Sound, CloseIsOrderly, CloseFrees, ToldMeansAsked, Asked, users
    <3> QED BY <3>1, <3>2
  <2>3. ASSUME Parts PROVE Parts'
    <3>1. NoMore /\ OneStart' /\ CloseLast'
      BY <2>1, <2>3, SameWork DEF Parts, users
    <3>2. ready' => made = 3
      BY <2>1, <2>3 DEF Parts, StartSound
    <3> QED BY <2>1, <2>3, <3>1, <3>2, StillParts
  <2> QED BY <2>1, <2>2, <2>3 DEF IInv
<1>2. CASE Next
  <2> USE <1>2
  <2>1. crashed = "no"
    BY DEF Next
  <2>2. ASSUME NEW c \in Callers, Begin(c) \/ Async(c) \/ Return(c) \/ TimeOut(c)
        PROVE  IInv'
    BY <2>1, <2>2, BeginStep, AsyncStep, ReturnStep, TimeOutStep
  <2>3. CASE Drop \/ Swap \/ Take
    BY <2>1, <2>3, DropStep, SwapStep, TakeStep
  <2>4. CASE IoStart \/ IoClose \/ IoEnd \/ IceConnected \/ OnCandidate
    BY <2>1, <2>4, OtherSteps
  <2>5. CASE Run
    BY <2>1, <2>5, RunStartStep, UserSteps, RunCloseStep DEF Run
  <2> QED BY <2>2, <2>3, <2>4, <2>5 DEF Next, IoWorker
<1> QED BY <1>1, <1>2

\* NicerConnection is closed in order, frees all and answers truly because its
\* calls, their tasks and the one start and close among them stay in step
\* (NicerConnection.cpp:156, 349, 557, IOWorker.cpp:21).
THEOREM NicerInductive == Sensible => (Spec => []IInv)
<1> SUFFICES ASSUME Sensible PROVE Spec => []IInv
  OBVIOUS
<1>1. Init => IInv
  BY InvInit
<1>2. IInv /\ [Next]_vars => IInv'
  BY InvStep
<1> QED BY <1>1, <1>2, PTL DEF Spec

LEMMA NicerInvSound ==
  ASSUME IInv
  PROVE  TypeOK /\ Sound
<1>1. Typed /\ Sound
  BY DEF IInv
<1>2. \A t \in {tasks[i] : i \in DOMAIN tasks} \cup {batch[i] : i \in DOMAIN batch} : t \in TaskRec
  BY <1>1 DEF Typed
<1>3. {gone, ready, closed, dropped, late, overtook} \subseteq BOOLEAN
  BY <1>1 DEF Typed
<1> QED BY <1>1, <1>2, <1>3 DEF TypeOK, Typed, TaskRec

\* What close frees is freed again or followed only after a wait that timed out or
\* by a call posted behind its task, and a pointer nobody set only where startSync
\* failed; close frees everything; setRemoteCandidates is true only of candidates
\* nICEr was asked to take, which it may have refused (NicerConnection.cpp:341,
\* 349, 557, 567).
THEOREM NicerSoundAlways == Sensible => (Spec => [](TypeOK /\ Sound))
<1>1. IInv => TypeOK /\ Sound
  BY NicerInvSound
<1>2. Sensible => (Spec => []IInv)
  BY NicerInductive
<1> QED BY <1>1, <1>2, PTL

-----------------------------------------------------------------------------
(* The ICE connection over libnice.                                        *)

NiceTyped ==
  /\ bundle \in BOOLEAN /\ quit \in BOOLEAN /\ listener \in BOOLEAN /\ due \in BOOLEAN
  /\ sending \in BOOLEAN /\ niceLate \in BOOLEAN
  /\ ice \in {"INITIAL", "READY", "FINISHED", "FAILED"}
  /\ agent \in {"none", "made", "freed"}
  /\ loop \in {"none", "new", "tested", "run", "over"}
  /\ cands \in [Components -> Seq(Candidates)] /\ fresh \in [Components -> Nat] /\ delivered \in Nat
  /\ niceTold \in Seq(Components \X Usable)
  /\ remote \in SUBSET Remotes
  /\ data \in {"no", "ready", "good", "null"}
  /\ nicePhase \in {"open", "begun", "join", "free", "closed"}
  /\ niceCrashed \in {"no", "loop", "data", "send", "pair"}

\* A callback is due for a candidate the agent lists.
CandsSound == \A c \in Components : fresh[c] <= Len(cands[c]) /\ Len(cands[c]) <= MaxCands

\* What the listener hears of a list of usable candidates of component 1.
Heard(list) == [i \in DOMAIN list |-> <<1, list[i]>>]

\* The count of a single component stays within its list.
CountSound ==
  Components = {1} =>
    /\ delivered <= Len(cands[1]) /\ (fresh[1] = 0 => delivered = Len(cands[1]))
    /\ listener => niceTold = Heard(Only(SubSeq(cands[1], 1, delivered), Usable))

\* The thread of the loop lives between start and the join of close.
LoopSound ==
  /\ agent = "none" => loop = "none" /\ nicePhase = "open"
  /\ agent = "freed" <=> nicePhase = "closed"
  /\ data # "no" => loop = "run"
  /\ nicePhase \in {"free", "closed"} /\ ~niceLate => loop = "over"
  /\ niceCrashed = "loop" => niceLate

NiceInv == NiceTyped /\ CandsSound /\ CountSound /\ LoopSound

LEMMA SameOnly ==
  ASSUME NEW s, NEW T
  PROVE  Nice!Only(s, T) = Only(s, T)
BY DEF Nice!Only, Only

LEMMA ComponentsOfNice == Components = {1} \/ Components = {1, 2}
BY NiceSensible DEF Nice!Sensible

LEMMA HeardType ==
  ASSUME NEW S, NEW list \in Seq(S)
  PROVE  /\ Heard(list) \in Seq({1} \X S) /\ Len(Heard(list)) = Len(list)
         /\ \A i \in 1 .. Len(list) : Heard(list)[i] = <<1, list[i]>>
BY DEF Heard

LEMMA HeardConcat ==
  ASSUME NEW S, NEW p \in Seq(S), NEW r \in Seq(S)
  PROVE  Heard(p \o r) = Heard(p) \o Heard(r)
<1> DEFINE w == p \o r
           a == Heard(w)
           b == Heard(p)
           c == Heard(r)
           U == {1} \X S
<1>1. /\ w \in Seq(S) /\ Len(p) \in Nat /\ Len(r) \in Nat /\ Len(w) = Len(p) + Len(r)
      /\ \A i \in 1 .. Len(p) : w[i] = p[i]
      /\ \A i \in Len(p) + 1 .. Len(p) + Len(r) : w[i] = r[i - Len(p)]
  BY ConcatParts
<1> HIDE DEF w
<1>2. a \in Seq(U) /\ Len(a) = Len(w) /\ \A i \in 1 .. Len(w) : a[i] = <<1, w[i]>>
  BY <1>1, HeardType
<1>3. b \in Seq(U) /\ Len(b) = Len(p) /\ \A i \in 1 .. Len(p) : b[i] = <<1, p[i]>>
  BY HeardType
<1>4. c \in Seq(U) /\ Len(c) = Len(r) /\ \A i \in 1 .. Len(r) : c[i] = <<1, r[i]>>
  BY HeardType
<1> HIDE DEF a, b, c, U
<1>5. /\ b \o c \in Seq(U) /\ Len(b \o c) = Len(b) + Len(c)
      /\ \A i \in 1 .. Len(b) : (b \o c)[i] = b[i]
      /\ \A i \in Len(b) + 1 .. Len(b) + Len(c) : (b \o c)[i] = c[i - Len(b)]
  <2>1. b \in Seq(U) /\ c \in Seq(U)
    BY <1>3, <1>4
  <2>2. \A s, t \in Seq(U) : s \o t \in Seq(U) /\ Len(s \o t) = Len(s) + Len(t)
      /\ (\A i \in 1 .. Len(s) : (s \o t)[i] = s[i])
      /\ \A i \in Len(s) + 1 .. Len(s) + Len(t) : (s \o t)[i] = t[i - Len(s)]
    BY ConcatParts
  <2> QED BY <2>1, <2>2, Zenon
<1>6. ASSUME NEW i \in 1 .. Len(w) PROVE a[i] = (b \o c)[i]
  <2>1. CASE i \in 1 .. Len(p)
    <3>1. a[i] = <<1, w[i]>> /\ w[i] = p[i] /\ b[i] = <<1, p[i]>>
      BY <1>1, <1>2, <1>3, <2>1
    <3>2. (b \o c)[i] = b[i]
      BY <1>3, <1>5, <2>1
    <3> QED BY <3>1, <3>2
  <2>2. CASE i \in Len(p) + 1 .. Len(p) + Len(r)
    <3>1. i - Len(p) \in 1 .. Len(r)
      BY <1>1, <2>2
    <3>2. (b \o c)[i] = c[i - Len(p)]
      BY <1>3, <1>4, <1>5, <2>2
    <3>3. a[i] = <<1, r[i - Len(p)]>> /\ c[i - Len(p)] = <<1, r[i - Len(p)]>>
      BY <1>1, <1>2, <1>4, <2>2, <3>1
    <3> QED BY <3>2, <3>3
  <2>3. Len(p) \in Nat /\ Len(r) \in Nat /\ Len(w) = Len(p) + Len(r)
    BY <1>1
  <2>4. i \in 1 .. Len(p) \/ i \in Len(p) + 1 .. Len(p) + Len(r)
    BY <2>3
  <2> QED BY <2>1, <2>2, <2>4
<1>7. Len(a) = Len(b \o c)
  BY <1>1, <1>2, <1>3, <1>4, <1>5
<1>8. a = b \o c
  <2>1. a \in Seq(U) /\ b \o c \in Seq(U) /\ Len(a) = Len(b \o c)
    BY <1>2, <1>5, <1>7
  <2>2. \A i \in 1 .. Len(a) : a[i] = (b \o c)[i]
    BY <1>2, <1>6
  <2>3. \A x, y \in Seq(U) : Len(x) = Len(y) /\ (\A i \in 1 .. Len(x) : x[i] = y[i]) => x = y
    BY SameSeq
  <2> QED BY <2>1, <2>2, <2>3, Zenon
<1> QED BY <1>8 DEF a, b, c, w

LEMMA NiceInitInv == Nice!Init => NiceInv
<1> SUFFICES ASSUME Nice!Init PROVE NiceInv
  OBVIOUS
<1> USE DEF Nice!Init
<1>1. cands \in [Components -> Seq(Candidates)] /\ niceTold \in Seq(Components \X Usable)
  BY EmptySeq
<1>2. NiceTyped
  BY <1>1 DEF NiceTyped
<1>3. \A c \in Components : cands[c] = <<>> /\ fresh[c] = 0 /\ Len(cands[c]) = 0
  BY EmptySeq
<1>4. CandsSound
  <2>1. 0 <= MaxCands
    BY NiceSensible DEF Nice!Sensible
  <2> QED BY <1>3, <2>1 DEF CandsSound
<1>5. CountSound
  <2> SUFFICES ASSUME Components = {1}
               PROVE  /\ delivered <= Len(cands[1]) /\ (fresh[1] = 0 => delivered = Len(cands[1]))
                      /\ niceTold = Heard(Only(SubSeq(cands[1], 1, delivered), Usable))
    BY DEF CountSound
  <2> DEFINE s == cands[1]
  <2>1. s = <<>> /\ s \in Seq({}) /\ Len(s) = 0 /\ delivered = Len(s)
    BY <1>3, EmptySeq
  <2>2. SubSeq(cands[1], 1, delivered) = s
    BY <2>1, WholeSeq
  <2>3. Only(s, Usable) = <<>>
    BY <2>1, OnlyEmpty
  <2>4. Heard(<<>>) = <<>>
    BY DEF Heard
  <2>5. delivered <= Len(cands[1]) /\ delivered = Len(cands[1])
    BY <2>1
  <2>6. niceTold = Heard(Only(SubSeq(cands[1], 1, delivered), Usable))
    BY <2>1, <2>2, <2>3, <2>4
  <2> QED BY <2>5, <2>6
<1>6. LoopSound
  BY DEF LoopSound
<1> QED BY <1>2, <1>4, <1>5, <1>6 DEF NiceInv

\* A step that leaves the candidates and what was told of them alone.
Quietly ==
  /\ UNCHANGED <<cands, fresh, delivered, niceTold>>
  /\ listener' => listener

LEMMA QuietCands ==
  ASSUME CandsSound, CountSound, Quietly
  PROVE  CandsSound' /\ CountSound'
<1>1. CandsSound'
  BY DEF CandsSound, Quietly
<1>2. CountSound'
  BY DEF CountSound, Quietly, Heard
<1> QED BY <1>1, <1>2

LEMMA NiceOwner ==
  ASSUME NiceInv, niceCrashed = "no",
         Nice!Start \/ Nice!CloseBegin \/ Nice!CloseListener \/ Nice!CloseJoin \/ Nice!CloseFree
  PROVE  NiceInv'
<1> USE DEF Nice!gathered, Nice!closing
<1>1. CASE Nice!Start
  <2>1. NiceTyped' /\ LoopSound' /\ Quietly
    BY <1>1 DEF NiceInv, NiceTyped, LoopSound, Quietly, Nice!Start
  <2> QED BY <2>1, QuietCands DEF NiceInv
<1>2. CASE Nice!CloseBegin
  <2>1. NiceTyped' /\ LoopSound' /\ Quietly
    BY <1>2 DEF NiceInv, NiceTyped, LoopSound, Quietly, Nice!CloseBegin
  <2> QED BY <2>1, QuietCands DEF NiceInv
<1>3. CASE Nice!CloseListener
  <2>1. NiceTyped'
    <3>1. listener' \in BOOLEAN
      BY <1>3, Zenon DEF Nice!CloseListener
    <3>2. nicePhase' = "join"
          /\ UNCHANGED <<bundle, ice, agent, loop, quit, niceLate, cands, fresh, delivered,
                         niceTold, remote, data, due, sending, niceCrashed>>
      BY <1>3 DEF Nice!CloseListener
    <3> QED BY <3>1, <3>2 DEF NiceInv, NiceTyped
  <2>2. LoopSound'
    BY <1>3 DEF NiceInv, NiceTyped, LoopSound, Nice!CloseListener
  <2>3. Quietly
    BY <1>3 DEF Quietly, Nice!CloseListener
  <2> QED BY <2>1, <2>2, <2>3, QuietCands DEF NiceInv
<1>4. CASE Nice!CloseJoin
  <2>1. NiceTyped'
    <3>1. niceLate' \in BOOLEAN
      BY <1>4, Zenon DEF Nice!CloseJoin
    <3>2. nicePhase' = "free"
          /\ UNCHANGED <<bundle, ice, agent, loop, quit, listener, cands, fresh, delivered,
                         niceTold, remote, data, due, sending, niceCrashed>>
      BY <1>4 DEF Nice!CloseJoin
    <3> QED BY <3>1, <3>2 DEF NiceInv, NiceTyped
  <2>2. LoopSound'
    <3>1. CASE loop = "over"
      <4>1. nicePhase' = "free" /\ UNCHANGED <<agent, loop, data, niceCrashed>> /\ nicePhase = "join"
        BY <1>4 DEF Nice!CloseJoin
      <4>2. niceLate' <=> FALSE
        BY <1>4, <3>1, Zenon DEF Nice!CloseJoin
      <4>3. niceCrashed # "loop" /\ data = "no" /\ agent # "none" /\ agent # "freed"
        BY <3>1, <4>1 DEF NiceInv, LoopSound
      <4> QED BY <3>1, <4>1, <4>2, <4>3 DEF LoopSound
    <3>2. CASE loop # "over"
      <4>1. nicePhase' = "free" /\ UNCHANGED <<agent, loop, data, niceCrashed>> /\ nicePhase = "join"
        BY <1>4 DEF Nice!CloseJoin
      <4>2. niceLate'
        BY <1>4, <3>2, Zenon DEF Nice!CloseJoin
      <4> QED BY <4>1, <4>2 DEF NiceInv, LoopSound
    <3> QED BY <3>1, <3>2
  <2>3. Quietly
    BY <1>4 DEF Quietly, Nice!CloseJoin
  <2> QED BY <2>1, <2>2, <2>3, QuietCands DEF NiceInv
<1>5. CASE Nice!CloseFree
  <2>1. NiceTyped' /\ LoopSound' /\ Quietly
    BY <1>5 DEF NiceInv, NiceTyped, LoopSound, Quietly, Nice!CloseFree
  <2> QED BY <2>1, QuietCands DEF NiceInv
<1> QED BY <1>1, <1>2, <1>3, <1>4, <1>5

LEMMA NiceRemote ==
  ASSUME NiceInv, Nice!SetRemoteCandidates
  PROVE  NiceInv'
<1>1. remote' \in SUBSET Remotes
  BY DEF NiceInv, NiceTyped, Nice!SetRemoteCandidates
<1>2. NiceTyped' /\ LoopSound' /\ Quietly
  BY <1>1 DEF NiceInv, NiceTyped, LoopSound, Quietly, Nice!SetRemoteCandidates, Nice!gathered, Nice!closing
<1> QED BY <1>2, QuietCands DEF NiceInv

LEMMA NiceLoop ==
  ASSUME NiceInv, niceCrashed = "no",
         Nice!LoopTest \/ Nice!LoopRun \/ Nice!LoopEnd \/ Nice!DataState \/ Nice!DataListener \/ Nice!DataPass
  PROVE  NiceInv'
<1> USE DEF Nice!gathered, Nice!closing
<1>1. CASE Nice!LoopTest
  <2>1. NiceTyped' /\ LoopSound' /\ Quietly
    BY <1>1 DEF NiceInv, NiceTyped, LoopSound, Quietly, Nice!LoopTest
  <2> QED BY <2>1, QuietCands DEF NiceInv
<1>2. CASE Nice!LoopRun
  <2>1. NiceTyped' /\ LoopSound' /\ Quietly
    BY <1>2 DEF NiceInv, NiceTyped, LoopSound, Quietly, Nice!LoopRun
  <2> QED BY <2>1, QuietCands DEF NiceInv
<1>3. CASE Nice!LoopEnd
  <2>1. NiceTyped' /\ LoopSound' /\ Quietly
    BY <1>3 DEF NiceInv, NiceTyped, LoopSound, Quietly, Nice!LoopEnd
  <2> QED BY <2>1, QuietCands DEF NiceInv
<1>4. CASE Nice!DataState
  <2>1. NiceTyped' /\ LoopSound' /\ Quietly
    BY <1>4 DEF NiceInv, NiceTyped, LoopSound, Quietly, Nice!DataState, Nice!Back
  <2> QED BY <2>1, QuietCands DEF NiceInv
<1>5. CASE Nice!DataListener
  <2>1. NiceTyped' /\ LoopSound' /\ Quietly
    BY <1>5 DEF NiceInv, NiceTyped, LoopSound, Quietly, Nice!DataListener
  <2> QED BY <2>1, QuietCands DEF NiceInv
<1>6. CASE Nice!DataPass
  <2>1. NiceTyped' /\ LoopSound' /\ Quietly
    BY <1>6 DEF NiceInv, NiceTyped, LoopSound, Quietly, Nice!DataPass
  <2> QED BY <2>1, QuietCands DEF NiceInv
<1> QED BY <1>1, <1>2, <1>3, <1>4, <1>5, <1>6

LEMMA NiceWorker ==
  ASSUME NiceInv, niceCrashed = "no",
         Nice!SendTest \/ Nice!Send \/ Nice!GetSelectedPair
           \/ \E s \in {"READY", "FAILED"} : Nice!Changed(s)
  PROVE  NiceInv'
<1> USE DEF Nice!gathered, Nice!closing
<1>1. CASE Nice!SendTest
  <2>1. NiceTyped' /\ LoopSound' /\ Quietly
    BY <1>1 DEF NiceInv, NiceTyped, LoopSound, Quietly, Nice!SendTest
  <2> QED BY <2>1, QuietCands DEF NiceInv
<1>2. CASE Nice!Send
  <2>1. NiceTyped'
    <3>1. sending' \in BOOLEAN
      BY <1>2, Zenon DEF Nice!Send
    <3>2. niceCrashed' \in {"no", "send"}
          /\ UNCHANGED <<bundle, ice, agent, loop, quit, listener, nicePhase, niceLate,
                         cands, fresh, delivered, niceTold, remote, data, due>>
      BY <1>2 DEF Nice!Send
    <3> QED BY <3>1, <3>2 DEF NiceInv, NiceTyped
  <2>2. LoopSound'
    BY <1>2 DEF NiceInv, NiceTyped, LoopSound, Nice!Send
  <2>3. Quietly
    BY <1>2 DEF Quietly, Nice!Send
  <2> QED BY <2>1, <2>2, <2>3, QuietCands DEF NiceInv
<1>3. CASE Nice!GetSelectedPair
  <2>1. NiceTyped'
    <3>1. due' \in BOOLEAN
      BY <1>3, Zenon DEF Nice!GetSelectedPair
    <3>2. niceCrashed' \in {"no", "pair"}
          /\ UNCHANGED <<bundle, ice, agent, loop, quit, listener, nicePhase, niceLate,
                         cands, fresh, delivered, niceTold, remote, data, sending>>
      BY <1>3 DEF Nice!GetSelectedPair
    <3> QED BY <3>1, <3>2 DEF NiceInv, NiceTyped
  <2>2. LoopSound'
    BY <1>3 DEF NiceInv, NiceTyped, LoopSound, Nice!GetSelectedPair
  <2>3. Quietly
    BY <1>3 DEF Quietly, Nice!GetSelectedPair
  <2> QED BY <2>1, <2>2, <2>3, QuietCands DEF NiceInv
<1>4. CASE \E s \in {"READY", "FAILED"} : Nice!Changed(s)
  <2>1. PICK s \in {"READY", "FAILED"} : Nice!Changed(s)
    BY <1>4
  <2>2. NiceTyped' /\ LoopSound' /\ Quietly
    BY <2>1 DEF NiceInv, NiceTyped, LoopSound, Quietly, Nice!Changed
  <2> QED BY <2>2, QuietCands DEF NiceInv
<1> QED BY <1>1, <1>2, <1>3, <1>4

LEMMA NiceFound ==
  ASSUME NiceInv, NEW c \in Components, Nice!Found(c)
  PROVE  NiceInv'
<1>1. PICK x \in Candidates : cands' = [cands EXCEPT ![c] = Append(cands[c], x)]
  BY DEF Nice!Found
<1>2. /\ Len(cands[c]) < MaxCands /\ fresh' = [fresh EXCEPT ![c] = fresh[c] + 1]
      /\ UNCHANGED <<delivered, niceTold, listener>>
  BY DEF Nice!Found, Nice!closing
<1>3. cands \in [Components -> Seq(Candidates)] /\ fresh \in [Components -> Nat] /\ delivered \in Nat
  BY DEF NiceInv, NiceTyped
<1>4. cands[c] \in Seq(Candidates) /\ Append(cands[c], x) \in Seq(Candidates)
      /\ Len(Append(cands[c], x)) = Len(cands[c]) + 1 /\ Len(cands[c]) \in Nat
  BY <1>3, AppendFacts
<1>5. cands' \in [Components -> Seq(Candidates)] /\ fresh' \in [Components -> Nat]
  BY <1>1, <1>2, <1>3, <1>4
<1>6. cands'[c] = Append(cands[c], x) /\ fresh'[c] = fresh[c] + 1
      /\ \A d \in Components \ {c} : cands'[d] = cands[d] /\ fresh'[d] = fresh[d]
  BY <1>1, <1>2, <1>3
<1>7. NiceTyped' /\ LoopSound'
  BY <1>5 DEF NiceInv, NiceTyped, LoopSound, Nice!Found, Nice!closing
<1>8. CandsSound'
  <2> SUFFICES ASSUME NEW d \in Components PROVE fresh'[d] <= Len(cands'[d]) /\ Len(cands'[d]) <= MaxCands
    BY DEF CandsSound
  <2>1. fresh[d] <= Len(cands[d]) /\ Len(cands[d]) <= MaxCands /\ fresh[d] \in Nat
        /\ MaxCands \in Nat
    BY <1>3, NiceSensible DEF NiceInv, CandsSound, Nice!Sensible
  <2>2. CASE d = c
    BY <1>2, <1>4, <1>6, <2>1, <2>2
  <2>3. CASE d # c
    BY <1>6, <2>1, <2>3
  <2> QED BY <2>2, <2>3
<1>9. CountSound'
  <2> SUFFICES ASSUME Components = {1}
               PROVE  /\ delivered' <= Len(cands'[1]) /\ (fresh'[1] = 0 => delivered' = Len(cands'[1]))
                      /\ listener' => niceTold' = Heard(Only(SubSeq(cands'[1], 1, delivered'), Usable))
    BY DEF CountSound, Heard
  <2>1. c = 1 /\ delivered <= Len(cands[1]) /\ delivered \in 0 .. Len(cands[1])
    BY <1>3, <1>4 DEF NiceInv, CountSound
  <2>2. delivered' <= Len(cands'[1]) /\ fresh'[1] # 0
    BY <1>2, <1>3, <1>4, <1>6, <2>1
  <2>3. SubSeq(cands'[1], 1, delivered') = SubSeq(cands[1], 1, delivered)
    <3>1. SubSeq(Append(cands[c], x), 1, delivered) = SubSeq(cands[c], 1, delivered)
      BY <1>4, <2>1, HeadOfAppend
    <3>2. cands'[c] = Append(cands[c], x) /\ delivered' = delivered
      BY <1>2, <1>6
    <3> QED BY <2>1, <3>1, <3>2
  <2>4. listener => niceTold = Heard(Only(SubSeq(cands[1], 1, delivered), Usable))
    BY DEF NiceInv, CountSound
  <2> QED BY <1>2, <2>2, <2>3, <2>4
<1> QED BY <1>7, <1>8, <1>9 DEF NiceInv

LEMMA RestType ==
  ASSUME NEW S, NEW s \in Seq(S), delivered \in Nat
  PROVE  /\ Nice!Rest(s) \in Seq(S)
         /\ delivered <= Len(s) => Nice!Rest(s) = SubSeq(s, delivered + 1, Len(s))
<1>1. delivered <= Len(s) => SubSeq(s, delivered + 1, Len(s)) \in Seq(S)
  BY RestOf
<1> QED BY <1>1 DEF Nice!Rest

LEMMA NiceGet ==
  ASSUME NiceInv, NEW c \in Components, Nice!GetCandidate(c)
  PROVE  NiceInv'
<1> DEFINE new == Nice!Rest(cands[c])
           usable == Only(new, Usable)
           more == [i \in DOMAIN usable |-> <<c, usable[i]>>]
<1>1. /\ fresh[c] > 0 /\ fresh' = [fresh EXCEPT ![c] = fresh[c] - 1] /\ delivered' = delivered + Len(new)
      /\ niceTold' = IF listener THEN niceTold \o more ELSE niceTold
      /\ cands' = cands /\ listener' = listener
  BY SameOnly DEF Nice!GetCandidate, Nice!closing
<1>2. /\ cands \in [Components -> Seq(Candidates)] /\ fresh \in [Components -> Nat] /\ delivered \in Nat
      /\ niceTold \in Seq(Components \X Usable) /\ cands[c] \in Seq(Candidates)
  BY DEF NiceInv, NiceTyped
<1>3. new \in Seq(Candidates)
  BY <1>2, RestType
<1>4. usable \in Seq(Candidates \cap Usable) /\ usable \in Seq(Usable)
  <2>1. usable \in Seq(Candidates \cap Usable)
    BY <1>3, OnlyIn
  <2>2. Candidates \cap Usable = Usable
    BY NiceSensible DEF Nice!Sensible
  <2> QED BY <2>1, <2>2
<1>5. more \in Seq(Components \X Usable)
  <2> HIDE DEF usable
  <2> QED BY <1>4
<1>6. Len(new) \in Nat
  BY <1>3
<1> HIDE DEF more, new
<1>7. niceTold' \in Seq(Components \X Usable) /\ delivered' \in Nat /\ fresh' \in [Components -> Nat]
  <2>1. niceTold \o more \in Seq(Components \X Usable)
    BY <1>2, <1>5, ConcatParts
  <2>2. fresh[c] - 1 \in Nat
    BY <1>1, <1>2
  <2>3. fresh' \in [Components -> Nat]
    BY <1>1, <1>2, <2>2
  <2> QED BY <1>1, <1>2, <1>6, <2>1, <2>3
<1>8. NiceTyped' /\ LoopSound'
  BY <1>7 DEF NiceInv, NiceTyped, LoopSound, Nice!GetCandidate, Nice!closing
<1>9. CandsSound'
  <2> SUFFICES ASSUME NEW d \in Components PROVE fresh'[d] <= Len(cands'[d]) /\ Len(cands'[d]) <= MaxCands
    BY DEF CandsSound
  <2>1. fresh[d] <= Len(cands[d]) /\ Len(cands[d]) <= MaxCands /\ fresh[d] \in Nat /\ Len(cands[d]) \in Nat
    BY <1>2 DEF NiceInv, CandsSound
  <2>2. fresh'[d] <= fresh[d]
    BY <1>1, <1>2, <2>1
  <2>3. fresh'[d] \in Nat
    BY <1>7
  <2> QED BY <1>1, <2>1, <2>2, <2>3
<1>10. CountSound'
  <2> SUFFICES ASSUME Components = {1}
               PROVE  /\ delivered' = Len(cands'[1])
                      /\ listener' => niceTold' = Heard(Only(SubSeq(cands'[1], 1, delivered'), Usable))
    <3>1. ASSUME Components = {1} PROVE Len(cands'[1]) \in Nat
      <4>1. 1 \in Components /\ cands' = cands
        BY <1>1, <3>1
      <4>2. cands[1] \in Seq(Candidates)
        BY <1>2, <4>1
      <4> QED BY <4>1, <4>2
    <3> QED BY <3>1 DEF CountSound, Heard
  <2> DEFINE s == cands[1]
             h == SubSeq(s, 1, delivered)
  <2>1. c = 1 /\ s \in Seq(Candidates) /\ Len(s) \in Nat /\ delivered <= Len(s) /\ delivered \in 0 .. Len(s)
    BY <1>2 DEF NiceInv, CountSound
  <2>2. new = SubSeq(s, delivered + 1, Len(s))
    BY <2>1, RestType DEF new
  <2>3. Len(new) = Len(s) - delivered
    BY <2>1, <2>2, RestOf
  <2>4. delivered' = Len(s)
    BY <1>1, <1>2, <2>1, <2>3
  <2>5. h \in Seq(Candidates) /\ h \o new = s
    BY <2>1, <2>2, HeadOf, HeadAndRest
  <2>6. SubSeq(s, 1, Len(s)) = s
    BY <2>1, WholeSeq
  <2> HIDE DEF s, h
  <2>7. Only(s, Usable) = Only(h, Usable) \o usable
    BY <1>3, <2>5, OnlyConcat
  <2>8. Only(h, Usable) \in Seq(Candidates) /\ usable \in Seq(Candidates)
    BY <1>3, <2>5, OnlyType
  <2>9. Heard(Only(s, Usable)) = Heard(Only(h, Usable)) \o Heard(usable)
    <3> HIDE DEF usable
    <3> QED BY <2>7, <2>8, HeardConcat
  <2>10. Heard(usable) = more
    BY <2>1 DEF more, Heard
  <2>11. listener => niceTold = Heard(Only(h, Usable))
    BY DEF NiceInv, CountSound, s, h
  <2>12. listener => niceTold' = Heard(Only(s, Usable))
    BY <1>1, <2>9, <2>10, <2>11
  <2> QED BY <1>1, <2>4, <2>6, <2>12 DEF s
<1> QED BY <1>8, <1>9, <1>10 DEF NiceInv

LEMMA NiceStepInv ==
  ASSUME NiceInv, [Nice!Next]_(Nice!vars)
  PROVE  NiceInv'
<1>1. CASE UNCHANGED Nice!vars
  <2>1. NiceTyped' /\ LoopSound' /\ Quietly
    BY <1>1 DEF NiceInv, NiceTyped, LoopSound, Quietly, Nice!vars, Nice!gathered, Nice!closing
  <2> QED BY <2>1, QuietCands DEF NiceInv
<1>2. CASE Nice!Next
  <2>1. niceCrashed = "no"
    BY <1>2 DEF Nice!Next
  <2>2. CASE \E c \in Components : Nice!Found(c) \/ Nice!GetCandidate(c)
    BY <2>2, NiceFound, NiceGet
  <2>3. CASE ~\E c \in Components : Nice!Found(c) \/ Nice!GetCandidate(c)
    BY <1>2, <2>1, <2>3, NiceOwner, NiceRemote, NiceLoop, NiceWorker DEF Nice!Next
  <2> QED BY <2>2, <2>3
<1> QED BY <1>1, <1>2

LEMMA NiceInvSound == NiceInv => Nice!TypeOK /\ Nice!Sound
<1> SUFFICES ASSUME NiceInv PROVE Nice!TypeOK /\ Nice!Sound
  OBVIOUS
<1> USE DEF NiceInv
<1>1. cands \in [Components -> Nice!SeqOf(Candidates, MaxCands)]
  <2>1. cands \in [Components -> Seq(Candidates)]
    BY DEF NiceTyped
  <2>2. ASSUME NEW c \in Components PROVE cands[c] \in Nice!SeqOf(Candidates, MaxCands)
    <3>1. cands[c] \in Seq(Candidates) /\ Len(cands[c]) \in Nat /\ Len(cands[c]) <= MaxCands
          /\ MaxCands \in Nat
      BY <2>1, NiceSensible DEF CandsSound, Nice!Sensible
    <3>2. cands[c] \in [1 .. Len(cands[c]) -> Candidates] /\ Len(cands[c]) \in 0 .. MaxCands
      BY <3>1
    <3> QED BY <3>2 DEF Nice!SeqOf
  <2> QED BY <2>1, <2>2
<1>2. fresh \in [Components -> 0 .. MaxCands]
  <2>1. fresh \in [Components -> Nat] /\ cands \in [Components -> Seq(Candidates)]
    BY DEF NiceTyped
  <2>2. ASSUME NEW c \in Components PROVE fresh[c] \in 0 .. MaxCands
    <3>1. fresh[c] \in Nat /\ Len(cands[c]) \in Nat /\ MaxCands \in Nat
          /\ fresh[c] <= Len(cands[c]) /\ Len(cands[c]) <= MaxCands
      BY <2>1, NiceSensible DEF CandsSound, Nice!Sensible
    <3> QED BY <3>1
  <2> QED BY <2>1, <2>2
<1>3. \A i \in DOMAIN niceTold : niceTold[i] \in Components \X Usable
  <2>1. niceTold \in Seq(Components \X Usable)
    BY DEF NiceTyped
  <2> DEFINE U == Components \X Usable
  <2>2. niceTold \in Seq(U)
    BY <2>1
  <2> HIDE DEF U
  <2>3. \A i \in DOMAIN niceTold : niceTold[i] \in U
    BY <2>2
  <2> QED BY <2>3 DEF U
<1>4. Nice!TypeOK
  BY <1>1, <1>2, <1>3 DEF NiceTyped, Nice!TypeOK
<1>5. Nice!NewOnly
  BY SameOnly DEF CountSound, Nice!NewOnly, Heard
<1>6. Nice!ClosedIsQuiet
  BY DEF LoopSound, Nice!ClosedIsQuiet
<1> QED BY <1>4, <1>5, <1>6 DEF Nice!Sound

-----------------------------------------------------------------------------
(* The external input.                                                     *)

Frame == [asked : 1..MaxRead, frame : 1..MaxRead, size : 1..MaxSize]

InputTyped ==
  /\ vp8 \in BOOLEAN /\ running \in BOOLEAN
  /\ phase \in {"new", "started", "open", "closing", "gone"}
  /\ reader \in {"no", "loop", "over"} /\ encoder \in {"no", "loop", "over"}
  /\ read \in 0..MaxRead /\ buffer \in 0..MaxRead /\ queue \in Seq(1..MaxRead)
  /\ sent \in Seq(Frame)
  /\ seqnum \in [Input!Medium -> Nat]
  /\ out \in Seq(Input!Packet)

\* The encoder runs only if there is something to encode, and nothing after the
\* destructor.
ThreadsSound ==
  /\ vp8 => encoder = "no"
  /\ phase = "gone" => reader = "over" /\ encoder # "loop"

\* What waits for the encoder is newer than what went out, and not newer than the
\* buffer.
TurnSound ==
  /\ buffer <= read /\ (vp8 => queue = <<>>)
  /\ \A i, j \in 1..Len(queue) : i < j => queue[i] < queue[j]
  /\ \A i \in 1..Len(queue) : queue[i] <= buffer
  /\ \A i \in 1..Len(sent) :
       /\ sent[i].asked <= sent[i].frame /\ sent[i].asked <= read
       /\ sent[i].frame <= (IF vp8 THEN read ELSE buffer)
       /\ \A j \in 1..Len(queue) : sent[i].asked < queue[j]
  /\ \A i, j \in 1..Len(sent) :
       i < j => sent[i].frame <= sent[j].frame /\ sent[i].asked < sent[j].asked

\* How many of the first n packets of s are of a medium.
Count(s, n, m) == Cardinality({j \in 1..n : s[j].m = m})

\* The counters count what went out.
NumbersSound ==
  /\ \A m \in Input!Medium : seqnum[m] = Count(out, Len(out), m)
  /\ \A i \in 1..Len(out) : out[i].num = Count(out, i - 1, out[i].m) % SeqMod

\* A fragment is of a frame that was packed, and the frames are whole.
FramesSound ==
  /\ \A i \in 1..Len(out) : out[i].m = "video" => out[i].of \in 1..Len(sent)
  /\ \A k \in 1..Len(sent) : Input!Whole(k)

InputInv == InputTyped /\ ThreadsSound /\ TurnSound /\ NumbersSound /\ FramesSound

LEMMA InputConstants ==
  /\ MaxRead \in Nat /\ MaxSize \in Nat /\ Part \in Nat \ {0} /\ SeqMod \in Nat \ {0}
BY InputSensible DEF Input!Sensible

LEMMA DivMod ==
  ASSUME NEW a \in Nat, NEW b \in Nat \ {0}
  PROVE  /\ a \div b \in Nat /\ a % b \in 0..(b - 1)
         /\ (a \div b) * b <= a /\ a < (a \div b) * b + b
OBVIOUS

LEMMA TimesOrder ==
  ASSUME NEW a \in Nat, NEW b \in Nat, NEW c \in Nat, a <= b
  PROVE  a * c <= b * c
<1>1. PICK d \in Nat : b = a + d
  <2>1. b - a \in Nat /\ b = a + (b - a)
    OBVIOUS
  <2> QED BY <2>1
<1>2. b * c = a * c + d * c /\ d * c \in Nat /\ a * c \in Nat
  BY <1>1
<1> QED BY <1>2

\* A frame is cut into full fragments and what remains.
LEMMA CutFacts ==
  ASSUME NEW size \in Nat \ {0}
  PROVE  \E n \in Nat \ {0} :
           /\ Input!Cut(size) \in Seq(1..Part) /\ Len(Input!Cut(size)) = n
           /\ \A i \in 1..n : i # n => Input!Cut(size)[i] = Part
           /\ (n - 1) * Part + Input!Cut(size)[n] = size
<1> DEFINE n == (size + Part - 1) \div Part
           a == size + Part - 1
<1>1. Part \in Nat \ {0} /\ a \in Nat /\ a = size + Part - 1
  BY InputConstants
<1> HIDE DEF a
<1>2. n \in Nat /\ n * Part <= a /\ a < n * Part + Part
  BY <1>1, DivMod DEF a
<1> HIDE DEF n
<1>3. n # 0
  <2>1. n = 0 => n * Part = 0
    BY <1>1
  <2> QED BY <1>1, <1>2, <2>1
<1>4. n - 1 \in Nat /\ (n - 1) * Part = n * Part - Part /\ n * Part \in Nat /\ (n - 1) * Part \in Nat
  BY <1>1, <1>2, <1>3
<1>5. (n - 1) * Part < size /\ size <= n * Part
  BY <1>1, <1>2, <1>4
<1>6. Input!Cut(size) = [i \in 1..n |-> IF Input!Remaining(size, i) > Part THEN Part
                                          ELSE Input!Remaining(size, i)]
  BY DEF Input!Cut, n
<1>7. ASSUME NEW i \in 1..n, i # n
      PROVE  Input!Cut(size)[i] = Part
  <2>1. i \in Nat /\ n - 1 \in Nat /\ i <= n - 1 /\ i - 1 \in Nat
    BY <1>2, <1>7
  <2>2. i * Part <= (n - 1) * Part
    BY <1>1, <2>1, TimesOrder
  <2>3. (i - 1) * Part = i * Part - Part /\ i * Part \in Nat
    BY <1>1, <2>1
  <2>4. Input!Remaining(size, i) > Part
    BY <1>1, <1>4, <1>5, <2>2, <2>3 DEF Input!Remaining
  <2> QED BY <1>6, <2>4
<1>8. Input!Cut(size)[n] = size - (n - 1) * Part /\ size - (n - 1) * Part \in 1..Part
  <2>1. n \in 1..n
    BY <1>2, <1>3
  <2>2. Input!Remaining(size, n) = size - (n - 1) * Part
    BY DEF Input!Remaining
  <2>3. size - (n - 1) * Part \in 1..Part
    BY <1>1, <1>4, <1>5
  <2> QED BY <1>1, <1>6, <2>1, <2>2, <2>3
<1>9. Input!Cut(size) \in Seq(1..Part) /\ Len(Input!Cut(size)) = n
  <2> DEFINE c == Input!Cut(size)
             P == 1..Part
  <2>1. \A i \in 1..n : c[i] \in P
    BY <1>1, <1>7, <1>8
  <2>2. c = [i \in 1..n |-> c[i]]
    BY <1>6
  <2> HIDE DEF c, P
  <2>3. c \in [1..n -> P]
    BY <2>1, <2>2
  <2>4. c \in Seq(P) /\ Len(c) = n
    BY <1>2, <2>3
  <2> QED BY <2>4 DEF c, P
<1>10. (n - 1) * Part + Input!Cut(size)[n] = size
  BY <1>4, <1>8
<1> QED BY <1>2, <1>3, <1>7, <1>9, <1>10

-----------------------------------------------------------------------------
(* Packets are numbered one after the other.                               *)

LEMMA CountSet ==
  ASSUME NEW s, NEW n \in Nat, NEW m
  PROVE  IsFiniteSet({j \in 1..n : s[j].m = m}) /\ Count(s, n, m) \in Nat
<1>1. IsFiniteSet(1..n)
  BY FS_Interval
<1>2. {j \in 1..n : s[j].m = m} \subseteq 1..n
  OBVIOUS
<1>3. IsFiniteSet({j \in 1..n : s[j].m = m})
  BY <1>1, <1>2, FS_Subset
<1> QED BY <1>3, FS_CardinalityType DEF Count

\* What comes after n packets of which some are of m, if it is all of m.
LEMMA CountOn ==
  ASSUME NEW s, NEW m, NEW n \in Nat, NEW k \in Nat, \A j \in n + 1..n + k : s[j].m = m
  PROVE  Count(s, n + k, m) = Count(s, n, m) + k
<1> DEFINE A == {j \in 1..n : s[j].m = m}
           B == n + 1..n + k
           C == {j \in 1..n + k : s[j].m = m}
<1>1. C = A \cup B /\ A \cap B = {}
  OBVIOUS
<1>2. IsFiniteSet(A) /\ Cardinality(A) = Count(s, n, m) /\ Count(s, n, m) \in Nat
  <2>1. IsFiniteSet(A) /\ Count(s, n, m) \in Nat
    BY CountSet
  <2> QED BY <2>1 DEF Count
<1>3. IsFiniteSet(B) /\ Cardinality(B) = k
  <2>1. n + 1 \in Int /\ n + k \in Int
    OBVIOUS
  <2>2. IsFiniteSet(B) /\ Cardinality(B) = IF n + 1 > n + k THEN 0 ELSE (n + k) - (n + 1) + 1
    BY <2>1, FS_Interval
  <2> QED BY <2>2
<1>4. A \cap B = {} /\ Cardinality({}) = 0
  BY <1>1, FS_EmptySet
<1> HIDE DEF A, B
<1>5. Cardinality(A \cup B) = Cardinality(A) + Cardinality(B) - Cardinality(A \cap B)
  BY <1>2, <1>3, FS_Union
<1>6. Cardinality(C) = Count(s, n, m) + k
  <2>1. Cardinality(A \cap B) = 0
    BY <1>4
  <2> HIDE DEF C
  <2> QED BY <1>1, <1>2, <1>3, <1>5, <2>1
<1> QED BY <1>6 DEF Count

\* Only what is of the medium counts.
LEMMA CountSkip ==
  ASSUME NEW s, NEW m, NEW n \in Nat, NEW k \in Nat, \A j \in n + 1..n + k : s[j].m # m
  PROVE  Count(s, n + k, m) = Count(s, n, m)
<1>1. {j \in 1..n + k : s[j].m = m} = {j \in 1..n : s[j].m = m}
  OBVIOUS
<1> QED BY <1>1 DEF Count

LEMMA CountSame ==
  ASSUME NEW s, NEW t, NEW m, NEW n \in Nat, \A j \in 1..n : s[j].m = t[j].m
  PROVE  Count(s, n, m) = Count(t, n, m)
<1>1. {j \in 1..n : s[j].m = m} = {j \in 1..n : t[j].m = m}
  OBVIOUS
<1> QED BY <1>1 DEF Count

\* Packets of a medium that take the next numbers.
LEMMA NumbersGoOn ==
  ASSUME InputTyped, NumbersSound,
         NEW fr \in Seq(Input!Packet), NEW m \in Input!Medium,
         \A i \in 1..Len(fr) : fr[i].m = m /\ fr[i].num = (seqnum[m] + i - 1) % SeqMod,
         out' = out \o fr, seqnum' = [seqnum EXCEPT ![m] = seqnum[m] + Len(fr)]
  PROVE  out' \in Seq(Input!Packet) /\ seqnum' \in [Input!Medium -> Nat] /\ NumbersSound'
<1> DEFINE n == Len(out)
           k == Len(fr)
           w == out \o fr
<1>1. out \in Seq(Input!Packet) /\ seqnum \in [Input!Medium -> Nat]
  BY DEF InputTyped
<1>2. /\ w \in Seq(Input!Packet) /\ n \in Nat /\ k \in Nat /\ Len(w) = n + k
      /\ \A i \in 1..n : w[i] = out[i]
      /\ \A i \in n + 1..n + k : w[i] = fr[i - n]
  <2> DEFINE P == Input!Packet
  <2> HIDE DEF P
  <2>1. out \in Seq(P) /\ fr \in Seq(P)
    BY <1>1 DEF P
  <2>2. /\ w \in Seq(P) /\ n \in Nat /\ k \in Nat /\ Len(w) = n + k
        /\ \A i \in 1..n : w[i] = out[i]
        /\ \A i \in n + 1..n + k : w[i] = fr[i - n]
    BY <2>1, ConcatParts
  <2> QED BY <2>2 DEF P
<1>3. out' = w
  OBVIOUS
<1> HIDE DEF w, n, k
<1>4. \A i \in n + 1..n + k : i - n \in 1..k
  BY <1>2
<1>5. \A i \in n + 1..n + k : w[i].m = m /\ w[i].num = (seqnum[m] + (i - n) - 1) % SeqMod
  BY <1>2, <1>4 DEF k
<1>6. \A x, d : d \in 0..n => Count(w, d, x) = Count(out, d, x)
  <2> SUFFICES ASSUME NEW x, NEW d \in 0..n PROVE Count(w, d, x) = Count(out, d, x)
    OBVIOUS
  <2>1. d \in Nat /\ \A j \in 1..d : j \in 1..n
    BY <1>2
  <2>2. \A j \in 1..d : w[j].m = out[j].m
    BY <1>2, <2>1
  <2> QED BY <2>1, <2>2, CountSame
<1>7. n \in 0..n /\ seqnum[m] = Count(out, n, m) /\ seqnum[m] \in Nat
  BY <1>1, <1>2 DEF NumbersSound, n
<1>8. ASSUME NEW x \in Input!Medium PROVE seqnum'[x] = Count(w, n + k, x)
  <2>1. CASE x = m
    <3>1. Count(w, n + k, m) = Count(w, n, m) + k
      BY <1>2, <1>5, CountOn
    <3>2. seqnum'[m] = seqnum[m] + k
      BY <1>1 DEF k
    <3> QED BY <1>6, <1>7, <2>1, <3>1, <3>2
  <2>2. CASE x # m
    <3>1. \A j \in n + 1..n + k : w[j].m # x
      BY <1>5, <2>2
    <3>2. Count(w, n + k, x) = Count(w, n, x)
      BY <1>2, <3>1, CountSkip
    <3>3. seqnum'[x] = seqnum[x] /\ seqnum[x] = Count(out, n, x)
      BY <1>1, <2>2 DEF NumbersSound, n
    <3> QED BY <1>6, <1>7, <3>2, <3>3
  <2> QED BY <2>1, <2>2
<1>9. ASSUME NEW i \in 1..n + k PROVE w[i].num = Count(w, i - 1, w[i].m) % SeqMod
  <2>1. CASE i \in 1..n
    <3>1. w[i] = out[i] /\ i - 1 \in 0..n
      BY <1>2, <2>1
    <3>2. out[i].num = Count(out, i - 1, out[i].m) % SeqMod
      BY <2>1 DEF NumbersSound, n
    <3>3. Count(w, i - 1, out[i].m) = Count(out, i - 1, out[i].m)
      BY <1>6, <3>1
    <3> QED BY <3>1, <3>2, <3>3
  <2>2. CASE i \in n + 1..n + k
    <3> DEFINE d == i - n - 1
    <3>1. d \in Nat /\ n + d = i - 1 /\ \A j \in n + 1..n + d : j \in n + 1..n + k
      BY <1>2, <2>2
    <3>2. w[i].m = m /\ w[i].num = (seqnum[m] + (i - n) - 1) % SeqMod
      BY <1>5, <2>2
    <3> HIDE DEF d
    <3>3. Count(w, n + d, m) = Count(w, n, m) + d
      BY <1>2, <1>5, <3>1, CountOn
    <3>4. Count(w, i - 1, m) = seqnum[m] + d
      BY <1>6, <1>7, <3>1, <3>3
    <3>5. seqnum[m] + (i - n) - 1 = seqnum[m] + d
      BY <1>2, <1>7, <2>2 DEF d
    <3> QED BY <3>2, <3>4, <3>5
  <2>3. i \in 1..n \/ i \in n + 1..n + k
    BY <1>2
  <2> QED BY <2>1, <2>2, <2>3
<1>10. seqnum' \in [Input!Medium -> Nat]
  <2>1. seqnum[m] + Len(fr) \in Nat
    BY <1>2, <1>7 DEF k
  <2> QED BY <1>1, <2>1
<1>11. Len(out') = n + k
  BY <1>2, <1>3
<1>12. NumbersSound'
  <2>1. \A x \in Input!Medium : seqnum'[x] = Count(out', Len(out'), x)
    BY <1>3, <1>8, <1>11
  <2>2. \A i \in 1..Len(out') : out'[i].num = Count(out', i - 1, out'[i].m) % SeqMod
    BY <1>3, <1>9, <1>11
  <2> QED BY <2>1, <2>2 DEF NumbersSound, Count
<1> QED BY <1>2, <1>3, <1>10, <1>12

-----------------------------------------------------------------------------
(* Frames go out whole.                                                    *)

\* The fragments of a frame that is packed next.
LEMMA FragmentFacts ==
  ASSUME InputTyped, NEW k \in Nat, NEW size \in Nat \ {0}
  PROVE  LET fr == Input!Fragments(k, Input!Cut(size)) IN
         /\ fr \in Seq(Input!Packet) /\ Len(fr) = Len(Input!Cut(size)) /\ Len(fr) \in Nat \ {0}
         /\ \A i \in 1..Len(fr) :
              /\ fr[i].m = "video" /\ fr[i].of = k
              /\ fr[i].num = (seqnum["video"] + i - 1) % SeqMod
              /\ fr[i].first = (i = 1) /\ fr[i].last = (i = Len(fr)) /\ fr[i].size \in 1..Part
              /\ i # Len(fr) => fr[i].size = Part
         /\ (Len(fr) - 1) * Part + fr[Len(fr)].size = size
<1> DEFINE c == Input!Cut(size)
           fr == Input!Fragments(k, c)
<1>1. PICK n \in Nat \ {0} :
        /\ c \in Seq(1..Part) /\ Len(c) = n
        /\ \A i \in 1..n : i # n => c[i] = Part
        /\ (n - 1) * Part + c[n] = size
  BY CutFacts
<1>2. Part \in Nat \ {0} /\ SeqMod \in Nat \ {0}
  BY InputConstants
<1>3. "video" \in Input!Medium /\ seqnum["video"] \in Nat
  BY DEF Input!Medium, InputTyped
<1> HIDE DEF c
<1> DEFINE P(i) == [m |-> "video", of |-> k, num |-> (seqnum["video"] + i - 1) % SeqMod,
                    first |-> (i = 1), last |-> (i = n), size |-> c[i]]
<1>4. DOMAIN c = 1..n
  BY <1>1
<1>5. fr = [i \in 1..n |-> P(i)]
  BY <1>1, <1>4 DEF Input!Fragments, Input!WriteFragment, Input!GetPacket
<1>6. \A i \in 1..n : c[i] \in 1..Part /\ c[i] \in Nat
  <2> DEFINE Q == 1..Part
  <2>1. c \in Seq(Q) /\ Len(c) = n
    BY <1>1
  <2> HIDE DEF Q
  <2>2. \A i \in 1..n : c[i] \in Q
    BY <2>1
  <2> QED BY <1>2, <2>2 DEF Q
<1>7. ASSUME NEW i \in 1..n PROVE P(i) \in Input!Packet
  <2>1. seqnum["video"] + i - 1 \in Nat
    BY <1>1, <1>3
  <2>2. (seqnum["video"] + i - 1) % SeqMod \in 0..(SeqMod - 1)
    BY <1>2, <2>1, DivMod
  <2> QED BY <1>3, <1>6, <2>2 DEF Input!Packet
<1> HIDE DEF fr
<1>8. fr \in Seq(Input!Packet) /\ Len(fr) = n
  <2> DEFINE Q == Input!Packet
  <2>1. \A i \in 1..n : P(i) \in Q
    BY <1>7
  <2> HIDE DEF Q, P
  <2>2. fr \in [1..n -> Q]
    BY <1>5, <2>1
  <2>3. fr \in Seq(Q) /\ Len(fr) = n
    BY <1>5, <2>2
  <2> QED BY <2>3 DEF Q
<1>9. \A i \in 1..n : fr[i] = P(i)
  BY <1>5
<1>10. \A i \in 1..n :
         /\ fr[i].m = "video" /\ fr[i].of = k /\ fr[i].num = (seqnum["video"] + i - 1) % SeqMod
         /\ fr[i].first = (i = 1) /\ fr[i].last = (i = n) /\ fr[i].size = c[i]
  <2> SUFFICES ASSUME NEW i \in 1..n
               PROVE  /\ fr[i].m = "video" /\ fr[i].of = k
                      /\ fr[i].num = (seqnum["video"] + i - 1) % SeqMod
                      /\ fr[i].first = (i = 1) /\ fr[i].last = (i = n) /\ fr[i].size = c[i]
    OBVIOUS
  <2> DEFINE a == (seqnum["video"] + i - 1) % SeqMod
             f == i = 1
             l == i = n
  <2>1. fr[i] = [m |-> "video", of |-> k, num |-> a, first |-> f, last |-> l, size |-> c[i]]
    BY <1>9
  <2> HIDE DEF a, f, l
  <2>2. /\ fr[i].m = "video" /\ fr[i].of = k /\ fr[i].num = a
        /\ fr[i].first = f /\ fr[i].last = l /\ fr[i].size = c[i]
    BY <2>1
  <2> QED BY <2>2 DEF a, f, l
<1>11. n \in 1..n
  BY <1>1
<1>12. (n - 1) * Part + fr[n].size = size
  BY <1>1, <1>10, <1>11
<1> HIDE DEF P
<1>13. /\ \A i \in 1..n : fr[i].size \in 1..Part
       /\ \A i \in 1..n : i # n => fr[i].size = Part
  <2>1. \A i \in 1..n : fr[i].size = c[i]
    BY <1>10
  <2>2. \A i \in 1..n : c[i] \in 1..Part /\ (i # n => c[i] = Part)
    BY <1>1, <1>6
  <2> QED BY <2>1, <2>2
<1> QED BY <1>1, <1>8, <1>10, <1>12, <1>13 DEF fr, c

Is(s, i, k) == s[i].m = "video" /\ s[i].of = k
PartsOf(s, k) == {i \in 1..Len(s) : Is(s, i, k)}

\* The fragment r at i, of the fragments P of a frame of that size.
PartIn(r, i, P, size) ==
  /\ r.size \in 1..Part
  /\ r.first = (\A j \in P : i <= j)
  /\ r.last = (\A j \in P : j <= i)
  /\ IF r.last THEN (Cardinality(P) - 1) * Part + r.size = size ELSE r.size = Part

\* The fragments P of s are a frame of that size.
WholeIn(s, P, size) == P # {} /\ \A i \in P : PartIn(s[i], i, P, size)

LEMMA WholeIs ==
  ASSUME InputTyped, NEW k
  PROVE  Input!Whole(k) <=> WholeIn(out, PartsOf(out, k), sent[k].size)
<1>1. DOMAIN out = 1..Len(out)
  BY DEF InputTyped
<1>2. Input!Parts(k) = PartsOf(out, k)
  BY <1>1 DEF Input!Parts, PartsOf, Is
<1> QED BY <1>2 DEF Input!Whole, WholeIn, PartIn, Input!Cardinality, Cardinality

\* What follows does not touch the frames before.
LEMMA WholeStays ==
  ASSUME NEW S, NEW s \in Seq(S), NEW t \in Seq(S), NEW k, NEW size,
         \A i \in 1..Len(t) : ~Is(t, i, k),
         WholeIn(s, PartsOf(s, k), size)
  PROVE  WholeIn(s \o t, PartsOf(s \o t, k), size)
<1> DEFINE w == s \o t
<1>1. /\ w \in Seq(S) /\ Len(s) \in Nat /\ Len(t) \in Nat /\ Len(w) = Len(s) + Len(t)
      /\ \A i \in 1..Len(s) : w[i] = s[i]
      /\ \A i \in Len(s) + 1..Len(s) + Len(t) : w[i] = t[i - Len(s)]
  BY ConcatParts
<1> HIDE DEF w
<1>2. ASSUME NEW i \in 1..Len(w) PROVE Is(w, i, k) <=> i \in 1..Len(s) /\ Is(s, i, k)
  <2>1. CASE i \in 1..Len(s)
    BY <1>1, <2>1 DEF Is
  <2>2. CASE i \in Len(s) + 1..Len(s) + Len(t)
    <3>1. i - Len(s) \in 1..Len(t) /\ i \notin 1..Len(s)
      BY <1>1, <2>2
    <3>2. w[i] = t[i - Len(s)]
      BY <1>1, <2>2
    <3> QED BY <3>1, <3>2 DEF Is
  <2>3. Len(s) \in Nat /\ Len(t) \in Nat /\ Len(w) = Len(s) + Len(t)
    BY <1>1
  <2>4. i \in 1..Len(s) \/ i \in Len(s) + 1..Len(s) + Len(t)
    BY <2>3
  <2> QED BY <2>1, <2>2, <2>4
<1>3. \A i \in 1..Len(s) : i \in 1..Len(w)
  <2>1. Len(s) \in Nat /\ Len(t) \in Nat /\ Len(w) = Len(s) + Len(t)
    BY <1>1
  <2> QED BY <2>1
<1>4. PartsOf(w, k) = PartsOf(s, k)
  BY <1>2, <1>3 DEF PartsOf
<1>5. \A i \in PartsOf(s, k) : w[i] = s[i]
  BY <1>1 DEF PartsOf
<1>6. WholeIn(w, PartsOf(s, k), size)
  <2> DEFINE P == PartsOf(s, k)
  <2> HIDE DEF P
  <2>1. P # {} /\ \A i \in P : PartIn(s[i], i, P, size)
    BY DEF WholeIn, P
  <2>2. \A i \in P : w[i] = s[i]
    BY <1>5 DEF P
  <2>3. WholeIn(w, P, size)
    BY <2>1, <2>2 DEF WholeIn
  <2> QED BY <2>3 DEF P
<1> QED BY <1>4, <1>6 DEF w

\* A frame is whole when its fragments follow at once.
LEMMA WholeNew ==
  ASSUME NEW S, NEW s \in Seq(S), NEW t \in Seq(S), NEW k, NEW size,
         \A i \in 1..Len(s) : ~Is(s, i, k),
         \A i \in 1..Len(t) : Is(t, i, k),
         \A i \in 1..Len(t) :
           /\ t[i].first = (i = 1) /\ t[i].last = (i = Len(t)) /\ t[i].size \in 1..Part
           /\ i # Len(t) => t[i].size = Part,
         Len(t) # 0, (Len(t) - 1) * Part + t[Len(t)].size = size
  PROVE  WholeIn(s \o t, PartsOf(s \o t, k), size)
<1> DEFINE w == s \o t
           n == Len(s)
           l == Len(t)
           P == n + 1..n + l
<1>1. /\ w \in Seq(S) /\ n \in Nat /\ l \in Nat /\ Len(w) = n + l
      /\ \A i \in 1..n : w[i] = s[i]
      /\ \A i \in P : w[i] = t[i - n]
  BY ConcatParts
<1>2. l # 0 /\ (l - 1) * Part + t[l].size = size
  OBVIOUS
<1>3. \A i \in 1..l : /\ Is(t, i, k) /\ t[i].first = (i = 1) /\ t[i].last = (i = l)
                      /\ t[i].size \in 1..Part /\ (i # l => t[i].size = Part)
  OBVIOUS
<1>4. \A i \in 1..n : ~Is(s, i, k)
  OBVIOUS
<1> HIDE DEF w, n, l
<1>5. \A i \in P : i - n \in 1..l
  BY <1>1
<1>6. ASSUME NEW i \in P PROVE Is(w, i, k)
  <2>1. w[i] = t[i - n] /\ Is(t, i - n, k)
    BY <1>1, <1>3, <1>5
  <2> QED BY <2>1, Zenon DEF Is
<1>7. \A i \in 1..n : ~Is(w, i, k)
  <2>1. \A i \in 1..n : w[i] = s[i]
    BY <1>1
  <2> QED BY <1>4, <2>1, Zenon DEF Is
<1>8. PartsOf(w, k) = P
  <2>1. n \in Nat /\ l \in Nat /\ Len(w) = n + l
    BY <1>1
  <2>2. \A i \in 1..Len(w) : i \in 1..n \/ i \in P
    BY <2>1
  <2>3. \A i \in P : i \in 1..Len(w)
    BY <2>1
  <2> HIDE DEF P
  <2> QED BY <1>6, <1>7, <2>2, <2>3 DEF PartsOf
<1>9. IsFiniteSet(P) /\ Cardinality(P) = l
  <2>1. n + 1 \in Int /\ n + l \in Int
    BY <1>1
  <2>2. IsFiniteSet(P) /\ Cardinality(P) = IF n + 1 > n + l THEN 0 ELSE (n + l) - (n + 1) + 1
    BY <2>1, FS_Interval
  <2> QED BY <1>1, <1>2, <2>2
<1>10. ASSUME NEW i \in P PROVE PartIn(w[i], i, P, size)
  <2>1. i - n \in 1..l /\ w[i] = t[i - n]
    BY <1>1, <1>5
  <2>0. /\ n \in Nat /\ l \in Nat /\ l # 0 /\ i \in Nat
        /\ n + 1 <= i /\ i <= n + l /\ n + 1 \in P /\ n + l \in P
    BY <1>1, <1>2
  <2>2. (i - n = 1) <=> (\A j \in P : i <= j)
    <3>1. CASE i - n = 1
      <4>1. i = n + 1
        BY <2>0, <3>1
      <4>2. \A j \in P : i <= j
        BY <2>0, <4>1
      <4> QED BY <3>1, <4>2
    <3>2. CASE i - n # 1
      <4>1. ~(i <= n + 1)
        BY <2>0, <3>2
      <4> QED BY <2>0, <3>2, <4>1
    <3> QED BY <3>1, <3>2
  <2>3. (i - n = l) <=> (\A j \in P : j <= i)
    <3>1. CASE i - n = l
      <4>1. i = n + l
        BY <2>0, <3>1
      <4>2. \A j \in P : j <= i
        BY <2>0, <4>1
      <4> QED BY <3>1, <4>2
    <3>2. CASE i - n # l
      <4>1. ~(n + l <= i)
        BY <2>0, <3>2
      <4> QED BY <2>0, <3>2, <4>1
    <3> QED BY <3>1, <3>2
  <2>4. /\ w[i].first = (i - n = 1) /\ w[i].last = (i - n = l)
        /\ w[i].size \in 1..Part /\ (i - n # l => w[i].size = Part)
    BY <1>3, <2>1
  <2>5. w[i].first = (\A j \in P : i <= j) /\ w[i].last = (\A j \in P : j <= i)
    <3> HIDE DEF P
    <3> QED BY <2>2, <2>3, <2>4, Zenon
  <2>6. CASE i - n = l
    <3>1. w[i].last /\ w[i].size = t[l].size
      BY <2>1, <2>4, <2>6
    <3> HIDE DEF P
    <3> QED BY <1>2, <1>9, <2>4, <2>5, <3>1 DEF PartIn
  <2>7. CASE i - n # l
    <3>1. ~w[i].last /\ w[i].size = Part
      BY <2>4, <2>7
    <3> HIDE DEF P
    <3> QED BY <2>4, <2>5, <3>1 DEF PartIn
  <2> QED BY <2>6, <2>7
<1>11. P # {}
  <2>1. n + 1 \in P
    BY <1>1, <1>2
  <2> QED BY <2>1
<1> HIDE DEF P
<1>12. WholeIn(w, P, size)
  BY <1>10, <1>11 DEF WholeIn
<1> QED BY <1>8, <1>12 DEF w

-----------------------------------------------------------------------------
(* The steps of the external input.                                        *)

\* Packets that are of no frame leave the frames as they were.
LEMMA FramesStay ==
  ASSUME InputTyped, FramesSound,
         NEW fr \in Seq(Input!Packet), NEW N, N \cap 1..Len(sent) = {},
         \A i \in 1..Len(fr) : fr[i].m = "video" => fr[i].of \in N
  PROVE  LET w == out \o fr IN
         /\ \A k \in 1..Len(sent) : WholeIn(w, PartsOf(w, k), sent[k].size)
         /\ \A i \in 1..Len(w) : w[i].m = "video" => w[i].of \in 1..Len(sent) \cup N
<1> DEFINE P == Input!Packet
           w == out \o fr
<1>1. out \in Seq(P) /\ fr \in Seq(P)
  BY DEF InputTyped
<1> HIDE DEF P
<1>2. /\ w \in Seq(P) /\ Len(out) \in Nat /\ Len(fr) \in Nat /\ Len(w) = Len(out) + Len(fr)
      /\ \A i \in 1..Len(out) : w[i] = out[i]
      /\ \A i \in Len(out) + 1..Len(out) + Len(fr) : w[i] = fr[i - Len(out)]
  BY <1>1, ConcatParts
<1>3. ASSUME NEW k \in 1..Len(sent) PROVE WholeIn(w, PartsOf(w, k), sent[k].size)
  <2>1. \A i \in 1..Len(fr) : ~Is(fr, i, k)
    BY <1>3 DEF Is
  <2>2. WholeIn(out, PartsOf(out, k), sent[k].size)
    BY <1>3, WholeIs DEF FramesSound
  <2> QED BY <1>1, <2>1, <2>2, WholeStays
<1> HIDE DEF w
<1>4. ASSUME NEW i \in 1..Len(w), w[i].m = "video" PROVE w[i].of \in 1..Len(sent) \cup N
  <2>1. CASE i \in 1..Len(out)
    BY <1>2, <1>4, <2>1 DEF FramesSound
  <2>2. CASE i \in Len(out) + 1..Len(out) + Len(fr)
    <3>1. i - Len(out) \in 1..Len(fr) /\ w[i] = fr[i - Len(out)]
      BY <1>2, <2>2
    <3> QED BY <1>4, <3>1
  <2>3. i \in 1..Len(out) \/ i \in Len(out) + 1..Len(out) + Len(fr)
    <3>1. Len(out) \in Nat /\ Len(fr) \in Nat /\ Len(w) = Len(out) + Len(fr)
      BY <1>2
    <3> QED BY <3>1
  <2> QED BY <2>1, <2>2, <2>3
<1> QED BY <1>3, <1>4 DEF w

LEMMA WholeIsNext ==
  ASSUME out' \in Seq(Input!Packet), NEW k
  PROVE  Input!Whole(k)' <=> WholeIn(out', PartsOf(out', k), sent'[k].size)
<1>1. DOMAIN out' = 1..Len(out')
  OBVIOUS
<1>2. Input!Parts(k)' = PartsOf(out', k)
  BY <1>1 DEF Input!Parts, PartsOf, Is
<1> QED BY <1>2 DEF Input!Whole, WholeIn, PartIn, Input!Cardinality, Cardinality

Packed(asked, frame, size) ==
  /\ size # 0
  /\ sent' = Append(sent, [asked |-> asked, frame |-> frame, size |-> size])

\* A frame that goes out is whole, and the others stay whole.
LEMMA PackageStep ==
  ASSUME InputTyped, NumbersSound, FramesSound,
         NEW asked \in 1..MaxRead, NEW frame \in 1..MaxRead, NEW size \in 0..MaxSize,
         Input!Package(asked, frame, size)
  PROVE  /\ sent' = sent \/ Packed(asked, frame, size)
         /\ sent' \in Seq(Frame) /\ seqnum' \in [Input!Medium -> Nat]
         /\ out' \in Seq(Input!Packet) /\ NumbersSound' /\ FramesSound'
<1>1. CASE size = 0
  <2>1. sent' = sent /\ seqnum' = seqnum /\ out' = out
    BY <1>1 DEF Input!Package, Input!packer
  <2>2. out' \in Seq(Input!Packet) /\ sent' \in Seq(Frame) /\ seqnum' \in [Input!Medium -> Nat]
    BY <2>1 DEF InputTyped
  <2>3. NumbersSound'
    BY <2>1 DEF NumbersSound, Count
  <2>4. \A k : Input!Whole(k)' <=> Input!Whole(k)
    BY <2>1, <2>2, WholeIs, WholeIsNext
  <2>5. FramesSound'
    BY <2>1, <2>4 DEF FramesSound
  <2> QED BY <2>1, <2>2, <2>3, <2>5
<1>2. CASE size # 0
  <2> DEFINE n == Len(sent)
             r == [asked |-> asked, frame |-> frame, size |-> size]
             fr == Input!Fragments(n + 1, Input!Cut(size))
  <2>1. size \in Nat \ {0} /\ size \in 1..MaxSize
    BY <1>2, InputConstants
  <2>2. sent' = Append(sent, r) /\ Input!Pack(Len(sent'), size)
    BY <1>2 DEF Input!Package
  <2>3. r \in Frame /\ r.size = size
    BY <2>1 DEF Frame
  <2>4. sent \in Seq(Frame)
    BY DEF InputTyped
  <2> HIDE DEF r
  <2>5. /\ sent' \in Seq(Frame) /\ n \in Nat /\ Len(sent') = n + 1 /\ sent'[n + 1] = r
        /\ \A k \in 1..n : sent'[k] = sent[k]
    BY <2>2, <2>3, <2>4, AppendFacts
  <2> HIDE DEF n
  <2>6. out' = out \o fr
    BY <2>2, <2>5 DEF Input!Pack
  <2>7. /\ fr \in Seq(Input!Packet) /\ Len(fr) = Len(Input!Cut(size)) /\ Len(fr) \in Nat \ {0}
        /\ \A i \in 1..Len(fr) :
             /\ fr[i].m = "video" /\ fr[i].of = n + 1
             /\ fr[i].num = (seqnum["video"] + i - 1) % SeqMod
             /\ fr[i].first = (i = 1) /\ fr[i].last = (i = Len(fr)) /\ fr[i].size \in 1..Part
             /\ i # Len(fr) => fr[i].size = Part
        /\ (Len(fr) - 1) * Part + fr[Len(fr)].size = size
    <3>1. n + 1 \in Nat
      BY <2>5
    <3> QED BY <2>1, <3>1, FragmentFacts
  <2>8. seqnum' = [seqnum EXCEPT !["video"] = seqnum["video"] + Len(fr)]
    BY <2>2, <2>7 DEF Input!Pack
  <2> HIDE DEF fr
  <2>9. out' \in Seq(Input!Packet) /\ seqnum' \in [Input!Medium -> Nat] /\ NumbersSound'
    <3>1. "video" \in Input!Medium
      BY DEF Input!Medium
    <3>2. \A i \in 1..Len(fr) :
            fr[i].m = "video" /\ fr[i].num = (seqnum["video"] + i - 1) % SeqMod
      BY <2>7
    <3> QED BY <2>6, <2>7, <2>8, <3>1, <3>2, NumbersGoOn
  <2>10. /\ \A k \in 1..Len(sent) : WholeIn(out', PartsOf(out', k), sent[k].size)
         /\ \A i \in 1..Len(out') : out'[i].m = "video" => out'[i].of \in 1..Len(sent) \cup {n + 1}
    <3>1. {n + 1} \cap 1..Len(sent) = {}
      BY <2>5 DEF n
    <3>2. \A i \in 1..Len(fr) : fr[i].m = "video" => fr[i].of \in {n + 1}
      BY <2>7
    <3>3. fr \in Seq(Input!Packet)
      BY <2>7
    <3> QED BY <2>6, <3>1, <3>2, <3>3, FramesStay
  <2>11. WholeIn(out', PartsOf(out', n + 1), size)
    <3> DEFINE P == Input!Packet
               m == n + 1
    <3>1. out \in Seq(P) /\ fr \in Seq(P)
      BY <2>7 DEF InputTyped
    <3>2. \A i \in 1..Len(out) : ~Is(out, i, m)
      <4>1. m \notin 1..Len(sent)
        BY <2>5 DEF n
      <4> QED BY <4>1 DEF FramesSound, Is
    <3>3. \A i \in 1..Len(fr) : Is(fr, i, m)
      BY <2>7 DEF Is
    <3>4. \A i \in 1..Len(fr) :
            /\ fr[i].first = (i = 1) /\ fr[i].last = (i = Len(fr)) /\ fr[i].size \in 1..Part
            /\ i # Len(fr) => fr[i].size = Part
      BY <2>7
    <3>5. Len(fr) # 0 /\ (Len(fr) - 1) * Part + fr[Len(fr)].size = size
      BY <2>7
    <3> HIDE DEF P, m
    <3>6. WholeIn(out \o fr, PartsOf(out \o fr, m), size)
      BY <3>1, <3>2, <3>3, <3>4, <3>5, WholeNew
    <3> QED BY <2>6, <3>6 DEF m
  <2>12. \A k \in 1..n + 1 : Input!Whole(k)'
    <3> SUFFICES ASSUME NEW k \in 1..n + 1
                 PROVE  WholeIn(out', PartsOf(out', k), sent'[k].size)
      BY <2>9, WholeIsNext
    <3>1. CASE k \in 1..n
      BY <2>5, <2>10, <3>1 DEF n
    <3>2. CASE k = n + 1
      BY <2>3, <2>5, <2>11, <3>2
    <3> QED BY <2>5, <3>1, <3>2
  <2>13. \A i \in 1..Len(out') : out'[i].m = "video" => out'[i].of \in 1..n + 1
    <3>1. 1..Len(sent) \cup {n + 1} \subseteq 1..n + 1
      BY <2>5 DEF n
    <3> QED BY <2>10, <3>1
  <2>14. FramesSound'
    BY <2>5, <2>12, <2>13 DEF FramesSound
  <2>15. Packed(asked, frame, size)
    BY <1>2, <2>2 DEF Packed, r
  <2> QED BY <2>5, <2>9, <2>14, <2>15
<1> QED BY <1>1, <1>2

LEMMA AudioStep ==
  ASSUME InputTyped, NumbersSound, FramesSound, read' \in Nat, Input!PackageAudio
  PROVE  /\ sent' = sent /\ seqnum' \in [Input!Medium -> Nat]
         /\ out' \in Seq(Input!Packet) /\ NumbersSound' /\ FramesSound'
<1> DEFINE p == [m |-> "audio", of |-> read', num |-> seqnum["audio"] % SeqMod,
                 first |-> FALSE, last |-> TRUE, size |-> 1]
           fr == <<p>>
           P == Input!Packet
<1>1. "audio" \in Input!Medium /\ seqnum["audio"] \in Nat /\ out \in Seq(P)
  BY DEF Input!Medium, InputTyped
<1>2. p \in P
  <2>1. SeqMod \in Nat \ {0}
    BY InputConstants
  <2>2. seqnum["audio"] % SeqMod \in 0..(SeqMod - 1)
    BY <1>1, <2>1, DivMod
  <2>3. FALSE \in BOOLEAN /\ TRUE \in BOOLEAN /\ 1 \in Nat
    OBVIOUS
  <2> QED BY <1>1, <2>2, <2>3 DEF Input!Packet
<1>3. p.m = "audio" /\ p.num = seqnum["audio"] % SeqMod
  OBVIOUS
<1>4. sent' = sent /\ out' = Append(out, p) /\ seqnum' = [seqnum EXCEPT !["audio"] = seqnum["audio"] + 1]
  BY DEF Input!PackageAudio
<1> HIDE DEF p, P
<1>5. out' = out \o fr /\ fr \in Seq(P) /\ Len(fr) = 1 /\ fr[1] = p
  BY <1>1, <1>2, <1>4
<1> HIDE DEF fr
<1>6. \A i \in 1..Len(fr) : i = 1 /\ fr[i] = p
  BY <1>5
<1>7. out' \in Seq(Input!Packet) /\ seqnum' \in [Input!Medium -> Nat] /\ NumbersSound'
  <2>1. \A i \in 1..Len(fr) : fr[i].m = "audio" /\ fr[i].num = (seqnum["audio"] + i - 1) % SeqMod
    <3>1. seqnum["audio"] + 1 - 1 = seqnum["audio"]
      BY <1>1
    <3> QED BY <1>3, <1>6, <3>1
  <2>2. seqnum' = [seqnum EXCEPT !["audio"] = seqnum["audio"] + Len(fr)]
    BY <1>4, <1>5
  <2>3. fr \in Seq(Input!Packet) /\ out' = out \o fr
    BY <1>5 DEF P
  <2> QED BY <1>1, <2>1, <2>2, <2>3, NumbersGoOn
<1>8. FramesSound'
  <2>1. /\ \A k \in 1..Len(sent) : WholeIn(out', PartsOf(out', k), sent[k].size)
        /\ \A i \in 1..Len(out') : out'[i].m = "video" => out'[i].of \in 1..Len(sent) \cup {}
    <3>1. fr \in Seq(Input!Packet) /\ out' = out \o fr
      BY <1>5 DEF P
    <3>2. \A i \in 1..Len(fr) : fr[i].m = "video" => fr[i].of \in {}
      BY <1>3, <1>6
    <3>3. {} \cap 1..Len(sent) = {}
      OBVIOUS
    <3> QED BY <3>1, <3>2, <3>3, FramesStay
  <2>2. \A k \in 1..Len(sent) : Input!Whole(k)'
    BY <1>4, <1>7, <2>1, WholeIsNext
  <2>3. \A i \in 1..Len(out') : out'[i].m = "video" => out'[i].of \in 1..Len(sent)
    BY <2>1
  <2> QED BY <1>4, <2>2, <2>3 DEF FramesSound
<1> QED BY <1>4, <1>7, <1>8

LEMMA InputInitInv == Input!Init => InputInv
<1> SUFFICES ASSUME Input!Init PROVE InputInv
  OBVIOUS
<1> USE DEF Input!Init
<1>1. InputTyped
  <2>1. seqnum \in [Input!Medium -> Nat]
    OBVIOUS
  <2>2. sent \in Seq(Frame) /\ out \in Seq(Input!Packet) /\ queue \in Seq(1..MaxRead)
    OBVIOUS
  <2>3. vp8 \in BOOLEAN /\ running \in BOOLEAN
    OBVIOUS
  <2>4. read \in 0..MaxRead /\ buffer \in 0..MaxRead
    BY InputConstants
  <2> QED BY <2>1, <2>2, <2>3, <2>4 DEF InputTyped
<1>2. Len(out) = 0 /\ Len(sent) = 0 /\ Len(queue) = 0
  OBVIOUS
<1>3. ThreadsSound
  BY DEF ThreadsSound
<1>4. TurnSound
  BY <1>2 DEF TurnSound
<1>5. NumbersSound
  <2>1. ASSUME NEW m PROVE Count(out, 0, m) = 0
    <3>1. {j \in 1..0 : out[j].m = m} = {}
      OBVIOUS
    <3> QED BY <3>1, FS_EmptySet DEF Count
  <2> QED BY <1>2, <2>1 DEF NumbersSound
<1>6. FramesSound
  BY <1>2 DEF FramesSound
<1> QED BY <1>1, <1>3, <1>4, <1>5, <1>6 DEF InputInv

LEMMA InputSame ==
  ASSUME InputInv, UNCHANGED <<vp8, read, buffer, queue, sent, seqnum, out>>
  PROVE  /\ read' \in 0..MaxRead /\ buffer' \in 0..MaxRead /\ queue' \in Seq(1..MaxRead)
         /\ vp8' \in BOOLEAN
         /\ sent' \in Seq(Frame) /\ seqnum' \in [Input!Medium -> Nat] /\ out' \in Seq(Input!Packet)
         /\ TurnSound' /\ NumbersSound' /\ FramesSound'
<1>1. /\ read' \in 0..MaxRead /\ buffer' \in 0..MaxRead /\ queue' \in Seq(1..MaxRead)
      /\ sent' \in Seq(Frame) /\ seqnum' \in [Input!Medium -> Nat] /\ out' \in Seq(Input!Packet)
  BY DEF InputInv, InputTyped
<1>2. vp8' \in BOOLEAN
  BY Zenon DEF InputInv, InputTyped
<1>3. TurnSound'
  BY DEF InputInv, TurnSound
<1>4. NumbersSound'
  BY DEF InputInv, NumbersSound, Count
<1>5. FramesSound'
  <2>1. \A k : Input!Whole(k)' <=> Input!Whole(k)
    BY <1>1, WholeIs, WholeIsNext DEF InputInv
  <2> QED BY <2>1 DEF InputInv, FramesSound
<1> QED BY <1>1, <1>2, <1>3, <1>4, <1>5

\* The frame that goes out is the next in turn.
LEMMA TurnOn ==
  ASSUME sent \in Seq(Frame), sent' \in Seq(Frame),
         NEW asked \in 1..MaxRead, NEW frame \in 1..MaxRead, NEW size \in 0..MaxSize,
         sent' = sent \/ Packed(asked, frame, size),
         asked <= frame,
         \A i \in 1..Len(sent) :
           sent[i].asked <= sent[i].frame /\ sent[i].frame <= frame /\ sent[i].asked < asked,
         \A i, j \in 1..Len(sent) :
           i < j => sent[i].frame <= sent[j].frame /\ sent[i].asked < sent[j].asked
  PROVE  /\ \A i, j \in 1..Len(sent') :
              i < j => sent'[i].frame <= sent'[j].frame /\ sent'[i].asked < sent'[j].asked
         /\ \A i \in 1..Len(sent') :
              /\ sent'[i].asked <= sent'[i].frame
              /\ sent'[i].asked <= asked /\ sent'[i].frame <= frame
<1> DEFINE n == Len(sent)
           r == [asked |-> asked, frame |-> frame, size |-> size]
<1>1. \A i \in 1..n : sent[i].asked \in Int /\ sent[i].frame \in Int
  <2>1. \A i \in 1..n : sent[i] \in Frame
    OBVIOUS
  <2>2. \A f \in Frame : f.asked \in Int /\ f.frame \in Int
    BY DEF Frame
  <2> QED BY <2>1, <2>2
<1>2. asked \in Int /\ frame \in Int
  OBVIOUS
<1>3. CASE sent' = sent
  BY <1>1, <1>2, <1>3
<1>4. CASE Packed(asked, frame, size)
  <2>1. sent' = Append(sent, r) /\ r \in Frame
    <3>1. sent' = Append(sent, r) /\ size # 0
      BY <1>4 DEF Packed
    <3>2. size \in 1..MaxSize
      BY <3>1, InputConstants
    <3> QED BY <3>1, <3>2 DEF Frame
  <2>2. r.asked = asked /\ r.frame = frame
    OBVIOUS
  <2> HIDE DEF r
  <2>3. /\ n \in Nat /\ Len(sent') = n + 1 /\ sent'[n + 1] = r
        /\ \A i \in 1..n : sent'[i] = sent[i]
    BY <2>1, AppendFacts
  <2>4. \A i \in 1..n : sent'[i].asked = sent[i].asked /\ sent'[i].frame = sent[i].frame
    BY <2>3
  <2> HIDE DEF n
  <2>5. \A i \in 1..n + 1 : i \in 1..n \/ i = n + 1
    BY <2>3
  <2>6. ASSUME NEW i \in 1..n + 1, NEW j \in 1..n + 1, i < j
        PROVE  sent'[i].frame <= sent'[j].frame /\ sent'[i].asked < sent'[j].asked
    <3>1. i \in 1..n
      BY <2>3, <2>6
    <3>2. CASE j \in 1..n
      BY <2>4, <2>6, <3>1, <3>2 DEF n
    <3>3. CASE j = n + 1
      BY <2>2, <2>3, <2>4, <3>1, <3>3 DEF n
    <3> QED BY <2>5, <3>2, <3>3
  <2>7. ASSUME NEW i \in 1..n + 1
        PROVE  /\ sent'[i].asked <= sent'[i].frame
               /\ sent'[i].asked <= asked /\ sent'[i].frame <= frame
    <3>1. CASE i \in 1..n
      BY <1>1, <1>2, <2>4, <3>1 DEF n
    <3>2. CASE i = n + 1
      BY <1>2, <2>2, <2>3, <3>2
    <3> QED BY <2>5, <3>1, <3>2
  <2> QED BY <2>3, <2>6, <2>7
<1> QED BY <1>3, <1>4

\* A step that leaves the stream alone.
LEMMA InputThreads ==
  ASSUME InputInv, Input!InitStart \/ Input!InitEnd \/ Input!Close \/ Input!CloseJoin
                   \/ Input!ReadEnd \/ Input!EncodeEnd
  PROVE  InputInv'
<1>1. UNCHANGED <<vp8, read, buffer, queue, sent, seqnum, out>>
  BY DEF Input!InitStart, Input!InitEnd, Input!Close, Input!CloseJoin, Input!ReadEnd,
         Input!EncodeEnd, Input!packer
<1>2. /\ read' \in 0..MaxRead /\ buffer' \in 0..MaxRead /\ queue' \in Seq(1..MaxRead)
      /\ vp8' \in BOOLEAN
      /\ sent' \in Seq(Frame) /\ seqnum' \in [Input!Medium -> Nat] /\ out' \in Seq(Input!Packet)
      /\ TurnSound' /\ NumbersSound' /\ FramesSound'
  BY <1>1, InputSame
<1>3. /\ phase' \in {"new", "started", "open", "closing", "gone"}
      /\ reader' \in {"no", "loop", "over"} /\ encoder' \in {"no", "loop", "over"}
      /\ ThreadsSound'
  <2> USE DEF InputInv, InputTyped, ThreadsSound
  <2>1. CASE Input!InitStart
    BY <2>1 DEF Input!InitStart
  <2>2. CASE Input!InitEnd
    BY <2>2 DEF Input!InitEnd
  <2>3. CASE Input!Close
    BY <2>3 DEF Input!Close
  <2>4. CASE Input!CloseJoin
    BY <2>4 DEF Input!CloseJoin, Input!threads
  <2>5. CASE Input!ReadEnd
    BY <2>5 DEF Input!ReadEnd
  <2>6. CASE Input!EncodeEnd
    BY <2>6 DEF Input!EncodeEnd
  <2> QED BY <2>1, <2>2, <2>3, <2>4, <2>5, <2>6
<1>4. running' \in BOOLEAN
  BY Zenon DEF InputInv, InputTyped, Input!InitStart, Input!InitEnd, Input!Close,
               Input!CloseJoin, Input!ReadEnd, Input!EncodeEnd, Input!threads
<1> QED BY <1>2, <1>3, <1>4 DEF InputInv, InputTyped

LEMMA ThreadsSame ==
  ASSUME InputInv, UNCHANGED <<vp8, phase, Input!threads>>
  PROVE  /\ vp8' \in BOOLEAN /\ running' \in BOOLEAN
         /\ phase' \in {"new", "started", "open", "closing", "gone"}
         /\ reader' \in {"no", "loop", "over"} /\ encoder' \in {"no", "loop", "over"}
         /\ ThreadsSound'
<1>1. vp8' \in BOOLEAN /\ running' \in BOOLEAN
  BY Zenon DEF InputInv, InputTyped, Input!threads
<1> QED BY <1>1 DEF InputInv, InputTyped, ThreadsSound, Input!threads

LEMMA InputReads ==
  ASSUME InputInv, Input!Read
  PROVE  InputInv'
<1>1. /\ vp8' \in BOOLEAN /\ running' \in BOOLEAN
      /\ phase' \in {"new", "started", "open", "closing", "gone"}
      /\ reader' \in {"no", "loop", "over"} /\ encoder' \in {"no", "loop", "over"}
      /\ ThreadsSound' /\ vp8' = vp8
  <2>1. UNCHANGED <<vp8, phase, Input!threads>>
    BY DEF Input!Read
  <2> QED BY <2>1, ThreadsSame
<1>2. /\ read \in Nat /\ read' = read + 1 /\ read' \in 1..MaxRead /\ read' \in 0..MaxRead
      /\ read' \in Nat /\ MaxRead \in Nat
  BY InputConstants DEF Input!Read, InputInv, InputTyped
<1>3. /\ InputTyped /\ NumbersSound /\ FramesSound /\ TurnSound
      /\ buffer \in 0..MaxRead /\ queue \in Seq(1..MaxRead) /\ sent \in Seq(Frame)
  BY DEF InputInv, InputTyped
<1>4. \A i \in 1..Len(sent) : sent[i].asked \in Int /\ sent[i].frame \in Int
  <2>1. \A i \in 1..Len(sent) : sent[i] \in Frame
    BY <1>3
  <2>2. \A f \in Frame : f.asked \in Int /\ f.frame \in Int
    BY <1>2 DEF Frame
  <2> QED BY <2>1, <2>2
<1>5. CASE vp8 /\ (\E size \in 0..MaxSize : Input!Package(read', read', size))
           /\ UNCHANGED <<buffer, queue>>
  <2>1. PICK size \in 0..MaxSize : Input!Package(read', read', size)
    BY <1>5
  <2>2. /\ sent' = sent \/ Packed(read', read', size)
        /\ sent' \in Seq(Frame) /\ seqnum' \in [Input!Medium -> Nat]
        /\ out' \in Seq(Input!Packet) /\ NumbersSound' /\ FramesSound'
    BY <1>2, <1>3, <2>1, PackageStep
  <2>3. queue = <<>> /\ buffer <= read
    BY <1>3, <1>5 DEF TurnSound
  <2>4. \A i \in 1..Len(sent) :
          /\ sent[i].asked <= sent[i].frame
          /\ sent[i].frame <= read' /\ sent[i].asked < read'
    BY <1>2, <1>3, <1>4, <1>5 DEF TurnSound
  <2>5. \A i, j \in 1..Len(sent) :
          i < j => sent[i].frame <= sent[j].frame /\ sent[i].asked < sent[j].asked
    BY <1>3 DEF TurnSound
  <2> DEFINE r == read'
  <2>6. r <= r /\ r \in 1..MaxRead
    BY <1>2
  <2>7. /\ \A i, j \in 1..Len(sent') :
             i < j => sent'[i].frame <= sent'[j].frame /\ sent'[i].asked < sent'[j].asked
        /\ \A i \in 1..Len(sent') :
             /\ sent'[i].asked <= sent'[i].frame
             /\ sent'[i].asked <= r /\ sent'[i].frame <= r
    <3>1. sent' = sent \/ Packed(r, r, size)
      BY <2>2
    <3>2. \A i \in 1..Len(sent) :
            sent[i].asked <= sent[i].frame /\ sent[i].frame <= r /\ sent[i].asked < r
      BY <2>4
    <3> HIDE DEF r
    <3> QED BY <1>3, <2>2, <2>5, <2>6, <3>1, <3>2, TurnOn
  <2>8. queue' = <<>> /\ buffer' = buffer /\ Len(queue') = 0
    BY <1>5, <2>3
  <2>9. TurnSound'
    <3>1. buffer' <= read'
      BY <1>2, <1>3, <2>3, <2>8
    <3> QED BY <1>1, <1>5, <2>7, <2>8, <3>1 DEF TurnSound
  <2> QED BY <1>1, <1>2, <1>3, <2>2, <2>8, <2>9 DEF InputInv, InputTyped
<1>6. CASE vp8 /\ Input!PackageAudio /\ UNCHANGED <<buffer, queue>>
  <2>1. /\ sent' = sent /\ seqnum' \in [Input!Medium -> Nat]
        /\ out' \in Seq(Input!Packet) /\ NumbersSound' /\ FramesSound'
    BY <1>2, <1>3, <1>6, AudioStep
  <2>2. TurnSound'
    <3>1. /\ queue' = <<>> /\ Len(queue') = 0 /\ buffer' = buffer /\ buffer <= read /\ vp8'
          /\ sent' = sent
      BY <1>1, <1>3, <1>6, <2>1 DEF TurnSound
    <3>2. buffer' <= read'
      BY <1>2, <1>3, <3>1
    <3>3. \A i \in 1..Len(sent) : /\ sent[i].asked <= sent[i].frame
                                 /\ sent[i].asked <= read' /\ sent[i].frame <= read'
      BY <1>2, <1>3, <1>4, <1>6 DEF TurnSound
    <3>4. \A i, j \in 1..Len(sent) :
            i < j => sent[i].frame <= sent[j].frame /\ sent[i].asked < sent[j].asked
      BY <1>3 DEF TurnSound
    <3> QED BY <3>1, <3>2, <3>3, <3>4 DEF TurnSound
  <2> QED BY <1>1, <1>2, <1>3, <1>6, <2>1, <2>2 DEF InputInv, InputTyped
<1>7. CASE ~vp8 /\ UNCHANGED <<sent, seqnum, out>>
           /\ \/ buffer' = read' /\ queue' = Append(queue, read')
              \/ UNCHANGED <<buffer, queue>>
  <2>1. /\ sent' \in Seq(Frame) /\ seqnum' \in [Input!Medium -> Nat]
        /\ out' \in Seq(Input!Packet) /\ NumbersSound' /\ FramesSound'
    <3>1. seqnum' \in [Input!Medium -> Nat] /\ out' \in Seq(Input!Packet)
      BY <1>3, <1>7 DEF InputTyped
    <3>2. NumbersSound'
      BY <1>3, <1>7 DEF NumbersSound, Count
    <3>3. \A k : Input!Whole(k)' <=> Input!Whole(k)
      BY <1>3, <1>7, <3>1, WholeIs, WholeIsNext
    <3>4. FramesSound'
      BY <1>3, <1>7, <3>3 DEF FramesSound
    <3> QED BY <1>3, <1>7, <3>1, <3>2, <3>4
  <2>2. /\ sent' = sent /\ ~vp8 /\ ~vp8'
    BY <1>1, <1>7
  <2>3. CASE UNCHANGED <<buffer, queue>>
    <3>1. TurnSound'
      BY <1>2, <1>3, <1>4, <2>2, <2>3 DEF TurnSound
    <3> QED BY <1>1, <1>2, <1>3, <2>1, <2>3, <3>1 DEF InputInv, InputTyped
  <2>4. CASE buffer' = read' /\ queue' = Append(queue, read')
    <3> DEFINE n == Len(queue)
    <3>1. /\ queue' \in Seq(1..MaxRead) /\ n \in Nat /\ Len(queue') = n + 1
          /\ queue'[n + 1] = read' /\ \A i \in 1..n : queue'[i] = queue[i]
      BY <1>2, <1>3, <2>4, AppendFacts
    <3>2. \A i \in 1..n : queue[i] \in Int /\ queue[i] <= read
      <4>1. \A i \in 1..n : queue[i] \in Int /\ queue[i] <= buffer
        BY <1>2, <1>3 DEF TurnSound
      <4> QED BY <1>2, <1>3, <4>1 DEF TurnSound
    <3> HIDE DEF n
    <3>3. \A i \in 1..n + 1 : (i \in 1..n) \/ (i = n + 1)
      BY <3>1
    <3>4. \A i, j \in 1..n + 1 : i < j => queue'[i] < queue'[j]
      <4> SUFFICES ASSUME NEW i \in 1..n + 1, NEW j \in 1..n + 1, i < j
                   PROVE  queue'[i] < queue'[j]
        OBVIOUS
      <4>1. i \in 1..n
        BY <3>1
      <4>2. CASE j \in 1..n
        BY <1>3, <3>1, <4>1, <4>2 DEF TurnSound, n
      <4>3. CASE j = n + 1
        BY <1>2, <3>1, <3>2, <4>1, <4>3
      <4> QED BY <3>3, <4>2, <4>3
    <3>5. \A i \in 1..n + 1 : queue'[i] <= buffer'
      BY <1>2, <2>4, <3>1, <3>2, <3>3
    <3>6. \A i \in 1..Len(sent) :
            /\ sent[i].asked <= sent[i].frame /\ sent[i].asked <= read' /\ sent[i].frame <= buffer'
            /\ \A j \in 1..n + 1 : sent[i].asked < queue'[j]
      <4> SUFFICES ASSUME NEW i \in 1..Len(sent)
                   PROVE  /\ sent[i].asked <= sent[i].frame /\ sent[i].asked <= read'
                          /\ sent[i].frame <= buffer'
                          /\ \A j \in 1..n + 1 : sent[i].asked < queue'[j]
        OBVIOUS
      <4>1. /\ sent[i].asked <= sent[i].frame /\ sent[i].asked <= read
            /\ sent[i].frame <= buffer /\ buffer <= read
            /\ \A j \in 1..n : sent[i].asked < queue[j]
        BY <1>3, <2>2 DEF TurnSound, n
      <4>2. sent[i].asked < read' /\ sent[i].frame <= read' /\ sent[i].asked <= read'
        BY <1>2, <1>3, <1>4, <4>1
      <4>3. \A j \in 1..n + 1 : sent[i].asked < queue'[j]
        BY <3>1, <3>3, <4>1, <4>2
      <4> QED BY <2>4, <4>1, <4>2, <4>3
    <3>7. \A i, j \in 1..Len(sent) :
            i < j => sent[i].frame <= sent[j].frame /\ sent[i].asked < sent[j].asked
      BY <1>3 DEF TurnSound
    <3>8. TurnSound'
      <4>1. buffer' <= read'
        BY <1>2, <2>4
      <4> QED BY <2>2, <3>1, <3>4, <3>5, <3>6, <3>7, <4>1 DEF TurnSound
    <3> QED BY <1>1, <1>2, <2>1, <2>4, <3>1, <3>8 DEF InputInv, InputTyped
  <2> QED BY <1>7, <2>3, <2>4
<1> QED BY <1>5, <1>6, <1>7 DEF Input!Read, Input!packer

LEMMA InputEncodes ==
  ASSUME InputInv, Input!Encode
  PROVE  InputInv'
<1>1. /\ vp8' \in BOOLEAN /\ running' \in BOOLEAN
      /\ phase' \in {"new", "started", "open", "closing", "gone"}
      /\ reader' \in {"no", "loop", "over"} /\ encoder' \in {"no", "loop", "over"}
      /\ ThreadsSound' /\ vp8' = vp8
  <2>1. UNCHANGED <<vp8, phase, Input!threads>>
    BY DEF Input!Encode
  <2> QED BY <2>1, ThreadsSame
<1>2. /\ InputTyped /\ NumbersSound /\ FramesSound /\ TurnSound /\ MaxRead \in Nat
      /\ read \in 0..MaxRead /\ buffer \in 0..MaxRead /\ queue \in Seq(1..MaxRead)
      /\ sent \in Seq(Frame) /\ queue # <<>> /\ read' = read /\ buffer' = buffer
      /\ queue' = Tail(queue)
  BY InputConstants DEF InputInv, InputTyped, Input!Encode
<1>3. ~vp8
  BY DEF InputInv, ThreadsSound, Input!Encode
<1>4. \A i \in 1..Len(sent) : sent[i].asked \in Int /\ sent[i].frame \in Int
  <2>1. \A i \in 1..Len(sent) : sent[i] \in Frame
    BY <1>2
  <2>2. \A f \in Frame : f.asked \in Int /\ f.frame \in Int
    BY <1>2 DEF Frame
  <2> QED BY <2>1, <2>2
<1> DEFINE h == Head(queue)
           n == Len(queue)
           T == 1..MaxRead
<1>5. /\ h \in T /\ h = queue[1] /\ n \in Nat \ {0} /\ queue' \in Seq(T) /\ Len(queue') = n - 1
      /\ \A i \in 1..n - 1 : queue'[i] = queue[i + 1] /\ i + 1 \in 1..n
  <2>1. queue \in Seq(T) /\ queue # <<>> /\ queue' = Tail(queue)
    BY <1>2
  <2> HIDE DEF T
  <2> QED BY <2>1
<1>6. 1 \in 1..n /\ h <= buffer /\ buffer \in T
  BY <1>2, <1>5 DEF TurnSound
<1>7. PICK size \in 0..MaxSize : Input!Package(h, buffer, size)
  BY DEF Input!Encode
<1> HIDE DEF h
<1>8. /\ sent' = sent \/ Packed(h, buffer, size)
      /\ sent' \in Seq(Frame) /\ seqnum' \in [Input!Medium -> Nat]
      /\ out' \in Seq(Input!Packet) /\ NumbersSound' /\ FramesSound'
  BY <1>2, <1>5, <1>6, <1>7, PackageStep
<1>9. \A i \in 1..Len(sent) :
        /\ sent[i].asked <= sent[i].frame
        /\ sent[i].frame <= buffer /\ sent[i].asked < h
  BY <1>2, <1>3, <1>5, <1>6 DEF TurnSound
<1>10. \A i, j \in 1..Len(sent) :
         i < j => sent[i].frame <= sent[j].frame /\ sent[i].asked < sent[j].asked
  BY <1>2 DEF TurnSound
<1>11. /\ \A i, j \in 1..Len(sent') :
            i < j => sent'[i].frame <= sent'[j].frame /\ sent'[i].asked < sent'[j].asked
       /\ \A i \in 1..Len(sent') :
            /\ sent'[i].asked <= sent'[i].frame
            /\ sent'[i].asked <= h /\ sent'[i].frame <= buffer
  BY <1>2, <1>5, <1>6, <1>8, <1>9, <1>10, TurnOn
<1>12. /\ \A i, j \in 1..n : i < j => queue[i] < queue[j]
       /\ \A i \in 1..n : queue[i] <= buffer
       /\ buffer <= read
  BY <1>2 DEF TurnSound
<1>13. \A i \in 1..n - 1 : h < queue'[i] /\ queue'[i] <= buffer
  <2> SUFFICES ASSUME NEW i \in 1..n - 1 PROVE h < queue'[i] /\ queue'[i] <= buffer
    OBVIOUS
  <2>1. i + 1 \in 1..n /\ queue'[i] = queue[i + 1]
    BY <1>5
  <2>2. 1 < i + 1
    BY <1>5
  <2> HIDE DEF n
  <2> QED BY <1>5, <1>6, <1>12, <2>1, <2>2
<1>14. \A i, j \in 1..n - 1 : i < j => queue'[i] < queue'[j]
  <2> SUFFICES ASSUME NEW i \in 1..n - 1, NEW j \in 1..n - 1, i < j
               PROVE  queue'[i] < queue'[j]
    OBVIOUS
  <2>1. i + 1 < j + 1
    BY <1>5
  <2> QED BY <1>5, <1>12, <2>1
<1>15. \A i \in 1..n - 1 : queue'[i] \in Int
  <2>1. \A i \in 1..Len(queue') : queue'[i] \in T
    <3>1. queue' \in Seq(T)
      BY <1>5
    <3> HIDE DEF T
    <3> QED BY <3>1
  <2> QED BY <1>2, <1>5, <2>1
<1>16. Len(sent') \in Nat /\ \A i \in 1..Len(sent') : sent'[i].asked \in Int /\ sent'[i].frame \in Int
  <2>1. \A i \in 1..Len(sent') : sent'[i] \in Frame
    BY <1>8
  <2>2. \A f \in Frame : f.asked \in Int /\ f.frame \in Int
    BY <1>2 DEF Frame
  <2> QED BY <1>8, <2>1, <2>2
<1>17. \A i \in 1..Len(sent') :
         /\ sent'[i].asked <= sent'[i].frame /\ sent'[i].asked <= read
         /\ sent'[i].frame <= buffer
         /\ \A j \in 1..n - 1 : sent'[i].asked < queue'[j]
  <2> SUFFICES ASSUME NEW i \in 1..Len(sent')
               PROVE  /\ sent'[i].asked <= sent'[i].frame /\ sent'[i].asked <= read
                      /\ sent'[i].frame <= buffer
                      /\ \A j \in 1..n - 1 : sent'[i].asked < queue'[j]
    OBVIOUS
  <2>1. sent'[i].asked <= sent'[i].frame /\ sent'[i].asked <= h /\ sent'[i].frame <= buffer
    BY <1>11
  <2>2. sent'[i].asked \in Int /\ sent'[i].frame \in Int /\ h \in Int /\ buffer \in Int /\ read \in Int
    <3>1. sent'[i].asked \in Int /\ sent'[i].frame \in Int
      BY <1>16
    <3>2. h \in Int /\ buffer \in Int /\ read \in Int
      BY <1>2, <1>5
    <3> QED BY <3>1, <3>2
  <2>3. sent'[i].asked <= read
    BY <1>12, <2>1, <2>2
  <2>4. \A j \in 1..n - 1 : sent'[i].asked < queue'[j]
    BY <1>13, <1>15, <2>1, <2>2
  <2> QED BY <2>1, <2>3, <2>4
<1>18. TurnSound'
  BY <1>1, <1>2, <1>3, <1>5, <1>11, <1>12, <1>13, <1>14, <1>17 DEF TurnSound
<1> QED BY <1>1, <1>2, <1>5, <1>8, <1>18 DEF InputInv, InputTyped

LEMMA InputStepInv ==
  ASSUME InputInv, [Input!Next]_(Input!vars)
  PROVE  InputInv'
<1>1. CASE Input!Next
  <2>1. CASE Input!Read
    BY <2>1, InputReads
  <2>2. CASE Input!Encode
    BY <2>2, InputEncodes
  <2> QED BY <1>1, <2>1, <2>2, InputThreads DEF Input!Next
<1>2. CASE UNCHANGED Input!vars
  <2>1. UNCHANGED <<vp8, read, buffer, queue, sent, seqnum, out>>
    BY <1>2 DEF Input!vars, Input!packer
  <2>2. UNCHANGED <<vp8, phase, Input!threads>>
    BY <1>2 DEF Input!vars
  <2>3. /\ read' \in 0..MaxRead /\ buffer' \in 0..MaxRead /\ queue' \in Seq(1..MaxRead)
        /\ sent' \in Seq(Frame) /\ seqnum' \in [Input!Medium -> Nat]
        /\ out' \in Seq(Input!Packet) /\ TurnSound' /\ NumbersSound' /\ FramesSound'
    BY <2>1, InputSame
  <2>4. /\ vp8' \in BOOLEAN /\ running' \in BOOLEAN
        /\ phase' \in {"new", "started", "open", "closing", "gone"}
        /\ reader' \in {"no", "loop", "over"} /\ encoder' \in {"no", "loop", "over"}
        /\ ThreadsSound'
    BY <2>2, ThreadsSame
  <2> QED BY <2>3, <2>4 DEF InputInv, InputTyped
<1> QED BY <1>1, <1>2

LEMMA InputInvSound == InputInv => Input!TypeOK /\ Input!Sound
<1> SUFFICES ASSUME InputInv PROVE Input!TypeOK /\ Input!Sound
  OBVIOUS
<1>1. InputTyped /\ ThreadsSound /\ TurnSound /\ NumbersSound /\ FramesSound
  BY DEF InputInv
<1>2. sent \in Seq(Frame) /\ out \in Seq(Input!Packet)
  BY <1>1 DEF InputTyped
<1>3. DOMAIN sent = 1..Len(sent) /\ DOMAIN out = 1..Len(out)
  BY <1>2
<1>4. Input!TypeOK
  <2>1. \A i \in DOMAIN sent : sent[i] \in [asked : 1..MaxRead, frame : 1..MaxRead, size : 0..MaxSize]
    <3>1. \A i \in 1..Len(sent) : sent[i] \in Frame
      BY <1>2
    <3>2. \A f \in Frame : f \in [asked : 1..MaxRead, frame : 1..MaxRead, size : 0..MaxSize]
      BY InputConstants DEF Frame
    <3> QED BY <1>3, <3>1, <3>2
  <2>2. \A i \in DOMAIN out : out[i] \in Input!Packet
    <3> DEFINE P == Input!Packet
    <3>1. out \in Seq(P)
      BY <1>2
    <3> HIDE DEF P
    <3>2. \A i \in 1..Len(out) : out[i] \in P
      BY <3>1
    <3> QED BY <1>3, <3>2 DEF P
  <2>3. vp8 \in BOOLEAN /\ running \in BOOLEAN
    BY <1>1 DEF InputTyped
  <2> QED BY <1>1, <2>1, <2>2, <2>3 DEF InputTyped, Input!TypeOK
<1>5. Input!NumbersFollow
  <2>1. \A i \in 1..Len(out) : out[i].num = Count(out, i - 1, out[i].m) % SeqMod
    BY <1>1 DEF NumbersSound
  <2> QED BY <1>3, <2>1 DEF Input!NumbersFollow, Count, Input!Cardinality, Cardinality
<1>6. Input!FramesWhole
  BY <1>1, <1>3 DEF FramesSound, Input!FramesWhole
<1>7. Input!FramesForward
  BY <1>1, <1>3 DEF TurnSound, Input!FramesForward
<1>8. phase = "gone" => reader = "over" /\ encoder # "loop"
  BY <1>1 DEF ThreadsSound
<1> QED BY <1>4, <1>5, <1>6, <1>7, <1>8 DEF Input!Sound

-----------------------------------------------------------------------------
(* The quality of what a subscriber is sent.                               *)

Fields == {"enabled", "forced", "slides", "padding", "layer", "active"}

Managed == DOMAIN q = Fields /\ Quality!PaddingOff

\* An update either does nothing or is of a manager that chooses by itself, and
\* leaves it so.
LEMMA UpdateKeeps ==
  ASSUME Managed, NEW N, Quality!NotifyQualityUpdate(N)
  PROVE  Managed'
<1>1. CASE Quality!Idle
  BY <1>1, Zenon DEF Quality!NotifyQualityUpdate, Quality!clocks, Managed, Quality!PaddingOff
<1>2. CASE ~Quality!Idle
  <2> DEFINE m == Quality!Looked(N)
  <2>1. DOMAIN m = Fields /\ m.enabled = q.enabled /\ m.forced = q.forced
    BY DEF Quality!Looked, Managed, Fields
  <2>2. q' = Quality!SelectLayer(m, N, FALSE) \/ q' = Quality!SelectLayer(m, N, TRUE) \/ q' = m
    BY <1>2 DEF Quality!NotifyQualityUpdate
  <2> HIDE DEF m
  <2>3. \A higher : /\ DOMAIN Quality!SelectLayer(m, N, higher) = Fields
                    /\ Quality!SelectLayer(m, N, higher).enabled = m.enabled
                    /\ Quality!SelectLayer(m, N, higher).forced = m.forced
    BY <2>1 DEF Quality!SelectLayer, Fields
  <2>4. DOMAIN q' = Fields /\ q'.enabled = q.enabled /\ q'.forced = q.forced
    BY <2>1, <2>2, <2>3
  <2>5. q.enabled /\ ~q.forced
    BY <1>2 DEF Quality!Idle
  <2> QED BY <2>4, <2>5, Zenon DEF Managed, Quality!PaddingOff
<1> QED BY <1>1, <1>2

LEMMA ManagedNext ==
  ASSUME Managed, [Quality!Next]_(Quality!vars)
  PROVE  Managed'
<1>1. DOMAIN q = Fields /\ (q.padding => q.enabled /\ ~q.forced)
  BY DEF Managed, Quality!PaddingOff
<1>2. ASSUME UNCHANGED q PROVE Managed'
  BY <1>1, <1>2, Zenon DEF Managed, Quality!PaddingOff
<1>3. ASSUME NEW s \in Layers, NEW tid \in 0..3, Quality!Write(s, tid) PROVE Managed'
  BY <1>3, UpdateKeeps DEF Quality!Write
<1>4. CASE Quality!Enable
  <2>1. q' = [q EXCEPT !.enabled = TRUE, !.padding = @ \/ ~q.forced]
    BY <1>4 DEF Quality!Enable
  <2>2. DOMAIN q' = Fields /\ q'.enabled = TRUE /\ q'.forced = q.forced
    BY <1>1, <2>1 DEF Fields
  <2>3. q'.padding = (q.padding \/ ~q.forced)
    BY <1>1, <2>1, Zenon DEF Fields
  <2> QED BY <1>1, <2>2, <2>3, Zenon DEF Managed, Quality!PaddingOff
<1>5. CASE Quality!Disable \/ \E layer \in Quality!Layer : Quality!ForceLayers(layer)
  <2>1. DOMAIN q' = Fields /\ q'.padding = FALSE
    BY <1>1, <1>5 DEF Quality!Disable, Quality!ForceLayers, Fields
  <2> QED BY <2>1, Zenon DEF Managed, Quality!PaddingOff
<1>6. CASE Quality!FreeLayers
  <2>1. DOMAIN q' = Fields /\ q'.forced = FALSE /\ q'.enabled = q.enabled /\ q'.padding = q.padding
    BY <1>1, <1>6 DEF Quality!FreeLayers, Fields
  <2> QED BY <1>1, <2>1, Zenon DEF Managed, Quality!PaddingOff
<1>7. CASE \/ \E s \in Layers : Quality!Publish(s)
           \/ Quality!UpdateEstimate \/ Quality!Averages \/ Quality!HalfSecond \/ Quality!TenSeconds \/ UNCHANGED Quality!vars
  <2>1. UNCHANGED q
    BY <1>7 DEF Quality!Publish, Quality!UpdateEstimate, Quality!Averages, Quality!HalfSecond, Quality!TenSeconds, Quality!vars
  <2> QED BY <1>2, <2>1
<1> QED BY <1>3, <1>4, <1>5, <1>6, <1>7 DEF Quality!Next

LEMMA ManagedInit ==
  ASSUME Quality!Init
  PROVE  Managed
<1>1. DOMAIN q = Fields /\ q.padding = FALSE
  BY DEF Quality!Init, Fields
<1> QED BY <1>1, Zenon DEF Managed, Quality!PaddingOff

-----------------------------------------------------------------------------
(* The ends together.                                                      *)

EndInv == IInv /\ NiceInv /\ InputInv /\ Managed

LEMMA EndStepInv ==
  ASSUME EndInv, [EndNext]_endVars
  PROVE  EndInv'
<1>1. IInv /\ NiceInv /\ InputInv /\ Managed
  BY DEF EndInv
<1>2. [Next]_vars
  <2>1. NiceStep \/ InputStep \/ QualityStep \/ UNCHANGED endVars => UNCHANGED nicerVars
    BY DEF NiceStep, InputStep, QualityStep, endVars
  <2>2. UNCHANGED nicerVars => UNCHANGED vars
    BY DEF nicerVars
  <2>3. NicerStep => Next
    BY DEF NicerStep
  <2> QED BY <2>1, <2>2, <2>3 DEF EndNext
<1>3. [Nice!Next]_(Nice!vars)
  <2>1. NicerStep \/ InputStep \/ QualityStep \/ UNCHANGED endVars => UNCHANGED niceVars
    BY DEF NicerStep, InputStep, QualityStep, endVars
  <2>2. UNCHANGED niceVars => UNCHANGED Nice!vars
    BY DEF niceVars, Nice!vars, Nice!gathered, Nice!closing
  <2>3. NiceStep => Nice!Next
    BY DEF NiceStep
  <2> QED BY <2>1, <2>2, <2>3 DEF EndNext
<1>4. [Input!Next]_(Input!vars)
  <2>1. NicerStep \/ NiceStep \/ QualityStep \/ UNCHANGED endVars => UNCHANGED inputVars
    BY DEF NicerStep, NiceStep, QualityStep, endVars
  <2>2. UNCHANGED inputVars => UNCHANGED Input!vars
    BY DEF inputVars, Input!vars, Input!threads, Input!packer
  <2>3. InputStep => Input!Next
    BY DEF InputStep
  <2> QED BY <2>1, <2>2, <2>3 DEF EndNext
<1>5. [Quality!Next]_(Quality!vars)
  <2>1. NicerStep \/ NiceStep \/ InputStep \/ UNCHANGED endVars => UNCHANGED qualityVars
    BY DEF NicerStep, NiceStep, InputStep, endVars
  <2>2. UNCHANGED qualityVars => UNCHANGED Quality!vars
    BY DEF qualityVars, Quality!vars, Quality!inputs, Quality!clocks
  <2>3. QualityStep => Quality!Next
    BY DEF QualityStep
  <2> QED BY <2>1, <2>2, <2>3 DEF EndNext
<1>6. IInv'
  BY <1>1, <1>2, InvStep, NicerSensible
<1>7. NiceInv'
  BY <1>1, <1>3, NiceStepInv
<1>8. InputInv'
  BY <1>1, <1>4, InputStepInv
<1>9. Managed'
  BY <1>1, <1>5, ManagedNext
<1> QED BY <1>6, <1>7, <1>8, <1>9 DEF EndInv

\* The invariants of the four ends hold side by side.
THEOREM EndpointsInductive == EndSpec => []EndInv
<1>1. EndInit => EndInv
  BY InvInit, NicerSensible, NiceInitInv, InputInitInv, ManagedInit DEF EndInit, EndInv
<1>2. EndInv /\ [EndNext]_endVars => EndInv'
  BY EndStepInv
<1> QED BY <1>1, <1>2, PTL DEF EndSpec

\* Whatever the candidates, callers and frames: a nICEr connection misuses memory
\* under the conditions of NicerSoundAlways only; the main loop of libnice runs on
\* a freed agent only where close() did not wait for it long enough (of its send,
\* data and selected pair nothing is claimed); each candidate of a single component
\* is told once; and the frames of an input go out whole, in turn and numbered
\* without a gap (NicerConnection.cpp:557, LibNiceConnection.cpp:91, 332,
\* ExternalInput.cpp:187).
THEOREM EndpointsAlways == EndSpec => []EndpointsSound
<1>1. EndInv => EndpointsSound
  <2> SUFFICES ASSUME EndInv PROVE EndpointsSound
    OBVIOUS
  <2>1. TypeOK /\ Sound
    BY NicerInvSound DEF EndInv
  <2>2. Nice!TypeOK /\ Nice!Sound
    BY NiceInvSound DEF EndInv
  <2>3. Input!TypeOK /\ Input!Sound
    BY InputInvSound DEF EndInv
  <2> QED BY <2>1, <2>2, <2>3 DEF EndpointsSound
<1>2. EndSpec => []EndInv
  BY EndpointsInductive
<1> QED BY <1>1, <1>2, PTL

\* Whatever the layers, their rates and the estimates: padding is sent only while
\* the manager chooses the layers itself, so never to a subscriber whose layers
\* are forced or not looked after (QualityManager.cpp:33, 52, 117).
THEOREM PaddingAlways == EndSpec => []PaddingOff
<1>1. EndInv => PaddingOff
  BY DEF EndInv, Managed, PaddingOff
<1> QED BY <1>1, EndpointsInductive, PTL

==============================================================================
