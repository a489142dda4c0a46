---------------------------- MODULE OneToManyProof ----------------------------
(***************************************************************************)
(* Proofs about OneToMany, for any number of subscribers and workers, and  *)
(* any bound on the calls, packets and requests for key frames.            *)
(***************************************************************************)
EXTENDS OneToMany, TLAPS

JobRec ==
  [do: {None, "video", "tick", "pubclose", "close", "feedback"}, who: Conns \cup {None},
   at: {"start", "frame", "deliver", "call"}, rest: SUBSET Peers, key: BOOLEAN]

Typed ==
  /\ source \in Sources /\ publisher \in BOOLEAN /\ pubOpen \in BOOLEAN /\ sink \in BOOLEAN
  /\ key \in BOOLEAN /\ owed \in BOOLEAN /\ crashed \in BOOLEAN
  /\ subscribers \in [Peers -> Conns \cup {None}]
  /\ fbSink \in SUBSET Conns /\ closed \in SUBSET Conns
  /\ added \in SUBSET Conns /\ replaced \in SUBSET Conns
  /\ monitor \in Threads \cup {"api", None}
  /\ api \in {"idle", "publisher", "lock", "next", "done"} \cup Peers /\ calls \in 0..MaxCalls
  /\ queue \in [Threads -> Seq(Jobs)] /\ job \in [Threads -> JobRec]
  /\ packets \in 0..MaxPackets /\ feedback \in 0..MaxFeedback

In(x, s) == \E i \in DOMAIN s : s[i] = x

\* The close of c is queued, or runs.
Pending(c) == \E t \in Threads : job[t] = Job("close", c) \/ In(Job("close", c), queue[t])

\* c was told to close, or did.
Doomed(c) == c \in closed \/ Pending(c)

\* The lock belongs to the thread that delivers, and to closeAll while it closes
\* subscribers: the map a delivery goes through does not change.
LockSound ==
  /\ \A t \in Threads : Runs(t, "video", "deliver") =>
       monitor = t /\ job[t].rest \subseteq Subscribed
  /\ api \in {"next"} \cup Peers => monitor = "api"

\* A connection subscribes once, and who was told to close is no longer in the
\* map, but for the one that closeAll waits for.
SubscribersSound ==
  /\ \A p \in Peers : subscribers[p] # None => subscribers[p] \in added
  /\ \A p, q \in Peers : subscribers[p] # None /\ subscribers[p] = subscribers[q] => p = q
  /\ \A c \in Conns : Doomed(c) => c \in added /\ \A p \in Peers : subscribers[p] = c => api = p

\* Who subscribed is in the map, was told to close, or was replaced.
AddedSound ==
  /\ \A c \in added : Doomed(c) \/ c \in replaced \/ \E p \in Peers : subscribers[p] = c
  /\ api = "done" => Subscribed = {}

\* What a thread has at hand: only a tick keeps what it read of the flag.
JobsSound ==
  \A t \in Threads :
    /\ job[t].key => job[t].do = "video" \/ (job[t].do = "tick" /\ job[t].at = "frame")
    /\ job[t].do \in {"close", "pubclose"} => job[t] \in Jobs
    /\ job[t].do \in {None} \cup {j.do : j \in Jobs}

OwedSound == (owed => source = "synthetic") /\ KeyframeOwed

IInv == Typed /\ LockSound /\ SubscribersSound /\ AddedSound /\ JobsSound /\ OwedSound

-----------------------------------------------------------------------------
(* Jobs and queues.                                                        *)

LEMMA JobTypes == Jobs \subseteq JobRec /\ NoJob \in JobRec
<1>1. ASSUME NEW d \in {None, "video", "tick", "pubclose", "close", "feedback"},
             NEW w \in Conns \cup {None}
      PROVE  Job(d, w) \in JobRec
  BY DEF Job, JobRec
<1>2. \A j \in Jobs : \E d \in {None, "video", "tick", "pubclose", "close", "feedback"},
                       w \in Conns \cup {None} : j = Job(d, w)
  BY DEF Jobs
<1> QED BY <1>1, <1>2 DEF NoJob

LEMMA JobFields ==
  ASSUME NEW j \in Jobs
  PROVE  /\ j \in JobRec /\ j.at = "start" /\ ~j.key /\ j.rest = {} /\ j = Job(j.do, j.who)
         /\ j.do \in {"video", "tick", "pubclose", "close", "feedback"}
         /\ \A c : j = Job("close", c) <=> j.do = "close" /\ j.who = c
         /\ j.do = "pubclose" => j.who = None
<1>1. /\ \A d, w : Job(d, w).do = d /\ Job(d, w).who = w /\ Job(d, w).at = "start"
      /\ \A d, w : Job(d, w).rest = {} /\ ~Job(d, w).key
  BY DEF Job
<1>2. \E d \in {"video", "tick", "pubclose", "close", "feedback"} : \E w : j = Job(d, w)
  BY DEF Jobs
<1>3. j \in JobRec
  BY JobTypes
<1>4. j.do = "pubclose" => j.who = None
  BY <1>1 DEF Jobs
<1> HIDE DEF Job
<1> QED BY <1>1, <1>2, <1>3, <1>4

LEMMA RecFields ==
  ASSUME NEW e \in JobRec
  PROVE  /\ e.do \in {None, "video", "tick", "pubclose", "close", "feedback"}
         /\ e.who \in Conns \cup {None} /\ e.at \in {"start", "frame", "deliver", "call"}
         /\ e.rest \in SUBSET Peers /\ e.key \in BOOLEAN
BY DEF JobRec

LEMMA InAppend ==
  ASSUME NEW S, NEW s \in Seq(S), NEW e \in S, NEW x
  PROVE  Append(s, e) \in Seq(S) /\ (In(x, Append(s, e)) <=> In(x, s) \/ x = e)
<1>1. /\ Append(s, e) \in Seq(S) /\ DOMAIN s = 1 .. Len(s) /\ Len(s) \in Nat
      /\ DOMAIN Append(s, e) = 1 .. Len(s) + 1
      /\ \A i \in 1 .. Len(s) : Append(s, e)[i] = s[i]
      /\ Append(s, e)[Len(s) + 1] = e
  OBVIOUS
<1>2. 1 .. Len(s) + 1 = 1 .. Len(s) \cup {Len(s) + 1}
  BY <1>1
<1> QED BY <1>1, <1>2, Zenon DEF In

LEMMA InTail ==
  ASSUME NEW S, NEW s \in Seq(S), s # <<>>, NEW x
  PROVE  Head(s) \in S /\ Tail(s) \in Seq(S) /\ (In(x, s) <=> x = Head(s) \/ In(x, Tail(s)))
<1>1. /\ Tail(s) \in Seq(S) /\ DOMAIN s = 1 .. Len(s) /\ Len(s) \in Nat /\ Len(s) # 0
      /\ DOMAIN Tail(s) = 1 .. Len(s) - 1
      /\ \A i \in 1 .. Len(s) - 1 : Tail(s)[i] = s[i + 1]
      /\ Head(s) = s[1] /\ Head(s) \in S
  OBVIOUS
<1>2. ASSUME In(x, s) PROVE x = Head(s) \/ In(x, Tail(s))
  <2>1. PICK i \in 1 .. Len(s) : s[i] = x
    BY <1>1, <1>2 DEF In
  <2>2. CASE i = 1
    BY <1>1, <2>1, <2>2
  <2>3. CASE i # 1
    <3>1. i - 1 \in 1 .. Len(s) - 1 /\ (i - 1) + 1 = i
      BY <1>1, <2>1, <2>3
    <3>2. Tail(s)[i - 1] = x
      BY <1>1, <2>1, <3>1
    <3> QED BY <1>1, <3>1, <3>2 DEF In
  <2> QED BY <2>2, <2>3
<1>3. ASSUME x = Head(s) PROVE In(x, s)
  <2>1. 1 \in 1 .. Len(s)
    BY <1>1
  <2> QED BY <1>1, <1>3, <2>1 DEF In
<1>4. ASSUME In(x, Tail(s)) PROVE In(x, s)
  <2>1. PICK i \in 1 .. Len(s) - 1 : Tail(s)[i] = x
    BY <1>1, <1>4 DEF In
  <2>2. i + 1 \in 1 .. Len(s) /\ s[i + 1] = x
    BY <1>1, <2>1
  <2> QED BY <1>1, <2>2 DEF In
<1> QED BY <1>1, <1>2, <1>3, <1>4

\* A task is queued.
LEMMA PostIs ==
  ASSUME Typed, NEW t \in Threads, NEW j \in Jobs, Post(t, j), job' = job
  PROVE  /\ queue' \in [Threads -> Seq(Jobs)]
         /\ \A c : Pending(c)' <=> Pending(c) \/ j = Job("close", c)
<1>1. /\ queue' = [queue EXCEPT ![t] = Append(queue[t], j)]
      /\ queue \in [Threads -> Seq(Jobs)]
  BY DEF Post, Typed
<1>2. \A x : /\ Append(queue[t], j) \in Seq(Jobs)
            /\ In(x, Append(queue[t], j)) <=> In(x, queue[t]) \/ x = j
  BY <1>1, InAppend
<1>3. queue' \in [Threads -> Seq(Jobs)]
  BY <1>1, <1>2
<1>4. \A u \in Threads : \A x : In(x, queue'[u]) <=> In(x, queue[u]) \/ (u = t /\ x = j)
  BY <1>1, <1>2
<1>5. \A c : Pending(c)' <=> Pending(c) \/ j = Job("close", c)
  BY <1>4, Zenon DEF Pending
<1> QED BY <1>3, <1>5

\* The job of t becomes e.
Now(t, e) == job' = [u \in Threads |-> IF u = t THEN e ELSE job[u]]

\* The job of a thread goes on.
LEMMA NowIs ==
  ASSUME Typed, NEW t \in Threads, NEW e \in JobRec, Now(t, e), queue' = queue,
         \A c : job[t] # Job("close", c) /\ e # Job("close", c)
  PROVE  /\ job' \in [Threads -> JobRec]
         /\ \A c : Pending(c)' <=> Pending(c)
<1>1. job \in [Threads -> JobRec]
  BY DEF Typed
<1>2. job' \in [Threads -> JobRec] /\ job'[t] = e /\ \A u \in Threads \ {t} : job'[u] = job[u]
  BY <1>1 DEF Now
<1>3. \A c, u \in Threads : job'[u] = Job("close", c) <=> job[u] = Job("close", c)
  BY <1>2
<1> QED BY <1>2, <1>3, Zenon DEF Pending

LEMMA NowForms ==
  ASSUME NEW t \in Threads, NEW J \in [Threads -> JobRec]
  PROVE  /\ \A e : [J EXCEPT ![t] = e] = [u \in Threads |-> IF u = t THEN e ELSE J[u]]
         /\ \A a : [J EXCEPT ![t].at = a] =
              [u \in Threads |-> IF u = t THEN [J[t] EXCEPT !.at = a] ELSE J[u]]
         /\ \A a, k : [J EXCEPT ![t].at = a, ![t].key = k] =
              [u \in Threads |-> IF u = t THEN [J[t] EXCEPT !.at = a, !.key = k] ELSE J[u]]
         /\ \A d, a : [J EXCEPT ![t].do = d, ![t].at = a] =
              [u \in Threads |-> IF u = t THEN [J[t] EXCEPT !.do = d, !.at = a] ELSE J[u]]
         /\ \A a, r : [J EXCEPT ![t].at = a, ![t].rest = r] =
              [u \in Threads |-> IF u = t THEN [J[t] EXCEPT !.at = a, !.rest = r] ELSE J[u]]
         /\ \A p : [J EXCEPT ![t].rest = @ \ {p}] =
              [u \in Threads |-> IF u = t THEN [J[t] EXCEPT !.rest = @ \ {p}] ELSE J[u]]
<1>1. J = [u \in Threads |-> J[u]]
  OBVIOUS
<1> QED BY <1>1

Framed(e, k) == [e EXCEPT !.at = "frame", !.key = k]
Filmed(e)    == [e EXCEPT !.do = "video", !.at = "start"]
Shared(e, r) == [e EXCEPT !.at = "deliver", !.rest = r]
Handed(e, p) == [e EXCEPT !.rest = @ \ {p}]
Called(e)    == [e EXCEPT !.at = "call"]

LEMMA SharedForm ==
  ASSUME NEW e \in JobRec, NEW r \in SUBSET Peers
  PROVE  /\ Shared(e, r) \in JobRec /\ Shared(e, r).do = e.do /\ Shared(e, r).at = "deliver"
         /\ Shared(e, r).rest = r
BY DEF JobRec, Shared

LEMMA HandedForm ==
  ASSUME NEW e \in JobRec, NEW p
  PROVE  /\ Handed(e, p) \in JobRec /\ Handed(e, p).do = e.do /\ Handed(e, p).at = e.at
         /\ Handed(e, p).rest = e.rest \ {p}
BY DEF JobRec, Handed

LEMMA RecForms ==
  ASSUME NEW e \in JobRec
  PROVE  /\ \A k \in BOOLEAN :
              /\ Framed(e, k) \in JobRec /\ Framed(e, k).do = e.do
              /\ Framed(e, k).at = "frame" /\ Framed(e, k).key = k
         /\ /\ Filmed(e) \in JobRec /\ Filmed(e).do = "video"
            /\ Filmed(e).at = "start" /\ Filmed(e).key = e.key
         /\ /\ Called(e) \in JobRec /\ Called(e).do = e.do
            /\ Called(e).at = "call" /\ Called(e).key = e.key
BY DEF JobRec, Framed, Filmed, Called

-----------------------------------------------------------------------------
(* What a worker does to its job, action by action.                        *)

LEMMA BeginIs ==
  ASSUME Typed, NEW t \in Threads, Begin(t)
  PROVE  /\ queue' \in [Threads -> Seq(Jobs)] /\ job' \in [Threads -> JobRec]
         /\ job'[t] \in Jobs /\ job[t] = NoJob /\ \A u \in Threads \ {t} : job'[u] = job[u]
         /\ \A c : Pending(c)' <=> Pending(c)
<1>1. /\ queue \in [Threads -> Seq(Jobs)] /\ job \in [Threads -> JobRec] /\ queue[t] # <<>>
      /\ queue' = [queue EXCEPT ![t] = Tail(queue[t])]
      /\ job' = [job EXCEPT ![t] = Head(queue[t])] /\ job[t] = NoJob
  BY DEF Typed, Begin
<1>2. /\ Head(queue[t]) \in Jobs /\ Tail(queue[t]) \in Seq(Jobs)
      /\ \A x : In(x, queue[t]) <=> x = Head(queue[t]) \/ In(x, Tail(queue[t]))
  BY <1>1, InTail
<1>3. Head(queue[t]) \in JobRec
  BY <1>2, JobTypes
<1>4. /\ queue' \in [Threads -> Seq(Jobs)] /\ job' \in [Threads -> JobRec]
      /\ job'[t] = Head(queue[t]) /\ \A u \in Threads \ {t} : job'[u] = job[u]
      /\ queue'[t] = Tail(queue[t]) /\ \A u \in Threads \ {t} : queue'[u] = queue[u]
  BY <1>1, <1>2, <1>3
<1>5. \A c : NoJob # Job("close", c)
  <2>1. \A d, w : Job(d, w).do = d
    BY DEF Job
  <2> QED BY <2>1 DEF NoJob, None
<1> DEFINE Mine(c, u) == job[u] = Job("close", c) \/ In(Job("close", c), queue[u])
<1>6. \A c : \A u \in Threads : Mine(c, u)' <=> Mine(c, u)
  <2> SUFFICES ASSUME NEW c, NEW u \in Threads
               PROVE  Mine(c, u)' <=> Mine(c, u)
    OBVIOUS
  <2>1. CASE u = t
    BY <1>1, <1>2, <1>4, <1>5, <2>1
  <2>2. CASE u # t
    BY <1>4, <2>2
  <2> QED BY <2>1, <2>2
<1>7. \A c : Pending(c)' <=> Pending(c)
  BY <1>6 DEF Pending
<1> QED BY <1>1, <1>2, <1>4, <1>7

LEMMA NoCloses ==
  /\ \A d, w : Job(d, w).do = d /\ Job(d, w).who = w
  /\ NoJob.do = None /\ NoJob.at = "start" /\ ~NoJob.key /\ NoJob \in JobRec
  /\ \A e \in JobRec : e.do # "close" => \A c : e # Job("close", c)
<1>1. \A d, w : Job(d, w).do = d /\ Job(d, w).who = w /\ Job(d, w).at = "start" /\ ~Job(d, w).key
  BY DEF Job
<1> QED BY <1>1, JobTypes DEF NoJob

\* What is left of a close that ran is that its connection is closed.
LEMMA CloseIs ==
  ASSUME Sensible, Typed, JobsSound, NEW t \in Threads, RunClose(t)
  PROVE  /\ Now(t, NoJob) /\ job' \in [Threads -> JobRec] /\ queue' = queue
         /\ closed' \in SUBSET Conns /\ closed \subseteq closed' /\ ~job[t].key
         /\ \A c \in Conns : Doomed(c)' <=> Doomed(c)
<1>1. /\ job \in [Threads -> JobRec] /\ closed \in SUBSET Conns
      /\ job' = [job EXCEPT ![t] = NoJob] /\ queue' = queue
      /\ closed' = closed \cup ({job[t].who} \ {None})
      /\ job[t].do \in {"close", "pubclose"}
  BY DEF Typed, RunClose, End, Outside
<1>2. Now(t, NoJob) /\ job' \in [Threads -> JobRec]
  BY <1>1, NowForms, NoCloses DEF Now
<1>3. job[t] \in Jobs
  BY <1>1 DEF JobsSound
<1>4. /\ job[t].who \in Conns \cup {None} /\ ~job[t].key
      /\ \A c : job[t] = Job("close", c) <=> job[t].do = "close" /\ job[t].who = c
      /\ job[t].do = "pubclose" => job[t].who = None
  BY <1>3, JobFields, RecFields
<1>5. job'[t] = NoJob /\ \A u \in Threads \ {t} : job'[u] = job[u]
  BY <1>1
<1>6. \A c : NoJob # Job("close", c)
  BY NoCloses DEF None
<1>7. ASSUME NEW c \in Conns
      PROVE  Doomed(c)' <=> Doomed(c)
  <2>1. Pending(c)' => Pending(c)
    BY <1>1, <1>5, <1>6 DEF Pending
  <2>2. Pending(c) => Pending(c)' \/ job[t] = Job("close", c)
    BY <1>1, <1>5 DEF Pending
  <2>3. job[t] = Job("close", c) => Pending(c)
    BY DEF Pending
  <2>4. job[t] = Job("close", c) => c \in closed' \/ c = None
    BY <1>1, <1>4
  <2>5. c \in closed' => c \in closed \/ job[t] = Job("close", c)
    BY <1>1, <1>4
  <2>6. c \in closed => c \in closed'
    BY <1>1
  <2>7. c = None => FALSE
    BY DEF Sensible
  <2> QED BY <2>1, <2>2, <2>3, <2>4, <2>5, <2>6, <2>7 DEF Doomed
<1> QED BY <1>1, <1>2, <1>4, <1>7

\* The jobs of a packet, a tick and a request, from one step to the next.
Moves(t) ==
  \/ RunTick(t) \/ RunFrame(t) \/ RunVideo(t) \/ RunDeliver(t) \/ RunFeedback(t) \/ RunFeedbackCall(t)

\* What a step of these makes of the job.
MoveTo(t, e) ==
  \/ /\ RunTick(t) /\ e.do = "tick" /\ e.at = "frame" /\ e.key = key
  \/ /\ RunFrame(t) /\ e.do = "video" /\ e.at = "start" /\ e.key = job[t].key
  \/ /\ RunVideo(t) /\ (e = NoJob \/ (e.do = "video" /\ e.at = "deliver" /\ e.rest = Subscribed))
     /\ e # NoJob => monitor' = t
  \/ /\ RunDeliver(t)
     /\ \/ e = NoJob /\ monitor' = None
        \/ e.do = "video" /\ e.at = "deliver" /\ e.rest \subseteq job[t].rest /\ monitor' = monitor
  \/ /\ RunFeedback(t) /\ (e = NoJob \/ (e.do = "feedback" /\ e.at = "call" /\ e.key = job[t].key))
  \/ RunFeedbackCall(t) /\ e = NoJob

LEMMA MovesIs ==
  ASSUME Typed, NEW t \in Threads, Moves(t)
  PROVE  \E e \in JobRec : Now(t, e) /\ MoveTo(t, e)
<1>1. job \in [Threads -> JobRec] /\ key \in BOOLEAN /\ Subscribed \in SUBSET Peers
  BY DEF Typed, Subscribed
<1>2. job[t] \in JobRec /\ NoJob \in JobRec
  BY <1>1, NoCloses
<1>3. CASE RunTick(t)
  <2> DEFINE e == Framed(job[t], key)
  <2>1. job' = [job EXCEPT ![t].at = "frame", ![t].key = key] /\ job[t].do = "tick"
    BY <1>3 DEF RunTick, Runs
  <2>2. Now(t, e)
    BY <1>1, <2>1, NowForms, Zenon DEF Now, Framed
  <2>3. e \in JobRec /\ e.do = job[t].do /\ e.at = "frame" /\ e.key = key
    BY <1>1, <1>2, RecForms
  <2> HIDE DEF e
  <2> QED BY <1>3, <2>1, <2>2, <2>3 DEF MoveTo
<1>4. CASE RunFrame(t)
  <2> DEFINE e == Filmed(job[t])
  <2>1. job' = [job EXCEPT ![t].do = "video", ![t].at = "start"]
    BY <1>4 DEF RunFrame
  <2>2. Now(t, e)
    BY <1>1, <2>1, NowForms, Zenon DEF Now, Filmed
  <2>3. e \in JobRec /\ e.do = "video" /\ e.at = "start" /\ e.key = job[t].key
    BY <1>2, RecForms
  <2> HIDE DEF e
  <2> QED BY <1>4, <2>2, <2>3 DEF MoveTo
<1>5. ASSUME End(t) PROVE Now(t, NoJob)
  BY <1>1, <1>5, NowForms DEF Now, End
<1>6. CASE RunVideo(t)
  <2> DEFINE e == Shared(job[t], Subscribed)
  <2>1. \/ End(t)
        \/ monitor' = t /\ job' = [job EXCEPT ![t].at = "deliver", ![t].rest = Subscribed]
    BY <1>6 DEF RunVideo
  <2>2. job[t].do = "video"
    BY <1>6 DEF RunVideo, Runs
  <2>3. CASE End(t)
    BY <1>2, <1>5, <1>6, <2>3 DEF MoveTo
  <2>4. CASE monitor' = t /\ job' = [job EXCEPT ![t].at = "deliver", ![t].rest = Subscribed]
    <3>1. Now(t, e)
      BY <1>1, <2>4, NowForms, Zenon DEF Now, Shared
    <3>2. e \in JobRec /\ e.do = job[t].do /\ e.at = "deliver" /\ e.rest = Subscribed
      BY <1>1, <1>2, SharedForm
    <3> HIDE DEF e
    <3> QED BY <1>6, <2>2, <2>4, <3>1, <3>2 DEF MoveTo
  <2> QED BY <2>1, <2>3, <2>4
<1>7. CASE RunDeliver(t)
  <2>1. PICK p : IF job[t].rest = {p} THEN End(t) /\ monitor' = None
                 ELSE job' = [job EXCEPT ![t].rest = @ \ {p}] /\ monitor' = monitor
    BY <1>7 DEF RunDeliver
  <2> DEFINE e == Handed(job[t], p)
  <2>2. job[t].do = "video" /\ job[t].at = "deliver"
    BY <1>7 DEF RunDeliver, Runs
  <2>3. CASE End(t) /\ monitor' = None
    BY <1>2, <1>5, <1>7, <2>3 DEF MoveTo
  <2>4. CASE job' = [job EXCEPT ![t].rest = @ \ {p}] /\ monitor' = monitor
    <3>1. Now(t, e)
      BY <1>1, <2>4, NowForms, Zenon DEF Now, Handed
    <3>2. e \in JobRec /\ e.do = job[t].do /\ e.at = job[t].at /\ e.rest = job[t].rest \ {p}
      BY <1>2, HandedForm
    <3>3. e.rest \subseteq job[t].rest
      BY <3>2
    <3> HIDE DEF e
    <3> QED BY <1>7, <2>2, <2>4, <3>1, <3>2, <3>3 DEF MoveTo
  <2> QED BY <2>1, <2>3, <2>4
<1>8. CASE RunFeedback(t)
  <2> DEFINE e == Called(job[t])
  <2>1. End(t) \/ job' = [job EXCEPT ![t].at = "call"]
    BY <1>8 DEF RunFeedback
  <2>2. job[t].do = "feedback"
    BY <1>8 DEF RunFeedback, Runs
  <2>3. CASE End(t)
    BY <1>2, <1>5, <1>8, <2>3 DEF MoveTo
  <2>4. CASE job' = [job EXCEPT ![t].at = "call"]
    <3>1. Now(t, e)
      BY <1>1, <2>4, NowForms, Zenon DEF Now, Called
    <3>2. e \in JobRec /\ e.do = job[t].do /\ e.at = "call" /\ e.key = job[t].key
      BY <1>2, RecForms
    <3> HIDE DEF e
    <3> QED BY <1>8, <2>2, <3>1, <3>2 DEF MoveTo
  <2> QED BY <2>1, <2>3, <2>4
<1>9. CASE RunFeedbackCall(t)
  BY <1>2, <1>5, <1>9 DEF MoveTo, RunFeedbackCall
<1> QED BY <1>3, <1>4, <1>6, <1>7, <1>8, <1>9 DEF Moves

\* None of them closes a connection.
LEMMA MovesKeep ==
  ASSUME Typed, NEW t \in Threads, Moves(t)
  PROVE  /\ job' \in [Threads -> JobRec] /\ queue' = queue /\ closed' = closed
         /\ job[t].do # "close" /\ \A c : Doomed(c)' <=> Doomed(c)
<1>1. PICK e \in JobRec : Now(t, e) /\ MoveTo(t, e)
  BY MovesIs
<1>2. queue' = queue /\ closed' = closed /\ job[t].do \in {"video", "tick", "feedback"}
  BY DEF Moves, RunTick, RunFrame, RunVideo, RunDeliver, RunFeedback, RunFeedbackCall, Runs,
         Outside
<1>3. e.do # "close"
  BY <1>1, NoCloses DEF MoveTo, None
<1>4. job[t] \in JobRec
  BY DEF Typed
<1>5. \A c : job[t] # Job("close", c) /\ e # Job("close", c)
  BY <1>2, <1>3, <1>4, NoCloses
<1>6. job' \in [Threads -> JobRec] /\ \A c : Pending(c)' <=> Pending(c)
  BY <1>1, <1>2, <1>5, NowIs
<1> QED BY <1>2, <1>6 DEF Doomed

-----------------------------------------------------------------------------
(* The caller and what comes from outside: the threads keep their jobs.    *)

LEMMA JobsKept ==
  ASSUME IInv, UNCHANGED <<source, key, owed, job>>
  PROVE  JobsSound' /\ OwedSound'
BY DEF IInv, JobsSound, OwedSound, KeyframeOwed

LEMMA CloseJobs ==
  /\ \A c \in Conns : Job("close", c) \in Jobs /\ Job("feedback", c) \in Jobs
  /\ Job("video", None) \in Jobs /\ Job("tick", None) \in Jobs /\ Job("pubclose", None) \in Jobs
  /\ \A d, w, c : d # "close" => Job(d, w) # Job("close", c)
  /\ \A c, d : Job("close", c) = Job("close", d) => c = d
<1>1. \A d, w, c : d # "close" => Job(d, w) # Job("close", c)
  BY NoCloses
<1>2. \A c, d : Job("close", c) = Job("close", d) => c = d
  BY NoCloses
<1> QED BY <1>1, <1>2 DEF Jobs

LEMMA InConns ==
  ASSUME Sensible, Typed, NEW p \in Peers, subscribers[p] # None
  PROVE  subscribers[p] \in Conns /\ WorkerOf[subscribers[p]] \in Threads
BY DEF Sensible, Typed, Threads

\* Nobody subscribes or leaves, and nobody is told to close.
LEMMA SameSubscribers ==
  ASSUME IInv, UNCHANGED <<subscribers, added, replaced, api>>,
         \A c \in Conns : Doomed(c)' <=> Doomed(c)
  PROVE  SubscribersSound' /\ AddedSound'
<1>1. added \subseteq Conns
  BY DEF IInv, Typed
<1>2. SubscribersSound'
  BY DEF IInv, SubscribersSound
<1>3. AddedSound'
  BY <1>1 DEF IInv, AddedSound, Subscribed
<1> QED BY <1>2, <1>3

LEMMA SameLock ==
  ASSUME IInv, UNCHANGED <<job, monitor, api, subscribers>>
  PROVE  LockSound'
BY DEF IInv, LockSound, Runs, Subscribed

LEMMA Posted ==
  ASSUME IInv, NEW t \in Threads, NEW j \in Jobs, Post(t, j), UNCHANGED <<job, closed>>
  PROVE  /\ queue' \in [Threads -> Seq(Jobs)] /\ job' \in [Threads -> JobRec]
         /\ \A c : Doomed(c)' <=> Doomed(c) \/ j = Job("close", c)
BY PostIs DEF IInv, Typed, Doomed

LEMMA NothingPosted ==
  ASSUME UNCHANGED <<queue, job, closed>>
  PROVE  \A c : Doomed(c)' <=> Doomed(c)
BY DEF Doomed, Pending

LEMMA AddSubscriberKeeps ==
  ASSUME Sensible, IInv, NEW c \in Conns, NEW p \in Peers, AddSubscriber(c, p)
  PROVE  IInv'
<1>1. /\ api = "idle" /\ monitor = None /\ c \notin added /\ added' = added \cup {c}
      /\ replaced' = replaced \cup ({subscribers[p]} \ {None})
      /\ subscribers' = [subscribers EXCEPT ![p] = c]
      /\ UNCHANGED <<source, closed, monitor, api, queue, job, key, owed>>
  BY DEF AddSubscriber, media
<1>2. /\ subscribers \in [Peers -> Conns \cup {None}] /\ added \in SUBSET Conns
      /\ job \in [Threads -> JobRec] /\ None \notin Threads /\ None \notin Conns
  BY DEF IInv, Typed, Sensible
<1>3. /\ subscribers' \in [Peers -> Conns \cup {None}] /\ subscribers'[p] = c
      /\ \A q \in Peers \ {p} : subscribers'[q] = subscribers[q]
  BY <1>1, <1>2
<1>4. Typed'
  <2>1. calls' \in 0 .. MaxCalls
    BY DEF AddSubscriber, IInv, Typed, Sensible
  <2>2. /\ added' \in SUBSET Conns /\ replaced' \in SUBSET Conns
        /\ fbSink' = fbSink \cup {c} /\ fbSink \in SUBSET Conns
    BY <1>1, <1>2 DEF IInv, Typed, AddSubscriber
  <2>3. fbSink' \in SUBSET Conns
    BY <2>2
  <2> QED BY <1>1, <1>3, <2>1, <2>2, <2>3 DEF IInv, Typed, AddSubscriber, media
<1>5. \A d : Doomed(d)' <=> Doomed(d)
  BY <1>1, NothingPosted
<1>6. \A t \in Threads : ~Runs(t, "video", "deliver")
  BY <1>1, <1>2 DEF IInv, LockSound
<1>7. LockSound'
  BY <1>1, <1>6 DEF IInv, LockSound, Runs
<1>8. \A q \in Peers : subscribers[q] # c
  BY <1>1, <1>2 DEF IInv, SubscribersSound
<1>9. SubscribersSound'
  <2>1. \A q \in Peers : subscribers'[q] # None => subscribers'[q] \in added'
    BY <1>1, <1>3 DEF IInv, SubscribersSound
  <2>2. \A q, r \in Peers : subscribers'[q] # None /\ subscribers'[q] = subscribers'[r] => q = r
    BY <1>3, <1>8 DEF IInv, SubscribersSound
  <2>3. ~Doomed(c)
    BY <1>1 DEF IInv, SubscribersSound
  <2>4. ASSUME NEW d \in Conns, Doomed(d)'
        PROVE  d \in added' /\ \A q \in Peers : subscribers'[q] = d => api' = q
    <3>1. d # c /\ d \in added /\ \A q \in Peers : subscribers[q] = d => api = q
      BY <1>5, <2>3, <2>4 DEF IInv, SubscribersSound
    <3> QED BY <1>1, <1>3, <3>1
  <2> QED BY <2>1, <2>2, <2>4 DEF SubscribersSound
<1>10. AddedSound'
  <2>1. ASSUME NEW d \in added'
        PROVE  Doomed(d)' \/ d \in replaced' \/ \E q \in Peers : subscribers'[q] = d
    <3>1. CASE d = c
      BY <1>3, <3>1
    <3>2. CASE d \in added
      <4>1. d \in Conns
        BY <1>2, <3>2
      <4>2. Doomed(d) \/ d \in replaced \/ \E q \in Peers : subscribers[q] = d
        BY <3>2 DEF IInv, AddedSound
      <4> QED BY <1>1, <1>2, <1>3, <1>5, <4>1, <4>2
    <3> QED BY <1>1, <3>1, <3>2
  <2>2. api' # "done"
    BY <1>1
  <2> QED BY <2>1, <2>2 DEF AddedSound
<1>11. JobsSound' /\ OwedSound'
  BY <1>1, JobsKept
<1> QED BY <1>4, <1>7, <1>9, <1>10, <1>11 DEF IInv

LEMMA RemoveSubscriberKeeps ==
  ASSUME Sensible, IInv, NEW p \in Peers, RemoveSubscriber(p)
  PROVE  IInv'
<1> DEFINE c == subscribers[p]
<1>1. /\ api = "idle" /\ monitor = None /\ c # None
      /\ Post(WorkerOf[c], Job("close", c))
      /\ subscribers' = [subscribers EXCEPT ![p] = None]
      /\ UNCHANGED <<source, closed, monitor, api, added, replaced, job, key, owed>>
  BY DEF RemoveSubscriber, media
<1>2. /\ subscribers \in [Peers -> Conns \cup {None}] /\ added \in SUBSET Conns
      /\ job \in [Threads -> JobRec] /\ None \notin Threads /\ None \notin Conns
  BY DEF IInv, Typed, Sensible
<1>3. /\ subscribers' \in [Peers -> Conns \cup {None}] /\ subscribers'[p] = None
      /\ \A q \in Peers \ {p} : subscribers'[q] = subscribers[q]
  BY <1>1, <1>2
<1>4. c \in Conns /\ WorkerOf[c] \in Threads /\ Job("close", c) \in Jobs
  BY <1>1, InConns, CloseJobs DEF IInv
<1>5. /\ queue' \in [Threads -> Seq(Jobs)] /\ job' \in [Threads -> JobRec]
      /\ \A d : Doomed(d)' <=> Doomed(d) \/ d = c
  <2>1. /\ queue' \in [Threads -> Seq(Jobs)] /\ job' \in [Threads -> JobRec]
        /\ \A d : Doomed(d)' <=> Doomed(d) \/ Job("close", c) = Job("close", d)
    BY <1>1, <1>4, Posted
  <2> HIDE DEF c
  <2> QED BY <2>1, CloseJobs
<1>6. Typed'
  <2>1. calls' \in 0 .. MaxCalls
    BY DEF RemoveSubscriber, IInv, Typed, Sensible
  <2> QED BY <1>1, <1>3, <1>5, <2>1 DEF IInv, Typed, RemoveSubscriber, media
<1>7. \A t \in Threads : ~Runs(t, "video", "deliver")
  BY <1>1, <1>2 DEF IInv, LockSound
<1>8. LockSound'
  BY <1>1, <1>7 DEF IInv, LockSound, Runs
<1> HIDE DEF c
<1>9. SubscribersSound'
  <2>1. \A q \in Peers : subscribers'[q] # None => subscribers'[q] \in added'
    BY <1>1, <1>3 DEF IInv, SubscribersSound
  <2>2. \A q, r \in Peers : subscribers'[q] # None /\ subscribers'[q] = subscribers'[r] => q = r
    BY <1>3 DEF IInv, SubscribersSound
  <2>3. \A q \in Peers : subscribers[q] = c => q = p
    BY <1>1, <1>2 DEF IInv, SubscribersSound, c
  <2>4. c \in added
    BY <1>1 DEF IInv, SubscribersSound, c
  <2>5. ASSUME NEW d \in Conns, Doomed(d)'
        PROVE  d \in added' /\ \A q \in Peers : subscribers'[q] = d => api' = q
    <3>1. CASE d = c
      BY <1>1, <1>2, <1>3, <2>3, <2>4, <3>1
    <3>2. CASE Doomed(d)
      <4>1. d \in added /\ \A q \in Peers : subscribers[q] = d => api = q
        BY <3>2 DEF IInv, SubscribersSound
      <4> QED BY <1>1, <1>2, <1>3, <4>1
    <3> QED BY <1>5, <2>5, <3>1, <3>2
  <2> QED BY <2>1, <2>2, <2>5 DEF SubscribersSound
<1>10. AddedSound'
  <2>1. ASSUME NEW d \in added'
        PROVE  Doomed(d)' \/ d \in replaced' \/ \E q \in Peers : subscribers'[q] = d
    <3>1. Doomed(d) \/ d \in replaced \/ \E q \in Peers : subscribers[q] = d
      BY <1>1, <2>1 DEF IInv, AddedSound
    <3> QED BY <1>1, <1>3, <1>5, <3>1 DEF c
  <2>2. api' # "done"
    BY <1>1
  <2> QED BY <2>1, <2>2 DEF AddedSound
<1>11. JobsSound' /\ OwedSound'
  BY <1>1, JobsKept
<1> QED BY <1>6, <1>8, <1>9, <1>10, <1>11 DEF IInv

LEMMA PacketKeeps ==
  ASSUME Sensible, IInv, Packet
  PROVE  IInv'
<1> DEFINE j == Job(IF source = "synthetic" THEN "tick" ELSE "video", None)
<1>1. /\ Post(SourceThread, j)
      /\ UNCHANGED <<source, closed, monitor, api, subscribers, added, replaced, job, key, owed>>
  BY DEF Packet
<1>2. SourceThread \in Threads /\ j \in Jobs /\ \A c : j # Job("close", c)
  BY CloseJobs DEF SourceThread, Threads, Sensible
<1>3. /\ queue' \in [Threads -> Seq(Jobs)] /\ job' \in [Threads -> JobRec]
      /\ \A d : Doomed(d)' <=> Doomed(d)
  <2> HIDE DEF j
  <2> QED BY <1>1, <1>2, Posted
<1>4. Typed'
  <2>1. packets' \in 0 .. MaxPackets
    BY DEF Packet, IInv, Typed, Sensible
  <2> QED BY <1>3, <2>1 DEF IInv, Typed, Packet
<1> QED BY <1>1, <1>3, <1>4, SameLock, SameSubscribers, JobsKept DEF IInv

LEMMA FeedbackKeeps ==
  ASSUME Sensible, IInv, NEW c \in Conns, Feedback(c)
  PROVE  IInv'
<1> DEFINE j == Job("feedback", c)
<1>1. /\ Post(WorkerOf[c], j)
      /\ UNCHANGED <<source, closed, monitor, api, subscribers, added, replaced, job, key, owed>>
  BY DEF Feedback
<1>2. WorkerOf[c] \in Threads /\ j \in Jobs /\ \A d : j # Job("close", d)
  BY CloseJobs DEF Threads, Sensible
<1>3. /\ queue' \in [Threads -> Seq(Jobs)] /\ job' \in [Threads -> JobRec]
      /\ \A d : Doomed(d)' <=> Doomed(d)
  <2> HIDE DEF j
  <2> QED BY <1>1, <1>2, Posted
<1>4. Typed'
  <2>1. feedback' \in 0 .. MaxFeedback
    BY DEF Feedback, IInv, Typed, Sensible
  <2> QED BY <1>3, <2>1 DEF IInv, Typed, Feedback
<1> QED BY <1>1, <1>3, <1>4, SameLock, SameSubscribers, JobsKept DEF IInv

-----------------------------------------------------------------------------
(* closeAll.                                                               *)

\* closeAll goes on, from a place where no subscriber is being closed.
LEMMA CallerMoves ==
  ASSUME IInv, api \notin Peers, UNCHANGED <<subscribers, added, replaced>>,
         api' = "done" => Subscribed = {},
         \A c \in Conns : Doomed(c)' <=> Doomed(c)
  PROVE  SubscribersSound' /\ AddedSound'
<1>1. added \subseteq Conns
  BY DEF IInv, Typed
<1>2. \A c \in Conns : Doomed(c) => c \in added /\ \A p \in Peers : subscribers[p] # c
  BY DEF IInv, SubscribersSound
<1>3. SubscribersSound'
  BY <1>2 DEF IInv, SubscribersSound
<1>4. Subscribed' = Subscribed
  BY DEF Subscribed
<1>5. AddedSound'
  BY <1>1, <1>4 DEF IInv, AddedSound
<1> QED BY <1>3, <1>5

LEMMA ApiNames ==
  ASSUME Sensible, NEW p \in Peers
  PROVE  p \notin {"idle", "publisher", "lock", "next", "done"}
BY DEF Sensible

LEMMA CloseAllKeeps ==
  ASSUME Sensible, IInv, CloseAll
  PROVE  IInv'
<1>1. /\ api = "idle" /\ api' \in {"publisher", "lock"} /\ api' \notin Peers
      /\ UNCHANGED <<source, closed, monitor, subscribers, added, replaced, job, key, owed>>
  BY ApiNames DEF CloseAll, media
<1>2. PubWorker \in Threads /\ Job("pubclose", None) \in Jobs
      /\ \A c : Job("pubclose", None) # Job("close", c)
  BY CloseJobs DEF Sensible, Threads
<1>3. /\ queue' \in [Threads -> Seq(Jobs)] /\ job' \in [Threads -> JobRec]
      /\ \A d : Doomed(d)' <=> Doomed(d)
  <2>1. CASE Post(PubWorker, Job("pubclose", None))
    BY <1>1, <1>2, <2>1, Posted
  <2>2. CASE queue' = queue
    BY <1>1, <2>2, NothingPosted DEF IInv, Typed
  <2> QED BY <2>1, <2>2 DEF CloseAll
<1>4. Typed'
  BY <1>1, <1>3 DEF IInv, Typed, CloseAll, media
<1>5. LockSound'
  BY <1>1 DEF IInv, LockSound, Runs, Subscribed
<1>6. SubscribersSound' /\ AddedSound'
  BY <1>1, <1>3, CallerMoves, ApiNames
<1> QED BY <1>1, <1>4, <1>5, <1>6, JobsKept DEF IInv

LEMMA PublisherClosedKeeps ==
  ASSUME Sensible, IInv, PublisherClosed
  PROVE  IInv'
<1>1. /\ api = "publisher" /\ api' = "lock" /\ api \notin Peers /\ api' \notin Peers
      /\ UNCHANGED <<source, closed, monitor, subscribers, added, replaced, queue, job, key, owed>>
  BY ApiNames DEF PublisherClosed, media
<1>2. Typed'
  BY <1>1 DEF IInv, Typed, PublisherClosed, media
<1>3. LockSound'
  BY <1>1 DEF IInv, LockSound, Runs, Subscribed
<1>4. SubscribersSound' /\ AddedSound'
  BY <1>1, CallerMoves, NothingPosted
<1> QED BY <1>1, <1>2, <1>3, <1>4, JobsKept DEF IInv

LEMMA LockAllKeeps ==
  ASSUME Sensible, IInv, LockAll
  PROVE  IInv'
<1>1. /\ api = "lock" /\ api' = "next" /\ api \notin Peers /\ monitor = None /\ monitor' = "api"
      /\ UNCHANGED <<source, closed, subscribers, added, replaced, queue, job, key, owed>>
  BY ApiNames DEF LockAll, media
<1>2. Typed'
  BY <1>1 DEF IInv, Typed, LockAll, media
<1>3. \A t \in Threads : ~Runs(t, "video", "deliver")
  BY <1>1 DEF IInv, LockSound, Sensible
<1>4. LockSound'
  BY <1>1, <1>3 DEF LockSound, Runs
<1>5. SubscribersSound' /\ AddedSound'
  BY <1>1, CallerMoves, NothingPosted
<1> QED BY <1>1, <1>2, <1>4, <1>5, JobsKept DEF IInv

LEMMA CloseNextKeeps ==
  ASSUME Sensible, IInv, CloseNext
  PROVE  IInv'
<1>1. /\ api = "next" /\ api \notin Peers /\ monitor = "api"
      /\ UNCHANGED <<source, closed, subscribers, added, replaced, job, key, owed>>
  BY ApiNames DEF CloseNext, media, IInv, LockSound
<1>2. \A t \in Threads : ~Runs(t, "video", "deliver")
  BY <1>1 DEF IInv, LockSound, Sensible
<1>3. JobsSound' /\ OwedSound'
  BY <1>1, JobsKept
<1>4. CASE Subscribed = {}
  <2>1. api' = "done" /\ monitor' = None /\ queue' = queue /\ api' \notin Peers
    BY <1>4, ApiNames DEF CloseNext
  <2>2. Typed'
    BY <1>1, <2>1 DEF IInv, Typed, CloseNext, media
  <2>3. LockSound'
    BY <1>1, <1>2, <2>1 DEF LockSound, Runs
  <2>4. SubscribersSound' /\ AddedSound'
    BY <1>1, <1>4, <2>1, CallerMoves, NothingPosted
  <2> QED BY <1>3, <2>2, <2>3, <2>4 DEF IInv
<1>5. CASE Subscribed # {}
  <2>1. PICK p \in Subscribed : /\ api' = p /\ monitor' = monitor
                                /\ Post(WorkerOf[subscribers[p]], Job("close", subscribers[p]))
    BY <1>5 DEF CloseNext
  <2> DEFINE c == subscribers[p]
  <2>2. p \in Peers /\ c # None /\ c \in Conns /\ WorkerOf[c] \in Threads /\ Job("close", c) \in Jobs
    BY <2>1, InConns, CloseJobs DEF IInv, Subscribed
  <2>3. /\ queue' \in [Threads -> Seq(Jobs)] /\ job' \in [Threads -> JobRec]
        /\ \A d : Doomed(d)' <=> Doomed(d) \/ d = c
    <3>1. /\ queue' \in [Threads -> Seq(Jobs)] /\ job' \in [Threads -> JobRec]
          /\ \A d : Doomed(d)' <=> Doomed(d) \/ Job("close", c) = Job("close", d)
      BY <1>1, <2>1, <2>2, Posted
    <3> HIDE DEF c
    <3> QED BY <3>1, CloseJobs
  <2>4. Typed'
    BY <1>1, <2>1, <2>2, <2>3 DEF IInv, Typed, CloseNext, media
  <2>5. LockSound'
    BY <1>1, <1>2, <2>1 DEF LockSound, Runs
  <2>6. SubscribersSound'
    <3>1. \A d \in Conns : Doomed(d) => d \in added /\ \A q \in Peers : subscribers[q] # d
      BY <1>1 DEF IInv, SubscribersSound
    <3>2. \A q \in Peers : subscribers[q] = c => q = p
      BY <2>2 DEF IInv, SubscribersSound
    <3>3. c \in added
      BY <2>2 DEF IInv, SubscribersSound
    <3> HIDE DEF c
    <3>4. \A d \in Conns : Doomed(d)' =>
            d \in added' /\ \A q \in Peers : subscribers'[q] = d => api' = q
      BY <1>1, <2>1, <2>3, <3>1, <3>2, <3>3
    <3> QED BY <1>1, <3>4 DEF IInv, SubscribersSound
  <2>7. AddedSound'
    <3>1. api' # "done"
      BY <2>1, <2>2, ApiNames
    <3> HIDE DEF c
    <3> QED BY <1>1, <2>3, <3>1 DEF IInv, AddedSound
  <2> QED BY <1>3, <2>4, <2>5, <2>6, <2>7 DEF IInv
<1> QED BY <1>4, <1>5

LEMMA SubscriberClosedKeeps ==
  ASSUME Sensible, IInv, SubscriberClosed
  PROVE  IInv'
<1>1. /\ api \in Peers /\ subscribers[api] \in closed /\ monitor = "api" /\ api' = "next"
      /\ subscribers' = [subscribers EXCEPT ![api] = None]
      /\ UNCHANGED <<source, closed, monitor, added, replaced, queue, job, key, owed>>
  BY DEF SubscriberClosed, media, IInv, LockSound
<1>2. /\ subscribers \in [Peers -> Conns \cup {None}] /\ added \in SUBSET Conns
      /\ None \notin Conns /\ "next" \notin Peers
  BY ApiNames DEF IInv, Typed, Sensible
<1>3. /\ subscribers' \in [Peers -> Conns \cup {None}] /\ subscribers'[api] = None
      /\ \A q \in Peers \ {api} : subscribers'[q] = subscribers[q]
  BY <1>1, <1>2
<1>4. Typed'
  <2>1. fbSink' \in SUBSET Conns
    BY DEF SubscriberClosed, IInv, Typed
  <2> QED BY <1>1, <1>3, <2>1 DEF IInv, Typed, SubscriberClosed, media
<1>5. \A t \in Threads : ~Runs(t, "video", "deliver")
  BY <1>1 DEF IInv, LockSound, Sensible
<1>6. LockSound'
  BY <1>1, <1>5 DEF LockSound, Runs
<1>7. \A d : Doomed(d)' <=> Doomed(d)
  BY <1>1, NothingPosted
<1>8. SubscribersSound'
  <2>1. \A q \in Peers : subscribers'[q] # None => subscribers'[q] \in added'
    BY <1>1, <1>3 DEF IInv, SubscribersSound
  <2>2. \A q, r \in Peers : subscribers'[q] # None /\ subscribers'[q] = subscribers'[r] => q = r
    BY <1>3 DEF IInv, SubscribersSound
  <2>3. ASSUME NEW d \in Conns, Doomed(d)'
        PROVE  d \in added' /\ \A q \in Peers : subscribers'[q] = d => api' = q
    <3>1. d \in added /\ \A q \in Peers : subscribers[q] = d => api = q
      BY <1>7, <2>3 DEF IInv, SubscribersSound
    <3> QED BY <1>1, <1>2, <1>3, <3>1
  <2> QED BY <2>1, <2>2, <2>3 DEF SubscribersSound
<1>9. AddedSound'
  <2>1. ASSUME NEW d \in added'
        PROVE  Doomed(d)' \/ d \in replaced' \/ \E q \in Peers : subscribers'[q] = d
    <3>1. Doomed(d) \/ d \in replaced \/ \E q \in Peers : subscribers[q] = d
      BY <1>1, <2>1 DEF IInv, AddedSound
    <3>2. subscribers[api] = d => Doomed(d)
      BY <1>1 DEF Doomed
    <3> QED BY <1>1, <1>3, <1>7, <3>1, <3>2
  <2> QED BY <1>1, <2>1 DEF AddedSound
<1> QED BY <1>1, <1>4, <1>6, <1>8, <1>9, JobsKept DEF IInv

-----------------------------------------------------------------------------
(* The workers.                                                            *)

\* A thread takes or ends a job with nothing of the flag in it.
LEMMA OneThread ==
  ASSUME IInv, NEW t \in Threads, NEW e \in JobRec, Now(t, e),
         ~job[t].key, e.at = "start", ~e.key, e \in Jobs \/ e.do = None,
         UNCHANGED <<source, monitor, api, subscribers, key, owed>>
  PROVE  LockSound' /\ JobsSound' /\ OwedSound'
<1>1. job \in [Threads -> JobRec]
  BY DEF IInv, Typed
<1>2. job'[t] = e /\ \A u \in Threads \ {t} : job'[u] = job[u]
  BY DEF Now
<1>3. LockSound'
  BY <1>2 DEF IInv, LockSound, Runs, Subscribed
<1>4. JobsSound'
  BY <1>2 DEF IInv, JobsSound, None
<1>5. OwedSound'
  <2>1. (\E u \in Threads : job[u].key /\ job[u].at # "deliver")
        => \E u \in Threads : job'[u].key /\ job'[u].at # "deliver"
    BY <1>2
  <2> QED BY <2>1 DEF IInv, OwedSound, KeyframeOwed
<1> QED BY <1>3, <1>4, <1>5

LEMMA BeginKeeps ==
  ASSUME Sensible, IInv, NEW t \in Threads, Begin(t)
  PROVE  IInv'
<1>1. /\ queue' \in [Threads -> Seq(Jobs)] /\ job' \in [Threads -> JobRec]
      /\ job'[t] \in Jobs /\ job[t] = NoJob /\ \A u \in Threads \ {t} : job'[u] = job[u]
      /\ \A c : Pending(c)' <=> Pending(c)
  BY BeginIs DEF IInv
<1>2. /\ UNCHANGED <<source, monitor, api, subscribers, closed, added, replaced, key, owed>>
  BY DEF Begin, media
<1>3. job'[t] \in JobRec /\ job'[t].at = "start" /\ ~job'[t].key /\ ~job[t].key
  BY <1>1, JobFields, NoCloses
<1>4. Now(t, job'[t])
  <2>1. job' = [u \in Threads |-> job'[u]]
    BY <1>1
  <2> QED BY <1>1, <2>1 DEF Now
<1>5. Typed'
  BY <1>1 DEF IInv, Typed, Begin, media
<1>6. LockSound' /\ JobsSound' /\ OwedSound'
  <2> DEFINE e == job'[t]
  <2>1. e \in JobRec /\ Now(t, e) /\ e.at = "start" /\ ~e.key /\ e \in Jobs
    BY <1>1, <1>3, <1>4
  <2> HIDE DEF e
  <2> QED BY <1>2, <1>3, <2>1, OneThread
<1>7. \A c : Doomed(c)' <=> Doomed(c)
  BY <1>1, <1>2 DEF Doomed
<1> QED BY <1>2, <1>5, <1>6, <1>7, SameSubscribers DEF IInv

LEMMA CloseKeeps ==
  ASSUME Sensible, IInv, NEW t \in Threads, RunClose(t)
  PROVE  IInv'
<1>1. /\ Now(t, NoJob) /\ job' \in [Threads -> JobRec] /\ queue' = queue
      /\ closed' \in SUBSET Conns /\ ~job[t].key
      /\ \A c \in Conns : Doomed(c)' <=> Doomed(c)
  BY CloseIs DEF IInv
<1>2. UNCHANGED <<source, monitor, api, subscribers, added, replaced, key, owed>>
  BY DEF RunClose, Outside
<1>3. Typed'
  <2>1. fbSink' \in SUBSET Conns /\ pubOpen' \in BOOLEAN
    BY DEF RunClose, IInv, Typed
  <2> QED BY <1>1, <2>1 DEF IInv, Typed, RunClose, Outside
<1>4. LockSound' /\ JobsSound' /\ OwedSound'
  BY <1>1, <1>2, NoCloses, OneThread DEF None
<1> QED BY <1>1, <1>2, <1>3, <1>4, SameSubscribers DEF IInv

LEMMA MovesType ==
  ASSUME Sensible, IInv, NEW t \in Threads, Moves(t)
  PROVE  Typed'
<1>1. /\ job' \in [Threads -> JobRec] /\ queue' = queue /\ closed' = closed
  BY MovesKeep DEF IInv
<1>2. UNCHANGED <<source, publisher, sink, subscribers, api, calls, added, replaced, packets,
                  feedback, fbSink, pubOpen>>
  BY DEF Moves, RunTick, RunFrame, RunVideo, RunDeliver, RunFeedback, RunFeedbackCall, Outside
<1>3. job[t].key \in BOOLEAN
  BY RecFields DEF IInv, Typed
<1>4. key' \in BOOLEAN /\ owed' \in BOOLEAN /\ crashed' \in BOOLEAN
  BY <1>3 DEF Moves, RunTick, RunFrame, RunVideo, RunDeliver, RunFeedback, RunFeedbackCall, IInv, Typed
<1>5. monitor' \in Threads \cup {"api", None}
  BY DEF Moves, RunTick, RunFrame, RunVideo, RunDeliver, RunFeedback, RunFeedbackCall, IInv, Typed
<1> QED BY <1>1, <1>2, <1>4, <1>5 DEF IInv, Typed

LEMMA MovesLock ==
  ASSUME Sensible, IInv, NEW t \in Threads, Moves(t)
  PROVE  LockSound'
<1>1. PICK e \in JobRec : Now(t, e) /\ MoveTo(t, e)
  BY MovesIs DEF IInv
<1>2. job'[t] = e /\ \A u \in Threads \ {t} : job'[u] = job[u]
  BY <1>1 DEF Now
<1>3. UNCHANGED <<subscribers, api>> /\ Subscribed' = Subscribed
  BY DEF Moves, RunTick, RunFrame, RunVideo, RunDeliver, RunFeedback, RunFeedbackCall, Outside,
         Subscribed
<1>4. "api" \notin Threads /\ None \notin Threads /\ None # "api"
  BY DEF Sensible, None
<1>5. ASSUME monitor' = monitor, ~(e.do = "video" /\ e.at = "deliver")
      PROVE  LockSound'
  BY <1>2, <1>3, <1>5 DEF IInv, LockSound, Runs
<1>6. ~(NoJob.do = "video" /\ NoJob.at = "deliver")
  BY NoCloses
<1>7. CASE RunTick(t) /\ e.do = "tick"
  BY <1>5, <1>7 DEF RunTick
<1>8. CASE RunFrame(t) /\ e.at = "start"
  BY <1>5, <1>8 DEF RunFrame
<1>9. CASE RunVideo(t) /\ e = NoJob
  <2>1. CASE monitor' = monitor
    BY <1>5, <1>6, <1>9, <2>1
  <2>2. CASE monitor' # monitor
    <3>1. job' = [job EXCEPT ![t].at = "deliver", ![t].rest = Subscribed]
      BY <1>9, <2>2 DEF RunVideo
    <3>2. job \in [Threads -> JobRec]
      BY DEF IInv, Typed
    <3>3. job[t].do = "video"
      BY <1>9 DEF RunVideo, Runs
    <3>4. Now(t, Shared(job[t], Subscribed))
      BY <3>1, <3>2, NowForms, Zenon DEF Now, Shared
    <3>5. Subscribed \in SUBSET Peers
      BY DEF Subscribed
    <3>6. job'[t] = Shared(job[t], Subscribed) /\ Shared(job[t], Subscribed).at = "deliver"
      BY <3>2, <3>4, <3>5, SharedForm DEF Now
    <3> QED BY <1>2, <1>9, <3>6, NoCloses
  <2> QED BY <2>1, <2>2
<1>10. CASE RunVideo(t) /\ monitor' = t /\ e.rest = Subscribed
  <2>1. monitor \in {None, t}
    BY <1>10 DEF RunVideo
  <2>2. \A u \in Threads \ {t} : ~Runs(u, "video", "deliver")
    BY <1>4, <2>1 DEF IInv, LockSound
  <2>3. api \notin {"next"} \cup Peers
    BY <1>4, <2>1 DEF IInv, LockSound
  <2> QED BY <1>2, <1>3, <1>10, <2>2, <2>3 DEF LockSound, Runs
<1>11. CASE RunDeliver(t) /\ e = NoJob /\ monitor' = None
  <2>1. monitor = t
    BY <1>11 DEF RunDeliver, IInv, LockSound
  <2>2. \A u \in Threads \ {t} : ~Runs(u, "video", "deliver")
    BY <2>1 DEF IInv, LockSound
  <2>3. api \notin {"next"} \cup Peers
    BY <1>4, <2>1 DEF IInv, LockSound
  <2> QED BY <1>2, <1>3, <1>6, <1>11, <2>2, <2>3 DEF LockSound, Runs
<1>12. CASE RunDeliver(t) /\ e.rest \subseteq job[t].rest /\ monitor' = monitor
  BY <1>2, <1>3, <1>12 DEF IInv, LockSound, Runs, RunDeliver
<1>13. CASE RunFeedback(t) /\ (e = NoJob \/ e.do = "feedback")
  BY <1>5, <1>6, <1>13 DEF RunFeedback
<1>14. CASE RunFeedbackCall(t) /\ e = NoJob
  BY <1>5, <1>6, <1>14 DEF RunFeedbackCall
<1> QED BY <1>1, <1>7, <1>8, <1>9, <1>10, <1>11, <1>12, <1>13, <1>14 DEF MoveTo

LEMMA MovesJobs ==
  ASSUME Sensible, IInv, NEW t \in Threads, Moves(t)
  PROVE  JobsSound'
<1>1. PICK e \in JobRec : Now(t, e) /\ MoveTo(t, e)
  BY MovesIs DEF IInv
<1>2. job'[t] = e /\ \A u \in Threads \ {t} : job'[u] = job[u]
  BY <1>1 DEF Now
<1>3. job[t].do \notin {"video", "tick"} => ~job[t].key
  BY DEF IInv, JobsSound
<1>4. /\ e.key => e.do = "video" \/ (e.do = "tick" /\ e.at = "frame")
      /\ e.do \notin {"close", "pubclose"}
  BY <1>1, <1>3, NoCloses DEF MoveTo, None, RunFeedback, Runs
<1>5. e.do \in {None, "video", "tick"} \/ e.do = job[t].do
  BY <1>1, NoCloses DEF MoveTo, RunFeedback, Runs
<1>6. {"video", "tick"} \subseteq {j.do : j \in Jobs}
  <2>1. Job("video", None).do = "video" /\ Job("tick", None).do = "tick"
    BY NoCloses
  <2> QED BY <2>1, CloseJobs
<1> QED BY <1>2, <1>4, <1>5, <1>6 DEF IInv, JobsSound

\* A request falls before the reading of the flag, and is answered by this
\* frame, or after, and then the flag stands.
LEMMA MovesOwed ==
  ASSUME Sensible, IInv, NEW t \in Threads, Moves(t)
  PROVE  OwedSound'
<1>1. PICK e \in JobRec : Now(t, e) /\ MoveTo(t, e)
  BY MovesIs DEF IInv
<1>2. job'[t] = e /\ \A u \in Threads \ {t} : job'[u] = job[u]
  BY <1>1 DEF Now
<1>3. source' = source
  BY DEF Moves, RunTick, RunFrame, RunVideo, RunDeliver, RunFeedback, RunFeedbackCall, Outside
<1> DEFINE Kept(u) == job[u].key /\ job[u].at # "deliver"
<1>4. owed => source = "synthetic" /\ (key \/ \E u \in Threads : Kept(u))
  BY DEF IInv, OwedSound, KeyframeOwed
<1>5. \A u \in Threads \ {t} : Kept(u) => Kept(u)'
  BY <1>2
<1>6. OwedSound' <=> (owed' => source' = "synthetic" /\ (key' \/ \E u \in Threads : Kept(u)'))
  BY DEF OwedSound, KeyframeOwed
<1>7. /\ job[t].key => job[t].do = "video" \/ (job[t].do = "tick" /\ job[t].at = "frame")
  BY DEF IInv, JobsSound
<1>8. CASE RunTick(t) /\ e.at = "frame" /\ e.key = key
  <2>1. ~Kept(t) /\ key' = key /\ owed' = owed
    BY <1>7, <1>8 DEF RunTick, Runs
  <2> QED BY <1>3, <1>4, <1>5, <1>6, <2>1
<1>9. CASE RunFrame(t) /\ e.at = "start" /\ e.key = job[t].key
  <2>1. key' = (key /\ ~job[t].key) /\ owed' = owed
    BY <1>9 DEF RunFrame
  <2>2. job[t].key => Kept(t)'
    BY <1>2, <1>9
  <2> QED BY <1>3, <1>4, <1>5, <1>6, <2>1, <2>2
<1>10. CASE RunVideo(t)
  <2>1. key' = key /\ (owed' => owed) /\ (source = "webrtc" \/ (owed' => ~job[t].key))
    BY <1>10 DEF RunVideo
  <2> QED BY <1>3, <1>4, <1>5, <1>6, <2>1
<1>11. CASE RunDeliver(t)
  <2>1. key' = key /\ owed' = owed /\ ~Kept(t)
    BY <1>11 DEF RunDeliver, Runs
  <2> QED BY <1>3, <1>4, <1>5, <1>6, <2>1
<1>12. CASE RunFeedback(t)
  <2>1. key' = key /\ owed' = owed /\ ~Kept(t)
    BY <1>7, <1>12 DEF RunFeedback, Runs
  <2> QED BY <1>3, <1>4, <1>5, <1>6, <2>1
<1>13. CASE RunFeedbackCall(t)
  <2>1. key' = (key \/ sink) /\ owed' = (owed \/ (sink /\ source = "synthetic")) /\ ~Kept(t)
    BY <1>7, <1>13 DEF RunFeedbackCall, Runs
  <2>2. sink \in BOOLEAN
    BY DEF IInv, Typed
  <2> QED BY <1>3, <1>4, <1>5, <1>6, <2>1, <2>2
<1> QED BY <1>1, <1>8, <1>9, <1>10, <1>11, <1>12, <1>13 DEF MoveTo

LEMMA MovesKeepAll ==
  ASSUME Sensible, IInv, NEW t \in Threads, Moves(t)
  PROVE  IInv'
<1>1. UNCHANGED <<subscribers, added, replaced, api>>
  BY DEF Moves, RunTick, RunFrame, RunVideo, RunDeliver, RunFeedback, RunFeedbackCall, Outside
<1>2. \A c \in Conns : Doomed(c)' <=> Doomed(c)
  BY MovesKeep DEF IInv
<1> QED BY <1>1, <1>2, SameSubscribers, MovesType, MovesLock, MovesJobs, MovesOwed DEF IInv

-----------------------------------------------------------------------------
(* The theorems.                                                           *)

LEMMA InitIInv ==
  ASSUME Sensible, Init
  PROVE  IInv
<1>1. /\ job = [t \in Threads |-> NoJob] /\ queue = [t \in Threads |-> <<>>]
      /\ subscribers = [p \in Peers |-> None] /\ closed = {} /\ added = {} /\ api = "idle"
      /\ owed = FALSE
  BY DEF Init
<1>2. \A t \in Threads : job[t] = NoJob /\ queue[t] = <<>>
  BY <1>1
<1>3. /\ NoJob \in JobRec /\ NoJob.at = "start" /\ ~NoJob.key /\ NoJob.do = None
      /\ \A c : NoJob # Job("close", c)
  BY NoCloses DEF None
<1>4. Typed
  <2>1. job \in [Threads -> JobRec] /\ queue \in [Threads -> Seq(Jobs)]
    BY <1>1, <1>3
  <2>2. 0 \in 0 .. MaxCalls /\ 0 \in 0 .. MaxPackets /\ 0 \in 0 .. MaxFeedback
    BY DEF Sensible
  <2> QED BY <2>1, <2>2 DEF Init, Typed
<1>5. \A c : ~Doomed(c)
  BY <1>1, <1>2, <1>3 DEF Doomed, Pending, In
<1>6. LockSound
  <2>1. "idle" \notin {"next"} \cup Peers
    BY ApiNames
  <2> QED BY <1>1, <1>2, <1>3, <2>1 DEF LockSound, Runs
<1>7. SubscribersSound /\ AddedSound
  BY <1>1, <1>5 DEF SubscribersSound, AddedSound
<1>8. JobsSound
  BY <1>2, <1>3 DEF JobsSound, None
<1>9. OwedSound
  BY <1>1 DEF OwedSound, KeyframeOwed
<1> QED BY <1>4, <1>6, <1>7, <1>8, <1>9 DEF IInv

LEMMA NextIInv ==
  ASSUME Sensible, IInv, [Next]_vars
  PROVE  IInv'
<1>1. ASSUME NEW t \in Threads, Work(t) PROVE IInv'
  BY <1>1, BeginKeeps, CloseKeeps, MovesKeepAll DEF Work, Moves
<1>2. CASE UNCHANGED vars
  <2>1. UNCHANGED <<queue, job, closed, monitor, api, subscribers, source, key, owed, added, replaced>>
    BY <1>2 DEF vars, media
  <2>2. Typed'
    BY <1>2 DEF vars, media, IInv, Typed
  <2> QED BY <2>1, <2>2, SameLock, SameSubscribers, JobsKept, NothingPosted DEF IInv
<1> QED BY <1>1, <1>2, AddSubscriberKeeps, RemoveSubscriberKeeps, CloseAllKeeps, PublisherClosedKeeps,
           LockAllKeeps, CloseNextKeeps, SubscriberClosedKeeps, PacketKeeps, FeedbackKeeps
        DEF Next, Close

(* OneToManyProcessor (OneToManyProcessor.cpp): subscribers, the threads   *)
(* that deliver to them and the tasks that close them agree.               *)
THEOREM OneToManyInductive == Sensible => (Spec => []IInv)
<1> SUFFICES ASSUME Sensible PROVE Spec => []IInv
  OBVIOUS
<1>1. Init => IInv
  BY InitIInv
<1>2. IInv /\ [Next]_vars => IInv'
  BY NextIInv
<1> QED BY <1>1, <1>2, PTL DEF Spec

(* No packet is handed to a closed connection (OneToManyProcessor.cpp:58), *)
(* a key frame asked for is owed until one went out (SyntheticInput.cpp:89) *)
(* and closeAll leaves no connection it does not close, but for those that *)
(* were replaced (OneToManyProcessor.cpp:95, 122).                         *)
THEOREM DistributedAlways == Sensible => (Spec => [](TypeOK /\ Distributed))
<1> SUFFICES ASSUME Sensible PROVE Spec => [](TypeOK /\ Distributed)
  OBVIOUS
<1>1. ASSUME IInv PROVE TypeOK
  <2>1. ASSUME NEW t \in Threads PROVE SX!ToSet(queue[t]) \subseteq Jobs
    <3>1. queue[t] \in Seq(Jobs)
      BY <1>1 DEF IInv, Typed
    <3>2. \A i \in DOMAIN queue[t] : queue[t][i] \in Jobs
      BY <3>1
    <3> QED BY <3>2 DEF SX!ToSet
  <2> QED BY <1>1, <2>1 DEF IInv, Typed, JobsSound, TypeOK
<1>2. ASSUME IInv PROVE NoneToClosed
  <2> SUFFICES ASSUME NEW t \in Threads, Runs(t, "video", "deliver"), NEW p \in job[t].rest
               PROVE  subscribers[p] # None /\ subscribers[p] \notin closed
    BY DEF NoneToClosed
  <2>1. monitor = t /\ p \in Peers /\ subscribers[p] # None
    BY <1>2 DEF IInv, LockSound, Subscribed
  <2>2. api \notin Peers
    BY <1>2, <2>1 DEF IInv, LockSound, Sensible
  <2>3. subscribers[p] \in Conns
    BY <1>2, <2>1, InConns DEF IInv
  <2>4. ~Doomed(subscribers[p])
    BY <1>2, <2>1, <2>2, <2>3 DEF IInv, SubscribersSound
  <2> QED BY <2>1, <2>4 DEF Doomed
<1>3. ASSUME IInv PROVE AllClosed
  <2> SUFFICES ASSUME api = "done", NEW c \in added \ (closed \cup replaced)
               PROVE  \E t \in Threads :
                 job[t] = Job("close", c) \/ Job("close", c) \in SX!ToSet(queue[t])
    BY DEF AllClosed
  <2>1. c \in Conns /\ c # None
    BY <1>3 DEF IInv, Typed, Sensible
  <2>2. \A p \in Peers : subscribers[p] # c
    BY <1>3, <2>1 DEF IInv, AddedSound, Subscribed
  <2>3. Pending(c)
    BY <1>3, <2>2 DEF IInv, AddedSound, Doomed
  <2>4. \A t \in Threads : In(Job("close", c), queue[t]) => Job("close", c) \in SX!ToSet(queue[t])
    BY DEF In, SX!ToSet
  <2> QED BY <2>3, <2>4 DEF Pending
<1>4. IInv => TypeOK /\ Distributed
  BY <1>1, <1>2, <1>3 DEF IInv, OwedSound, Distributed
<1> QED BY <1>4, OneToManyInductive, PTL

==============================================================================
