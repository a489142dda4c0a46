--------------------------- MODULE ConnectionProof ---------------------------
(***************************************************************************)
(* Proofs about Connection, for any set of configurations, any number of   *)
(* resends and any bound on the packets that wait for the worker.          *)
(***************************************************************************)
EXTENDS Session, FiniteSetTheorems, TLAPS

Transport ==
  [up: BOOLEAN, run: BOOLEAN, open: BOOLEAN, last: BOOLEAN, st: State, ice: IceState,
   comp: [Comps -> IceState], started: [Comps -> BOOLEAN], timer: [Comps -> BOOLEAN],
   ssl: [Comps -> {"open", "done", "freed"}], left: [Comps -> Left],
   keys: SUBSET Comps, ready: SUBSET Comps]

Results == {"quiet", "flight", "alert", "done", "badkeys"}

IceTask    == [k: {"ice"}, m: Medium, s: {"CANDIDATES_RECEIVED", "READY", "FAILED"}]
DtlsTask   == [k: {"dtls"}, m: Medium, c: Comps, r: Results]
MediaTask  == [k: {"media"}, m: Medium]
SendTask   == [k: {"send"}, m: Medium, rtcp: BOOLEAN]
UpdateTask == [k: {"update"}]
Task == IceTask \cup DtlsTask \cup MediaTask \cup SendTask \cup UpdateTask

Held == {Nothing} \cup [k : {"media"}, at : Phase]
                  \cup [k : {"send"}, m : Medium, rtcp : BOOLEAN, at : Phase]

Typed ==
  /\ conf \in Confs
  /\ tr \in [Medium -> Transport]
  /\ global \in State /\ sending \in BOOLEAN /\ listening \in BOOLEAN
  /\ notified \in Seq(State)
  /\ pipe \in {"building", "initialized", "reset"}
  /\ tasks \in Seq(Task)
  /\ phase \in Phase /\ held \in Held

Early == {"INITIAL", "CANDIDATES_RECEIVED"}

\* A task that sets the transport of m back to GATHERED.
Gathered(x, m) == x.k = "ice" /\ x.m = m /\ x.s = "CANDIDATES_RECEIVED"

\* ICE of m is beyond gathering, and nothing queued says otherwise.
Past(m) == tr[m].ice \notin Early /\ \A i \in DOMAIN tasks : ~ Gathered(tasks[i], m)

\* A transport that is ready has all its keys.
Good(t) == t \in Transport /\ t.ready \subseteq t.keys /\ (t.st = "READY" => t.ready = Comps)

TransportsSound ==
  \A m \in Medium :
    /\ Good(tr[m]) /\ (tr[m].up => m \in Wanted)
    /\ tr[m].st = "READY" => Past(m)

\* A task is about a transport that exists, and a packet was received when ICE
\* was beyond gathering: the queue is in the order of what happened.
TasksSound ==
  /\ \A i \in DOMAIN tasks : tasks[i].k \in {"ice", "dtls"} => tr[tasks[i].m].up
  /\ \A i \in DOMAIN tasks : tasks[i].k = "dtls" =>
       /\ tr[tasks[i].m].ice \notin Early
       /\ \A j \in DOMAIN tasks : i < j => ~ Gathered(tasks[j], tasks[i].m)

GlobalSound ==
  global = "READY" => \A m \in Wanted : tr[m].up /\ tr[m].ready = Comps /\ Past(m)

Rank == [s \in {"STARTED", "GATHERED", "READY", "FAILED"} |->
           CASE s = "STARTED" -> 1 [] s = "GATHERED" -> 2 [] s = "READY" -> 3 [] s = "FAILED" -> 4]

\* What the listener heard ascends, and is not beyond the state.
Ascending ==
  /\ \A i \in DOMAIN notified : notified[i] \in DOMAIN Rank
  /\ \A i, j \in DOMAIN notified : i < j => Rank[notified[i]] < Rank[notified[j]]
  /\ listening =>
       /\ global # "FINISHED"
       /\ \A i \in DOMAIN notified :
            global \in DOMAIN Rank /\ Rank[notified[i]] <= Rank[global]

\* Up to the line of close() that sets FINISHED.
Telling == phase \notin {"finished", "sinks", "closed"}
ToldSound == Telling => Ascending

\* How far close() is.
CloseSound ==
  /\ phase # "open" => ~sending
  /\ phase \in {"sinks", "closed"} => ~listening
  /\ pipe = "reset" => phase = "closed"

IInv ==
  /\ Typed /\ TransportsSound /\ TasksSound /\ GlobalSound /\ ToldSound /\ CloseSound
  /\ NeverClear /\ OnlyPacketInHand

-----------------------------------------------------------------------------
(* One transport.                                                          *)

\* What the worker makes of a transport other than by ICE's news.
Later(t, u) ==
  /\ Good(u) /\ u.up = t.up /\ u.ice = t.ice /\ t.ready \subseteq u.ready
  /\ u.st \in {t.st, "FAILED", "READY"}

LEMMA FailedLater ==
  ASSUME NEW t, Good(t)
  PROVE  Later(t, Failed(t))
BY DEF Good, Transport, Later, Failed, State

LEMMA TimerLater ==
  ASSUME NEW t, Good(t), NEW c \in Comps, NEW b \in BOOLEAN
  PROVE  Later(t, [t EXCEPT !.timer[c] = b])
BY DEF Good, Transport, Later

LEMMA OnDtlsPacketLater ==
  ASSUME NEW t, Good(t), NEW c \in Comps
  PROVE  Later(t, OnDtlsPacket(t, c))
BY TimerLater DEF OnDtlsPacket, ScheduleResend

LEMMA LaterAgain ==
  ASSUME NEW t, NEW u, NEW v, Later(t, u), Later(u, v)
  PROVE  Later(t, v)
BY DEF Later

(* A component takes its keys; the last one makes the transport ready.     *)
LEMMA HandshakeCompletedLater ==
  ASSUME NEW t, Good(t), NEW c \in Comps, NEW good \in BOOLEAN
  PROVE  Later(t, HandshakeCompleted(t, c, good))
<1> DEFINE u == [t EXCEPT !.keys = @ \cup {c}, !.ready = IF good THEN @ \cup {c} ELSE @]
           v == [u EXCEPT !.st = IF ~good THEN "FAILED"
                                 ELSE IF u.ready = Comps THEN "READY" ELSE @]
<1>1. /\ t \in Transport /\ t.keys \in SUBSET Comps /\ t.ready \in SUBSET Comps
      /\ t.ready \subseteq t.keys /\ t.st \in State /\ (t.st = "READY" => t.ready = Comps)
  BY DEF Good, Transport
<1>2. /\ u \in Transport /\ u.ready \subseteq u.keys /\ u.ready \in SUBSET Comps
      /\ t.ready \subseteq u.ready /\ u.up = t.up /\ u.ice = t.ice /\ u.st = t.st
  BY <1>1 DEF Transport
<1> HIDE DEF u
<1>3. v.st \in {t.st, "FAILED", "READY"} /\ v.st \in State
  BY <1>1, <1>2 DEF Transport, State
<1>4. /\ v \in Transport /\ v.ready = u.ready /\ v.keys = u.keys
      /\ v.up = u.up /\ v.ice = u.ice
  BY <1>2, <1>3 DEF Transport
<1>5. v.st = "READY" => v.ready = Comps
  <2>1. v.st = IF ~good THEN "FAILED" ELSE IF u.ready = Comps THEN "READY" ELSE u.st
    BY <1>2 DEF Transport
  <2> QED BY <1>1, <1>2, <1>4, <2>1
<1> HIDE DEF v
<1>6. Later(t, v)
  BY <1>2, <1>3, <1>4, <1>5 DEF Later, Good
<1>7. v = HandshakeCompleted(t, c, good)
  BY DEF u, v, HandshakeCompleted
<1> QED BY <1>6, <1>7

(* Whatever OpenSSL makes of a packet.                                     *)
LEMMA HandshakeLater ==
  ASSUME NEW t, Good(t), NEW c \in Comps, NEW r \in Results
  PROVE  Later(t, Handshake([t EXCEPT !.timer[c] = FALSE], c, r))
<1> DEFINE u == [t EXCEPT !.timer[c] = FALSE]
<1>1. Later(t, u) /\ Good(u)
  BY TimerLater DEF Later
<1> HIDE DEF u
<1>2. Later(u, Handshake(u, c, r))
  <2>1. CASE u.ssl[c] # "open" \/ r = "quiet"
    BY <1>1, <2>1 DEF Handshake, Later
  <2>2. CASE u.ssl[c] = "open" /\ r = "flight"
    BY <1>1, <2>2, OnDtlsPacketLater DEF Handshake
  <2>3. CASE u.ssl[c] = "open" /\ r = "alert"
    <3>1. Later(u, Failed(u)) /\ Good(Failed(u))
      BY <1>1, FailedLater DEF Later
    <3>2. Later(Failed(u), OnDtlsPacket(Failed(u), c))
      BY <3>1, OnDtlsPacketLater
    <3>3. Handshake(u, c, r) = OnDtlsPacket(Failed(u), c)
      BY <2>3 DEF Handshake
    <3> QED BY <3>1, <3>2, <3>3, LaterAgain
  <2>4. CASE u.ssl[c] = "open" /\ r \in {"done", "badkeys"}
    <3> DEFINE v == [u EXCEPT !.ssl[c] = "done"]
               w == HandshakeCompleted(v, c, r = "done")
    <3>1. Later(u, v) /\ Good(v)
      BY <1>1 DEF Good, Transport, Later
    <3> HIDE DEF v
    <3>2. Later(v, w) /\ Good(w)
      BY <3>1, HandshakeCompletedLater DEF Later
    <3>3. Later(w, IF conf.offer THEN OnDtlsPacket(w, c) ELSE w)
      BY <3>2, OnDtlsPacketLater DEF Later
    <3>4. Handshake(u, c, r) = IF conf.offer THEN OnDtlsPacket(w, c) ELSE w
      BY <2>4 DEF Handshake, v
    <3> HIDE DEF w
    <3> QED BY <3>1, <3>2, <3>3, <3>4, LaterAgain
  <2> QED BY <2>1, <2>2, <2>3, <2>4 DEF Results
<1> QED BY <1>1, <1>2, LaterAgain DEF u

-----------------------------------------------------------------------------
(* What every step keeps.                                                  *)

\* Transports only go on: they are not removed, ICE and the keys do not go back,
\* and nor does close().
Monotone ==
  /\ conf' = conf /\ tr' \in [Medium -> Transport] /\ (Telling' => Telling)
  /\ \A m \in Medium :
       /\ Good(tr'[m]) /\ (tr[m].up => tr'[m].up) /\ (tr'[m].up => m \in Wanted)
       /\ tr[m].ice \notin Early => tr'[m].ice \notin Early
       /\ tr[m].ready \subseteq tr'[m].ready

Shrinks == tasks' = tasks \/ (tasks # <<>> /\ tasks' = Tail(tasks))

PastNext(m) == tr'[m].ice \notin Early /\ \A i \in DOMAIN tasks' : ~ Gathered(tasks'[i], m)

LEMMA TailIs ==
  ASSUME NEW S, NEW q \in Seq(S), q # <<>>
  PROVE  /\ Tail(q) \in Seq(S) /\ Head(q) \in S /\ Head(q) = q[1] /\ 1 \in DOMAIN q
         /\ \A i \in DOMAIN Tail(q) : i + 1 \in DOMAIN q /\ Tail(q)[i] = q[i + 1]
         /\ \A i \in DOMAIN Tail(q) : i \in Nat /\ 1 < i + 1
OBVIOUS

LEMMA AppendIs ==
  ASSUME NEW S, NEW q \in Seq(S), NEW x \in S
  PROVE  /\ Append(q, x) \in Seq(S) /\ Len(q) + 1 \in Nat
         /\ \A i \in DOMAIN Append(q, x) :
              \/ i \in DOMAIN q /\ Append(q, x)[i] = q[i]
              \/ i = Len(q) + 1 /\ Append(q, x)[i] = x
         /\ \A i \in DOMAIN q : i \in Nat /\ i < Len(q) + 1
OBVIOUS

LEMMA TaskFields ==
  ASSUME NEW x \in Task
  PROVE  /\ x.k \in {"ice", "dtls", "media", "send", "update"}
         /\ x.k = "ice" => x \in IceTask
         /\ x.k = "dtls" => x \in DtlsTask
         /\ x.k = "media" => x \in MediaTask
         /\ x.k = "send" => x \in SendTask
         /\ x.k \in {"ice", "dtls"} => x.m \in Medium
BY DEF Task, IceTask, DtlsTask, MediaTask, SendTask, UpdateTask

(* Taking a task, or none, keeps the queue sound and what is past past.    *)
LEMMA ShrinkSound ==
  ASSUME IInv, Monotone, Shrinks
  PROVE  /\ TasksSound' /\ tasks' \in Seq(Task)
         /\ \A m \in Medium : Past(m) => PastNext(m)
<1>1. tasks \in Seq(Task) /\ TasksSound
  BY DEF IInv, Typed
<1>2. \A i \in DOMAIN tasks : tasks[i] \in Task /\ (tasks[i].k \in {"ice", "dtls"} => tasks[i].m \in Medium)
  BY <1>1, TaskFields
<1>3. /\ \A i \in DOMAIN tasks : tasks[i].k \in {"ice", "dtls"} => tr'[tasks[i].m].up
      /\ \A i \in DOMAIN tasks : tasks[i].k = "dtls" =>
           /\ tr'[tasks[i].m].ice \notin Early
           /\ \A j \in DOMAIN tasks : i < j => ~ Gathered(tasks[j], tasks[i].m)
  BY <1>1, <1>2 DEF TasksSound, Monotone
<1>4. CASE tasks' = tasks
  BY <1>1, <1>3, <1>4 DEF TasksSound, Past, PastNext, Monotone, Gathered
<1>5. CASE tasks # <<>> /\ tasks' = Tail(tasks)
  <2>1. /\ tasks' \in Seq(Task)
        /\ \A i \in DOMAIN tasks' : i + 1 \in DOMAIN tasks /\ tasks'[i] = tasks[i + 1]
        /\ \A i \in DOMAIN tasks' : i \in Nat
    BY <1>1, <1>5, TailIs
  <2>2. \A i, j \in DOMAIN tasks' : i < j => i + 1 < j + 1
    BY <2>1
  <2>3. TasksSound'
    BY <1>3, <2>1, <2>2 DEF TasksSound, Gathered
  <2>4. \A m \in Medium : Past(m) => PastNext(m)
    BY <2>1 DEF Past, PastNext, Monotone, Gathered
  <2> QED BY <2>1, <2>3, <2>4
<1> QED BY <1>4, <1>5 DEF Shrinks

(* So does posting a task, where the news that gathering is done is the    *)
(* first there is.                                                         *)
LEMMA PostSound ==
  ASSUME IInv, Monotone, NEW x \in Task, Post(x),
         x.k \in {"ice", "dtls"} => tr'[x.m].up,
         x.k = "dtls" => tr'[x.m].ice \notin Early,
         \A m \in Medium : Gathered(x, m) => tr[m].ice \in Early
  PROVE  /\ TasksSound' /\ tasks' \in Seq(Task)
         /\ \A m \in Medium : Past(m) => PastNext(m)
<1>1. tasks \in Seq(Task) /\ TasksSound
  BY DEF IInv, Typed
<1>2. \A i \in DOMAIN tasks : tasks[i] \in Task /\ (tasks[i].k \in {"ice", "dtls"} => tasks[i].m \in Medium)
  BY <1>1, TaskFields
<1>3. /\ \A i \in DOMAIN tasks : tasks[i].k \in {"ice", "dtls"} => tr'[tasks[i].m].up
      /\ \A i \in DOMAIN tasks : tasks[i].k = "dtls" =>
           /\ tr'[tasks[i].m].ice \notin Early
           /\ ~ Gathered(x, tasks[i].m)
           /\ \A j \in DOMAIN tasks : i < j => ~ Gathered(tasks[j], tasks[i].m)
  BY <1>1, <1>2 DEF TasksSound, Monotone
<1>4. /\ tasks' \in Seq(Task) /\ Len(tasks) + 1 \in Nat
      /\ \A i \in DOMAIN tasks' :
           \/ i \in DOMAIN tasks /\ tasks'[i] = tasks[i]
           \/ i = Len(tasks) + 1 /\ tasks'[i] = x
      /\ \A i \in DOMAIN tasks : i \in Nat /\ i < Len(tasks) + 1
  BY <1>1, AppendIs DEF Post
<1>5. \A i \in DOMAIN tasks' : tasks'[i].k \in {"ice", "dtls"} => tr'[tasks'[i].m].up
  BY <1>3, <1>4
<1>6. ASSUME NEW i \in DOMAIN tasks', tasks'[i].k = "dtls"
      PROVE  /\ tr'[tasks'[i].m].ice \notin Early
             /\ \A j \in DOMAIN tasks' : i < j => ~ Gathered(tasks'[j], tasks'[i].m)
  <2>1. CASE i \in DOMAIN tasks /\ tasks'[i] = tasks[i]
    BY <1>3, <1>4, <1>6, <2>1
  <2>2. CASE i = Len(tasks) + 1 /\ tasks'[i] = x
    <3>1. \A j \in DOMAIN tasks' : ~ (i < j)
      BY <1>4, <2>2
    <3> QED BY <1>6, <2>2, <3>1
  <2> QED BY <1>4, <2>1, <2>2
<1>7. TasksSound'
  BY <1>5, <1>6 DEF TasksSound, Gathered
<1>8. \A m \in Medium : Past(m) => PastNext(m)
  BY <1>4 DEF Past, PastNext, Monotone
<1> QED BY <1>4, <1>7, <1>8

-----------------------------------------------------------------------------
(* The state of the connection.                                            *)

\* What a step may make of it.
ConnNext ==
  /\ global' \in State /\ sending' \in BOOLEAN /\ listening' \in BOOLEAN
  /\ notified' \in Seq(State) /\ (sending' => sending) /\ (listening' => listening)
  /\ ToldSound'
  /\ global' = "READY" =>
       global = "READY" \/ \A m \in Wanted : tr'[m].up /\ tr'[m].st = "READY"

LEMMA ConnKept ==
  ASSUME IInv, UNCHANGED connVars, Telling' => Telling
  PROVE  ConnNext
BY DEF IInv, Typed, ConnNext, ToldSound, Ascending, connVars

(* Adding a later state to what was notified.                              *)
LEMMA ToldAppend ==
  ASSUME IInv, Ascending, NEW s \in DOMAIN Rank, s # global, listening,
         global \in DOMAIN Rank => Rank[global] < Rank[s],
         notified' = Append(notified, s), global' = s
  PROVE  notified' \in Seq(State) /\ Ascending'
<1>1. notified \in Seq(State) /\ s \in State
  BY DEF IInv, Typed, Rank, State
<1>2. /\ notified' \in Seq(State) /\ Len(notified) + 1 \in Nat
      /\ \A i \in DOMAIN notified' :
           \/ i \in DOMAIN notified /\ notified'[i] = notified[i]
           \/ i = Len(notified) + 1 /\ notified'[i] = s
      /\ \A i \in DOMAIN notified : i \in Nat /\ i < Len(notified) + 1
  BY <1>1, AppendIs, Zenon
<1>3. \A r \in DOMAIN Rank : Rank[r] \in Nat
  BY DEF Rank
<1>4. \A i \in DOMAIN notified : notified[i] \in DOMAIN Rank /\ Rank[notified[i]] < Rank[s]
  BY <1>3 DEF Ascending
<1>5. \A i, j \in DOMAIN notified : i < j => Rank[notified[i]] < Rank[notified[j]]
  BY DEF Ascending
<1>6. \A i \in DOMAIN notified' : notified'[i] \in DOMAIN Rank
  BY <1>2, <1>4
<1>7. ASSUME NEW i \in DOMAIN notified', NEW j \in DOMAIN notified', i < j
      PROVE  Rank[notified'[i]] < Rank[notified'[j]]
  <2>1. i \in DOMAIN notified /\ notified'[i] = notified[i]
    BY <1>2, <1>7
  <2>2. CASE j \in DOMAIN notified /\ notified'[j] = notified[j]
    BY <1>5, <1>7, <2>1, <2>2
  <2>3. CASE j = Len(notified) + 1 /\ notified'[j] = s
    BY <1>4, <2>1, <2>3
  <2> QED BY <1>2, <2>2, <2>3
<1>8. \A i \in DOMAIN notified' : Rank[notified'[i]] <= Rank[s]
  BY <1>2, <1>3, <1>4
<1>9. s # "FINISHED"
  BY DEF Rank
<1> HIDE DEF Rank
<1> QED BY <1>2, <1>6, <1>7, <1>8, <1>9 DEF Ascending

(* updateState goes forward, as long as a transport that is ready does not  *)
(* go back to gathering.                                                   *)
LEMMA UpdateStateSound ==
  ASSUME IInv, Monotone, NEW s \in {"GATHERED", "READY", "FAILED"}, UpdateState(s, tr'),
         s = "GATHERED" => global # "READY",
         s = "READY" => \E m \in Wanted : tr'[m].st = "READY" /\ tr'[m].up
  PROVE  ConnNext
<1>1. /\ global \in State /\ sending \in BOOLEAN /\ listening \in BOOLEAN
      /\ notified \in Seq(State) /\ ToldSound
  BY DEF IInv, Typed
<1>2. CASE global = "FAILED"
  BY <1>2, ConnKept DEF UpdateState, Monotone
<1>3. CASE global # "FAILED"
  <2>1. /\ global' = Folded(s, tr') /\ listening' = listening
        /\ sending' = (sending /\ s # "FAILED")
        /\ notified' = IF global' # global /\ listening THEN Append(notified, global')
                       ELSE notified
    BY <1>3 DEF UpdateState
  <2>2. global' \in {s, global}
    BY <2>1 DEF Folded
  <2>3. global' = "READY" =>
          global = "READY" \/ \A m \in Wanted : tr'[m].up /\ tr'[m].st = "READY"
    <3>1. SUFFICES ASSUME global' = "READY", global # "READY"
                   PROVE  \A m \in Wanted : tr'[m].up /\ tr'[m].st = "READY"
      OBVIOUS
    <3>2. s = "READY"
      BY <2>2, <3>1
    <3>3. conf.bundle \/ \A m \in conf.media : tr'[m].up /\ tr'[m].st = s
      BY <2>1, <3>1, <3>2 DEF Folded
    <3>4. CASE conf.bundle
      BY <3>2, <3>4 DEF Wanted
    <3>5. CASE ~ conf.bundle
      BY <3>2, <3>3, <3>5 DEF Wanted
    <3> QED BY <3>4, <3>5
  <2>4. notified' \in Seq(State) /\ ToldSound'
    <3>1. ASSUME Ascending
          PROVE  notified' \in Seq(State) /\ Ascending'
      <4>1. CASE global' # global /\ listening
        <5>1. global' = s /\ s \in DOMAIN Rank /\ global # "FINISHED"
          BY <2>2, <3>1, <4>1 DEF Rank, Ascending
        <5>2. global \in DOMAIN Rank => Rank[global] < Rank[s]
          BY <1>1, <1>3, <4>1, <5>1 DEF Rank, State
        <5>3. notified' = Append(notified, s)
          BY <2>1, <4>1, <5>1
        <5> QED BY <3>1, <4>1, <5>1, <5>2, <5>3, ToldAppend
      <4>2. CASE global' = global \/ ~ listening
        BY <1>1, <2>1, <3>1, <4>2 DEF Ascending
      <4> QED BY <4>1, <4>2
    <3>2. notified' \in Seq(State)
      BY <1>1, <2>1, <2>2 DEF State
    <3> QED BY <1>1, <3>1, <3>2 DEF ToldSound, Monotone
  <2>5. global' \in State /\ sending' \in BOOLEAN /\ (sending' => sending) /\ (listening' => listening)
    BY <1>1, <2>1, <2>2 DEF State
  <2> QED BY <1>1, <2>1, <2>3, <2>4, <2>5 DEF ConnNext
<1> QED BY <1>2, <1>3

-----------------------------------------------------------------------------
(* One step.                                                               *)

(* What is left to show of a step.                                         *)
LEMMA StepSound ==
  ASSUME IInv, Monotone, ConnNext, TasksSound', tasks' \in Seq(Task),
         \A m \in Medium : Past(m) => PastNext(m),
         \A m \in Medium : tr'[m].st = "READY" => tr[m].st = "READY" \/ PastNext(m),
         pipe' \in {"building", "initialized", "reset"}, phase' \in Phase, held' \in Held,
         CloseSound', NeverClear', OnlyPacketInHand'
  PROVE  IInv'
<1>1. Typed'
  BY DEF IInv, Typed, Monotone, ConnNext, Transport, Task, IceTask, DtlsTask, MediaTask,
         SendTask, UpdateTask, Comps
<1>2. \A m \in Medium : tr'[m].st = "READY" => PastNext(m) /\ tr'[m].ready = Comps
  BY DEF IInv, TransportsSound, Monotone, Good
<1>3. TransportsSound'
  BY <1>2 DEF TransportsSound, Monotone, Good, Transport, Comps, Wanted, Past, PastNext, Gathered
<1>4. \A m \in Medium : tr[m].ready = Comps => tr'[m].ready = Comps
  <2>1. \A m \in Medium : tr'[m] \in Transport /\ tr[m].ready \subseteq tr'[m].ready
    BY DEF Monotone, Good
  <2>2. \A t \in Transport : t.ready \subseteq Comps
    BY DEF Transport
  <2> QED BY <2>1, <2>2
<1>5. GlobalSound'
  <2>1. ASSUME global' = "READY", NEW m \in Wanted
        PROVE  tr'[m].up /\ tr'[m].ready = Comps /\ PastNext(m)
    <3>0. m \in Medium
      BY ConnectionAssumption DEF Wanted, Medium, IInv, Typed
    <3>1. CASE global = "READY"
      BY <1>4, <3>0, <3>1 DEF IInv, GlobalSound, Monotone
    <3>2. CASE tr'[m].up /\ tr'[m].st = "READY"
      BY <1>2, <3>0, <3>2
    <3> QED BY <2>1, <3>1, <3>2 DEF ConnNext
  <2> QED BY <2>1 DEF GlobalSound, Monotone, Wanted, Comps, Past, PastNext, Gathered
<1> QED BY <1>1, <1>3, <1>5 DEF IInv, ConnNext

(* A step that changes one transport.                                      *)
LEMMA OneTransport ==
  ASSUME IInv, NEW m \in Medium, NEW t, Good(t), conf' = conf, tr' = [tr EXCEPT ![m] = t],
         Telling' => Telling,
         tr[m].up => t.up, t.up => m \in Wanted,
         tr[m].ice \notin Early => t.ice \notin Early, tr[m].ready \subseteq t.ready
  PROVE  /\ Monotone /\ tr'[m] = t
         /\ \A n \in Medium : n # m => tr'[n] = tr[n]
<1>1. tr \in [Medium -> Transport] /\ TransportsSound
  BY DEF IInv, Typed
<1>2. tr'[m] = t /\ \A n \in Medium : n # m => tr'[n] = tr[n]
  BY <1>1
<1>3. tr' \in [Medium -> Transport]
  BY <1>1 DEF Good
<1> QED BY <1>1, <1>2, <1>3 DEF Monotone, TransportsSound

LEMMA SameTransports ==
  ASSUME IInv, conf' = conf, tr' = tr, Telling' => Telling
  PROVE  Monotone
BY DEF IInv, Typed, TransportsSound, Monotone

(* What becomes of one transport in the worker, and of the connection.     *)
LEMMA BecomeSound ==
  ASSUME IInv, NEW m \in Medium, NEW t, Become(m, t), conf' = conf, phase' = phase,
         Good(t), t.up = tr[m].up, t.ice = tr[m].ice, tr[m].ready \subseteq t.ready,
         \/ t.st \in {tr[m].st, "FAILED"}
         \/ t.st = "GATHERED" /\ global # "READY"
         \/ t.st = "READY" /\ tr[m].up
  PROVE  /\ Monotone /\ ConnNext /\ tr'[m] = t
         /\ \A n \in Medium : n # m => tr'[n] = tr[n]
<1>1. tr' = [tr EXCEPT ![m] = t]
  BY DEF Become
<1>2. tr[m].up => m \in Wanted
  BY DEF IInv, TransportsSound
<1>3. /\ Monotone /\ tr'[m] = t
      /\ \A n \in Medium : n # m => tr'[n] = tr[n]
  BY <1>1, <1>2, OneTransport DEF Telling
<1>4. ConnNext
  <2>1. CASE UNCHANGED connVars
    BY <2>1, ConnKept DEF Telling
  <2>2. CASE UpdateState(t.st, tr') /\ t.st # tr[m].st
    <3>1. t.st \in {"GATHERED", "READY", "FAILED"}
      BY <2>2
    <3>2. t.st = "GATHERED" => global # "READY"
      BY <2>2
    <3>3. t.st = "READY" => m \in Wanted /\ tr'[m].st = "READY" /\ tr'[m].up
      BY <1>2, <1>3, <2>2
    <3> QED BY <1>3, <2>2, <3>1, <3>2, <3>3, UpdateStateSound
  <2> QED BY <2>1, <2>2 DEF Become
<1> QED BY <1>3, <1>4

(* The worker's handlers of one transport: what is left to show is that    *)
(* one that becomes ready is beyond gathering.                             *)
LEMMA WorkerSound ==
  ASSUME IInv, NEW m \in Medium, NEW t, Become(m, t), Fixed, Shrinks,
         Good(t), t.up = tr[m].up, t.ice = tr[m].ice, tr[m].ready \subseteq t.ready,
         \/ t.st \in {tr[m].st, "FAILED"}
         \/ t.st = "GATHERED" /\ global # "READY"
         \/ t.st = "READY" /\ tr[m].up /\ PastNext(m),
         clear' = clear, held' = held
  PROVE  IInv'
<1>1. /\ Monotone /\ ConnNext /\ tr'[m] = t
      /\ \A n \in Medium : n # m => tr'[n] = tr[n]
  BY BecomeSound DEF Fixed
<1>2. /\ TasksSound' /\ tasks' \in Seq(Task)
      /\ \A n \in Medium : Past(n) => PastNext(n)
  BY <1>1, ShrinkSound
<1>3. \A n \in Medium : tr'[n].st = "READY" => tr[n].st = "READY" \/ PastNext(n)
  BY <1>1
<1>4. /\ pipe' \in {"building", "initialized", "reset"} /\ phase' \in Phase /\ held' \in Held
      /\ CloseSound' /\ NeverClear' /\ OnlyPacketInHand'
  BY <1>1 DEF Fixed, ConnNext, IInv, Typed, CloseSound, NeverClear, OnlyPacketInHand
<1> QED BY <1>1, <1>2, <1>3, <1>4, StepSound

-----------------------------------------------------------------------------
(* The worker.                                                             *)

LEMMA FirstTask ==
  ASSUME IInv, NEW k, Next1(k)
  PROVE  /\ Shrinks /\ Head(tasks) \in Task /\ Head(tasks) = tasks[1] /\ 1 \in DOMAIN tasks
         /\ Head(tasks).k = k /\ tasks # <<>> /\ tasks' = Tail(tasks)
         /\ \A i \in DOMAIN tasks' : i + 1 \in DOMAIN tasks /\ tasks'[i] = tasks[i + 1]
         /\ \A i \in DOMAIN tasks' : i \in Nat /\ 1 < i + 1
<1>1. tasks \in Seq(Task) /\ tasks # <<>> /\ tasks' = Tail(tasks) /\ Head(tasks).k = k
  BY DEF IInv, Typed, Next1
<1>2. /\ Head(tasks) \in Task /\ Head(tasks) = tasks[1] /\ 1 \in DOMAIN tasks
      /\ \A i \in DOMAIN tasks' : i + 1 \in DOMAIN tasks /\ tasks'[i] = tasks[i + 1]
      /\ \A i \in DOMAIN tasks' : i \in Nat /\ 1 < i + 1
  BY <1>1, TailIs
<1> QED BY <1>1, <1>2 DEF Shrinks

LEMMA RunIceSound ==
  ASSUME IInv, RunIce
  PROVE  IInv'
<1> DEFINE x == Head(tasks)
           m == x.m
           t == tr[m]
           new == {c \in Comps : ~conf.offer /\ ~t.started[c]}
<1>1. /\ Shrinks /\ x \in Task /\ x.k = "ice" /\ x = tasks[1] /\ 1 \in DOMAIN tasks
  BY FirstTask DEF RunIce
<1>2. m \in Medium /\ x.s \in {"CANDIDATES_RECEIVED", "READY", "FAILED"}
  BY <1>1, TaskFields DEF IceTask
<1>3. Good(t) /\ t \in Transport /\ t.up /\ m \in Wanted
  BY <1>1, <1>2 DEF IInv, TransportsSound, TasksSound, Good
<1>4. Fixed /\ clear' = clear /\ held' = held
  BY DEF RunIce
<1>5. CASE x.s = "CANDIDATES_RECEIVED"
  <2> DEFINE u == [t EXCEPT !.st = "GATHERED"]
  <2>1. Become(m, u)
    BY <1>5 DEF RunIce
  <2>2. Good(u) /\ u.up = t.up /\ u.ice = t.ice /\ u.ready = t.ready /\ u.st = "GATHERED"
    BY <1>3 DEF Good, Transport, State
  <2>3. ~ Past(m)
    BY <1>1, <1>5 DEF Past, Gathered
  <2>4. global # "READY"
    BY <1>3, <2>3 DEF IInv, GlobalSound
  <2> HIDE DEF u
  <2> QED BY <1>1, <1>2, <1>4, <2>1, <2>2, <2>4, WorkerSound
<1>6. CASE x.s = "FAILED"
  <2> DEFINE u == Failed(t)
  <2>1. Become(m, u)
    BY <1>6 DEF RunIce
  <2>2. Good(u) /\ u.up = t.up /\ u.ice = t.ice /\ t.ready \subseteq u.ready /\ u.st = "FAILED"
    BY <1>3, FailedLater DEF Later, Failed, Transport
  <2> HIDE DEF u
  <2> QED BY <1>1, <1>2, <1>4, <2>1, <2>2, WorkerSound
<1>7. CASE x.s = "READY"
  <2> DEFINE timer == [c \in Comps |-> IF c \in new /\ crashed' = "no" THEN t.st # "READY"
                                       ELSE t.timer[c]]
             started == [c \in Comps |-> t.started[c] \/ c \in new]
             u == [t EXCEPT !.started = started, !.timer = timer]
  <2>1. Become(m, u)
    BY <1>7 DEF RunIce
  <2>2. timer \in [Comps -> BOOLEAN] /\ started \in [Comps -> BOOLEAN]
    BY <1>3 DEF Transport
  <2> HIDE DEF timer, started
  <2>3. Good(u) /\ u.up = t.up /\ u.ice = t.ice /\ u.ready = t.ready /\ u.st = t.st
    BY <1>3, <2>2 DEF Good, Transport
  <2> HIDE DEF u
  <2> QED BY <1>1, <1>2, <1>4, <2>1, <2>3, WorkerSound
<1> QED BY <1>2, <1>5, <1>6, <1>7

(* The task whose packet completes the handshake was posted when ICE was    *)
(* beyond gathering, so nothing behind it in the queue is older news.      *)
LEMMA RunDtlsSound ==
  ASSUME IInv, RunDtls
  PROVE  IInv'
<1> DEFINE x == Head(tasks)
           m == x.m
           t == tr[m]
           u == Handshake([t EXCEPT !.timer[x.c] = FALSE], x.c, x.r)
<1>1. /\ Shrinks /\ x \in Task /\ x.k = "dtls" /\ x = tasks[1] /\ 1 \in DOMAIN tasks
      /\ \A i \in DOMAIN tasks' : i + 1 \in DOMAIN tasks /\ tasks'[i] = tasks[i + 1]
      /\ \A i \in DOMAIN tasks' : i \in Nat /\ 1 < i + 1
  BY FirstTask DEF RunDtls
<1>2. m \in Medium /\ x.c \in Comps /\ x.r \in Results
  BY <1>1, TaskFields DEF DtlsTask
<1>3. Good(t) /\ t.up
  BY <1>1, <1>2 DEF IInv, TransportsSound, TasksSound
<1>4. Later(t, u)
  BY <1>2, <1>3, HandshakeLater
<1>5. Become(m, u) /\ Fixed /\ clear' = clear /\ held' = held
  BY DEF RunDtls
<1> HIDE DEF u
<1>6. PastNext(m)
  <2>1. t.ice \notin Early /\ \A j \in DOMAIN tasks : 1 < j => ~ Gathered(tasks[j], m)
    BY <1>1 DEF IInv, TasksSound
  <2>2. tr'[m].ice \notin Early
    <3>1. tr'[m] = u
      BY <1>2, <1>5 DEF Become, IInv, Typed
    <3> QED BY <1>4, <2>1, <3>1 DEF Later
  <2> QED BY <1>1, <2>1, <2>2 DEF PastNext
<1> QED BY <1>1, <1>2, <1>3, <1>4, <1>5, <1>6, WorkerSound DEF Later

(* A task that leaves the transports alone.                                *)
LEMMA PlainSound ==
  ASSUME IInv, UNCHANGED <<tr, conf, pipe, phase>>, UNCHANGED connVars, Shrinks,
         held' \in Held, NeverClear', OnlyPacketInHand'
  PROVE  IInv'
<1>1. Monotone /\ ConnNext
  BY SameTransports, ConnKept DEF Telling
<1>2. /\ TasksSound' /\ tasks' \in Seq(Task)
      /\ \A n \in Medium : Past(n) => PastNext(n)
  BY <1>1, ShrinkSound
<1>3. pipe' \in {"building", "initialized", "reset"} /\ phase' \in Phase /\ CloseSound'
  BY DEF IInv, Typed, CloseSound, connVars
<1> QED BY <1>1, <1>2, <1>3, StepSound

(* The sinks are there until close() drops them, whose next line resets    *)
(* the pipeline.                                                           *)
LEMMA RunMediaSound ==
  ASSUME IInv, RunMedia
  PROVE  IInv'
<1>1. Shrinks
  BY FirstTask DEF RunMedia
<1>2. /\ held' = Nothing \/ (held' = [k |-> "media", at |-> phase] /\ listening)
      /\ UNCHANGED <<tr, conf, pipe, phase, clear>> /\ UNCHANGED connVars
  BY DEF RunMedia, Fixed
<1>3. held' \in Held /\ OnlyPacketInHand'
  BY <1>2 DEF Held, Nothing, OnlyPacketInHand, IInv, Typed, CloseSound, connVars
<1>4. NeverClear'
  BY <1>2 DEF IInv, NeverClear
<1> QED BY <1>1, <1>2, <1>3, <1>4, PlainSound

(* sending_ is up only before close() begins.                              *)
LEMMA RunSendSound ==
  ASSUME IInv, RunSend
  PROVE  IInv'
<1> DEFINE x == Head(tasks)
<1>1. Shrinks /\ x \in Task /\ x.k = "send"
  BY FirstTask DEF RunSend
<1>2. x.m \in Medium /\ x.rtcp \in BOOLEAN
  BY <1>1, TaskFields DEF SendTask
<1>3. /\ \/ held' = Nothing
         \/ held' = [k |-> "send", m |-> x.m, rtcp |-> x.rtcp, at |-> phase] /\ sending
      /\ UNCHANGED <<tr, conf, pipe, phase, clear>> /\ UNCHANGED connVars
  BY DEF RunSend, Fixed
<1>4. held' \in Held /\ OnlyPacketInHand'
  BY <1>2, <1>3 DEF Held, Nothing, OnlyPacketInHand, IInv, Typed, CloseSound, connVars
<1>5. NeverClear'
  BY <1>3 DEF IInv, NeverClear
<1> QED BY <1>1, <1>3, <1>4, <1>5, PlainSound

(* A step of the packet in hand, or of a task that is none.                *)
LEMMA LaidDownSound ==
  ASSUME IInv, Fixed, tr' = tr, UNCHANGED connVars, Shrinks, held' \in {held, Nothing},
         NeverClear'
  PROVE  IInv'
<1>1. held' \in Held /\ OnlyPacketInHand'
  BY DEF Held, Nothing, Fixed, OnlyPacketInHand, IInv, Typed, connVars
<1> QED BY <1>1, PlainSound DEF Fixed

LEMMA RunUpdateSound ==
  ASSUME IInv, RunUpdate
  PROVE  IInv'
<1>1. Shrinks
  BY FirstTask DEF RunUpdate
<1>2. NeverClear'
  BY DEF RunUpdate, IInv, NeverClear
<1> QED BY <1>1, <1>2, LaidDownSound DEF RunUpdate

LEMMA ReadPipelineSound ==
  ASSUME IInv, ReadPipeline
  PROVE  IInv'
<1>1. NeverClear'
  BY DEF ReadPipeline, IInv, NeverClear
<1> QED BY <1>1, LaidDownSound DEF ReadPipeline, Shrinks

(* A transport that is ready has the keys of the component it sends by.    *)
LEMMA WritePipelineSound ==
  ASSUME IInv, WritePipeline
  PROVE  IInv'
<1>1. held.m \in Medium /\ held.rtcp \in BOOLEAN
  BY DEF WritePipeline, IInv, Typed, Held, Nothing
<1>2. By(held.m) \in Medium /\ On(held.rtcp) \in Comps
  BY <1>1 DEF By, On, Comps, Medium
<1>3. ~ Unprotected(tr[By(held.m)], On(held.rtcp))
  <2>1. Good(tr[By(held.m)])
    BY <1>2 DEF IInv, TransportsSound
  <2> QED BY <1>2, <2>1 DEF Good, Unprotected
<1>4. clear' = (clear \/ ( /\ pipe = "initialized"
                           /\ Unprotected(tr[By(held.m)], On(held.rtcp)) ))
  BY DEF WritePipeline
<1>5. NeverClear'
  <2>1. ~ clear
    BY DEF IInv, NeverClear
  <2>2. ~ clear'
    BY <1>3, <1>4, <2>1, ZenonT(30)
  <2> QED BY <2>2 DEF NeverClear
<1> QED BY <1>5, LaidDownSound DEF WritePipeline, Shrinks

LEMMA ResendSound ==
  ASSUME IInv, NEW m \in Medium, NEW c \in Comps, Resend(m, c)
  PROVE  IInv'
<1> DEFINE t == tr[m]
<1>1. Good(t) /\ t \in Transport /\ t.left[c] \in Left
  BY DEF IInv, TransportsSound, Good, Transport
<1>2. /\ Fixed /\ Shrinks /\ clear' = clear /\ held' = held
  BY DEF Resend, Shrinks
<1>3. CASE t.left[c] = 0
  <2> DEFINE v == [t EXCEPT !.left[c] = MaxResends + 1]
             u == [t EXCEPT !.left[c] = MaxResends + 1, !.timer[c] = FALSE]
  <2>1. Good(u) /\ Later(t, u)
    <3>1. Good(v) /\ Later(t, v)
      <4>1. MaxResends + 1 \in Left
        BY ConnectionAssumption DEF Left
      <4>2. [t.left EXCEPT ![c] = MaxResends + 1] \in [Comps -> Left]
        BY <1>1, <4>1 DEF Transport
      <4> QED BY <1>1, <4>2, SMTT(60) DEF Good, Transport, Later
    <3>2. u = [v EXCEPT !.timer[c] = FALSE]
      BY <1>1 DEF Transport
    <3> HIDE DEF u, v
    <3>3. Later(v, u) /\ Good(u)
      BY <3>1, <3>2, TimerLater DEF Later
    <3> QED BY <3>1, <3>3, LaterAgain
  <2> HIDE DEF u
  <2>2. Later(u, Failed(u))
    BY <2>1, FailedLater
  <2>3. Failed(u).st = "FAILED"
    BY <2>1 DEF Failed, Good, Transport
  <2>4. Later(t, Failed(u))
    BY <2>1, <2>2, LaterAgain
  <2>5. Become(m, Failed(u))
    BY <1>3 DEF Resend, u
  <2> QED BY <1>2, <2>3, <2>4, <2>5, WorkerSound DEF Later
<1>4. CASE t.left[c] # 0
  <2> DEFINE n == IF t.left[c] > MaxResends THEN t.left[c] ELSE t.left[c] - 1
             u == [t EXCEPT !.left[c] = n]
  <2>1. n \in Left
    BY <1>1, <1>4, ConnectionAssumption DEF Left
  <2>2. Become(m, u)
    BY <1>1, <1>4 DEF Resend, Transport
  <2> HIDE DEF n
  <2>3. Good(u) /\ u.up = t.up /\ u.ice = t.ice /\ u.ready = t.ready /\ u.st = t.st
    BY <1>1, <2>1 DEF Good, Transport
  <2> HIDE DEF u
  <2> QED BY <1>2, <2>2, <2>3, WorkerSound
<1> QED BY <1>3, <1>4

-----------------------------------------------------------------------------
(* The thread of the ICE library, and users who post.                      *)

LEMMA RankIs ==
  /\ IceRank("INITIAL") = 0 /\ IceRank("CANDIDATES_RECEIVED") = 1
  /\ IceRank("READY") = 2 /\ IceRank("FINISHED") = 3 /\ IceRank("FAILED") = 4
<1> DEFINE q == <<"INITIAL", "CANDIDATES_RECEIVED", "READY", "FINISHED", "FAILED">>
<1>1. \A i \in 0..4 : /\ "INITIAL" = q[i + 1] <=> i = 0
                      /\ "CANDIDATES_RECEIVED" = q[i + 1] <=> i = 1
                      /\ "READY" = q[i + 1] <=> i = 2
                      /\ "FINISHED" = q[i + 1] <=> i = 3
                      /\ "FAILED" = q[i + 1] <=> i = 4
  OBVIOUS
<1>2. {0, 1, 2, 3, 4} \subseteq 0..4
  OBVIOUS
<1> HIDE DEF q
<1>3. \A s : IceRank(s) = CHOOSE i \in 0..4 : s = q[i + 1]
  BY DEF IceRank, q
<1> QED BY <1>1, <1>2, <1>3

(* A step of one transport that posts, or does not.                        *)
LEMMA IceSound ==
  ASSUME IInv, NEW m \in Medium, NEW t, IceOnly, tr' = [tr EXCEPT ![m] = t],
         Good(t), t.up = tr[m].up, t.st = tr[m].st, t.ready = tr[m].ready,
         tr[m].ice \notin Early => t.ice \notin Early,
         \/ tasks' = tasks
         \/ \E x \in Task :
              /\ Post(x) /\ (x.k \in {"ice", "dtls"} => x.m = m /\ t.up)
              /\ x.k = "dtls" => t.ice \notin Early
              /\ x.k = "ice" /\ x.s = "CANDIDATES_RECEIVED" => tr[m].ice \in Early
  PROVE  IInv'
<1>1. tr[m].up => m \in Wanted
  BY DEF IInv, TransportsSound
<1>2. /\ Monotone /\ tr'[m] = t
      /\ \A n \in Medium : n # m => tr'[n] = tr[n]
  BY <1>1, OneTransport DEF IceOnly, Telling
<1>3. ConnNext
  BY ConnKept DEF IceOnly, Telling
<1>4. /\ TasksSound' /\ tasks' \in Seq(Task)
      /\ \A n \in Medium : Past(n) => PastNext(n)
  <2>1. CASE tasks' = tasks
    BY <1>2, <2>1, ShrinkSound DEF Shrinks
  <2>2. CASE tasks' # tasks
    <3>1. PICK x \in Task :
            /\ Post(x) /\ (x.k \in {"ice", "dtls"} => x.m = m /\ t.up)
            /\ x.k = "dtls" => t.ice \notin Early
            /\ x.k = "ice" /\ x.s = "CANDIDATES_RECEIVED" => tr[m].ice \in Early
      BY <2>2
    <3>2. \A n \in Medium : Gathered(x, n) => tr[n].ice \in Early
      BY <3>1 DEF Gathered
    <3> QED BY <1>2, <3>1, <3>2, PostSound
  <2> QED BY <2>1, <2>2
<1>5. \A n \in Medium : tr'[n].st = "READY" => tr[n].st = "READY" \/ PastNext(n)
  BY <1>2
<1>6. /\ pipe' \in {"building", "initialized", "reset"} /\ phase' \in Phase /\ held' \in Held
      /\ CloseSound' /\ NeverClear' /\ OnlyPacketInHand'
  BY DEF IInv, Typed, CloseSound, NeverClear, OnlyPacketInHand, IceOnly, connVars
<1> QED BY <1>2, <1>3, <1>4, <1>5, <1>6, StepSound

(* IceConnection::updateIceState: its rank keeps the news in order.        *)
LEMMA UpdateIceSound ==
  ASSUME IInv, NEW m \in Medium, NEW t, NEW s \in {"CANDIDATES_RECEIVED", "READY", "FAILED"},
         IceOnly, UpdateIceState(m, t, s), Good(t), tr[m].up, t.up = tr[m].up,
         t.st = tr[m].st, t.ready = tr[m].ready, t.ice = tr[m].ice
  PROVE  IInv'
<1>1. CASE IceRank(s) <= IceRank(t.ice)
  <2>1. tr' = [tr EXCEPT ![m] = t] /\ tasks' = tasks
    BY <1>1 DEF UpdateIceState
  <2> QED BY <2>1, IceSound
<1>2. CASE ~ (IceRank(s) <= IceRank(t.ice))
  <2> DEFINE u == [t EXCEPT !.ice = s]
             x == [k |-> "ice", m |-> m, s |-> s]
  <2>1. tr' = [tr EXCEPT ![m] = u] /\ Post(x)
    BY <1>2 DEF UpdateIceState
  <2>2. t \in Transport /\ t.ice \in IceState
    BY DEF Good, Transport
  <2>3. /\ Good(u) /\ u.up = t.up /\ u.st = t.st /\ u.ready = t.ready /\ u.ice = s
    BY <2>2 DEF Good, Transport, IceState
  <2>4. /\ t.ice \notin Early => s \notin Early
        /\ s = "CANDIDATES_RECEIVED" => t.ice \in Early
    BY <1>2, <2>2, RankIs DEF IceState, Early
  <2>5. x \in Task /\ x.m = m /\ x.k = "ice" /\ x.s = s
    BY DEF Task, IceTask
  <2> HIDE DEF u, x
  <2>6. \E y \in Task :
          /\ Post(y) /\ (y.k \in {"ice", "dtls"} => y.m = m /\ u.up)
          /\ y.k = "dtls" => u.ice \notin Early
          /\ y.k = "ice" /\ y.s = "CANDIDATES_RECEIVED" => tr[m].ice \in Early
    BY <2>1, <2>3, <2>4, <2>5
  <2>7. /\ u.up = tr[m].up /\ u.st = tr[m].st /\ u.ready = tr[m].ready
        /\ tr[m].ice \notin Early => u.ice \notin Early
    BY <2>3, <2>4
  <2> QED BY <2>1, <2>3, <2>6, <2>7, IceSound
<1> QED BY <1>1, <1>2

LEMMA LiveIs ==
  ASSUME IInv, NEW m \in Medium, Live(m)
  PROVE  Good(tr[m]) /\ tr[m] \in Transport /\ tr[m].up
BY DEF IInv, TransportsSound, Live, Good

LEMMA GatheringDoneSound ==
  ASSUME IInv, NEW m \in Medium, GatheringDone(m)
  PROVE  IInv'
BY LiveIs, UpdateIceSound DEF GatheringDone

LEMMA ComponentSound ==
  ASSUME IInv, NEW m \in Medium, NEW c \in Comps, NEW s \in {"READY", "FAILED"},
         Live(m), IceOnly,
         LET t == [tr[m] EXCEPT !.comp[c] = s] IN
           UpdateIceState(m, t, s) \/ (tr' = [tr EXCEPT ![m] = t] /\ tasks' = tasks)
  PROVE  IInv'
<1> DEFINE t == [tr[m] EXCEPT !.comp[c] = s]
<1>1. /\ Good(t) /\ t.up = tr[m].up /\ t.st = tr[m].st /\ t.ready = tr[m].ready
      /\ t.ice = tr[m].ice /\ tr[m].up
  BY LiveIs, SMTT(60) DEF Good, Transport, IceState
<1> HIDE DEF t
<1>2. UpdateIceState(m, t, s) \/ (tr' = [tr EXCEPT ![m] = t] /\ tasks' = tasks)
  BY DEF t
<1>3. CASE UpdateIceState(m, t, s)
  BY <1>1, <1>3, UpdateIceSound
<1>4. CASE tr' = [tr EXCEPT ![m] = t] /\ tasks' = tasks
  BY <1>1, <1>4, IceSound
<1> QED BY <1>2, <1>3, <1>4

LEMMA ComponentReadySound ==
  ASSUME IInv, NEW m \in Medium, NEW c \in Comps, ComponentReady(m, c)
  PROVE  IInv'
<1> DEFINE t == [tr[m] EXCEPT !.comp[c] = "READY"]
<1>1. UpdateIceState(m, t, "READY") \/ (tr' = [tr EXCEPT ![m] = t] /\ tasks' = tasks)
  BY DEF ComponentReady
<1> QED BY <1>1, ComponentSound DEF ComponentReady

LEMMA ComponentFailedSound ==
  ASSUME IInv, NEW m \in Medium, NEW c \in Comps, ComponentFailed(m, c)
  PROVE  IInv'
<1> DEFINE t == [tr[m] EXCEPT !.comp[c] = "FAILED"]
<1>1. UpdateIceState(m, t, "FAILED") \/ (tr' = [tr EXCEPT ![m] = t] /\ tasks' = tasks)
  BY DEF ComponentFailed
<1> QED BY <1>1, ComponentSound DEF ComponentFailed

LEMMA NicerSound ==
  ASSUME IInv, NEW m \in Medium, NicerConnected(m) \/ NicerFailed(m)
  PROVE  IInv'
<1>1. Live(m) /\ IceOnly
  BY DEF NicerConnected, NicerFailed
<1>2. UpdateIceState(m, tr[m], "READY") \/ UpdateIceState(m, tr[m], "FAILED")
  BY DEF NicerConnected, NicerFailed
<1>3. Good(tr[m]) /\ tr[m].up
  BY <1>1, LiveIs
<1> QED BY <1>1, <1>2, <1>3, UpdateIceSound

(* A packet comes only when ICE is READY, that is beyond gathering.        *)
LEMMA ReceiveSound ==
  ASSUME IInv, NEW m \in Medium, NEW c \in Comps, Receive(m, c)
  PROVE  IInv'
<1>1. /\ Good(tr[m]) /\ tr[m].up /\ tr[m].ice \notin Early /\ IceOnly /\ tr' = tr
  BY LiveIs DEF Receive, Early
<1>2. tr' = [tr EXCEPT ![m] = tr[m]]
  BY <1>1 DEF IInv, Typed
<1>3. PICK x \in Task :
        Post(x) /\ (x.k \in {"ice", "dtls"} => x.m = m) /\ x.k # "ice"
  <2>1. CASE \E r \in Results : PostPacket([k |-> "dtls", m |-> m, c |-> c, r |-> r])
    <3>1. PICK r \in Results : Post([k |-> "dtls", m |-> m, c |-> c, r |-> r])
      BY <2>1 DEF PostPacket
    <3>2. [k |-> "dtls", m |-> m, c |-> c, r |-> r] \in Task
      BY DEF Task, DtlsTask
    <3> WITNESS [k |-> "dtls", m |-> m, c |-> c, r |-> r] \in Task
    <3> QED BY <3>1
  <2>2. CASE PostPacket([k |-> "media", m |-> m])
    <3>1. [k |-> "media", m |-> m] \in Task
      BY DEF Task, MediaTask
    <3> WITNESS [k |-> "media", m |-> m] \in Task
    <3> QED BY <2>2 DEF PostPacket
  <2> QED BY <2>1, <2>2 DEF Receive, Results
<1> QED BY <1>1, <1>2, <1>3, IceSound

(* A task of the program's users.                                          *)
LEMMA PostedSound ==
  ASSUME IInv, UNCHANGED <<tr, conf, pipe, phase, clear, held>>, UNCHANGED connVars,
         NEW x \in Task, Post(x), x.k \in {"send", "update"}
  PROVE  IInv'
<1>1. Monotone /\ ConnNext
  BY SameTransports, ConnKept DEF Telling
<1>2. /\ TasksSound' /\ tasks' \in Seq(Task)
      /\ \A n \in Medium : Past(n) => PastNext(n)
  BY <1>1, PostSound DEF Gathered
<1>3. /\ pipe' \in {"building", "initialized", "reset"} /\ phase' \in Phase /\ held' \in Held
      /\ CloseSound' /\ NeverClear' /\ OnlyPacketInHand'
  BY DEF IInv, Typed, CloseSound, NeverClear, OnlyPacketInHand, connVars
<1> QED BY <1>1, <1>2, <1>3, StepSound

LEMMA NotifySound ==
  ASSUME IInv, Notify
  PROVE  IInv'
<1>1. Post([k |-> "update"]) /\ [k |-> "update"] \in Task
  BY DEF Notify, PostPacket, Task, UpdateTask
<1> QED BY <1>1, PostedSound DEF Notify

LEMMA DeliverSound ==
  ASSUME IInv, NEW m \in Medium, Deliver(m)
  PROVE  IInv'
<1>1. PICK rtcp \in BOOLEAN : Post([k |-> "send", m |-> m, rtcp |-> rtcp])
  BY DEF Deliver, SendPacketAsync, PostPacket
<1>2. [k |-> "send", m |-> m, rtcp |-> rtcp] \in Task
  BY DEF Task, SendTask
<1> QED BY <1>1, <1>2, PostedSound DEF Deliver

-----------------------------------------------------------------------------
(* The owner's thread.                                                     *)

\* A step that leaves the tasks and changes transports, the phase or the pipeline.
LEMMA OwnerSound ==
  ASSUME IInv, Monotone, ConnNext, tasks' = tasks, clear' = clear,
         \A m \in Medium : tr'[m].st = "READY" => tr[m].st = "READY",
         pipe' \in {"building", "initialized", "reset"}, phase' \in Phase, held' = held,
         CloseSound'
  PROVE  IInv'
<1>1. /\ TasksSound' /\ tasks' \in Seq(Task)
      /\ \A n \in Medium : Past(n) => PastNext(n)
  BY ShrinkSound DEF Shrinks
<1>2. held' \in Held /\ NeverClear' /\ OnlyPacketInHand'
  BY DEF IInv, Typed, NeverClear, OnlyPacketInHand, CloseSound
<1> QED BY <1>1, <1>2, StepSound

LEMMA CreatedGood ==
  ASSUME NEW t, Good(t), NEW u, u = [t EXCEPT !.up = TRUE]
  PROVE  /\ Good(u) /\ u \in Transport /\ u.st = t.st /\ u.ice = t.ice
         /\ u.ready = t.ready /\ u.up
<1>1. /\ t \in Transport /\ t.ready \subseteq t.keys /\ (t.st = "READY" => t.ready = Comps)
  BY DEF Good
<1>2. /\ u \in Transport /\ u.st = t.st /\ u.ice = t.ice /\ u.up
      /\ u.ready = t.ready /\ u.keys = t.keys
  BY <1>1 DEF Transport
<1> QED BY <1>1, <1>2 DEF Good

LEMMA CreateSound ==
  ASSUME IInv, conf' = conf, phase' = phase, CreateTransports
  PROVE  Monotone /\ \A m \in Medium : tr'[m].st = tr[m].st
<1>1. \A m \in Medium : tr[m] \in Transport /\ Good(tr[m]) /\ (tr[m].up => m \in Wanted)
  BY DEF IInv, TransportsSound, Good
<1>2. \A m \in Medium :
        tr'[m] = IF m \in Wanted THEN [tr[m] EXCEPT !.up = TRUE] ELSE tr[m]
  BY DEF CreateTransports
<1>3. \A m \in Medium :
        /\ Good(tr'[m]) /\ tr'[m] \in Transport /\ tr'[m].st = tr[m].st
        /\ tr'[m].ice = tr[m].ice /\ tr'[m].ready = tr[m].ready
        /\ (tr[m].up => tr'[m].up) /\ (tr'[m].up => m \in Wanted)
  <2> TAKE m \in Medium
  <2> DEFINE u == [tr[m] EXCEPT !.up = TRUE]
  <2>1. /\ Good(u) /\ u \in Transport /\ u.st = tr[m].st /\ u.ice = tr[m].ice
        /\ u.ready = tr[m].ready /\ u.up
    BY <1>1, CreatedGood
  <2>2. tr'[m] = IF m \in Wanted THEN u ELSE tr[m]
    BY <1>2
  <2> HIDE DEF u
  <2> QED BY <1>1, <2>1, <2>2
<1>4. tr' \in [Medium -> Transport]
  <2>1. tr' = [m \in Medium |-> tr'[m]]
    BY DEF CreateTransports
  <2> QED BY <1>3, <2>1
<1> QED BY <1>3, <1>4 DEF Monotone, Telling

LEMMA CreateOfferSound ==
  ASSUME IInv, CreateOffer
  PROVE  IInv'
<1>1. Monotone /\ \A m \in Medium : tr'[m].st = tr[m].st
  BY CreateSound DEF CreateOffer
<1>2. ConnNext
  BY ConnKept DEF CreateOffer, Telling
<1>3. pipe' \in {"building", "initialized", "reset"} /\ phase' \in Phase /\ CloseSound'
  BY DEF CreateOffer, IInv, Typed, CloseSound, connVars
<1> QED BY <1>1, <1>2, <1>3, OwnerSound DEF CreateOffer

LEMMA SetRemoteSdpSound ==
  ASSUME IInv, SetRemoteSdp
  PROVE  IInv'
<1>1. conf' = conf /\ phase' = phase /\ (CreateTransports \/ tr' = tr)
  BY DEF SetRemoteSdp
<1>2. Monotone /\ \A m \in Medium : tr'[m].st = tr[m].st
  <2>1. CASE CreateTransports
    BY <1>1, <2>1, CreateSound
  <2>2. CASE tr' = tr
    BY <1>1, <2>2, SameTransports DEF Telling
  <2> QED BY <1>1, <2>1, <2>2
<1>3. ConnNext
  BY ConnKept DEF SetRemoteSdp, Telling
<1>4. pipe' \in {"building", "initialized", "reset"} /\ phase' \in Phase /\ CloseSound'
  BY DEF SetRemoteSdp, IInv, Typed, CloseSound, connVars
<1> QED BY <1>2, <1>3, <1>4, OwnerSound DEF SetRemoteSdp

LEMMA LastCandidateSound ==
  ASSUME IInv, LastCandidate
  PROVE  IInv'
<1> DEFINE m == IF tr["video"].up THEN "video" ELSE "audio"
           t == [tr[m] EXCEPT !.last = TRUE]
<1>1. m \in Medium /\ tr[m].up /\ IceOnly /\ tasks' = tasks /\ tr[m] \in Transport
  BY DEF LastCandidate, Medium, IceOnly, IInv, Typed
<1>2. tr' = [tr EXCEPT ![m] = t]
  <2>1. tr' = [tr EXCEPT ![m].last = TRUE]
    BY DEF LastCandidate
  <2>2. tr \in [Medium -> Transport]
    BY DEF IInv, Typed
  <2> HIDE DEF m
  <2> QED BY <1>1, <2>1, <2>2
<1>3. Good(tr[m])
  BY <1>1 DEF IInv, TransportsSound
<1> HIDE DEF m
<1>4. Good(t) /\ t.up = tr[m].up /\ t.st = tr[m].st /\ t.ready = tr[m].ready /\ t.ice = tr[m].ice
  BY <1>1, <1>3 DEF Good, Transport
<1> HIDE DEF t
<1> QED BY <1>1, <1>2, <1>4, IceSound

(* A line of close() that leaves the transports.                           *)
LEMMA CloseLineSound ==
  ASSUME IInv, CloseBegin \/ CloseState \/ CloseSinks \/ CloseEnd
  PROVE  IInv'
<1>1. Monotone /\ tr' = tr
  BY SameTransports DEF CloseBegin, CloseState, CloseSinks, CloseEnd, Telling
<1>2. ConnNext
  <2>1. CASE CloseBegin
    BY <2>1 DEF CloseBegin, IInv, Typed, ConnNext, ToldSound, Telling, Ascending
  <2>2. CASE CloseState
    BY <2>2 DEF CloseState, IInv, Typed, ConnNext, ToldSound, Telling, State
  <2>3. CASE CloseSinks
    BY <2>3 DEF CloseSinks, IInv, Typed, ConnNext, ToldSound, Telling
  <2>4. CASE CloseEnd
    BY <2>4, ConnKept DEF CloseEnd, Telling
  <2> QED BY <2>1, <2>2, <2>3, <2>4
<1>3. pipe' \in {"building", "initialized", "reset"} /\ phase' \in Phase /\ CloseSound'
  BY DEF CloseBegin, CloseState, CloseSinks, CloseEnd, IInv, Typed, Phase, CloseSound, connVars
<1> QED BY <1>1, <1>2, <1>3, OwnerSound DEF CloseBegin, CloseState, CloseSinks, CloseEnd

LEMMA CloseTransportSound ==
  ASSUME IInv, NEW m \in Medium, CloseTransport(m)
  PROVE  IInv'
<1> DEFINE t == tr[m]
           freed == [c \in Comps |-> "freed"]
           still == [c \in Comps |-> FALSE]
           ice == IF conf.nicer \/ t.ice = "FAILED" THEN t.ice ELSE "FINISHED"
           u == [t EXCEPT !.run = FALSE, !.open = FALSE, !.st = "FINISHED", !.ice = ice,
                          !.ssl = freed, !.timer = still]
<1>0. Telling
  BY DEF CloseTransport, Telling, Medium
<1>1. Good(t) /\ t \in Transport /\ (t.up => m \in Wanted) /\ tr \in [Medium -> Transport]
  BY DEF IInv, TransportsSound, Good, Typed
<1>2. /\ freed \in [Comps -> {"open", "done", "freed"}] /\ still \in [Comps -> BOOLEAN]
      /\ ice \in IceState /\ (t.ice \notin Early => ice \notin Early)
  BY <1>1 DEF Transport, IceState, Early
<1>3. u = Closed(t)
  BY <1>1 DEF Closed, Transport
<1> HIDE DEF freed, still, ice
<1>4. /\ Good(u) /\ u.up = t.up /\ u.ready = t.ready /\ u.st = "FINISHED" /\ u.ice = ice
  BY <1>1, <1>2 DEF Good, Transport, State
<1> HIDE DEF u
<1>5. Monotone /\ \A n \in Medium : tr'[n].st = "READY" => tr[n].st = "READY"
  <2>1. CASE t.up
    <3>1. tr' = [tr EXCEPT ![m] = u] /\ conf' = conf
      BY <1>1, <1>3, <2>1 DEF CloseTransport
    <3>2. /\ Monotone /\ tr'[m] = u
          /\ \A n \in Medium : n # m => tr'[n] = tr[n]
      BY <1>0, <1>1, <1>2, <1>4, <3>1, OneTransport
    <3> QED BY <1>4, <3>2
  <2>2. CASE ~ t.up
    BY <1>0, <2>2, SameTransports DEF CloseTransport
  <2> QED BY <2>1, <2>2
<1>6. ConnNext
  BY <1>0, ConnKept DEF CloseTransport
<1>7. pipe' \in {"building", "initialized", "reset"} /\ phase' \in Phase /\ CloseSound'
  BY DEF CloseTransport, IInv, Typed, CloseSound, connVars, Medium, Phase
<1> QED BY <1>5, <1>6, <1>7, OwnerSound DEF CloseTransport

-----------------------------------------------------------------------------
(* The connection.                                                         *)

LEMMA InitIInv ==
  ASSUME Init
  PROVE  IInv
<1>1. MaxResends \in Left /\ conf \in Confs
  BY ConnectionAssumption DEF Left, Init
<1>2. \A m \in Medium : tr[m] = None(conf)
  BY DEF Init
<1> DEFINE t == None(conf)
<1>3. /\ t.up = FALSE /\ t.st = "INITIAL" /\ t.ready = {} /\ t.keys = {} /\ t \in Transport
  <2>1. Comps = IF conf.mux THEN {1} ELSE {1, 2}
    BY DEF Comps
  <2>2. /\ [i \in Comps |-> "INITIAL"] \in [Comps -> IceState]
        /\ [i \in Comps |-> FALSE] \in [Comps -> BOOLEAN]
        /\ [i \in Comps |-> "open"] \in [Comps -> {"open", "done", "freed"}]
        /\ [i \in Comps |-> MaxResends] \in [Comps -> Left]
    BY <1>1 DEF IceState
  <2>3. t = [up |-> FALSE, run |-> TRUE, open |-> TRUE, last |-> FALSE,
             st |-> "INITIAL", ice |-> "INITIAL", comp |-> [i \in Comps |-> "INITIAL"],
             started |-> [i \in Comps |-> FALSE], timer |-> [i \in Comps |-> FALSE],
             ssl |-> [i \in Comps |-> "open"], left |-> [i \in Comps |-> MaxResends],
             keys |-> {}, ready |-> {}]
    BY <2>1 DEF None
  <2> QED BY <2>2, <2>3 DEF Transport, State, IceState
<1> HIDE DEF t
<1>4. Typed
  BY <1>1, <1>2, <1>3 DEF Init, Typed, State, Phase, Held, t
<1>5. TransportsSound
  BY <1>2, <1>3 DEF TransportsSound, Good, t
<1>6. TasksSound /\ GlobalSound /\ ToldSound /\ CloseSound /\ NeverClear /\ OnlyPacketInHand
  BY DEF Init, TasksSound, GlobalSound, ToldSound, Ascending, CloseSound, NeverClear,
         OnlyPacketInHand, Nothing
<1> QED BY <1>4, <1>5, <1>6 DEF IInv

LEMMA StutterSound ==
  ASSUME IInv, UNCHANGED vars
  PROVE  IInv'
<1>1. Monotone /\ ConnNext
  BY SameTransports, ConnKept DEF vars, Telling
<1>2. pipe' \in {"building", "initialized", "reset"} /\ phase' \in Phase /\ CloseSound'
  BY DEF vars, IInv, Typed, CloseSound, connVars
<1> QED BY <1>1, <1>2, OwnerSound DEF vars

LEMMA NextIInv ==
  ASSUME IInv, [Next]_vars
  PROVE  IInv'
<1>1. CASE CreateOffer \/ SetRemoteSdp \/ LastCandidate \/ Notify
  BY <1>1, CreateOfferSound, SetRemoteSdpSound, LastCandidateSound, NotifySound
<1>2. CASE Close
  BY <1>2, CloseLineSound, CloseTransportSound DEF Close
<1>3. CASE Worker
  BY <1>3, RunIceSound, RunDtlsSound, RunMediaSound, ReadPipelineSound, RunUpdateSound,
     RunSendSound, WritePipelineSound DEF Worker
<1>4. ASSUME NEW m \in Medium,
             Deliver(m) \/ GatheringDone(m) \/ NicerConnected(m) \/ NicerFailed(m)
      PROVE  IInv'
  BY <1>4, DeliverSound, GatheringDoneSound, NicerSound
<1>5. ASSUME NEW m \in Medium, NEW c \in Comps,
             \/ ComponentReady(m, c) \/ ComponentFailed(m, c)
             \/ Receive(m, c) \/ Resend(m, c)
      PROVE  IInv'
  BY <1>5, ComponentReadySound, ComponentFailedSound, ReceiveSound, ResendSound
<1>6. CASE UNCHANGED vars
  BY <1>6, StutterSound
<1> QED BY <1>1, <1>2, <1>3, <1>4, <1>5, <1>6 DEF Next

(* For any set of configurations, however often flights are re-sent and    *)
(* however many packets wait: a transport is ready only with all its keys  *)
(* and when ICE is beyond gathering, with nothing queued that says         *)
(* otherwise, and the connection is READY only when its transports are     *)
(* (DtlsTransport.cpp:312, WebRtcConnection.cpp:600, IceConnection.cpp).   *)
THEOREM ConnectionInductive == Spec => []IInv
<1>1. Init => IInv
  BY InitIInv
<1>2. IInv /\ [Next]_vars => IInv'
  BY NextIInv
<1> QED BY <1>1, <1>2, PTL DEF Spec

(* No media without keys: the connection says READY only when every        *)
(* transport its media needs has the keys of all of its components, and no *)
(* packet leaves where no SrtpChannel protects it (DtlsTransport.cpp:236). *)
THEOREM KeysFirst == Spec => []KeysBeforeMedia
<1>1. IInv => KeysBeforeMedia
  BY DEF IInv, GlobalSound, KeysBeforeMedia, ReadyMeansKeys
<1> QED BY <1>1, ConnectionInductive, PTL

(* Until close() sets FINISHED, what the listener heard ascends: it hears  *)
(* of no state twice and of none after a later one                         *)
(* (WebRtcConnection::updateState, WebRtcConnection.cpp:96).               *)
THEOREM NotifiesForward == Spec => []NotifiedForward
<1>1. IInv => NotifiedForward
  <2> SUFFICES ASSUME IInv, Telling, NEW i \in 1..Len(notified), NEW j \in 1..Len(notified), i < j
               PROVE  \E a, b \in 0..3 :
                 /\ a < b
                 /\ notified[i] = <<"STARTED", "GATHERED", "READY", "FAILED">>[a + 1]
                 /\ notified[j] = <<"STARTED", "GATHERED", "READY", "FAILED">>[b + 1]
    BY DEF NotifiedForward, Telling
  <2> DEFINE q == <<"STARTED", "GATHERED", "READY", "FAILED">>
  <2>1. /\ notified[i] \in DOMAIN Rank /\ notified[j] \in DOMAIN Rank
        /\ Rank[notified[i]] < Rank[notified[j]]
    <3>1. i \in DOMAIN notified /\ j \in DOMAIN notified
      BY DEF IInv, Typed
    <3> QED BY <3>1 DEF IInv, ToldSound, Ascending
  <2>2. \A s \in DOMAIN Rank : Rank[s] - 1 \in 0..3 /\ Rank[s] \in 1..4 /\ q[Rank[s]] = s
    BY DEF Rank
  <2> HIDE DEF q, Rank
  <2> DEFINE a == Rank[notified[i]] - 1
             b == Rank[notified[j]] - 1
  <2>3. a \in 0..3 /\ b \in 0..3 /\ a < b /\ notified[i] = q[a + 1] /\ notified[j] = q[b + 1]
    BY <2>1, <2>2
  <2> HIDE DEF a, b
  <2> QED BY <2>3 DEF q
<1> QED BY <1>1, ConnectionInductive, PTL

(* A packet the worker has in hand when the pipeline is reset passed its   *)
(* tests before close() took down what they read, and no packet passes     *)
(* them after: of all that wait when close() begins, no more than one ever *)
(* meets the pipeline close() reset (WebRtcConnection.cpp:89-104, 445,     *)
(* 848).                                                                   *)
THEOREM OnlyPacketInHandAlways == Spec => []OnlyPacketInHand
<1>1. IInv => OnlyPacketInHand
  BY DEF IInv
<1> QED BY <1>1, ConnectionInductive, PTL

-----------------------------------------------------------------------------
(* The tasks that wait for the worker are bounded, ICE's aside.            *)

\* What the rest of TypeOK says.
Counted ==
  /\ Cardinality(PacketTasks) <= MaxPackets
  /\ clear \in BOOLEAN /\ crashed \in {"no", "start", "update", "media", "send"}

\* The places of a queue that hold a packet.
Packets(q) == {i \in DOMAIN q : q[i].k # "ice"}

LEMMA PacketsFinite ==
  ASSUME NEW S, NEW q \in Seq(S)
  PROVE  IsFiniteSet(Packets(q)) /\ Cardinality(Packets(q)) \in Nat
<1>1. DOMAIN q = 1..Len(q) /\ Len(q) \in Nat
  OBVIOUS
<1>2. IsFiniteSet(DOMAIN q)
  BY <1>1, FS_Interval
<1>3. Packets(q) \in SUBSET DOMAIN q
  BY DEF Packets
<1> QED BY <1>2, <1>3, FS_Subset, FS_CardinalityType

(* Taking a task adds no packet: each that is left had a place.            *)
LEMMA PacketsTail ==
  ASSUME NEW S, NEW q \in Seq(S), q # <<>>
  PROVE  Cardinality(Packets(Tail(q))) <= Cardinality(Packets(q))
<1> DEFINE f == [i \in Packets(Tail(q)) |-> i + 1]
<1>1. \A i \in Packets(Tail(q)) : i \in Nat /\ i + 1 \in Packets(q)
  BY TailIs DEF Packets
<1>2. f \in Injection(Packets(Tail(q)), Packets(q))
  BY <1>1 DEF Injection, IsInjective
<1> QED BY <1>2, PacketsFinite, FS_Injection

(* Posting a task adds at most one, and none when the task is ICE's.       *)
LEMMA PacketsAppend ==
  ASSUME NEW S, NEW q \in Seq(S), NEW x \in S
  PROVE  /\ Cardinality(Packets(Append(q, x))) <= Cardinality(Packets(q)) + 1
         /\ x.k = "ice" => Cardinality(Packets(Append(q, x))) <= Cardinality(Packets(q))
<1> DEFINE all == Packets(q) \cup {Len(q) + 1}
<1>1. \A i \in Packets(Append(q, x)) : i \in Packets(q) \/ (i = Len(q) + 1 /\ x.k # "ice")
  <2>1. \A i \in DOMAIN Append(q, x) :
          \/ i \in DOMAIN q /\ Append(q, x)[i] = q[i]
          \/ i = Len(q) + 1 /\ Append(q, x)[i] = x
    BY AppendIs
  <2> QED BY <2>1, Zenon DEF Packets
<1>2. /\ IsFiniteSet(Packets(q)) /\ Cardinality(Packets(q)) \in Nat
  BY PacketsFinite
<1>3. IsFiniteSet(all) /\ Cardinality(all) \in Nat /\ Cardinality(all) <= Cardinality(Packets(q)) + 1
  <2>1. /\ IsFiniteSet(all)
        /\ Cardinality(all) = IF Len(q) + 1 \in Packets(q) THEN Cardinality(Packets(q))
                              ELSE Cardinality(Packets(q)) + 1
    BY <1>2, FS_AddElement, Zenon
  <2> QED BY <1>2, <2>1
<1>4. /\ Packets(Append(q, x)) \in SUBSET all
      /\ x.k = "ice" => Packets(Append(q, x)) \in SUBSET Packets(q)
  BY <1>1
<1> HIDE DEF all
<1>5. Append(q, x) \in Seq(S)
  OBVIOUS
<1>6. Cardinality(Packets(Append(q, x))) \in Nat
  BY <1>5, PacketsFinite
<1>7. Cardinality(Packets(Append(q, x))) <= Cardinality(all)
  BY <1>3, <1>4, FS_Subset
<1>8. x.k = "ice" => Cardinality(Packets(Append(q, x))) <= Cardinality(Packets(q))
  BY <1>2, <1>4, FS_Subset
<1> QED BY <1>2, <1>3, <1>6, <1>7, <1>8

\* What a step may make of the queue.
IcePosted  == \E x \in Task : x.k = "ice" /\ Post(x)
PostedNext == \E x \in Task : PostPacket(x)
TasksNext  == Shrinks \/ IcePosted \/ PostedNext

LEMMA IceTasks ==
  ASSUME NEW m \in Medium, NEW t, NEW s \in {"CANDIDATES_RECEIVED", "READY", "FAILED"},
         UpdateIceState(m, t, s)
  PROVE  TasksNext
<1>1. [k |-> "ice", m |-> m, s |-> s] \in Task
  BY DEF Task, IceTask
<1> QED BY <1>1 DEF UpdateIceState, TasksNext, IcePosted, Shrinks

LEMMA NextTasks ==
  ASSUME IInv, [Next]_vars
  PROVE  TasksNext
<1>1. CASE CreateOffer \/ SetRemoteSdp \/ LastCandidate \/ UNCHANGED vars
  BY <1>1 DEF CreateOffer, SetRemoteSdp, LastCandidate, vars, TasksNext, Shrinks
<1>2. CASE Notify
  <2>1. [k |-> "update"] \in Task
    BY DEF Task, UpdateTask
  <2> QED BY <1>2, <2>1 DEF Notify, TasksNext, PostedNext
<1>3. CASE Close
  BY <1>3 DEF Close, CloseBegin, CloseState, CloseSinks, CloseEnd, CloseTransport, TasksNext, Shrinks
<1>4. CASE Worker
  BY <1>4 DEF Worker, RunIce, RunDtls, RunMedia, ReadPipeline, RunUpdate, RunSend,
              WritePipeline, Next1, TasksNext, Shrinks
<1>5. ASSUME NEW m \in Medium, Deliver(m)
      PROVE  TasksNext
  <2>1. \A rtcp \in BOOLEAN : [k |-> "send", m |-> m, rtcp |-> rtcp] \in Task
    BY DEF Task, SendTask
  <2> QED BY <1>5, <2>1 DEF Deliver, SendPacketAsync, TasksNext, PostedNext
<1>6. ASSUME NEW m \in Medium, GatheringDone(m) \/ NicerConnected(m) \/ NicerFailed(m)
      PROVE  TasksNext
  BY <1>6, IceTasks DEF GatheringDone, NicerConnected, NicerFailed
<1>7. ASSUME NEW m \in Medium, NEW c \in Comps, ComponentReady(m, c) \/ ComponentFailed(m, c)
      PROVE  TasksNext
  BY <1>7, IceTasks DEF ComponentReady, ComponentFailed, TasksNext, Shrinks
<1>8. ASSUME NEW m \in Medium, NEW c \in Comps, Receive(m, c)
      PROVE  TasksNext
  <2>1. /\ [k |-> "media", m |-> m] \in Task
        /\ \A r \in Results : [k |-> "dtls", m |-> m, c |-> c, r |-> r] \in Task
    BY DEF Task, MediaTask, DtlsTask
  <2> QED BY <1>8, <2>1 DEF Receive, Results, TasksNext, PostedNext
<1>9. ASSUME NEW m \in Medium, NEW c \in Comps, Resend(m, c)
      PROVE  TasksNext
  BY <1>9 DEF Resend, TasksNext, Shrinks
<1> QED BY <1>1, <1>2, <1>3, <1>4, <1>5, <1>6, <1>7, <1>8, <1>9 DEF Next

LEMMA NextRest ==
  ASSUME IInv, Counted, [Next]_vars
  PROVE  /\ conf' = conf /\ clear' \in BOOLEAN
         /\ crashed' \in {"no", "start", "update", "media", "send"}
<1> DEFINE Kept == conf' = conf /\ clear' = clear /\ crashed' = crashed
           Goal == /\ conf' = conf /\ clear' \in BOOLEAN
                   /\ crashed' \in {"no", "start", "update", "media", "send"}
<1>1. Kept => Goal
  BY DEF Counted
<1>2. CASE Worker
  <2>1. CASE RunIce
    <3>1. conf' = conf /\ clear' = clear /\ crashed' \in {crashed, "start", "no"}
      BY <2>1 DEF RunIce, Fixed
    <3> QED BY <3>1 DEF Counted
  <2>2. CASE RunDtls
    BY <1>1, <2>2 DEF RunDtls, Fixed
  <2>3. CASE RunMedia
    BY <1>1, <2>3 DEF RunMedia, Fixed
  <2>4. CASE RunUpdate
    BY <2>4 DEF RunUpdate, Fixed, Counted
  <2>5. CASE RunSend
    BY <1>1, <2>5 DEF RunSend, Fixed
  <2>6. CASE ReadPipeline
    BY <2>6 DEF ReadPipeline, Fixed, Counted
  <2>7. CASE WritePipeline
    <3>1. conf' = conf /\ crashed' \in {"send", "no"}
      BY <2>7 DEF WritePipeline, Fixed
    <3>2. clear' \in BOOLEAN
      BY <2>7, Zenon DEF WritePipeline
    <3> QED BY <3>1, <3>2
  <2> QED BY <1>2, <2>1, <2>2, <2>3, <2>4, <2>5, <2>6, <2>7 DEF Worker
<1>3. CASE CreateOffer \/ SetRemoteSdp \/ LastCandidate \/ Notify \/ Close \/ UNCHANGED vars
  BY <1>1, <1>3 DEF CreateOffer, SetRemoteSdp, LastCandidate, Notify, Close, CloseBegin,
                    CloseTransport, CloseState, CloseSinks, CloseEnd, vars
<1>4. ASSUME NEW m \in Medium,
             Deliver(m) \/ GatheringDone(m) \/ NicerConnected(m) \/ NicerFailed(m)
      PROVE  Goal
  BY <1>1, <1>4 DEF Deliver, GatheringDone, NicerConnected, NicerFailed, IceOnly
<1>5. ASSUME NEW m \in Medium, NEW c \in Comps,
             \/ ComponentReady(m, c) \/ ComponentFailed(m, c)
             \/ Receive(m, c) \/ Resend(m, c)
      PROVE  Goal
  BY <1>1, <1>5 DEF ComponentReady, ComponentFailed, Receive, Resend, IceOnly, Fixed
<1> HIDE DEF Goal
<1>6. Goal
  BY <1>2, <1>3, <1>4, <1>5 DEF Next, Goal
<1> QED BY <1>6 DEF Goal

LEMMA NextCounted ==
  ASSUME IInv, Counted, [Next]_vars
  PROVE  Counted'
<1>1. tasks \in Seq(Task) /\ PacketTasks = Packets(tasks) /\ PacketTasks' = Packets(tasks')
  BY DEF IInv, Typed, PacketTasks, Packets
<1>2. MaxPackets \in Nat
  BY ConnectionAssumption
<1>3. Cardinality(Packets(tasks)) \in Nat /\ Cardinality(Packets(tasks)) <= MaxPackets
  BY <1>1, PacketsFinite DEF Counted
<1>4. tasks' \in Seq(Task)
  <2>1. IInv' /\ conf' = conf
    BY NextIInv, NextRest
  <2>2. Task' = Task
    BY <2>1 DEF Task, IceTask, DtlsTask, MediaTask, SendTask, UpdateTask, Comps
  <2> QED BY <2>1, <2>2 DEF IInv, Typed
<1>5. Cardinality(Packets(tasks')) \in Nat
  BY <1>4, PacketsFinite
<1>6. Cardinality(Packets(tasks')) <= MaxPackets
  <2>1. CASE tasks' = tasks
    BY <1>3, <2>1
  <2>2. CASE tasks # <<>> /\ tasks' = Tail(tasks)
    BY <1>1, <1>2, <1>3, <1>5, <2>2, PacketsTail
  <2>3. ASSUME NEW x \in Task, x.k = "ice", Post(x)
        PROVE  Cardinality(Packets(tasks')) <= MaxPackets
    BY <1>1, <1>2, <1>3, <1>5, <2>3, PacketsAppend DEF Post
  <2>4. ASSUME NEW x \in Task, PostPacket(x)
        PROVE  Cardinality(Packets(tasks')) <= MaxPackets
    <3>1. Cardinality(Packets(tasks)) < MaxPackets /\ tasks' = Append(tasks, x)
      BY <1>1, <2>4 DEF PostPacket, Post
    <3> QED BY <1>1, <1>2, <1>3, <1>5, <3>1, PacketsAppend
  <2> QED BY <2>1, <2>2, <2>3, <2>4, NextTasks DEF TasksNext, Shrinks, IcePosted, PostedNext
<1> QED BY <1>1, <1>6, NextRest DEF Counted

(* For any bound on them, no more tasks than that wait for the worker      *)
(* beside those of ICE (Transport.h:77, Worker::task), every transport has *)
(* the fields of its components only, and SRTP is on for no component      *)
(* whose keys have not come (DtlsTransport::onHandshakeCompleted).         *)
THEOREM ConnectionTypeCorrect == Spec => []TypeOK
<1>1. Init => IInv /\ Counted
  <2>1. ASSUME Init PROVE PacketTasks = {}
    BY <2>1 DEF Init, PacketTasks
  <2>2. ASSUME Init PROVE Counted
    <3>1. Cardinality({}) = 0
      BY FS_EmptySet
    <3>2. Cardinality(PacketTasks) <= MaxPackets
      BY <2>1, <2>2, <3>1, ConnectionAssumption
    <3> QED BY <2>2, <3>2 DEF Init, Counted
  <2> QED BY <2>2, InitIInv
<1>2. (IInv /\ Counted) /\ [Next]_vars => (IInv /\ Counted)'
  BY NextIInv, NextCounted
<1>3. IInv /\ Counted => TypeOK
  <2> SUFFICES ASSUME IInv, Counted PROVE TypeOK
    OBVIOUS
  <2>1. ASSUME NEW m \in Medium
        PROVE  /\ tr[m] \in Transport /\ tr[m].ready \subseteq tr[m].keys
    BY DEF IInv, TransportsSound, Good
  <2>2. Typed
    BY DEF IInv
  <2> QED BY <2>1, <2>2 DEF TypeOK, Typed, Held, Transport, Counted
<1> QED BY <1>1, <1>2, <1>3, PTL DEF Spec

-----------------------------------------------------------------------------
(* The pipeline and the distribution of a session, as the modules they have  *)
(* proofs in: the definitions of the two instances are the same.            *)

PP == INSTANCE PipelineProof WITH MaxCalls <- MaxRuns, calls <- turns, crashed <- pipeCrashed
DP == INSTANCE OneToManyProof WITH MaxPackets <- MaxPublished, crashed <- distCrashed

\* The pipeline begins the same.
LEMMA SamePipeInit == (Pipe!Init <=> PP!Init)
BY DEF
  Pipe!Init, PP!Init, Pipe!None, PP!None, Pipe!Ids, PP!Ids, Pipe!Threads, PP!Threads

\* It takes the same steps.
LEMMA SamePipeNext == (Pipe!Next <=> PP!Next)
BY DEF
  Pipe!Next, PP!Next, Pipe!Remove, PP!Remove, Pipe!Add, PP!Add, Pipe!Cardinality,
  PP!Cardinality, Pipe!RemoveFront, PP!RemoveFront, Pipe!RemoveBack, PP!RemoveBack,
  Pipe!Finalize, PP!Finalize, Pipe!SX!Reverse, PP!SX!Reverse, Pipe!SX!ToSet,
  PP!SX!ToSet, Pipe!StartClose, PP!StartClose, Pipe!Reset, PP!Reset, Pipe!Start,
  PP!Start, Pipe!Threads, PP!Threads, Pipe!Enter, PP!Enter, Pipe!Return, PP!Return,
  Pipe!Fire, PP!Fire, Pipe!Quiet, PP!Quiet, Pipe!Found, PP!Found, Pipe!SX!FoldLeft,
  PP!SX!FoldLeft, Pipe!SX!MapThenFoldSet, PP!SX!MapThenFoldSet, Pipe!SX!Max,
  PP!SX!Max, Pipe!RemoveAt, PP!RemoveAt, Pipe!Put, PP!Put, Pipe!links, PP!links,
  Pipe!marks, PP!marks, Pipe!Keep, PP!Keep, Pipe!Linked, PP!Linked, Pipe!None,
  PP!None, Pipe!lists, PP!lists, Pipe!Ok, PP!Ok, Pipe!Push, PP!Push, Pipe!Built,
  PP!Built, Pipe!Top, PP!Top, Pipe!Held, PP!Held, Pipe!Only, PP!Only, Pipe!Ids,
  PP!Ids, Pipe!After, PP!After

\* It assumes and promises the same.
LEMMA SamePipeState == (Pipe!Sensible <=> PP!Sensible) /\ (Pipe!TypeOK <=> PP!TypeOK) /\ (Pipe!PacketsInOrder <=> PP!PacketsInOrder) /\ (Pipe!GuardsHold <=> PP!GuardsHold)
BY DEF
  Pipe!Sensible, PP!Sensible, Pipe!TypeOK, PP!TypeOK, Pipe!SX!ToSet, PP!SX!ToSet,
  Pipe!PacketsInOrder, PP!PacketsInOrder, Pipe!GuardsHold, PP!GuardsHold, Pipe!Ids,
  PP!Ids, Pipe!None, PP!None, Pipe!Threads, PP!Threads, Pipe!Mirrors, PP!Mirrors,
  Pipe!VisitsInOrder, PP!VisitsInOrder, Pipe!KnowsContext, PP!KnowsContext,
  Pipe!Only, PP!Only, Pipe!Inbound, PP!Inbound, Pipe!Outbound, PP!Outbound,
  Pipe!Neighbours, PP!Neighbours, Pipe!Place, PP!Place

\* So does the distribution begin,
LEMMA SameDistInit == (Dist!Init <=> DP!Init)
BY DEF
  Dist!Init, DP!Init, Dist!None, DP!None, Dist!Threads, DP!Threads, Dist!NoJob,
  DP!NoJob, Dist!ExternalThread, DP!ExternalThread, Dist!Job, DP!Job

\* step,
LEMMA SameDistNext == (Dist!Next <=> DP!Next)
BY DEF
  Dist!Next, DP!Next, Dist!AddSubscriber, DP!AddSubscriber, Dist!RemoveSubscriber,
  DP!RemoveSubscriber, Dist!CloseAll, DP!CloseAll, Dist!Close, DP!Close,
  Dist!Packet, DP!Packet, Dist!Feedback, DP!Feedback, Dist!Threads, DP!Threads,
  Dist!Work, DP!Work, Dist!None, DP!None, Dist!media, DP!media, Dist!Post, DP!Post,
  Dist!Job, DP!Job, Dist!PublisherClosed, DP!PublisherClosed, Dist!LockAll,
  DP!LockAll, Dist!CloseNext, DP!CloseNext, Dist!SubscriberClosed,
  DP!SubscriberClosed, Dist!SourceThread, DP!SourceThread, Dist!ExternalThread,
  DP!ExternalThread, Dist!Begin, DP!Begin, Dist!RunClose, DP!RunClose, Dist!RunTick,
  DP!RunTick, Dist!RunFrame, DP!RunFrame, Dist!RunVideo, DP!RunVideo,
  Dist!RunDeliver, DP!RunDeliver, Dist!RunFeedback, DP!RunFeedback,
  Dist!RunFeedbackCall, DP!RunFeedbackCall, Dist!Subscribed, DP!Subscribed,
  Dist!NoJob, DP!NoJob, Dist!End, DP!End, Dist!Outside, DP!Outside, Dist!Runs,
  DP!Runs

\* assume and promise.
LEMMA SameDistState == (Dist!Sensible <=> DP!Sensible) /\ (Dist!TypeOK <=> DP!TypeOK) /\ (Dist!Distributed <=> DP!Distributed)
BY DEF
  Dist!Sensible, DP!Sensible, Dist!TypeOK, DP!TypeOK, Dist!SX!ToSet, DP!SX!ToSet,
  Dist!Distributed, DP!Distributed, Dist!None, DP!None, Dist!Threads, DP!Threads,
  Dist!Jobs, DP!Jobs, Dist!NoneToClosed, DP!NoneToClosed, Dist!KeyframeOwed,
  DP!KeyframeOwed, Dist!AllClosed, DP!AllClosed, Dist!ExternalThread,
  DP!ExternalThread, Dist!Job, DP!Job, Dist!Runs, DP!Runs

\* A session runs its pipeline as Pipeline.cpp does.
LEMMA SessionPipe == SessionSpec => PP!Spec
<1>1. SessionInit => PP!Init
  BY SamePipeInit DEF SessionInit
<1>2. [SessionNext]_sessionVars => [PP!Next]_(PP!vars)
  <2> SUFFICES ASSUME [SessionNext]_sessionVars PROVE [PP!Next]_(PP!vars)
    OBVIOUS
  <2>1. CASE PipeStep
    BY <2>1, SamePipeNext DEF PipeStep
  <2>2. CASE UNCHANGED pipeVars
    BY <2>2 DEF pipeVars, PP!vars, PP!lists, PP!links, PP!marks
  <2> QED
    BY <2>1, <2>2
    DEF SessionNext, sessionVars, pipeVars, ConnStep, SdpStep, DistStep
<1> QED BY <1>1, <1>2, PTL DEF SessionSpec, PP!Spec

\* And its distribution as OneToManyProcessor.cpp does.
LEMMA SessionDist == SessionSpec => DP!Spec
<1>1. SessionInit => DP!Init
  BY SameDistInit DEF SessionInit
<1>2. [SessionNext]_sessionVars => [DP!Next]_(DP!vars)
  <2> SUFFICES ASSUME [SessionNext]_sessionVars PROVE [DP!Next]_(DP!vars)
    OBVIOUS
  <2>1. CASE DistStep
    BY <2>1, SameDistNext DEF DistStep
  <2>2. CASE UNCHANGED distVars
    BY <2>2 DEF distVars, DP!vars, DP!media
  <2> QED
    BY <2>1, <2>2
    DEF SessionNext, sessionVars, distVars, ConnStep, SdpStep, PipeStep
<1> QED BY <1>1, <1>2, PTL DEF SessionSpec, DP!Spec

\* The connection of a session is a Connection.
LEMMA SessionConn == SessionSpec => Spec
<1>1. SessionInit => Init
  BY DEF SessionInit
<1>2. [SessionNext]_sessionVars => [Next]_vars
  <2> SUFFICES ASSUME [SessionNext]_sessionVars PROVE [Next]_vars
    OBVIOUS
  <2> QED
    BY DEF SessionNext, sessionVars, ConnStep, SdpStep, PipeStep, DistStep
<1> QED BY <1>1, <1>2, PTL DEF SessionSpec, Spec

\* In a session every packet passes the handlers of its direction in their
\* order, and a packet inside the pipeline keeps it when close() resets the
\* connection's pointer to it (WebRtcConnection.cpp:84, HandlerContext-inl.h:62).
THEOREM SessionPackets == SessionSpec => []PipelineSound
<1>1. PP!Sensible
  BY PipeSensible, SamePipeState
<1>2. SessionSpec => [](PP!TypeOK /\ PP!PacketsInOrder /\ PP!GuardsHold)
  BY <1>1, SessionPipe, PP!PipelineAlways, PTL
<1>3. PP!TypeOK /\ PP!PacketsInOrder /\ PP!GuardsHold => PipelineSound
  BY SamePipeState DEF PipelineSound
<1> QED BY <1>2, <1>3, PTL

\* In a session nothing goes to a closed subscriber, a key frame that was asked
\* for is owed, and closeAll closes every one (OneToManyProcessor.cpp:122).
THEOREM SessionDistributes == SessionSpec => []Distributed
<1>1. DP!Sensible
  BY DistSensible, SameDistState
<1>2. SessionSpec => [](DP!TypeOK /\ DP!Distributed)
  BY <1>1, SessionDist, DP!DistributedAlways, PTL
<1>3. DP!TypeOK /\ DP!Distributed => Distributed
  BY SameDistState DEF Distributed
<1> QED BY <1>2, <1>3, PTL

==============================================================================
