--------------------------- MODULE ThreadPoolProof ---------------------------
(***************************************************************************)
(* Proofs about ThreadPool, for all values of its constants.               *)
(***************************************************************************)
EXTENDS ThreadPool, FiniteSetTheorems, TLAPS

(* The place of an insertion is one of the queue.                          *)
LEMMA PlaceType ==
  ASSUME NEW q \in Seq(Entry), NEW e \in Entry
  PROVE  LET S == {i \in DOMAIN q : q[i].at <= e.at}
         IN  /\ IsFiniteSet(S) /\ S \in SUBSET (1 .. Len(q))
             /\ Cardinality(S) \in Nat /\ Cardinality(S) <= Len(q)
<1> DEFINE S == {i \in DOMAIN q : q[i].at <= e.at}
<1>1. S \in SUBSET (1 .. Len(q)) /\ Len(q) \in Nat
  OBVIOUS
<1>2. IsFiniteSet(1 .. Len(q)) /\ Cardinality(1 .. Len(q)) = Len(q)
  BY <1>1, FS_Interval, Z3T(60)
<1>3. IsFiniteSet(S) /\ Cardinality(S) <= Cardinality(1 .. Len(q))
  BY <1>1, <1>2, FS_Subset
<1>4. Cardinality(S) \in Nat
  BY <1>3, FS_CardinalityType
<1> QED
  BY <1>1, <1>2, <1>3, <1>4

(* What an insertion makes of a queue, entry by entry.                     *)
LEMMA InsertEntries ==
  ASSUME NEW q \in Seq(Entry), NEW e \in Entry
  PROVE  LET n == Cardinality({i \in DOMAIN q : q[i].at <= e.at})
         IN  /\ n \in 0 .. Len(q)
             /\ Insert(q, e) \in Seq(Entry)
             /\ Len(Insert(q, e)) = Len(q) + 1
             /\ \A i \in 1 .. Len(q) + 1 :
                  Insert(q, e)[i] = IF i <= n THEN q[i]
                                    ELSE IF i = n + 1 THEN e ELSE q[i - 1]
<1> DEFINE n == Cardinality({i \in DOMAIN q : q[i].at <= e.at})
           a == SubSeq(q, 1, n)
           b == SubSeq(q, n + 1, Len(q))
<1>1. n \in Nat /\ n <= Len(q)
  BY PlaceType
<1> HIDE DEF n
<1>2. /\ a \in Seq(Entry) /\ Len(a) = n
      /\ \A i \in 1 .. n : a[i] = q[i]
  BY <1>1
<1>3. /\ b \in Seq(Entry) /\ Len(b) = Len(q) - n
      /\ \A i \in 1 .. Len(q) - n : b[i] = q[n + i]
  BY <1>1
<1>4. Insert(q, e) = a \o <<e>> \o b
  BY DEF Insert, n
<1> HIDE DEF a, b
<1>5. /\ a \o <<e>> \in Seq(Entry) /\ Len(a \o <<e>>) = n + 1
      /\ \A i \in 1 .. n + 1 : (a \o <<e>>)[i] = IF i <= n THEN q[i] ELSE e
  BY <1>1, <1>2
<1>6. Insert(q, e) \in Seq(Entry) /\ Len(Insert(q, e)) = Len(q) + 1
  BY <1>1, <1>3, <1>4, <1>5
<1>7. ASSUME NEW i \in 1 .. Len(q) + 1
      PROVE  Insert(q, e)[i] = IF i <= n THEN q[i] ELSE IF i = n + 1 THEN e ELSE q[i - 1]
  <2>1. CASE i <= n + 1
    BY <2>1, <1>1, <1>3, <1>4, <1>5
  <2>2. CASE i > n + 1
    <3>1. Insert(q, e)[i] = b[i - (n + 1)]
      BY <2>2, <1>1, <1>3, <1>4, <1>5
    <3>2. i - (n + 1) \in 1 .. Len(q) - n
      BY <2>2, <1>1
    <3>3. b[i - (n + 1)] = q[n + (i - (n + 1))] /\ n + (i - (n + 1)) = i - 1
      BY <3>2, <1>1, <1>3
    <3> QED BY <3>1, <3>3, <2>2, <1>1
  <2> QED BY <2>1, <2>2, <1>1
<1> QED
  BY <1>1, <1>6, <1>7 DEF n

(* The times of a queue do not decrease.                                   *)
Ascending(q) == \A i, j \in DOMAIN q : i < j => q[i].at <= q[j].at

(* In an ascending queue the entries due no later than e are a prefix: an   *)
(* insertion puts e behind all of them and before the others.              *)
LEMMA InsertAscending ==
  ASSUME NEW q \in Seq(Entry), NEW e \in Entry, Ascending(q)
  PROVE  Ascending(Insert(q, e))
<1> DEFINE S == {i \in DOMAIN q : q[i].at <= e.at}
           n == Cardinality(S)
           r == Insert(q, e)
<1>1a. Len(q) \in Nat /\ DOMAIN q = 1 .. Len(q)
  OBVIOUS
<1>1b. IsFiniteSet(S) /\ S \in SUBSET (1 .. Len(q)) /\ n \in Nat /\ n <= Len(q)
  BY PlaceType, Zenon
<1>1. /\ IsFiniteSet(S) /\ S \in SUBSET (1 .. Len(q))
      /\ n \in Nat /\ n <= Len(q) /\ Len(q) \in Nat
  BY <1>1a, <1>1b
<1>2a. \A i \in 1 .. Len(q) : q[i] \in Entry
  OBVIOUS
<1>2. \A i \in 1 .. Len(q) : q[i].at \in Int
  BY <1>2a DEF Entry, Time
<1>3. e.at \in Int
  BY DEF Entry, Time
<1>4. \A i \in S : i <= n
  <2>1. TAKE i \in S
  <2>2. i \in 1 .. Len(q) /\ i \in Nat
    BY <1>1
  <2>3. 1 .. i \in SUBSET S
    BY <1>1, <1>2, <1>3, <2>2, SMTT(60) DEF Ascending
  <2>4. Cardinality(1 .. i) = i
    BY <2>2, FS_Interval, Z3T(60)
  <2>5. Cardinality(1 .. i) <= n
    BY <1>1, <2>3, FS_Subset
  <2> QED BY <2>4, <2>5
<1>5. S = 1 .. n
  <2>1. S \in SUBSET (1 .. n)
    BY <1>1, <1>4
  <2>2. IsFiniteSet(1 .. n) /\ Cardinality(1 .. n) = n
    BY <1>1, FS_Interval, Z3T(60)
  <2> QED BY <2>1, <2>2, FS_Subset
<1>6. \A i \in 1 .. Len(q) : q[i].at <= e.at <=> i <= n
  BY <1>1, <1>5
<1>7. /\ DOMAIN r = 1 .. Len(q) + 1
      /\ \A i \in 1 .. Len(q) + 1 :
           r[i] = IF i <= n THEN q[i] ELSE IF i = n + 1 THEN e ELSE q[i - 1]
  <2>1. /\ r \in Seq(Entry) /\ Len(r) = Len(q) + 1
        /\ \A i \in 1 .. Len(q) + 1 :
             r[i] = IF i <= n THEN q[i] ELSE IF i = n + 1 THEN e ELSE q[i - 1]
    BY InsertEntries, Zenon
  <2> HIDE DEF r, n
  <2> QED BY <2>1
<1> HIDE DEF n, r, S
<1>8. ASSUME NEW i \in 1 .. Len(q) + 1, NEW j \in 1 .. Len(q) + 1, i < j
      PROVE  r[i].at <= r[j].at
  <2>1. \A x, y \in 1 .. Len(q) : x < y => q[x].at <= q[y].at
    BY DEF Ascending
  <2>2. CASE j <= n
    BY <1>1, <1>7, <1>8, <2>1, <2>2
  <2>3. CASE j = n + 1
    BY <1>1, <1>6, <1>7, <1>8, <2>3
  <2>4. CASE j > n + 1
    <3>1. r[j] = q[j - 1] /\ j - 1 \in 1 .. Len(q) /\ ~ (j - 1 <= n)
      BY <1>1, <1>7, <2>4
    <3>2. e.at <= q[j - 1].at
      BY <1>2, <1>3, <1>6, <3>1
    <3>3. CASE i = n + 1
      BY <1>1, <1>7, <3>1, <3>2, <3>3
    <3>4. CASE i <= n
      BY <1>1, <1>7, <2>1, <2>4, <3>1, <3>4
    <3>5. CASE i > n + 1
      BY <1>1, <1>7, <1>8, <2>1, <2>4, <3>1, <3>5
    <3> QED BY <1>1, <3>3, <3>4, <3>5
  <2> QED BY <1>1, <2>2, <2>3, <2>4
<1> QED
  BY <1>7, <1>8 DEF Ascending, r

(* The first entry after an insertion is due no later than the one before. *)
LEMMA InsertHead ==
  ASSUME NEW q \in Seq(Entry), NEW e \in Entry, q # <<>>
  PROVE  Insert(q, e) # <<>> /\ Head(Insert(q, e)).at <= Head(q).at
<1> DEFINE S == {i \in DOMAIN q : q[i].at <= e.at}
           n == Cardinality(S)
<1>1. /\ Insert(q, e) \in Seq(Entry) /\ Len(Insert(q, e)) = Len(q) + 1
      /\ Insert(q, e)[1] = IF 1 <= n THEN q[1] ELSE IF 1 = n + 1 THEN e ELSE q[1 - 1]
      /\ n \in Nat
  BY InsertEntries
<1>2a. 1 \in DOMAIN q /\ q[1] \in Entry /\ Head(q) = q[1]
  OBVIOUS
<1>2. 1 \in DOMAIN q /\ q[1].at \in Int /\ e.at \in Int
  BY <1>2a DEF Entry, Time
<1>3. CASE n = 0
  <2>1. S = {}
    BY <1>3, PlaceType, FS_EmptySet
  <2>2. e.at < q[1].at
    BY <1>2, <2>1
  <2>3. Insert(q, e) # <<>> /\ Head(Insert(q, e)) = e
    BY <1>1, <1>3
  <2> QED BY <1>2, <1>2a, <2>2, <2>3
<1>4. CASE n # 0
  BY <1>1, <1>2, <1>4
<1> QED BY <1>3, <1>4

-----------------------------------------------------------------------------
(* Types. *)

(* What Enqueue leaves.                                                    *)
LEMMA EnqueueType ==
  ASSUME TypeOK, NEW k \in Task, NEW at \in Time, Enqueue(k, at)
  PROVE  queue' \in Seq(Entry) /\ notify' \in Nat /\ notify' > 0
<1>1. queue \in Seq(Entry) /\ notify \in Nat /\ [at |-> at, task |-> k] \in Entry
  BY DEF TypeOK, Entry
<1>2. Insert(queue, [at |-> at, task |-> k]) \in Seq(Entry)
  BY <1>1, InsertEntries, Zenon
<1>3. notify + 1 \in Nat /\ notify + 1 > 0
  BY <1>1
<1> QED
  BY <1>2, <1>3 DEF Enqueue

(* What a step of a service thread in serviceQueue leaves.                 *)
LEMMA GoType ==
  ASSUME TypeOK, NEW t \in Thread, NEW until \in Time,
         NEW where \in {"top", "wait", "until", "run", "gone"},
         Go(t, where, until),
         queue' \in Seq(Entry), hand' \in [Thread -> Seq(Entry)],
         \A u \in Thread : hand'[u] = hand[u] \/ (u = t /\ hand'[u] # <<>>),
         where = "run" => hand'[t] # <<>>
  PROVE  TypeOK'
<1>1. /\ thr' \in [Thread -> {"top", "wait", "until", "run", "gone"}]
      /\ deadline' \in [Thread -> Time]
      /\ awake' \in SUBSET Thread
  BY DEF TypeOK, Go
<1>2. \A u \in Thread : thr'[u] = "run" => hand'[u] # <<>>
  BY DEF TypeOK, Go
<1> QED
  BY <1>1, <1>2 DEF TypeOK, Go, flagVars, workerVars, userVars

(* The next run of a series is not in the past.                            *)
LEMMA NextTimeType ==
  ASSUME now \in Nat, NEW e, e.at \in Nat, NextTime(e) <= MaxTime
  PROVE  NextTime(e) \in Time
<1>1. Period \in Nat /\ MaxTime \in Nat
  BY PoolAssumption
<1> QED
  BY <1>1 DEF NextTime, Time

LEMMA InitType == Init => TypeOK
<1>1. 0 \in Time /\ <<>> \in Seq(Entry)
  BY PoolAssumption DEF Time
<1> SUFFICES ASSUME Init PROVE TypeOK
  OBVIOUS
<1>2. now \in Time /\ queue \in Seq(Entry) /\ notify \in Nat
  BY <1>1 DEF Init
<1>3. /\ thr \in [Thread -> {"top", "wait", "until", "run", "gone"}]
      /\ deadline \in [Thread -> Time] /\ hand \in [Thread -> Seq(Entry)]
      /\ \A t \in Thread : thr[t] # "run"
  BY <1>1 DEF Init
<1>4. /\ loop \in [Worker -> {"launched", "loop", "gone"}]
      /\ service \in [Worker -> Seq(Entry)]
  BY <1>1 DEF Init
<1> QED
  BY <1>2, <1>3, <1>4 DEF Init, TypeOK

LEMMA StepType == TypeOK /\ [Next]_vars => TypeOK'
<1> SUFFICES ASSUME TypeOK, [Next]_vars PROVE TypeOK'
  OBVIOUS
<1> USE DEF schedVars, flagVars, threadVars, workerVars, userVars
<1>time. Time \subseteq Nat /\ MaxTime \in Nat /\ now \in Nat
  BY PoolAssumption DEF Time, TypeOK
<1>home. \A k \in Task : Home[k] \in Worker
  BY PoolAssumption
<1>head. \A q \in Seq(Entry) : q # <<>> =>
           Head(q) \in Entry /\ Tail(q) \in Seq(Entry) /\ Head(q).at \in Time
                             /\ Head(q).task \in Task
  <2>1. TAKE q \in Seq(Entry)
  <2>2. HAVE q # <<>>
  <2>3. Head(q) \in Entry /\ Tail(q) \in Seq(Entry)
    BY <2>2
  <2> QED BY <2>3 DEF Entry
<1>serves. \A w \in Worker : Serves(w) =>
             /\ service[w] \in Seq(Entry) /\ service[w] # <<>>
             /\ [service EXCEPT ![w] = Tail(@)] \in [Worker -> Seq(Entry)]
  BY DEF TypeOK, Serves
<1>1. CASE UNCHANGED vars
  BY <1>1 DEF TypeOK, vars
<1>2. ASSUME NEW k \in Task, NEW delta \in Time, ScheduleFromNow(k, delta)
      PROVE  TypeOK'
  <2>1. now + delta \in Time
    BY <1>2, <1>time DEF ScheduleFromNow, Time
  <2>2. queue' \in Seq(Entry) /\ notify' \in Nat
    BY <1>2, <2>1, EnqueueType DEF ScheduleFromNow
  <2> QED BY <1>2, <2>2 DEF TypeOK, ScheduleFromNow
<1>3. ASSUME NEW k \in Task, Post(k)
      PROVE  TypeOK'
  <2>1. [at |-> 0, task |-> k] \in Entry
    BY <1>time DEF Entry, Time
  <2>2. service' \in [Worker -> Seq(Entry)]
    BY <1>3, <1>home, <2>1 DEF TypeOK, Post
  <2> QED BY <1>3, <2>2 DEF TypeOK, Post
<1>4. ASSUME NEW k \in Task, Unschedule(k)
      PROVE  TypeOK'
  BY <1>4 DEF TypeOK, Unschedule
<1>5. ASSUME NEW t \in Thread, Leave(t)
      PROVE  TypeOK'
  <2>1. 0 \in Time
    BY <1>time DEF Time
  <2> QED BY <1>5, <2>1, GoType DEF Leave, TypeOK
<1>6. ASSUME NEW t \in Thread, Wait(t)
      PROVE  TypeOK'
  <2>1. 0 \in Time
    BY <1>time DEF Time
  <2> QED BY <1>6, <2>1, GoType DEF Wait, TypeOK
<1>7. ASSUME NEW t \in Thread, WaitUntil(t)
      PROVE  TypeOK'
  <2>1. Head(queue).at \in Time
    BY <1>7, <1>head DEF WaitUntil, TypeOK
  <2> QED BY <1>7, <2>1, GoType DEF WaitUntil, TypeOK
<1>8. ASSUME NEW t \in Thread, Take(t)
      PROVE  TypeOK'
  <2>1. 0 \in Time
    BY <1>time DEF Time
  <2>2. queue' \in Seq(Entry) /\ <<Head(queue)>> \in Seq(Entry) /\ <<Head(queue)>> # <<>>
    BY <1>8, <1>head DEF Take, TypeOK
  <2>3. /\ hand' \in [Thread -> Seq(Entry)] /\ hand'[t] # <<>>
        /\ \A u \in Thread : u # t => hand'[u] = hand[u]
    BY <1>8, <2>2 DEF Take, TypeOK
  <2>4. Go(t, "run", 0)
    BY <1>8 DEF Take
  <2> QED BY <2>1, <2>2, <2>3, <2>4, GoType
<1>9. ASSUME NEW t \in Thread, Fire(t)
      PROVE  TypeOK'
  <2> DEFINE e == Head(hand[t])
  <2>1. e \in Entry /\ Home[e.task] \in Worker
    BY <1>9, <1>head, <1>home DEF Fire, TypeOK
  <2>2. service' = [service EXCEPT ![Home[e.task]] = Append(@, e)]
    BY <1>9 DEF Fire
  <2> HIDE DEF e
  <2>3. service' \in [Worker -> Seq(Entry)]
    BY <2>1, <2>2 DEF TypeOK
  <2>4. /\ thr' \in [Thread -> {"top", "wait", "until", "run", "gone"}]
        /\ hand' \in [Thread -> Seq(Entry)]
        /\ \A u \in Thread : thr'[u] = "run" => hand'[u] # <<>>
    BY <1>9, SMTT(60) DEF Fire, TypeOK
  <2> QED BY <1>9, <2>3, <2>4 DEF Fire, TypeOK
<1>10. ASSUME NEW t \in Thread, Spurious(t)
       PROVE  TypeOK'
  BY <1>10 DEF TypeOK, Spurious
<1>11. ASSUME NEW w \in Worker, StartRun(w)
       PROVE  TypeOK'
  BY <1>11 DEF TypeOK, StartRun
<1>12. ASSUME NEW w \in Worker, RunOnce(w)
       PROVE  TypeOK'
  <2>1. Head(service[w]).task \in Task
    BY <1>12, <1>serves, <1>head DEF RunOnce
  <2> QED BY <1>12, <1>serves, <2>1 DEF TypeOK, RunOnce
<1>13. ASSUME NEW w \in Worker, RunAgain(w)
       PROVE  TypeOK'
  <2> DEFINE e == Head(service[w])
  <2>1. e.task \in Task /\ e.at \in Time
    BY <1>13, <1>serves, <1>head DEF RunAgain
  <2>2. NextTime(e) \in Time
    BY <1>13, <1>time, <2>1, NextTimeType DEF RunAgain
  <2>3. queue' \in Seq(Entry) /\ notify' \in Nat
    BY <1>13, <2>1, <2>2, EnqueueType DEF RunAgain
  <2> QED BY <1>13, <1>serves, <2>3 DEF TypeOK, RunAgain
<1>14. ASSUME NEW w \in Worker, RunLast(w)
       PROVE  TypeOK'
  <2>1. Head(service[w]).task \in Task
    BY <1>14, <1>serves, <1>head DEF RunLast
  <2> QED BY <1>14, <1>serves, <2>1 DEF TypeOK, RunLast
<1>15. ASSUME NEW w \in Worker, LeaveRun(w)
       PROVE  TypeOK'
  BY <1>15 DEF TypeOK, LeaveRun
<1>16. ASSUME NEW w \in Worker, CloseWorker(w)
       PROVE  TypeOK'
  BY <1>16 DEF TypeOK, CloseWorker
<1>17. CASE NotifyOne
  BY <1>17 DEF TypeOK, NotifyOne, Blocked
<1>18. CASE JoinWorker \/ StopDrain \/ StopNow
  BY <1>18 DEF TypeOK, JoinWorker, StopDrain, StopNow
<1>19. CASE NotifyAll \/ JoinThreads
  BY <1>19 DEF TypeOK, NotifyAll, JoinThreads, Blocked
<1>20. CASE Tick
  BY <1>20, <1>time DEF TypeOK, Tick, Time
<1> QED
  BY <1>1, <1>2, <1>3, <1>4, <1>5, <1>6, <1>7, <1>8, <1>9, <1>10, <1>11, <1>12, <1>13,
     <1>14, <1>15, <1>16, <1>17, <1>18, <1>19, <1>20
  DEF Next, Serve, WorkerStep

(* Every reachable state is well typed (Scheduler.h:39-45, Worker.h:58-63); *)
(* in particular a thread that runs a function holds one.                   *)
THEOREM PoolTypeCorrect == Spec => []TypeOK
<1>1. Init => TypeOK
  BY InitType
<1>2. TypeOK /\ [Next]_vars => TypeOK'
  BY StepType
<1> QED BY <1>1, <1>2, PTL DEF Spec

-----------------------------------------------------------------------------
(* No wakeup is lost. *)

(* A step that leaves the queue, the threads and the flag alone, and wakes  *)
(* at most more of them, keeps every watch.                                *)
LEMMA WatchKept ==
  ASSUME TypeOK, HeadWatched,
         UNCHANGED <<queue, stop_requested, thr, deadline>>,
         awake \subseteq awake', notify' >= notify, notify' \in Nat
  PROVE  HeadWatched'
<1>1. \A t \in Thread : Watches(t) => Watches(t)'
  BY DEF Watches
<1>2. notify \in Nat
  BY DEF TypeOK
<1> QED
  BY <1>1, <1>2 DEF HeadWatched, AllGone

(* A thread that stays in serviceQueue, awake or with the time of the first *)
(* entry as its deadline, watches.                                         *)
LEMMA WatchedByOne ==
  ASSUME NEW t \in Thread, Watches(t)'
  PROVE  HeadWatched'
BY DEF HeadWatched

LEMMA WatchStep == TypeOK /\ HeadWatched /\ [Next]_vars => HeadWatched'
<1> SUFFICES ASSUME TypeOK, HeadWatched, [Next]_vars PROVE HeadWatched'
  OBVIOUS
<1> USE DEF schedVars, flagVars, threadVars, workerVars, userVars
<1>type. /\ notify \in Nat
         /\ thr \in [Thread -> {"top", "wait", "until", "run", "gone"}]
         /\ deadline \in [Thread -> Time]
         /\ Time \subseteq Nat
         /\ queue \in Seq(Entry)
  BY PoolAssumption DEF TypeOK, Time
<1>1. CASE UNCHANGED <<queue, notify, stop_requested, thr, deadline, awake>>
  BY <1>1, <1>type, WatchKept
<1>2. ASSUME NEW k \in Task, NEW at \in Time, Enqueue(k, at)
      PROVE  HeadWatched'
  BY <1>2, EnqueueType DEF HeadWatched
<1>3. ASSUME NEW k \in Task, NEW delta \in Time, ScheduleFromNow(k, delta)
      PROVE  HeadWatched'
  BY <1>2, <1>3 DEF ScheduleFromNow, Time, TypeOK
<1>4. ASSUME NEW w \in Worker, RunAgain(w)
      PROVE  HeadWatched'
  <2> DEFINE e == Head(service[w])
  <2>1. service[w] \in Seq(Entry) /\ service[w] # <<>>
    BY <1>4 DEF RunAgain, Serves, TypeOK
  <2>2. e \in Entry
    BY <2>1
  <2>3. e.task \in Task /\ e.at \in Nat
    BY <1>type, <2>2 DEF Entry
  <2>4. NextTime(e) \in Time
    BY <1>4, <1>type, <2>3, NextTimeType DEF RunAgain, TypeOK
  <2> QED BY <1>2, <1>4, <2>3, <2>4 DEF RunAgain
<1>5. ASSUME NEW t \in Thread, Leave(t)
      PROVE  HeadWatched'
  <2>1. stop_requested' \/ queue' = <<>>
    BY <1>5 DEF Leave, Go
  <2> QED BY <2>1 DEF HeadWatched
<1>6. ASSUME NEW t \in Thread, Wait(t)
      PROVE  HeadWatched'
  BY <1>6 DEF Wait, HeadWatched
<1>7. ASSUME NEW t \in Thread, WaitUntil(t)
      PROVE  HeadWatched'
  <2>1. thr'[t] = "until" /\ deadline'[t] = Head(queue').at
    BY <1>7, <1>type DEF WaitUntil, Go
  <2>2. Head(queue).at \in Nat
    <3>1. Head(queue) \in Entry
      BY <1>7, <1>type DEF WaitUntil
    <3> QED BY <3>1, <1>type DEF Entry
  <2>3. Watches(t)'
    BY <1>7, <2>1, <2>2 DEF Watches, WaitUntil
  <2> QED BY <2>3, WatchedByOne
<1>8. ASSUME NEW t \in Thread, Take(t) \/ Fire(t)
      PROVE  HeadWatched'
  <2>1. thr'[t] \in {"top", "run"}
    BY <1>8, <1>type DEF Take, Fire, Go
  <2>2. Watches(t)'
    BY <2>1 DEF Watches
  <2> QED BY <2>2, WatchedByOne
<1>9. ASSUME NEW t \in Thread, Spurious(t)
      PROVE  HeadWatched'
  BY <1>9, <1>type, WatchKept DEF Spurious
<1>10. CASE NotifyOne
  <2>1. CASE Blocked = {}
    <3>1. CASE AllGone
      BY <1>10, <3>1 DEF NotifyOne, HeadWatched, AllGone
    <3>2. CASE ~AllGone
      <4>1. PICK t \in Thread : thr[t] # "gone"
        BY <3>2 DEF AllGone
      <4>2. thr[t] \in {"top", "run"} \/ (thr[t] \in {"wait", "until"} /\ t \in awake)
        BY <2>1, <4>1, <1>type DEF Blocked
      <4>3. UNCHANGED <<thr>> /\ awake \subseteq awake'
        BY <1>10 DEF NotifyOne
      <4>4. Watches(t)'
        BY <4>2, <4>3 DEF Watches
      <4> QED BY <4>4, WatchedByOne
    <3> QED BY <3>1, <3>2
  <2>2. ASSUME NEW t \in Blocked, awake' = awake \cup {t}
        PROVE  HeadWatched'
    <3>1. t \in Thread /\ thr'[t] \in {"wait", "until"} /\ t \in awake'
      BY <1>10, <2>2 DEF NotifyOne, Blocked
    <3>2. Watches(t)'
      BY <3>1 DEF Watches
    <3> QED BY <3>1, <3>2, WatchedByOne
  <2> QED BY <1>10, <2>1, <2>2 DEF NotifyOne
<1>11. CASE NotifyAll
  BY <1>11, <1>type, WatchKept DEF NotifyAll
<1>12. CASE StopNow
  BY <1>12 DEF StopNow, HeadWatched
<1>13. CASE UNCHANGED vars
  BY <1>1, <1>13 DEF vars
<1>14. ASSUME NEW k \in Task, Post(k) \/ Unschedule(k)
       PROVE  HeadWatched'
  BY <1>1, <1>14 DEF Post, Unschedule
<1>15. ASSUME NEW w \in Worker,
              StartRun(w) \/ RunOnce(w) \/ RunLast(w) \/ LeaveRun(w) \/ CloseWorker(w)
       PROVE  HeadWatched'
  BY <1>1, <1>15 DEF StartRun, RunOnce, RunLast, LeaveRun, CloseWorker
<1>16. CASE JoinWorker \/ StopDrain \/ JoinThreads \/ Tick
  BY <1>1, <1>16 DEF JoinWorker, StopDrain, JoinThreads, Tick
<1> QED
  BY <1>3, <1>4, <1>5, <1>6, <1>7, <1>8, <1>9, <1>10, <1>11, <1>12, <1>13, <1>14, <1>15,
     <1>16
  DEF Next, Serve, WorkerStep

(* While the scheduler serves, the first entry has a thread that looks at   *)
(* it by its time, or a notification is to come (Scheduler.cpp:28-34, 77).  *)
THEOREM NoLostWakeup == Spec => []HeadWatched
<1>1. Init => HeadWatched
  BY DEF Init, HeadWatched
<1>2. TypeOK /\ HeadWatched /\ [Next]_vars => HeadWatched'
  BY WatchStep
<1> QED BY <1>1, <1>2, PoolTypeCorrect, PTL DEF Spec

-----------------------------------------------------------------------------
(* What a step may do to the queue and to the threads that run a function.  *)

\* A step takes no entry.
Quiet == \A t \in Thread : thr'[t] = "run" => thr[t] = "run"

LEMMA QueueSteps ==
  TypeOK /\ [Next]_vars =>
    \/ Quiet /\ UNCHANGED queue
    \/ UNCHANGED <<thr, deadline, now>> /\ \E e \in Entry : queue' = Insert(queue, e)
    \/ \E t \in Thread : Take(t)
<1> SUFFICES ASSUME TypeOK, [Next]_vars
             PROVE  \/ Quiet /\ UNCHANGED queue
                    \/ UNCHANGED <<thr, deadline, now>> /\ \E e \in Entry : queue' = Insert(queue, e)
                    \/ \E t \in Thread : Take(t)
  OBVIOUS
<1> USE DEF schedVars, flagVars, threadVars, workerVars, userVars
<1>type. /\ thr \in [Thread -> {"top", "wait", "until", "run", "gone"}]
         /\ now \in Nat /\ Time \subseteq Nat
  BY PoolAssumption DEF TypeOK, Time
<1>1. CASE UNCHANGED <<thr, queue>>
  BY <1>1 DEF Quiet
<1>2. ASSUME NEW k \in Task, NEW delta \in Time, ScheduleFromNow(k, delta)
      PROVE  UNCHANGED <<thr, deadline, now>> /\ \E e \in Entry : queue' = Insert(queue, e)
  <2>1. now + delta \in Time
    BY <1>2, <1>type, PoolAssumption DEF ScheduleFromNow, Time
  <2>2. [at |-> now + delta, task |-> k] \in Entry
    BY <2>1 DEF Entry
  <2> QED BY <1>2, <2>2 DEF ScheduleFromNow, Enqueue
<1>3. ASSUME NEW w \in Worker, RunAgain(w)
      PROVE  UNCHANGED <<thr, deadline, now>> /\ \E e \in Entry : queue' = Insert(queue, e)
  <2> DEFINE e == Head(service[w])
  <2>1. service[w] \in Seq(Entry) /\ service[w] # <<>>
    BY <1>3 DEF RunAgain, Serves, TypeOK
  <2>2. e \in Entry
    BY <2>1
  <2>3. e.task \in Task /\ e.at \in Nat
    BY <1>type, <2>2 DEF Entry
  <2>4. NextTime(e) \in Time
    BY <1>3, <1>type, <2>3, NextTimeType DEF RunAgain
  <2>5. [at |-> NextTime(e), task |-> e.task] \in Entry
    BY <2>3, <2>4 DEF Entry
  <2> QED BY <1>3, <2>5 DEF RunAgain, Enqueue
<1>4. ASSUME NEW t \in Thread, Leave(t) \/ Wait(t) \/ WaitUntil(t) \/ Fire(t)
      PROVE  Quiet /\ UNCHANGED queue
  BY <1>4, <1>type DEF Leave, Wait, WaitUntil, Fire, Go, Quiet
<1>5. ASSUME NEW t \in Thread, Spurious(t)
      PROVE  UNCHANGED <<thr, queue>>
  BY <1>5 DEF Spurious
<1>6. ASSUME NEW k \in Task, Post(k) \/ Unschedule(k)
      PROVE  UNCHANGED <<thr, queue>>
  BY <1>6 DEF Post, Unschedule
<1>7. ASSUME NEW w \in Worker,
             StartRun(w) \/ RunOnce(w) \/ RunLast(w) \/ LeaveRun(w) \/ CloseWorker(w)
      PROVE  UNCHANGED <<thr, queue>>
  BY <1>7 DEF StartRun, RunOnce, RunLast, LeaveRun, CloseWorker
<1>8. CASE NotifyOne \/ JoinWorker \/ StopDrain \/ StopNow \/ NotifyAll \/ JoinThreads \/ Tick
  BY <1>1, <1>8
  DEF NotifyOne, JoinWorker, StopDrain, StopNow, NotifyAll, JoinThreads, Tick
<1>9. CASE UNCHANGED vars
  BY <1>1, <1>9 DEF vars
<1> QED
  BY <1>1, <1>2, <1>3, <1>4, <1>5, <1>6, <1>7, <1>8, <1>9 DEF Next, Serve, WorkerStep

(* After stop(false) no thread takes another entry (Scheduler.cpp:32-37).   *)
THEOREM NothingTakenAfterStop == Spec => NoneAfterStop
<1>1. ASSUME TypeOK, [Next]_vars
      PROVE  [stop_requested => \A t \in Thread : thr'[t] = "run" => thr[t] = "run"]_vars
  <2>1. CASE \E t \in Thread : Take(t)
    BY <2>1 DEF Take
  <2>2. CASE Quiet
    BY <2>2 DEF Quiet
  <2>3. CASE UNCHANGED thr
    BY <2>3
  <2> QED BY <1>1, <2>1, <2>2, <2>3, QueueSteps
<1> QED BY <1>1, PoolTypeCorrect, PTL DEF Spec, NoneAfterStop

(* The queue stays in the order of its times (Scheduler.cpp:73-75).         *)
THEOREM StaysSorted == Spec => []Sorted
<1>1. Init => Sorted
  BY DEF Init, Sorted
<1>2. ASSUME TypeOK, Sorted, [Next]_vars
      PROVE  Sorted'
  <2>1. queue \in Seq(Entry) /\ Ascending(queue)
    BY <1>2 DEF TypeOK, Sorted, Ascending
  <2>2. CASE UNCHANGED queue
    BY <1>2, <2>2 DEF Sorted
  <2>3. ASSUME NEW e \in Entry, queue' = Insert(queue, e)
        PROVE  Sorted'
    <3>1. Ascending(queue')
      BY <2>1, <2>3, InsertAscending
    <3> QED BY <3>1 DEF Sorted, Ascending
  <2>4. ASSUME NEW t \in Thread, Take(t)
        PROVE  Sorted'
    <3>1. queue # <<>> /\ queue' = Tail(queue)
      BY <2>4 DEF Take
    <3>2. /\ DOMAIN queue' = 1 .. Len(queue) - 1
          /\ \A i \in 1 .. Len(queue) - 1 : queue'[i] = queue[i + 1] /\ i + 1 \in DOMAIN queue
      BY <2>1, <3>1
    <3> QED BY <1>2, <3>2 DEF Sorted
  <2> QED BY <1>2, <2>2, <2>3, <2>4, QueueSteps
<1> QED BY <1>1, <1>2, PoolTypeCorrect, PTL DEF Spec

-----------------------------------------------------------------------------
(* With one service thread nobody else can take the entry it sleeps on.     *)

OnTime ==
  \A t \in Thread : thr[t] = "until" =>
    queue # <<>> /\ Head(queue).at <= deadline[t]

LEMMA OnTimeStep ==
  ASSUME \A t, u \in Thread : t = u, TypeOK, OnTime, [Next]_vars
  PROVE  OnTime'
<1> USE DEF schedVars, flagVars, threadVars, workerVars, userVars
<1>type. /\ thr \in [Thread -> {"top", "wait", "until", "run", "gone"}]
         /\ deadline \in [Thread -> Time] /\ queue \in Seq(Entry)
         /\ Time \subseteq Nat
  BY PoolAssumption DEF TypeOK, Time
<1>at. \A q \in Seq(Entry) : q # <<>> => Head(q).at \in Nat
  <2>1. TAKE q \in Seq(Entry)
  <2>2. HAVE q # <<>>
  <2>3. Head(q) \in Entry
    BY <2>2
  <2> QED BY <1>type, <2>3 DEF Entry
<1>1. CASE UNCHANGED <<thr, deadline, queue>>
  BY <1>1 DEF OnTime
<1>2. ASSUME UNCHANGED <<thr, deadline>>, NEW e \in Entry, queue' = Insert(queue, e)
      PROVE  OnTime'
  <2>1. SUFFICES ASSUME NEW t \in Thread, thr'[t] = "until"
                 PROVE  queue' # <<>> /\ Head(queue').at <= deadline'[t]
    BY DEF OnTime
  <2>2. queue # <<>> /\ Head(queue).at <= deadline[t]
    BY <1>2, <2>1 DEF OnTime
  <2>3. queue' # <<>> /\ Head(queue').at <= Head(queue).at
    BY <1>2, <1>type, <2>2, InsertHead
  <2>4. queue' \in Seq(Entry)
    BY <1>2, <1>type, InsertEntries, Zenon
  <2>5. Head(queue').at \in Nat /\ Head(queue).at \in Nat /\ deadline[t] \in Nat
    BY <1>at, <1>type, <2>2, <2>3, <2>4
  <2> QED BY <1>2, <2>2, <2>3, <2>5
<1>3. ASSUME NEW t \in Thread, Leave(t) \/ Wait(t) \/ Take(t) \/ Fire(t)
      PROVE  OnTime'
  <2>1. thr'[t] # "until"
    BY <1>3, <1>type DEF Leave, Wait, Take, Fire, Go
  <2> QED BY <2>1 DEF OnTime
<1>4. ASSUME NEW t \in Thread, WaitUntil(t)
      PROVE  OnTime'
  <2>1. /\ queue' = queue /\ queue # <<>>
        /\ deadline'[t] = Head(queue).at
    BY <1>4, <1>type DEF WaitUntil, Go
  <2>2. Head(queue).at \in Nat
    BY <1>at, <1>type, <2>1
  <2> QED BY <2>1, <2>2 DEF OnTime
<1>5. ASSUME NEW k \in Task, NEW delta \in Time, ScheduleFromNow(k, delta)
      PROVE  UNCHANGED <<thr, deadline>>
  BY <1>5 DEF ScheduleFromNow
<1>6. ASSUME NEW w \in Worker, RunAgain(w)
      PROVE  UNCHANGED <<thr, deadline>>
  BY <1>6 DEF RunAgain
<1>7. ASSUME NEW t \in Thread, Spurious(t)
      PROVE  UNCHANGED <<thr, deadline, queue>>
  BY <1>7 DEF Spurious
<1>8. ASSUME NEW k \in Task, Post(k) \/ Unschedule(k)
      PROVE  UNCHANGED <<thr, deadline, queue>>
  BY <1>8 DEF Post, Unschedule
<1>9. ASSUME NEW w \in Worker,
             StartRun(w) \/ RunOnce(w) \/ RunLast(w) \/ LeaveRun(w) \/ CloseWorker(w)
      PROVE  UNCHANGED <<thr, deadline, queue>>
  BY <1>9 DEF StartRun, RunOnce, RunLast, LeaveRun, CloseWorker
<1>10. CASE NotifyOne \/ JoinWorker \/ StopDrain \/ StopNow \/ NotifyAll \/ JoinThreads \/ Tick
  BY <1>1, <1>10
  DEF NotifyOne, JoinWorker, StopDrain, StopNow, NotifyAll, JoinThreads, Tick
<1>11. CASE UNCHANGED vars
  BY <1>1, <1>11 DEF vars
<1>12. ASSUME UNCHANGED <<thr, deadline>>, \E e \in Entry : queue' = Insert(queue, e)
       PROVE  OnTime'
  BY <1>2, <1>12
<1>13. CASE \E t \in Thread : Serve(t) \/ Fire(t)
  BY <1>3, <1>4, <1>13 DEF Serve
<1>14. CASE \E k \in Task : \E delta \in Time : ScheduleFromNow(k, delta)
  <2>1. UNCHANGED <<thr, deadline>>
    BY <1>5, <1>14
  <2>2. UNCHANGED queue \/ (\E e \in Entry : queue' = Insert(queue, e)) \/ \E t \in Thread : Take(t)
    BY QueueSteps
  <2> QED BY <1>1, <1>3, <1>12, <2>1, <2>2
<1>15. CASE \E w \in Worker : RunAgain(w)
  <2>1. UNCHANGED <<thr, deadline>>
    BY <1>6, <1>15
  <2>2. UNCHANGED queue \/ (\E e \in Entry : queue' = Insert(queue, e)) \/ \E t \in Thread : Take(t)
    BY QueueSteps
  <2> QED BY <1>1, <1>3, <1>12, <2>1, <2>2
<1> QED
  BY <1>1, <1>7, <1>8, <1>9, <1>10, <1>11, <1>13, <1>14, <1>15 DEF Next, WorkerStep

(* A scheduler with a single service thread runs nothing before its time    *)
(* (Scheduler.cpp:32-44): the entry it takes is the one it slept for, or    *)
(* one due earlier.                                                         *)
THEOREM OneThreadIsNeverEarly ==
  ASSUME \A t, u \in Thread : t = u
  PROVE  Spec => NeverEarly
<1>1. Init => OnTime
  BY DEF Init, OnTime
<1>2. TypeOK /\ OnTime /\ [Next]_vars => OnTime'
  BY OnTimeStep
<1>3. ASSUME TypeOK, OnTime, [Next]_vars
      PROVE  [\A t \in Thread : thr[t] # "run" /\ thr'[t] = "run" => Head(hand'[t]).at <= now]_vars
  <2>1. SUFFICES ASSUME NEW t \in Thread, thr[t] # "run", thr'[t] = "run"
                 PROVE  Head(hand'[t]).at <= now
    OBVIOUS
  <2>2. Take(t)
    BY <1>3, <2>1, QueueSteps DEF Quiet
  <2>3. /\ queue # <<>> /\ Head(queue).at <= deadline[t] /\ deadline[t] <= now
        /\ hand'[t] = <<Head(queue)>>
    BY <1>3, <2>2 DEF Take, TimedOut, OnTime, TypeOK
  <2>4. Head(queue) \in Entry
    BY <1>3, <2>3 DEF TypeOK
  <2>5. Head(queue).at \in Nat /\ deadline[t] \in Nat /\ now \in Nat
    BY <1>3, <2>4, PoolAssumption DEF TypeOK, Entry, Time
  <2> QED BY <2>3, <2>5
<1> QED BY <1>1, <1>2, <1>3, PoolTypeCorrect, PTL DEF Spec, NeverEarly

-----------------------------------------------------------------------------
(* Where a function is: in the queue, in the hand of a service thread, in  *)
(* the io_service of its worker, or nowhere.                               *)

Has(q, k)   == \E i \in DOMAIN q : q[i].task = k
Once(q, k)  == \A i, j \in DOMAIN q : q[i].task = k /\ q[j].task = k => i = j
Holds(t, k) == hand[t] # <<>> /\ Head(hand[t]).task = k

AtHome   == \A w \in Worker, k \in Task : Has(service[w], k) => w = Home[k]
HandsRun == \A t \in Thread : hand[t] # <<>> => thr[t] = "run"

Somewhere(k) ==
  Has(queue, k) \/ Has(service[Home[k]], k) \/ \E t \in Thread : Holds(t, k)

\* The places of k exclude each other, and it has one while it is outstanding.
PlaceOf(k) ==
  /\ Once(queue, k) /\ Once(service[Home[k]], k)
  /\ \A t, u \in Thread : Holds(t, k) /\ Holds(u, k) => t = u
  /\ Has(queue, k) => ~ Has(service[Home[k]], k) /\ \A t \in Thread : ~ Holds(t, k)
  /\ Has(service[Home[k]], k) => \A t \in Thread : ~ Holds(t, k)
  /\ ~ (k \in fresh /\ k \in ran)
  /\ k \in fresh \cup ran => ~ Somewhere(k)
  /\ k \notin fresh \cup ran \cup cancelled => Somewhere(k)

OnePlace == AtHome /\ HandsRun /\ \A k \in Task : PlaceOf(k)

LEMMA InsertPlaces ==
  ASSUME NEW q \in Seq(Entry), NEW e \in Entry, NEW k
  PROVE  /\ Has(Insert(q, e), k) <=> Has(q, k) \/ e.task = k
         /\ Once(q, k) /\ (e.task = k => ~ Has(q, k)) => Once(Insert(q, e), k)
<1> DEFINE n == Cardinality({i \in DOMAIN q : q[i].at <= e.at})
           p == Insert(q, e)
           from(i) == IF i <= n THEN i ELSE i - 1
<1>1. /\ n \in 0 .. Len(q) /\ Len(q) \in Nat /\ DOMAIN p = 1 .. Len(q) + 1
      /\ \A i \in 1 .. Len(q) + 1 :
           p[i] = IF i <= n THEN q[i] ELSE IF i = n + 1 THEN e ELSE q[i - 1]
  BY InsertEntries
<1> HIDE DEF n, p
<1>2. \A i \in DOMAIN p : i # n + 1 => from(i) \in DOMAIN q /\ p[i] = q[from(i)]
  BY <1>1
<1>3. n + 1 \in DOMAIN p /\ p[n + 1] = e
  BY <1>1
<1>4. \A i, j \in DOMAIN p : i # n + 1 /\ j # n + 1 /\ from(i) = from(j) => i = j
  BY <1>1
<1>5. \A j \in DOMAIN q : \E i \in DOMAIN p : p[i] = q[j]
  <2> TAKE j \in DOMAIN q
  <2>1. CASE j <= n
    <3>1. j \in DOMAIN p /\ p[j] = q[j]
      BY <1>1, <2>1
    <3> QED BY <3>1
  <2>2. CASE ~ (j <= n)
    <3>1. j + 1 \in DOMAIN p /\ p[j + 1] = q[j]
      BY <1>1, <2>2
    <3> QED BY <3>1
  <2> QED BY <2>1, <2>2
<1> HIDE DEF from
<1>6. Has(p, k) <=> Has(q, k) \/ e.task = k
  BY <1>2, <1>3, <1>5 DEF Has
<1>7. ASSUME Once(q, k), e.task = k => ~ Has(q, k)
      PROVE  Once(p, k)
  <2> SUFFICES ASSUME NEW i \in DOMAIN p, NEW j \in DOMAIN p, p[i].task = k, p[j].task = k
               PROVE  i = j
    BY DEF Once
  <2>1. CASE e.task = k
    BY <1>2, <1>7, <2>1 DEF Has
  <2>2. CASE e.task # k
    <3>1. i # n + 1 /\ j # n + 1
      BY <1>3, <2>2
    <3>2. from(i) = from(j)
      BY <1>2, <1>7, <3>1 DEF Once
    <3> QED BY <1>4, <3>1, <3>2
  <2> QED BY <2>1, <2>2
<1> QED BY <1>6, <1>7 DEF p

LEMMA AppendPlaces ==
  ASSUME NEW q \in Seq(Entry), NEW e \in Entry, NEW k
  PROVE  /\ Has(Append(q, e), k) <=> Has(q, k) \/ e.task = k
         /\ Once(q, k) /\ (e.task = k => ~ Has(q, k)) => Once(Append(q, e), k)
<1> DEFINE p == Append(q, e)
<1>1. /\ Len(q) \in Nat /\ DOMAIN q = 1 .. Len(q) /\ DOMAIN p = 1 .. Len(q) + 1
      /\ \A i \in 1 .. Len(q) : p[i] = q[i]
      /\ p[Len(q) + 1] = e
  OBVIOUS
<1> HIDE DEF p
<1>2. \A i \in DOMAIN p : i \in DOMAIN q \/ i = Len(q) + 1
  BY <1>1
<1>3. \A i \in DOMAIN q : i \in DOMAIN p /\ p[i] = q[i]
  BY <1>1
<1>4. Len(q) + 1 \in DOMAIN p
  BY <1>1
<1>5. Has(p, k) <=> Has(q, k) \/ e.task = k
  BY <1>1, <1>2, <1>3, <1>4 DEF Has
<1>6. Once(q, k) /\ (e.task = k => ~ Has(q, k)) => Once(p, k)
  BY <1>1, <1>2, <1>3 DEF Has, Once
<1> QED BY <1>5, <1>6 DEF p

LEMMA TailPlaces ==
  ASSUME NEW q \in Seq(Entry), q # <<>>, NEW k
  PROVE  /\ Has(Tail(q), k) => Has(q, k)
         /\ Head(q).task = k => Has(q, k)
         /\ Has(q, k) => Has(Tail(q), k) \/ Head(q).task = k
         /\ Once(q, k) => Once(Tail(q), k) /\ (Head(q).task = k => ~ Has(Tail(q), k))
<1> DEFINE p == Tail(q)
<1>1. /\ \A i \in DOMAIN p : i + 1 \in DOMAIN q /\ p[i] = q[i + 1] /\ i + 1 # 1
      /\ Head(q) = q[1] /\ 1 \in DOMAIN q
      /\ \A j \in DOMAIN q : j # 1 => j - 1 \in DOMAIN p /\ p[j - 1] = q[j]
      /\ \A i, j \in DOMAIN p : i + 1 = j + 1 => i = j
  OBVIOUS
<1> HIDE DEF p
<1>2. (Has(p, k) => Has(q, k)) /\ (Head(q).task = k => Has(q, k))
  BY <1>1 DEF Has
<1>3. Has(q, k) => Has(p, k) \/ Head(q).task = k
  BY <1>1 DEF Has
<1>4. Once(q, k) => Once(p, k) /\ (Head(q).task = k => ~ Has(p, k))
  BY <1>1 DEF Has, Once
<1> QED BY <1>2, <1>3, <1>4 DEF p

(* Enqueue puts one function into the queue.                               *)
LEMMA EnqueuePlaces ==
  ASSUME TypeOK, NEW a \in Task, NEW at \in Time, Enqueue(a, at), NEW k
  PROVE  /\ Has(queue', k) <=> Has(queue, k) \/ a = k
         /\ Once(queue, k) /\ (a = k => ~ Has(queue, k)) => Once(queue', k)
<1> DEFINE e == [at |-> at, task |-> a]
<1>1. e \in Entry /\ e.task = a /\ queue \in Seq(Entry) /\ queue' = Insert(queue, e)
  BY DEF Entry, TypeOK, Enqueue
<1> HIDE DEF e
<1> QED BY <1>1, InsertPlaces

(* Taking a function from an io_service, and posting one to it.            *)
LEMMA ServePlaces ==
  ASSUME TypeOK, AtHome, NEW w \in Worker, Serves(w),
         service' = [service EXCEPT ![w] = Tail(@)], NEW k \in Task
  PROVE  LET a == Head(service[w]).task IN
         /\ \A v \in Worker : Has(service'[v], k) => Has(service[v], k)
         /\ Once(service[Home[k]], k) => Once(service'[Home[k]], k)
         /\ k # a /\ Has(service[Home[k]], k) => Has(service'[Home[k]], k)
         /\ k = a => /\ w = Home[k] /\ Has(service[Home[k]], k)
                     /\ Once(service[Home[k]], k) => ~ Has(service'[Home[k]], k)
<1> DEFINE a == Head(service[w]).task
<1>1. /\ service[w] \in Seq(Entry) /\ service[w] # <<>> /\ service'[w] = Tail(service[w])
      /\ \A v \in Worker : v # w => service'[v] = service[v]
      /\ Home[k] \in Worker
  BY PoolAssumption DEF TypeOK, Serves
<1>2. /\ Has(service'[w], k) => Has(service[w], k)
      /\ a = k => Has(service[w], k)
      /\ Has(service[w], k) => Has(service'[w], k) \/ a = k
      /\ Once(service[w], k) => Once(service'[w], k) /\ (a = k => ~ Has(service'[w], k))
  BY <1>1, TailPlaces
<1>3. k = a => w = Home[k]
  BY <1>2 DEF AtHome
<1> HIDE DEF a
<1>4. CASE w = Home[k]
  BY <1>1, <1>2, <1>4 DEF a
<1>5. CASE w # Home[k]
  BY <1>1, <1>2, <1>3, <1>5 DEF a
<1> QED BY <1>4, <1>5

LEMMA PostPlaces ==
  ASSUME TypeOK, NEW e \in Entry,
         service' = [service EXCEPT ![Home[e.task]] = Append(@, e)], NEW k \in Task
  PROVE  LET a == e.task IN
         /\ \A v \in Worker : Has(service'[v], k) => Has(service[v], k) \/ (k = a /\ v = Home[k])
         /\ Has(service'[Home[k]], k) <=> Has(service[Home[k]], k) \/ k = a
         /\ Once(service[Home[k]], k) /\ (k = a => ~ Has(service[Home[k]], k))
              => Once(service'[Home[k]], k)
<1> DEFINE a == e.task
           w == Home[a]
<1>0. a \in Task
  BY DEF Entry
<1>1. /\ service[w] \in Seq(Entry) /\ service'[w] = Append(service[w], e)
      /\ \A v \in Worker : v # w => service'[v] = service[v]
      /\ Home[k] \in Worker /\ w \in Worker
  BY <1>0, PoolAssumption DEF TypeOK
<1>2. /\ Has(service'[w], k) <=> Has(service[w], k) \/ a = k
      /\ Once(service[w], k) /\ (a = k => ~ Has(service[w], k)) => Once(service'[w], k)
  BY <1>1, AppendPlaces
<1>3. a = k => w = Home[k]
  OBVIOUS
<1> HIDE DEF a, w
<1>4. CASE w = Home[k]
  BY <1>1, <1>2, <1>4 DEF a
<1>5. CASE w # Home[k]
  BY <1>1, <1>2, <1>3, <1>5 DEF a
<1> QED BY <1>4, <1>5

-----------------------------------------------------------------------------
(* Every step moves at most one function from one place to the next.       *)

LEMMA StillPlaced ==
  ASSUME OnePlace, UNCHANGED <<queue, hand, service, fresh, ran>>,
         cancelled \subseteq cancelled', HandsRun'
  PROVE  OnePlace'
<1>1. AtHome'
  BY DEF OnePlace, AtHome
<1>2. ASSUME NEW k \in Task
      PROVE  PlaceOf(k)'
  <2>1. PlaceOf(k)
    BY DEF OnePlace
  <2> QED BY <2>1 DEF PlaceOf, Somewhere, Holds
<1> QED BY <1>1, <1>2 DEF OnePlace

LEMMA SchedulePlaced ==
  ASSUME TypeOK, OnePlace, NEW a \in Task, NEW delta \in Time, ScheduleFromNow(a, delta)
  PROVE  OnePlace'
<1> USE DEF flagVars, threadVars, workerVars
<1>1. now + delta \in Time
  BY PoolAssumption DEF ScheduleFromNow, TypeOK, Time
<1>2. AtHome' /\ HandsRun'
  BY DEF ScheduleFromNow, OnePlace, AtHome, HandsRun
<1>3. ASSUME NEW k \in Task
      PROVE  PlaceOf(k)'
  <2>1. /\ Has(queue', k) <=> Has(queue, k) \/ a = k
        /\ Once(queue, k) /\ (a = k => ~ Has(queue, k)) => Once(queue', k)
    BY <1>1, EnqueuePlaces DEF ScheduleFromNow
  <2>2. PlaceOf(k)
    BY DEF OnePlace
  <2>3. a \in fresh /\ fresh' = fresh \ {a} /\ UNCHANGED <<hand, service, ran, cancelled>>
    BY DEF ScheduleFromNow
  <2> QED BY <2>1, <2>2, <2>3 DEF PlaceOf, Somewhere, Holds
<1> QED BY <1>2, <1>3 DEF OnePlace

(* A service thread that takes the first entry had nothing in its hand.    *)
LEMMA TakePlaced ==
  ASSUME TypeOK, OnePlace, NEW t \in Thread, Take(t)
  PROVE  OnePlace'
<1> USE DEF flagVars, threadVars, workerVars, userVars
<1> DEFINE e == Head(queue)
<1>1. /\ queue \in Seq(Entry) /\ queue # <<>> /\ queue' = Tail(queue)
      /\ hand' = [hand EXCEPT ![t] = <<e>>] /\ hand \in [Thread -> Seq(Entry)]
      /\ thr' = [thr EXCEPT ![t] = "run"] /\ thr[t] # "run" /\ DOMAIN thr = Thread
      /\ UNCHANGED <<service, fresh, ran, cancelled>>
  BY DEF Take, Go, TimedOut, TypeOK
<1>2. hand[t] = <<>>
  BY <1>1 DEF OnePlace, HandsRun
<1>3. /\ \A u \in Thread : u # t => hand'[u] = hand[u]
      /\ hand'[t] # <<>> /\ Head(hand'[t]) = e
  BY <1>1
<1>4. HandsRun'
  BY <1>1, <1>3 DEF OnePlace, HandsRun
<1>5. AtHome'
  BY <1>1 DEF OnePlace, AtHome
<1> HIDE DEF e
<1>6. ASSUME NEW k \in Task
      PROVE  PlaceOf(k)'
  <2>1. /\ Has(queue', k) => Has(queue, k)
        /\ e.task = k => Has(queue, k)
        /\ Has(queue, k) => Has(queue', k) \/ e.task = k
        /\ Once(queue, k) => Once(queue', k) /\ (e.task = k => ~ Has(queue', k))
    BY <1>1, TailPlaces DEF e
  <2>2. PlaceOf(k)
    BY DEF OnePlace
  <2>3. /\ \A u \in Thread : u # t => (Holds(u, k)' <=> Holds(u, k))
        /\ ~ Holds(t, k) /\ (Holds(t, k)' <=> e.task = k)
    BY <1>2, <1>3 DEF Holds
  <2> HIDE DEF e
  <2>4. CASE e.task = k
    BY <1>1, <2>1, <2>2, <2>3, <2>4 DEF PlaceOf, Somewhere
  <2>5. CASE e.task # k
    BY <1>1, <2>1, <2>2, <2>3, <2>5 DEF PlaceOf, Somewhere
  <2> QED BY <2>4, <2>5
<1> QED BY <1>4, <1>5, <1>6 DEF OnePlace

LEMMA FirePlaced ==
  ASSUME TypeOK, OnePlace, NEW t \in Thread, Fire(t)
  PROVE  OnePlace'
<1> USE DEF schedVars, userVars
<1> DEFINE e == Head(hand[t])
<1>1. /\ hand[t] \in Seq(Entry) /\ hand[t] # <<>> /\ hand \in [Thread -> Seq(Entry)]
      /\ service' = [service EXCEPT ![Home[e.task]] = Append(@, e)]
      /\ hand' = [hand EXCEPT ![t] = <<>>] /\ DOMAIN thr = Thread
      /\ thr' = [thr EXCEPT ![t] = "top"]
      /\ UNCHANGED <<queue, fresh, ran, cancelled>>
  BY DEF Fire, TypeOK
<1>2. e \in Entry
  BY <1>1
<1>3. /\ \A u \in Thread : u # t => hand'[u] = hand[u]
      /\ hand'[t] = <<>>
  BY <1>1
<1>4. HandsRun'
  BY <1>1, <1>3 DEF OnePlace, HandsRun
<1> HIDE DEF e
<1>5. \A k \in Task :
        /\ \A v \in Worker : Has(service'[v], k) => Has(service[v], k) \/ (k = e.task /\ v = Home[k])
        /\ Has(service'[Home[k]], k) <=> Has(service[Home[k]], k) \/ k = e.task
        /\ Once(service[Home[k]], k) /\ (k = e.task => ~ Has(service[Home[k]], k))
             => Once(service'[Home[k]], k)
  BY <1>1, <1>2, PostPlaces
<1>6. AtHome'
  BY <1>5 DEF OnePlace, AtHome
<1>7. ASSUME NEW k \in Task
      PROVE  PlaceOf(k)'
  <2>1. PlaceOf(k)
    BY DEF OnePlace
  <2>2. /\ \A u \in Thread : u # t => (Holds(u, k)' <=> Holds(u, k))
        /\ ~ Holds(t, k)' /\ (Holds(t, k) <=> e.task = k)
    BY <1>1, <1>3 DEF Holds, e
  <2>3. CASE e.task = k
    BY <1>1, <1>5, <2>1, <2>2, <2>3 DEF PlaceOf, Somewhere
  <2>4. CASE e.task # k
    BY <1>1, <1>5, <2>1, <2>2, <2>4 DEF PlaceOf, Somewhere
  <2> QED BY <2>3, <2>4
<1> QED BY <1>4, <1>6, <1>7 DEF OnePlace

LEMMA PostPlaced ==
  ASSUME TypeOK, OnePlace, NEW a \in Task, Post(a)
  PROVE  OnePlace'
<1> USE DEF schedVars, flagVars, threadVars
<1> DEFINE e == [at |-> 0, task |-> a]
<1>1. /\ a \in fresh /\ fresh' = fresh \ {a} /\ UNCHANGED <<queue, hand, thr, ran, cancelled>>
      /\ service' = [service EXCEPT ![Home[a]] = Append(@, e)]
  BY DEF Post
<1>2. e \in Entry /\ e.task = a
  BY PoolAssumption DEF Entry, Time
<1> HIDE DEF e
<1>3. \A k \in Task :
        /\ \A v \in Worker : Has(service'[v], k) => Has(service[v], k) \/ (k = a /\ v = Home[k])
        /\ Has(service'[Home[k]], k) <=> Has(service[Home[k]], k) \/ k = a
        /\ Once(service[Home[k]], k) /\ (k = a => ~ Has(service[Home[k]], k))
             => Once(service'[Home[k]], k)
  BY <1>1, <1>2, PostPlaces
<1>4. AtHome' /\ HandsRun'
  BY <1>1, <1>3 DEF OnePlace, AtHome, HandsRun
<1>5. ASSUME NEW k \in Task
      PROVE  PlaceOf(k)'
  <2>1. PlaceOf(k)
    BY DEF OnePlace
  <2> QED BY <1>1, <1>3, <2>1 DEF PlaceOf, Somewhere, Holds
<1> QED BY <1>4, <1>5 DEF OnePlace

(* A worker runs a function for the last time, or skips it.                *)
LEMMA RunPlaced ==
  ASSUME TypeOK, OnePlace, NEW w \in Worker, RunOnce(w) \/ RunLast(w)
  PROVE  OnePlace'
<1> USE DEF schedVars, flagVars, threadVars
<1> DEFINE a == Head(service[w]).task
<1>1. /\ UNCHANGED <<queue, hand, thr, fresh, cancelled>> /\ Serves(w)
      /\ service' = [service EXCEPT ![w] = Tail(@)]
      /\ ran' = ran \cup {a} \/ (a \in cancelled /\ ran' = ran)
  BY DEF RunOnce, RunLast
<1>2. \A k \in Task :
        /\ \A v \in Worker : Has(service'[v], k) => Has(service[v], k)
        /\ Once(service[Home[k]], k) => Once(service'[Home[k]], k)
        /\ k # a /\ Has(service[Home[k]], k) => Has(service'[Home[k]], k)
        /\ k = a => /\ w = Home[k] /\ Has(service[Home[k]], k)
                    /\ Once(service[Home[k]], k) => ~ Has(service'[Home[k]], k)
  BY <1>1, ServePlaces DEF OnePlace
<1> HIDE DEF a
<1>3. AtHome' /\ HandsRun'
  BY <1>1, <1>2 DEF OnePlace, AtHome, HandsRun
<1>4. ASSUME NEW k \in Task
      PROVE  PlaceOf(k)'
  <2>1. PlaceOf(k) /\ Home[k] \in Worker
    BY PoolAssumption DEF OnePlace
  <2>2. CASE k = a
    BY <1>1, <1>2, <2>1, <2>2 DEF PlaceOf, Somewhere, Holds
  <2>3. CASE k # a
    BY <1>1, <1>2, <2>1, <2>3 DEF PlaceOf, Somewhere, Holds
  <2> QED BY <2>2, <2>3
<1> QED BY <1>3, <1>4 DEF OnePlace

(* A series goes from the worker back into the queue.                      *)
LEMMA RunAgainPlaced ==
  ASSUME TypeOK, OnePlace, NEW w \in Worker, RunAgain(w)
  PROVE  OnePlace'
<1> USE DEF flagVars, threadVars, userVars
<1> DEFINE e == Head(service[w])
           a == e.task
<1>1. /\ UNCHANGED <<hand, thr, fresh, ran, cancelled>> /\ Serves(w)
      /\ service' = [service EXCEPT ![w] = Tail(@)]
      /\ Enqueue(a, NextTime(e)) /\ NextTime(e) <= MaxTime
  BY DEF RunAgain
<1>2. e \in Entry
  BY <1>1 DEF TypeOK, Serves
<1>3. a \in Task /\ NextTime(e) \in Time
  <2>1. a \in Task /\ e.at \in Nat /\ now \in Nat
    BY <1>2, PoolAssumption DEF Entry, Time, TypeOK
  <2> QED BY <1>1, <2>1, NextTimeType
<1>4. \A k \in Task :
        /\ \A v \in Worker : Has(service'[v], k) => Has(service[v], k)
        /\ Once(service[Home[k]], k) => Once(service'[Home[k]], k)
        /\ k # a /\ Has(service[Home[k]], k) => Has(service'[Home[k]], k)
        /\ k = a => /\ w = Home[k] /\ Has(service[Home[k]], k)
                    /\ Once(service[Home[k]], k) => ~ Has(service'[Home[k]], k)
  BY <1>1, ServePlaces DEF OnePlace
<1> HIDE DEF a, e
<1>5. AtHome' /\ HandsRun'
  BY <1>1, <1>4 DEF OnePlace, AtHome, HandsRun
<1>6. ASSUME NEW k \in Task
      PROVE  PlaceOf(k)'
  <2>1. PlaceOf(k) /\ Home[k] \in Worker
    BY PoolAssumption DEF OnePlace
  <2>2. /\ Has(queue', k) <=> Has(queue, k) \/ a = k
        /\ Once(queue, k) /\ (a = k => ~ Has(queue, k)) => Once(queue', k)
    BY <1>1, <1>3, EnqueuePlaces
  <2>3. CASE k = a
    BY <1>1, <1>4, <2>1, <2>2, <2>3 DEF PlaceOf, Somewhere, Holds
  <2>4. CASE k # a
    BY <1>1, <1>4, <2>1, <2>2, <2>4 DEF PlaceOf, Somewhere, Holds
  <2> QED BY <2>3, <2>4
<1> QED BY <1>5, <1>6 DEF OnePlace

LEMMA PlacedStep ==
  ASSUME TypeOK, OnePlace, [Next]_vars
  PROVE  OnePlace'
<1> USE DEF schedVars, flagVars, threadVars, workerVars, userVars
<1>type. thr \in [Thread -> {"top", "wait", "until", "run", "gone"}] /\ HandsRun
  BY DEF TypeOK, OnePlace
<1>1. CASE UNCHANGED <<queue, hand, thr, service, fresh, ran, cancelled>>
  BY <1>type, <1>1, StillPlaced DEF HandsRun
<1>2. ASSUME NEW a \in Task, NEW delta \in Time, ScheduleFromNow(a, delta)
      PROVE  OnePlace'
  BY <1>2, SchedulePlaced
<1>3. ASSUME NEW a \in Task, Post(a)
      PROVE  OnePlace'
  BY <1>3, PostPlaced
<1>4. ASSUME NEW a \in Task, Unschedule(a)
      PROVE  OnePlace'
  BY <1>type, <1>4, StillPlaced DEF Unschedule, HandsRun
<1>5. ASSUME NEW t \in Thread, Leave(t) \/ Wait(t) \/ WaitUntil(t)
      PROVE  OnePlace'
  <2>1. HandsRun'
    BY <1>type, <1>5 DEF Leave, Wait, WaitUntil, Go, Resumes, TimedOut, HandsRun
  <2> QED BY <1>5, <2>1, StillPlaced DEF Leave, Wait, WaitUntil, Go
<1>6. ASSUME NEW t \in Thread, Take(t) \/ Fire(t)
      PROVE  OnePlace'
  BY <1>6, TakePlaced, FirePlaced
<1>7. ASSUME NEW t \in Thread, Spurious(t)
      PROVE  OnePlace'
  BY <1>1, <1>7 DEF Spurious
<1>8. ASSUME NEW w \in Worker, RunOnce(w) \/ RunLast(w) \/ RunAgain(w)
      PROVE  OnePlace'
  BY <1>8, RunPlaced, RunAgainPlaced
<1>9. ASSUME NEW w \in Worker, StartRun(w) \/ LeaveRun(w) \/ CloseWorker(w)
      PROVE  OnePlace'
  BY <1>1, <1>9 DEF StartRun, LeaveRun, CloseWorker
<1>10. CASE NotifyOne \/ JoinWorker \/ StopDrain \/ StopNow \/ NotifyAll \/ JoinThreads \/ Tick
  BY <1>1, <1>10
  DEF NotifyOne, JoinWorker, StopDrain, StopNow, NotifyAll, JoinThreads, Tick
<1>11. CASE UNCHANGED vars
  BY <1>1, <1>11 DEF vars
<1> QED
  BY <1>2, <1>3, <1>4, <1>5, <1>6, <1>7, <1>8, <1>9, <1>10, <1>11
  DEF Next, Serve, WorkerStep

(* A set with at most one member, counted.                                 *)
LEMMA CountOne ==
  ASSUME NEW S, \A x, y \in S : x = y
  PROVE  Cardinality(S) = IF S = {} THEN 0 ELSE 1
<1>1. CASE S = {}
  BY <1>1, FS_EmptySet
<1>2. CASE S # {}
  <2>1. PICK x \in S : S = {x}
    BY <1>2
  <2> QED BY <2>1, FS_Singleton
<1> QED BY <1>1, <1>2

(* A function that was submitted is in exactly one place until it has run  *)
(* or was skipped as cancelled, for any number of service threads, workers *)
(* and functions (Scheduler.cpp:32-57, Worker.cpp:70-97): none is lost and *)
(* no series has two runs outstanding.                                     *)
THEOREM EveryFunctionAccounted == Spec => []Accounted
<1>1. Init => OnePlace
  <2> SUFFICES ASSUME Init PROVE OnePlace
    OBVIOUS
  <2>1. \A k \in Task : Home[k] \in Worker /\ ~ Has(<<>>, k) /\ Once(<<>>, k)
    BY PoolAssumption DEF Has, Once
  <2>2. \A k \in Task : PlaceOf(k)
    BY <2>1 DEF Init, PlaceOf, Somewhere, Holds
  <2>3. AtHome /\ HandsRun
    BY <2>1 DEF Init, AtHome, HandsRun
  <2> QED BY <2>2, <2>3 DEF OnePlace
<1>2. TypeOK /\ OnePlace /\ [Next]_vars => OnePlace'
  BY PlacedStep
<1>3. OnePlace => Accounted
  <2> SUFFICES ASSUME OnePlace, NEW k \in Task
               PROVE  /\ Copies(k) <= 1
                      /\ k \in fresh \cup ran => Copies(k) = 0
                      /\ k \notin fresh \cup ran \cup cancelled => Copies(k) = 1
    BY DEF Accounted
  <2> DEFINE inQueue == {i \in DOMAIN queue : queue[i].task = k}
             q == service[Home[k]]
             posted == {i \in DOMAIN q : q[i].task = k}
  <2>0. PlaceOf(k)
    BY DEF OnePlace
  <2>1. Cardinality(inQueue) = IF Has(queue, k) THEN 1 ELSE 0
    <3>1. \A i, j \in inQueue : i = j
      BY <2>0 DEF PlaceOf, Once
    <3>2. inQueue # {} <=> Has(queue, k)
      BY DEF Has
    <3> HIDE DEF inQueue
    <3> QED BY <3>1, <3>2, CountOne
  <2>2. Cardinality(posted) = IF Has(q, k) THEN 1 ELSE 0
    <3>1. \A i, j \in posted : i = j
      BY <2>0 DEF PlaceOf, Once
    <3>2. posted # {} <=> Has(q, k)
      BY DEF Has
    <3> HIDE DEF posted
    <3> QED BY <3>1, <3>2, CountOne
  <2>3. Cardinality(Taken(k)) = IF \E t \in Thread : Holds(t, k) THEN 1 ELSE 0
    <3>1. Taken(k) = {t \in Thread : Holds(t, k)}
      BY DEF Taken, Holds
    <3>2. \A t, u \in Taken(k) : t = u
      BY <2>0, <3>1 DEF PlaceOf
    <3>3. Taken(k) # {} <=> \E t \in Thread : Holds(t, k)
      BY <3>1
    <3> QED BY <3>2, <3>3, CountOne
  <2>4. Copies(k) = Cardinality(inQueue) + Cardinality(Taken(k)) + Cardinality(posted)
    BY DEF Copies
  <2> HIDE DEF inQueue, posted
  <2> QED BY <2>0, <2>1, <2>2, <2>3, <2>4 DEF PlaceOf, Somewhere
<1> QED BY <1>1, <1>2, <1>3, PoolTypeCorrect, PTL DEF Spec

==============================================================================
