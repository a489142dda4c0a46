----------------------------- MODULE ThreadPool -----------------------------
(***************************************************************************)
(* erizo's ThreadPool: a Scheduler whose service threads share one queue   *)
(* of timed functions (thread/Scheduler.cpp), and Workers, each an         *)
(* io_service with one thread (thread/Worker.cpp).  A function scheduled   *)
(* by Worker::scheduleFromNow waits in the Scheduler's queue, is taken by  *)
(* a service thread, which posts it to the worker, and runs there unless   *)
(* it was unscheduled.  ThreadPool::close joins the workers, then drains   *)
(* the Scheduler.                                                          *)
(*                                                                         *)
(* A step of a service thread is what it does between taking the mutex and *)
(* releasing it.  A notification is made after the mutex is released, so   *)
(* it is a step of its own.                                                *)
(***************************************************************************)
EXTENDS Integers, Sequences, FiniteSets

CONSTANTS Thread,       \* the threads of Scheduler::group_
          Worker,       \* the workers of the pool
          Task,         \* the functions its users submit
          Series,       \* those submitted with scheduleEvery
          Home,         \* the worker each of them is submitted to
          Period,       \* the period of scheduleEvery
          MaxTime       \* bound: no function is due later, the clock stops there

ASSUME PoolAssumption ==
  /\ IsFiniteSet(Thread) /\ Thread # {}
  /\ Series \subseteq Task
  /\ Home \in [Task -> Worker]
  /\ Period \in Nat \ {0}
  /\ MaxTime \in Nat

VARIABLES
  now,          \* the clock
  queue,        \* task_queue_: entries in the order of their times
  notify,       \* calls of schedule between the insertion and notify_one
  stop_when_empty, stop_requested,
  thr,          \* where each service thread is in serviceQueue
  deadline,     \* the time its wait_until was given
  awake,        \* threads unblocked from the condition, not yet running
  hand,         \* the entry a thread took and runs, as a sequence of at most one
  closer,       \* progress of ThreadPool::close or Scheduler::stop
  closed, work, \* workers with closed_ set, workers whose service_worker_ is held
  loop,         \* where each worker's thread is
  service,      \* entries posted to each io_service and not yet run
  fresh,        \* functions not submitted yet
  ran,          \* functions that have run (a series: that has ended)
  cancelled     \* functions whose ScheduledTaskReference is cancelled

schedVars  == <<queue, notify>>
flagVars   == <<stop_when_empty, stop_requested>>
threadVars == <<thr, deadline, awake, hand>>
workerVars == <<closed, work, loop, service>>
userVars   == <<fresh, ran, cancelled>>
vars == <<now, schedVars, flagVars, threadVars, closer, workerVars, userVars>>

Time  == 0..MaxTime
Entry == [at: Time, task: Task]

TypeOK ==
  /\ now \in Time
  /\ queue \in Seq(Entry) /\ notify \in Nat
  /\ stop_when_empty \in BOOLEAN /\ stop_requested \in BOOLEAN
  /\ thr \in [Thread -> {"top", "wait", "until", "run", "gone"}]
  /\ deadline \in [Thread -> Time]
  /\ awake \in SUBSET Thread
  /\ hand \in [Thread -> Seq(Entry)]
  /\ \A t \in Thread : thr[t] = "run" => hand[t] # <<>>
  /\ closer \in {"open", "join", "flag", "wait", "done"}
  /\ closed \in SUBSET Worker /\ work \in SUBSET Worker
  /\ loop \in [Worker -> {"launched", "loop", "gone"}]
  /\ service \in [Worker -> Seq(Entry)]
  /\ fresh \in SUBSET Task /\ ran \in SUBSET Task /\ cancelled \in SUBSET Task

(* ThreadPool::start has returned: each worker's thread has fulfilled its   *)
(* promise, but may not have entered io_service::run yet.                   *)
Init ==
  /\ now = 0
  /\ queue = <<>> /\ notify = 0
  /\ stop_when_empty = FALSE /\ stop_requested = FALSE
  /\ thr = [t \in Thread |-> "top"]
  /\ deadline = [t \in Thread |-> 0]
  /\ awake = {}
  /\ hand = [t \in Thread |-> <<>>]
  /\ closer = "open"
  /\ closed = {} /\ work = Worker
  /\ loop = [w \in Worker |-> "launched"]
  /\ service = [w \in Worker |-> <<>>]
  /\ fresh = Task /\ ran = {} /\ cancelled = {}

-----------------------------------------------------------------------------
(* Submitting functions. *)

\* Insert as for an unsorted list.
Insert_at_end(q, e) == Append(q, e)

\* multimap::insert: after the entries with the same or an earlier time.
Insert(q, e) ==
  LET n == Cardinality({i \in DOMAIN q : q[i].at <= e.at})
  IN  SubSeq(q, 1, n) \o <<e>> \o SubSeq(q, n + 1, Len(q))

\* Scheduler::schedule up to the end of its critical section.
Enqueue(k, at) ==
  /\ queue' = Insert(queue, [at |-> at, task |-> k])
  /\ notify' = notify + 1

\* Worker::scheduleFromNow and the first call of scheduleEvery.
ScheduleFromNow(k, delta) ==
  /\ k \in fresh
  /\ now + delta <= MaxTime
  /\ fresh' = fresh \ {k}
  /\ Enqueue(k, now + delta)
  /\ UNCHANGED <<now, flagVars, threadVars, closer, workerVars, ran, cancelled>>

\* Worker::task: the function goes straight to the io_service.
Post(k) ==
  /\ k \in fresh \ Series
  /\ fresh' = fresh \ {k}
  /\ service' = [service EXCEPT ![Home[k]] = Append(@, [at |-> 0, task |-> k])]
  /\ UNCHANGED <<now, schedVars, flagVars, threadVars, closer, closed, work, loop,
                 ran, cancelled>>

\* Worker::unschedule, called in a function the worker runs.  scheduleEvery
\* keeps no reference to cancel.
Unschedule(k) ==
  /\ k \in Task \ (Series \cup fresh \cup ran \cup cancelled)
  /\ loop[Home[k]] = "loop"
  /\ cancelled' = cancelled \cup {k}
  /\ UNCHANGED <<now, schedVars, flagVars, threadVars, closer, workerVars, fresh, ran>>

-----------------------------------------------------------------------------
(* The condition variable. *)

Blocked == {t \in Thread : thr[t] \in {"wait", "until"} /\ t \notin awake}

\* notify_one at the end of schedule.
NotifyOne ==
  /\ notify > 0
  /\ notify' = notify - 1
  /\ \/ Blocked = {} /\ UNCHANGED awake
     \/ \E t \in Blocked : awake' = awake \cup {t}
  /\ UNCHANGED <<now, queue, flagVars, thr, deadline, hand, closer, workerVars, userVars>>

\* A wait may return without a notification.
Spurious(t) ==
  /\ t \in Blocked
  /\ awake' = awake \cup {t}
  /\ UNCHANGED <<now, schedVars, flagVars, thr, deadline, hand, closer, workerVars, userVars>>

-----------------------------------------------------------------------------
(* Scheduler::serviceQueue. *)

\* The status wait_until returns follows the clock when the mutex is taken again.
TimedOut(t) == thr[t] = "until" /\ deadline[t] <= now

Resumes(t) == thr[t] = "top" \/ TimedOut(t) \/ (thr[t] \in {"wait", "until"} /\ t \in awake)

Go(t, where, until) ==
  /\ thr' = [thr EXCEPT ![t] = where]
  /\ deadline' = [deadline EXCEPT ![t] = until]
  /\ awake' = awake \ {t}
  /\ UNCHANGED <<now, notify, flagVars, closer, workerVars, userVars>>

\* Leave with the condition on an empty queue forgotten.
Leave_before_empty(t) ==
  /\ Resumes(t)
  /\ stop_requested \/ stop_when_empty
  /\ Go(t, "gone", 0)
  /\ UNCHANGED <<queue, hand>>

\* The outer loop ends.
Leave(t) ==
  /\ Resumes(t)
  /\ stop_requested \/ (stop_when_empty /\ queue = <<>>)
  /\ Go(t, "gone", 0)
  /\ UNCHANGED <<queue, hand>>

\* new_task_scheduled_.wait
Wait(t) ==
  /\ Resumes(t)
  /\ ~stop_requested /\ ~stop_when_empty /\ queue = <<>>
  /\ Go(t, "wait", 0)
  /\ UNCHANGED <<queue, hand>>

\* WaitUntil as an `if' for the `while': a woken thread goes on waiting as before.
WaitUntil_once(t) ==
  /\ Resumes(t) /\ ~TimedOut(t)
  /\ ~stop_requested /\ queue # <<>>
  /\ Go(t, "until", IF thr[t] = "until" THEN deadline[t] ELSE Head(queue).at)
  /\ UNCHANGED <<queue, hand>>

\* new_task_scheduled_.wait_until the time of the first entry
WaitUntil(t) ==
  /\ Resumes(t) /\ ~TimedOut(t)
  /\ ~stop_requested /\ queue # <<>>
  /\ Go(t, "until", Head(queue).at)
  /\ UNCHANGED <<queue, hand>>

\* Take without the test of the flag after the wait.
Take_when_stopped(t) ==
  /\ TimedOut(t)
  /\ queue # <<>>
  /\ hand' = [hand EXCEPT ![t] = <<Head(queue)>>]
  /\ queue' = Tail(queue)
  /\ Go(t, "run", 0)

\* The wait timed out: the first entry is taken, whichever it is by now.
Take(t) ==
  /\ TimedOut(t)
  /\ ~stop_requested /\ queue # <<>>
  /\ hand' = [hand EXCEPT ![t] = <<Head(queue)>>]
  /\ queue' = Tail(queue)
  /\ Go(t, "run", 0)

Serve(t) == Leave(t) \/ Wait(t) \/ WaitUntil(t) \/ Take(t)

\* f(): the wrapper made by Worker::scheduleFromNow posts to its worker.
Fire(t) ==
  /\ thr[t] = "run"
  /\ LET e == Head(hand[t])
     IN  service' = [service EXCEPT ![Home[e.task]] = Append(@, e)]
  /\ hand' = [hand EXCEPT ![t] = <<>>]
  /\ thr' = [thr EXCEPT ![t] = "top"]
  /\ UNCHANGED <<now, schedVars, flagVars, deadline, awake, closer, closed, work, loop,
                 userVars>>

-----------------------------------------------------------------------------
(* The thread of a worker. *)

\* The lambda of Worker::start, after the promise.
StartRun(w) ==
  /\ loop[w] = "launched"
  /\ loop' = [loop EXCEPT ![w] = IF w \in closed THEN "gone" ELSE "loop"]
  /\ UNCHANGED <<now, schedVars, flagVars, threadVars, closer, closed, work, service, userVars>>

Serves(w) == loop[w] = "loop" /\ service[w] # <<>>

\* The inner wrapper of scheduleFromNow: nothing is run once cancelled.
RunOnce(w) ==
  LET k == Head(service[w]).task IN
  /\ Serves(w) /\ k \notin Series
  /\ ran' = IF k \in cancelled THEN ran ELSE ran \cup {k}
  /\ service' = [service EXCEPT ![w] = Tail(@)]
  /\ UNCHANGED <<now, schedVars, flagVars, threadVars, closer, closed, work, loop,
                 fresh, cancelled>>

\* scheduleEvery: the delay to the next run is shortened by how late this one is.
NextTime(e) ==
  LET clock_skew == now - e.at
      delay == IF Period > clock_skew THEN Period - clock_skew ELSE 0
  IN  now + delay

RunAgain(w) ==
  LET e == Head(service[w]) IN
  /\ Serves(w) /\ e.task \in Series
  /\ NextTime(e) <= MaxTime
  /\ Enqueue(e.task, NextTime(e))
  /\ service' = [service EXCEPT ![w] = Tail(@)]
  /\ UNCHANGED <<now, flagVars, threadVars, closer, closed, work, loop, userVars>>

\* RunLast scheduling the next run whatever the function returned.
RunLast_and_again(w) ==
  LET e == Head(service[w]) IN
  /\ Serves(w) /\ e.task \in Series
  /\ NextTime(e) <= MaxTime
  /\ Enqueue(e.task, NextTime(e))
  /\ ran' = ran \cup {e.task}
  /\ service' = [service EXCEPT ![w] = Tail(@)]
  /\ UNCHANGED <<now, flagVars, threadVars, closer, closed, work, loop, fresh, cancelled>>

\* The function of a series returns false.
RunLast(w) ==
  LET k == Head(service[w]).task IN
  /\ Serves(w) /\ k \in Series
  /\ ran' = ran \cup {k}
  /\ service' = [service EXCEPT ![w] = Tail(@)]
  /\ UNCHANGED <<now, schedVars, flagVars, threadVars, closer, closed, work, loop,
                 fresh, cancelled>>

\* io_service::run returns when nothing is queued and the work object is gone.
LeaveRun(w) ==
  /\ loop[w] = "loop" /\ service[w] = <<>> /\ w \notin work
  /\ loop' = [loop EXCEPT ![w] = "gone"]
  /\ UNCHANGED <<now, schedVars, flagVars, threadVars, closer, closed, work, service, userVars>>

WorkerStep(w) == StartRun(w) \/ RunOnce(w) \/ RunAgain(w) \/ RunLast(w) \/ LeaveRun(w)

-----------------------------------------------------------------------------
(* Closing. *)

\* Worker::close up to join_all.  ThreadPool::close takes the workers in turn.
CloseWorker(w) ==
  /\ closer = "open" /\ w \notin closed /\ ~stop_requested
  /\ closer' = "join"
  /\ closed' = closed \cup {w}
  /\ work' = work \ {w}
  /\ UNCHANGED <<now, schedVars, flagVars, threadVars, loop, service, userVars>>

\* join_all returns; service_.stop() finds nothing running.
JoinWorker ==
  /\ closer = "join"
  /\ \A w \in closed : loop[w] = "gone"
  /\ closer' = "open"
  /\ UNCHANGED <<now, schedVars, flagVars, threadVars, workerVars, userVars>>

\* Scheduler::stop(true), from ThreadPool::close
StopDrain ==
  /\ closer = "open" /\ closed = Worker
  /\ stop_when_empty' = TRUE
  /\ closer' = "flag"
  /\ UNCHANGED <<now, schedVars, stop_requested, threadVars, workerVars, userVars>>

\* Scheduler::stop(false), by the owner of a Scheduler outside a pool
StopNow ==
  /\ closer = "open" /\ closed = {}
  /\ stop_requested' = TRUE
  /\ closer' = "flag"
  /\ UNCHANGED <<now, schedVars, stop_when_empty, threadVars, workerVars, userVars>>

\* NotifyAll waking one thread only.
NotifyAll_but_one ==
  /\ closer = "flag"
  /\ \/ Blocked = {} /\ UNCHANGED awake
     \/ \E t \in Blocked : awake' = awake \cup {t}
  /\ closer' = "wait"
  /\ UNCHANGED <<now, schedVars, flagVars, thr, deadline, hand, workerVars, userVars>>

NotifyAll ==
  /\ closer = "flag"
  /\ awake' = awake \cup Blocked
  /\ closer' = "wait"
  /\ UNCHANGED <<now, schedVars, flagVars, thr, deadline, hand, workerVars, userVars>>

AllGone == \A t \in Thread : thr[t] = "gone"

JoinThreads ==
  /\ closer = "wait" /\ AllGone
  /\ closer' = "done"
  /\ UNCHANGED <<now, schedVars, flagVars, threadVars, workerVars, userVars>>

\* A close that has begun goes on.
Closing == JoinWorker \/ NotifyAll \/ JoinThreads \/ StopDrain
           \/ (closed # {} /\ \E w \in Worker : CloseWorker(w))

Tick ==
  /\ now < MaxTime
  /\ now' = now + 1
  /\ UNCHANGED <<schedVars, flagVars, threadVars, closer, workerVars, userVars>>

Next ==
  \/ \E k \in Task :
       \/ \E delta \in Time : ScheduleFromNow(k, delta)
       \/ Post(k)
       \/ Unschedule(k)
  \/ \E t \in Thread : Serve(t) \/ Fire(t) \/ Spurious(t)
  \/ \E w \in Worker : WorkerStep(w) \/ CloseWorker(w)
  \/ NotifyOne
  \/ JoinWorker \/ StopDrain \/ StopNow \/ NotifyAll \/ JoinThreads
  \/ Tick

Spec == Init /\ [][Next]_vars

\* The operating system runs every thread that can run, and time passes.  Nobody
\* is bound to submit, to cancel or to begin a close.
Fairness ==
  /\ \A t \in Thread : WF_vars(Serve(t)) /\ WF_vars(Fire(t))
  /\ \A w \in Worker : WF_vars(WorkerStep(w))
  /\ WF_vars(NotifyOne) /\ WF_vars(Closing) /\ WF_vars(Tick)

FairSpec == Spec /\ Fairness

-----------------------------------------------------------------------------
(* Safety. *)

Queued(k) == \E i \in DOMAIN queue : queue[i].task = k
Posted(k) == \E i \in DOMAIN service[Home[k]] : service[Home[k]][i].task = k
Taken(k)  == {t \in Thread : hand[t] # <<>> /\ Head(hand[t]).task = k}

Copies(k) == Cardinality({i \in DOMAIN queue : queue[i].task = k})
             + Cardinality(Taken(k))
             + Cardinality({i \in DOMAIN service[Home[k]] : service[Home[k]][i].task = k})

(* A submitted function is in exactly one place until it has run or was    *)
(* skipped as cancelled: whatever the service threads, the worker and the   *)
(* caller of unschedule do at the same time, none is lost and none, not     *)
(* even one of a series (Worker.cpp:86-97), has two runs outstanding.       *)
Accounted ==
  \A k \in Task :
    /\ Copies(k) <= 1
    /\ k \in fresh \cup ran => Copies(k) = 0
    /\ k \notin fresh \cup ran \cup cancelled => Copies(k) = 1

(* The first entry is the one due next (the comment at Scheduler.cpp:73):   *)
(* insertions by many callers and removals by many threads keep the order.  *)
Sorted ==
  \A i, j \in DOMAIN queue : i < j => queue[i].at <= queue[j].at

\* What makes sure that the first entry is looked at by the time it is due: a thread
\* that is about to look, or one whose wait ends no later.
Watches(t) ==
  \/ thr[t] \in {"top", "run"}
  \/ thr[t] \in {"wait", "until"} /\ t \in awake
  \/ thr[t] = "until" /\ deadline[t] <= Head(queue).at

(* No wakeup is lost: while the scheduler serves, an entry in the queue has *)
(* a thread that will look at it by its time, or a notification still to    *)
(* come, although schedule notifies one thread only and outside the mutex   *)
(* (Scheduler.cpp:70-78), and a thread may take an entry on whose time      *)
(* others sleep.                                                            *)
HeadWatched ==
  queue # <<>> /\ ~AllGone /\ ~stop_requested
    => notify > 0 \/ \E t \in Thread : Watches(t)

(* Once stop(false) has set its flag no thread takes another entry, also    *)
(* when its wait times out in between (Scheduler.cpp:32-37; the test        *)
(* stop_can_avoid_draining_scheduled_tasks).                                *)
NoneAfterStop ==
  [][stop_requested => \A t \in Thread : thr'[t] = "run" => thr[t] = "run"]_vars

(* A function runs "after a while" (Scheduler.h:15), never before the time  *)
(* it was scheduled for.                                                    *)
NeverEarly ==
  [][\A t \in Thread : thr[t] # "run" /\ thr'[t] = "run" => Head(hand'[t]).at <= now]_vars

-----------------------------------------------------------------------------
(* Liveness. *)

(* stop(true) drains: while a service thread is left, an entry in the queue *)
(* is taken in the end (Scheduler.h:31-32; the test                         *)
(* stop_can_drain_scheduled_tasks).                                         *)
Drains ==
  \A k \in Task : Queued(k) /\ ~AllGone ~> ~Queued(k) \/ stop_requested

(* What was posted to a worker that has begun to serve is run or skipped,   *)
(* also when close() comes first: dropping the work object lets run()       *)
(* finish its queue (Worker.cpp:57-62).                                     *)
PostedServed ==
  \A k \in Task : Posted(k) /\ loop[Home[k]] = "loop" ~> ~Posted(k)

(* Neither a drain nor a close loses what was submitted before.             *)
ServedBeforeEnd == Drains /\ PostedServed

(* A close that began, and a stop, return: no thread they join sleeps on.   *)
CloseEnds == closed # {} \/ closer # "open" ~> closer = "done"
=============================================================================
