------------------------------ MODULE NicerIce ------------------------------
(***************************************************************************)
(* An ICE connection over nICEr (NicerConnection.cpp) and the IOWorker     *)
(* that runs it (thread/IOWorker.cpp, thread/IOThreadPool.cpp).            *)
(*                                                                         *)
(* Every call is a task for the IO worker, and most calls wait for it: five *)
(* seconds for start, one for the others, and getSelectedPair for ever.    *)
(* The pointers a task works with are read when the call is made, or when  *)
(* the task runs.  The caller of close runs closeSync itself if the worker *)
(* is late, so the objects of nICEr may be freed under a task, or twice.   *)
(* The model stops where memory is misused, with crashed saying how.       *)
(***************************************************************************)
EXTENDS Integers, Sequences, FiniteSets

CONSTANTS Callers,     \* the threads that use the connection
          Owner,       \* the one that starts and closes it
          MaxCalls,    \* bound on the calls
          MaxHeard     \* bound on the local candidates

Sensible ==
  /\ Owner \in Callers /\ IsFiniteSet(Callers)
  /\ MaxCalls \in Nat /\ MaxHeard \in Nat

VARIABLES
  made,      \* the objects startSync has made, in order: ctx_, peer_, stream_
  handler,   \* ice_handler_: "unset" is an uninitialised pointer
  gone,      \* closeSync has freed them
  ready,     \* checkIceState() is READY
  closed,    \* closed_
  dropped,   \* nobody refers to the connection any more
  call,      \* the call each thread is in
  calls,     \* the number of calls made
  late,      \* a wait timed out
  overtook,  \* a call went on behind the task of close
  given,     \* the calls whose candidates went to nICEr, and whether it took them all
  told,      \* the calls of setRemoteCandidates that returned true
  heard,     \* the number of candidates told to the listener
  tasks,     \* tasks_
  batch,     \* what the worker took of it
  job,       \* the task it is in
  io,        \* the worker: it runs, close() waits for it, it has ended
  crashed    \* how memory was misused, if it was

objects == <<made, handler, gone, ready>>
users   == <<closed, dropped, call, calls, late, overtook, told>>
worker  == <<tasks, batch, job, io>>
vars    == <<objects, users, given, heard, worker, crashed>>

Kinds == {"start", "cands", "creds", "send", "pair", "close"}
Calls == [k : Kinds, n : 1..MaxCalls, peer : {"null", "good"}, at : {"begin", "wait", "done"}]
Idle  == [k |-> "none"]

TypeOK ==
  /\ made \in 0..3 /\ handler \in {"unset", "made", "freed"}
  /\ {gone, ready, closed, dropped, late, overtook} \subseteq BOOLEAN
  /\ call \in [Callers -> Calls \cup {Idle}] /\ calls \in 0..MaxCalls
  /\ given \subseteq (1..MaxCalls) \X BOOLEAN /\ told \subseteq 1..MaxCalls
  /\ heard \in 0..MaxHeard
  /\ \A t \in {tasks[i] : i \in DOMAIN tasks} \cup {batch[i] : i \in DOMAIN batch} :
       t \in [by : Callers, k : Kinds, n : 1..MaxCalls, peer : {"null", "good"}]
  /\ io \in {"new", "run", "ending", "last", "ended"}
  /\ crashed \in {"no", "unset", "twice", "freed", "null", "race"}

Init ==
  /\ made = 0 /\ handler = "unset" /\ gone = FALSE /\ ready = FALSE
  /\ closed = FALSE /\ dropped = FALSE
  /\ call = [c \in Callers |-> Idle] /\ calls = 0
  /\ late = FALSE /\ overtook = FALSE
  /\ given = {} /\ told = {} /\ heard = 0
  /\ tasks = <<>> /\ batch = <<>> /\ job = Idle /\ io = "new"
  /\ crashed = "no"

Peer == IF made = 3 /\ ~gone THEN "good" ELSE "null"

-----------------------------------------------------------------------------
(* The callers.                                                            *)

\* What a thread may call: the owner starts the connection first and closes it
\* last; the worker is told of candidates and of READY before it acts on them.
Allowed(c, k) ==
  CASE k = "start" -> c = Owner /\ calls = 0
    [] k = "close" -> c = Owner /\ ~closed
    [] k = "creds" -> c = Owner /\ calls > 0 /\ ~closed
    [] k = "cands" -> ~closed /\ IF c = Owner THEN calls > 0 ELSE made = 3
    [] OTHER       -> c # Owner /\ ready /\ ~closed

\* A call up to its async: setRemoteCandidates and sendData read peer_ and
\* stream_ here, sendData after the test for READY.
Begin(c) ==
  /\ io # "new" /\ ~dropped /\ call[c] = Idle /\ calls < MaxCalls
  /\ \E k \in Kinds :
       /\ Allowed(c, k)
       /\ call' = [call EXCEPT ![c] = [k |-> k, n |-> calls + 1, peer |-> Peer, at |-> "begin"]]
       /\ closed' = (closed \/ k = "close")
  /\ calls' = calls + 1
  /\ UNCHANGED <<objects, dropped, late, overtook, told, given, heard, worker, crashed>>

\* The task of close is behind those posted so far.
CloseIsPosted ==
  closed /\ ~(call[Owner] # Idle /\ call[Owner].k = "close" /\ call[Owner].at = "begin")

Task(c) == [by |-> c, k |-> call[c].k, n |-> call[c].n, peer |-> call[c].peer]

\* NicerConnection::async, IOWorker::task.  sendData does not wait.
Async(c) ==
  /\ call[c] # Idle /\ call[c].at = "begin"
  /\ tasks' = Append(tasks, Task(c))
  /\ call' = [call EXCEPT ![c] = IF @.k = "send" THEN Idle ELSE [@ EXCEPT !.at = "wait"]]
  /\ overtook' = (overtook \/ CloseIsPosted)
  /\ UNCHANGED <<objects, closed, dropped, calls, late, told, given, heard, batch, job, io, crashed>>

\* The promise is kept.
Return(c) ==
  /\ call[c] # Idle /\ call[c].at = "done"
  /\ call' = [call EXCEPT ![c] = Idle]
  /\ told' = IF call[c].k = "cands" THEN told \cup {call[c].n} ELSE told
  /\ UNCHANGED <<objects, closed, dropped, calls, late, overtook, given, heard, worker, crashed>>

\* What closeSync finds to free.  Neither pointer is set to null after it.
Misuse == IF handler = "made" THEN "no" ELSE IF handler = "freed" THEN "twice" ELSE "unset"

Freed == handler' = "freed" /\ gone' = TRUE /\ UNCHANGED <<made, ready>>

\* The caller gives up without freeing anything.
GiveUp_leaks(k) == UNCHANGED <<objects, crashed>>

\* wait_for is over.  close goes on with a closeSync of its own, whatever the
\* IO worker is doing.
GiveUp(k) ==
  IF k # "close" THEN UNCHANGED <<objects, crashed>>
  ELSE /\ crashed' = IF job # Idle THEN "race" ELSE Misuse
       /\ Freed

TimeOut(c) ==
  /\ call[c] # Idle /\ call[c].at = "wait" /\ call[c].k # "pair"
  /\ late' = TRUE
  /\ GiveUp(call[c].k)
  /\ call' = [call EXCEPT ![c] = Idle]
  /\ UNCHANGED <<closed, dropped, calls, overtook, told, given, heard, worker>>

\* The transport lets go of the connection it has closed.
Drop ==
  /\ closed /\ ~dropped /\ \A c \in Callers : call[c] = Idle
  /\ dropped' = TRUE
  /\ UNCHANGED <<objects, closed, call, calls, late, overtook, told, given, heard, worker, crashed>>

-----------------------------------------------------------------------------
(* The IO worker.                                                          *)

IoStart ==
  /\ io = "new" /\ io' = "run"
  /\ UNCHANGED <<objects, users, given, heard, tasks, batch, job, crashed>>

\* Between two batches the worker waits for the events of nICEr.
Between == io \in {"run", "ending", "last"} /\ job = Idle /\ batch = <<>>

\* tasks.swap(tasks_) under the lock, once more after closed_ is set.
Swap ==
  /\ Between /\ io # "last" /\ tasks # <<>>
  /\ batch' = tasks /\ tasks' = <<>>
  /\ io' = IF io = "ending" THEN "last" ELSE io
  /\ UNCHANGED <<objects, users, given, heard, job, crashed>>

\* A task is passed over if the connection is gone by now.  The reference it
\* tests does not outlive the test.
Take ==
  /\ job = Idle /\ batch # <<>>
  /\ batch' = Tail(batch)
  /\ job' = IF dropped THEN Idle ELSE Head(batch)
  /\ UNCHANGED <<objects, users, given, heard, tasks, io, crashed>>

\* A promise is kept for whoever still waits for it.
Kept(t) ==
  call' = [c \in Callers |->
             IF call[c] # Idle /\ call[c].n = t.n THEN [call[c] EXCEPT !.at = "done"] ELSE call[c]]

\* The task of a call runs to its end.
Running(k) ==
  /\ job.k = k /\ job' = Idle
  /\ UNCHANGED <<closed, dropped, calls, late, overtook, told, heard, tasks, batch, io>>

\* startSync may fail at each object and tells nobody; the handler is made after
\* the context.
RunStart ==
  /\ Running("start") /\ Kept(job)
  /\ \E n \in 0..3 :
       /\ made' = n
       /\ handler' \in (CASE n = 0 -> {"unset"} [] n = 1 -> {"unset", "made"} [] OTHER -> {"made"})
  /\ UNCHANGED <<gone, ready, given, crashed>>

\* A pointer that is null goes straight to nICEr, which follows it.
Using(peer) == IF peer = "null" THEN "null" ELSE IF gone THEN "freed" ELSE "no"

\* The candidates are given to the peer the call found.  One that nICEr refuses
\* is logged, and the promise kept nonetheless.
RunCands ==
  /\ Running("cands") /\ Kept(job)
  /\ crashed' = Using(job.peer)
  /\ IF crashed' = "no"
     THEN \E taken \in BOOLEAN : given' = given \cup {<<job.n, taken>>}
     ELSE UNCHANGED given
  /\ UNCHANGED objects

\* setRemoteCredentialsSync and startChecking, on the peer of now.
RunCreds ==
  /\ Running("creds") /\ Kept(job)
  /\ crashed' = Using(Peer)
  /\ UNCHANGED <<objects, given>>

RunSend ==
  /\ Running("send")
  /\ crashed' = Using(job.peer)
  /\ UNCHANGED <<objects, call, given>>

\* The promise is not kept when there is no pair.
RunPair_some ==
  /\ Running("pair")
  /\ Kept(job) \/ UNCHANGED call
  /\ crashed' = Using(Peer)
  /\ UNCHANGED <<objects, given>>

\* The promise is kept whether there is a pair or not.
RunPair ==
  /\ Running("pair") /\ Kept(job)
  /\ crashed' = Using(Peer)
  /\ UNCHANGED <<objects, given>>

RunClose ==
  /\ Running("close") /\ Kept(job)
  /\ crashed' = Misuse /\ Freed
  /\ UNCHANGED given

\* nICEr, between two batches: startChecking has been called.
IceConnected ==
  /\ Between /\ made = 3 /\ ~gone /\ ~ready
  /\ ready' = TRUE
  /\ UNCHANGED <<made, handler, gone, users, given, heard, worker, crashed>>

\* trickle_callback: a candidate with an IPv4 address and a port goes to the
\* listener, with the credentials startSync made; any other is dropped.
OnCandidate ==
  /\ Between /\ made = 3 /\ ~gone /\ heard < MaxHeard
  /\ heard' = heard + 1
  /\ UNCHANGED <<objects, users, given, worker, crashed>>

\* IOWorker::close: closed_, join, clear.  What is posted afterwards stays.
IoClose ==
  /\ io = "run" /\ io' = "ending"
  /\ UNCHANGED <<objects, users, given, heard, tasks, batch, job, crashed>>

IoEnd ==
  /\ Between /\ io # "run"
  /\ io' = "ended" /\ tasks' = <<>>
  /\ UNCHANGED <<objects, users, given, heard, batch, job, crashed>>

Run == RunStart \/ RunCands \/ RunCreds \/ RunSend \/ RunPair \/ RunClose
IoWorker == IoStart \/ Swap \/ Take \/ Run \/ IoEnd

Next ==
  /\ crashed = "no"
  /\ \/ IoWorker \/ IoClose \/ IceConnected \/ OnCandidate \/ Drop
     \/ \E c \in Callers : Begin(c) \/ Async(c) \/ Return(c) \/ TimeOut(c)

Spec == Init /\ [][Next]_vars

\* The worker's loop goes on, and a call on.
Progress(c) == crashed = "no" /\ (Async(c) \/ Return(c) \/ TimeOut(c))

-----------------------------------------------------------------------------
(* Properties.                                                             *)

\* The order of the IO worker is what makes close safe: what it freed is freed
\* again, or followed, only after a wait that timed out or by a call that had its
\* pointers before close and was posted after it, and pointers that were never
\* set only where startSync did not get to them (NicerConnection.cpp:156, 557).
CloseIsOrderly ==
  /\ crashed = "race" => late
  /\ crashed \in {"twice", "freed"} => late \/ overtook
  /\ crashed = "unset" => made < 2
  /\ crashed = "null" => made < 3 \/ late \/ overtook

\* close leaves nothing behind, even when the IO worker has ended or is late
\* (NicerConnection.cpp:567).
CloseFrees == dropped => gone /\ handler = "freed"

\* setRemoteCandidates says true only when nICEr was asked to take every candidate
\* of that call, however late the IO worker is and whoever closes meanwhile; that
\* nICEr took them it does not say (NicerConnection.cpp:341, 349).
Asked(n) == \E taken \in BOOLEAN : <<n, taken>> \in given
ToldMeansAsked == \A n \in told : Asked(n)

\* Together.  What was freed may still be used, or freed twice, under the
\* conditions of CloseIsOrderly.
Sound == CloseIsOrderly /\ CloseFrees /\ ToldMeansAsked

\* Every call returns, but for getSelectedPair on a worker that was closed
\* (NicerConnection.cpp:531).
CallsReturn ==
  \A c \in Callers : (call[c] # Idle) ~> (call[c] = Idle \/ crashed # "no" \/ io \notin {"new", "run"})
=============================================================================
