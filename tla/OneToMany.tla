------------------------------ MODULE OneToMany -----------------------------
(***************************************************************************)
(* The distribution of a publisher's packets (OneToManyProcessor.cpp) to   *)
(* subscribers that come and go, with the threads that meet in it: the     *)
(* caller's, the workers of the connections, and the source's, which is    *)
(* the worker of a publishing connection or of a SyntheticInput, or an     *)
(* ExternalInput's own.  What a connection does when it closes is in       *)
(* Connection; here it is one step of its worker.                          *)
(***************************************************************************)
EXTENDS Integers, Sequences, FiniteSets

SX == INSTANCE SequencesExt

CONSTANTS Conns,        \* subscribing connections
          Peers,        \* ids of subscribers
          Workers, WorkerOf, PubWorker,
          Sources,      \* kinds of publishers: "webrtc", "external", "synthetic"
          MaxPackets, MaxCalls, MaxFeedback   \* bounds

None == "none"
ExternalThread == "ext"
Threads == Workers \cup {ExternalThread}

Sensible ==
  /\ WorkerOf \in [Conns -> Workers] /\ PubWorker \in Workers
  /\ Sources \subseteq {"webrtc", "external", "synthetic"}
  /\ MaxPackets \in Nat /\ MaxCalls \in Nat /\ MaxFeedback \in Nat
  /\ None \notin Conns \cup Threads \cup {"api"} /\ "api" \notin Threads
  /\ Peers \cap {"idle", "publisher", "lock", "next", "done"} = {}

VARIABLES
  source,        \* what publishes
  publisher, pubOpen,   \* publisher is set; its connection is not closed
  sink,          \* feedbackSink_ is set
  subscribers,   \* the connection under each id
  fbSink,        \* connections whose fb_sink_ is this processor
  closed,        \* connections whose close ran
  monitor,       \* who holds monitor_mutex_
  api, calls,    \* where the caller is
  queue, job,    \* tasks of each thread, and the one it runs
  key,           \* SyntheticInput's keyframe_requested_
  owed,          \* a PLI reached the source after its last key frame, for the properties
  added, replaced, \* connections that were subscribed, for the properties
  packets, feedback, crashed

media == <<key, owed, packets, feedback>>
vars == <<source, publisher, pubOpen, sink, subscribers, fbSink, closed, monitor, api, calls,
          queue, job, media, added, replaced, crashed>>

Job(do, who) == [do |-> do, who |-> who, at |-> "start", rest |-> {}, key |-> FALSE]
NoJob == Job(None, None)
Jobs == {Job("video", None), Job("tick", None), Job("pubclose", None)}
        \cup {Job("close", c) : c \in Conns} \cup {Job("feedback", c) : c \in Conns}
SourceThread == IF source = "external" THEN ExternalThread ELSE PubWorker

TypeOK ==
  /\ source \in Sources /\ {publisher, pubOpen, sink, key, owed, crashed} \subseteq BOOLEAN
  /\ subscribers \in [Peers -> Conns \cup {None}]
  /\ {fbSink, closed, added, replaced} \subseteq SUBSET Conns
  /\ monitor \in Threads \cup {"api", None}
  /\ api \in {"idle", "publisher", "lock", "next", "done"} \cup Peers /\ calls \in 0..MaxCalls
  /\ \A t \in Threads : SX!ToSet(queue[t]) \subseteq Jobs /\ job[t].do \in {None} \cup {j.do : j \in Jobs}
  /\ packets \in 0..MaxPackets /\ feedback \in 0..MaxFeedback

\* A processor whose publisher was set (setPublisher).
Init ==
  /\ source \in Sources /\ publisher = TRUE /\ pubOpen = TRUE /\ sink = TRUE
  /\ subscribers = [p \in Peers |-> None] /\ fbSink = {} /\ closed = {}
  /\ monitor = None /\ api = "idle" /\ calls = 0
  /\ queue = [t \in Threads |-> <<>>] /\ job = [t \in Threads |-> NoJob]
  /\ key = TRUE /\ owed = FALSE /\ added = {} /\ replaced = {}
  /\ packets = 0 /\ feedback = 0 /\ crashed = FALSE

-----------------------------------------------------------------------------
(* The caller.                                                             *)

Post(t, j) == queue' = [queue EXCEPT ![t] = Append(@, j)]
Subscribed == {p \in Peers : subscribers[p] # None}

\* A subscriber of the same id is substituted, and nobody closes it.
AddSubscriber(c, p) ==
  /\ api = "idle" /\ monitor = None /\ calls < MaxCalls /\ calls' = calls + 1
  /\ c \notin added /\ added' = added \cup {c}
  /\ replaced' = replaced \cup ({subscribers[p]} \ {None})
  /\ subscribers' = [subscribers EXCEPT ![p] = c]
  /\ fbSink' = fbSink \cup {c}
  /\ UNCHANGED <<source, publisher, pubOpen, sink, closed, monitor, api, queue, job, media, crashed>>

\* The subscriber is closed but stays in the map.
RemoveSubscriber_keeps(p) ==
  /\ api = "idle" /\ monitor = None /\ calls < MaxCalls /\ calls' = calls + 1
  /\ subscribers[p] # None
  /\ Post(WorkerOf[subscribers[p]], Job("close", subscribers[p]))
  /\ UNCHANGED <<source, publisher, pubOpen, sink, subscribers, fbSink, closed, monitor, api, job,
                 media, added, replaced, crashed>>

RemoveSubscriber(p) ==
  /\ api = "idle" /\ monitor = None /\ calls < MaxCalls /\ calls' = calls + 1
  /\ subscribers[p] # None
  /\ Post(WorkerOf[subscribers[p]], Job("close", subscribers[p]))
  /\ subscribers' = [subscribers EXCEPT ![p] = None]
  /\ UNCHANGED <<source, publisher, pubOpen, sink, fbSink, closed, monitor, api, job, media,
                 added, replaced, crashed>>

\* closeAll, the publisher first: only a connection is closed and waited for.
CloseAll ==
  /\ api = "idle" /\ sink' = FALSE
  /\ IF source = "webrtc"
     THEN api' = "publisher" /\ Post(PubWorker, Job("pubclose", None)) /\ UNCHANGED publisher
     ELSE api' = "lock" /\ publisher' = FALSE /\ UNCHANGED queue
  /\ UNCHANGED <<source, pubOpen, subscribers, fbSink, closed, monitor, calls, job, media, added,
                 replaced, crashed>>

PublisherClosed ==
  /\ api = "publisher" /\ ~pubOpen
  /\ api' = "lock" /\ publisher' = FALSE
  /\ UNCHANGED <<source, pubOpen, sink, subscribers, fbSink, closed, monitor, calls, queue, job,
                 media, added, replaced, crashed>>

LockAll ==
  /\ api = "lock" /\ monitor = None
  /\ monitor' = "api" /\ api' = "next"
  /\ UNCHANGED <<source, publisher, pubOpen, sink, subscribers, fbSink, closed, calls, queue, job,
                 media, added, replaced, crashed>>

\* One subscriber after the other is closed on its worker and waited for, with
\* the lock held.
CloseNext ==
  /\ api = "next"
  /\ IF Subscribed = {}
     THEN api' = "done" /\ monitor' = None /\ UNCHANGED queue
     ELSE \E p \in Subscribed :
            /\ api' = p /\ Post(WorkerOf[subscribers[p]], Job("close", subscribers[p]))
            /\ UNCHANGED monitor
  /\ UNCHANGED <<source, publisher, pubOpen, sink, subscribers, fbSink, closed, calls, job, media,
                 added, replaced, crashed>>

SubscriberClosed ==
  /\ api \in Peers /\ subscribers[api] \in closed
  /\ fbSink' = fbSink \ {subscribers[api]}
  /\ subscribers' = [subscribers EXCEPT ![api] = None]
  /\ api' = "next"
  /\ UNCHANGED <<source, publisher, pubOpen, sink, closed, monitor, calls, queue, job, media, added,
                 replaced, crashed>>

-----------------------------------------------------------------------------
(* What comes from outside.                                                *)

Packet ==
  /\ packets < MaxPackets /\ packets' = packets + 1
  /\ Post(SourceThread, Job(IF source = "synthetic" THEN "tick" ELSE "video", None))
  /\ UNCHANGED <<source, publisher, pubOpen, sink, subscribers, fbSink, closed, monitor, api, calls,
                 job, key, owed, feedback, added, replaced, crashed>>

\* A subscriber asks for a key frame.
Feedback(c) ==
  /\ c \in added /\ feedback < MaxFeedback /\ feedback' = feedback + 1
  /\ Post(WorkerOf[c], Job("feedback", c))
  /\ UNCHANGED <<source, publisher, pubOpen, sink, subscribers, fbSink, closed, monitor, api, calls,
                 job, key, owed, packets, added, replaced, crashed>>

-----------------------------------------------------------------------------
(* The workers.                                                            *)

Begin(t) ==
  /\ job[t] = NoJob /\ queue[t] # <<>>
  /\ job' = [job EXCEPT ![t] = Head(queue[t])]
  /\ queue' = [queue EXCEPT ![t] = Tail(@)]
  /\ UNCHANGED <<source, publisher, pubOpen, sink, subscribers, fbSink, closed, monitor, api, calls,
                 media, added, replaced, crashed>>

Runs(t, do, at) == job[t].do = do /\ job[t].at = at
End(t) == job' = [job EXCEPT ![t] = NoJob]
Outside == UNCHANGED <<source, publisher, sink, subscribers, api, calls, queue, added, replaced,
                       packets, feedback>>

\* deleteAsync's task
RunClose(t) ==
  /\ job[t].do \in {"close", "pubclose"} /\ End(t)
  /\ closed' = closed \cup ({job[t].who} \ {None})
  /\ fbSink' = fbSink \ {job[t].who}
  /\ pubOpen' = (pubOpen /\ job[t].do # "pubclose")
  /\ Outside /\ UNCHANGED <<monitor, key, owed, crashed>>

\* SyntheticInput's tick: whether the frame is a key frame is read first and the
\* request taken back later.
RunTick(t) ==
  /\ Runs(t, "tick", "start")
  /\ job' = [job EXCEPT ![t].at = "frame", ![t].key = key]
  /\ Outside /\ UNCHANGED <<fbSink, closed, pubOpen, monitor, key, owed, crashed>>

\* sendVideoframe
RunFrame(t) ==
  /\ Runs(t, "tick", "frame")
  /\ job' = [job EXCEPT ![t].do = "video", ![t].at = "start"]
  /\ key' = (key /\ ~job[t].key)
  /\ Outside /\ UNCHANGED <<fbSink, closed, pubOpen, monitor, owed, crashed>>

\* deliverVideoData_ takes the lock; a connection that closed delivers nothing.
RunVideo(t) ==
  /\ Runs(t, "video", "start")
  /\ IF (source = "webrtc" /\ ~pubOpen)
     THEN End(t) /\ UNCHANGED <<monitor, owed>>
     ELSE /\ monitor = None
          /\ owed' = (owed /\ ~job[t].key)
          /\ IF Subscribed = {} THEN End(t) /\ UNCHANGED monitor
             ELSE /\ monitor' = t
                  /\ job' = [job EXCEPT ![t].at = "deliver", ![t].rest = Subscribed]
  /\ Outside /\ UNCHANGED <<fbSink, closed, pubOpen, key, crashed>>

\* The subscribers get the packet one after the other.
RunDeliver(t) ==
  /\ Runs(t, "video", "deliver")
  /\ \E p \in job[t].rest :
       IF job[t].rest = {p} THEN End(t) /\ monitor' = None
       ELSE job' = [job EXCEPT ![t].rest = @ \ {p}] /\ UNCHANGED monitor
  /\ Outside /\ UNCHANGED <<fbSink, closed, pubOpen, key, owed, crashed>>

\* deliverFeedback_ tests feedbackSink_ without the lock ...
RunFeedback(t) ==
  /\ Runs(t, "feedback", "start")
  /\ IF job[t].who \in fbSink /\ sink THEN job' = [job EXCEPT ![t].at = "call"] ELSE End(t)
  /\ Outside /\ UNCHANGED <<fbSink, closed, pubOpen, monitor, key, owed, crashed>>

\* ... and then calls it: closeAll may have set it to null meanwhile.
RunFeedbackCall(t) ==
  /\ Runs(t, "feedback", "call") /\ End(t)
  /\ crashed' = ~sink
  /\ key' = (key \/ sink) /\ owed' = (owed \/ (sink /\ source = "synthetic"))
  /\ Outside /\ UNCHANGED <<fbSink, closed, pubOpen, monitor>>

Work(t) ==
  \/ Begin(t) \/ RunClose(t) \/ RunTick(t) \/ RunFrame(t) \/ RunVideo(t) \/ RunDeliver(t)
  \/ RunFeedback(t) \/ RunFeedbackCall(t)

Close == PublisherClosed \/ LockAll \/ CloseNext \/ SubscriberClosed

Next ==
  /\ ~crashed
  /\ \/ \E c \in Conns, p \in Peers : AddSubscriber(c, p)
     \/ \E p \in Peers : RemoveSubscriber(p)
     \/ CloseAll \/ Close
     \/ Packet
     \/ \E c \in Conns : Feedback(c)
     \/ \E t \in Threads : Work(t)

Spec == Init /\ [][Next]_vars

\* Threads go on when they can.
Fairness == WF_vars(~crashed /\ Close) /\ \A t \in Threads : WF_vars(~crashed /\ Work(t))
FairSpec == Spec /\ Fairness

-----------------------------------------------------------------------------
(* Properties.                                                             *)

\* No packet is handed to a connection that was closed, although subscribers are
\* closed on other threads than those that deliver (OneToManyProcessor.cpp:58).
NoneToClosed ==
  \A t \in Threads : Runs(t, "video", "deliver") =>
    \A p \in job[t].rest : subscribers[p] # None /\ subscribers[p] \notin closed

\* A request for a key frame stands until a key frame went out after it, however
\* it falls between the reading of the flag and its reset (SyntheticInput.cpp:89).
KeyframeOwed ==
  owed => key \/ \E t \in Threads : job[t].key /\ job[t].at # "deliver"

\* When closeAll returns, every connection that was ever subscribed is closed or
\* about to be, but for those another took the place of
\* (OneToManyProcessor.cpp:95).
AllClosed ==
  api = "done" => \A c \in added \ (closed \cup replaced) :
    \E t \in Threads : job[t] = Job("close", c) \/ Job("close", c) \in SX!ToSet(queue[t])

\* The three together: what the processor keeps of its subscribers.
Distributed == NoneToClosed /\ KeyframeOwed /\ AllClosed

\* closeAll returns, although it waits for workers with the lock held, unless a
\* SyntheticInput ticks on the worker of a subscriber: the worker then waits for
\* the lock (OneToManyProcessor.cpp:140).
SharesWorker == source = "synthetic" /\ \E c \in added : WorkerOf[c] = PubWorker
CloseEnds == (api = "publisher" \/ api = "lock") ~> (api = "done" \/ crashed \/ SharesWorker)
=============================================================================
