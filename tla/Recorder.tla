------------------------------ MODULE Recorder ------------------------------
(***************************************************************************)
(* The recorder (media/ExternalOutput.cpp): the worker that brings video   *)
(* packets puts them into a reordering queue (rtp/RtpPacketQueue.cpp); a   *)
(* thread of its own takes them out once the queue is deep enough, puts    *)
(* frames together and writes them.  Audio counts only in that nothing can *)
(* be written before its codec is known.                                   *)
(***************************************************************************)
EXTENDS Integers, Sequences, FiniteSets

LOCAL SX == INSTANCE SequencesExt

CONSTANTS Frames,     \* the packets of each frame sent
          M, Start,   \* numbers are modulo M and begin with Start
          Depth, MaxDepth,  \* depthInSeconds_, maxDepthInSeconds_, in frames
          BufSize,    \* UNPACKAGE_BUFFER_SIZE, in packets
          Distance,   \* bound on how far a packet is overtaken
          MaxDups     \* bound on packets that come twice

Sensible ==
  /\ Frames \in Seq(Nat \ {0}) /\ M \in Nat /\ M % 2 = 0 /\ Start \in 0..(M - 1)
  /\ Depth \in Nat /\ MaxDepth \in Nat /\ Depth < MaxDepth
  /\ BufSize \in Nat /\ Distance \in Nat /\ MaxDups \in Nat

Total(n) == SX!FoldLeft(LAMBDA a, b : a + b, 0, SubSeq(Frames, 1, n))
Packet   == 1..Total(Len(Frames))
FrameOf(u) == CHOOSE f \in DOMAIN Frames : Total(f - 1) < u /\ u <= Total(f)
Begins(u)  == u = Total(FrameOf(u) - 1) + 1      \* beginningOfPartition
Ends(u)    == u = Total(FrameOf(u))              \* the marker
No(u)      == (Start + u) % M
None       == 0

VARIABLES
  came, dups,   \* packets that came, and how many twice
  recording,    \* recording_
  queue,        \* videoQueue_, the newest first
  last,         \* lastSequenceNumberGiven_, -1 before the first
  push,         \* the packet the worker found in time and has yet to insert
  pc,           \* where the thread is
  woken,        \* a notification met the waiting thread
  audio,        \* "absent", "expected" or "known"
  search,       \* vp8SearchState_
  buf,          \* what is in unpackagedBuffer_
  lastVideo,    \* lastVideoSequenceNumber_, any value before the first
  stream,       \* video_stream_ exists: the context is initialised
  written,      \* frames written
  popped,       \* packets taken out, for the properties
  fir, sink     \* a FIR is "needed", "sent" or "lost"; fb_sink_ is set

input == <<came, dups, push>>
frame == <<search, buf, lastVideo, stream, written, audio>>
vars == <<input, recording, queue, last, pc, woken, frame, popped, fir, sink>>

TypeOK ==
  /\ came \subseteq Packet /\ dups \in 0..MaxDups /\ recording \in BOOLEAN
  /\ SX!ToSet(queue) \subseteq Packet /\ last \in -1..(M - 1) /\ push \in Packet \cup {None}
  /\ pc \in {"test", "lock", "wait", "audio", "has", "pop", "drain", "done", "crashed"}
  /\ woken \in BOOLEAN /\ audio \in {"absent", "expected", "known"}
  /\ search \in {"lookingForStart", "lookingForEnd"} /\ Len(buf) < BufSize
  /\ stream \in BOOLEAN /\ fir \in {"needed", "sent", "lost"} /\ sink \in BOOLEAN

Init ==
  /\ came = {} /\ dups = 0 /\ recording = TRUE /\ queue = <<>> /\ last = -1 /\ push = None
  /\ pc = "test" /\ woken = FALSE /\ audio \in {"absent", "expected"}
  /\ search = "lookingForStart" /\ buf = <<>> /\ lastVideo = No(0) /\ stream = FALSE
  /\ written = <<>> /\ popped = <<>> /\ fir = "needed" /\ sink \in BOOLEAN

-----------------------------------------------------------------------------
(* RtpPacketQueue.                                                         *)

\* rtpSequenceLessThan
Less(x, y) ==
  LET diff == y - x IN IF diff > 0 THEN diff < M \div 2 ELSE diff < -(M \div 2)

\* getDepthInSeconds; each frame has the timestamp of its place.
DepthOf(q) == IF Len(q) > 1 THEN FrameOf(q[1]) - FrameOf(q[Len(q)]) ELSE 0
HasData(q) == DepthOf(q) > Depth

\* "this sequence number is less than the stuff we've already handed out"
TooLate(u) == last >= 0 /\ (Less(No(u), last) \/ No(u) = last)

\* Before the first that is older, unless one of the same number is met.
Inserted(q, u) ==
  LET met == {i \in DOMAIN q : Less(No(q[i]), No(u)) \/ No(q[i]) = No(u)}
      i   == IF met = {} THEN Len(q) + 1 ELSE CHOOSE j \in met : \A k \in met : j <= k
  IN IF i <= Len(q) /\ No(q[i]) = No(u) THEN q
     ELSE SubSeq(q, 1, i - 1) \o <<u>> \o SubSeq(q, i, Len(q))

\* "Enforce our max queue size": the oldest go, as many as it takes.
Trimmed(q) ==
  LET fits == {n \in DOMAIN q : DepthOf(SubSeq(q, 1, n)) <= MaxDepth}
  IN IF q = <<>> THEN q ELSE SubSeq(q, 1, CHOOSE n \in fits : \A k \in fits : k <= n)

-----------------------------------------------------------------------------
(* The worker: deliverVideoData_, queueData.                               *)

\* cond_.notify_one, without the mutex: only a thread that waits hears it.
Notify == woken' = (woken \/ pc = "wait")

\* A packet comes, from the network or from the FEC receiver: the test at the
\* head of pushPacket reads lastSequenceNumberGiven_ without the lock.
Arrive(u) ==
  /\ recording /\ push = None
  /\ \A v \in came : v <= u + Distance
  /\ IF u \in came THEN dups < MaxDups /\ dups' = dups + 1 ELSE UNCHANGED dups
  /\ came' = came \cup {u}
  /\ fir' = IF fir = "needed" THEN (IF sink THEN "sent" ELSE "lost") ELSE fir
  /\ IF TooLate(u)
     THEN UNCHANGED push /\ IF HasData(queue) THEN Notify ELSE UNCHANGED woken
     ELSE push' = u /\ UNCHANGED woken
  /\ UNCHANGED <<recording, queue, last, pc, frame, popped, sink>>

\* The rest of pushPacket, and queueData's notification.
Insert ==
  /\ push # None
  /\ queue' = Trimmed(Inserted(queue, push))
  /\ push' = None
  /\ IF HasData(queue') THEN Notify ELSE UNCHANGED woken
  /\ UNCHANGED <<came, dups, recording, last, pc, frame, popped, fir, sink>>

\* setFeedbackSink
SetFeedbackSink ==
  /\ ~sink /\ sink' = TRUE
  /\ UNCHANGED <<input, recording, queue, last, pc, woken, frame, popped, fir>>

\* close, up to the join
Close ==
  /\ recording /\ recording' = FALSE
  /\ Notify
  /\ UNCHANGED <<input, queue, last, pc, frame, popped, fir, sink>>

-----------------------------------------------------------------------------
(* The thread: sendLoop.                                                   *)

Goto(from, to) == pc = from /\ pc' = to
Stays == UNCHANGED <<input, recording, fir, sink>>

\* while (recording_)
Test ==
  /\ Goto("test", IF recording THEN "lock" ELSE "drain")
  /\ UNCHANGED <<queue, last, woken, frame, popped>> /\ Stays

\* The lock is taken and cond_.wait begins: what was notified since the test,
\* by close as well, was notified to nobody.
Wait ==
  /\ Goto("lock", "wait")
  /\ UNCHANGED <<queue, last, woken, frame, popped>> /\ Stays

\* cond_.wait returns.
Wake ==
  /\ woken /\ Goto("wait", "audio")
  /\ woken' = FALSE
  /\ UNCHANGED <<queue, last, frame, popped>> /\ Stays

\* The audio that is due; its first packet tells the codec, and initContext
\* makes the streams.
WriteAudio ==
  /\ Goto("audio", "has")
  /\ audio' \in {audio} \cup (IF audio = "expected" THEN {"known"} ELSE {})
  /\ stream' = (stream \/ audio' = "known")
  /\ UNCHANGED <<queue, last, woken, search, buf, lastVideo, written, popped>> /\ Stays

\* while (videoQueue_.hasData())
Has ==
  /\ Goto("has", IF HasData(queue) THEN "pop" ELSE "test")
  /\ UNCHANGED <<queue, last, woken, frame, popped>> /\ Stays

\* The state of the search, its buffer and whether a frame is complete.
Found(s, b, deliver) == [search |-> s, buf |-> b, deliver |-> deliver]
LookFor(s) == Found(s, <<>>, FALSE)

\* A payload is added as long as there is room; else all is dropped.
Added(s, b, u, deliver) ==
  IF Len(b) + 1 >= BufSize THEN LookFor("lookingForStart")
  ELSE Found(s, Append(b, u), deliver)

\* As if the numbers of packets did not matter.
Assemble_any(u) ==
  CASE Begins(u) /\ Ends(u)   -> Added("lookingForStart", <<>>, u, TRUE)
    [] Begins(u) /\ ~Ends(u)  -> Added("lookingForEnd", IF search = "lookingForEnd" THEN <<>> ELSE buf, u, FALSE)
    [] ~Begins(u) /\ search = "lookingForStart" -> LookFor("lookingForStart")
    [] ~Begins(u) /\ search = "lookingForEnd" ->
         IF Ends(u) THEN Added("lookingForStart", buf, u, TRUE) ELSE Added("lookingForEnd", buf, u, FALSE)

\* writeVideoData.  After a number that is not the next, as int arithmetic has
\* it, the search starts anew; a frame found before there is a stream to write
\* it to stays in the buffer, and the next begins behind it.
Assemble(u) ==
  LET next == No(u) = lastVideo + 1
      s == IF next THEN search ELSE "lookingForStart"
      b == IF next THEN buf ELSE <<>>
  IN CASE Begins(u) /\ Ends(u)  -> Added("lookingForStart", <<>>, u, TRUE)
       [] Begins(u) /\ ~Ends(u) -> Added("lookingForEnd", IF s = "lookingForEnd" THEN <<>> ELSE b, u, FALSE)
       [] ~Begins(u) /\ s = "lookingForStart" -> LookFor(s)
       [] ~Begins(u) /\ s = "lookingForEnd" ->
            IF Ends(u) THEN Added("lookingForStart", b, u, TRUE) ELSE Added(s, b, u, FALSE)

WriteVideo(u) ==
  /\ lastVideo' = No(u)
  /\ stream' = (stream \/ audio # "expected")
  /\ LET r == Assemble(u) IN
       /\ search' = r.search
       /\ buf' = IF r.deliver /\ stream' THEN <<>> ELSE r.buf
       /\ written' = IF r.deliver /\ stream' THEN Append(written, r.buf) ELSE written
  /\ UNCHANGED audio

\* popPacket.  When the worker shortened the queue since hasData, there may be
\* none, and what the thread reads is behind a null pointer.
Pop ==
  /\ pc = "pop"
  /\ IF HasData(queue)
     THEN LET u == queue[Len(queue)] IN
          /\ pc' = "has" /\ queue' = SubSeq(queue, 1, Len(queue) - 1)
          /\ last' = No(u) /\ popped' = Append(popped, u)
          /\ WriteVideo(u)
     ELSE pc' = "crashed" /\ UNCHANGED <<queue, last, popped, frame>>
  /\ UNCHANGED woken /\ Stays

\* "completely drain our queues of all data"
Drain ==
  /\ pc = "drain"
  /\ IF queue = <<>>
     THEN pc' = "done" /\ UNCHANGED <<queue, last, popped, frame>>
     ELSE LET u == queue[Len(queue)] IN
          /\ pc' = pc /\ queue' = SubSeq(queue, 1, Len(queue) - 1)
          /\ last' = No(u) /\ popped' = Append(popped, u)
          /\ WriteVideo(u)
  /\ UNCHANGED woken /\ Stays

Next ==
  \/ \E u \in Packet : Arrive(u)
  \/ Insert \/ SetFeedbackSink \/ Close
  \/ Test \/ Wait \/ Wake \/ WriteAudio \/ Has \/ Pop \/ Drain

Spec == Init /\ [][Next]_vars

-----------------------------------------------------------------------------
(* Properties.                                                             *)

IsFrame(s) ==
  /\ s # <<>> /\ Begins(s[1]) /\ Ends(s[Len(s)])
  /\ \A i \in 1..(Len(s) - 1) : s[i + 1] = s[i] + 1 /\ ~Ends(s[i])

\* What is written is a frame with all its packets in order, whatever was lost,
\* overtaken or came twice.  Only the first to be written may have complete
\* frames before it, found while there was nothing to write to
\* (ExternalOutput.cpp:304).
FramesWhole ==
  \A i \in DOMAIN written :
    LET w == written[i] IN
    \E n \in DOMAIN w :
      /\ IsFrame(SubSeq(w, n, Len(w)))
      /\ n > 1 => i = 1 /\ \A j \in 1..(n - 1) :
                    \E a \in 1..j, b \in j..(n - 1) : IsFrame(SubSeq(w, a, b))

\* The queue is in order, has each number once and is not too deep, although
\* packets go in and out on two threads.
QueueInOrder ==
  /\ \A i, j \in DOMAIN queue : i < j => Less(No(queue[j]), No(queue[i]))
  /\ DepthOf(queue) <= MaxDepth

\* The two together: what the recorder keeps in order.
Recorded == FramesWhole /\ QueueInOrder

\* "Handles late packets.  Packets with sequence number greater than the last
\* sequence number handed out through popPacket are discarded" and "Is
\* threadsafe" (RtpPacketQueue.h:25, 28): each packet handed out is later than the
\* one before.
LateDiscarded == \A i \in 2..Len(popped) : popped[i] > popped[i - 1]
=============================================================================
