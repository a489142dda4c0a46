---------------------------- MODULE ExternalInput ----------------------------
(***************************************************************************)
(* A file or RTSP stream as a source (media/ExternalInput.cpp): init opens *)
(* it and starts the thread that reads it, and one that encodes if its     *)
(* video is not VP8; the destructor stops both.  VP8 goes out as it is     *)
(* read, cut into fragments (media/MediaProcessor.cpp,                     *)
(* rtp/RtpVP8Fragmenter.cpp).  Other video is decoded into one buffer, and *)
(* what is queued for the encoder is a pointer to that buffer: the encoder *)
(* takes whatever frame is in it by then.                                  *)
(***************************************************************************)
EXTENDS Integers, Sequences, FiniteSets

CONSTANTS MaxRead,     \* bound on the packets of the stream
          MaxSize,     \* bound on the size of a frame
          Part,        \* MAX_SIZE - 1 of the fragmenter
          SeqMod       \* the numbers of RTP packets, 2^16

Sensible == MaxRead \in Nat /\ MaxSize \in Nat /\ Part \in Nat \ {0} /\ SeqMod \in Nat \ {0}

VARIABLES
  vp8,       \* ~needTranscoding_
  phase,     \* how far the owner is
  running,   \* running_
  reader,    \* the thread of receiveLoop
  encoder,   \* the thread of encodeLoop
  read,      \* the packets read
  buffer,    \* the frame in decodedBuffer_
  queue,     \* packetQueue_, each entry as the frame it was pushed for
  sent,      \* the frames packed so far: which, and of what size
  seqnum,    \* seqnum_ and audioSeqnum_
  out        \* the packets for the sinks

threads == <<running, reader, encoder>>
packer  == <<sent, seqnum, out>>
vars    == <<vp8, phase, threads, read, buffer, queue, packer>>

Medium == {"video", "audio"}
Packet ==
  [m : Medium, of : Nat, num : 0..(SeqMod - 1), first : BOOLEAN, last : BOOLEAN, size : Nat]

TypeOK ==
  /\ vp8 \in BOOLEAN /\ running \in BOOLEAN
  /\ phase \in {"new", "started", "open", "closing", "gone"}
  /\ reader \in {"no", "loop", "over"} /\ encoder \in {"no", "loop", "over"}
  /\ read \in 0..MaxRead /\ buffer \in 0..MaxRead /\ queue \in Seq(1..MaxRead)
  /\ \A i \in DOMAIN sent : sent[i] \in [asked : 1..MaxRead, frame : 1..MaxRead, size : 0..MaxSize]
  /\ seqnum \in [Medium -> Nat]
  /\ \A i \in DOMAIN out : out[i] \in Packet

Init ==
  /\ vp8 \in BOOLEAN
  /\ phase = "new" /\ running = FALSE /\ reader = "no" /\ encoder = "no"
  /\ read = 0 /\ buffer = 0 /\ queue = <<>>
  /\ sent = <<>> /\ seqnum = [m \in Medium |-> 0] /\ out = <<>>

-----------------------------------------------------------------------------
(* The owner.                                                              *)

\* init opens the stream and starts the reader before running_ is set.
InitStart ==
  /\ phase = "new"
  /\ phase' = "started" /\ reader' = "loop"
  /\ UNCHANGED <<vp8, running, encoder, read, buffer, queue, packer>>

InitEnd ==
  /\ phase = "started"
  /\ phase' = "open" /\ running' = TRUE
  /\ encoder' = IF vp8 THEN encoder ELSE "loop"
  /\ UNCHANGED <<vp8, reader, read, buffer, queue, packer>>

\* The destructor: running_ down, then both threads are joined.
Close ==
  /\ phase = "open"
  /\ phase' = "closing" /\ running' = FALSE
  /\ UNCHANGED <<vp8, reader, encoder, read, buffer, queue, packer>>

CloseJoin ==
  /\ phase = "closing" /\ reader = "over" /\ (vp8 \/ encoder = "over")
  /\ phase' = "gone"
  /\ UNCHANGED <<vp8, threads, read, buffer, queue, packer>>

-----------------------------------------------------------------------------
(* The fragments of a frame.                                               *)

\* RtpVP8Fragmenter::calculatePackets: full fragments, then what remains.
Remaining(size, i) == size - (i - 1) * Part

Cut(size) ==
  [i \in 1..((size + Part - 1) \div Part) |->
     IF Remaining(size, i) > Part THEN Part ELSE Remaining(size, i)]

\* RtpVP8Fragmenter::writeFragment: the bit of the descriptor that begins a frame.
WriteFragment(i) == i = 1

\* RtpVP8Fragmenter::getPacket: the fragment that leaves the queue empty is the last.
GetPacket(cut, i) == i = Len(cut)

\* OutputProcessor::packageVideo of frame k: the fragments under the next numbers,
\* the marker on the last.
Fragments(k, cut) ==
  [i \in DOMAIN cut |->
     [m |-> "video", of |-> k, num |-> (seqnum["video"] + i - 1) % SeqMod,
      first |-> WriteFragment(i), last |-> GetPacket(cut, i), size |-> cut[i]]]

Pack(k, size) ==
  /\ out' = out \o Fragments(k, Cut(size))
  /\ seqnum' = [seqnum EXCEPT !["video"] = @ + Len(Cut(size))]

\* A frame that goes out; an empty one does not.
Package(asked, frame, size) ==
  IF size = 0 THEN UNCHANGED packer
  ELSE /\ sent' = Append(sent, [asked |-> asked, frame |-> frame, size |-> size])
       /\ Pack(Len(sent'), size)

\* packageAudio and the audio sink.
PackageAudio ==
  /\ out' = Append(out, [m |-> "audio", of |-> read', num |-> seqnum["audio"] % SeqMod,
                         first |-> FALSE, last |-> TRUE, size |-> 1])
  /\ seqnum' = [seqnum EXCEPT !["audio"] = @ + 1]
  /\ UNCHANGED sent

-----------------------------------------------------------------------------
(* The threads.                                                            *)

\* A packet of the stream while running_.  Audio is not transcoded: it is
\* dropped with video that is.
Read ==
  /\ reader = "loop" /\ running /\ read < MaxRead
  /\ read' = read + 1
  /\ \/ vp8 /\ (\E size \in 0..MaxSize : Package(read', read', size))
        /\ UNCHANGED <<buffer, queue>>
     \/ vp8 /\ PackageAudio /\ UNCHANGED <<buffer, queue>>
     \/ ~vp8 /\ buffer' = read' /\ queue' = Append(queue, read') /\ UNCHANGED packer
     \/ ~vp8 /\ UNCHANGED <<buffer, queue, packer>>
  /\ UNCHANGED <<vp8, phase, threads>>

\* The stream ends, or running_ is not set, or not yet: either way the reader
\* takes it down.
ReadEnd ==
  /\ reader = "loop" /\ reader' = "over" /\ running' = FALSE
  /\ UNCHANGED <<vp8, phase, encoder, read, buffer, queue, packer>>

\* encodeLoop: the front of the queue under the mutex, which keeps the reader
\* from pushing and not from decoding.
Encode ==
  /\ encoder = "loop" /\ running /\ queue # <<>>
  /\ \E size \in 0..MaxSize : Package(Head(queue), buffer, size)
  /\ queue' = Tail(queue)
  /\ UNCHANGED <<vp8, phase, threads, read, buffer>>

EncodeEnd ==
  /\ encoder = "loop" /\ ~running /\ encoder' = "over"
  /\ UNCHANGED <<vp8, phase, running, reader, read, buffer, queue, packer>>

Next ==
  \/ InitStart \/ InitEnd \/ Close \/ CloseJoin
  \/ Read \/ ReadEnd \/ Encode \/ EncodeEnd

Spec == Init /\ [][Next]_vars

Threads == ReadEnd \/ EncodeEnd \/ Encode \/ CloseJoin

-----------------------------------------------------------------------------
(* Properties.                                                             *)

\* The packets of each medium are numbered one after the other
\* (MediaProcessor.cpp:492).
NumbersFollow ==
  \A i \in DOMAIN out :
    out[i].num = Cardinality({j \in 1..(i - 1) : out[j].m = out[i].m}) % SeqMod

\* Where the fragments of a frame are.
Parts(k) == {i \in DOMAIN out : out[i].m = "video" /\ out[i].of = k}

\* A receiver can put each frame together: its fragments are the frame, all but
\* the last are full, none is empty or too long, and one begins it and one ends
\* it (RtpVP8Fragmenter.cpp:34).
Whole(k) ==
  /\ Parts(k) # {}
  /\ \A i \in Parts(k) :
       /\ out[i].size \in 1..Part
       /\ out[i].first = (\A j \in Parts(k) : i <= j)
       /\ out[i].last = (\A j \in Parts(k) : j <= i)
       /\ IF out[i].last THEN (Cardinality(Parts(k)) - 1) * Part + out[i].size = sent[k].size
          ELSE out[i].size = Part

FramesWhole == \A k \in DOMAIN sent : Whole(k)

\* No frame goes out of turn, and none that is older than the one asked for:
\* the shared buffer only skips ahead (ExternalInput.cpp:187).
FramesForward ==
  /\ \A i, j \in DOMAIN sent : i < j => sent[i].frame <= sent[j].frame /\ sent[i].asked < sent[j].asked
  /\ \A i \in DOMAIN sent : sent[i].asked <= sent[i].frame

\* Together, and nothing is left running after the destructor.
Sound ==
  /\ NumbersFollow /\ FramesWhole /\ FramesForward
  /\ phase = "gone" => reader = "over" /\ encoder # "loop"

\* The destructor returns.
CloseEnds == (phase = "closing") ~> (phase = "gone")
=============================================================================
