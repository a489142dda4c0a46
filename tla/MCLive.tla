------------------------------- MODULE MCLive -------------------------------
(* What must happen in the end in an erizo session, as instances for TLC: a  *)
(* behaviour is one of the parts of Endpoints, of a connection, of the  *)
(* distribution of what is published, or of the requests for key frames.    *)
EXTENDS Endpoints, TLC

VARIABLES
  part,
  conf, tr, global, connSending, listening, notified, pipe, connTasks, connPhase, clear,
  held, connCrashed,
  source, publisher, pubOpen, sink, subscribers, fbSink, distClosed, monitor, api,
  distCalls, distQueue, distJob, key, owed, added, replaced, packets, feedback,
  distCrashed,
  scene, kind, net, repeats, got, nack, asked, rr, uTr, up, pli

connVars ==
  <<conf, tr, global, connSending, listening, notified, pipe, connTasks, connPhase, clear,
    held, connCrashed>>
distVars ==
  <<source, publisher, pubOpen, sink, subscribers, fbSink, distClosed, monitor, api,
    distCalls, distQueue, distJob, key, owed, added, replaced, packets, feedback,
    distCrashed>>
upVars == <<scene, kind, net, repeats, got, nack, asked, rr, uTr, up, pli>>
allVars == <<part, endVars, connVars, distVars, upVars>>

\* What the peer sends is not all passed on.
SomeRemotes == {[port |-> TRUE, comp |-> 1, media |-> "audio"],
                [port |-> TRUE, comp |-> 2, media |-> "video"]}

\* The rates of the layers all differ.
SomeRates == [n \in Layers \X (0..Top) |-> 2 * n[1] + n[2] + 1]

\* One transport, over libnice or nICEr, on either side of the offer.
Conn == INSTANCE Connection WITH
  MaxResends <- 1, MaxPackets <- 1, crashed <- connCrashed,
  sending <- connSending, tasks <- connTasks, phase <- connPhase,
  Confs <- {[bundle |-> TRUE, mux |-> TRUE, offer |-> offer, nicer |-> nicer,
             trickle |-> TRUE, media |-> {"video"}] : offer, nicer \in BOOLEAN}

Dist == INSTANCE OneToMany WITH
  Conns <- {"c1", "c2"}, Peers <- {"p", "q"}, Workers <- {"w1", "w2"},
  WorkerOf <- "c1" :> "w1" @@ "c2" :> "w2", PubWorker <- "w1",
  Sources <- {"webrtc", "external", "synthetic"},
  MaxPackets <- 1, MaxCalls <- 2, MaxFeedback <- 1,
  closed <- distClosed, calls <- distCalls, queue <- distQueue, job <- distJob,
  crashed <- distCrashed

\* PLIs only.
Up == INSTANCE RtpUpstream WITH
  M <- 32, Buf <- 4, Ahead <- 12, Distance <- 3, Start <- 30, MaxPackets <- 0,
  MaxRepeats <- 0, MaxRetransmits <- 2, MaxNacks <- 2, BlpSize <- 2,
  KeyTimeout <- 2, Scenes <- {{"pli"}}, tr <- uTr

ASSUME DistSensible == Dist!Sensible
ASSUME UpSensible == Up!Sensible

\* The parts that do not run are in one initial state.
MCInit ==
  /\ part \in {"conn", "dist", "nicer", "nice", "input", "quality", "up"}
  /\ EndInit /\ Conn!Init /\ Dist!Init /\ Up!Init
  /\ part # "conn" => conf.offer /\ conf.nicer
  /\ part # "dist" => source = "webrtc"
  /\ part # "nice" => bundle
  /\ part # "input" => vp8
  /\ part # "quality" => vp9

MCNext ==
  /\ UNCHANGED part
  /\ \/ part = "nicer" /\ NicerStep /\ UNCHANGED <<connVars, distVars, upVars>>
     \/ part = "nice" /\ NiceStep /\ UNCHANGED <<connVars, distVars, upVars>>
     \/ part = "input" /\ InputStep /\ UNCHANGED <<connVars, distVars, upVars>>
     \/ part = "quality" /\ QualityStep /\ UNCHANGED <<connVars, distVars, upVars>>
     \/ part = "conn" /\ Conn!Next /\ UNCHANGED <<endVars, distVars, upVars>>
     \/ part = "dist" /\ Dist!Next /\ UNCHANGED <<endVars, connVars, upVars>>
     \/ part = "up" /\ Up!Next /\ UNCHANGED <<endVars, connVars, distVars>>

\* The fairness of each part, stated for when it runs.
ConnFair ==
  /\ WF_connVars(part = "conn" /\ Conn!Worker /\ connCrashed = "no")
  /\ SF_connVars(part = "conn" /\ Conn!SomeResend /\ connCrashed = "no")

DistFair ==
  /\ WF_distVars(part = "dist" /\ ~distCrashed /\ Dist!Close)
  /\ \A t \in {"w1", "w2", "ext"} :
       WF_distVars(part = "dist" /\ ~distCrashed /\ Dist!Work(t))

NicerFair ==
  WF_nicerVars(part = "nicer" /\ crashed = "no" /\ (IoWorker \/ \E c \in Callers : Progress(c)))

InputFair ==
  WF_inputVars(part = "input" /\ (Input!ReadEnd \/ Input!EncodeEnd \/ Input!CloseJoin))

QualityFair ==
  /\ WF_qualityVars(part = "quality" /\ Quality!SomeWrite)
  /\ WF_qualityVars(part = "quality" /\ Quality!TenSeconds)

UpFair == WF_upVars(part = "up" /\ Up!PliTimer)

MCSpec ==
  /\ MCInit /\ [][MCNext]_allVars
  /\ ConnFair /\ DistFair /\ NicerFair /\ InputFair /\ QualityFair /\ UpFair

(* The properties of the parts, besides those of Endpoints.                *)

\* No handshake of DTLS and no failure of ICE is left hanging.
FailuresEnd == Conn!FailuresEnd
\* A request for a key frame ends with one or with a FIR.
KeyframeOrFir == Up!KeyframeOrFir
\* In the end the quality is the best that fits.
Settles == Quality!Settles
\* closeAll, the calls of an ICE connection and the destructor of an input return.
CallsEnd == Dist!CloseEnds /\ CallsReturn /\ Input!CloseEnds
=============================================================================
