----------------------------- MODULE MCSession -----------------------------
(* A session, as instances for TLC: in a behaviour one part runs, and the    *)
(* others are in one initial state.                                         *)
EXTENDS Session, TLC

VARIABLE part

Conf(bundle, mux, offer, nicer, trickle, media) ==
  [bundle |-> bundle, mux |-> mux, offer |-> offer, nicer |-> nicer,
   trickle |-> trickle, media |-> media]

\* A bundle over libnice, which offers one component or answers with RTCP on a
\* component of its own, and two transports over nICEr.
SomeConfs ==
  {Conf(TRUE, offer, offer, FALSE, FALSE, {"video"}) : offer \in BOOLEAN}
  \cup {Conf(FALSE, TRUE, FALSE, TRUE, FALSE, {"video", "audio"})}

\* A handler of each direction.
SomeDirs == "a" :> "IN" @@ "b" :> "OUT" @@ "c" :> "BOTH"

Mapping(pt, codec, medium, fb, params, apt) ==
  [pt |-> pt, codec |-> codec, media |-> medium, fb |-> fb, params |-> params, apt |-> apt]

\* Three of the codecs of rtp_mappings; the peer numbers them otherwise.
SomeMappings ==
  <<Mapping(100, "VP8", "video", {"nack"}, {"a"}, 0),
    Mapping(0, "PCMU", "audio", {}, {}, 0),
    Mapping(101, "rtx", "video", {}, {}, 100)>>
SomeCodecs == 1 :> "VP8" @@ 2 :> "rtx" @@ 3 :> "H264" @@ 4 :> "PCMU"
SomeScenes ==
  {{"m", "group", "ice"}, {"m", "ice", "offer"}, {"m", "dir", "offer"}, {"m", "codec"},
   {"m", "ssrc"}}

\* Two subscribers, one on the publisher's worker.
TwoWorkers == "c1" :> "w1" @@ "c2" :> "w2"

MCInit ==
  /\ part \in {"conn", "pipe", "sdp", "dist"}
  /\ SessionInit
  /\ part # "conn" => conf = Conf(TRUE, FALSE, FALSE, FALSE, FALSE, {"video"})
  /\ part # "sdp" => scene = {"m", "ssrc"}
  /\ part # "dist" => source = "webrtc"

MCNext ==
  /\ UNCHANGED part
  /\ \/ part = "conn" /\ ConnStep
     \/ part = "pipe" /\ PipeStep
     \/ part = "sdp" /\ SdpStep
     \/ part = "dist" /\ DistStep

MCSpec == MCInit /\ [][MCNext]_<<part, sessionVars>>
=============================================================================
