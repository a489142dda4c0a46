------------------------------- MODULE MCRtp -------------------------------
(* What happens to packets between a publisher and a viewer, as instances   *)
(* for TLC: a behaviour is one of the way down, of the way up, of the       *)
(* recorder, of the estimation of bandwidth or of a rate.                   *)
EXTENDS RtpDownstream

VARIABLES
  way,
  upScene, kind, net, repeats, got, nack, asked, rr, tr, up, pli,
  recCame, dups, recording, recQueue, recLast, push, pc, woken, audio, search,
  recBuf, lastVideo, stream, written, popped, fir, sink,
  fbScene, now, limit, cap, notified, fbInitialized, running, active, absolute,
  since, arrived, bitrate, lastSent, lastRemb, remb, updates,
  clock, initialized, sample, current, accumulated, windowEnd, added, paused

upVars == <<upScene, kind, net, repeats, got, nack, asked, rr, tr, up, pli>>
recVars ==
  <<recCame, dups, recording, recQueue, recLast, push, pc, woken, audio, search, recBuf,
    lastVideo, stream, written, popped, fir, sink>>
fbVars ==
  <<fbScene, now, limit, cap, notified, fbInitialized, running, active, absolute, since,
    arrived, bitrate, lastSent, lastRemb, remb, updates>>
rateVars == <<clock, initialized, sample, current, accumulated, windowEnd, added, paused>>

DownScenes == {{"layers", "simulcast"}, {"layers"}, {"mute", "padding"},
               {"slides", "mute"}, {"slides", "VP9"}, {"late", "padding"}}
UpScenes == {{"padding"}, {"late"}, {"pli"}}

Up == INSTANCE RtpUpstream WITH
  M <- 32, Ahead <- 12, Distance <- 3, Start <- 30, MaxPackets <- 5,
  MaxRepeats <- 1, MaxRetransmits <- 2, MaxNacks <- 2, BlpSize <- 2,
  KeyTimeout <- 2, Scenes <- UpScenes, scene <- upScene

\* Four frames, the first two of two packets, across a wrap.
Rec == INSTANCE Recorder WITH
  Frames <- <<2, 2, 1, 1>>, M <- 16, Start <- 12, Depth <- 1, MaxDepth <- 2,
  BufSize <- 4, Distance <- 1, MaxDups <- 1,
  came <- recCame, queue <- recQueue, last <- recLast, buf <- recBuf

\* Mantissas of 2 bits and integers of 7, to meet the end of both.
Fb == INSTANCE Feedback WITH
  Interval <- 2, MinBitrate <- 3, SwitchAfter <- 2, Mantissa <- 4, MaxExponent <- 8,
  Width <- 128, Limits <- {5, 40}, Estimates <- {2, 9, 30},
  Announced <- {<<3, 1>>, <<3, 6>>, <<1, 0>>},
  Compounds <- {<<"RR", "REMB">>, <<"NACK", "REMB", "PLI">>, <<"REMB", "SDES", "BYE">>, <<>>},
  Scenes <- {{"packets"}, {"estimates", "limit", "active"}, {"estimates", "viewers"}},
  MaxTime <- 6, MaxPackets <- 5, MaxUpdates <- 1,
  scene <- fbScene, initialized <- fbInitialized

Rate == INSTANCE RateStat WITH
  Size <- 2, Window <- 3, MaxTime <- 14, MaxSamples <- 2, now <- clock

ASSUME UpSensible == Up!Sensible
ASSUME RecSensible == Rec!Sensible
ASSUME FbSensible == Fb!Sensible
ASSUME RateSensible == Rate!Sensible

\* The ways that are not taken are in one initial state.
MCInit ==
  /\ way \in {"down", "up", "rec", "fb", "rate"}
  /\ Init /\ Up!Init /\ Rec!Init /\ Fb!Init /\ Rate!Init
  /\ way # "down" => scene = {"layers"}
  /\ way # "up" => upScene = {"pli"}
  /\ way # "rec" => audio = "absent" /\ sink
  /\ way # "fb" => fbScene = {"packets"} /\ limit = 5

allVars == <<way, vars, upVars, recVars, fbVars, rateVars>>

MCNext ==
  /\ UNCHANGED way
  /\ \/ way = "down" /\ Next /\ UNCHANGED <<upVars, recVars, fbVars, rateVars>>
     \/ way = "up" /\ Up!Next /\ UNCHANGED <<vars, recVars, fbVars, rateVars>>
     \/ way = "rec" /\ Rec!Next /\ UNCHANGED <<vars, upVars, fbVars, rateVars>>
     \/ way = "fb" /\ Fb!Next /\ UNCHANGED <<vars, upVars, recVars, rateVars>>
     \/ way = "rate" /\ Rate!Next /\ UNCHANGED <<vars, upVars, recVars, fbVars>>

MCSpec == MCInit /\ [][MCNext]_allVars

(* The properties of the ways.                                              *)

\* The state of the way taken is well typed.
TypesOK ==
  /\ way = "down" => TypeOK
  /\ way = "up" => Up!TypeOK
  /\ way = "rec" => Rec!TypeOK
  /\ way = "fb" => Fb!TypeOK
  /\ way = "rate" => Rate!TypeOK
\* No number stands for two packets that go down or up, padding leaves no gap,
\* and a NACK for a gap names what was lost (SequenceNumberTranslator.cpp:45).
Numbers ==
  /\ way = "down" => Numbering
  /\ way = "up" => Up!NumbersUp
\* Only what did not come is asked for, kMaxRetransmits times at most, and what
\* leaves the list of the missing came or was asked for often enough.
Requests == Up!Requests
\* The extended number of a report is that of the latest packet, and it never
\* claims more lost packets than are missing.
Reports == Up!Reports
\* The frames of a recording are whole, in order and each written once
\* (ExternalOutput.cpp:186).
Recorded == way = "rec" => Rec!Recorded
\* A publisher is told a rate that the estimate, the viewer and the limit allow
\* (BandwidthEstimationHandler.cpp:191), and the ring behind a rate holds the
\* samples of the window (StatNode.cpp:129).
Rates ==
  [][/\ way = "fb" => Fb!ToldStep
     /\ way = "rate" => Rate!RingStep]_allVars
=============================================================================
