--------------------------- MODULE RtpDownstream ---------------------------
(***************************************************************************)
(* The way of a video packet down an erizo pipeline to its receiver: the   *)
(* handlers that drop packets, put packets in and renumber what is left    *)
(* (rtp/QualityFilterHandler.cpp, RtpTrackMuteHandler.cpp,                 *)
(* RtpSlideShowHandler.cpp, RtpPaddingGeneratorHandler.cpp), in the order  *)
(* of WebRtcConnection::initializePipeline, down to the buffer of          *)
(* RtpRetransmissionHandler.cpp that answers NACKs.                        *)
(*                                                                         *)
(* One write is one step: a connection's pipeline runs on its worker.  A   *)
(* packet is an object the handlers share and rewrite in place, so that it *)
(* bears the number of the last time it went out.                         *)
(***************************************************************************)
EXTENDS Translator, FiniteSets

CONSTANTS Scenes,      \* what may happen in a run: sets of the words below
          Start,       \* the number the source starts from
          MaxPackets,  \* bound on the packets of the source
          MaxBurst,    \* bound on the padding packets after a marker
          MaxControls, \* bound on the changes of mute, slide show, layers, padding
          Slots        \* kServicePacketBufferSize: 256

Word == {"layers", "simulcast", "mute", "slides", "VP9", "padding", "late"}

ASSUME DownstreamAssumption ==
  /\ \A s \in Scenes : s \subseteq Word
  /\ Start \in Num /\ {MaxPackets, MaxBurst, MaxControls} \subseteq Nat
  /\ Slots \in Nat \ {0}

VARIABLES
  scene,     \* what may happen in this run
  src,       \* the source: packets made, frame begun, packets held back, lost
  wish,      \* the layers QualityManager has selected, changes so far
  chain,     \* the handlers' state
  resent     \* retransmissions: number asked for, packet that was sent

vars == <<scene, src, wish, chain, resent>>

LOCAL SX == INSTANCE SequencesExt

None == 0       \* no object, no stream
Nil  == -1      \* no number
Ids  == 1..(2 * (MaxPackets * (MaxBurst + 3)))   \* more than a run sends
LayerOf == {0, 1}

TypeOK ==
  /\ scene \in Scenes
  /\ src.made \in 0..MaxPackets /\ src.lost \in 0..MaxPackets
  /\ wish.s \in LayerOf /\ wish.t \in LayerOf /\ wish.changes \in 0..MaxControls
  /\ chain.q.target \in LayerOf /\ chain.q.future \in LayerOf \cup {-1}
  /\ {chain.q.t, chain.show.t, chain.pad.t} \subseteq TranslatorType
  /\ chain.mute.offset \in Num
  /\ \A i \in DOMAIN chain.wire : chain.wire[i].w \in Num /\ chain.wire[i].id \in Ids
  /\ chain.slot \in [0..(Slots - 1) -> Ids \cup {None}]

NoFrame == [k \in {} |-> None]

Init ==
  /\ scene \in Scenes
  /\ src = [made |-> 0, next |-> [l \in LayerOf |-> (Start + 7 * l) % M], open |-> FALSE, key |-> FALSE, frame |-> 0, held |-> {}, lost |-> 0]
  /\ wish = [s |-> 0, t |-> 0, changes |-> 0]
  /\ chain =
       [q |-> [t |-> NewTranslator, scalable |-> FALSE, target |-> 0, future |-> -1,
               temporal |-> 0, ssrc |-> None, many |-> FALSE,
               lapsed |-> FALSE],
        mute |-> [on |-> FALSE, offset |-> 0, original |-> 0, sent |-> 0],
        show |-> [t |-> NewTranslator, on |-> FALSE, high |-> 0, any |-> FALSE,
                  building |-> FALSE, first |-> 0, ts |-> 0, frame |-> NoFrame,
                  count |-> 0, stored |-> <<>>],
        pad |-> [t |-> NewTranslator, on |-> FALSE, high |-> 0, any |-> FALSE,
                 timer |-> {}],
        wire |-> <<>>, slot |-> [k \in 0..(Slots - 1) |-> None]]
  /\ resent = {}

-----------------------------------------------------------------------------
(* The handlers, each as the state its write leaves.  A packet p has its   *)
(* number n at the source, the frame it belongs to (its timestamp), the    *)
(* flags key and marker, and the layers s and t it belongs to.             *)

\* RtpRetransmissionHandler::write and the network: came is the source's
\* number of the packet, s the number RtpSlideShowHandler gave it.
Send(c, id, w, s, came, key) ==
  [c EXCEPT !.wire = Append(@, [w |-> w, s |-> s, id |-> id, came |-> came, key |-> key]),
            !.slot[w % Slots] = id]

\* sendPaddingPacket, k times, with a packet of its own each time; the timer
\* is set to do it again.
Burst(c, p, k) ==
  SX!FoldLeft(LAMBDA d, i :
      LET g == Generate(d.pad.t) IN
      Send([d EXCEPT !.pad.t = g.t], MaxPackets + Len(d.wire) + 1, g.e.out, Nil, Nil, FALSE),
    [c EXCEPT !.pad.timer = {p}], [i \in 1..k |-> i])

\* RtpPaddingGeneratorHandler::write: the number is taken whatever its kind.
Pad(c, p, s, came, env) ==
  LET g == Get(c.pad.t, s, FALSE)
      higher == ~(c.pad.any /\ Less(s, c.pad.high))
      d == Send([c EXCEPT !.pad.t = g.t, !.pad.any = TRUE, !.pad.timer = {},
                          !.pad.high = IF higher THEN s ELSE @],
                p.id, g.e.out, s, came, p.key)
  IN IF higher /\ c.pad.on /\ p.marker THEN Burst(d, p, env.burst) ELSE d

\* resetKeyframeBuilding
ResetBuilding(h) ==
  [h EXCEPT !.count = 0, !.first = 0, !.building = FALSE, !.frame = NoFrame]

Begins(h, p, n) ==
  [ResetBuilding(h) EXCEPT !.building = TRUE, !.first = n, !.ts = p.frame]

\* isVP8Keyframe and isVP9Keyframe, which begin a frame too.
Notice(h, p, n) ==
  IF "VP9" \in scene
  THEN LET earlier == IF p.key /\ Less(n, h.first) THEN [h EXCEPT !.first = n] ELSE h
       IN IF p.key /\ p.frame # h.ts THEN Begins(h, p, n) ELSE earlier
  ELSE IF p.key /\ (~h.any \/ Less(h.high, n)) THEN Begins(h, p, n) ELSE h

IsKey(h, p) == IF "VP9" \in scene THEN p.key ELSE p.frame = h.ts

MaxKeyframe == 3     \* kMaxKeyframeSize: 20

Store(h, p, n) ==
  LET i == (n - h.first) % M IN
  IF i >= MaxKeyframe THEN h
  ELSE [h EXCEPT !.frame = [k \in DOMAIN @ \cup {i} |-> IF k = i THEN p ELSE @[k]]]

\* The index of the marker up to which the frame is there without a gap.
Whole(h) ==
  {k \in DOMAIN h.frame :
     /\ h.frame[k].marker
     /\ \A j \in 0..k : j \in DOMAIN h.frame /\ h.frame[j].frame = h.ts
     /\ \A j \in 0..(k - 1) : ~h.frame[j].marker}

\* consolidateKeyframe
Consolidate(h) ==
  IF ~h.building THEN h
  ELSE IF h.count > MaxKeyframe THEN ResetBuilding(h)
  ELSE IF Whole(h) = {} THEN [h EXCEPT !.count = @ + 1]
  ELSE LET k == CHOOSE k \in Whole(h) : TRUE IN
       ResetBuilding([h EXCEPT !.stored = [j \in 1..(k + 1) |-> h.frame[j - 1]]])

\* maybeSendStoredKeyframe, when its timeout is over: the objects of the key
\* frame go down again, each under a number of its own.
SendStored(c, env) ==
  SX!FoldLeft(LAMBDA d, p :
      LET g == Generate(d.show.t) IN
      Pad([d EXCEPT !.show.t = g.t], p, g.e.out, Nil, env), c, c.show.stored)

\* RtpSlideShowHandler::write
Slide(c, p, n, env) ==
  LET h0 == Notice(c.show, p, n)
      key == IsKey(h0, p)
      h1 == IF ~h0.on THEN h0 ELSE Consolidate(IF key THEN Store(h0, p, n) ELSE h0)
      c1 == [c EXCEPT !.show = h1]
      c2 == IF h1.on /\ env.old THEN SendStored(c1, env) ELSE c1
      skip == c2.show.on /\ ~key
      g == Get(c2.show.t, n, skip)
      c3 == [c2 EXCEPT !.show.t = g.t, !.show.any = TRUE,
                       !.show.high = IF Less(@, n) \/ ~c2.show.any THEN n ELSE @]
  IN IF ~skip /\ g.e.kind = "Valid" THEN Pad(c3, p, g.e.out, n, env) ELSE c3

\* RtpTrackMuteHandler::handlePacket
Mute(c, p, n, env) ==
  LET sent == (n - c.mute.offset) % M
      c1 == [c EXCEPT !.mute.original = n]
  IN IF c.mute.on THEN c1 ELSE Slide([c1 EXCEPT !.mute.sent = sent], p, sent, env)

\* checkLayers and changeSpatialLayerOnKeyframeReceived.  The timeout of the
\* second starts anew with each packet the first sees a layer to change to.
Switch_any(q, p, env) ==
  LET future == IF wish.s # q.target THEN wish.s ELSE q.future
      go == future # -1 /\ (wish.s # q.target \/ env.old)
  IN [q EXCEPT !.temporal = wish.t,
               !.future = IF go THEN -1 ELSE future, !.target = IF go THEN future ELSE @]

Switch(q, p, env) ==
  LET future == IF wish.s # q.target THEN wish.s ELSE q.future
      good == future \in p.s /\ wish.t \in p.t /\ p.key
      go == future # -1 /\ (good \/ (wish.s = q.target /\ env.old))
  IN [q EXCEPT !.temporal = wish.t, !.lapsed = @ \/ (go /\ ~good),
               !.future = IF go THEN -1 ELSE future, !.target = IF go THEN future ELSE @]

\* checkSSRCChange
NewStream(q, p) ==
  IF p.ssrc = q.ssrc THEN q ELSE [q EXCEPT !.ssrc = p.ssrc, !.t = Reset(@)]

\* QualityFilterHandler::write
Quality(c, p, env) ==
  LET scalable == c.q.scalable \/ 1 \in p.s \cup p.t
      q0 == [c.q EXCEPT !.scalable = scalable, !.many = @ \/ c.q.ssrc \notin {None, p.ssrc}]
      q1 == Switch(q0, p, env)
      q2 == NewStream(q1, p)
      skip(q) == [q EXCEPT !.t = Get(q.t, p.n, TRUE).t]
      g == Get(q2.t, p.n, FALSE)
  IN IF ~scalable THEN Mute(c, p, p.n, env)
     ELSE IF q1.target \notin p.s
          THEN [c EXCEPT !.q = IF q1.many THEN q1 ELSE skip(q1)]
     ELSE IF q1.temporal \notin p.t THEN [c EXCEPT !.q = skip(q2)]
     ELSE IF g.e.kind # "Valid" THEN [c EXCEPT !.q = [q2 EXCEPT !.t = g.t]]
     ELSE Mute([c EXCEPT !.q = [q2 EXCEPT !.t = g.t]], p, g.e.out, env)

-----------------------------------------------------------------------------
(* The source, and what may happen to its packets on the way.              *)

May(w) == w \in scene

\* What the source may make next, in stream l.
Fresh(l) ==
  LET id == src.made + 1
      frame == IF src.open THEN src.frame ELSE src.frame + 1
      svc(x) == IF x = 0 THEN {0, 1} ELSE {1}
  IN {p \in [n : {src.next[IF May("simulcast") THEN l ELSE 0]}, id : {id}, frame : {frame},
             key : BOOLEAN, marker : BOOLEAN, ssrc : {1, 2},
             s : {{0}, {1}, {0, 1}}, t : {{0}, {1}, {0, 1}}, of : {src.key, ~src.key}] :
        /\ p.ssrc = IF May("simulcast") THEN l + 1 ELSE 1
        /\ p.s = IF May("simulcast") THEN {l} ELSE IF May("layers") THEN svc(l) ELSE {0}
        /\ IF May("layers") THEN p.t \in {svc(0), svc(1)} ELSE p.t = {0}
        /\ IF src.open THEN p.of = src.key ELSE p.of => May("slides") \/ May("layers")
        /\ p.key = (p.of /\ (~src.open \/ May("VP9")))
        /\ p.marker \/ May("slides")}

Made(p, l) ==
  [src EXCEPT !.made = @ + 1, !.next[IF May("simulcast") THEN l ELSE 0] = (@ + 1) % M,
              !.frame = p.frame, !.open = ~p.marker, !.key = p.of]

Env == [old : IF May("slides") \/ May("layers") THEN BOOLEAN ELSE {FALSE},
        burst : IF May("padding") THEN 0..MaxBurst ELSE {0}]

Layers == IF May("layers") \/ May("simulcast") THEN LayerOf ELSE {0}

\* A packet comes down the pipeline.
Write(l) ==
  /\ src.made < MaxPackets
  /\ \E p \in Fresh(l), env \in Env :
       src' = Made(p, l) /\ chain' = Quality(chain, p, env)
  /\ UNCHANGED <<scene, wish, resent>>

\* One is lost between the publisher and here.
Lose(l) ==
  /\ src.made < MaxPackets
  /\ \E p \in Fresh(l) : src' = [Made(p, l) EXCEPT !.lost = @ + 1]
  /\ UNCHANGED <<scene, wish, chain, resent>>

\* One is overtaken, and comes while it is less than Distance behind.
Overtake(l) ==
  /\ May("late") /\ src.made < MaxPackets /\ src.held = {}
  /\ \E p \in Fresh(l) : src' = [Made(p, l) EXCEPT !.held = {p}]
  /\ UNCHANGED <<scene, wish, chain, resent>>

WriteLate ==
  /\ \E p \in src.held, env \in Env :
       /\ (src.next[0] - p.n) % M <= Distance
       /\ src' = [src EXCEPT !.held = {}] /\ chain' = Quality(chain, p, env)
  /\ UNCHANGED <<scene, wish, resent>>

-----------------------------------------------------------------------------
(* What the connection's users and QualityManager set.                     *)

Control == wish.changes < MaxControls /\ UNCHANGED <<scene, src, resent>>
Counted == wish' = [wish EXCEPT !.changes = @ + 1]

SelectLayers ==
  /\ Control /\ May("layers")
  /\ \E s, t \in LayerOf : /\ <<s, t>> # <<wish.s, wish.t>>
                           /\ wish' = [s |-> s, t |-> t, changes |-> wish.changes + 1]
  /\ UNCHANGED chain

\* muteTrack
MuteTrack ==
  /\ Control /\ May("mute") /\ Counted
  /\ chain' = [chain EXCEPT !.mute.on = ~@,
       !.mute.offset = IF chain.mute.on THEN (chain.mute.original - chain.mute.sent) % M
                       ELSE @]

\* setSlideShowMode
SetSlideShowMode ==
  /\ Control /\ May("slides") /\ Counted
  /\ chain' = [chain EXCEPT !.show = [ResetBuilding(@) EXCEPT !.on = ~@]]

\* enablePadding, disablePadding: a timer that is set stays set.
EnablePadding ==
  /\ Control /\ May("padding") /\ Counted
  /\ chain' = [chain EXCEPT !.pad.on = ~@]

\* The task onPacketWithMarkerSet scheduled; its number is bounded here by the
\* packets on the wire.
PaddingTimer ==
  /\ chain.pad.timer # {} /\ Len(chain.wire) < MaxPackets + MaxBurst
  /\ \E p \in chain.pad.timer, k \in 1..MaxBurst : chain' = Burst(chain, p, k)
  /\ UNCHANGED <<scene, src, wish, resent>>

\* The packet found, if any, bears that number by now.
Recovered(w) ==
  \E i \in DOMAIN chain.wire :
    /\ chain.wire[i].id = chain.slot[w % Slots] /\ chain.wire[i].w = w
    /\ \A j \in DOMAIN chain.wire : j > i => chain.wire[j].id # chain.wire[i].id

\* RtpRetransmissionHandler::read of a NACK, unless its token bucket is empty.
Nack ==
  /\ resent = {}
  /\ \E i \in DOMAIN chain.wire :
       LET w == chain.wire[i].w IN
       /\ Recovered(w)
       /\ resent' = {[w |-> w, id |-> chain.slot[w % Slots]]}
  /\ UNCHANGED <<scene, src, wish, chain>>

Next ==
  \/ \E l \in Layers : Write(l) \/ Lose(l) \/ Overtake(l)
  \/ WriteLate \/ SelectLayers \/ MuteTrack \/ SetSlideShowMode \/ EnablePadding
  \/ PaddingTimer \/ Nack

Spec == Init /\ [][Next]_vars

-----------------------------------------------------------------------------
(* Properties.                                                             *)

\* Two packets on the wire bear the same number only if they are one packet
\* of the source: a receiver drops the second, or takes it for a repetition.
FreshNumbers ==
  \A i, j \in DOMAIN chain.wire : i < j => chain.wire[i].w # chain.wire[j].w

\* The receiver sees no gap but for the packets lost before: what is muted,
\* filtered or left out of a slide show leaves none (RtpTrackMuteHandler.cpp:112).
\* Not so after a change of simulcast layers that lapsed: the filter drops the
\* packets of the layer it comes back to unnoticed (QualityFilterHandler.cpp:136).
NoHoles ==
  LET ahead(w) == LET d == (w - chain.wire[1].w) % M IN
                  IF d > M \div 2 THEN d - M ELSE d
      span == {ahead(chain.wire[i].w) : i \in DOMAIN chain.wire}
  IN ~chain.q.lapsed => \A x, y \in span :
       Cardinality(x..y \ span) <= src.lost + Cardinality(src.held)

\* While the receiver may still report on them, the numbers of the slide show
\* lead back to those of the packets they came from (RtpSlideShowHandler.cpp:58).
Reversible ==
  \A i \in DOMAIN chain.wire :
    LET x == chain.wire[i]
        e == Reverse(chain.show.t, x.s) IN
    x.s # Nil /\ Len(chain.wire) - i < Distance =>
      IF x.came = Nil THEN e.kind # "Valid" ELSE e.kind = "Valid" => e.in = x.came

\* What answers a NACK is the packet that was sent under that number.
RetransmitsSame ==
  \A r \in resent : \E i \in DOMAIN chain.wire :
    chain.wire[i].w = r.w /\ chain.wire[i].id = r.id

\* The key frame a slide show repeats is a whole one: one frame of the source
\* without a gap up to its marker, in VP8, where its first packet tells.
StoredWhole ==
  LET f == chain.show.stored IN
  f # <<>> /\ ~May("VP9") =>
    /\ f[1].key /\ f[Len(f)].marker
    /\ \A j \in 2..Len(f) : f[j].frame = f[1].frame /\ f[j].n = (f[1].n + j - 1) % M

\* The filter begins to send the layer it was told to with a key frame of it.
SwitchOnKeyframe ==
  [][ /\ chain'.q.target # chain.q.target /\ chain.q.target # wish.s
      /\ ~May("mute") /\ ~May("slides")
      => /\ chain'.q.target = wish.s
         /\ \E i \in DOMAIN chain'.wire \ DOMAIN chain.wire : chain'.wire[i].key ]_vars

\* Together: what the handlers of the pipeline do to the sequence numbers of a
\* stream leaves it one stream, in both directions, and to key frames, whole.
Numbering == FreshNumbers /\ NoHoles /\ Reversible /\ RetransmitsSame
KeyframesWhole == []StoredWhole /\ SwitchOnKeyframe
=============================================================================
