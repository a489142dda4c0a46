------------------------------ MODULE Quality ------------------------------
(***************************************************************************)
(* The choice of a quality layer for a subscriber (rtp/QualityManager.cpp) *)
(* with what feeds it: the layers of the packets (LayerDetectorHandler),   *)
(* their rates (LayerBitrateCalculationHandler) and the estimate of the    *)
(* bandwidth (SenderBandwidthEstimationHandler).  The rates are those of a *)
(* steady publisher, who may stop and resume layers.                       *)
(***************************************************************************)
EXTENDS Integers, FiniteSets

CONSTANTS Layers,      \* spatial layers: ssrcs of a simulcast, or VP9 layers
          Top,         \* the highest temporal layer
          Rate,        \* the rate of each layer: <<spatial, temporal>> -> Nat
          Estimates,   \* bandwidths that may be estimated
          MaxChanges   \* bound on what publisher, network and application do

Sensible ==
  /\ Layers \subseteq 0..5 /\ Top \in 0..3
  /\ Rate \in [Layers \X (0..Top) -> Nat \ {0}]
  /\ Estimates \subseteq Nat /\ MaxChanges \in Nat

VARIABLES
  vp9,       \* a VP9 packet of a layer serves all higher layers as well
  sent,      \* spatial layers the publisher sends
  heard,     \* spatial layers that count in the averages over the long window
  nodes,     \* "qualityLayers": a rate is kept for each of these
  estimate,  \* "senderBitrateEstimation", NoEstimate before there is one
  q,         \* the QualityManager
  checkDue,  \* kMinLayerSwitchInterval passed since last_quality_check_
  activeDue, \* kActiveLayerInterval passed since last_activity_check_
  changes

inputs == <<vp9, sent, heard, nodes, estimate>>
clocks == <<checkDue, activeDue>>
vars == <<inputs, q, clocks, changes>>

NoEstimate == -1
Temporal == 0..Top
Layer    == Layers \X Temporal

TypeOK ==
  /\ vp9 \in BOOLEAN /\ sent \subseteq Layers /\ heard \subseteq Layers
  /\ nodes \subseteq Layer /\ estimate \in Estimates \cup {NoEstimate}
  /\ q \in [enabled : BOOLEAN, forced : BOOLEAN, slides : BOOLEAN,
            padding : BOOLEAN, layer : (0..5) \X (0..5), active : (0..5) \X (0..5)]
  /\ checkDue \in BOOLEAN /\ activeDue \in BOOLEAN /\ changes \in 0..MaxChanges

Init ==
  /\ vp9 \in BOOLEAN /\ sent = Layers /\ heard = {} /\ nodes = {} /\ estimate = NoEstimate
  /\ q = [enabled |-> FALSE, forced |-> FALSE, slides |-> FALSE,
          padding |-> FALSE, layer |-> <<0, 0>>, active |-> <<0, 0>>]
  /\ checkDue = FALSE /\ activeDue = FALSE /\ changes = 0

-----------------------------------------------------------------------------
(* Rates.  A VP9 layer gets the packets of all lower ones.                 *)

Max[S \in SUBSET (0..5)] == CHOOSE x \in S : \A y \in S : y <= x

Served(s, on) == IF vp9 THEN {x \in on : x <= s} ELSE {s} \cap on

RateOf(n, N, on) ==
  IF n \in N /\ Served(n[1], on) # {} THEN Rate[<<Max[Served(n[1], on)], n[2]>>] ELSE 0

\* getInstantLayerBitrate: the last half second.  A layer is asked for by name.
Instant(n, N) == RateOf(n, N, sent)

\* value() of the node: its whole window.
Average(n, N) == RateOf(n, N, heard)

\* What selectLayer counts instead of reading the names of the nodes.
Position(N) ==
  [n \in Layer |->
     <<Cardinality({s \in {m[1] : m \in N} : s < n[1]}),
       Cardinality({m \in N : m[1] = n[1] /\ m[2] < n[2]})>>]

Fits(n, N, margin) ==
  Average(n, N) # 0 /\ (100 + margin) * Average(n, N) < 100 * estimate

Fitting(N, margin) == {n \in N : Fits(n, N, margin)}

\* The last of a set of layers, in the order of the maps.
Highest[S \in SUBSET Layer] ==
  CHOOSE n \in S : \A m \in S : m[1] < n[1] \/ (m[1] = n[1] /\ m[2] <= n[2])

Chosen(N, margin) ==
  IF Fitting(N, margin) = {} THEN <<0, 0>> ELSE Position(N)[Highest[Fitting(N, margin)]]

-----------------------------------------------------------------------------
(* QualityManager.  m is its state, N the nodes.                           *)

InMaxLayer(layer, active) == layer[1] >= active[1] /\ layer[2] >= active[2]

\* selectLayer: slide show mode is entered at once and left with the margin.
SelectLayer(m, N, higher) ==
  LET margin == IF higher THEN 10 ELSE 0
      below  == Fitting(N, margin) = {}
      next   == Chosen(N, margin)
  IN [m EXCEPT !.slides = IF below \/ higher THEN below ELSE @,
               !.layer = next,
               !.padding = IF next = m.layer THEN @ ELSE ~InMaxLayer(next, m.active)]

\* calculateMaxActiveLayer
MaxActive(N) ==
  LET s == Max[{0} \cup {x \in Layers : Instant(<<x, 0>>, N) > 0}]
      t == Max[{0} \cup {x \in Temporal : s \in Layers /\ Instant(<<s, x>>, N) > 0}]
  IN <<s, t>>

\* What notifyQualityUpdate reads before it decides.
Looked(N) ==
  [q EXCEPT !.active = IF activeDue THEN MaxActive(N) ELSE @]

Idle == ~q.enabled \/ estimate = NoEstimate \/ q.forced

\* Whether the layer, or what is left of it, is too much.
Lower(m, N) ==
  m.layer[1] > m.active[1] \/ (estimate < Instant(m.layer, N) /\ ~m.slides)

\* A higher layer is tried only when the current one is not in its place.
NotifyQualityUpdate_never_up(N) ==
  IF Idle THEN UNCHANGED <<q, clocks>>
  ELSE \E m \in {Looked(N)} :
         /\ activeDue' = FALSE
         /\ q' = IF Lower(m, N) THEN SelectLayer(m, N, checkDue) ELSE m
         /\ checkDue' = (checkDue /\ ~Lower(m, N))

\* notifyQualityUpdate
NotifyQualityUpdate(N) ==
  IF Idle THEN UNCHANGED <<q, clocks>>
  ELSE \E m \in {Looked(N)} :
         /\ activeDue' = FALSE /\ checkDue' = FALSE
         /\ q' = IF Lower(m, N) THEN SelectLayer(m, N, FALSE)
                 ELSE IF checkDue THEN SelectLayer(m, N, TRUE) ELSE m

-----------------------------------------------------------------------------
(* The packets of the publisher.                                           *)

\* The temporal layers a packet serves, by the identifier it carries.
First(tid) == CASE tid = 0 -> 0 [] tid = 2 -> 1 [] tid = 1 -> 2 [] tid = 3 -> 3

\* LayerDetectorHandler
Compatible(s, tid) ==
  {n \in Layer : /\ IF vp9 THEN n[1] >= s ELSE n[1] = s
                 /\ n[2] >= First(tid)}

\* LayerBitrateCalculationHandler::write
Write(s, tid) ==
  /\ s \in sent /\ First(tid) <= Top
  /\ \E N \in {nodes \cup Compatible(s, tid)} : nodes' = N /\ NotifyQualityUpdate(N)
  /\ UNCHANGED <<vp9, sent, heard, estimate, changes>>

\* QualityFilterHandler::detectVideoScalability
Enable ==
  /\ ~q.enabled /\ \E n \in nodes : n[1] = 1 \/ n[2] = 1
  /\ q' = [q EXCEPT !.enabled = TRUE, !.padding = @ \/ ~q.forced]
  /\ UNCHANGED <<inputs, clocks, changes>>

Change == changes < MaxChanges /\ changes' = changes + 1

Disable ==
  /\ Change /\ q.enabled
  /\ q' = [q EXCEPT !.enabled = FALSE, !.padding = FALSE]
  /\ UNCHANGED <<inputs, clocks>>

\* The padding goes on.
ForceLayers_padded(layer) ==
  /\ Change
  /\ q' = [q EXCEPT !.forced = TRUE, !.layer = layer]
  /\ UNCHANGED <<inputs, clocks>>

\* WebRtcConnection::setQualityLayer, forceLayers
ForceLayers(layer) ==
  /\ Change
  /\ q' = [q EXCEPT !.forced = TRUE, !.padding = FALSE, !.layer = layer]
  /\ UNCHANGED <<inputs, clocks>>

\* forceLayers with -1
FreeLayers ==
  /\ Change /\ q.forced
  /\ q' = [q EXCEPT !.forced = FALSE]
  /\ UNCHANGED <<inputs, clocks>>

\* SenderBandwidthEstimationHandler: there is an estimate after the first REMB,
\* and it is renewed by REMBs, reports and every 25 ms while packets are sent.
UpdateEstimate ==
  /\ Change
  /\ estimate' \in Estimates \ {estimate}
  /\ UNCHANGED <<vp9, sent, heard, nodes, q, clocks>>

\* The publisher stops or resumes a layer.
Publish(s) ==
  /\ Change
  /\ sent' = IF s \in sent THEN sent \ {s} ELSE sent \cup {s}
  /\ UNCHANGED <<vp9, heard, nodes, estimate, q, clocks>>

\* The averages follow what is sent, over a window of less than ten seconds.
Averages ==
  /\ heard # sent /\ heard' = sent
  /\ UNCHANGED <<vp9, sent, nodes, estimate, q, clocks, changes>>

HalfSecond ==
  /\ ~activeDue /\ activeDue' = TRUE
  /\ UNCHANGED <<inputs, q, checkDue, changes>>

TenSeconds ==
  /\ ~checkDue \/ ~activeDue \/ heard # sent
  /\ checkDue' = TRUE /\ activeDue' = TRUE /\ heard' = sent
  /\ UNCHANGED <<vp9, sent, nodes, estimate, q, changes>>

Next ==
  \/ \E s \in Layers : Publish(s) \/ \E tid \in 0..3 : Write(s, tid)
  \/ \E layer \in Layer : ForceLayers(layer)
  \/ FreeLayers \/ Enable \/ Disable \/ UpdateEstimate
  \/ Averages \/ HalfSecond \/ TenSeconds

Spec == Init /\ [][Next]_vars

\* A layer that is sent has packets of its base layer.
SomeWrite == \E s \in Layers : Write(s, 0)

FairSpec == Spec /\ WF_vars(SomeWrite) /\ WF_vars(TenSeconds)

-----------------------------------------------------------------------------
(* Properties.                                                             *)

\* Padding is sent only while the manager chooses the layers itself.
PaddingOff == q.padding => q.enabled /\ ~q.forced

\* The manager is at work, and all layers are known.  Before, it may count the
\* nodes of some higher layers from 0.
Choosing ==
  q.enabled /\ ~q.forced /\ estimate # NoEstimate /\ sent # {} /\ nodes = Layer

\* The layer is the highest that fits with the margin; if none fits, slides.
Best ==
  /\ q.slides = (Fitting(nodes, 10) = {})
  /\ q.layer = Chosen(nodes, 10)

\* When publisher, network and application leave it alone, the manager ends
\* with the best layer, from any layer forced before, any layer that stopped
\* and any slide show.
Settles == (<>[]Choosing) => <>[](Choosing => Best)
=============================================================================
