------------------------------ MODULE Feedback ------------------------------
(***************************************************************************)
(* What a publisher is told of its bandwidth: the estimate made of its own *)
(* packets (rtp/BandwidthEstimationHandler.cpp) and the feedback of its    *)
(* viewers, which the same pipeline forwards to it                         *)
(* (rtp/RtcpProcessorHandler.cpp, rtp/RtcpForwarder.cpp).  Times are in    *)
(* units of kRembSendIntervallMs divided by Interval.                      *)
(***************************************************************************)
EXTENDS Integers, Sequences, FiniteSets

LOCAL SX == INSTANCE SequencesExt

CONSTANTS Interval,      \* kRembSendIntervallMs
          MinBitrate,    \* kRembMinimumBitrate
          SwitchAfter,   \* kTimeOffsetSwitchThreshold
          Mantissa,      \* 2 to the bits of a REMB's mantissa
          MaxExponent,   \* its largest exponent
          Width,         \* 2 to the bits of an unsigned int
          Limits,        \* values of videoBandwidth, and the default
          Estimates,     \* bit rates that the estimator finds
          Announced,     \* <<mantissa, exponent>> of the REMBs of viewers
          Compounds,     \* the compound packets of viewers
          Scenes,        \* which inputs an instance has
          MaxTime,       \* bound on the clock
          MaxPackets,    \* bound on the packets that arrive
          MaxUpdates     \* bound on descriptions that set the limit

Sensible ==
  /\ Interval \in Nat \ {0} /\ MinBitrate \in Nat /\ SwitchAfter \in Nat \ {0}
  /\ Mantissa \in Nat /\ Mantissa > 1 /\ MaxExponent \in Nat /\ Width \in Nat
  /\ Limits \in SUBSET (Nat \ {0}) /\ Estimates \in SUBSET Nat
  /\ \A a \in Announced : a[1] < Mantissa
  /\ \A c \in Compounds : c \in Seq({"RR", "NACK", "PLI", "SDES", "BYE", "REMB"})
  /\ MaxTime \in Nat /\ MaxPackets \in Nat /\ MaxUpdates \in Nat

VARIABLES
  scene,
  now,
  limit,       \* RtcpProcessor's max_video_bw_
  cap,         \* the estimation handler's max_video_bw_
  notified,    \* no notifyUpdate is due
  initialized, running, active,
  absolute,    \* using_absolute_send_time_
  since,       \* packets_since_absolute_send_time_
  arrived,     \* which video packets had the extension, for the properties
  bitrate, lastSent,
  lastRemb,    \* last_remb_time_; before the first, long ago
  remb,        \* the last REMB to the publisher
  updates

estimator == <<absolute, since, arrived>>
sending == <<bitrate, lastSent, lastRemb>>
vars == <<scene, now, limit, cap, notified, initialized, running, active, estimator,
          sending, remb, updates>>

\* A REMB: who sent it, when, how high, and as how high it was announced.
Remb(by, at, rate, of) == [by |-> by, at |-> at, rate |-> rate, of |-> of]
NoRemb == Remb("nobody", -Interval, 0, 0)

TypeOK ==
  /\ scene \in Scenes /\ now \in 0..MaxTime /\ limit \in Limits /\ cap \in Limits
  /\ {notified, initialized, running, active, absolute} \subseteq BOOLEAN
  /\ since \in 0..MaxPackets /\ arrived \in Seq(BOOLEAN)
  /\ bitrate \in Nat /\ lastSent \in Nat /\ lastRemb \in -Interval..MaxTime
  /\ remb.by \in {"nobody", "estimator", "viewer"} /\ remb.rate \in Nat
  /\ updates \in 0..MaxUpdates

Init ==
  /\ scene \in Scenes /\ now = 0 /\ limit \in Limits /\ cap = limit /\ notified = FALSE
  /\ initialized = FALSE /\ running = FALSE /\ active = TRUE
  /\ absolute = FALSE /\ since = 0 /\ arrived = <<>>
  /\ bitrate = 0 /\ lastSent = 0 /\ lastRemb = -Interval /\ remb = NoRemb /\ updates = 0

-----------------------------------------------------------------------------
(* The limit.                                                              *)

\* A description comes, and the handlers will be told (WebRtcConnection.cpp).
SetMaxVideoBW(bw) ==
  /\ "limit" \in scene /\ updates < MaxUpdates /\ updates' = updates + 1
  /\ limit' = bw /\ notified' = FALSE
  /\ UNCHANGED <<scene, now, cap, initialized, running, active, estimator, sending, remb>>

NotifyUpdate ==
  /\ ~notified /\ notified' = TRUE
  /\ cap' = limit /\ initialized' = TRUE
  /\ UNCHANGED <<scene, now, limit, running, active, estimator, sending, remb, updates>>

\* enable, disable
SetActive(on) ==
  /\ "active" \in scene /\ active # on /\ active' = on
  /\ UNCHANGED <<scene, now, limit, cap, notified, initialized, running, estimator, sending,
                 remb, updates>>

-----------------------------------------------------------------------------
(* The estimation handler.                                                 *)

\* pickEstimatorFromHeader, but what was counted stays.
PickEstimator_adds_up(abs) ==
  /\ absolute' = (abs \/ (absolute /\ since + 1 < SwitchAfter))
  /\ since' = IF ~abs /\ absolute THEN since + 1 ELSE since

\* pickEstimatorFromHeader
PickEstimator(abs) ==
  /\ absolute' = (abs \/ (absolute /\ since + 1 < SwitchAfter))
  /\ since' = IF abs THEN 0 ELSE IF absolute THEN since + 1 ELSE since

\* read: a video packet comes, with the extension abs-send-time or without.
Read(abs) ==
  /\ ("packets" \in scene \/ ~running) /\ initialized /\ Len(arrived) < MaxPackets
  /\ running' = TRUE
  /\ PickEstimator(abs)
  /\ arrived' = Append(arrived, abs)
  /\ UNCHANGED <<scene, now, limit, cap, notified, initialized, active, sending, remb, updates>>

\* setREMBBitRate: the mantissa rounds down.
Encoded(rate) ==
  LET fits == {e \in 0..MaxExponent : rate < (Mantissa - 1) * 2^e}
      e    == CHOOSE x \in fits : \A y \in fits : x <= y
  IN (rate \div 2^e) * 2^e

\* sendREMBPacket; a limit of zero is none.
Capped(rate) == IF cap > 0 /\ cap < rate THEN cap ELSE rate

\* "less than kSendThresholdPercent % of the last report": the difference to the
\* estimate before is taken, in unsigned arithmetic.
Collapsed(raw) ==
  /\ lastSent > 0
  /\ (lastSent - bitrate + raw) % Width < (97 * lastSent) \div 100

\* OnReceiveBitrateChanged, when a packet or the timer made the estimator ask.
OnReceiveBitrateChanged(raw) ==
  /\ "estimates" \in scene /\ running
  /\ LET rate == IF raw < MinBitrate THEN MinBitrate ELSE raw
         last == IF Collapsed(raw) THEN now - Interval ELSE lastRemb
     IN /\ bitrate' = rate
        /\ IF now - last < Interval
           THEN lastRemb' = last /\ UNCHANGED <<lastSent, remb>>
           ELSE /\ lastRemb' = now /\ lastSent' = rate
                /\ remb' = IF active THEN Remb("estimator", now, Encoded(Capped(rate)), rate)
                           ELSE remb
  /\ UNCHANGED <<scene, now, limit, cap, notified, initialized, running, active, estimator, updates>>

-----------------------------------------------------------------------------
(* The forwarder.                                                          *)

\* getBrMantis() << getBrExp(), in 32 bits
Shifted(a) == (a[1] * 2^a[2]) % Width

\* A REMB is rewritten to the limit.
Forwarded(rate) == Encoded(IF rate < limit THEN rate ELSE limit)

\* analyzeFeedback: a BYE drops the compound and what came before it, an empty
\* report is not passed on, and all else is, with the source's own SSRCs.
Passes(c) == c # <<>> /\ "BYE" \notin SX!ToSet(c)

AnalyzeFeedback(c, a) ==
  /\ "viewers" \in scene
  /\ remb' = IF Passes(c) /\ "REMB" \in SX!ToSet(c)
             THEN Remb("viewer", now, Forwarded(Shifted(a)), a[1] * 2^a[2]) ELSE remb
  /\ UNCHANGED <<scene, now, limit, cap, notified, initialized, running, active, estimator,
                 sending, updates>>

Tick ==
  /\ now < MaxTime /\ now' = now + 1
  /\ UNCHANGED <<scene, limit, cap, notified, initialized, running, active, estimator, sending,
                 remb, updates>>

Next ==
  \/ \E bw \in Limits : SetMaxVideoBW(bw)
  \/ NotifyUpdate
  \/ \E b \in BOOLEAN : SetActive(b) \/ Read(b)
  \/ \E r \in Estimates : OnReceiveBitrateChanged(r)
  \/ \E c \in Compounds, a \in Announced : AnalyzeFeedback(c, a)
  \/ Tick

Spec == Init /\ [][Next]_vars

-----------------------------------------------------------------------------
(* Properties.                                                             *)

\* The estimator in use goes by the extension exactly if one of the last packets
\* had it, whatever mixture of packets came (BandwidthEstimationHandler.cpp:191).
EstimatorFits ==
  absolute = \E i \in DOMAIN arrived : arrived[i] /\ i > Len(arrived) - SwitchAfter

\* A REMB is never above what was estimated or announced nor above the limit, as
\* far as its sender was told of it, although its mantissa is short.
RembWithin ==
  remb' # remb =>
    /\ remb'.rate <= remb'.of
    /\ remb'.rate <= (IF remb'.by = "viewer" THEN limit ELSE cap)

\* The estimator's come an interval after one another, and sooner only when the
\* estimate fell or lies at the bottom (BandwidthEstimationHandler.cpp:238).
Paced ==
  lastRemb' # lastRemb =>
    now - lastRemb >= Interval \/ bitrate' < bitrate \/ bitrate' = MinBitrate

\* The three together: what a publisher is told.
ToldStep == EstimatorFits' /\ RembWithin /\ Paced
Told == [][ToldStep]_vars
=============================================================================
