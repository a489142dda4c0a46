------------------------------ MODULE KcpProof ------------------------------
(***************************************************************************)
(* Proofs about Kcp, for all values of its constants.                      *)
(***************************************************************************)
EXTENDS Kcp, SequenceTheorems, TLAPS

(* The peer of a peer.                                                     *)
LEMMA OtherPeer ==
    ASSUME NEW p \in Peers
    PROVE  /\ Other(p) \in Peers /\ Other(p) # p /\ Other(Other(p)) = p
           /\ \A q \in Peers : q = p \/ q = Other(p)
BY DEF Peers, Other

(* Movable is a number of segments of snd_queue.                           *)
LEMMA MovableType ==
    ASSUME TypeOK, NEW p \in Peers
    PROVE  /\ Window(p) \in Nat /\ Window(p) <= SndWnd
           /\ Movable(p) \in Nat /\ Movable(p) <= Len(snd_queue[p])
           /\ Movable(p) = 0 \/ snd_nxt[p] + Movable(p) <= snd_una[p] + Window(p)
<1>1. /\ snd_queue[p] \in Seq(Frag) /\ Len(snd_queue[p]) \in Nat
      /\ snd_una[p] \in Nat /\ snd_nxt[p] \in Nat /\ rmt_wnd[p] \in Nat
  BY DEF TypeOK, SndType
<1>1a. cc[p].cwnd \in Nat /\ SndWnd \in Nat
  BY KcpAssumption DEF TypeOK, CtlType
<1>2. Window(p) \in Nat /\ Window(p) <= SndWnd
  BY <1>1, <1>1a DEF Window, Min2
<1>3. snd_una[p] + Window(p) - snd_nxt[p] \in Int
  BY <1>1, <1>2
<1> QED
  BY <1>1, <1>2, <1>3, SMTT(60) DEF Movable, Min2, Max2

(* The loop of ikcp_parse_data and ikcp_recv keeps the receiver's types.   *)
LEMMA MoveReadyType ==
    ASSUME TypeOK, NEW p \in Peers, NEW buf, NEW queue \in Seq(Frag),
           DOMAIN buf \subseteq Nat, buf \in [DOMAIN buf -> Frag],
           MoveReady(p, buf, queue)
    PROVE  /\ rcv_queue' \in [Peers -> Seq(Frag)]
           /\ rcv_nxt' \in [Peers -> Nat]
           /\ rcv_buf' = [q \in Peers |-> rcv_buf'[q]]
           /\ \A q \in Peers : /\ DOMAIN rcv_buf'[q] \subseteq Nat
                               /\ rcv_buf'[q] \in [DOMAIN rcv_buf'[q] -> Frag]
<1>0. /\ rcv_nxt \in [Peers -> Nat] /\ rcv_queue \in [Peers -> Seq(Frag)]
      /\ rcv_buf = [q \in Peers |-> rcv_buf[q]]
      /\ \A q \in Peers : /\ DOMAIN rcv_buf[q] \subseteq Nat
                          /\ rcv_buf[q] \in [DOMAIN rcv_buf[q] -> Frag]
  BY DEF TypeOK, RcvType
<1>1. PICK k \in 0 .. RcvWnd :
        /\ Ready(p, buf, queue, k)
        /\ rcv_queue' = [rcv_queue EXCEPT ![p] =
               queue \o [i \in 1 .. k |-> buf[rcv_nxt[p] + i - 1]]]
        /\ rcv_buf' = [rcv_buf EXCEPT ![p] = Remaining(p, buf, k)]
        /\ rcv_nxt' = [rcv_nxt EXCEPT ![p] = @ + k]
  BY DEF MoveReady
<1>2. k \in Nat /\ rcv_nxt[p] \in Nat
  BY <1>0
<1>3. [i \in 1 .. k |-> buf[rcv_nxt[p] + i - 1]] \in Seq(Frag)
  <2>1. \A i \in 1 .. k : buf[rcv_nxt[p] + i - 1] \in Frag
    <3>1. TAKE i \in 1 .. k
    <3>2. i - 1 \in 0 .. (k - 1) /\ rcv_nxt[p] + (i - 1) = rcv_nxt[p] + i - 1
      BY <1>2
    <3>3. rcv_nxt[p] + (i - 1) \in DOMAIN buf
      BY <1>1, <3>2 DEF Ready
    <3> QED BY <3>2, <3>3
  <2> QED BY <1>2, <2>1
<1>4. queue \o [i \in 1 .. k |-> buf[rcv_nxt[p] + i - 1]] \in Seq(Frag)
  BY <1>3
<1>5. /\ DOMAIN Remaining(p, buf, k) \subseteq Nat
      /\ Remaining(p, buf, k) \in [DOMAIN Remaining(p, buf, k) -> Frag]
  BY DEF Remaining
<1>6. rcv_queue' \in [Peers -> Seq(Frag)]
  BY <1>0, <1>1, <1>4
<1>7. rcv_nxt' \in [Peers -> Nat]
  BY <1>0, <1>1, <1>2
<1>8. rcv_buf' = [q \in Peers |-> rcv_buf'[q]]
  BY <1>0, <1>1
<1>9. \A q \in Peers : rcv_buf'[q] = IF q = p THEN Remaining(p, buf, k) ELSE rcv_buf[q]
  BY <1>0, <1>1
<1> QED BY <1>0, <1>5, <1>6, <1>7, <1>8, <1>9

-----------------------------------------------------------------------------
(* Type correctness, action by action.                                     *)

LEMMA FragmentsType ==
    ASSUME NEW m \in Nat, NEW k \in Nat
    PROVE  Fragments(m, k) \in Seq(Frag) /\ Len(Fragments(m, k)) = k
<1>1. \A i \in 1 .. k : [msg |-> m, frg |-> k - i] \in Frag
  BY DEF Frag
<1> QED BY <1>1 DEF Fragments

LEMMA SendType ==
    ASSUME TypeOK, NEW p \in Peers, NEW k \in MsgSizes, Send(p, k)
    PROVE  TypeOK'
<1>1. k \in Nat /\ Len(stream[p]) \in Nat
  BY KcpAssumption DEF TypeOK, AppType
<1>2. Fragments(Len(stream[p]), k) \in Seq(Frag)
  BY <1>1, FragmentsType
<1>3. SndType'
  BY <1>2 DEF TypeOK, SndType, Send
<1>4. AppType'
  BY <1>2 DEF TypeOK, AppType, Send
<1>5. RcvType' /\ CtlType' /\ NetType'
  BY DEF TypeOK, RcvType, CtlType, NetType, Send, rcvVars, ctlVars, netVars
<1> QED BY <1>3, <1>4, <1>5 DEF TypeOK

LEMMA RecvType ==
    ASSUME TypeOK, NEW p \in Peers, Recv(p)
    PROVE  TypeOK'
<1>0. /\ rcv_queue[p] \in Seq(Frag) /\ delivered[p] \in Seq(Frag)
      /\ DOMAIN rcv_buf[p] \subseteq Nat
      /\ rcv_buf[p] \in [DOMAIN rcv_buf[p] -> Frag]
  BY DEF TypeOK, RcvType, AppType
<1>1. PICK k \in 1 .. Len(rcv_queue[p]) :
          /\ Merged(rcv_queue[p], k)
          /\ delivered' = [delivered EXCEPT ![p] = @ \o SubSeq(rcv_queue[p], 1, k)]
          /\ MoveReady(p, rcv_buf[p], SubSeq(rcv_queue[p], k + 1, Len(rcv_queue[p])))
  BY DEF Recv
<1>2. /\ SubSeq(rcv_queue[p], 1, k) \in Seq(Frag)
      /\ SubSeq(rcv_queue[p], k + 1, Len(rcv_queue[p])) \in Seq(Frag)
  BY <1>0
<1>3. RcvType'
  BY <1>0, <1>1, <1>2, MoveReadyType DEF RcvType
<1>4. AppType'
  BY <1>0, <1>1, <1>2 DEF TypeOK, AppType, Recv
<1>5. CtlType'
  BY DEF TypeOK, CtlType, Recv, Probes, sndVars
<1>6. SndType' /\ NetType'
  BY DEF TypeOK, SndType, NetType, Recv, sndVars, netVars
<1> QED BY <1>3, <1>4, <1>5, <1>6 DEF TypeOK

(* The arithmetic of the congestion window stays in the naturals.          *)
LEMMA GrowType ==
    ASSUME NEW c \in [cwnd : Nat, ssthresh : Nat, incr : Nat], NEW wnd \in Nat
    PROVE  Grow(c, wnd) \in [cwnd : Nat, ssthresh : Nat, incr : Nat]
<1> DEFINE i == Max2(c.incr, Mss)
<1> DEFINE m2 == Mss * Mss
<1>1. Mss \in Nat /\ Mss > 0
  BY KcpAssumption
<1>2. i \in Nat /\ i > 0
  BY <1>1 DEF Max2
<1>3. m2 \in Nat
  BY <1>1
<1>4. m2 \div i \in Nat
  <2> HIDE DEF m2, i
  <2> QED BY <1>2, <1>3
<1>5. Mss \div 16 \in Nat
  BY <1>1
<1>6. i + m2 \div i + Mss \div 16 \in Nat
  <2> HIDE DEF m2, i
  <2> QED BY <1>2, <1>4, <1>5
<1>7. wnd * Mss \in Nat
  BY <1>1
<1> DEFINE nincr == IF c.cwnd < c.ssthresh THEN c.incr + Mss ELSE i + m2 \div i + Mss \div 16
<1> DEFINE ncwnd == IF c.cwnd < c.ssthresh \/ (c.cwnd + 1) * Mss <= nincr
                    THEN c.cwnd + 1 ELSE c.cwnd
<1>8. nincr \in Nat
  <2> HIDE DEF m2, i
  <2> QED BY <1>1, <1>6
<1>9. ncwnd \in Nat
  <2> HIDE DEF nincr
  <2> QED OBVIOUS
<1>10. Grow(c, wnd) = IF c.cwnd >= wnd THEN c
                      ELSE IF ncwnd > wnd THEN [c EXCEPT !.cwnd = wnd, !.incr = wnd * Mss]
                      ELSE [c EXCEPT !.cwnd = ncwnd, !.incr = nincr]
  BY DEF Grow
<1> HIDE DEF nincr, ncwnd
<1> QED BY <1>7, <1>8, <1>9, <1>10

(* parse_una, parse_ack, shrink_buf and parse_fastack.                     *)
LEMMA AcknowledgeType ==
    ASSUME TypeOK, NEW p \in Peers, NEW una \in Nat, NEW acks \in SUBSET Nat,
           NEW wnd \in Nat, Acknowledge(p, una, acks, wnd)
    PROVE  SndType' /\ cc' \in [Peers -> [cwnd : Nat, ssthresh : Nat, incr : Nat]]
<1> DEFINE left == Unacked(p, una, acks)
<1>0. /\ left \subseteq DOMAIN snd_buf[p] /\ left \subseteq Nat
      /\ \A sn \in left : snd_buf[p][sn] \in SndSeg /\ SndSegOK(snd_buf[p][sn])
  BY DEF TypeOK, SndType, Unacked
<1>1. \A sn \in left : /\ Skip(snd_buf[p][sn]) \in SndSeg
                       /\ SndSegOK(Skip(snd_buf[p][sn]))
  <2>1. FastResend \in Nat
    BY KcpAssumption
  <2> QED BY <1>0, <2>1 DEF Skip, SndSeg, SndSegOK, Min2
<1>2. PICK u \in left \cup {snd_nxt[p]} :
        /\ snd_una' = [snd_una EXCEPT ![p] = u]
        /\ cc' = [cc EXCEPT ![p] =
               IF ~NoCwnd /\ u > snd_una[p] THEN Grow(@, wnd) ELSE @]
  BY DEF Acknowledge
<1>3. u \in Nat
  BY <1>0, <1>2 DEF TypeOK, SndType
<1>4. snd_una' \in [Peers -> Nat] /\ rmt_wnd' \in [Peers -> Nat]
      /\ snd_queue' \in [Peers -> Seq(Frag)] /\ snd_nxt' \in [Peers -> Nat]
  BY <1>2, <1>3 DEF TypeOK, SndType, Acknowledge
<1>5. cc' \in [Peers -> [cwnd : Nat, ssthresh : Nat, incr : Nat]]
  BY <1>2, GrowType DEF TypeOK, CtlType
<1> DEFINE buf == [sn \in left |-> IF Skipped(p, sn, acks) THEN Skip(snd_buf[p][sn])
                                                           ELSE snd_buf[p][sn]]
<1>6. snd_buf' = [snd_buf EXCEPT ![p] = buf]
  BY DEF Acknowledge
<1>7. buf \in [left -> SndSeg] /\ \A sn \in left : SndSegOK(buf[sn])
  BY <1>0, <1>1
<1>8. DOMAIN buf = left
  OBVIOUS
<1> HIDE DEF buf, left
<1>9. snd_buf' = [q \in Peers |-> snd_buf'[q]]
      /\ \A q \in Peers : snd_buf'[q] = IF q = p THEN buf ELSE snd_buf[q]
  BY <1>6 DEF TypeOK, SndType
<1>10. \A q \in Peers : /\ DOMAIN snd_buf'[q] \subseteq Nat
                        /\ snd_buf'[q] \in [DOMAIN snd_buf'[q] -> SndSeg]
                        /\ \A sn \in DOMAIN snd_buf'[q] : SndSegOK(snd_buf'[q][sn])
  BY <1>0, <1>7, <1>8, <1>9 DEF TypeOK, SndType
<1> QED BY <1>4, <1>5, <1>9, <1>10 DEF SndType

LEMMA TakeType ==
    ASSUME TypeOK, NEW p \in Peers, NEW d, Take(p, d)
    PROVE  NetType' /\ (d \in Ctl \/ d \in Push)
<1>1. MaxDup \in Nat
  BY KcpAssumption
<1> QED BY <1>1 DEF TypeOK, NetType, Take

LEMMA InputCtlType ==
    ASSUME TypeOK, NEW p \in Peers, NEW d, InputCtl(p, d)
    PROVE  TypeOK'
<1>1. NetType' /\ d \in Ctl
  <2>1. NetType' /\ (d \in Ctl \/ d \in Push)
    BY TakeType DEF InputCtl
  <2> QED BY <2>1 DEF InputCtl, Push
<1>2. d.una \in Nat /\ d.wnd \in Nat /\ d.acks \in SUBSET Nat
  BY <1>1 DEF Ctl
<1>3. SndType' /\ cc' \in [Peers -> [cwnd : Nat, ssthresh : Nat, incr : Nat]]
  BY <1>2, AcknowledgeType DEF InputCtl
<1>4. CtlType'
  BY <1>3 DEF TypeOK, CtlType, InputCtl, Probes
<1>5. RcvType' /\ AppType'
  BY DEF TypeOK, RcvType, AppType, InputCtl, rcvVars, appVars
<1> QED BY <1>1, <1>3, <1>4, <1>5 DEF TypeOK

LEMMA InputPushType ==
    ASSUME TypeOK, NEW p \in Peers, NEW d, InputPush(p, d)
    PROVE  TypeOK'
<1>1. NetType' /\ d \in Push
  <2>1. NetType' /\ (d \in Ctl \/ d \in Push)
    BY TakeType DEF InputPush
  <2> QED BY <2>1 DEF InputPush, Ctl
<1>2. d.una \in Nat /\ d.wnd \in Nat /\ d.sn \in Nat /\ d.frag \in Frag
  BY <1>1 DEF Push
<1>3. SndType' /\ cc' \in [Peers -> [cwnd : Nat, ssthresh : Nat, incr : Nat]]
  BY <1>2, AcknowledgeType DEF InputPush
<1>4. CtlType'
  BY <1>2, <1>3 DEF TypeOK, CtlType, InputPush
<1>5. RcvType'
  <2>1. CASE InWindow(p, d.sn)
    <3> DEFINE buf == Insert(rcv_buf[p], d.sn, d.frag)
    <3>1. DOMAIN buf \subseteq Nat /\ buf \in [DOMAIN buf -> Frag]
      BY <1>2 DEF TypeOK, RcvType, Insert
    <3>2. MoveReady(p, buf, rcv_queue[p]) /\ rcv_queue[p] \in Seq(Frag)
      BY <2>1 DEF InputPush, TypeOK, RcvType
    <3> HIDE DEF buf
    <3> QED BY <3>1, <3>2, MoveReadyType DEF RcvType
  <2>2. CASE ~InWindow(p, d.sn)
    BY <2>2 DEF TypeOK, RcvType, InputPush, rcvVars
  <2> QED BY <2>1, <2>2
<1>6. AppType'
  BY DEF TypeOK, AppType, InputPush, appVars
<1> QED BY <1>1, <1>3, <1>4, <1>5, <1>6 DEF TypeOK

(* The queue a flush leaves in snd_buf before it sends: what was there and *)
(* the segments taken from snd_queue.                                      *)
LEMMA FilledType ==
    ASSUME TypeOK, NEW p \in Peers
    PROVE  /\ DOMAIN Filled(p) = DOMAIN snd_buf[p] \cup
                                 (snd_nxt[p] .. (snd_nxt[p] + Movable(p) - 1))
           /\ DOMAIN Filled(p) \subseteq Nat
           /\ \A sn \in DOMAIN Filled(p) :
                 Filled(p)[sn] \in SndSeg /\ SndSegOK(Filled(p)[sn])
<1>1. /\ Movable(p) \in Nat /\ Movable(p) <= Len(snd_queue[p])
      /\ snd_nxt[p] \in Nat /\ snd_queue[p] \in Seq(Frag)
  BY MovableType DEF TypeOK, SndType
<1>2. DOMAIN snd_buf[p] \subseteq Nat
      /\ \A sn \in DOMAIN snd_buf[p] : snd_buf[p][sn] \in SndSeg /\ SndSegOK(snd_buf[p][sn])
  BY DEF TypeOK, SndType
<1>3. DeadLink \in Nat /\ FastResend \in Nat
  BY KcpAssumption
<1>4. \A sn \in snd_nxt[p] .. (snd_nxt[p] + Movable(p) - 1) :
         snd_queue[p][sn - snd_nxt[p] + 1] \in Frag
  BY <1>1
<1>5. \A f \in Frag : /\ [frag |-> f, xmit |-> 0, fastack |-> 0] \in SndSeg
                      /\ SndSegOK([frag |-> f, xmit |-> 0, fastack |-> 0])
  BY <1>3 DEF SndSeg, SndSegOK
<1> QED BY <1>1, <1>2, <1>4, <1>5 DEF Filled

LEMMA TransmitType ==
    ASSUME NEW seg \in SndSeg, SndSegOK(seg), NEW sn, NEW expired
    PROVE  Transmit(seg, sn, expired) \in SndSeg /\ SndSegOK(Transmit(seg, sn, expired))
           /\ Transmit(seg, sn, expired).frag = seg.frag
<1>1. DeadLink \in Nat /\ FastResend \in Nat
  BY KcpAssumption
<1>2. Min2(seg.xmit + 1, DeadLink) \in 0 .. DeadLink
  BY <1>1 DEF Min2, SndSegOK
<1> QED BY <1>1, <1>2 DEF Transmit, SndSeg, SndSegOK

LEMMA ShrinkType ==
    ASSUME NEW c \in [cwnd : Nat, ssthresh : Nat, incr : Nat],
           NEW inflight \in Int, NEW change \in BOOLEAN, NEW lost \in BOOLEAN,
           NEW w \in Nat
    PROVE  Shrink(c, inflight, change, lost, w) \in [cwnd : Nat, ssthresh : Nat, incr : Nat]
<1>1. Mss \in Nat /\ FastResend \in Nat
  BY KcpAssumption
<1> DEFINE ss == Max2(inflight \div 2, ThreshMin)
<1>2. ss \in Nat
  <2>1. inflight \div 2 \in Int
    OBVIOUS
  <2>2. \A x \in Int : Max2(x, ThreshMin) \in Nat
    BY DEF Max2, ThreshMin
  <2> QED BY <2>1, <2>2
<1>3. (ss + FastResend) * Mss \in Nat
  <2> HIDE DEF ss
  <2> QED BY <1>1, <1>2
<1>4. Max2(w \div 2, ThreshMin) \in Nat
  BY DEF Max2, ThreshMin
<1> DEFINE fast == [cwnd |-> ss + FastResend, ssthresh |-> ss,
                    incr |-> (ss + FastResend) * Mss]
<1> DEFINE slow == [cwnd |-> 1, incr |-> Mss, ssthresh |-> Max2(w \div 2, ThreshMin)]
<1> DEFINE c2 == IF lost THEN slow ELSE IF change THEN fast ELSE c
<1>5. c2 \in [cwnd : Nat, ssthresh : Nat, incr : Nat]
  <2> HIDE DEF ss
  <2> QED BY <1>1, <1>2, <1>3, <1>4
<1>6. Shrink(c, inflight, change, lost, w) =
        IF c2.cwnd < 1 THEN [cwnd |-> 1, ssthresh |-> c2.ssthresh, incr |-> Mss]
        ELSE c2
  BY DEF Shrink
<1> HIDE DEF c2
<1> QED BY <1>1, <1>5, <1>6

LEMMA FlushType ==
    ASSUME TypeOK, NEW p \in Peers, NEW expired, NEW due, Flush(p, expired, due)
    PROVE  TypeOK'
<1> DEFINE buf == Filled(p)
<1> DEFINE send == {sn \in DOMAIN buf : NeedSend(buf[sn], sn, expired)}
<1> DEFINE nbuf == [sn \in DOMAIN buf |-> Transmit(buf[sn], sn, expired)]
<1> DEFINE wnd == EncodeWnd(WndUnused(p))
<1>0. /\ Movable(p) \in Nat /\ Movable(p) <= Len(snd_queue[p])
      /\ snd_nxt[p] \in Nat /\ snd_una[p] \in Nat
      /\ Window(p) \in Nat /\ snd_queue[p] \in Seq(Frag)
  BY MovableType DEF TypeOK, SndType
<1>1. /\ DOMAIN buf \subseteq Nat
      /\ \A sn \in DOMAIN buf : buf[sn] \in SndSeg /\ SndSegOK(buf[sn])
  BY FilledType
<1>2. nbuf \in [DOMAIN nbuf -> SndSeg] /\ DOMAIN nbuf \subseteq Nat
      /\ \A sn \in DOMAIN nbuf : SndSegOK(nbuf[sn])
  BY <1>1, TransmitType
<1>3. snd_buf' = [snd_buf EXCEPT ![p] = nbuf]
  BY DEF Flush
<1> HIDE DEF nbuf, buf
<1>4. snd_buf' = [q \in Peers |-> snd_buf'[q]]
      /\ \A q \in Peers : snd_buf'[q] = IF q = p THEN nbuf ELSE snd_buf[q]
  BY <1>3 DEF TypeOK, SndType
<1>5. \A q \in Peers : /\ DOMAIN snd_buf'[q] \subseteq Nat
                       /\ snd_buf'[q] \in [DOMAIN snd_buf'[q] -> SndSeg]
                       /\ \A sn \in DOMAIN snd_buf'[q] : SndSegOK(snd_buf'[q][sn])
  BY <1>2, <1>4 DEF TypeOK, SndType
<1>6. /\ snd_queue' = [snd_queue EXCEPT ![p] =
             SubSeq(snd_queue[p], Movable(p) + 1, Len(snd_queue[p]))]
      /\ snd_nxt' = [snd_nxt EXCEPT ![p] = snd_nxt[p] + Movable(p)]
      /\ snd_una' = snd_una /\ rmt_wnd' = rmt_wnd
  BY DEF Flush, TypeOK, SndType
<1>7. SubSeq(snd_queue[p], Movable(p) + 1, Len(snd_queue[p])) \in Seq(Frag)
  BY <1>0
<1>8. SndType'
  <2>1. /\ snd_queue' \in [Peers -> Seq(Frag)] /\ snd_nxt' \in [Peers -> Nat]
        /\ snd_una' \in [Peers -> Nat] /\ rmt_wnd' \in [Peers -> Nat]
    BY <1>0, <1>6, <1>7, SMTT(60) DEF TypeOK, SndType
  <2> QED BY <1>4, <1>5, <2>1 DEF SndType
<1>9. RcvType' /\ AppType'
  BY DEF TypeOK, RcvType, AppType, Flush, rcvVars, appVars
<1>10. cc' \in [Peers -> [cwnd : Nat, ssthresh : Nat, incr : Nat]]
  <2> DEFINE change == \E sn \in DOMAIN Filled(p) : FastDue(Filled(p)[sn], sn, expired)
  <2> DEFINE lost == \E sn \in DOMAIN Filled(p) : TimedOut(Filled(p)[sn], sn, expired)
  <2> DEFINE inflight == snd_nxt[p] + Movable(p) - snd_una[p]
  <2>1. cc' = [cc EXCEPT ![p] =
                  IF NoCwnd THEN @ ELSE Shrink(@, inflight, change, lost, Window(p))]
    BY DEF Flush
  <2>2. inflight \in Int /\ change \in BOOLEAN /\ lost \in BOOLEAN
    BY <1>0
  <2> HIDE DEF change, lost, inflight
  <2> QED BY <1>0, <2>1, <2>2, ShrinkType DEF TypeOK, CtlType
<1>11. CtlType'
  BY <1>10 DEF TypeOK, CtlType, Flush
<1>12. wnd \in Nat
  <2>1. RcvWnd \in Nat /\ Len(rcv_queue[p]) \in Nat
    BY KcpAssumption DEF TypeOK, RcvType
  <2>2. WndUnused(p) \in Nat
    BY <2>1 DEF WndUnused, Max2
  <2> QED BY <2>2 DEF EncodeWnd
<1>13. rcv_nxt[p] \in Nat /\ acklist[p] \in SUBSET Nat /\ probe[p] \in SUBSET Probes
  BY DEF TypeOK, RcvType, CtlType
<1> DEFINE cmds == probe[p] \cup (IF ProbeDue(p, due) THEN {"WASK"} ELSE {})
<1>14. cmds \in SUBSET Probes
  BY <1>13 DEF Probes
<1>15. [kind |-> "ctl", una |-> rcv_nxt[p], wnd |-> wnd,
        acks |-> acklist[p], probe |-> cmds] \in Ctl
  <2> HIDE DEF wnd, cmds
  <2> QED BY <1>12, <1>13, <1>14 DEF Ctl
<1>16. \A sn \in send : [kind |-> "push", una |-> rcv_nxt[p], wnd |-> wnd, sn |-> sn,
                         frag |-> EncodeFrag(buf[sn].frag)] \in Push
  <2>1. \A f \in Frag : EncodeFrag(f) \in Frag
    BY DEF EncodeFrag, Frag
  <2>2. \A sn \in send : sn \in Nat /\ buf[sn].frag \in Frag
    BY <1>1 DEF SndSegOK
  <2> HIDE DEF wnd, send
  <2> QED BY <1>12, <1>13, <2>1, <2>2 DEF Push
<1> DEFINE ctl == IF acklist[p] = {} /\ cmds = {} THEN {}
                  ELSE {[kind |-> "ctl", una |-> rcv_nxt[p], wnd |-> wnd,
                         acks |-> acklist[p], probe |-> cmds]}
<1> DEFINE push == {[kind |-> "push", una |-> rcv_nxt[p], wnd |-> wnd, sn |-> sn,
                     frag |-> EncodeFrag(buf[sn].frag)] : sn \in send}
<1>17. net' = [net EXCEPT ![Other(p)] = @ \cup ctl \cup push] /\ dups' = dups
  BY DEF Flush, buf
<1>18. (\A d \in ctl : d \in Ctl) /\ (\A d \in push : d \in Push)
  <2> HIDE DEF wnd, send, cmds
  <2> QED BY <1>15, <1>16
<1> HIDE DEF ctl, push
<1>19. NetType'
  BY <1>17, <1>18 DEF TypeOK, NetType
<1> QED BY <1>8, <1>9, <1>11, <1>19 DEF TypeOK

LEMMA LoseType ==
    ASSUME TypeOK, NEW p \in Peers, NEW d, Lose(p, d)
    PROVE  TypeOK'
<1>1. NetType'
  BY DEF TypeOK, NetType, Lose
<1>2. SndType' /\ RcvType' /\ CtlType' /\ AppType'
  BY DEF TypeOK, SndType, RcvType, CtlType, AppType, Lose,
         sndVars, rcvVars, ctlVars, appVars
<1> QED BY <1>1, <1>2 DEF TypeOK

LEMMA InitType == Init => TypeOK
<1> SUFFICES ASSUME Init PROVE TypeOK
  OBVIOUS
<1>1. RcvWnd \in Nat /\ MaxDup \in Nat /\ DeadLink \in Nat
  BY KcpAssumption
<1>2. SndType
  BY <1>1 DEF Init, SndType
<1>3. RcvType
  BY DEF Init, RcvType
<1>4. CtlType
  BY DEF Init, CtlType, ThreshMin
<1>5. NetType /\ AppType
  BY <1>1 DEF Init, NetType, AppType
<1> QED BY <1>2, <1>3, <1>4, <1>5 DEF TypeOK

LEMMA StepType == TypeOK /\ [Next]_vars => TypeOK'
<1> SUFFICES ASSUME TypeOK, [Next]_vars PROVE TypeOK'
  OBVIOUS
<1>1. ASSUME NEW p \in Peers, NEW k \in MsgSizes, Send(p, k) PROVE TypeOK'
  BY <1>1, SendType
<1>2. ASSUME NEW p \in Peers, Recv(p) PROVE TypeOK'
  BY <1>2, RecvType
<1>3. ASSUME NEW p \in Peers, Update(p) PROVE TypeOK'
  BY <1>3, FlushType DEF Update
<1>4. ASSUME NEW p \in Peers, NEW d \in net[p], InputCtl(p, d) PROVE TypeOK'
  BY <1>4, InputCtlType
<1>5. ASSUME NEW p \in Peers, NEW d \in net[p], InputPush(p, d) PROVE TypeOK'
  BY <1>5, InputPushType
<1>6. ASSUME NEW p \in Peers, NEW d \in net[p], Lose(p, d) PROVE TypeOK'
  BY <1>6, LoseType
<1>7. CASE UNCHANGED vars
  BY <1>7 DEF TypeOK, SndType, RcvType, CtlType, NetType, AppType, vars,
              sndVars, rcvVars, ctlVars, netVars, appVars
<1> QED BY <1>1, <1>2, <1>3, <1>4, <1>5, <1>6, <1>7 DEF Next

(* The control blocks and the network stay well formed whatever the order, *)
(* loss and repetition of the datagrams given to ikcp_input.               *)
THEOREM TypeCorrect == Spec => []TypeOK
<1>1. Init => TypeOK
  BY InitType
<1>2. TypeOK /\ [Next]_vars => TypeOK'
  BY StepType
<1> QED BY <1>1, <1>2, PTL DEF Spec

-----------------------------------------------------------------------------
(* The inductive invariant.                                                *)

(* The elements of a concatenation.                                        *)
LEMMA ConcatFacts ==
    ASSUME NEW S, NEW s \in Seq(S), NEW t \in Seq(S)
    PROVE  /\ s \o t \in Seq(S) /\ Len(s \o t) = Len(s) + Len(t)
           /\ Len(s) \in Nat /\ Len(t) \in Nat
           /\ \A i \in 1 .. Len(s) : (s \o t)[i] = s[i]
           /\ \A i \in (Len(s) + 1) .. (Len(s) + Len(t)) : (s \o t)[i] = t[i - Len(s)]
OBVIOUS

(* What the move loop does to the receiver's history: with del given to    *)
(* the application and queue waiting, the fragments moved continue the     *)
(* peer's stream.                                                          *)
LEMMA MoveReadyInv ==
    ASSUME TypeOK, NEW p \in Peers, NEW buf, NEW queue \in Seq(Frag),
           NEW del \in Seq(Frag),
           DOMAIN buf \subseteq rcv_nxt[p] .. (rcv_nxt[p] + RcvWnd - 1),
           \A sn \in DOMAIN buf : /\ sn < snd_nxt[Other(p)] /\ buf[sn] \in Frag
                                  /\ buf[sn] = stream[Other(p)][sn + 1],
           rcv_nxt[p] <= snd_nxt[Other(p)],
           Len(queue) <= RcvWnd,
           Len(del) + Len(queue) = rcv_nxt[p],
           \A i \in 1 .. rcv_nxt[p] : (del \o queue)[i] = stream[Other(p)][i],
           MoveReady(p, buf, queue)
    PROVE LET str == stream[Other(p)]
              N == snd_nxt[Other(p)]
          IN
           /\ rcv_nxt[p] <= rcv_nxt'[p] /\ rcv_nxt'[p] <= N
           /\ Len(rcv_queue'[p]) <= RcvWnd
           /\ Len(del) + Len(rcv_queue'[p]) = rcv_nxt'[p]
           /\ \A i \in 1 .. rcv_nxt'[p] : (del \o rcv_queue'[p])[i] = str[i]
           /\ DOMAIN rcv_buf'[p] \subseteq rcv_nxt'[p] .. (rcv_nxt'[p] + RcvWnd - 1)
           /\ \A sn \in DOMAIN rcv_buf'[p] : sn < N /\ rcv_buf'[p][sn] = str[sn + 1]
           /\ \A sn \in DOMAIN buf : sn < rcv_nxt'[p] \/ sn \in DOMAIN rcv_buf'[p]
           /\ \A q \in Peers \ {p} : /\ rcv_nxt'[q] = rcv_nxt[q]
                                     /\ rcv_queue'[q] = rcv_queue[q]
                                     /\ rcv_buf'[q] = rcv_buf[q]
<1> DEFINE str == stream[Other(p)]
<1> DEFINE N == snd_nxt[Other(p)]
<1>0. /\ rcv_nxt \in [Peers -> Nat] /\ rcv_queue \in [Peers -> Seq(Frag)]
      /\ rcv_buf = [q \in Peers |-> rcv_buf[q]]
      /\ RcvWnd \in Nat
  BY KcpAssumption DEF TypeOK, RcvType
<1>0a. N \in Nat /\ rcv_nxt[p] <= N
  BY OtherPeer DEF TypeOK, SndType
<1>0b. \A sn \in DOMAIN buf : sn < N /\ buf[sn] = str[sn + 1] /\ buf[sn] \in Frag
  OBVIOUS
<1>0c. \A i \in 1 .. rcv_nxt[p] : (del \o queue)[i] = str[i]
  OBVIOUS
<1> HIDE DEF N, str
<1>1. PICK k \in 0 .. RcvWnd :
        /\ Ready(p, buf, queue, k)
        /\ rcv_queue' = [rcv_queue EXCEPT ![p] =
               queue \o [i \in 1 .. k |-> buf[rcv_nxt[p] + i - 1]]]
        /\ rcv_buf' = [rcv_buf EXCEPT ![p] = Remaining(p, buf, k)]
        /\ rcv_nxt' = [rcv_nxt EXCEPT ![p] = @ + k]
  BY DEF MoveReady
<1> DEFINE n == rcv_nxt[p]
<1> DEFINE moved == [i \in 1 .. k |-> buf[n + i - 1]]
<1>2. k \in Nat /\ n \in Nat /\ k <= RcvWnd - Len(queue)
  BY <1>0, <1>1 DEF Ready
<1>2a. \A i \in 0 .. (k - 1) : n + i \in DOMAIN buf
  BY <1>1 DEF Ready
<1>2b. /\ n <= N /\ Len(del) + Len(queue) = n
       /\ Len(del) \in Nat /\ Len(queue) \in Nat
  BY <1>0a
<1>2c. \A i \in 1 .. n : (del \o queue)[i] = str[i]
  BY <1>0c
<1>2d. DOMAIN buf \subseteq n .. (n + RcvWnd - 1)
  OBVIOUS
<1>3. \A i \in 1 .. k : /\ n + i - 1 \in DOMAIN buf
                        /\ moved[i] = buf[n + i - 1] /\ moved[i] \in Frag
                        /\ moved[i] = str[n + i]
  <2>1. TAKE i \in 1 .. k
  <2>2. i - 1 \in 0 .. (k - 1) /\ n + (i - 1) = n + i - 1 /\ n + i - 1 + 1 = n + i
    <3> HIDE DEF n
    <3> QED BY <1>2
  <2>3. n + (i - 1) \in DOMAIN buf
    BY <1>2a, <2>2
  <2>4. n + i - 1 \in DOMAIN buf
    BY <2>2, <2>3
  <2>5. buf[n + i - 1] = str[n + i - 1 + 1] /\ buf[n + i - 1] \in Frag
    BY <1>0b, <2>4
  <2>6. moved[i] = buf[n + i - 1]
    OBVIOUS
  <2> HIDE DEF moved, n
  <2> QED BY <2>2, <2>4, <2>5, <2>6
<1>4. moved \in Seq(Frag) /\ Len(moved) = k
  <2>1. \A i \in 1 .. k : buf[n + i - 1] \in Frag
    BY <1>3
  <2> HIDE DEF n
  <2> QED BY <1>2, <2>1
<1>5. /\ rcv_nxt'[p] = n + k
      /\ rcv_queue'[p] = queue \o moved
      /\ rcv_buf'[p] = Remaining(p, buf, k)
      /\ \A q \in Peers \ {p} : /\ rcv_nxt'[q] = rcv_nxt[q]
                                /\ rcv_queue'[q] = rcv_queue[q]
                                /\ rcv_buf'[q] = rcv_buf[q]
  BY <1>0, <1>1
<1> HIDE DEF moved, n
<1>6. n <= n + k /\ n + k <= N
  <2>1. CASE k = 0
    BY <1>2, <1>2b, <2>1
  <2>2. CASE k # 0
    <3>1. k \in 1 .. k
      BY <1>2, <2>2
    <3>2. n + k - 1 \in DOMAIN buf
      BY <1>3, <3>1
    <3>3. n + k - 1 < N
      BY <1>0b, <3>2
    <3> QED BY <1>0a, <1>2, <3>3
  <2> QED BY <2>1, <2>2
<1>7. Len(queue \o moved) = Len(queue) + k /\ queue \o moved \in Seq(Frag)
  BY <1>4, ConcatFacts
<1>8. \A i \in 1 .. (n + k) : (del \o (queue \o moved))[i] = str[i]
  <2>1. TAKE i \in 1 .. (n + k)
  <2>1a. i \in Int /\ (i <= n \/ i > n)
    BY <1>2
  <2>2. CASE i <= n
    <3>1. i \in 1 .. n
      BY <1>2, <2>2
    <3>2. (del \o (queue \o moved))[i] = (del \o queue)[i]
      BY <1>2, <1>2b, <1>4, <1>7, <3>1, ConcatFacts
    <3> QED BY <1>2c, <3>1, <3>2
  <2>3. CASE i > n
    <3>1. i - n \in 1 .. k /\ n + (i - n) = i
      BY <1>2, <2>3
    <3>2a. Len(queue \o moved) = Len(queue) + k /\ Len(moved) = k
      BY <1>4, <1>7
    <3>2. i \in (Len(del) + 1) .. (Len(del) + Len(queue \o moved))
          /\ i - Len(del) \in (Len(queue) + 1) .. (Len(queue) + Len(moved))
          /\ i - Len(del) - Len(queue) = i - n
      <4> DEFINE a == Len(del)
      <4> DEFINE b == Len(queue)
      <4>1. a \in Nat /\ b \in Nat /\ a + b = n
        BY <1>2b
      <4> HIDE DEF a, b
      <4>2. i \in (a + 1) .. (a + (b + k)) /\ i - a \in (b + 1) .. (b + k)
            /\ i - a - b = i - n
        BY <1>2, <2>1a, <2>3, <4>1
      <4> QED BY <3>2a, <4>2 DEF a, b
    <3>3. (del \o (queue \o moved))[i] = (queue \o moved)[i - Len(del)]
      BY <1>7, <3>2, ConcatFacts
    <3>4. (queue \o moved)[i - Len(del)] = moved[i - Len(del) - Len(queue)]
      BY <1>4, <3>2, ConcatFacts
    <3>5. moved[i - n] = str[n + (i - n)]
      BY <1>3, <3>1
    <3> QED BY <3>1, <3>2, <3>3, <3>4, <3>5
  <2> QED BY <2>1a, <2>2, <2>3
<1>9. /\ DOMAIN Remaining(p, buf, k) = DOMAIN buf \ (n .. (n + k - 1))
      /\ \A sn \in DOMAIN Remaining(p, buf, k) : Remaining(p, buf, k)[sn] = buf[sn]
  BY DEF Remaining, n
<1>10. DOMAIN Remaining(p, buf, k) \subseteq (n + k) .. (n + k + RcvWnd - 1)
  <2>1. SUFFICES ASSUME NEW sn \in DOMAIN Remaining(p, buf, k)
                 PROVE  sn \in (n + k) .. (n + k + RcvWnd - 1)
    OBVIOUS
  <2>2. sn \in n .. (n + RcvWnd - 1) /\ ~ (sn \in n .. (n + k - 1))
    BY <1>2d, <1>9
  <2> QED BY <1>0, <1>2, <2>2, SMTT(60)
<1>11. \A sn \in DOMAIN buf : sn < n + k \/ sn \in DOMAIN Remaining(p, buf, k)
  BY <1>0, <1>2, <1>2d, <1>9
<1>12. \A sn \in DOMAIN Remaining(p, buf, k) :
          sn < N /\ Remaining(p, buf, k)[sn] = str[sn + 1]
  BY <1>0b, <1>9
<1>13. Len(queue \o moved) <= RcvWnd /\ Len(del) + Len(queue \o moved) = n + k
  BY <1>0, <1>2, <1>2b, <1>7
<1> QED BY <1>5, <1>6, <1>8, <1>10, <1>11, <1>12, <1>13 DEF n, N, str

(* Everything the two ends know about each other only grows in a step.     *)
Grows ==
    \A q \in Peers :
        /\ rcv_nxt[q] <= rcv_nxt'[q] /\ snd_nxt[q] <= snd_nxt'[q]
        /\ Len(stream[q]) <= Len(stream'[q])
        /\ \A i \in 1 .. Len(stream[q]) : stream'[q][i] = stream[q][i]
        /\ \A sn \in Got(q) : sn \in Got(q)'

(* A step that adds nothing to a receiver and numbers no segment.          *)
LEMMA GrowsUnchanged ==
    ASSUME TypeOK, rcv_nxt' = rcv_nxt, rcv_buf' = rcv_buf, snd_nxt' = snd_nxt,
           stream' = stream
    PROVE  Grows
<1>1. \A q \in Peers : /\ rcv_nxt[q] \in Nat /\ snd_nxt[q] \in Nat
                       /\ Len(stream[q]) \in Nat
  BY DEF TypeOK, SndType, RcvType, AppType
<1>2. \A q \in Peers : Got(q)' = Got(q)
  BY DEF Got
<1> QED BY <1>1, <1>2 DEF Grows

(* The sequence numbers in use index the stream.                           *)
LEMMA NumbersBound ==
    ASSUME TypeOK, IInv, NEW p \in Peers
    PROVE  /\ snd_nxt[p] \in Nat /\ Len(stream[p]) \in Nat
           /\ snd_nxt[p] <= Len(stream[p])
           /\ rcv_nxt[Other(p)] \in Nat /\ rcv_nxt[Other(p)] <= snd_nxt[p]
<1>1. /\ snd_nxt[p] \in Nat /\ Len(stream[p]) \in Nat /\ Len(snd_queue[p]) \in Nat
      /\ rcv_nxt[Other(p)] \in Nat
  BY OtherPeer, SMTT(60) DEF TypeOK, SndType, RcvType, AppType
<1>2. snd_nxt[p] + Len(snd_queue[p]) = Len(stream[p])
  BY DEF IInv, SenderInv
<1>3. rcv_nxt[Other(p)] <= snd_nxt[p]
  BY OtherPeer DEF IInv, ReceiverInv
<1> QED BY <1>1, <1>2, <1>3

(* The numbers in flight lie between snd_una and snd_nxt.                  *)
LEMMA SndBufBounds ==
    ASSUME TypeOK, IInv, NEW p \in Peers
    PROVE  /\ snd_una[p] \in Nat /\ snd_nxt[p] \in Nat /\ snd_una[p] <= snd_nxt[p]
           /\ \A sn \in DOMAIN snd_buf[p] :
                 sn \in Nat /\ snd_una[p] <= sn /\ sn < snd_nxt[p]
<1>1. snd_una[p] \in Nat /\ snd_nxt[p] \in Nat
  BY DEF TypeOK, SndType
<1>2. /\ snd_una[p] <= snd_nxt[p]
      /\ DOMAIN snd_buf[p] \subseteq snd_una[p] .. (snd_nxt[p] - 1)
  BY DEF IInv, Windows
<1> QED BY <1>1, <1>2

(* A datagram that told the truth keeps telling it.                        *)
LEMMA DatagramKept ==
    ASSUME TypeOK, TypeOK', IInv, Grows, NEW p \in Peers, NEW d \in net[p]
    PROVE  DatagramOK(p, d)'
<1> DEFINE q == Other(p)
<1>0. q \in Peers /\ DatagramOK(p, d) /\ (d \in Ctl \/ d \in Push)
  BY OtherPeer DEF IInv, NetInv, TypeOK, NetType
<1>1. /\ rcv_nxt[q] \in Nat /\ rcv_nxt'[q] \in Nat
      /\ snd_nxt[q] \in Nat /\ snd_nxt'[q] \in Nat
  BY <1>0 DEF TypeOK, SndType, RcvType
<1>2. d.una \in Nat /\ (d.kind = "push" => d.sn \in Nat)
  BY <1>0 DEF Ctl, Push
<1>3. d.una <= rcv_nxt'[q]
  BY <1>0, <1>1, <1>2 DEF DatagramOK, Grows
<1>4. d.kind = "ctl" => d.acks \subseteq Got(q)'
  BY <1>0 DEF DatagramOK, Grows
<1>5. ASSUME d.kind = "push"
      PROVE  d.sn < snd_nxt'[q] /\ d.frag = stream'[q][d.sn + 1]
  <2>1. d.sn < snd_nxt[q] /\ d.frag = stream[q][d.sn + 1] /\ d.sn \in Nat
    BY <1>0, <1>2, <1>5 DEF DatagramOK
  <2>2. snd_nxt[q] <= Len(stream[q]) /\ Len(stream[q]) \in Nat
    BY <1>0, NumbersBound
  <2>3. d.sn + 1 \in 1 .. Len(stream[q])
    BY <1>1, <2>1, <2>2
  <2>4. stream'[q][d.sn + 1] = stream[q][d.sn + 1] /\ snd_nxt[q] <= snd_nxt'[q]
    BY <1>0, <2>3 DEF Grows
  <2> QED BY <1>1, <2>1, <2>4
<1> QED BY <1>3, <1>4, <1>5 DEF DatagramOK

(* What ikcp_input does to the sender's half when the datagram tells the   *)
(* truth: no number leaves snd_buf unless the peer has it.                 *)
LEMMA AcknowledgeInv ==
    ASSUME TypeOK, IInv, NEW p \in Peers, NEW una \in Nat,
           NEW acks \in SUBSET Nat, NEW wnd \in Nat,
           una <= rcv_nxt[Other(p)], acks \subseteq Got(Other(p)),
           Acknowledge(p, una, acks, wnd)
    PROVE  /\ snd_nxt' = snd_nxt /\ snd_queue' = snd_queue
           /\ \A q \in Peers :
                 /\ snd_una[q] <= snd_una'[q] /\ snd_una'[q] <= snd_nxt[q]
                 /\ DOMAIN snd_buf'[q] \subseteq DOMAIN snd_buf[q]
                 /\ \A sn \in DOMAIN snd_buf'[q] :
                       /\ snd_una'[q] <= sn
                       /\ snd_buf'[q][sn].frag = snd_buf[q][sn].frag
                 /\ \A sn \in DOMAIN snd_buf[q] :
                       sn \in DOMAIN snd_buf'[q] \/ sn \in Got(Other(q))
<1> DEFINE left == Unacked(p, una, acks)
<1>0. /\ snd_una \in [Peers -> Nat] /\ snd_nxt \in [Peers -> Nat]
      /\ snd_buf = [q \in Peers |-> snd_buf[q]]
      /\ \A q \in Peers : DOMAIN snd_buf[q] \subseteq Nat
  BY DEF TypeOK, SndType
<1>1. \A q \in Peers : /\ snd_una[q] <= snd_nxt[q]
                       /\ \A sn \in DOMAIN snd_buf[q] :
                             snd_una[q] <= sn /\ sn < snd_nxt[q]
  BY <1>0 DEF IInv, Windows
<1>2. left \subseteq DOMAIN snd_buf[p]
      /\ \A sn \in DOMAIN snd_buf[p] : sn \in left \/ sn < una \/ sn \in acks
  BY <1>0 DEF Unacked
<1>3. PICK u \in left \cup {snd_nxt[p]} :
        (\A sn \in left : u <= sn) /\ snd_una' = [snd_una EXCEPT ![p] = u]
  BY DEF Acknowledge
<1>4. snd_una[p] <= u /\ u <= snd_nxt[p] /\ u \in Nat
  BY <1>0, <1>1, <1>2, <1>3
<1>5. snd_nxt' = snd_nxt /\ snd_queue' = snd_queue
  BY DEF Acknowledge
<1> DEFINE buf == [sn \in left |-> IF Skipped(p, sn, acks) THEN Skip(snd_buf[p][sn])
                                                           ELSE snd_buf[p][sn]]
<1>6. snd_buf' = [snd_buf EXCEPT ![p] = buf]
  BY DEF Acknowledge
<1>7. \A sn \in left : buf[sn].frag = snd_buf[p][sn].frag
  <2>1. \A sn \in left : snd_buf[p][sn] \in SndSeg
    BY <1>2 DEF TypeOK, SndType
  <2> QED BY <2>1 DEF Skip, SndSeg
<1>8. DOMAIN buf = left
  OBVIOUS
<1>9. \A sn \in DOMAIN snd_buf[p] : sn \in left \/ sn \in Got(Other(p))
  <2>1. TAKE sn \in DOMAIN snd_buf[p]
  <2>2. CASE sn < una
    <3>1. sn \in 0 .. (snd_nxt[Other(Other(p))] - 1)
      BY <1>0, <1>1, OtherPeer
    <3>2. sn < rcv_nxt[Other(p)]
      BY <1>0, <2>2, OtherPeer DEF TypeOK, RcvType
    <3> QED BY <3>1, <3>2 DEF Got
  <2> QED BY <1>2, <2>2
<1> HIDE DEF left, buf
<1>10. \A q \in Peers \ {p} : snd_una'[q] = snd_una[q] /\ snd_buf'[q] = snd_buf[q]
  BY <1>0, <1>3, <1>6
<1>11. snd_una'[p] = u /\ snd_buf'[p] = buf
  BY <1>0, <1>3, <1>6
<1>12. \A q \in Peers : snd_una[q] \in Nat
  BY <1>0
<1>13. ASSUME NEW q \in Peers
       PROVE  /\ snd_una[q] <= snd_una'[q] /\ snd_una'[q] <= snd_nxt[q]
              /\ DOMAIN snd_buf'[q] \subseteq DOMAIN snd_buf[q]
              /\ \A sn \in DOMAIN snd_buf'[q] :
                    /\ snd_una'[q] <= sn
                    /\ snd_buf'[q][sn].frag = snd_buf[q][sn].frag
              /\ \A sn \in DOMAIN snd_buf[q] :
                    sn \in DOMAIN snd_buf'[q] \/ sn \in Got(Other(q))
  <2>1. CASE q = p
    BY <1>2, <1>3, <1>4, <1>7, <1>8, <1>9, <1>11, <2>1
  <2>2. CASE q # p
    <3>1. snd_una'[q] = snd_una[q] /\ snd_buf'[q] = snd_buf[q]
      BY <1>10, <2>2
    <3> QED BY <1>1, <1>12, <3>1
  <2> QED BY <2>1, <2>2
<1> QED BY <1>5, <1>13

LEMMA SendInv ==
    ASSUME TypeOK, TypeOK', IInv, NEW p \in Peers, NEW k \in MsgSizes, Send(p, k)
    PROVE  IInv' /\ Grows
<1> DEFINE s == stream[p]
<1> DEFINE new == Fragments(Len(s), k)
<1>0. /\ k \in Nat /\ k > 0 /\ k <= FrgLimit /\ FrgLimit \in Nat
      /\ s \in Seq(Frag) /\ Len(s) \in Nat /\ snd_queue[p] \in Seq(Frag)
  <2>1. k \in Nat /\ k > 0 /\ k <= FrgLimit
    BY KcpAssumption DEF Send
  <2>2. s \in Seq(Frag) /\ snd_queue[p] \in Seq(Frag)
    BY DEF TypeOK, SndType, AppType
  <2> QED BY <2>1, <2>2 DEF FrgLimit
<1>1. new \in Seq(Frag) /\ Len(new) = k
  BY <1>0, FragmentsType
<1>2. \A i \in 1 .. k : new[i].frg = k - i
  BY DEF Fragments
<1>3. /\ stream'[p] = s \o new /\ snd_queue'[p] = snd_queue[p] \o new
      /\ \A q \in Peers \ {p} : stream'[q] = stream[q] /\ snd_queue'[q] = snd_queue[q]
  BY DEF Send, TypeOK, SndType, AppType
<1>4. /\ snd_buf' = snd_buf /\ snd_una' = snd_una /\ snd_nxt' = snd_nxt
      /\ rcv_buf' = rcv_buf /\ rcv_queue' = rcv_queue /\ rcv_nxt' = rcv_nxt
      /\ acklist' = acklist /\ net' = net /\ delivered' = delivered
  BY DEF Send, rcvVars, ctlVars, netVars
<1> HIDE DEF new
<1>5. /\ Len(s \o new) = Len(s) + k
      /\ \A i \in 1 .. Len(s) : (s \o new)[i] = s[i]
      /\ \A i \in (Len(s) + 1) .. (Len(s) + k) : (s \o new)[i] = new[i - Len(s)]
  BY <1>0, <1>1, ConcatFacts, ZenonT(60)
<1>6. \A q \in Peers : Got(q)' = Got(q)
  BY <1>4 DEF Got
<1>7. \A q \in Peers : /\ Len(stream[q]) \in Nat /\ Len(stream'[q]) \in Nat
                       /\ Len(stream[q]) <= Len(stream'[q])
                       /\ \A i \in 1 .. Len(stream[q]) : stream'[q][i] = stream[q][i]
  <2>1. TAKE q \in Peers
  <2>2. CASE q = p
    BY <1>0, <1>3, <1>5, <2>2
  <2>3. CASE q # p
    BY <1>3, <2>3 DEF TypeOK, AppType
  <2> QED BY <2>2, <2>3
<1>8. Grows
  <2>1. \A q \in Peers : rcv_nxt[q] \in Nat /\ snd_nxt[q] \in Nat
    BY DEF TypeOK, SndType, RcvType
  <2> QED BY <1>4, <1>6, <1>7, <2>1 DEF Grows
<1>9. StreamShape'
  <2>1. SUFFICES ASSUME NEW q \in Peers, NEW i \in 1 .. Len(stream'[q])
                 PROVE  /\ stream'[q][i].frg < FrgLimit
                        /\ i + stream'[q][i].frg <= Len(stream'[q])
                        /\ stream'[q][i + stream'[q][i].frg].frg = 0
    BY DEF StreamShape
  <2>2. CASE q # p
    BY <1>3, <2>2 DEF IInv, StreamShape
  <2>3. CASE q = p /\ i <= Len(s)
    <3>1. i \in 1 .. Len(s) /\ stream'[p][i] = s[i]
      BY <1>0, <1>3, <1>5, <2>3
    <3>2. s[i] \in Frag /\ s[i].frg \in Nat
      <4>1. s[i] \in Frag
        BY <1>0, <3>1
      <4> QED BY <4>1 DEF Frag
    <3>3. /\ s[i].frg < FrgLimit /\ i + s[i].frg <= Len(s)
          /\ s[i + s[i].frg].frg = 0
      BY <3>1 DEF IInv, StreamShape
    <3>4. i + s[i].frg \in 1 .. Len(s)
      BY <1>0, <3>1, <3>2, <3>3, SMTT(60)
    <3>5. stream'[p][i + s[i].frg] = s[i + s[i].frg]
      BY <1>3, <1>5, <3>4
    <3>6. Len(stream'[p]) = Len(s) + k
      BY <1>3, <1>5
    <3> QED BY <1>0, <2>3, <3>1, <3>2, <3>3, <3>5, <3>6
  <2>4. CASE q = p /\ i > Len(s)
    <3> DEFINE j == i - Len(s)
    <3>1. i \in (Len(s) + 1) .. (Len(s) + k) /\ j \in 1 .. k /\ j \in Int
      BY <1>0, <1>3, <1>5, <2>4
    <3>2. stream'[p][i].frg = k - j
      BY <1>2, <1>3, <1>5, <3>1
    <3>3. i + (k - j) = Len(s) + k /\ k - j < FrgLimit
      <4>1. i = Len(s) + j
        BY <1>0, <3>1
      <4> HIDE DEF j, s
      <4> QED BY <1>0, <3>1, <4>1
    <3>4. stream'[p][Len(s) + k] = new[k]
      BY <1>0, <1>3, <1>5
    <3>5. new[k].frg = 0
      BY <1>0, <1>2
    <3>6. Len(stream'[p]) = Len(s) + k
      BY <1>3, <1>5
    <3>7. i + stream'[p][i].frg = Len(s) + k
      BY <3>2, <3>3
    <3>8. Len(s) + k <= Len(s) + k
      BY <1>0
    <3> HIDE DEF j, s
    <3> QED BY <2>4, <3>2, <3>3, <3>4, <3>5, <3>6, <3>7, <3>8
  <2>5. i \in Int /\ (i <= Len(s) \/ i > Len(s))
    BY <1>0
  <2> QED BY <2>2, <2>3, <2>4, <2>5
<1>10. \A q \in Peers : /\ snd_nxt[q] \in Nat /\ rcv_nxt[q] \in Nat
                        /\ snd_nxt[q] <= Len(stream[q])
                        /\ rcv_nxt[q] <= snd_nxt[Other(q)]
                        /\ rcv_nxt[q] <= Len(stream[Other(q)])
  <2>1. TAKE q \in Peers
  <2>2. /\ snd_nxt[q] \in Nat /\ snd_nxt[q] <= Len(stream[q])
    BY NumbersBound
  <2>3. /\ rcv_nxt[q] \in Nat /\ rcv_nxt[q] <= snd_nxt[Other(q)]
        /\ snd_nxt[Other(q)] <= Len(stream[Other(q)])
        /\ snd_nxt[Other(q)] \in Nat /\ Len(stream[Other(q)]) \in Nat
    BY NumbersBound, OtherPeer
  <2> QED BY <2>2, <2>3
<1>11. \A q \in Peers : \A n \in Nat :
          n < snd_nxt[q] => stream'[q][n + 1] = stream[q][n + 1]
  <2>1. TAKE q \in Peers, n \in Nat
  <2>2. n < snd_nxt[q] => n + 1 \in 1 .. Len(stream[q])
    BY <1>7, <1>10
  <2> QED BY <1>7, <2>2
<1>12. SenderInv'
  <2>1. SUFFICES ASSUME NEW q \in Peers
                 PROVE  /\ snd_nxt'[q] + Len(snd_queue'[q]) = Len(stream'[q])
                        /\ \A i \in 1 .. Len(snd_queue'[q]) :
                              snd_queue'[q][i] = stream'[q][snd_nxt'[q] + i]
                        /\ \A sn \in DOMAIN snd_buf'[q] :
                              snd_buf'[q][sn].frag = stream'[q][sn + 1]
    BY DEF SenderInv
  <2>2. /\ snd_nxt[q] + Len(snd_queue[q]) = Len(stream[q])
        /\ \A i \in 1 .. Len(snd_queue[q]) :
              snd_queue[q][i] = stream[q][snd_nxt[q] + i]
        /\ \A sn \in DOMAIN snd_buf[q] : snd_buf[q][sn].frag = stream[q][sn + 1]
    BY DEF IInv, SenderInv
  <2>3. \A sn \in DOMAIN snd_buf[q] : sn \in Nat /\ sn < snd_nxt[q]
    BY SndBufBounds
  <2>4. \A sn \in DOMAIN snd_buf'[q] : snd_buf'[q][sn].frag = stream'[q][sn + 1]
    BY <1>4, <1>11, <2>2, <2>3
  <2>5. CASE q # p
    BY <1>3, <1>4, <2>2, <2>4, <2>5
  <2>6. CASE q = p
    <3> DEFINE queue == snd_queue[p]
    <3> DEFINE n == snd_nxt[p]
    <3>1. /\ n \in Nat /\ Len(queue) \in Nat /\ n + Len(queue) = Len(s)
      BY <1>0, <1>10, <2>2, <2>6
    <3>2. /\ Len(queue \o new) = Len(queue) + k
          /\ \A i \in 1 .. Len(queue) : (queue \o new)[i] = queue[i]
          /\ \A i \in (Len(queue) + 1) .. (Len(queue) + k) :
                (queue \o new)[i] = new[i - Len(queue)]
      BY <1>0, <1>1, ConcatFacts, ZenonT(60)
    <3>3. n + Len(queue \o new) = Len(s \o new)
      <4>1. n + (Len(queue) + k) = Len(s) + k
        <5> HIDE DEF n, queue, s
        <5> QED BY <1>0, <3>1
      <4> QED BY <1>5, <3>2, <4>1
    <3>4. ASSUME NEW i \in 1 .. (Len(queue) + k)
          PROVE  (queue \o new)[i] = (s \o new)[n + i]
      <4>1. CASE i <= Len(queue)
        <5>1. i \in 1 .. Len(queue) /\ n + i \in 1 .. Len(s)
          BY <1>0, <3>1, <4>1
        <5>2. queue[i] = s[n + i]
          BY <2>2, <2>6, <5>1
        <5> QED BY <1>5, <3>2, <5>1, <5>2
      <4>2. CASE i > Len(queue)
        <5>1. /\ i \in (Len(queue) + 1) .. (Len(queue) + k)
              /\ n + i \in (Len(s) + 1) .. (Len(s) + k)
              /\ (n + i) - Len(s) = i - Len(queue)
          <6> HIDE DEF n, queue, s
          <6> QED BY <1>0, <3>1, <4>2
        <5>2. (s \o new)[n + i] = new[(n + i) - Len(s)]
          <6> DEFINE m == n + i
          <6>1. m \in (Len(s) + 1) .. (Len(s) + k)
            BY <5>1
          <6> HIDE DEF m
          <6>2. (s \o new)[m] = new[m - Len(s)]
            BY <1>5, <6>1
          <6> QED BY <6>2 DEF m
        <5>3. (queue \o new)[i] = new[i - Len(queue)]
          BY <3>2, <5>1
        <5> HIDE DEF n, queue, s
        <5> QED BY <5>1, <5>2, <5>3
      <4>3. i \in Int /\ (i <= Len(queue) \/ i > Len(queue))
        BY <3>1
      <4> QED BY <4>1, <4>2, <4>3
    <3> QED BY <1>3, <1>4, <2>4, <2>6, <3>2, <3>3, <3>4, ZenonT(60)
  <2> QED BY <2>5, <2>6
<1>13. ReceiverInv'
  <2>1. \A q \in Peers : \A sn \in DOMAIN rcv_buf[q] :
           sn \in Nat /\ sn < snd_nxt[Other(q)] /\ rcv_buf[q][sn] = stream[Other(q)][sn + 1]
    BY DEF IInv, ReceiverInv, TypeOK, RcvType
  <2>2. \A q \in Peers : \A sn \in DOMAIN rcv_buf[q] :
           rcv_buf[q][sn] = stream'[Other(q)][sn + 1]
    BY <1>11, <2>1, OtherPeer
  <2>3. \A q \in Peers : acklist[q] \subseteq Got(q)
    BY DEF IInv, ReceiverInv
  <2> QED BY <1>4, <1>6, <1>10, <2>1, <2>2, <2>3 DEF ReceiverInv
<1>14. NetInv'
  BY <1>4, <1>8, DatagramKept DEF NetInv
<1>15. InOrder'
  <2>1. ASSUME NEW q \in Peers
        PROVE  /\ rcv_nxt[q] <= Len(stream'[Other(q)])
               /\ \A i \in 1 .. rcv_nxt[q] :
                     (delivered[q] \o rcv_queue[q])[i] = stream'[Other(q)][i]
    <3> DEFINE r == Other(q)
    <3>1. /\ r \in Peers /\ rcv_nxt[q] \in Nat /\ rcv_nxt[q] <= Len(stream[r])
          /\ Len(stream[r]) \in Nat /\ Len(stream'[r]) \in Nat
          /\ Len(stream[r]) <= Len(stream'[r])
      BY <1>7, <1>10, OtherPeer
    <3>2. \A i \in 1 .. rcv_nxt[q] : i \in 1 .. Len(stream[r])
      BY <3>1
    <3>3. \A i \in 1 .. rcv_nxt[q] : (delivered[q] \o rcv_queue[q])[i] = stream[r][i]
      BY DEF IInv, InOrder
    <3>4. \A i \in 1 .. Len(stream[r]) : stream'[r][i] = stream[r][i]
      BY <1>7, <3>1
    <3>5. rcv_nxt[q] <= Len(stream'[r])
      <4> HIDE DEF r
      <4> QED BY <3>1
    <3> HIDE DEF r
    <3>6. \A i \in 1 .. rcv_nxt[q] : (delivered[q] \o rcv_queue[q])[i] = stream'[r][i]
      BY <3>2, <3>3, <3>4
    <3> QED BY <3>5, <3>6 DEF r
  <2>2. \A q \in Peers : Len(delivered[q]) + Len(rcv_queue[q]) = rcv_nxt[q]
    BY DEF IInv, InOrder
  <2> QED BY <1>4, <2>1, <2>2 DEF InOrder
<1>16. WholeMessages' /\ NothingLost' /\ Windows'
  BY <1>4, <1>6, OtherPeer DEF IInv, WholeMessages, NothingLost, Windows
<1> QED BY <1>8, <1>9, <1>12, <1>13, <1>14, <1>15, <1>16 DEF IInv

(* A datagram handed over adds none to the network, and tells the truth.   *)
LEMMA TakeInv ==
    ASSUME TypeOK, TypeOK', IInv, Grows, NEW p \in Peers, NEW d, Take(p, d)
    PROVE  NetInv' /\ DatagramOK(p, d)
<1>1. d \in net[p] /\ \A q \in Peers : net'[q] \subseteq net[q]
  BY DEF Take, TypeOK, NetType
<1> QED BY <1>1, DatagramKept DEF NetInv, IInv

(* The sender's invariants after the acknowledgement part of ikcp_input,   *)
(* while the stream stays and the peer loses nothing.                      *)
LEMMA AcknowledgeKeeps ==
    ASSUME TypeOK, IInv, NEW p \in Peers, NEW una \in Nat,
           NEW acks \in SUBSET Nat, NEW wnd \in Nat,
           una <= rcv_nxt[Other(p)], acks \subseteq Got(Other(p)),
           Acknowledge(p, una, acks, wnd), stream' = stream,
           \A q \in Peers : Got(q) \subseteq Got(q)'
    PROVE  /\ SenderInv' /\ NothingLost'
           /\ \A q \in Peers :
                 /\ snd_una'[q] <= snd_nxt'[q] /\ snd_nxt'[q] - snd_una'[q] <= SndWnd
                 /\ DOMAIN snd_buf'[q] \subseteq snd_una'[q] .. (snd_nxt'[q] - 1)
<1>1. /\ snd_nxt' = snd_nxt /\ snd_queue' = snd_queue
      /\ \A q \in Peers :
            /\ snd_una[q] <= snd_una'[q] /\ snd_una'[q] <= snd_nxt[q]
            /\ DOMAIN snd_buf'[q] \subseteq DOMAIN snd_buf[q]
            /\ \A sn \in DOMAIN snd_buf'[q] :
                  /\ snd_una'[q] <= sn
                  /\ snd_buf'[q][sn].frag = snd_buf[q][sn].frag
            /\ \A sn \in DOMAIN snd_buf[q] :
                  sn \in DOMAIN snd_buf'[q] \/ sn \in Got(Other(q))
  BY AcknowledgeInv
<1>2. SenderInv'
  BY <1>1 DEF IInv, SenderInv
<1>3. NothingLost'
  <2>1. SUFFICES ASSUME NEW q \in Peers, NEW sn \in 0 .. (snd_nxt[q] - 1)
                 PROVE  sn \in DOMAIN snd_buf'[q] \/ sn \in Got(Other(q))'
    BY <1>1 DEF NothingLost
  <2>2. sn \in DOMAIN snd_buf[q] \/ sn \in Got(Other(q))
    BY DEF IInv, NothingLost
  <2>3. Got(Other(q)) \subseteq Got(Other(q))'
    BY OtherPeer
  <2> QED BY <1>1, <2>2, <2>3
<1>4. ASSUME NEW q \in Peers
      PROVE  /\ snd_una'[q] <= snd_nxt'[q] /\ snd_nxt'[q] - snd_una'[q] <= SndWnd
             /\ DOMAIN snd_buf'[q] \subseteq snd_una'[q] .. (snd_nxt'[q] - 1)
  <2>1. /\ snd_una[q] \in Nat /\ snd_nxt[q] \in Nat
        /\ \A sn \in DOMAIN snd_buf[q] : sn \in Nat /\ sn < snd_nxt[q]
    BY SndBufBounds
  <2>2. snd_una'[q] \in Nat
    BY AcknowledgeType DEF SndType
  <2>3. snd_nxt[q] - snd_una[q] <= SndWnd /\ SndWnd \in Nat
    BY KcpAssumption DEF IInv, Windows
  <2>4. snd_nxt'[q] - snd_una'[q] <= SndWnd
    BY <1>1, <2>1, <2>2, <2>3
  <2>5. DOMAIN snd_buf'[q] \subseteq snd_una'[q] .. (snd_nxt'[q] - 1)
    BY <1>1, <2>1, <2>2
  <2> QED BY <1>1, <2>4, <2>5
<1> QED BY <1>2, <1>3, <1>4

LEMMA InputCtlInv ==
    ASSUME TypeOK, TypeOK', IInv, NEW p \in Peers, NEW d, InputCtl(p, d)
    PROVE  IInv' /\ Grows
<1>1. /\ rcv_buf' = rcv_buf /\ rcv_queue' = rcv_queue /\ rcv_nxt' = rcv_nxt
      /\ acklist' = acklist /\ stream' = stream /\ delivered' = delivered
      /\ snd_nxt' = snd_nxt
  BY DEF InputCtl, rcvVars, appVars, Acknowledge
<1>2. Grows
  BY <1>1, GrowsUnchanged
<1>3. NetInv' /\ DatagramOK(p, d)
  BY <1>2, TakeInv DEF InputCtl
<1>4. d \in Ctl
  BY TakeType DEF InputCtl, Push
<1>5. /\ d.una \in Nat /\ d.wnd \in Nat /\ d.acks \in SUBSET Nat
      /\ d.una <= rcv_nxt[Other(p)] /\ d.acks \subseteq Got(Other(p))
  BY <1>3, <1>4 DEF Ctl, DatagramOK
<1>6. \A q \in Peers : Got(q)' = Got(q)
  BY <1>1 DEF Got
<1>7. /\ SenderInv' /\ NothingLost'
      /\ \A q \in Peers :
            /\ snd_una'[q] <= snd_nxt'[q] /\ snd_nxt'[q] - snd_una'[q] <= SndWnd
            /\ DOMAIN snd_buf'[q] \subseteq snd_una'[q] .. (snd_nxt'[q] - 1)
  BY <1>1, <1>5, <1>6, AcknowledgeKeeps DEF InputCtl
<1>8. StreamShape' /\ InOrder' /\ WholeMessages'
  BY <1>1 DEF IInv, StreamShape, InOrder, WholeMessages
<1>9. ReceiverInv'
  BY <1>1, <1>6 DEF IInv, ReceiverInv
<1>10. Windows'
  BY <1>1, <1>7 DEF IInv, Windows
<1> QED BY <1>2, <1>3, <1>7, <1>8, <1>9, <1>10 DEF IInv

LEMMA LoseInv ==
    ASSUME TypeOK, TypeOK', IInv, NEW p \in Peers, NEW d, Lose(p, d)
    PROVE  IInv' /\ Grows
<1>1. /\ rcv_buf' = rcv_buf /\ rcv_queue' = rcv_queue /\ rcv_nxt' = rcv_nxt
      /\ acklist' = acklist /\ stream' = stream /\ delivered' = delivered
      /\ snd_nxt' = snd_nxt /\ snd_una' = snd_una /\ snd_buf' = snd_buf
      /\ snd_queue' = snd_queue
      /\ \A q \in Peers : net'[q] \subseteq net[q]
  BY DEF Lose, sndVars, rcvVars, ctlVars, appVars, TypeOK, NetType
<1>2. Grows
  BY <1>1, GrowsUnchanged
<1>3. NetInv'
  BY <1>1, <1>2, DatagramKept DEF NetInv
<1>4. \A q \in Peers : Got(q)' = Got(q)
  BY <1>1 DEF Got
<1>5. StreamShape' /\ InOrder' /\ WholeMessages' /\ SenderInv' /\ Windows'
  BY <1>1, ZenonT(60) DEF IInv, StreamShape, InOrder, WholeMessages, SenderInv, Windows
<1>6. ReceiverInv' /\ NothingLost'
  BY <1>1, <1>4, OtherPeer DEF IInv, ReceiverInv, NothingLost
<1> QED BY <1>2, <1>3, <1>5, <1>6 DEF IInv

(* The receiver's invariants after the move loop, when the application has *)
(* been given del and the peer's half of the conversation stays.           *)
LEMMA MoveReadyKeeps ==
    ASSUME TypeOK, IInv, NEW p \in Peers, NEW buf, NEW queue \in Seq(Frag),
           NEW del \in Seq(Frag),
           DOMAIN rcv_buf[p] \subseteq DOMAIN buf,
           DOMAIN buf \subseteq rcv_nxt[p] .. (rcv_nxt[p] + RcvWnd - 1),
           \A sn \in DOMAIN buf : /\ sn < snd_nxt[Other(p)] /\ buf[sn] \in Frag
                                  /\ buf[sn] = stream[Other(p)][sn + 1],
           Len(queue) <= RcvWnd,
           Len(del) + Len(queue) = rcv_nxt[p],
           \A i \in 1 .. rcv_nxt[p] : (del \o queue)[i] = stream[Other(p)][i],
           MoveReady(p, buf, queue),
           delivered' = [delivered EXCEPT ![p] = del],
           snd_nxt' = snd_nxt, stream' = stream
    PROVE  /\ Grows /\ InOrder'
           /\ \A sn \in DOMAIN buf : sn \in Got(p)'
           /\ \A q \in Peers :
                 /\ rcv_nxt'[q] <= snd_nxt[Other(q)]
                 /\ Len(rcv_queue'[q]) <= RcvWnd
                 /\ DOMAIN rcv_buf'[q] \subseteq rcv_nxt'[q] .. (rcv_nxt'[q] + RcvWnd - 1)
                 /\ \A sn \in DOMAIN rcv_buf'[q] :
                       /\ sn < snd_nxt[Other(q)]
                       /\ rcv_buf'[q][sn] = stream[Other(q)][sn + 1]
<1> DEFINE str == stream[Other(p)]
<1> DEFINE N == snd_nxt[Other(p)]
<1>1. /\ N \in Nat /\ rcv_nxt[p] \in Nat /\ rcv_nxt[p] <= N
      /\ N <= Len(str) /\ Len(str) \in Nat
  BY OtherPeer, NumbersBound
<1>2. /\ rcv_nxt[p] <= rcv_nxt'[p] /\ rcv_nxt'[p] <= N
      /\ Len(rcv_queue'[p]) <= RcvWnd
      /\ Len(del) + Len(rcv_queue'[p]) = rcv_nxt'[p]
      /\ \A i \in 1 .. rcv_nxt'[p] : (del \o rcv_queue'[p])[i] = str[i]
      /\ DOMAIN rcv_buf'[p] \subseteq rcv_nxt'[p] .. (rcv_nxt'[p] + RcvWnd - 1)
      /\ \A sn \in DOMAIN rcv_buf'[p] : sn < N /\ rcv_buf'[p][sn] = str[sn + 1]
      /\ \A sn \in DOMAIN buf : sn < rcv_nxt'[p] \/ sn \in DOMAIN rcv_buf'[p]
      /\ \A q \in Peers \ {p} : /\ rcv_nxt'[q] = rcv_nxt[q]
                                /\ rcv_queue'[q] = rcv_queue[q]
                                /\ rcv_buf'[q] = rcv_buf[q]
  BY <1>1, MoveReadyInv
<1>3. /\ delivered'[p] = del
      /\ \A q \in Peers \ {p} : delivered'[q] = delivered[q]
  BY DEF TypeOK, AppType
<1>4. \A q \in Peers : rcv_nxt[q] \in Nat /\ snd_nxt[q] \in Nat /\ Len(stream[q]) \in Nat
  BY DEF TypeOK, SndType, RcvType, AppType
<1>5. rcv_nxt'[p] \in Nat /\ RcvWnd \in Nat
  <2>1. DOMAIN buf \subseteq Nat
    BY <1>1, KcpAssumption
  <2>2. MoveReady(p, buf, queue)
    OBVIOUS
  <2>3. \E k \in 0 .. RcvWnd : rcv_nxt' = [rcv_nxt EXCEPT ![p] = @ + k]
    BY <2>2 DEF MoveReady
  <2> QED BY <1>1, <2>3, KcpAssumption, SMTT(60) DEF TypeOK, RcvType
<1>6. \A sn \in DOMAIN buf : sn \in Nat /\ sn < N
  BY <1>1, <1>5
<1>7. Got(p)' = {sn \in 0 .. (N - 1) : sn < rcv_nxt'[p] \/ sn \in DOMAIN rcv_buf'[p]}
  BY DEF Got
<1>8. \A sn \in DOMAIN buf : sn \in Got(p)'
  <2>1. \A sn \in DOMAIN buf : sn \in 0 .. (N - 1)
    BY <1>1, <1>6
  <2> QED BY <1>2, <1>7, <2>1
<1>9. \A sn \in Got(p) : sn \in Got(p)'
  <2>1. TAKE sn \in Got(p)
  <2>2. sn \in 0 .. (N - 1) /\ (sn < rcv_nxt[p] \/ sn \in DOMAIN rcv_buf[p])
    BY DEF Got
  <2>3. CASE sn < rcv_nxt[p]
    <3>1. sn < rcv_nxt'[p]
      BY <1>1, <1>2, <1>5, <2>2, <2>3
    <3> QED BY <1>7, <2>2, <3>1
  <2>4. CASE sn \in DOMAIN rcv_buf[p]
    BY <1>8, <2>4
  <2> QED BY <2>2, <2>3, <2>4
<1>10. \A q \in Peers \ {p} : Got(q)' = Got(q)
  BY <1>2 DEF Got
<1>11. Grows
  BY <1>2, <1>4, <1>9, <1>10, SMTT(60) DEF Grows
<1>12. InOrder'
  <2>1. ASSUME NEW q \in Peers
        PROVE  /\ rcv_nxt'[q] <= Len(stream[Other(q)])
               /\ Len(delivered'[q]) + Len(rcv_queue'[q]) = rcv_nxt'[q]
               /\ \A i \in 1 .. rcv_nxt'[q] :
                     (delivered'[q] \o rcv_queue'[q])[i] = stream[Other(q)][i]
    <3>1. CASE q = p
      <4>1. rcv_nxt'[p] <= Len(str)
        BY <1>1, <1>2, <1>5
      <4>2. delivered'[q] \o rcv_queue'[q] = del \o rcv_queue'[p]
        BY <1>3, <3>1
      <4>3. Len(delivered'[q]) = Len(del)
        BY <1>3, <3>1
      <4>4. \A i \in 1 .. rcv_nxt'[p] : (del \o rcv_queue'[p])[i] = str[i]
        BY <1>2
      <4>5. Len(del) + Len(rcv_queue'[p]) = rcv_nxt'[p]
        BY <1>2
      <4> QED BY <3>1, <4>1, <4>2, <4>3, <4>4, <4>5
    <3>2. CASE q # p
      <4>1. /\ delivered'[q] = delivered[q] /\ rcv_queue'[q] = rcv_queue[q]
            /\ rcv_nxt'[q] = rcv_nxt[q]
        BY <1>2, <1>3, <3>2
      <4>2. /\ rcv_nxt[q] <= Len(stream[Other(q)])
            /\ Len(delivered[q]) + Len(rcv_queue[q]) = rcv_nxt[q]
            /\ \A i \in 1 .. rcv_nxt[q] :
                  (delivered[q] \o rcv_queue[q])[i] = stream[Other(q)][i]
        BY DEF IInv, InOrder
      <4> QED BY <4>1, <4>2
    <3> QED BY <3>1, <3>2
  <2>2. stream' = stream
    OBVIOUS
  <2>3. ASSUME NEW q \in Peers
        PROVE  /\ rcv_nxt'[q] <= Len(stream'[Other(q)])
               /\ Len(delivered'[q]) + Len(rcv_queue'[q]) = rcv_nxt'[q]
               /\ \A i \in 1 .. rcv_nxt'[q] :
                     (delivered'[q] \o rcv_queue'[q])[i] = stream'[Other(q)][i]
    <3>1. stream'[Other(q)] = stream[Other(q)]
      BY <2>2
    <3>2. /\ rcv_nxt'[q] <= Len(stream[Other(q)])
          /\ Len(delivered'[q]) + Len(rcv_queue'[q]) = rcv_nxt'[q]
      BY <2>1
    <3>3. \A i \in 1 .. rcv_nxt'[q] :
              (delivered'[q] \o rcv_queue'[q])[i] = stream[Other(q)][i]
      BY <2>1
    <3> QED BY <3>1, <3>2, <3>3
  <2> QED BY <2>3, Zenon DEF InOrder
<1>13. ASSUME NEW q \in Peers
       PROVE  /\ rcv_nxt'[q] <= snd_nxt[Other(q)]
              /\ Len(rcv_queue'[q]) <= RcvWnd
              /\ DOMAIN rcv_buf'[q] \subseteq rcv_nxt'[q] .. (rcv_nxt'[q] + RcvWnd - 1)
              /\ \A sn \in DOMAIN rcv_buf'[q] :
                    /\ sn < snd_nxt[Other(q)]
                    /\ rcv_buf'[q][sn] = stream[Other(q)][sn + 1]
  <2>1. CASE q = p
    BY <1>2, <2>1
  <2>2. CASE q # p
    BY <1>2, <2>2 DEF IInv, ReceiverInv, Windows
  <2> QED BY <2>1, <2>2
<1> QED BY <1>8, <1>11, <1>12, <1>13

(* Appending to s a prefix of t.                                           *)
LEMMA ConcatPrefix ==
    ASSUME NEW S, NEW s \in Seq(S), NEW t \in Seq(S), NEW h \in Seq(S),
           NEW k \in 1 .. Len(t), Len(h) = k, \A i \in 1 .. k : h[i] = t[i]
    PROVE  /\ s \o h \in Seq(S) /\ Len(s \o h) = Len(s) + k
           /\ \A i \in 1 .. Len(s) : (s \o h)[i] = s[i]
           /\ \A i \in (Len(s) + 1) .. (Len(s) + k) : (s \o h)[i] = t[i - Len(s)]
<1>1. /\ s \o h \in Seq(S) /\ Len(s \o h) = Len(s) + Len(h) /\ Len(s) \in Nat
      /\ \A i \in 1 .. Len(s) : (s \o h)[i] = s[i]
      /\ \A i \in (Len(s) + 1) .. (Len(s) + Len(h)) : (s \o h)[i] = h[i - Len(s)]
  BY SMTT(60)
<1>2. ASSUME NEW i \in (Len(s) + 1) .. (Len(s) + k)
      PROVE  (s \o h)[i] = t[i - Len(s)]
  <2>1. i - Len(s) \in 1 .. k
    BY <1>1
  <2>2. (s \o h)[i] = h[i - Len(s)]
    BY <1>1, ZenonT(60)
  <2> QED BY <2>1, <2>2, ZenonT(60)
<1> QED BY <1>1, <1>2, ZenonT(60)

(* Splitting a sequence and putting it together again.                     *)
LEMMA SplitFacts ==
    ASSUME NEW S, NEW s \in Seq(S), NEW t \in Seq(S), NEW k \in 1 .. Len(t)
    PROVE  LET head == SubSeq(t, 1, k)
               tail == SubSeq(t, k + 1, Len(t))
           IN /\ head \in Seq(S) /\ tail \in Seq(S) /\ s \o head \in Seq(S)
              /\ Len(head) = k /\ Len(tail) = Len(t) - k
              /\ Len(s \o head) = Len(s) + k
              /\ (s \o head)[Len(s) + k] = t[k]
              /\ \A i \in 1 .. Len(s) : (s \o head)[i] = s[i]
<1> DEFINE head == SubSeq(t, 1, k)
<1> DEFINE tail == SubSeq(t, k + 1, Len(t))
<1>1. /\ head \in Seq(S) /\ Len(head) = k
      /\ \A i \in 1 .. k : head[i] = t[i]
  OBVIOUS
<1>2. /\ tail \in Seq(S) /\ Len(tail) = Len(t) - k
      /\ \A i \in 1 .. (Len(t) - k) : tail[i] = t[k + i]
  OBVIOUS
<1> HIDE DEF head, tail
<1>3. /\ s \o head \in Seq(S) /\ Len(s \o head) = Len(s) + k
      /\ \A i \in 1 .. Len(s) : (s \o head)[i] = s[i]
      /\ \A i \in (Len(s) + 1) .. (Len(s) + k) : (s \o head)[i] = t[i - Len(s)]
  BY <1>1, ConcatPrefix, SMTT(60)
<1>4. (s \o head)[Len(s) + k] = t[k]
  <2>1. Len(s) + k \in (Len(s) + 1) .. (Len(s) + k) /\ (Len(s) + k) - Len(s) = k
    OBVIOUS
  <2> QED BY <1>3, <2>1
<1> QED BY <1>1, <1>2, <1>3, <1>4 DEF head, tail

LEMMA SplitSame ==
    ASSUME NEW S, NEW s \in Seq(S), NEW t \in Seq(S), NEW k \in 1 .. Len(t)
    PROVE  \A i \in 1 .. (Len(s) + Len(t)) :
              ((s \o SubSeq(t, 1, k)) \o SubSeq(t, k + 1, Len(t)))[i] = (s \o t)[i]
<1> DEFINE head == SubSeq(t, 1, k)
<1> DEFINE tail == SubSeq(t, k + 1, Len(t))
<1>1. /\ head \in Seq(S) /\ Len(head) = k
      /\ \A i \in 1 .. k : head[i] = t[i]
  OBVIOUS
<1>2. /\ tail \in Seq(S) /\ Len(tail) = Len(t) - k
      /\ \A i \in 1 .. (Len(t) - k) : tail[i] = t[k + i]
  OBVIOUS
<1> HIDE DEF head, tail
<1>3. /\ s \o head \in Seq(S) /\ Len(s \o head) = Len(s) + k
      /\ \A i \in 1 .. Len(s) : (s \o head)[i] = s[i]
      /\ \A i \in (Len(s) + 1) .. (Len(s) + k) : (s \o head)[i] = t[i - Len(s)]
  BY <1>1, ConcatPrefix, SMTT(60)
<1>4. ASSUME NEW i \in 1 .. (Len(s) + Len(t))
      PROVE  ((s \o head) \o tail)[i] = (s \o t)[i]
  <2>1. CASE i <= Len(s) + k
    BY <1>1, <1>2, <1>3, <2>1, ConcatFacts
  <2>2. CASE i > Len(s) + k
    <3> DEFINE j == i - (Len(s) + k)
    <3>1. /\ j \in 1 .. (Len(t) - k) /\ k + j = i - Len(s)
          /\ i \in (Len(s \o head) + 1) .. (Len(s \o head) + Len(tail))
          /\ i \in (Len(s) + 1) .. (Len(s) + Len(t))
      BY <1>2, <1>3, <2>2
    <3>2. ((s \o head) \o tail)[i] = tail[j]
      <4>1. ((s \o head) \o tail)[i] = tail[i - Len(s \o head)]
        BY <1>2, <1>3, <3>1, ConcatFacts, ZenonT(60)
      <4> QED BY <1>3, <4>1
    <3>3. tail[j] = t[k + j]
      BY <1>2, <3>1
    <3>4. (s \o t)[i] = t[i - Len(s)]
      BY <3>1, ConcatFacts
    <3> QED BY <3>1, <3>2, <3>3, <3>4
  <2>3. i \in Int /\ Len(s) + k \in Int
    OBVIOUS
  <2>4. i <= Len(s) + k \/ i > Len(s) + k
    <3> DEFINE m == Len(s) + k
    <3> HIDE DEF m
    <3> QED BY <2>3 DEF m
  <2> QED BY <2>1, <2>2, <2>4
<1>5. \A i \in 1 .. (Len(s) + Len(t)) : ((s \o head) \o tail)[i] = (s \o t)[i]
  BY <1>4
<1> QED BY <1>5, Zenon DEF head, tail

(* ikcp_recv stops at the fragment that ends the message.                  *)
LEMMA MergedEnds ==
    ASSUME TypeOK, IInv, NEW p \in Peers, NEW k \in 1 .. Len(rcv_queue[p]),
           WholeReady(rcv_queue[p]), Merged(rcv_queue[p], k)
    PROVE  rcv_queue[p][k].frg = 0
<1> DEFINE queue == rcv_queue[p]
<1> DEFINE str == stream[Other(p)]
<1> DEFINE n == Len(delivered[p])
<1> DEFINE f == queue[1].frg
<1>0. /\ queue \in Seq(Frag) /\ delivered[p] \in Seq(Frag)
      /\ Len(queue) \in Nat /\ n \in Nat
      /\ str \in Seq(Frag) /\ Len(str) \in Nat
  BY OtherPeer DEF TypeOK, RcvType, AppType
<1>1. 1 \in 1 .. Len(queue) /\ k \in 1 .. Len(queue)
  BY <1>0
<1>2. queue[1] \in Frag /\ queue[k] \in Frag
  BY <1>0, <1>1
<1>3. f \in Nat
  BY <1>2 DEF Frag
<1>4. f + 1 \in 1 .. Len(queue)
  <2>1. f = 0 \/ Len(queue) >= f + 1
    BY DEF WholeReady
  <2> HIDE DEF f, queue
  <2> QED BY <1>0, <1>1, <1>3, <2>1
<1>5. /\ n + Len(queue) = rcv_nxt[p] /\ rcv_nxt[p] <= Len(str)
      /\ \A i \in 1 .. rcv_nxt[p] : (delivered[p] \o queue)[i] = str[i]
  BY DEF IInv, InOrder
<1>6. ASSUME NEW i \in 1 .. Len(queue)
      PROVE  /\ queue[i] = str[n + i] /\ n + i \in 1 .. Len(str)
  <2>1. /\ n + i \in 1 .. rcv_nxt[p] /\ n + i \in 1 .. Len(str)
        /\ n + i \in (n + 1) .. (n + Len(queue)) /\ (n + i) - n = i
    <3>1. rcv_nxt[p] = n + Len(queue) /\ n + Len(queue) <= Len(str)
      BY <1>5
    <3> HIDE DEF n, queue, str
    <3> QED BY <1>0, <3>1
  <2>2. (delivered[p] \o queue)[n + i] = queue[(n + i) - n]
    BY <1>0, <2>1, ConcatFacts
  <2> QED BY <1>5, <2>1, <2>2
<1>7. queue[f + 1].frg = 0
  <2>1. str[n + 1].frg = f /\ n + 1 \in 1 .. Len(str)
    BY <1>1, <1>6
  <2>2. str[(n + 1) + f].frg = 0
    BY <2>1, OtherPeer DEF IInv, StreamShape
  <2>3. (n + 1) + f = n + (f + 1)
    <3> HIDE DEF n, f
    <3> QED BY <1>0, <1>3
  <2>4. queue[f + 1] = str[n + (f + 1)]
    BY <1>4, <1>6
  <2> QED BY <2>2, <2>3, <2>4
<1>8. /\ \A i \in 1 .. (k - 1) : queue[i].frg # 0
      /\ queue[k].frg = 0 \/ k = Len(queue)
  BY DEF Merged
<1>9. ~ (f + 1 \in 1 .. (k - 1))
  BY <1>7, <1>8
<1>10. k <= f + 1
  <2> HIDE DEF f, queue
  <2> QED BY <1>0, <1>1, <1>3, <1>9
<1>11. CASE k = Len(queue)
  <2>1. k = f + 1
    <3> HIDE DEF f, queue
    <3> QED BY <1>0, <1>1, <1>3, <1>4, <1>10, <1>11
  <2> QED BY <1>7, <2>1
<1> QED BY <1>8, <1>11

LEMMA RecvInv ==
    ASSUME TypeOK, TypeOK', IInv, NEW p \in Peers, Recv(p)
    PROVE  IInv' /\ Grows
<1> DEFINE queue == rcv_queue[p]
<1>1. PICK k \in 1 .. Len(queue) :
        /\ Merged(queue, k)
        /\ delivered' = [delivered EXCEPT ![p] = @ \o SubSeq(queue, 1, k)]
        /\ MoveReady(p, rcv_buf[p], SubSeq(queue, k + 1, Len(queue)))
  BY DEF Recv
<1> DEFINE rest == SubSeq(queue, k + 1, Len(queue))
<1> DEFINE del == delivered[p] \o SubSeq(queue, 1, k)
<1>2. /\ snd_queue' = snd_queue /\ snd_buf' = snd_buf /\ snd_una' = snd_una
      /\ snd_nxt' = snd_nxt /\ acklist' = acklist /\ net' = net /\ stream' = stream
  BY DEF Recv, sndVars, netVars
<1>3. /\ queue \in Seq(Frag) /\ delivered[p] \in Seq(Frag)
      /\ Len(queue) \in Nat /\ Len(delivered[p]) \in Nat
  BY DEF TypeOK, RcvType, AppType
<1>4. /\ rest \in Seq(Frag) /\ del \in Seq(Frag)
      /\ Len(rest) = Len(queue) - k /\ Len(del) = Len(delivered[p]) + k
      /\ del[Len(del)] = queue[k]
      /\ \A i \in 1 .. (Len(delivered[p]) + Len(queue)) :
            (del \o rest)[i] = (delivered[p] \o queue)[i]
  <2>1. /\ rest \in Seq(Frag) /\ del \in Seq(Frag)
        /\ Len(rest) = Len(queue) - k /\ Len(del) = Len(delivered[p]) + k
        /\ del[Len(delivered[p]) + k] = queue[k]
    <3> DEFINE s == delivered[p]
    <3>1. s \in Seq(Frag) /\ queue \in Seq(Frag) /\ k \in 1 .. Len(queue)
      BY <1>3
    <3> HIDE DEF s, queue
    <3>2. /\ SubSeq(queue, k + 1, Len(queue)) \in Seq(Frag)
          /\ s \o SubSeq(queue, 1, k) \in Seq(Frag)
          /\ Len(SubSeq(queue, k + 1, Len(queue))) = Len(queue) - k
          /\ Len(s \o SubSeq(queue, 1, k)) = Len(s) + k
          /\ (s \o SubSeq(queue, 1, k))[Len(s) + k] = queue[k]
      BY <3>1, SplitFacts, SMTT(60)
    <3> QED BY <3>2 DEF s
  <2>2. \A i \in 1 .. (Len(delivered[p]) + Len(queue)) :
            (del \o rest)[i] = (delivered[p] \o queue)[i]
    <3> DEFINE s == delivered[p]
    <3>1. s \in Seq(Frag) /\ queue \in Seq(Frag)
      BY <1>3
    <3> HIDE DEF s, queue
    <3>2. \A i \in 1 .. (Len(s) + Len(queue)) :
             ((s \o SubSeq(queue, 1, k)) \o SubSeq(queue, k + 1, Len(queue)))[i]
               = (s \o queue)[i]
      <4>1. k \in 1 .. Len(queue)
        OBVIOUS
      <4> QED BY <3>1, <4>1, SplitSame
    <3> QED BY <3>2 DEF s
  <2> HIDE DEF del, rest, queue
  <2> QED BY <2>1, <2>2
<1>5. delivered' = [delivered EXCEPT ![p] = del] /\ MoveReady(p, rcv_buf[p], rest)
  BY <1>1
<1>6. /\ Len(delivered[p]) + Len(queue) = rcv_nxt[p]
      /\ \A i \in 1 .. rcv_nxt[p] : (delivered[p] \o queue)[i] = stream[Other(p)][i]
      /\ Len(queue) <= RcvWnd
      /\ DOMAIN rcv_buf[p] \subseteq rcv_nxt[p] .. (rcv_nxt[p] + RcvWnd - 1)
      /\ \A sn \in DOMAIN rcv_buf[p] :
            sn < snd_nxt[Other(p)] /\ rcv_buf[p][sn] = stream[Other(p)][sn + 1]
  BY DEF IInv, InOrder, Windows, ReceiverInv
<1>7. \A sn \in DOMAIN rcv_buf[p] : rcv_buf[p][sn] \in Frag
  BY DEF TypeOK, RcvType
<1>8. queue[k].frg = 0
  BY <1>1, MergedEnds DEF Recv
<1> HIDE DEF rest, del
<1>9. /\ Len(del) + Len(rest) = rcv_nxt[p] /\ Len(rest) <= RcvWnd
      /\ Len(del) > 0
  <2>1. RcvWnd \in Nat
    BY KcpAssumption
  <2>2. /\ Len(rest) = Len(queue) - k /\ Len(del) = Len(delivered[p]) + k
        /\ Len(delivered[p]) + Len(queue) = rcv_nxt[p] /\ Len(queue) <= RcvWnd
        /\ k \in 1 .. Len(queue)
    BY <1>4, <1>6
  <2> DEFINE a == Len(delivered[p])
  <2> DEFINE b == Len(queue)
  <2>3. a \in Nat /\ b \in Nat
    BY <1>3
  <2> HIDE DEF queue, a, b
  <2>4. (a + k) + (b - k) = a + b /\ a + k > 0 /\ (b <= RcvWnd => b - k <= RcvWnd)
    BY <2>1, <2>2, <2>3 DEF b
  <2> QED BY <2>2, <2>4 DEF a, b
<1>10. \A i \in 1 .. rcv_nxt[p] : (del \o rest)[i] = stream[Other(p)][i]
  BY <1>4, <1>6
<1>11. /\ Grows /\ InOrder'
       /\ \A q \in Peers :
             /\ rcv_nxt'[q] <= snd_nxt[Other(q)]
             /\ Len(rcv_queue'[q]) <= RcvWnd
             /\ DOMAIN rcv_buf'[q] \subseteq rcv_nxt'[q] .. (rcv_nxt'[q] + RcvWnd - 1)
             /\ \A sn \in DOMAIN rcv_buf'[q] :
                   /\ sn < snd_nxt[Other(q)]
                   /\ rcv_buf'[q][sn] = stream[Other(q)][sn + 1]
  <2> DEFINE buf == rcv_buf[p]
  <2>1. /\ DOMAIN rcv_buf[p] \subseteq DOMAIN buf
        /\ DOMAIN buf \subseteq rcv_nxt[p] .. (rcv_nxt[p] + RcvWnd - 1)
        /\ \A sn \in DOMAIN buf : /\ sn < snd_nxt[Other(p)] /\ buf[sn] \in Frag
                                  /\ buf[sn] = stream[Other(p)][sn + 1]
        /\ MoveReady(p, buf, rest)
    BY <1>5, <1>6, <1>7
  <2> HIDE DEF buf
  <2> QED BY <1>2, <1>4, <1>5, <1>9, <1>10, <2>1, MoveReadyKeeps
<1>12. NetInv'
  BY <1>2, <1>11, DatagramKept DEF NetInv
<1>13. WholeMessages'
  <2>1. delivered'[p] = del /\ \A q \in Peers \ {p} : delivered'[q] = delivered[q]
    BY <1>5 DEF TypeOK, AppType
  <2> QED BY <1>4, <1>8, <2>1 DEF IInv, WholeMessages
<1>14. StreamShape' /\ SenderInv'
  BY <1>2 DEF IInv, StreamShape, SenderInv
<1>15. ReceiverInv'
  <2>1. \A q \in Peers : acklist'[q] \subseteq Got(q)'
    BY <1>2, <1>11 DEF IInv, ReceiverInv, Grows
  <2> QED BY <1>2, <1>11, <2>1 DEF ReceiverInv
<1>16. NothingLost'
  <2>1. \A q \in Peers : \A sn \in Got(Other(q)) : sn \in Got(Other(q))'
    BY <1>11, OtherPeer DEF Grows
  <2> QED BY <1>2, <2>1 DEF IInv, NothingLost
<1>17. Windows'
  BY <1>2, <1>11 DEF IInv, Windows
<1> QED BY <1>11, <1>12, <1>13, <1>14, <1>15, <1>16, <1>17 DEF IInv

LEMMA InputPushInv ==
    ASSUME TypeOK, TypeOK', IInv, NEW p \in Peers, NEW d, InputPush(p, d)
    PROVE  IInv' /\ Grows
<1>1. /\ stream' = stream /\ delivered' = delivered
      /\ snd_nxt' = snd_nxt /\ snd_queue' = snd_queue
      /\ acklist' = [acklist EXCEPT ![p] =
             IF d.sn < rcv_nxt[p] + RcvWnd THEN @ \cup {d.sn} ELSE @]
  BY DEF InputPush, appVars, Acknowledge
<1>2. d \in net[p] /\ d \in Push /\ d.kind = "push"
  <2>1. d \in Ctl \/ d \in Push
    BY TakeType DEF InputPush
  <2> QED BY <2>1 DEF InputPush, Take, Ctl
<1>3. /\ d.una \in Nat /\ d.wnd \in Nat /\ d.sn \in Nat /\ d.frag \in Frag
      /\ d.una <= rcv_nxt[Other(p)]
      /\ d.sn < snd_nxt[Other(p)] /\ d.frag = stream[Other(p)][d.sn + 1]
  BY <1>2 DEF Push, DatagramOK, IInv, NetInv
<1>4. rcv_nxt[p] \in Nat /\ RcvWnd \in Nat /\ snd_nxt[Other(p)] \in Nat
  BY KcpAssumption, OtherPeer DEF TypeOK, RcvType, SndType
<1>5. /\ Len(delivered[p]) + Len(rcv_queue[p]) = rcv_nxt[p]
      /\ \A i \in 1 .. rcv_nxt[p] :
            (delivered[p] \o rcv_queue[p])[i] = stream[Other(p)][i]
      /\ Len(rcv_queue[p]) <= RcvWnd
      /\ DOMAIN rcv_buf[p] \subseteq rcv_nxt[p] .. (rcv_nxt[p] + RcvWnd - 1)
      /\ \A sn \in DOMAIN rcv_buf[p] :
            sn < snd_nxt[Other(p)] /\ rcv_buf[p][sn] = stream[Other(p)][sn + 1]
  BY DEF IInv, InOrder, Windows, ReceiverInv
<1>6. \A sn \in DOMAIN rcv_buf[p] : rcv_buf[p][sn] \in Frag
  BY DEF TypeOK, RcvType
<1>7. /\ Grows /\ InOrder'
      /\ InWindow(p, d.sn) => d.sn \in Got(p)'
      /\ \A q \in Peers :
            /\ rcv_nxt'[q] <= snd_nxt[Other(q)]
            /\ Len(rcv_queue'[q]) <= RcvWnd
            /\ DOMAIN rcv_buf'[q] \subseteq rcv_nxt'[q] .. (rcv_nxt'[q] + RcvWnd - 1)
            /\ \A sn \in DOMAIN rcv_buf'[q] :
                  /\ sn < snd_nxt[Other(q)]
                  /\ rcv_buf'[q][sn] = stream[Other(q)][sn + 1]
  <2>1. CASE InWindow(p, d.sn)
    <3> DEFINE buf == Insert(rcv_buf[p], d.sn, d.frag)
    <3>1. /\ DOMAIN buf = DOMAIN rcv_buf[p] \cup {d.sn}
          /\ \A sn \in DOMAIN buf : \/ sn \in DOMAIN rcv_buf[p] /\ buf[sn] = rcv_buf[p][sn]
                                    \/ sn = d.sn /\ buf[sn] = d.frag
      BY DEF Insert
    <3>2. d.sn \in rcv_nxt[p] .. (rcv_nxt[p] + RcvWnd - 1)
      BY <1>3, <1>4, <2>1 DEF InWindow
    <3> DEFINE queue == rcv_queue[p]
    <3> DEFINE del == delivered[p]
    <3>3. queue \in Seq(Frag) /\ del \in Seq(Frag) /\ MoveReady(p, buf, queue)
      BY <2>1 DEF InputPush, TypeOK, RcvType, AppType
    <3>4. delivered' = [delivered EXCEPT ![p] = del]
      BY <1>1 DEF TypeOK, AppType
    <3> HIDE DEF buf
    <3>5. /\ DOMAIN rcv_buf[p] \subseteq DOMAIN buf
          /\ DOMAIN buf \subseteq rcv_nxt[p] .. (rcv_nxt[p] + RcvWnd - 1)
          /\ \A sn \in DOMAIN buf : /\ sn < snd_nxt[Other(p)] /\ buf[sn] \in Frag
                                    /\ buf[sn] = stream[Other(p)][sn + 1]
      BY <1>3, <1>5, <1>6, <3>1, <3>2
    <3>6. Len(queue) <= RcvWnd /\ Len(del) + Len(queue) = rcv_nxt[p]
          /\ \A i \in 1 .. rcv_nxt[p] : (del \o queue)[i] = stream[Other(p)][i]
      BY <1>5
    <3> HIDE DEF queue, del
    <3>7. /\ Grows /\ InOrder'
          /\ \A sn \in DOMAIN buf : sn \in Got(p)'
          /\ \A q \in Peers :
                /\ rcv_nxt'[q] <= snd_nxt[Other(q)]
                /\ Len(rcv_queue'[q]) <= RcvWnd
                /\ DOMAIN rcv_buf'[q] \subseteq rcv_nxt'[q] .. (rcv_nxt'[q] + RcvWnd - 1)
                /\ \A sn \in DOMAIN rcv_buf'[q] :
                      /\ sn < snd_nxt[Other(q)]
                      /\ rcv_buf'[q][sn] = stream[Other(q)][sn + 1]
      BY <1>1, <3>3, <3>4, <3>5, <3>6, MoveReadyKeeps
    <3> QED BY <3>1, <3>7
  <2>2. CASE ~InWindow(p, d.sn)
    <3>1. rcv_nxt' = rcv_nxt /\ rcv_buf' = rcv_buf /\ rcv_queue' = rcv_queue
      BY <2>2 DEF InputPush, rcvVars
    <3>2. Grows
      BY <1>1, <3>1, GrowsUnchanged
    <3>3. InOrder'
      BY <1>1, <3>1 DEF IInv, InOrder
    <3> QED BY <2>2, <3>1, <3>2, <3>3 DEF IInv, ReceiverInv, Windows
  <2> QED BY <2>1, <2>2
<1>8. NetInv'
  BY <1>7, TakeInv DEF InputPush
<1>9. \A q \in Peers : Got(q) \subseteq Got(q)'
  BY <1>7 DEF Grows
<1>10. /\ SenderInv' /\ NothingLost'
       /\ \A q \in Peers :
             /\ snd_una'[q] <= snd_nxt'[q] /\ snd_nxt'[q] - snd_una'[q] <= SndWnd
             /\ DOMAIN snd_buf'[q] \subseteq snd_una'[q] .. (snd_nxt'[q] - 1)
  <2>1. Acknowledge(p, d.una, {}, d.wnd) /\ {} \in SUBSET Nat /\ {} \subseteq Got(Other(p))
    BY DEF InputPush
  <2> QED BY <1>1, <1>3, <1>9, <2>1, AcknowledgeKeeps
<1>11. d.sn < rcv_nxt[p] + RcvWnd => d.sn \in Got(p)'
  <2>1. CASE d.sn < rcv_nxt[p]
    <3>1. d.sn \in Got(p)
      BY <1>3, <1>4, <2>1 DEF Got
    <3> QED BY <1>9, <3>1
  <2>2. CASE d.sn >= rcv_nxt[p]
    BY <1>7, <2>2 DEF InWindow
  <2> QED BY <1>3, <1>4, <2>1, <2>2
<1>12. \A q \in Peers : acklist'[q] \subseteq Got(q)'
  <2>1. \A q \in Peers : acklist[q] \subseteq Got(q)
    BY DEF IInv, ReceiverInv
  <2>2. \A q \in Peers : \A a \in acklist'[q] :
           a \in acklist[q] \/ (q = p /\ a = d.sn /\ d.sn < rcv_nxt[p] + RcvWnd)
    BY <1>1 DEF TypeOK, CtlType
  <2> QED BY <1>9, <1>11, <2>1, <2>2
<1>13. ReceiverInv'
  BY <1>1, <1>7, <1>12 DEF ReceiverInv
<1>14. StreamShape' /\ WholeMessages'
  BY <1>1 DEF IInv, StreamShape, WholeMessages
<1>15. Windows'
  BY <1>7, <1>10 DEF Windows
<1> QED BY <1>7, <1>8, <1>10, <1>13, <1>14, <1>15 DEF IInv

(* The fragments a flush numbers are those that come next in the stream.   *)
LEMMA FilledInv ==
    ASSUME TypeOK, IInv, NEW p \in Peers, NEW sn \in DOMAIN Filled(p)
    PROVE  /\ sn \in Nat /\ snd_una[p] <= sn /\ sn < snd_nxt[p] + Movable(p)
           /\ sn + 1 \in 1 .. Len(stream[p])
           /\ Filled(p)[sn].frag = stream[p][sn + 1]
           /\ EncodeFrag(Filled(p)[sn].frag) = Filled(p)[sn].frag
<1>1. /\ Movable(p) \in Nat /\ Movable(p) <= Len(snd_queue[p])
      /\ Len(snd_queue[p]) \in Nat
  BY MovableType DEF TypeOK, SndType
<1>2. /\ snd_nxt[p] \in Nat /\ snd_una[p] \in Nat /\ snd_una[p] <= snd_nxt[p]
      /\ \A n \in DOMAIN snd_buf[p] : n \in Nat /\ snd_una[p] <= n /\ n < snd_nxt[p]
  BY SndBufBounds
<1>3. /\ snd_nxt[p] + Len(snd_queue[p]) = Len(stream[p]) /\ Len(stream[p]) \in Nat
      /\ \A i \in 1 .. Len(snd_queue[p]) :
            snd_queue[p][i] = stream[p][snd_nxt[p] + i]
      /\ \A n \in DOMAIN snd_buf[p] : snd_buf[p][n].frag = stream[p][n + 1]
  BY DEF IInv, SenderInv, TypeOK, AppType
<1>4. /\ sn \in Nat /\ snd_una[p] <= sn /\ sn < snd_nxt[p] + Movable(p)
      /\ sn + 1 \in 1 .. Len(stream[p])
      /\ Filled(p)[sn].frag = stream[p][sn + 1]
  <2>1. CASE sn \in DOMAIN snd_buf[p]
    <3>1. Filled(p)[sn] = snd_buf[p][sn]
      BY <2>1 DEF Filled
    <3>2. sn \in Nat /\ snd_una[p] <= sn /\ sn < snd_nxt[p]
      BY <1>2, <2>1
    <3> QED BY <1>1, <1>2, <1>3, <2>1, <3>1, <3>2, SMTT(60)
  <2>2. CASE sn \notin DOMAIN snd_buf[p]
    <3>1. /\ sn \in snd_nxt[p] .. (snd_nxt[p] + Movable(p) - 1)
          /\ Filled(p)[sn].frag = snd_queue[p][sn - snd_nxt[p] + 1]
      BY <2>2 DEF Filled
    <3> DEFINE i == sn - snd_nxt[p] + 1
    <3>2. /\ sn \in Nat /\ sn >= snd_nxt[p] /\ sn < snd_nxt[p] + Movable(p)
          /\ i \in 1 .. Len(snd_queue[p]) /\ snd_nxt[p] + i = sn + 1
      BY <1>1, <1>2, <3>1, SMTT(60)
    <3>3. Filled(p)[sn].frag = stream[p][snd_nxt[p] + i]
      BY <1>3, <3>1, <3>2
    <3>4. sn + 1 \in 1 .. Len(stream[p])
      BY <1>1, <1>2, <1>3, <3>2, SMTT(60)
    <3> QED BY <1>2, <3>2, <3>3, <3>4, SMTT(60)
  <2> QED BY <2>1, <2>2
<1>5. /\ stream[p][sn + 1] \in Frag /\ stream[p][sn + 1].frg < FrgLimit
  BY <1>4 DEF TypeOK, AppType, IInv, StreamShape
<1>6. ASSUME NEW f \in Frag, f.frg < FrgLimit
      PROVE  EncodeFrag(f) = f
  <2>1. f.frg \in Nat /\ f.frg < 255
    BY <1>6 DEF Frag, FrgLimit
  <2>2. f.frg % 256 = f.frg
    BY <2>1
  <2> QED BY <2>2 DEF EncodeFrag, Frag
<1> QED BY <1>4, <1>5, <1>6

LEMMA FlushInv ==
    ASSUME TypeOK, TypeOK', IInv, NEW p \in Peers, NEW expired, NEW due,
           Flush(p, expired, due)
    PROVE  IInv' /\ Grows
<1> DEFINE m == Movable(p)
<1> DEFINE queue == snd_queue[p]
<1> DEFINE n == snd_nxt[p]
<1>1. /\ rcv_buf' = rcv_buf /\ rcv_queue' = rcv_queue /\ rcv_nxt' = rcv_nxt
      /\ stream' = stream /\ delivered' = delivered /\ snd_una' = snd_una
  BY DEF Flush, rcvVars, appVars
<1>2. /\ snd_nxt'[p] = n + m
      /\ snd_queue'[p] = SubSeq(queue, m + 1, Len(queue))
      /\ snd_buf'[p] = [sn \in DOMAIN Filled(p) |->
                           Transmit(Filled(p)[sn], sn, expired)]
      /\ acklist'[p] = {}
      /\ \A q \in Peers \ {p} :
            /\ snd_nxt'[q] = snd_nxt[q] /\ snd_queue'[q] = snd_queue[q]
            /\ snd_buf'[q] = snd_buf[q] /\ acklist'[q] = acklist[q]
  BY DEF Flush, TypeOK, SndType, CtlType
<1>3. /\ m \in Nat /\ m <= Len(queue) /\ n \in Nat
      /\ queue \in Seq(Frag) /\ Len(queue) \in Nat
      /\ Window(p) \in Nat /\ Window(p) <= SndWnd /\ SndWnd \in Nat
      /\ m = 0 \/ n + m <= snd_una[p] + Window(p)
  <2>1. /\ n \in Nat /\ queue \in Seq(Frag) /\ Len(queue) \in Nat /\ SndWnd \in Nat
    BY KcpAssumption DEF TypeOK, SndType
  <2>2. /\ m \in Nat /\ m <= Len(queue)
        /\ Window(p) \in Nat /\ Window(p) <= SndWnd
        /\ m = 0 \/ n + m <= snd_una[p] + Window(p)
    BY MovableType
  <2> QED BY <2>1, <2>2
<1>4. \A sn \in DOMAIN Filled(p) :
         /\ Transmit(Filled(p)[sn], sn, expired).frag = Filled(p)[sn].frag
         /\ Filled(p)[sn].frag = stream[p][sn + 1]
         /\ sn \in Nat /\ snd_una[p] <= sn /\ sn < n + m
  BY FilledType, FilledInv, TransmitType, ZenonT(60)
<1>5. \A q \in Peers : /\ snd_nxt[q] \in Nat /\ rcv_nxt[q] \in Nat
                       /\ Len(stream[q]) \in Nat /\ snd_una[q] \in Nat
  BY DEF TypeOK, SndType, RcvType, AppType
<1>6. \A q \in Peers : snd_nxt'[q] \in Nat /\ snd_nxt[q] <= snd_nxt'[q]
  <2> HIDE DEF m
  <2> QED BY <1>2, <1>3, <1>5
<1>7. \A q \in Peers : \A sn \in Got(q) : sn \in Got(q)'
  BY <1>1, <1>5, <1>6, OtherPeer DEF Got
<1>8. Grows
  BY <1>1, <1>5, <1>6, <1>7 DEF Grows
<1>9. SenderInv'
  <2>1. SUFFICES ASSUME NEW q \in Peers
                 PROVE  /\ snd_nxt'[q] + Len(snd_queue'[q]) = Len(stream[q])
                        /\ \A i \in 1 .. Len(snd_queue'[q]) :
                              snd_queue'[q][i] = stream[q][snd_nxt'[q] + i]
                        /\ \A sn \in DOMAIN snd_buf'[q] :
                              snd_buf'[q][sn].frag = stream[q][sn + 1]
    BY <1>1 DEF SenderInv
  <2>2. CASE q # p
    BY <1>2, <2>2 DEF IInv, SenderInv
  <2>3. CASE q = p
    <3>1. /\ n + Len(queue) = Len(stream[p])
          /\ \A i \in 1 .. Len(queue) : queue[i] = stream[p][n + i]
      BY DEF IInv, SenderInv
    <3> HIDE DEF m, n, queue
    <3>2. /\ Len(SubSeq(queue, m + 1, Len(queue))) = Len(queue) - m
          /\ \A i \in 1 .. (Len(queue) - m) :
                SubSeq(queue, m + 1, Len(queue))[i] = queue[m + i]
      BY <1>3
    <3>3. (n + m) + (Len(queue) - m) = Len(stream[p])
      <4> DEFINE a == Len(queue)
      <4>1. a \in Nat /\ n \in Nat /\ m \in Nat /\ n + a = Len(stream[p])
        BY <1>3, <3>1
      <4> HIDE DEF a
      <4>2. (n + m) + (a - m) = n + a
        BY <4>1
      <4> QED BY <4>1, <4>2 DEF a
    <3>4. ASSUME NEW i \in 1 .. (Len(queue) - m)
          PROVE  SubSeq(queue, m + 1, Len(queue))[i] = stream[p][(n + m) + i]
      <4>1. m + i \in 1 .. Len(queue) /\ n + (m + i) = (n + m) + i
        BY <1>3
      <4> QED BY <3>1, <3>2, <4>1
    <3>5. \A sn \in DOMAIN snd_buf'[p] : snd_buf'[p][sn].frag = stream[p][sn + 1]
      BY <1>2, <1>4
    <3> QED BY <1>2, <2>3, <3>2, <3>3, <3>4, <3>5, ZenonT(60)
  <2> QED BY <2>2, <2>3
<1>10. ReceiverInv'
  <2>1. \A q \in Peers : acklist'[q] \subseteq Got(q)'
    BY <1>2, <1>7 DEF IInv, ReceiverInv
  <2>2. \A q \in Peers : \A sn \in DOMAIN rcv_buf[q] :
           sn \in Nat /\ sn < snd_nxt[Other(q)] /\ rcv_buf[q][sn] = stream[Other(q)][sn + 1]
    BY DEF IInv, ReceiverInv, TypeOK, RcvType
  <2>3. \A q \in Peers : rcv_nxt[q] <= snd_nxt[Other(q)]
    BY DEF IInv, ReceiverInv
  <2>4. \A q \in Peers : /\ snd_nxt[Other(q)] \in Nat /\ snd_nxt'[Other(q)] \in Nat
                         /\ snd_nxt[Other(q)] <= snd_nxt'[Other(q)]
    BY <1>5, <1>6, OtherPeer
  <2>5. ASSUME NEW q \in Peers
        PROVE  /\ rcv_nxt'[q] <= snd_nxt'[Other(q)]
               /\ \A sn \in DOMAIN rcv_buf'[q] :
                     /\ sn < snd_nxt'[Other(q)]
                     /\ rcv_buf'[q][sn] = stream'[Other(q)][sn + 1]
    BY <1>1, <1>5, <2>2, <2>3, <2>4
  <2> QED BY <2>1, <2>5 DEF ReceiverInv
<1>11. NothingLost'
  <2>1. SUFFICES ASSUME NEW q \in Peers, NEW sn \in 0 .. (snd_nxt'[q] - 1)
                 PROVE  sn \in DOMAIN snd_buf'[q] \/ sn \in Got(Other(q))'
    BY DEF NothingLost
  <2>2. CASE sn < snd_nxt[q]
    <3>1. sn \in 0 .. (snd_nxt[q] - 1)
      BY <1>5, <1>6, <2>2
    <3>2. sn \in DOMAIN snd_buf[q] \/ sn \in Got(Other(q))
      BY <3>1 DEF IInv, NothingLost
    <3>3. DOMAIN snd_buf[q] \subseteq DOMAIN snd_buf'[q]
      BY <1>2, FilledType
    <3> QED BY <1>7, <3>2, <3>3, OtherPeer
  <2>3. CASE sn >= snd_nxt[q]
    <3>1. q = p /\ sn \in n .. (n + m - 1)
      <4>1. q = p
        BY <1>2, <1>5, <2>3
      <4> HIDE DEF m
      <4> QED BY <1>2, <1>3, <2>3, <4>1
    <3> QED BY <1>2, <3>1, FilledType
  <2> QED BY <1>5, <1>6, <2>2, <2>3
<1>12. Windows'
  <2>1. ASSUME NEW q \in Peers
        PROVE  /\ snd_una[q] <= snd_nxt'[q] /\ snd_nxt'[q] - snd_una[q] <= SndWnd
               /\ DOMAIN snd_buf'[q] \subseteq snd_una[q] .. (snd_nxt'[q] - 1)
    <3>1. snd_una[q] <= snd_nxt[q] /\ snd_nxt[q] - snd_una[q] <= SndWnd
      BY DEF IInv, Windows
    <3>2. CASE q # p
      BY <1>2, <3>2 DEF IInv, Windows
    <3>3. CASE q = p
      <4>1. \A sn \in DOMAIN snd_buf'[p] : sn \in Nat /\ snd_una[p] <= sn /\ sn < n + m
        BY <1>2, <1>4
      <4>2. snd_una[p] \in Nat
        BY <1>5
      <4>3. snd_una[p] <= n + m /\ (n + m) - snd_una[p] <= SndWnd
        <5>1. snd_una[p] <= n /\ n - snd_una[p] <= SndWnd
          BY <3>1, <3>3
        <5> DEFINE w == Window(p)
        <5>2. w \in Nat /\ w <= SndWnd /\ (m = 0 \/ n + m <= snd_una[p] + w)
          BY <1>3
        <5> HIDE DEF m, n, w
        <5> QED BY <1>3, <4>2, <5>1, <5>2
      <4>4. DOMAIN snd_buf'[p] \subseteq snd_una[p] .. ((n + m) - 1)
        <5> HIDE DEF m, n
        <5> QED BY <1>3, <4>1, <4>2
      <4> QED BY <1>2, <3>3, <4>3, <4>4
    <3> QED BY <3>2, <3>3
  <2>2. \A q \in Peers :
          /\ Len(rcv_queue[q]) <= RcvWnd
          /\ DOMAIN rcv_buf[q] \subseteq rcv_nxt[q] .. (rcv_nxt[q] + RcvWnd - 1)
    BY DEF IInv, Windows
  <2> QED BY <1>1, <2>1, <2>2 DEF Windows
<1>13. StreamShape' /\ InOrder' /\ WholeMessages'
  BY <1>1 DEF IInv, StreamShape, InOrder, WholeMessages
<1>14. NetInv'
  <2> DEFINE buf == Filled(p)
  <2> DEFINE send == {sn \in DOMAIN buf : NeedSend(buf[sn], sn, expired)}
  <2> DEFINE wnd == EncodeWnd(WndUnused(p))
  <2> DEFINE cmds == probe[p] \cup (IF ProbeDue(p, due) THEN {"WASK"} ELSE {})
  <2> DEFINE ctl == IF acklist[p] = {} /\ cmds = {} THEN {}
                    ELSE {[kind |-> "ctl", una |-> rcv_nxt[p], wnd |-> wnd,
                           acks |-> acklist[p], probe |-> cmds]}
  <2> DEFINE push == {[kind |-> "push", una |-> rcv_nxt[p], wnd |-> wnd, sn |-> sn,
                       frag |-> EncodeFrag(buf[sn].frag)] : sn \in send}
  <2>1. net' = [net EXCEPT ![Other(p)] = @ \cup ctl \cup push]
    BY DEF Flush
  <2>2. \A d \in ctl : d.kind = "ctl" /\ d.una = rcv_nxt[p] /\ d.acks = acklist[p]
    <3> HIDE DEF wnd, cmds
    <3> QED OBVIOUS
  <2>3. \A d \in push : /\ d.kind = "push" /\ d.una = rcv_nxt[p]
                        /\ d.sn \in DOMAIN buf /\ d.frag = EncodeFrag(buf[d.sn].frag)
    <3>1. send \subseteq DOMAIN buf
      OBVIOUS
    <3> HIDE DEF wnd, buf, send
    <3> QED BY <3>1
  <2>4. \A sn \in DOMAIN buf : EncodeFrag(buf[sn].frag) = stream[p][sn + 1]
    BY FilledInv
  <2>5. acklist[p] \subseteq Got(p)'
    BY <1>7 DEF IInv, ReceiverInv
  <2> HIDE DEF ctl, push
  <2>6. \A q \in Peers : \A d \in net'[q] :
           d \in net[q] \/ (q = Other(p) /\ (d \in ctl \/ d \in push))
    BY <2>1 DEF TypeOK, NetType
  <2>7. Other(Other(p)) = p /\ rcv_nxt'[p] = rcv_nxt[p] /\ rcv_nxt[p] <= rcv_nxt[p]
    BY <1>1, <1>5, OtherPeer
  <2>8. ASSUME NEW d \in ctl PROVE DatagramOK(Other(p), d)'
    BY <2>2, <2>5, <2>7 DEF DatagramOK
  <2>9. ASSUME NEW d \in push PROVE DatagramOK(Other(p), d)'
    <3>1. d.sn < snd_nxt'[p] /\ d.frag = stream'[p][d.sn + 1]
      BY <1>1, <1>2, <1>4, <2>3, <2>4
    <3> QED BY <2>3, <2>7, <3>1 DEF DatagramOK
  <2> QED BY <1>8, <2>6, <2>8, <2>9, DatagramKept DEF NetInv
<1> QED BY <1>8, <1>9, <1>10, <1>11, <1>12, <1>13, <1>14 DEF IInv

LEMMA InitInv == Init => IInv
<1> SUFFICES ASSUME Init PROVE IInv
  OBVIOUS
<1>1. \A p \in Peers :
        /\ snd_queue[p] = <<>> /\ snd_buf[p] = [sn \in {} |-> {}]
        /\ snd_una[p] = 0 /\ snd_nxt[p] = 0 /\ rcv_nxt[p] = 0
        /\ rcv_buf[p] = [sn \in {} |-> {}] /\ rcv_queue[p] = <<>>
        /\ acklist[p] = {} /\ net[p] = {}
        /\ stream[p] = <<>> /\ delivered[p] = <<>>
  BY DEF Init
<1>2. SndWnd \in Nat /\ RcvWnd \in Nat
  BY KcpAssumption
<1>3. StreamShape /\ SenderInv /\ NetInv /\ WholeMessages
  BY <1>1 DEF StreamShape, SenderInv, NetInv, WholeMessages
<1>4. ReceiverInv /\ InOrder
  <2>1. \A p \in Peers : snd_nxt[Other(p)] = 0 /\ stream[Other(p)] = <<>>
    BY <1>1, OtherPeer
  <2>2. \A p \in Peers : /\ DOMAIN rcv_buf[p] = {} /\ acklist[p] = {}
                         /\ Len(delivered[p]) = 0 /\ Len(rcv_queue[p]) = 0
                         /\ Len(stream[Other(p)]) = 0 /\ rcv_nxt[p] = 0
    BY <1>1, <2>1
  <2>3. ReceiverInv
    BY <2>1, <2>2 DEF ReceiverInv
  <2>4. ASSUME NEW p \in Peers
        PROVE  /\ rcv_nxt[p] <= Len(stream[Other(p)])
               /\ Len(delivered[p]) + Len(rcv_queue[p]) = rcv_nxt[p]
               /\ 1 .. rcv_nxt[p] = {}
    <3>1. rcv_nxt[p] = 0 /\ 1 .. 0 = {}
      BY <2>2
    <3>2. rcv_nxt[p] <= Len(stream[Other(p)])
      BY <2>2
    <3>3. Len(delivered[p]) = 0 /\ Len(rcv_queue[p]) = 0 /\ rcv_nxt[p] = 0
      BY <2>2, Zenon
    <3>4. ASSUME NEW a, NEW b, NEW c, a = 0, b = 0, c = 0 PROVE a + b = c
      BY <3>4
    <3>5. Len(delivered[p]) + Len(rcv_queue[p]) = rcv_nxt[p]
      BY <3>3, <3>4, Zenon
    <3> QED BY <3>1, <3>2, <3>5
  <2>5. InOrder
    BY <2>4 DEF InOrder
  <2> QED BY <2>3, <2>5
<1>5. NothingLost /\ Windows
  BY <1>1, <1>2 DEF NothingLost, Windows
<1> QED BY <1>3, <1>4, <1>5 DEF IInv

LEMMA StepInv == TypeOK /\ TypeOK' /\ IInv /\ [Next]_vars => IInv' /\ Grows
<1> SUFFICES ASSUME TypeOK, TypeOK', IInv, [Next]_vars PROVE IInv' /\ Grows
  OBVIOUS
<1>1. ASSUME NEW p \in Peers, NEW k \in MsgSizes, Send(p, k) PROVE IInv' /\ Grows
  BY <1>1, SendInv
<1>2. ASSUME NEW p \in Peers, Recv(p) PROVE IInv' /\ Grows
  BY <1>2, RecvInv
<1>3. ASSUME NEW p \in Peers, Update(p) PROVE IInv' /\ Grows
  BY <1>3, FlushInv DEF Update
<1>4. ASSUME NEW p \in Peers, NEW d \in net[p], InputCtl(p, d) PROVE IInv' /\ Grows
  BY <1>4, InputCtlInv
<1>5. ASSUME NEW p \in Peers, NEW d \in net[p], InputPush(p, d) PROVE IInv' /\ Grows
  BY <1>5, InputPushInv
<1>6. ASSUME NEW p \in Peers, NEW d \in net[p], Lose(p, d) PROVE IInv' /\ Grows
  BY <1>6, LoseInv
<1>7. CASE UNCHANGED vars
  <2>1. /\ rcv_buf' = rcv_buf /\ rcv_queue' = rcv_queue /\ rcv_nxt' = rcv_nxt
        /\ acklist' = acklist /\ stream' = stream /\ delivered' = delivered
        /\ snd_nxt' = snd_nxt /\ snd_una' = snd_una /\ snd_buf' = snd_buf
        /\ snd_queue' = snd_queue /\ net' = net
    BY <1>7 DEF vars, sndVars, rcvVars, ctlVars, netVars, appVars
  <2>2. Grows
    BY <2>1, GrowsUnchanged
  <2>3. NetInv'
    BY <2>1, <2>2, DatagramKept DEF NetInv
  <2>4. \A q \in Peers : Got(q)' = Got(q)
    BY <2>1 DEF Got
  <2>5. StreamShape' /\ InOrder' /\ WholeMessages' /\ SenderInv' /\ Windows'
    BY <2>1 DEF IInv, StreamShape, InOrder, WholeMessages, SenderInv, Windows
  <2>6. ReceiverInv' /\ NothingLost'
    BY <2>1, <2>4, OtherPeer DEF IInv, ReceiverInv, NothingLost
  <2> QED BY <2>2, <2>3, <2>5, <2>6 DEF IInv
<1> QED BY <1>1, <1>2, <1>3, <1>4, <1>5, <1>6, <1>7 DEF Next

(* The inductive invariant holds throughout, for windows, message sizes    *)
(* and streams of any size, and however datagrams are lost or repeated.    *)
THEOREM Inductive == Spec => []IInv
<1>1. Init => TypeOK /\ IInv
  BY InitType, InitInv
<1>2. TypeOK /\ IInv /\ [Next]_vars => (TypeOK /\ IInv)'
  BY StepType, StepInv
<1> QED BY <1>1, <1>2, PTL DEF Spec

(* ikcp_recv hands over exactly what ikcp_send was given, in order.        *)
THEOREM DeliversInOrder == Spec => [](InOrder /\ WholeMessages)
<1>1. IInv => InOrder /\ WholeMessages
  BY DEF IInv
<1> QED BY <1>1, Inductive, PTL

(* A segment is dropped from snd_buf only when the peer holds it.          *)
THEOREM LosesNothing == Spec => []NothingLost
<1>1. IInv => NothingLost
  BY DEF IInv
<1> QED BY <1>1, Inductive, PTL

(* Neither end exceeds its windows.                                        *)
THEOREM WithinWindows == Spec => []Windows
<1>1. IInv => Windows
  BY DEF IInv
<1> QED BY <1>1, Inductive, PTL
-----------------------------------------------------------------------------
(* Action properties and refinement.                                       *)

(* What was handed over stays, and only Recv adds to it.                   *)
LEMMA DeliveredGrows ==
    ASSUME TypeOK, [Next]_vars, NEW p \in Peers
    PROVE  SubSeq(delivered'[p], 1, Len(delivered[p])) = delivered[p]
<1>1. delivered[p] \in Seq(Frag)
  BY DEF TypeOK, AppType
<1>2. SubSeq(delivered[p], 1, Len(delivered[p])) = delivered[p]
  BY <1>1
<1>3. ASSUME NEW q \in Peers, Recv(q)
      PROVE  SubSeq(delivered'[p], 1, Len(delivered[p])) = delivered[p]
  <2>1. PICK k \in 1 .. Len(rcv_queue[q]) :
           delivered' = [delivered EXCEPT ![q] = @ \o SubSeq(rcv_queue[q], 1, k)]
    BY <1>3 DEF Recv
  <2>2. rcv_queue[q] \in Seq(Frag) /\ delivered[q] \in Seq(Frag)
    BY DEF TypeOK, RcvType, AppType
  <2>3. CASE p = q
    <3> DEFINE t == SubSeq(rcv_queue[q], 1, k)
    <3>1. t \in Seq(Frag) /\ delivered'[q] = delivered[q] \o t
      BY <2>1, <2>2 DEF TypeOK, AppType
    <3> HIDE DEF t
    <3>2. SubSeq(delivered[q] \o t, 1, Len(delivered[q])) = delivered[q]
      BY <2>2, <3>1
    <3> QED BY <2>3, <3>1, <3>2
  <2>4. CASE p # q
    BY <1>2, <2>1, <2>4 DEF TypeOK, AppType
  <2> QED BY <2>3, <2>4
<1>4. delivered' = delivered \/ \E q \in Peers : Recv(q)
  BY ZenonT(60) DEF Next, Send, Update, Flush, InputCtl, InputPush, Lose, vars, appVars
<1> QED BY <1>2, <1>3, <1>4

(* snd_una never moves back, however old the datagrams that arrive are.    *)
LEMMA UnaGrows ==
    ASSUME TypeOK, TypeOK', IInv, [Next]_vars, NEW p \in Peers
    PROVE  snd_una[p] <= snd_una'[p]
<1>0. snd_una[p] \in Nat
  BY DEF TypeOK, SndType
<1>1. ASSUME NEW q \in Peers, NEW d \in net[q], InputCtl(q, d)
      PROVE  snd_una[p] <= snd_una'[p]
  <2>1. d \in Ctl /\ DatagramOK(q, d)
    BY <1>1, TakeType DEF InputCtl, Push, IInv, NetInv
  <2>2. /\ d.una \in Nat /\ d.wnd \in Nat /\ d.acks \in SUBSET Nat
        /\ d.una <= rcv_nxt[Other(q)] /\ d.acks \subseteq Got(Other(q))
        /\ Acknowledge(q, d.una, d.acks, d.wnd)
    BY <1>1, <2>1 DEF Ctl, DatagramOK, InputCtl
  <2> QED BY <2>2, AcknowledgeInv
<1>2. ASSUME NEW q \in Peers, NEW d \in net[q], InputPush(q, d)
      PROVE  snd_una[p] <= snd_una'[p]
  <2>1. d \in Push /\ DatagramOK(q, d)
    BY <1>2, TakeType DEF InputPush, Ctl, IInv, NetInv
  <2>2. /\ d.una \in Nat /\ d.wnd \in Nat /\ {} \in SUBSET Nat
        /\ d.una <= rcv_nxt[Other(q)] /\ {} \subseteq Got(Other(q))
        /\ Acknowledge(q, d.una, {}, d.wnd)
    BY <1>2, <2>1 DEF Push, DatagramOK, InputPush
  <2> QED BY <2>2, AcknowledgeInv
<1>3. \/ snd_una' = snd_una
      \/ \E q \in Peers : \E d \in net[q] : InputCtl(q, d) \/ InputPush(q, d)
  BY ZenonT(60) DEF Next, Send, Recv, Update, Flush, Lose, vars, sndVars
<1> QED BY <1>0, <1>1, <1>2, <1>3

(* Late and repeated datagrams never move a control block backwards.       *)
THEOREM MovesForward == Spec => Forward
<1>1. TypeOK /\ IInv /\ TypeOK' /\ [Next]_vars =>
        \A p \in Peers :
          /\ rcv_nxt[p] <= rcv_nxt'[p]
          /\ snd_una[p] <= snd_una'[p]
          /\ Got(p) \subseteq Got(p)'
          /\ SubSeq(delivered'[p], 1, Len(delivered[p])) = delivered[p]
  BY StepInv, DeliveredGrows, UnaGrows DEF Grows
<1> DEFINE A == \A p \in Peers :
          /\ rcv_nxt[p] <= rcv_nxt'[p]
          /\ snd_una[p] <= snd_una'[p]
          /\ Got(p) \subseteq Got(p)'
          /\ SubSeq(delivered'[p], 1, Len(delivered[p])) = delivered[p]
<1>2. TypeOK /\ IInv /\ TypeOK' /\ [Next]_vars => A
  BY <1>1
<1> HIDE DEF A
<1>3. Spec => [][A]_vars
  BY <1>2, TypeCorrect, Inductive, PTL DEF Spec
<1> QED BY <1>3 DEF A, Forward
-----------------------------------------------------------------------------
(* A longer prefix of the stream extends what was delivered of it.         *)
LEMMA PrefixLonger ==
    ASSUME NEW del \in Seq(Frag), NEW queue \in Seq(Frag), NEW str \in Seq(Frag),
           NEW k \in 1 .. Len(queue), Len(del) + Len(queue) <= Len(str),
           \A i \in 1 .. (Len(del) + Len(queue)) : (del \o queue)[i] = str[i]
    PROVE  /\ del \o SubSeq(queue, 1, k) = SubSeq(str, 1, Len(del) + k)
           /\ \A i \in 1 .. Len(queue) : str[Len(del) + i] = queue[i]
<1> DEFINE head == SubSeq(queue, 1, k)
<1> DEFINE n == Len(del)
<1>1. /\ head \in Seq(Frag) /\ Len(head) = k
      /\ \A i \in 1 .. k : head[i] = queue[i]
  OBVIOUS
<1>2. n \in Nat /\ Len(queue) \in Nat /\ Len(str) \in Nat
  OBVIOUS
<1>3. n + k \in 0 .. Len(str)
  <2>1. n + Len(queue) <= Len(str)
    OBVIOUS
  <2> HIDE DEF n
  <2> QED BY <1>2, <2>1
<1> HIDE DEF head
<1>4. /\ SubSeq(str, 1, n + k) \in Seq(Frag) /\ Len(SubSeq(str, 1, n + k)) = n + k
      /\ \A i \in 1 .. (n + k) : SubSeq(str, 1, n + k)[i] = str[i]
  <2> HIDE DEF n
  <2> QED BY <1>2, <1>3
<1>5. ASSUME NEW i \in 1 .. Len(queue) PROVE str[n + i] = queue[i]
  <2>1. /\ n + i \in 1 .. (n + Len(queue))
        /\ n + i \in (n + 1) .. (n + Len(queue)) /\ (n + i) - n = i
    <3> HIDE DEF n
    <3> QED BY <1>2
  <2>2. (del \o queue)[n + i] = queue[(n + i) - n]
    BY <2>1, ConcatFacts
  <2> QED BY <2>1, <2>2
<1>6. del \o head \in Seq(Frag) /\ Len(del \o head) = n + k
  BY <1>1, ConcatFacts
<1>7. ASSUME NEW i \in 1 .. (n + k) PROVE (del \o head)[i] = str[i]
  <2>0. n + k <= n + Len(queue)
    <3> HIDE DEF n
    <3> QED BY <1>2
  <2>1. CASE i \in 1 .. n
    <3>1. (del \o head)[i] = del[i] /\ (del \o queue)[i] = del[i]
      BY <1>1, <2>1, ConcatFacts
    <3>2. i \in 1 .. (n + Len(queue))
      BY <1>2, <2>0
    <3> QED BY <3>1, <3>2
  <2>2. CASE i \in (n + 1) .. (n + k)
    <3>1. (del \o head)[i] = head[i - n]
      BY <1>1, <2>2, ConcatFacts
    <3>2. i - n \in 1 .. k /\ i - n \in 1 .. Len(queue) /\ n + (i - n) = i
      <4> HIDE DEF n
      <4> QED BY <1>2, <2>2
    <3> QED BY <1>1, <1>5, <3>1, <3>2
  <2>3. i \in 1 .. n \/ i \in (n + 1) .. (n + k)
    <3> HIDE DEF n
    <3> QED BY <1>2
  <2> QED BY <2>1, <2>2, <2>3
<1>8. del \o head = SubSeq(str, 1, n + k)
  <2> HIDE DEF n
  <2> QED BY <1>4, <1>6, <1>7, SeqEqual
<1> QED BY <1>5, <1>8 DEF head

(* ikcp_recv reads the peer's next message, and nothing but that.          *)
LEMMA RecvReads ==
    ASSUME TypeOK, IInv, NEW p \in Peers, Recv(p)
    PROVE  Reliable!Read(p, Other(p))
<1> DEFINE del == delivered[p]
<1> DEFINE queue == rcv_queue[p]
<1> DEFINE str == stream[Other(p)]
<1>1. PICK k \in 1 .. Len(queue) :
        /\ Merged(queue, k)
        /\ delivered' = [delivered EXCEPT ![p] = @ \o SubSeq(queue, 1, k)]
  BY DEF Recv
<1>2. /\ del \in Seq(Frag) /\ queue \in Seq(Frag) /\ str \in Seq(Frag)
      /\ Len(del) \in Nat /\ Len(queue) \in Nat /\ Len(str) \in Nat
      /\ k \in 1 .. Len(queue)
  BY OtherPeer DEF TypeOK, RcvType, AppType
<1>3. /\ Len(del) + Len(queue) <= Len(str)
      /\ \A i \in 1 .. (Len(del) + Len(queue)) : (del \o queue)[i] = str[i]
  BY DEF IInv, InOrder
<1>4. queue[k].frg = 0
  BY <1>1, MergedEnds DEF Recv
<1>5. \A i \in 1 .. (k - 1) : queue[i].frg # 0
  BY <1>1 DEF Merged
<1> HIDE DEF del, queue, str
<1>6. /\ del \o SubSeq(queue, 1, k) = SubSeq(str, 1, Len(del) + k)
      /\ \A i \in 1 .. Len(queue) : str[Len(del) + i] = queue[i]
  <2>1. \A i \in 1 .. (Len(del) + Len(queue)) : (del \o queue)[i] = str[i]
    BY <1>3
  <2>2. Len(del) + Len(queue) <= Len(str)
    BY <1>3
  <2>3. /\ del \in Seq(Frag) /\ queue \in Seq(Frag) /\ str \in Seq(Frag)
        /\ k \in 1 .. Len(queue)
    BY <1>2
  <2> QED BY <2>1, <2>2, <2>3, PrefixLonger, Zenon
<1> DEFINE n == Len(del) + k
<1>7. n \in (Len(del) + 1) .. Len(str)
  BY <1>2, <1>3
<1>8. str[n].frg = 0
  BY <1>4, <1>6
<1>9. ASSUME NEW i \in (Len(del) + 1) .. (n - 1) PROVE str[i].frg # 0
  <2>1. /\ i - Len(del) \in 1 .. (k - 1) /\ i - Len(del) \in 1 .. Len(queue)
        /\ Len(del) + (i - Len(del)) = i
    BY <1>2
  <2> QED BY <1>5, <1>6, <2>1
<1>10. delivered' = [delivered EXCEPT ![p] = SubSeq(str, 1, n)]
  BY <1>1, <1>6 DEF del, queue
<1>11. UNCHANGED stream
  BY DEF Recv
<1> HIDE DEF n
<1>12. \E m \in (Len(del) + 1) .. Len(str) :
          /\ str[m].frg = 0
          /\ \A i \in (Len(del) + 1) .. (m - 1) : str[i].frg # 0
          /\ delivered' = [delivered EXCEPT ![p] = SubSeq(str, 1, m)]
  BY <1>7, <1>8, <1>9, <1>10
<1> QED BY <1>11, <1>12 DEF Reliable!Read, del, str

(* Every step of the two control blocks and the network is a step of the   *)
(* reliable stream, or changes nothing either application can see.         *)
LEMMA StepRefines ==
    TypeOK /\ IInv /\ [Next]_vars => [Reliable!RSNext]_(Reliable!rsVars)
<1> SUFFICES ASSUME TypeOK, IInv, [Next]_vars
             PROVE  [Reliable!RSNext]_(Reliable!rsVars)
  OBVIOUS
<1>1. ASSUME NEW p \in Peers, NEW k \in MsgSizes, Send(p, k)
      PROVE  Reliable!RSNext
  <2>1. Fragments(Len(stream[p]), k) = Reliable!Message(Len(stream[p]), k)
    BY DEF Fragments, Reliable!Message
  <2>2. Reliable!Write(p)
    BY <1>1, <2>1 DEF Send, Reliable!Write
  <2> QED BY <2>2 DEF Reliable!RSNext
<1>2. ASSUME NEW p \in Peers, Recv(p) PROVE Reliable!RSNext
  BY <1>2, RecvReads, OtherPeer DEF Reliable!RSNext
<1>3. ASSUME NEW p \in Peers, Update(p) PROVE UNCHANGED <<stream, delivered>>
  BY <1>3 DEF Update, Flush, appVars
<1>4. ASSUME NEW p \in Peers, NEW d \in net[p],
             InputCtl(p, d) \/ InputPush(p, d) \/ Lose(p, d)
      PROVE  UNCHANGED <<stream, delivered>>
  BY <1>4 DEF InputCtl, InputPush, Lose, appVars
<1>5. CASE UNCHANGED vars
  BY <1>5 DEF vars, appVars, Reliable!rsVars
<1> QED BY <1>1, <1>2, <1>3, <1>4, <1>5 DEF Next, Reliable!rsVars

(* KCP over an unreliable network implements the reliable message stream.  *)
THEOREM Implements == Spec => ImplementsStream
<1>1. Init => Reliable!RSInit
  BY DEF Init, Reliable!RSInit
<1>2. TypeOK /\ IInv /\ [Next]_vars => [Reliable!RSNext]_(Reliable!rsVars)
  BY StepRefines
<1> QED BY <1>1, <1>2, TypeCorrect, Inductive, PTL
        DEF Spec, ImplementsStream, Reliable!RSSpec
=============================================================================
