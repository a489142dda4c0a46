-------------------------------- MODULE Kcp --------------------------------
(***************************************************************************)
(* The KCP ARQ engine of servererizo/KKkcp/ikcp.c: two control blocks of   *)
(* one conversation, joined by an unreliable datagram network.             *)
(*                                                                         *)
(* Every operation the program calls is one action: ikcp_send, ikcp_recv,  *)
(* ikcp_input (one action for datagrams of control segments, one for data  *)
(* segments) and ikcp_update, which ends in ikcp_flush.                    *)
(*                                                                         *)
(* Abstractions.  A fragment is named by the message it belongs to and its *)
(* countdown frg; payload bytes are left out.  The ACK, WASK and WINS      *)
(* segments of one flush share a datagram and each PUSH segment has one of *)
(* its own, which is how the MTU test of ikcp_flush groups full segments;  *)
(* where the code packs short segments together, their joint delivery is   *)
(* the delivery of these datagrams one after the other.  The queues        *)
(* snd_buf and rcv_buf, which the code keeps sorted by sn, are functions   *)
(* from sn to segment, and acklist is a set.  Clock readings are           *)
(* left out: which retransmission timers have expired at a flush, and      *)
(* whether the probe timer has, is chosen nondeterministically.  Sequence  *)
(* numbers do not wrap.                                                    *)
(***************************************************************************)
EXTENDS Integers, Sequences, FiniteSets

CONSTANTS
    SndWnd,      \* snd_wnd: segments this side may have in flight
    RcvWnd,      \* rcv_wnd: capacity of rcv_queue
    FastResend,  \* fastresend: skips that trigger a fast retransmit, 0 = off
    DeadLink,    \* dead_link: transmissions after which the link is dead
    NoCwnd,      \* nocwnd: congestion control switched off
    Mss,         \* mss, used by the congestion window arithmetic only
    MsgSizes,    \* bound: the fragment counts of the messages submitted
    MaxStream,   \* bound: fragments each peer submits in all
    MaxDup,      \* bound: datagrams the network delivers twice
    MaxNet       \* bound: datagrams on their way to one peer

Peers == 0 .. 1
Other(p) == 1 - p

FrgLimit  == 255   \* ikcp_send refuses a message of more fragments
ThreshMin == 2     \* IKCP_THRESH_MIN and IKCP_THRESH_INIT

ASSUME KcpAssumption ==
    /\ SndWnd \in Nat \ {0}
    /\ RcvWnd \in Nat \ {0}
    /\ FastResend \in Nat
    /\ DeadLink \in Nat \ {0}
    /\ NoCwnd \in BOOLEAN
    /\ Mss \in Nat \ {0}
    /\ MsgSizes \subseteq Nat \ {0}
    /\ MaxStream \in [Peers -> Nat]
    /\ MaxDup \in Nat
    /\ MaxNet \in Nat

VARIABLES
    snd_queue,   \* submitted fragments that have no sequence number yet
    snd_buf,     \* sn -> segment in flight
    snd_una,     \* first unacknowledged sn
    snd_nxt,     \* next sn to assign
    rcv_buf,     \* sn -> fragment received out of order
    rcv_queue,   \* fragments in order, waiting for ikcp_recv
    rcv_nxt,     \* next sn to move to rcv_queue
    acklist,     \* sns to acknowledge at the next flush
    rmt_wnd,     \* the peer's window, as last advertised to this side
    probe,       \* the probe segments to send at the next flush
    probe_wait,  \* whether the zero-window probe timer is armed
    cc,          \* congestion control: cwnd, ssthresh, incr
    dead,        \* state = -1: some segment reached dead_link
    net,         \* datagrams on their way to each peer
    dups,        \* datagrams delivered twice so far
    stream,      \* history: every fragment submitted, in order
    delivered    \* history: every fragment handed to the application

sndVars == <<snd_queue, snd_buf, snd_una, snd_nxt, rmt_wnd, cc>>
rcvVars == <<rcv_buf, rcv_queue, rcv_nxt>>
ctlVars == <<acklist, probe, probe_wait, dead>>
netVars == <<net, dups>>
appVars == <<stream, delivered>>
vars == <<sndVars, rcvVars, ctlVars, netVars, appVars>>

Min2(a, b) == IF a <= b THEN a ELSE b
Max2(a, b) == IF a >= b THEN a ELSE b

Frag   == [msg : Nat, frg : Nat]
SndSeg == [frag : Frag, xmit : Nat, fastack : Nat]
Probes == {"WASK", "WINS"}
Ctl    == [kind : {"ctl"}, una : Nat, wnd : Nat,
           acks : SUBSET Nat, probe : SUBSET Probes]
Push   == [kind : {"push"}, una : Nat, wnd : Nat, sn : Nat, frag : Frag]

(* What ikcp_encode_seg leaves of the two narrow header fields.            *)
EncodeWnd(w)  == w % 65536
EncodeFrag(f) == [f EXCEPT !.frg = @ % 256]

Init ==
    /\ snd_queue  = [p \in Peers |-> <<>>]
    /\ snd_buf    = [p \in Peers |-> [sn \in {} |-> {}]]
    /\ snd_una    = [p \in Peers |-> 0]
    /\ snd_nxt    = [p \in Peers |-> 0]
    /\ rcv_buf    = [p \in Peers |-> [sn \in {} |-> {}]]
    /\ rcv_queue  = [p \in Peers |-> <<>>]
    /\ rcv_nxt    = [p \in Peers |-> 0]
    /\ acklist    = [p \in Peers |-> {}]
    /\ rmt_wnd    = [p \in Peers |-> RcvWnd]
    /\ probe      = [p \in Peers |-> {}]
    /\ probe_wait = [p \in Peers |-> FALSE]
    /\ cc         = [p \in Peers |-> [cwnd |-> 0, ssthresh |-> ThreshMin, incr |-> 0]]
    /\ dead       = [p \in Peers |-> FALSE]
    /\ net        = [p \in Peers |-> {}]
    /\ dups       = 0
    /\ stream     = [p \in Peers |-> <<>>]
    /\ delivered  = [p \in Peers |-> <<>>]
-----------------------------------------------------------------------------
(* ikcp_send: a message of k fragments joins the send queue.               *)
Fragments(m, k) == [i \in 1 .. k |-> [msg |-> m, frg |-> k - i]]

Send(p, k) ==
    /\ k <= FrgLimit
    /\ Len(stream[p]) + k <= MaxStream[p]
    /\ LET new == Fragments(Len(stream[p]), k)
       IN /\ snd_queue' = [snd_queue EXCEPT ![p] = @ \o new]
          /\ stream'    = [stream EXCEPT ![p] = @ \o new]
    /\ UNCHANGED <<snd_buf, snd_una, snd_nxt, rmt_wnd, cc, rcvVars, ctlVars,
                   netVars, delivered>>
-----------------------------------------------------------------------------
(* The loop that ends both ikcp_parse_data and ikcp_recv: segments leave   *)
(* rcv_buf for the queue until the next one is missing or it is full.      *)
Ready_stops_only_at_gap(p, buf, queue, k) ==
    /\ \A i \in 0 .. (k - 1) : rcv_nxt[p] + i \in DOMAIN buf
    /\ rcv_nxt[p] + k \notin DOMAIN buf

Ready(p, buf, queue, k) ==
    /\ \A i \in 0 .. (k - 1) : rcv_nxt[p] + i \in DOMAIN buf
    /\ k <= RcvWnd - Len(queue)
    /\ k = RcvWnd - Len(queue) \/ rcv_nxt[p] + k \notin DOMAIN buf

Remaining(p, buf, k) ==
    [sn \in DOMAIN buf \ (rcv_nxt[p] .. (rcv_nxt[p] + k - 1)) |-> buf[sn]]

MoveReady_takes_head(p, buf, queue) ==
    \E S \in SUBSET DOMAIN buf :
        /\ Cardinality(S) = IF buf = <<>> \/ Len(queue) >= RcvWnd THEN 0 ELSE 1
        /\ \A sn \in S, n \in DOMAIN buf : sn <= n
        /\ rcv_queue' = [rcv_queue EXCEPT ![p] =
               queue \o [i \in 1 .. Cardinality(S) |-> buf[CHOOSE sn \in S : TRUE]]]
        /\ rcv_buf' = [rcv_buf EXCEPT ![p] = [sn \in DOMAIN buf \ S |-> buf[sn]]]
        /\ rcv_nxt' = [rcv_nxt EXCEPT ![p] = @ + Cardinality(S)]

MoveReady(p, buf, queue) ==
    \E k \in 0 .. RcvWnd :
        /\ Ready(p, buf, queue, k)
        /\ rcv_queue' = [rcv_queue EXCEPT ![p] =
               queue \o [i \in 1 .. k |-> buf[rcv_nxt[p] + i - 1]]]
        /\ rcv_buf' = [rcv_buf EXCEPT ![p] = Remaining(p, buf, k)]
        /\ rcv_nxt' = [rcv_nxt EXCEPT ![p] = @ + k]

(* ikcp_peeksize: whether the whole of the first message is in rcv_queue.  *)
WholeReady_one_short(queue) == queue # <<>> /\ Len(queue) >= queue[1].frg

WholeReady(queue) ==
    queue # <<>> /\ (queue[1].frg = 0 \/ Len(queue) >= queue[1].frg + 1)

(* ikcp_recv merges fragments up to the first one whose frg is 0.          *)
Merged(queue, k) ==
    /\ \A i \in 1 .. (k - 1) : queue[i].frg # 0
    /\ queue[k].frg = 0 \/ k = Len(queue)

(* ikcp_recv.  A queue that was full and is not any more is announced.     *)
Recv(p) ==
    /\ WholeReady(rcv_queue[p])
    /\ \E k \in 1 .. Len(rcv_queue[p]) :
          /\ Merged(rcv_queue[p], k)
          /\ delivered' = [delivered EXCEPT ![p] = @ \o SubSeq(rcv_queue[p], 1, k)]
          /\ MoveReady(p, rcv_buf[p], SubSeq(rcv_queue[p], k + 1, Len(rcv_queue[p])))
    /\ probe' = [probe EXCEPT ![p] =
           IF Len(rcv_queue[p]) >= RcvWnd /\ Len(rcv_queue'[p]) < RcvWnd
           THEN @ \cup {"WINS"} ELSE @]
    /\ UNCHANGED <<sndVars, acklist, probe_wait, dead, netVars, stream>>
-----------------------------------------------------------------------------
(* The congestion window part of ikcp_input, after snd_una has advanced.   *)
Grow(c, wnd) ==
    LET incr == IF c.cwnd < c.ssthresh THEN c.incr + Mss
                ELSE LET i == Max2(c.incr, Mss)
                     IN i + (Mss * Mss) \div i + Mss \div 16
        cwnd == IF c.cwnd < c.ssthresh \/ (c.cwnd + 1) * Mss <= incr
                THEN c.cwnd + 1 ELSE c.cwnd
    IN IF c.cwnd >= wnd THEN c
       ELSE IF cwnd > wnd THEN [c EXCEPT !.cwnd = wnd, !.incr = wnd * Mss]
       ELSE [c EXCEPT !.cwnd = cwnd, !.incr = incr]

Skip(seg) == [seg EXCEPT !.fastack = Min2(@ + 1, FastResend)]

(* ikcp_parse_una and ikcp_parse_ack: what stays in snd_buf.               *)
Unacked_cumulative(p, una, acks) ==
    {sn \in DOMAIN snd_buf[p] : sn >= una /\ \A a \in acks : sn > a}

Unacked(p, una, acks) == {sn \in DOMAIN snd_buf[p] : sn >= una /\ sn \notin acks}

(* ikcp_parse_fastack: the segment was passed over by the newest ACK.      *)
Skipped(p, sn, acks) ==
    /\ \A a \in acks : a < snd_nxt[p]
    /\ \E a \in acks : a > sn

Acknowledge_believes_una(p, una, acks, wnd) ==
    LET left == Unacked(p, una, acks)
    IN /\ rmt_wnd' = [rmt_wnd EXCEPT ![p] = wnd]
       /\ snd_buf' = [snd_buf EXCEPT ![p] = [sn \in left |-> snd_buf[p][sn]]]
       /\ snd_una' = [snd_una EXCEPT ![p] = una]
       /\ UNCHANGED <<snd_queue, snd_nxt, cc>>

(* What ikcp_input does to the sender's half with the una, wnd and ACK     *)
(* fields of a datagram: parse_una, parse_ack, shrink_buf, parse_fastack   *)
(* and the congestion window.  fastack stops counting at FastResend.       *)
Acknowledge(p, una, acks, wnd) ==
    LET left == Unacked(p, una, acks)
    IN /\ rmt_wnd' = [rmt_wnd EXCEPT ![p] = wnd]
       /\ snd_buf' = [snd_buf EXCEPT ![p] =
              [sn \in left |-> IF Skipped(p, sn, acks) THEN Skip(snd_buf[p][sn])
                                                       ELSE snd_buf[p][sn]]]
       /\ \E u \in left \cup {snd_nxt[p]} :
             /\ \A sn \in left : u <= sn
             /\ snd_una' = [snd_una EXCEPT ![p] = u]
             /\ cc' = [cc EXCEPT ![p] =
                    IF ~NoCwnd /\ u > snd_una[p] THEN Grow(@, wnd) ELSE @]
       /\ UNCHANGED <<snd_queue, snd_nxt>>

(* The network hands over a datagram, which is gone, or is duplicated.     *)
Take(p, d) ==
    /\ d \in net[p]
    /\ \/ net' = [net EXCEPT ![p] = @ \ {d}] /\ UNCHANGED dups
       \/ dups < MaxDup /\ dups' = dups + 1 /\ UNCHANGED net

(* ikcp_input of ACK, WASK and WINS segments.                              *)
InputCtl(p, d) ==
    /\ d.kind = "ctl"
    /\ Take(p, d)
    /\ Acknowledge(p, d.una, d.acks, d.wnd)
    /\ probe' = [probe EXCEPT ![p] = IF "WASK" \in d.probe THEN @ \cup {"WINS"} ELSE @]
    /\ UNCHANGED <<rcvVars, acklist, probe_wait, dead, appVars>>

(* ikcp_input of a PUSH segment: acknowledged if it is below the window's  *)
(* end, kept if it is inside the window and new (ikcp_parse_data).         *)
InWindow(p, sn) == rcv_nxt[p] <= sn /\ sn < rcv_nxt[p] + RcvWnd

Insert(buf, sn, frag) ==
    [n \in DOMAIN buf \cup {sn} |-> IF n \in DOMAIN buf THEN buf[n] ELSE frag]

InputPush(p, d) ==
    /\ d.kind = "push"
    /\ Take(p, d)
    /\ Acknowledge(p, d.una, {}, d.wnd)
    /\ acklist' = [acklist EXCEPT ![p] =
           IF d.sn < rcv_nxt[p] + RcvWnd THEN @ \cup {d.sn} ELSE @]
    /\ IF InWindow(p, d.sn)
       THEN MoveReady(p, Insert(rcv_buf[p], d.sn, d.frag), rcv_queue[p])
       ELSE UNCHANGED rcvVars
    /\ UNCHANGED <<probe, probe_wait, dead, appVars>>
-----------------------------------------------------------------------------
(* ikcp_flush, the sending window: the peer's window, ours, and cwnd.      *)
Window(p) ==
    LET w == Min2(SndWnd, rmt_wnd[p])
    IN IF NoCwnd THEN w ELSE Min2(cc[p].cwnd, w)

(* The loop that moves segments from snd_queue to snd_buf runs this often. *)
Movable(p) ==
    Max2(0, Min2(Len(snd_queue[p]), snd_una[p] + Window(p) - snd_nxt[p]))

(* snd_buf after that loop.                                                *)
Filled(p) ==
    [sn \in DOMAIN snd_buf[p] \cup (snd_nxt[p] .. (snd_nxt[p] + Movable(p) - 1)) |->
        IF sn \in DOMAIN snd_buf[p] THEN snd_buf[p][sn]
        ELSE [frag |-> snd_queue[p][sn - snd_nxt[p] + 1], xmit |-> 0, fastack |-> 0]]

(* A segment is sent for the first time, when its timer has expired, or    *)
(* when enough later segments were acknowledged.  xmit stops counting at   *)
(* DeadLink, which is all it is compared with.                             *)
TimedOut(seg, sn, expired) == seg.xmit > 0 /\ sn \in expired
FastDue(seg, sn, expired)  == /\ seg.xmit > 0 /\ sn \notin expired
                              /\ FastResend > 0 /\ seg.fastack >= FastResend
NeedSend(seg, sn, expired) ==
    seg.xmit = 0 \/ TimedOut(seg, sn, expired) \/ FastDue(seg, sn, expired)

Transmit(seg, sn, expired) ==
    IF NeedSend(seg, sn, expired)
    THEN [frag |-> seg.frag, xmit |-> Min2(seg.xmit + 1, DeadLink),
          fastack |-> IF FastDue(seg, sn, expired) THEN 0 ELSE seg.fastack]
    ELSE seg

(* The congestion window after a flush with fast (change) or timeout       *)
(* (lost) retransmissions; w is the window the flush used.  With nocwnd    *)
(* the code computes it all the same and never reads it: cc stays then.    *)
Shrink(c, inflight, change, lost, w) ==
    LET fast == LET ss == Max2(inflight \div 2, ThreshMin)
                IN [cwnd |-> ss + FastResend, ssthresh |-> ss,
                    incr |-> (ss + FastResend) * Mss]
        c1 == IF change THEN fast ELSE c
        c2 == IF lost THEN [cwnd |-> 1, incr |-> Mss,
                            ssthresh |-> Max2(w \div 2, ThreshMin)] ELSE c1
    IN IF c2.cwnd < 1 THEN [cwnd |-> 1, ssthresh |-> c2.ssthresh, incr |-> Mss]
       ELSE c2

(* ikcp_wnd_unused.                                                        *)
WndUnused(p) == Max2(0, RcvWnd - Len(rcv_queue[p]))

(* While the peer's window is zero the probe timer is armed, and each time *)
(* it runs out (due) a WASK goes out.                                      *)
ProbeDue_only_once(p, due) == rmt_wnd[p] = 0 /\ ~probe_wait[p] /\ due

ProbeDue(p, due) == rmt_wnd[p] = 0 /\ probe_wait[p] /\ due

(* ikcp_flush: acknowledgements and probes first, then the data segments   *)
(* that are due.  expired are the segments whose resendts has passed, due  *)
(* says whether ts_probe has.                                              *)
Flush(p, expired, due) ==
    LET q    == Other(p)
        una  == rcv_nxt[p]
        wnd  == EncodeWnd(WndUnused(p))
        cmds == probe[p] \cup (IF ProbeDue(p, due) THEN {"WASK"} ELSE {})
        buf  == Filled(p)
        send == {sn \in DOMAIN buf : NeedSend(buf[sn], sn, expired)}
        ctl  == IF acklist[p] = {} /\ cmds = {} THEN {}
                ELSE {[kind |-> "ctl", una |-> una, wnd |-> wnd,
                       acks |-> acklist[p], probe |-> cmds]}
        push == {[kind |-> "push", una |-> una, wnd |-> wnd, sn |-> sn,
                  frag |-> EncodeFrag(buf[sn].frag)] : sn \in send}
    IN /\ net' = [net EXCEPT ![q] = @ \cup ctl \cup push]
       /\ Cardinality(net'[q]) <= MaxNet
       /\ acklist' = [acklist EXCEPT ![p] = {}]
       /\ probe' = [probe EXCEPT ![p] = {}]
       /\ probe_wait' = [probe_wait EXCEPT ![p] = rmt_wnd[p] = 0]
       /\ snd_buf' = [snd_buf EXCEPT ![p] =
              [sn \in DOMAIN buf |-> Transmit(buf[sn], sn, expired)]]
       /\ snd_nxt' = [snd_nxt EXCEPT ![p] = @ + Movable(p)]
       /\ snd_queue' = [snd_queue EXCEPT ![p] = SubSeq(@, Movable(p) + 1, Len(@))]
       /\ dead' = [dead EXCEPT ![p] =
              @ \/ \E sn \in send : Transmit(buf[sn], sn, expired).xmit >= DeadLink]
       /\ cc' = [cc EXCEPT ![p] =
              IF NoCwnd THEN @
              ELSE Shrink(@, snd_nxt[p] + Movable(p) - snd_una[p],
                          \E sn \in DOMAIN buf : FastDue(buf[sn], sn, expired),
                          \E sn \in DOMAIN buf : TimedOut(buf[sn], sn, expired),
                          Window(p))]
       /\ UNCHANGED <<snd_una, rmt_wnd, rcvVars, dups, appVars>>

(* ikcp_update runs a flush whenever its interval has passed; which timers *)
(* have expired by then is not determined here.                            *)
Update(p) ==
    \E expired \in SUBSET DOMAIN snd_buf[p], due \in BOOLEAN : Flush(p, expired, due)
-----------------------------------------------------------------------------
(* UDP may lose any datagram.                                              *)
Lose(p, d) ==
    /\ d \in net[p]
    /\ net' = [net EXCEPT ![p] = @ \ {d}]
    /\ UNCHANGED <<sndVars, rcvVars, ctlVars, dups, appVars>>

Next ==
    \E p \in Peers :
        \/ \E k \in MsgSizes : Send(p, k)
        \/ Recv(p)
        \/ Update(p)
        \/ \E d \in net[p] : InputCtl(p, d) \/ InputPush(p, d) \/ Lose(p, d)

Spec == Init /\ [][Next]_vars
-----------------------------------------------------------------------------
(* Fairness.  ConnMgrThread2 runs ikcp_update for every connection and     *)
(* empties the receive queue for ever, so a retransmission timer or probe  *)
(* timer that has expired is acted upon.  The network is fair-lossy: what  *)
(* is sent again and again arrives in the end, segment by segment.         *)
Resend(p, sn) ==
    \E expired \in SUBSET DOMAIN snd_buf[p], due \in BOOLEAN :
        sn \in DOMAIN snd_buf[p] /\ sn \in expired /\ Flush(p, expired, due)

FlushDue(p) == \E expired \in SUBSET DOMAIN snd_buf[p] : Flush(p, expired, TRUE)

ArrivePush(p, sn) == \E d \in net[p] : d.kind = "push" /\ d.sn = sn /\ InputPush(p, d)
ArriveAck(p, sn)  == \E d \in net[p] : d.kind = "ctl" /\ sn \in d.acks /\ InputCtl(p, d)
ArriveProbe(p)    == \E d \in net[p] : d.kind = "ctl" /\ d.probe # {} /\ InputCtl(p, d)

FairSpec ==
    /\ Spec
    /\ \A p \in Peers :
          /\ WF_vars(Recv(p)) /\ WF_vars(FlushDue(p)) /\ SF_vars(ArriveProbe(p))
          /\ \A sn \in 0 .. (MaxStream[p] - 1) :
                /\ WF_vars(Resend(p, sn))
                /\ SF_vars(ArrivePush(Other(p), sn))
                /\ SF_vars(ArriveAck(p, sn))
-----------------------------------------------------------------------------
(* Types.                                                                  *)
SndSegOK(seg) == /\ seg.frag \in Frag
                 /\ seg.xmit \in 0 .. DeadLink
                 /\ seg.fastack \in 0 .. FastResend

SndType ==
    /\ snd_queue \in [Peers -> Seq(Frag)]
    /\ snd_buf = [p \in Peers |-> snd_buf[p]]
    /\ \A p \in Peers : /\ DOMAIN snd_buf[p] \subseteq Nat
                        /\ snd_buf[p] \in [DOMAIN snd_buf[p] -> SndSeg]
                        /\ \A sn \in DOMAIN snd_buf[p] : SndSegOK(snd_buf[p][sn])
    /\ snd_una \in [Peers -> Nat]
    /\ snd_nxt \in [Peers -> Nat]
    /\ rmt_wnd \in [Peers -> Nat]

RcvType ==
    /\ rcv_buf = [p \in Peers |-> rcv_buf[p]]
    /\ \A p \in Peers : /\ DOMAIN rcv_buf[p] \subseteq Nat
                        /\ rcv_buf[p] \in [DOMAIN rcv_buf[p] -> Frag]
    /\ rcv_queue \in [Peers -> Seq(Frag)]
    /\ rcv_nxt \in [Peers -> Nat]

CtlType ==
    /\ acklist \in [Peers -> SUBSET Nat]
    /\ probe \in [Peers -> SUBSET Probes]
    /\ probe_wait \in [Peers -> BOOLEAN]
    /\ dead \in [Peers -> BOOLEAN]
    /\ cc \in [Peers -> [cwnd : Nat, ssthresh : Nat, incr : Nat]]

NetType ==
    /\ net = [p \in Peers |-> net[p]]
    /\ \A p \in Peers : \A d \in net[p] : d \in Ctl \/ d \in Push
    /\ dups \in 0 .. MaxDup

AppType == stream \in [Peers -> Seq(Frag)] /\ delivered \in [Peers -> Seq(Frag)]

(* Type invariant: snd_buf and rcv_buf are finite maps from sequence       *)
(* numbers to segments, the counters are naturals, and what is in the      *)
(* network is a datagram that ikcp_encode_seg can produce.                 *)
TypeOK == SndType /\ RcvType /\ CtlType /\ NetType /\ AppType
-----------------------------------------------------------------------------
(* Safety.                                                                 *)

(* The sequence numbers a receiver has: moved to rcv_queue or buffered.    *)
Got(p) == {sn \in 0 .. (snd_nxt[Other(p)] - 1) :
              sn < rcv_nxt[p] \/ sn \in DOMAIN rcv_buf[p]}

(* ikcp_parse_data and ikcp_recv: what the application was given, followed *)
(* by what waits in rcv_queue, is what the peer submitted, in order,       *)
(* without gap or repetition, up to rcv_nxt.                               *)
InOrder ==
    \A p \in Peers :
        /\ rcv_nxt[p] <= Len(stream[Other(p)])
        /\ Len(delivered[p]) + Len(rcv_queue[p]) = rcv_nxt[p]
        /\ \A i \in 1 .. rcv_nxt[p] :
              (delivered[p] \o rcv_queue[p])[i] = stream[Other(p)][i]

(* ikcp_peeksize: the application is only ever given whole messages.       *)
WholeMessages ==
    \A p \in Peers : delivered[p] # <<>> => delivered[p][Len(delivered[p])].frg = 0

(* ikcp_parse_una and ikcp_parse_ack: a segment leaves snd_buf only when   *)
(* the peer has it, whatever acknowledgements were lost, late or repeated. *)
NothingLost ==
    \A p \in Peers : \A sn \in 0 .. (snd_nxt[p] - 1) :
        sn \in DOMAIN snd_buf[p] \/ sn \in Got(Other(p))

(* The windows of both ends: rcv_queue never exceeds rcv_wnd, rcv_buf      *)
(* holds nothing outside the receive window, and at most snd_wnd segments  *)
(* are between snd_una and snd_nxt.                                        *)
Windows ==
    \A p \in Peers :
        /\ Len(rcv_queue[p]) <= RcvWnd
        /\ DOMAIN rcv_buf[p] \subseteq rcv_nxt[p] .. (rcv_nxt[p] + RcvWnd - 1)
        /\ snd_una[p] <= snd_nxt[p] /\ snd_nxt[p] - snd_una[p] <= SndWnd
        /\ DOMAIN snd_buf[p] \subseteq snd_una[p] .. (snd_nxt[p] - 1)

(* The fragments of one message stay together and count down to 0.         *)
StreamShape ==
    \A p \in Peers : \A i \in 1 .. Len(stream[p]) :
        LET f == stream[p][i].frg
        IN /\ f < FrgLimit
           /\ i + f <= Len(stream[p])
           /\ stream[p][i + f].frg = 0

(* The sender: snd_queue is the part of the stream from snd_nxt on, and    *)
(* snd_buf holds fragments of the part before it.                          *)
SenderInv ==
    \A p \in Peers :
        /\ snd_nxt[p] + Len(snd_queue[p]) = Len(stream[p])
        /\ \A i \in 1 .. Len(snd_queue[p]) :
              snd_queue[p][i] = stream[p][snd_nxt[p] + i]
        /\ \A sn \in DOMAIN snd_buf[p] : snd_buf[p][sn].frag = stream[p][sn + 1]

(* The receiver: nothing is received or acknowledged that was not sent.    *)
ReceiverInv ==
    \A p \in Peers :
        /\ rcv_nxt[p] <= snd_nxt[Other(p)]
        /\ acklist[p] \subseteq Got(p)
        /\ \A sn \in DOMAIN rcv_buf[p] :
              sn < snd_nxt[Other(p)] /\ rcv_buf[p][sn] = stream[Other(p)][sn + 1]

(* A datagram on its way tells the truth, though perhaps an old one: una   *)
(* and the acknowledgements name fragments the far end has, and a PUSH     *)
(* segment carries the fragment of that number.                            *)
DatagramOK(p, d) ==
    LET q == Other(p)
    IN /\ d.una <= rcv_nxt[q]
       /\ d.kind = "ctl" => d.acks \subseteq Got(q)
       /\ d.kind = "push" => d.sn < snd_nxt[q] /\ d.frag = stream[q][d.sn + 1]

NetInv == \A p \in Peers : \A d \in net[p] : DatagramOK(p, d)

(* The inductive invariant: whatever mixture of lost, late and repeated    *)
(* datagrams ikcp_input is given, both control blocks and the network      *)
(* agree about one stream in each direction.                               *)
IInv == /\ StreamShape /\ SenderInv /\ ReceiverInv /\ NetInv
        /\ InOrder /\ WholeMessages /\ NothingLost /\ Windows

(* rcv_nxt and the acknowledged numbers only move forward, and what the    *)
(* application was given is never taken back or rewritten, whichever order *)
(* datagrams arrive in.                                                    *)
Forward ==
    [][\A p \in Peers :
          /\ rcv_nxt[p] <= rcv_nxt'[p]
          /\ snd_una[p] <= snd_una'[p]
          /\ Got(p) \subseteq Got(p)'
          /\ SubSeq(delivered'[p], 1, Len(delivered[p])) = delivered[p]]_vars

-----------------------------------------------------------------------------
Reliable == INSTANCE ReliableStream WITH sent <- stream, received <- delivered

(* The two control blocks and the network implement the reliable message   *)
(* stream that StablySend and GetRecKcpData rely on.                       *)
ImplementsStream == Reliable!RSSpec
-----------------------------------------------------------------------------
(* Liveness.                                                               *)

(* Retransmission, acknowledgement and the zero-window probe together:     *)
(* again and again, all that was submitted has been given to the peer's    *)
(* application and the sender knows it (snd_una has caught up), although   *)
(* any datagram, a window announcement among them, may be lost.            *)
EventuallyDelivered ==
    []<>(\A p \in Peers : /\ Len(delivered[Other(p)]) = Len(stream[p])
                          /\ snd_una[p] = Len(stream[p]))
=============================================================================
