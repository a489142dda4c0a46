------------------------------- MODULE KkConn -------------------------------
(***************************************************************************)
(* The connection manager CKKkcp of servererizo/KKkcp: endpoints that      *)
(* dial and accept KCP connections over UDP with the SYN, SYNACK, ACK,     *)
(* LINK handshake, keep them alive with heartbeats and drop them on a      *)
(* disconnect or a timeout.                                                *)
(*                                                                         *)
(* Each endpoint is one CKKkcp object with its API callers and its three   *)
(* threads: HandleCmd, HandleRecUdp and ConnMgrThread2.  The handlers hold *)
(* the lock of m_ConIPInfoMap while they change it, so each is one action, *)
(* but for the SYN handler, which assigns m_CurConv before it locks.       *)
(* ConnMgrThread2 treats every entry by itself: an action does one entry.  *)
(*                                                                         *)
(* Abstractions.  Connections are direct (not relayed), so the key of an   *)
(* entry is the peer.  A KCP control block is its identity alone (Kcp      *)
(* models what it does), a datagram of it names the block that sent it.    *)
(* sendtick and rectick are ages, which stop at the largest threshold + 1. *)
(* The mtu that a handshake agrees on is left out.  So is rectick of an    *)
(* accepted entry: it only paces a UDPTranHeart datagram that the receiver *)
(* ignores.                                                                *)
(***************************************************************************)
EXTENDS Integers, Sequences, FiniteSets

CONSTANTS
    Nodes,          \* the endpoints
    Dials,          \* bound: the pairs <<n, p>> for which n may call Connect(p)
    AutomaticHeart, \* the argument of Start
    SYNTICK, SYNTICKD, SYNTICKT, MaxConTick,   \* handshake timeouts
    MinHeartValue, MaxHeartValue,              \* heartbeat interval and timeout
    MaxConnects,    \* bound: calls up to the last of Connect
    MaxCalls,       \* bound: calls of Connect and DisConnect
    MaxConv,        \* bound: connection ids an endpoint assigns
    MaxCmds,        \* bound: commands in m_SendUdpQue
    MaxNet,         \* bound: datagrams on their way
    MaxDup,         \* bound: datagrams delivered twice
    MaxRestarts,    \* bound: endpoints that crash and start anew
    MaxEvents,      \* bound: calls and restarts together
    Stalls          \* whether ConnMgrThread2 may be late by a unit of time

Ticks == {SYNTICK, SYNTICKD, SYNTICKT, MaxConTick, MinHeartValue, MaxHeartValue}
MaxAge == 1 + CHOOSE t \in Ticks : \A u \in Ticks : u <= t

FirstConv    == 100   \* m_CurConv of a new CKKkcp
MAXHANDSHAKE == 4

ASSUME KkConnAssumption ==
    /\ Dials \subseteq Nodes \X Nodes
    /\ \A d \in Dials : d[1] # d[2]
    /\ AutomaticHeart \in BOOLEAN
    /\ Ticks \subseteq Nat
    /\ SYNTICK <= SYNTICKD /\ SYNTICKD <= SYNTICKT /\ SYNTICKT <= MaxConTick
    /\ MinHeartValue <= MaxHeartValue
    /\ Stalls \in BOOLEAN
    /\ {MaxConnects, MaxCalls, MaxConv, MaxCmds, MaxNet, MaxDup, MaxRestarts,
        MaxEvents} \subseteq Nat

VARIABLES
    up,         \* the process runs (it stops at a failed assert)
    m_CurConv,  \* the connection id assigned last
    info,       \* m_Map1 of m_ConIPInfoMap: peer -> KcpInfo
    key2,       \* m_Map2 of m_ConIPInfoMap: connection id -> KcpInfo pointer
    cmds,       \* m_SendUdpQue
    syn,        \* the peer whose SYN HandleRecUdp is in the middle of, or None
    blocks,     \* KCP control blocks created so far, at each endpoint
    net,        \* datagrams on their way
    dups,       \* datagrams delivered twice so far
    calls,      \* calls of Connect and DisConnect so far
    restarts,   \* restarts so far
    told,       \* history: the link messages an object has put into m_RecPacketQue
    acked,      \* history: the <<peer, id>> for which an ACK was sent
    aborted     \* history: the asserts that failed

mapVars  == <<m_CurConv, info, key2, blocks>>
histVars == <<told, acked, aborted>>
vars == <<up, mapVars, cmds, syn, net, dups, calls, restarts, histVars>>

None == "none"

(* A KcpInfo pointer names the object, which keeps its place in memory     *)
(* when Conv changes: the peer, and m_CurConv when it was made.            *)
Pointer == [peer : Nodes, born : Nat]

NewInfo(p, conv, state, sponsor) ==
    [born |-> conv, conv |-> conv, state |-> state, sponsor |-> sponsor,
     kcp |-> 0, heard |-> {}, k2 |-> 0, handShake |-> 0,
     sendAge |-> 0, recAge |-> 0]

EmptyMap == [x \in {} |-> {}]

Init ==
    /\ up        = [n \in Nodes |-> TRUE]
    /\ m_CurConv = [n \in Nodes |-> FirstConv]
    /\ info      = [n \in Nodes |-> EmptyMap]
    /\ key2      = [n \in Nodes |-> EmptyMap]
    /\ cmds      = [n \in Nodes |-> <<>>]
    /\ syn       = [n \in Nodes |-> None]
    /\ blocks    = [n \in Nodes |-> 0]
    /\ net       = {}
    /\ dups      = 0
    /\ calls     = 0
    /\ restarts  = 0
    /\ told      = [n \in Nodes |-> {}]
    /\ acked     = [n \in Nodes |-> {}]
    /\ aborted   = {}
-----------------------------------------------------------------------------
(* Datagrams.  SendSign hands one to the socket; when MaxNet are on their  *)
(* way the network loses it.                                               *)
Control(n, p, kind, conv) ==
    [src |-> n, dst |-> p, kind |-> kind, conv |-> conv, kcp |-> 0]

Data(n, p) ==
    [src |-> n, dst |-> p, kind |-> "kcp", conv |-> info[n][p].conv,
     kcp |-> info[n][p].kcp]

Post(in, sent) == IF Cardinality(in \cup sent) <= MaxNet THEN in \cup sent ELSE in

(* HandleRecUdp takes a datagram off the socket, between two others; the   *)
(* network may keep a duplicate.  left is what is then on its way.         *)
Deliver(n, m, kind, left) ==
    /\ m \in net /\ m.dst = n /\ m.kind = kind
    /\ up[n] /\ syn[n] = None
    /\ \/ left = net \ {m} /\ UNCHANGED dups
       \/ left = net /\ dups < MaxDup /\ dups' = dups + 1

HasInfo(n, p) == p \in DOMAIN info[n]

SetInfo(n, p, e) ==
    info' = [info EXCEPT ![n] =
        [q \in DOMAIN info[n] \cup {p} |-> IF q = p THEN e ELSE info[n][q]]]

Without(f, x) == [y \in DOMAIN f \ {x} |-> f[y]]

(* Key1Del: the entry of peer p goes, and the m_Map2 entry of the id it    *)
(* was registered under last (m_Map3 keeps one id per object).             *)
Key1Del_keeps_key2(n, p) ==
    /\ info' = [info EXCEPT ![n] = Without(@, p)]
    /\ key2' = key2

Key1Del(n, p) ==
    /\ info' = [info EXCEPT ![n] = Without(@, p)]
    /\ key2' = [key2 EXCEPT ![n] = Without(@, info[n][p].k2)]

(* key2insert: an id that is taken keeps its old pointer.                  *)
Key2Insert(n, conv, ptr) ==
    key2' = [key2 EXCEPT ![n] =
        [k \in DOMAIN key2[n] \cup {conv} |->
            IF k \in DOMAIN key2[n] THEN key2[n][k] ELSE ptr]]

PointerTo(n, p) == [peer |-> p, born |-> info[n][p].born]

(* The object is still there.                                              *)
Alive(n, ptr) == HasInfo(n, ptr.peer) /\ info[n][ptr.peer].born = ptr.born

Tell(n, msg, conv) == told' = [told EXCEPT ![n] = @ \cup {<<msg, conv>>}]

(* GenSysKKPacket: what the application is told when an entry is freed.    *)
FreeMessage_by_disconnect(state) ==
    IF state = "AutoDisConnect" THEN "KcpDisConnect" ELSE "LinkLost"

FreeMessage(state) == IF state = "Link" THEN "LinkLost"
                      ELSE IF state \in {"SYN", "SYNACK", "ACK"} THEN "ConnectFail"
                      ELSE "KcpDisConnect"

(* FreeKcpInfo with NeedMsg.                                               *)
FreeKcpInfo(n, p) ==
    /\ Key1Del(n, p)
    /\ Tell(n, FreeMessage(info[n][p].state), info[n][p].conv)

(* The process is gone, and its memory with it.                            *)
Down(n) ==
    /\ up'        = [up EXCEPT ![n] = FALSE]
    /\ m_CurConv' = [m_CurConv EXCEPT ![n] = FirstConv]
    /\ info'      = [info EXCEPT ![n] = EmptyMap]
    /\ key2'      = [key2 EXCEPT ![n] = EmptyMap]
    /\ cmds'      = [cmds EXCEPT ![n] = <<>>]
    /\ syn'       = [syn EXCEPT ![n] = None]
    /\ told'      = [told EXCEPT ![n] = {}]
    /\ UNCHANGED <<blocks, acked>>
-----------------------------------------------------------------------------
(* The API.                                                                *)

\* The bounds of a run on what applications do.
MayCall == calls < MaxCalls /\ calls + restarts < MaxEvents

(* Connect(ip, port): a second call for the same peer does nothing.        *)
Connect(n, p) ==
    /\ <<n, p>> \in Dials /\ up[n] /\ ~HasInfo(n, p)
    /\ calls < MaxConnects /\ MayCall /\ m_CurConv[n] < FirstConv + MaxConv
    /\ Len(cmds[n]) < MaxCmds
    /\ LET conv == m_CurConv[n] + 1
       IN /\ m_CurConv' = [m_CurConv EXCEPT ![n] = conv]
          /\ SetInfo(n, p, NewInfo(p, conv, "SYN", TRUE))
          /\ cmds' = [cmds EXCEPT ![n] = Append(@, Control(n, p, "SYN", conv))]
    /\ calls' = calls + 1
    /\ UNCHANGED <<up, key2, blocks, syn, net, dups, restarts, histVars>>

(* DisConnect(Id): the peer is told; the entry stays as it is.             *)
DisConnectId(n, k) ==
    /\ up[n] /\ k \in DOMAIN key2[n] /\ Alive(n, key2[n][k])
    /\ MayCall /\ calls' = calls + 1
    /\ Len(cmds[n]) < MaxCmds
    /\ LET p == key2[n][k].peer
       IN cmds' = [cmds EXCEPT ![n] =
              Append(@, Control(n, p, "DisConnect", info[n][p].conv))]
    /\ UNCHANGED <<up, mapVars, syn, net, dups, restarts, histVars>>

(* DisConnect(Ip, port): the entry is left to ConnMgrThread2 as well.      *)
DisConnectAddr(n, p) ==
    /\ up[n] /\ HasInfo(n, p)
    /\ MayCall /\ calls' = calls + 1
    /\ Len(cmds[n]) < MaxCmds
    /\ SetInfo(n, p, [info[n][p] EXCEPT !.state = "AutoDisConnect", !.sendAge = 0])
    /\ cmds' = [cmds EXCEPT ![n] =
           Append(@, Control(n, p, "DisConnect", info[n][p].conv))]
    /\ UNCHANGED <<up, m_CurConv, key2, blocks, syn, net, dups, restarts, histVars>>

(* StablySend: the message goes to the control block (see Kcp).  On the    *)
(* accepting side it sets nothing but rectick.  The header (KKKcp.h:29)    *)
(* asks the caller to wait until it was told of the link.                  *)
StablySend(n, k) ==
    /\ up[n] /\ k \in DOMAIN key2[n] /\ Alive(n, key2[n][k])
    /\ <<"LinkAccepted", k>> \in told[n]
    /\ LET p == key2[n][k].peer
       IN /\ info[n][p].sponsor
          /\ SetInfo(n, p, [info[n][p] EXCEPT !.sendAge = 0])
    /\ UNCHANGED <<up, m_CurConv, key2, blocks, cmds, syn, net, dups, calls,
                   restarts, histVars>>

(* HandleCmd sends the SYN or the disconnect notice.                       *)
HandleCmd(n) ==
    /\ up[n] /\ cmds[n] # <<>>
    /\ net' = Post(net, {Head(cmds[n])})
    /\ cmds' = [cmds EXCEPT ![n] = Tail(@)]
    /\ UNCHANGED <<up, mapVars, syn, dups, calls, restarts, histVars>>
-----------------------------------------------------------------------------
(* ConnMgrThread2, for the entry of peer p.  ikcp_update may send.         *)

(* The entry is freed: disconnected, or nothing heard of the dialing side. *)
Expired(e) == e.state = "AutoDisConnect" \/ (~e.sponsor /\ e.sendAge > MaxHeartValue)

Shaking(e) == /\ ~Expired(e) /\ e.sponsor
              /\ e.handShake < MAXHANDSHAKE /\ e.state \in {"SYN", "ACK"}

(* An unanswered SYN or ACK is sent twice more, then the attempt fails.    *)
Retry_without_limit(e) == Shaking(e) /\ e.sendAge > SYNTICK

Retry(e) == /\ Shaking(e) /\ e.sendAge <= MaxConTick
            /\ \/ e.handShake = 0 /\ e.sendAge > SYNTICK
               \/ e.handShake = 1 /\ e.sendAge > SYNTICKD

GiveUp_never(e) == FALSE

GiveUp(e) == /\ Shaking(e)
             /\ e.sendAge > MaxConTick \/ (e.handShake >= 2 /\ e.sendAge > SYNTICKT)

HeartDue(e) == /\ ~Expired(e) /\ e.sponsor /\ ~Shaking(e)
               /\ AutomaticHeart /\ e.state = "Link" /\ e.sendAge > MinHeartValue

(* Nothing heard of the accepting side.                                    *)
Silent(e) == /\ ~Expired(e) /\ e.sponsor /\ ~Shaking(e) /\ ~HeartDue(e)
             /\ e.recAge > MaxHeartValue

Due(e) == Expired(e) \/ GiveUp(e) \/ Silent(e) \/ Retry(e) \/ HeartDue(e)

(* A heartbeat leaves rectick alone.                                       *)
AfterHeart_resets_both(e) == [e EXCEPT !.sendAge = 0, !.recAge = 0]

AfterHeart(e) == [e EXCEPT !.sendAge = 0]

ConnMgr(n, p) ==
    /\ up[n] /\ HasInfo(n, p)
    /\ LET e == info[n][p]
       IN \E out \in SUBSET (IF e.kcp = 0 THEN {} ELSE {Data(n, p)}) :
          \/ /\ Expired(e) \/ GiveUp(e) \/ Silent(e)
             /\ FreeKcpInfo(n, p)
             /\ net' = Post(net, out)
          \/ /\ Retry(e)
             /\ SetInfo(n, p, [e EXCEPT !.handShake = @ + 1, !.sendAge = 0, !.recAge = 0])
             /\ net' = Post(Post(net, out), {Control(n, p, e.state, e.conv)})
             /\ UNCHANGED <<key2, told>>
          \/ /\ HeartDue(e)
             /\ SetInfo(n, p, AfterHeart(e))
             /\ net' = Post(Post(net, out), {Control(n, p, "KcpHeart", e.conv)})
             /\ UNCHANGED <<key2, told>>
          \/ /\ ~Due(e)
             /\ net' = Post(net, out)
             /\ UNCHANGED <<info, key2, told>>
    /\ UNCHANGED <<up, m_CurConv, blocks, cmds, syn, dups, calls, restarts,
                   acked, aborted>>
-----------------------------------------------------------------------------
(* OnConHandle and OnKcp: one action per kind of datagram.                 *)

(* KKSYN, before the lock: the id the dialing side proposes is taken if it *)
(* is above all that were assigned here.                                   *)
OnSyn(n, m) ==
    \E left \in {net, net \ {m}} :
        /\ Deliver(n, m, "SYN", left) /\ net' = left
        /\ m_CurConv[n] < FirstConv + MaxConv
        /\ m_CurConv' = [m_CurConv EXCEPT ![n] = IF m.conv > @ THEN m.conv ELSE @ + 1]
        /\ syn' = [syn EXCEPT ![n] = m.src]
        /\ UNCHANGED <<up, info, key2, blocks, cmds, calls, restarts, histVars>>

(* KKSYN, under the lock: an older entry is dropped without a message.     *)
AcceptSyn(n) ==
    /\ up[n] /\ syn[n] # None
    /\ LET p == syn[n]
           e == NewInfo(p, m_CurConv[n], "SYNACK", FALSE)
       IN /\ SetInfo(n, p, e)
          /\ key2' = [key2 EXCEPT ![n] =
                 IF HasInfo(n, p) THEN Without(@, info[n][p].k2) ELSE @]
          /\ net' = Post(net, {Control(n, p, "SYNACK", e.conv)})
    /\ syn' = [syn EXCEPT ![n] = None]
    /\ UNCHANGED <<up, m_CurConv, blocks, cmds, dups, calls, restarts, histVars>>

(* An assert(0) is reached: the process stops.                             *)
Abort(n, what) == Down(n) /\ aborted' = aborted \cup {what}

(* KKSYNACK: whatever the state of the entry, it gets the id and a new     *)
(* control block.                                                          *)
OnSynAck(n, m) ==
    \E left \in {net, net \ {m}} :
        /\ Deliver(n, m, "SYNACK", left)
        /\ IF HasInfo(n, m.src)
           THEN /\ SetInfo(n, m.src,
                       [info[n][m.src] EXCEPT
                            !.state = "ACK", !.sendAge = 0, !.handShake = 0, !.conv = m.conv,
                            !.k2 = m.conv, !.kcp = blocks[n] + 1, !.heard = {}])
                /\ blocks' = [blocks EXCEPT ![n] = @ + 1]
                /\ Key2Insert(n, m.conv, PointerTo(n, m.src))
                /\ net' = Post(left, {Control(n, m.src, "ACK", m.conv)})
                /\ acked' = [acked EXCEPT ![n] = @ \cup {<<m.src, m.conv>>}]
                /\ UNCHANGED <<up, m_CurConv, cmds, syn, told, aborted>>
           ELSE Abort(n, "SYNACK") /\ net' = left
        /\ UNCHANGED <<calls, restarts>>

(* KKACK: the handshake is complete if the ACK is for the newest SYNACK.   *)
(* A LINK goes back in any case.                                           *)
Completes_again(e, m) == e.conv = m.conv

Completes(e, m) == e.state = "SYNACK" /\ e.conv = m.conv

OnAck(n, m) ==
    \E left \in {net, net \ {m}} :
        /\ Deliver(n, m, "ACK", left)
        /\ IF HasInfo(n, m.src)
           THEN LET e == [info[n][m.src] EXCEPT !.sendAge = 0]
                IN /\ IF Completes(e, m)
                      THEN /\ SetInfo(n, m.src, [e EXCEPT !.state = "Link", !.kcp = blocks[n] + 1,
                                                          !.heard = {}, !.k2 = e.conv])
                           /\ blocks' = [blocks EXCEPT ![n] = @ + 1]
                           /\ Key2Insert(n, e.conv, PointerTo(n, m.src))
                           /\ Tell(n, "LinkIncoming", m.conv)
                      ELSE SetInfo(n, m.src, e) /\ UNCHANGED <<blocks, key2, told>>
                   /\ net' = Post(left, {Control(n, m.src, "Link", m.conv)})
                   /\ UNCHANGED <<up, m_CurConv, cmds, syn, acked, aborted>>
           ELSE Abort(n, "ACK") /\ net' = left
        /\ UNCHANGED <<calls, restarts>>

(* KKLink: the dialing side has its link.                                  *)
Accepts(e, m) == e.conv = m.conv

OnLink(n, m) ==
    \E left \in {net, net \ {m}} :
        /\ Deliver(n, m, "Link", left)
        /\ IF HasInfo(n, m.src) /\ Accepts(info[n][m.src], m)
           THEN /\ SetInfo(n, m.src, [info[n][m.src] EXCEPT
                              !.state = "Link", !.sendAge = 0, !.handShake = 0])
                /\ Tell(n, "LinkAccepted", m.conv)
                /\ net' = left
           ELSE /\ net' = Post(left, {Control(n, m.src, "KckLost", m.conv)})
                /\ UNCHANGED <<info, told>>
        /\ UNCHANGED <<up, m_CurConv, key2, blocks, cmds, syn, calls, restarts,
                       acked, aborted>>

(* KKKcpHeart: found by id.  The accepting side answers.  A pointer to an  *)
(* object that was freed reads and writes freed memory.                    *)
OnHeart(n, m) ==
    \E left \in {net, net \ {m}} :
        /\ Deliver(n, m, "KcpHeart", left)
        /\ \/ /\ m.conv \notin DOMAIN key2[n]
              /\ net' = Post(left, {Control(n, m.src, "KckLost", m.conv)})
              /\ UNCHANGED <<up, mapVars, cmds, syn, histVars>>
           \/ /\ m.conv \in DOMAIN key2[n] /\ Alive(n, key2[n][m.conv])
              /\ LET p == key2[n][m.conv].peer
                     e == info[n][p]
                 IN /\ SetInfo(n, p, IF e.sponsor THEN [e EXCEPT !.sendAge = 0, !.recAge = 0]
                                                  ELSE [e EXCEPT !.sendAge = 0])
                    /\ net' = IF e.sponsor THEN left
                              ELSE Post(left, {Control(n, p, "KcpHeart", e.conv)})
              /\ UNCHANGED <<up, m_CurConv, key2, blocks, cmds, syn, histVars>>
           \/ /\ m.conv \in DOMAIN key2[n] /\ ~Alive(n, key2[n][m.conv])
              /\ net' = left
              /\ Down(n) \/ UNCHANGED <<up, mapVars, cmds, syn, told, acked>>
              /\ UNCHANGED aborted
        /\ UNCHANGED <<calls, restarts>>

(* KKDisConnect: whichever connection of the peer it was meant for.        *)
OnDisConnect(n, m) ==
    \E left \in {net, net \ {m}} :
        /\ Deliver(n, m, "DisConnect", left) /\ net' = left
        /\ IF HasInfo(n, m.src)
           THEN SetInfo(n, m.src, [info[n][m.src] EXCEPT !.state = "AutoDisConnect"])
           ELSE UNCHANGED info
        /\ UNCHANGED <<up, m_CurConv, key2, blocks, cmds, syn, calls, restarts, histVars>>

(* KKUnLink and KKKckLost only put a message into m_RecPacketQue: the      *)
(* KKKckLost handler looks for its entry under an empty key.               *)
OnNotice(n, m) ==
    \E left \in {net, net \ {m}} :
        /\ Deliver(n, m, "UnLink", left) \/ Deliver(n, m, "KckLost", left)
        /\ net' = left
        /\ UNCHANGED <<up, mapVars, cmds, syn, calls, restarts, histVars>>

(* OnKcp: any datagram of the peer counts as a sign of life; ikcp_input    *)
(* takes those of its own id, and the ikcp_update that follows may answer. *)
Heard(e, m) == IF e.kcp # 0 /\ e.conv = m.conv THEN e.heard \cup {m.kcp} ELSE e.heard

OnKcp(n, m) ==
    \E left \in {net, net \ {m}} :
        /\ Deliver(n, m, "kcp", left)
        /\ IF HasInfo(n, m.src)
           THEN /\ SetInfo(n, m.src, [info[n][m.src] EXCEPT
                              !.sendAge = 0, !.recAge = 0, !.heard = Heard(info[n][m.src], m)])
                /\ \E out \in SUBSET (IF info[n][m.src].kcp = 0 THEN {} ELSE {Data(n, m.src)}) :
                      net' = Post(left, out)
           ELSE /\ net' = Post(left, {Control(n, m.src, "UnLink", 0)})
                /\ UNCHANGED info
        /\ UNCHANGED <<up, m_CurConv, key2, blocks, cmds, syn, calls, restarts, histVars>>
-----------------------------------------------------------------------------
(* ~CKKkcp: the peers of the connections this side dialed are told.        *)
Stop(n) ==
    /\ up[n] /\ restarts < MaxRestarts
    /\ net' = Post(net, {Control(n, p, "DisConnect", 0) : p \in
           {q \in DOMAIN info[n] : /\ info[n][q].sponsor /\ info[n][q].state = "Link"
                                   /\ info[n][q].kcp # 0}})
    /\ Down(n)
    /\ UNCHANGED <<dups, calls, restarts, aborted>>

(* The process crashes; nobody is told.                                    *)
Crash(n) ==
    /\ up[n] /\ restarts < MaxRestarts
    /\ Down(n)
    /\ UNCHANGED <<net, dups, calls, restarts, aborted>>

(* A new CKKkcp in place of one that stopped, crashed or aborted.          *)
Start(n) ==
    /\ ~up[n] /\ restarts < MaxRestarts /\ calls + restarts < MaxEvents
    /\ up' = [up EXCEPT ![n] = TRUE]
    /\ restarts' = restarts + 1
    /\ UNCHANGED <<mapVars, cmds, syn, net, dups, calls, histVars>>

Lose(m) ==
    /\ net' = net \ {m}
    /\ UNCHANGED <<up, mapVars, cmds, syn, dups, calls, restarts, histVars>>

(* Time passes for every entry.  ConnMgrThread2 looks at an entry every 5  *)
(* ms, so that it acts before another unit of time goes by, unless it is   *)
(* kept waiting for a processor or for the lock (Stalls).                  *)
Older(e) ==
    [e EXCEPT !.sendAge = IF @ < MaxAge THEN @ + 1 ELSE @,
              !.recAge  = IF @ < MaxAge /\ e.sponsor THEN @ + 1 ELSE @]

Tick ==
    /\ Stalls \/ \A n \in Nodes : \A p \in DOMAIN info[n] : ~Due(info[n][p])
    /\ info' = [n \in Nodes |-> [p \in DOMAIN info[n] |-> Older(info[n][p])]]
    /\ UNCHANGED <<up, m_CurConv, key2, blocks, cmds, syn, net, dups, calls,
                   restarts, histVars>>

Receive(n, m) ==
    \/ OnSyn(n, m) \/ OnSynAck(n, m) \/ OnAck(n, m) \/ OnLink(n, m)
    \/ OnHeart(n, m) \/ OnDisConnect(n, m) \/ OnNotice(n, m) \/ OnKcp(n, m)

Next ==
    \/ \E n \in Nodes :
          \/ HandleCmd(n) \/ AcceptSyn(n) \/ Stop(n) \/ Crash(n) \/ Start(n)
          \/ \E p \in Nodes : Connect(n, p) \/ DisConnectAddr(n, p) \/ ConnMgr(n, p)
          \/ \E k \in DOMAIN key2[n] : DisConnectId(n, k) \/ StablySend(n, k)
          \/ \E m \in net : Receive(n, m)
    \/ \E m \in net : Lose(m)
    \/ Tick

Spec == Init /\ [][Next]_vars

(* The threads run for ever and the clock goes on; the network promises    *)
(* nothing.                                                                *)
Fairness ==
    /\ WF_vars(Tick)
    /\ \A n \in Nodes : /\ WF_vars(HandleCmd(n)) /\ WF_vars(AcceptSyn(n))
                        /\ \A p \in Nodes : WF_vars(ConnMgr(n, p))

FairSpec == Spec /\ Fairness

(* What restarts the timers of ConnMgrThread2 from outside of the handshake. *)
Talk ==
    \/ \E n \in Nodes : \E k \in DOMAIN key2[n] : StablySend(n, k)
    \/ \E n \in Nodes : \E m \in net : OnKcp(n, m)
-----------------------------------------------------------------------------
Infos(n) == {info[n][p] : p \in DOMAIN info[n]}

States == {"SYN", "SYNACK", "ACK", "Link", "AutoDisConnect"}
Kinds  == {"SYN", "SYNACK", "ACK", "Link", "KcpHeart", "DisConnect",
           "UnLink", "KckLost", "kcp"}
Datagram == [src : Nodes, dst : Nodes, kind : Kinds, conv : Nat, kcp : Nat]
KcpInfo  == [born : Nat, conv : Nat, state : States, sponsor : BOOLEAN,
             kcp : Nat, heard : SUBSET Nat, k2 : Nat, handShake : 0 .. 2,
             sendAge : 0 .. MaxAge, recAge : 0 .. MaxAge]

(* Type invariant: every entry is a KcpInfo, the retry counter never       *)
(* passes 2, and the queues hold datagrams that the put* functions build.  *)
TypeOK ==
    /\ up \in [Nodes -> BOOLEAN]
    /\ m_CurConv \in [Nodes -> Nat]
    /\ \A n \in Nodes : /\ DOMAIN info[n] \subseteq Nodes /\ Infos(n) \subseteq KcpInfo
                        /\ DOMAIN key2[n] \subseteq Nat
                        /\ \A k \in DOMAIN key2[n] : key2[n][k] \in Pointer
    /\ cmds \in [Nodes -> Seq(Datagram)]
    /\ syn \in [Nodes -> Nodes \cup {None}]
    /\ net \subseteq Datagram /\ dups \in 0 .. MaxDup
    /\ blocks \in [Nodes -> Nat] /\ calls \in 0 .. MaxCalls /\ restarts \in 0 .. MaxRestarts
    /\ aborted \subseteq {"SYNACK", "ACK"}

Linked(n, p) == HasInfo(n, p) /\ info[n][p].state = "Link"

(* KKACK: an accepting endpoint has a link with id k only if the dialing   *)
(* one was given that id and acknowledged it, however often the SYN was    *)
(* sent again and whichever of the answers were late.                      *)
ThreeWay ==
    \A n, p \in Nodes :
        (Linked(n, p) /\ ~info[n][p].sponsor) => <<n, info[n][p].conv>> \in acked[p]

(* KKACK: an id is announced as incoming, and its entry given a control    *)
(* block, only once, however often the ACK is sent again or delivered.     *)
IncomingOnce ==
    [][\A n, p \in Nodes :
          (/\ HasInfo(n, p) /\ HasInfo(n, p)' /\ ~info'[n][p].sponsor
           /\ info'[n][p].kcp \notin {0, info[n][p].kcp}) =>
              <<"LinkIncoming", info'[n][p].conv>> \notin told[n]]_vars

(* FreeKcpInfo: the application hears that a link was lost only after it   *)
(* was told of the link.                                                   *)
LinkBeforeLoss ==
    \A n \in Nodes : \A k \in {t[2] : t \in told[n]} : <<"LinkLost", k>> \in told[n] =>
        <<"LinkIncoming", k>> \in told[n] \/ <<"LinkAccepted", k>> \in told[n]

(* An endpoint that only accepts: m_Map2 leads from an id to the live      *)
(* entry with that id, for each entry that has a control block, and ids    *)
(* are not shared.                                                         *)
Passive == {n \in Nodes : \A d \in Dials : d[1] # n}

MapsAgree ==
    \A n \in Passive :
        /\ DOMAIN key2[n] = {e.conv : e \in {f \in Infos(n) : f.kcp # 0}}
        /\ \A k \in DOMAIN key2[n] :
              Alive(n, key2[n][k]) /\ info[n][key2[n][k].peer].conv = k
        /\ \A p, q \in DOMAIN info[n] : info[n][p].conv = info[n][q].conv => p = q

(* KKSYN, KKACK: the dialing side hears one control block of its peer per id, so *)
(* that ikcp's sequence numbers are never those of two streams, with all     *)
(* datagrams repeated and late: the accepting side never gives an id twice,  *)
(* and completes each once.  The accepting side hears one block as well      *)
(* while nothing is delivered twice; after that the dialing side may replace *)
(* its block under the same id (KKKcp.cpp:767).  A process that restarts     *)
(* begins to count its ids anew, so the claim ends there.                    *)
OneStream ==
    restarts = 0 => \A n \in Nodes : \A e \in Infos(n) :
        e.sponsor \/ dups = 0 => Cardinality(e.heard) <= 1

(* KKKcp.cpp:777 and 819: the SYNACK or ACK that arrives has its entry.    *)
AssertsHold == aborted = {}

(* A call of Connect is answered: the handshake completes or is given up,  *)
(* whatever the network does.                                              *)
HandshakeEnds ==
    \A d \in Dials :
        (HasInfo(d[1], d[2]) /\ info[d[1]][d[2]].state \in {"SYN", "ACK"}) ~>
        ~(HasInfo(d[1], d[2]) /\ info[d[1]][d[2]].state \in {"SYN", "ACK"})

(* The same when the two ends exchange data for a finite time only.        *)
QuietHandshakeEnds == <>[][~Talk]_vars => HandshakeEnds

(* A link whose other end is gone is noticed: the entry is freed, unless   *)
(* the other end has an entry again.                                       *)
GonePeerNoticed ==
    \A d \in Dials :
        /\ (Linked(d[1], d[2]) /\ ~HasInfo(d[2], d[1])) ~>
           ~(Linked(d[1], d[2]) /\ ~HasInfo(d[2], d[1]))
        /\ (Linked(d[2], d[1]) /\ ~HasInfo(d[1], d[2])) ~>
           ~(Linked(d[2], d[1]) /\ ~HasInfo(d[1], d[2]))
=============================================================================
