----------------------------- MODULE KkConnProof -----------------------------
(***************************************************************************)
(* Proofs about KkConn: the handshake and the maps of the connection       *)
(* manager, for any endpoints, timeouts and bounds, with datagrams lost,   *)
(* reordered and delivered twice, and with endpoints that restart; and     *)
(* about the relay: ids and connections through the server, for any number *)
(* of clients, any largest id and any number of calls and datagrams.       *)
(***************************************************************************)
EXTENDS Signalling, FiniteSetTheorems, WellFoundedInduction, TLAPS

Messages == {"LinkIncoming", "LinkAccepted", "LinkLost", "ConnectFail", "KcpDisConnect"}

\* The id of the entry for p is one that n assigned when it accepted.
Own(n, p, e) == e.state = "SYNACK" \/ <<n, p>> \notin Dials

\* An entry: who dials whom, where its id comes from, what was told of it (T) and
\* for which ids an ACK was sent (A).  c is m_CurConv, s the SYN in the middle.
OwnSound(e, c, s) ==
  /\ ~ e.sponsor /\ e.born = e.conv
  /\ 0 < e.conv /\ e.conv <= c /\ (s # None => e.conv < c)
  /\ IF e.kcp = 0 THEN e.k2 = 0 ELSE e.k2 = e.conv

StateSound(n, p, e, T, A) ==
  /\ e.state = "SYNACK" =>
       /\ e.kcp = 0 /\ <<p, n>> \in Dials /\ <<"LinkIncoming", e.conv>> \notin T
  /\ e.state = "ACK" => <<p, e.conv>> \in A[n] /\ <<n, p>> \in Dials
  /\ e.state = "Link" =>
       /\ <<"LinkIncoming", e.conv>> \in T \/ <<"LinkAccepted", e.conv>> \in T
       /\ <<n, p>> \notin Dials => <<n, e.conv>> \in A[p]

EntrySound(n, p, e, c, s, T, A) ==
  /\ e \in KcpInfo
  /\ IF e.sponsor THEN <<n, p>> \in Dials ELSE <<p, n>> \in Dials
  /\ Own(n, p, e) => OwnSound(e, c, s)
  /\ StateSound(n, p, e, T, A)

\* An id is announced once it was assigned, and a loss after the link.
ToldSound(c, s, T) ==
  /\ T \in SUBSET (Messages \X Nat)
  /\ \A k \in Nat : <<"LinkIncoming", k>> \in T => k <= c /\ (s # None => k < c)
  /\ \A k \in Nat : <<"LinkLost", k>> \in T =>
       <<"LinkIncoming", k>> \in T \/ <<"LinkAccepted", k>> \in T

\* The two maps of an endpoint that never dials.
KeysSound(I, K) ==
  /\ \A p \in DOMAIN I : I[p].kcp # 0 =>
       I[p].conv \in DOMAIN K /\ K[I[p].conv] = [peer |-> p, born |-> I[p].born]
  /\ \A k \in DOMAIN K : \E p \in DOMAIN I : I[p].kcp # 0 /\ I[p].conv = k

NodeSound(n, I, K, c, s, T, A) ==
  /\ DOMAIN I \in SUBSET Nodes /\ DOMAIN K \in SUBSET Nat
  /\ \A k \in DOMAIN K : K[k] \in Pointer
  /\ c \in Nat /\ 0 < c
  /\ s \in Nodes \cup {None} /\ (s # None => <<s, n>> \in Dials)
  /\ \A p \in DOMAIN I : EntrySound(n, p, I[p], c, s, T, A)
  /\ \A p, q \in DOMAIN I :
       Own(n, p, I[p]) /\ Own(n, q, I[q]) /\ I[p].conv = I[q].conv => p = q
  /\ ToldSound(c, s, T)
  /\ n \in Passive => KeysSound(I, K)

\* Who sends what to whom, and an ACK was acknowledged.
MsgSound(m, A) ==
  /\ m \in Datagram
  /\ m.kind \in {"SYN", "ACK"} => <<m.src, m.dst>> \in Dials
  /\ m.kind \in {"SYNACK", "Link"} => <<m.dst, m.src>> \in Dials
  /\ m.kind = "ACK" => <<m.dst, m.conv>> \in A[m.src]

Shape ==
  /\ up \in [Nodes -> BOOLEAN] /\ blocks \in [Nodes -> Nat]
  /\ m_CurConv \in [Nodes -> Nat] /\ syn \in [Nodes -> Nodes \cup {None}]
  /\ DOMAIN info = Nodes /\ DOMAIN key2 = Nodes /\ DOMAIN told = Nodes
  /\ acked \in [Nodes -> SUBSET (Nodes \X Nat)]
  /\ cmds \in [Nodes -> Seq(Datagram)]
  /\ dups \in 0 .. MaxDup /\ calls \in 0 .. MaxCalls /\ restarts \in 0 .. MaxRestarts
  /\ aborted \subseteq {"SYNACK", "ACK"}

Local(n) == NodeSound(n, info[n], key2[n], m_CurConv[n], syn[n], told[n], acked)

CmdsSound ==
  \A n \in Nodes : \A i \in DOMAIN cmds[n] :
    cmds[n][i].kind # "ACK" /\ MsgSound(cmds[n][i], acked)

IInv ==
  Shape /\ (\A n \in Nodes : Local(n)) /\ (\A m \in net : MsgSound(m, acked)) /\ CmdsSound

-----------------------------------------------------------------------------
(* One endpoint.                                                           *)

LEMMA MaxAgeIs == MaxAge \in Nat /\ 0 < MaxAge
<1> DEFINE t == IF MaxConTick < MaxHeartValue THEN MaxHeartValue ELSE MaxConTick
<1>1. /\ SYNTICK \in Nat /\ SYNTICKD \in Nat /\ SYNTICKT \in Nat /\ MaxConTick \in Nat
      /\ MinHeartValue \in Nat /\ MaxHeartValue \in Nat
      /\ SYNTICK <= SYNTICKD /\ SYNTICKD <= SYNTICKT /\ SYNTICKT <= MaxConTick
      /\ MinHeartValue <= MaxHeartValue
  BY KkConnAssumption DEF Ticks
<1>2. t \in Ticks /\ \A u \in Ticks : u <= t
  BY <1>1 DEF Ticks
<1>3. \A x \in Ticks : x \in Nat
  BY KkConnAssumption
<1> HIDE DEF t
<1>4. (CHOOSE x \in Ticks : \A u \in Ticks : u <= x) \in Nat
  BY <1>2, <1>3
<1> QED BY <1>4 DEF MaxAge

Put(I, p, e) == [q \in DOMAIN I \cup {p} |-> IF q = p THEN e ELSE I[q]]

\* Ages, what was heard and a disconnect.
Touch(e, f) ==
  /\ f \in KcpInfo /\ f.born = e.born /\ f.conv = e.conv /\ f.sponsor = e.sponsor
  /\ f.kcp = e.kcp /\ f.k2 = e.k2 /\ f.state \in {e.state, "AutoDisConnect"}

LEMMA TouchedEntry ==
  ASSUME NEW n, NEW p, NEW e, NEW f, NEW c, NEW s, NEW T, NEW A,
         EntrySound(n, p, e, c, s, T, A), f = e \/ Touch(e, f)
  PROVE  EntrySound(n, p, f, c, s, T, A) /\ (Own(n, p, f) => Own(n, p, e))
BY DEF EntrySound, Touch, Own, OwnSound, StateSound

LEMMA TouchedNode ==
  ASSUME NEW n, NEW I, NEW K, NEW c, NEW s, NEW T, NEW A, NodeSound(n, I, K, c, s, T, A),
         NEW J, DOMAIN J = DOMAIN I, \A p \in DOMAIN I : J[p] = I[p] \/ Touch(I[p], J[p])
  PROVE  NodeSound(n, J, K, c, s, T, A)
<1>1. \A p \in DOMAIN J : /\ EntrySound(n, p, J[p], c, s, T, A)
                          /\ Own(n, p, J[p]) => Own(n, p, I[p])
                          /\ J[p].conv = I[p].conv /\ J[p].kcp = I[p].kcp /\ J[p].born = I[p].born
  BY TouchedEntry DEF NodeSound, Touch
<1>2. KeysSound(I, K) => KeysSound(J, K)
  BY <1>1 DEF KeysSound
<1> QED BY <1>1, <1>2 DEF NodeSound

LEMMA EmptyNode ==
  ASSUME NEW n, NEW A
  PROVE  NodeSound(n, EmptyMap, EmptyMap, FirstConv, None, {}, A)
<1>1. DOMAIN EmptyMap = {}
  BY DEF EmptyMap
<1>2. FirstConv \in Nat /\ 0 < FirstConv
  BY DEF FirstConv
<1> QED BY <1>1, <1>2 DEF NodeSound, ToldSound, KeysSound

(* More that was acknowledged.                                             *)
LEMMA WiderNode ==
  ASSUME NEW n \in Nodes, NEW I, NEW K, NEW c, NEW s, NEW T, NEW A, NodeSound(n, I, K, c, s, T, A),
         NEW B, \A q \in Nodes : A[q] \subseteq B[q]
  PROVE  NodeSound(n, I, K, c, s, T, B)
<1>1. \A p \in DOMAIN I : p \in Nodes /\ EntrySound(n, p, I[p], c, s, T, A)
  BY DEF NodeSound
<1>2. \A p \in DOMAIN I : EntrySound(n, p, I[p], c, s, T, B)
  BY <1>1 DEF EntrySound, StateSound
<1> QED BY <1>2 DEF NodeSound

LEMMA WiderMsg ==
  ASSUME NEW m, NEW A, MsgSound(m, A), NEW B, \A q \in Nodes : A[q] \subseteq B[q]
  PROVE  MsgSound(m, B)
BY DEF MsgSound, Datagram

(* Without the entry of p, and the id it was registered under.             *)
LEMMA KeysWithout ==
  ASSUME NEW n \in Passive, NEW I, NEW K, NEW c, NEW s, NEW T, NEW A,
         NodeSound(n, I, K, c, s, T, A), NEW p \in DOMAIN I
  PROVE  KeysSound(Without(I, p), Without(K, I[p].k2))
<1> DEFINE J == Without(I, p)
           L == Without(K, I[p].k2)
<1>1. \A q \in DOMAIN I : Own(n, q, I[q]) /\ OwnSound(I[q], c, s)
  BY DEF NodeSound, EntrySound, Own, Passive
<1>2. /\ DOMAIN J = DOMAIN I \ {p} /\ \A q \in DOMAIN J : J[q] = I[q]
      /\ DOMAIN L = DOMAIN K \ {I[p].k2} /\ \A k \in DOMAIN L : L[k] = K[k]
  BY DEF Without
<1>3. KeysSound(I, K) /\ \A q \in DOMAIN I : q # p => I[q].conv # I[p].conv
  BY <1>1 DEF NodeSound
<1> HIDE DEF J, L
<1>4. \A q \in DOMAIN J : J[q].kcp # 0 =>
        J[q].conv \in DOMAIN L /\ L[J[q].conv] = [peer |-> q, born |-> J[q].born]
  BY <1>1, <1>2, <1>3 DEF KeysSound, OwnSound
<1>5. \A k \in DOMAIN L : \E q \in DOMAIN J : J[q].kcp # 0 /\ J[q].conv = k
  <2> TAKE k \in DOMAIN L
  <2>1. PICK q \in DOMAIN I : I[q].kcp # 0 /\ I[q].conv = k
    BY <1>2, <1>3 DEF KeysSound
  <2>2. q # p
    BY <1>1, <1>2, <2>1 DEF OwnSound
  <2> QED BY <1>2, <2>1, <2>2
<1> QED BY <1>4, <1>5 DEF KeysSound, J, L

LEMMA FreedNode ==
  ASSUME NEW n, NEW I, NEW K, NEW c, NEW s, NEW T, NEW A, NodeSound(n, I, K, c, s, T, A),
         NEW p \in DOMAIN I
  PROVE  NodeSound(n, Without(I, p), Without(K, I[p].k2), c, s,
                   T \cup {<<FreeMessage(I[p].state), I[p].conv>>}, A)
<1> DEFINE J == Without(I, p)
           L == Without(K, I[p].k2)
           f == FreeMessage(I[p].state)
           U == T \cup {<<f, I[p].conv>>}
<1>1. /\ DOMAIN J = DOMAIN I \ {p} /\ \A q \in DOMAIN J : J[q] = I[q]
      /\ DOMAIN L = DOMAIN K \ {I[p].k2} /\ \A k \in DOMAIN L : L[k] = K[k]
  BY DEF Without
<1>2. n \in Passive => KeysSound(J, L)
  BY KeysWithout
<1>3. EntrySound(n, p, I[p], c, s, T, A) /\ I[p].conv \in Nat
  BY DEF NodeSound, EntrySound, KcpInfo
<1>4. f \in Messages /\ f \notin {"LinkIncoming", "LinkAccepted"}
      /\ (f = "LinkLost" => I[p].state = "Link")
  BY DEF FreeMessage, Messages
<1> HIDE DEF J, L, f
<1>5. \A k : (<<"LinkIncoming", k>> \in U <=> <<"LinkIncoming", k>> \in T)
             /\ (<<"LinkAccepted", k>> \in U <=> <<"LinkAccepted", k>> \in T)
  BY <1>4
<1>6. ToldSound(c, s, U)
  BY <1>3, <1>4, <1>5 DEF NodeSound, ToldSound, EntrySound, StateSound
<1>7. \A q \in DOMAIN J : EntrySound(n, q, J[q], c, s, U, A)
  BY <1>1, <1>5 DEF NodeSound, EntrySound, StateSound
<1> HIDE DEF U
<1>8. NodeSound(n, J, L, c, s, U, A)
  BY <1>1, <1>2, <1>6, <1>7 DEF NodeSound
<1> QED BY <1>8 DEF J, L, U, f

(* Connect.                                                                *)
LEMMA DialedNode ==
  ASSUME NEW n, NEW I, NEW K, NEW c, NEW s, NEW T, NEW A, NodeSound(n, I, K, c, s, T, A),
         NEW p \in Nodes, p \notin DOMAIN I, <<n, p>> \in Dials
  PROVE  NodeSound(n, Put(I, p, NewInfo(p, c + 1, "SYN", TRUE)), K, c + 1, s, T, A)
<1> DEFINE e == NewInfo(p, c + 1, "SYN", TRUE)
           J == Put(I, p, e)
<1>1. c \in Nat /\ c + 1 \in Nat /\ c < c + 1
  BY DEF NodeSound
<1>2. e \in KcpInfo /\ e.state = "SYN" /\ e.conv = c + 1 /\ e.sponsor
  BY <1>1, MaxAgeIs DEF NewInfo, KcpInfo, States
<1>3. EntrySound(n, p, e, c + 1, s, T, A) /\ ~ Own(n, p, e)
  BY <1>2 DEF EntrySound, Own, StateSound
<1>4. /\ DOMAIN J = DOMAIN I \cup {p} /\ J[p] = e
      /\ \A q \in DOMAIN I : q # p /\ J[q] = I[q]
  BY DEF Put
<1> HIDE DEF e, J
<1>5. \A q \in DOMAIN I : EntrySound(n, q, I[q], c + 1, s, T, A)
  <2> TAKE q \in DOMAIN I
  <2>1. EntrySound(n, q, I[q], c, s, T, A)
    BY DEF NodeSound
  <2>2. I[q].conv \in Nat
    BY <2>1 DEF EntrySound, KcpInfo
  <2> QED BY <1>1, <2>1, <2>2 DEF EntrySound, OwnSound
<1>6. ToldSound(c + 1, s, T)
  BY <1>1 DEF NodeSound, ToldSound
<1>7. n \notin Passive
  BY DEF Passive
<1>8. NodeSound(n, J, K, c + 1, s, T, A)
  BY <1>1, <1>3, <1>4, <1>5, <1>6, <1>7 DEF NodeSound
<1> QED BY <1>8 DEF J, e

(* OnSyn: m_CurConv is beyond all ids that were assigned.                  *)
LEMMA SynNode ==
  ASSUME NEW n, NEW I, NEW K, NEW c, NEW T, NEW A, NodeSound(n, I, K, c, None, T, A),
         NEW d \in Nat, c < d, NEW r \in Nodes, <<r, n>> \in Dials
  PROVE  NodeSound(n, I, K, d, r, T, A)
<1>1. c \in Nat /\ 0 < d
  BY DEF NodeSound
<1>2. \A q \in DOMAIN I : EntrySound(n, q, I[q], d, r, T, A)
  <2> TAKE q \in DOMAIN I
  <2>1. EntrySound(n, q, I[q], c, None, T, A)
    BY DEF NodeSound
  <2>2. I[q].conv \in Nat
    BY <2>1 DEF EntrySound, KcpInfo
  <2> QED BY <1>1, <2>1, <2>2 DEF EntrySound, OwnSound
<1>3. ToldSound(d, r, T)
  BY <1>1 DEF NodeSound, ToldSound
<1> QED BY <1>1, <1>2, <1>3 DEF NodeSound

(* AcceptSyn: the id is new, and an older entry of the peer goes.          *)
LEMMA AcceptedNode ==
  ASSUME NEW n, NEW I, NEW K, NEW c, NEW s, NEW T, NEW A, NodeSound(n, I, K, c, s, T, A),
         s # None,
         NEW L, L = IF s \in DOMAIN I THEN Without(K, I[s].k2) ELSE K
  PROVE  NodeSound(n, Put(I, s, NewInfo(s, c, "SYNACK", FALSE)), L, c, None, T, A)
<1> DEFINE e == NewInfo(s, c, "SYNACK", FALSE)
           J == Put(I, s, e)
<1>1. c \in Nat /\ 0 < c /\ s \in Nodes /\ <<s, n>> \in Dials /\ ToldSound(c, s, T)
  BY DEF NodeSound
<1>2. /\ e \in KcpInfo /\ e.state = "SYNACK" /\ e.conv = c /\ e.born = c /\ ~ e.sponsor
      /\ e.kcp = 0 /\ e.k2 = 0
  BY <1>1, MaxAgeIs DEF NewInfo, KcpInfo, States
<1>3. <<"LinkIncoming", c>> \notin T
  BY <1>1 DEF ToldSound
<1>5. /\ DOMAIN J = DOMAIN I \cup {s} /\ J[s] = e
      /\ \A q \in DOMAIN I : q # s => J[q] = I[q]
  BY DEF Put
<1>6. /\ DOMAIN L \subseteq DOMAIN K /\ \A k \in DOMAIN L : L[k] = K[k]
  BY DEF Without
<1> HIDE DEF e, J
<1>4. EntrySound(n, s, e, c, None, T, A)
  <2>1. OwnSound(e, c, None)
    BY <1>1, <1>2 DEF OwnSound
  <2>2. StateSound(n, s, e, T, A)
    BY <1>1, <1>2, <1>3 DEF StateSound
  <2> QED BY <1>1, <1>2, <2>1, <2>2 DEF EntrySound
<1>7. \A q \in DOMAIN I : /\ EntrySound(n, q, I[q], c, None, T, A)
                          /\ Own(n, q, I[q]) => I[q].conv # c
  <2> TAKE q \in DOMAIN I
  <2>1. EntrySound(n, q, I[q], c, s, T, A)
    BY DEF NodeSound
  <2>2. I[q].conv \in Nat
    BY <2>1 DEF EntrySound, KcpInfo
  <2> QED BY <1>1, <2>1, <2>2 DEF EntrySound, OwnSound
<1>8. \A q \in DOMAIN J : \/ q \in DOMAIN I /\ q # s /\ J[q] = I[q]
                          \/ q = s /\ J[q] = e
  BY <1>5
<1>9. \A p, q \in DOMAIN J :
        Own(n, p, J[p]) /\ Own(n, q, J[q]) /\ J[p].conv = J[q].conv => p = q
  BY <1>2, <1>7, <1>8 DEF NodeSound
<1>10. n \in Passive => KeysSound(J, L)
  <2> SUFFICES ASSUME n \in Passive
               PROVE  KeysSound(J, L)
    OBVIOUS
  <2> DEFINE H == IF s \in DOMAIN I THEN Without(I, s) ELSE I
  <2>1. KeysSound(H, L)
    BY KeysWithout DEF NodeSound
  <2>2. /\ DOMAIN H = DOMAIN I \ {s} /\ \A q \in DOMAIN H : H[q] = I[q]
    BY DEF Without
  <2> HIDE DEF H
  <2>3. \A q \in DOMAIN J : J[q].kcp # 0 => q \in DOMAIN H /\ J[q] = H[q]
    BY <1>2, <1>8, <2>2
  <2>4. \A q \in DOMAIN H : q \in DOMAIN J /\ J[q] = H[q]
    BY <1>5, <2>2
  <2> QED BY <2>1, <2>3, <2>4 DEF KeysSound
<1>11. ToldSound(c, None, T)
  BY <1>1 DEF ToldSound
<1>12. NodeSound(n, J, L, c, None, T, A)
  <2>1. \A q \in DOMAIN J : EntrySound(n, q, J[q], c, None, T, A)
    BY <1>4, <1>7, <1>8
  <2>2. DOMAIN J \in SUBSET Nodes /\ DOMAIN L \in SUBSET Nat /\ \A k \in DOMAIN L : L[k] \in Pointer
    BY <1>1, <1>5, <1>6 DEF NodeSound
  <2> QED BY <1>1, <1>9, <1>10, <1>11, <2>1, <2>2 DEF NodeSound
<1> QED BY <1>12 DEF J, e

(* What the handlers of the handshake make of an entry.                    *)
SynAcked(e, v, b) ==
  [e EXCEPT !.state = "ACK", !.sendAge = 0, !.handShake = 0, !.conv = v,
            !.k2 = v, !.kcp = b + 1, !.heard = {}]

Completed(e, b) ==
  [[e EXCEPT !.sendAge = 0] EXCEPT !.state = "Link", !.kcp = b + 1, !.heard = {}, !.k2 = e.conv]

LinkAccepted(e) == [e EXCEPT !.state = "Link", !.sendAge = 0, !.handShake = 0]

LEMMA SynAckedInfo ==
  ASSUME NEW e \in KcpInfo, NEW v \in Nat, NEW b \in Nat, NEW f,
         f = SynAcked(e, v, b)
  PROVE  /\ f \in KcpInfo /\ f.state = "ACK" /\ f.conv = v /\ f.sponsor = e.sponsor
<1> DEFINE B == b + 1
           Z == {}
           g == [e EXCEPT !.state = "ACK", !.sendAge = 0, !.handShake = 0]
           h == [g EXCEPT !.conv = v, !.k2 = v]
<1>1. B \in Nat /\ Z \in SUBSET Nat
  OBVIOUS
<1>2. 0 \in 0 .. MaxAge /\ 0 \in 0 .. 2 /\ "ACK" \in States
  BY MaxAgeIs DEF States
<1>3. g \in KcpInfo /\ g.state = "ACK" /\ g.sponsor = e.sponsor
  BY <1>2 DEF KcpInfo
<1> HIDE DEF B, Z
<1>4. f = [h EXCEPT !.kcp = B, !.heard = Z]
  BY DEF SynAcked, B, Z
<1> HIDE DEF g
<1>5. h \in KcpInfo /\ h.state = "ACK" /\ h.conv = v /\ h.sponsor = e.sponsor
  BY <1>3, ZenonT(30) DEF KcpInfo
<1> HIDE DEF h
<1> QED BY <1>1, <1>4, <1>5, ZenonT(30) DEF KcpInfo

LEMMA LinkedInfo ==
  ASSUME NEW e \in KcpInfo, NEW b \in Nat, NEW f,
         f = Completed(e, b)
  PROVE  /\ f \in KcpInfo /\ f.state = "Link" /\ f.conv = e.conv /\ f.sponsor = e.sponsor
         /\ f.born = e.born /\ f.kcp # 0 /\ f.k2 = e.conv
<1> DEFINE g == [e EXCEPT !.sendAge = 0]
           B == b + 1
           Z == {}
<1>1. /\ B \in Nat /\ B # 0 /\ 0 \in 0 .. MaxAge /\ Z \in SUBSET Nat /\ "Link" \in States
      /\ e.conv \in Nat
  BY MaxAgeIs DEF States, KcpInfo
<1>2. g \in KcpInfo /\ g.conv = e.conv /\ g.sponsor = e.sponsor /\ g.born = e.born
  BY <1>1 DEF KcpInfo
<1>3. f = [g EXCEPT !.state = "Link", !.kcp = B, !.heard = Z, !.k2 = e.conv]
  BY DEF Completed
<1> HIDE DEF g, B, Z
<1> QED BY <1>1, <1>2, <1>3 DEF KcpInfo

LEMMA AcceptedInfo ==
  ASSUME NEW e \in KcpInfo, NEW f, f = LinkAccepted(e)
  PROVE  f \in KcpInfo /\ f.state = "Link" /\ f.conv = e.conv /\ f.sponsor = e.sponsor
<1>1. 0 \in 0 .. MaxAge /\ 0 \in 0 .. 2 /\ "Link" \in States
  BY MaxAgeIs DEF States
<1> QED BY <1>1 DEF KcpInfo, LinkAccepted

(* OnSynAck: the entry gets the id and a control block.                    *)
LEMMA SynAckedNode ==
  ASSUME NEW n \in Nodes, NEW I, NEW K, NEW c, NEW s, NEW T, NEW A, NEW B,
         NodeSound(n, I, K, c, s, T, A),
         NEW p \in DOMAIN I, <<n, p>> \in Dials, NEW v \in Nat,
         <<p, v>> \in B[n], \A q \in Nodes : A[q] \subseteq B[q],
         NEW f \in KcpInfo, f.state = "ACK", f.conv = v, f.sponsor = I[p].sponsor,
         NEW L, L = [k \in DOMAIN K \cup {v} |->
                       IF k \in DOMAIN K THEN K[k] ELSE [peer |-> p, born |-> I[p].born]]
  PROVE  NodeSound(n, Put(I, p, f), L, c, s, T, B)
<1> DEFINE J == Put(I, p, f)
<1>1. NodeSound(n, I, K, c, s, T, B)
  BY WiderNode
<1>2. EntrySound(n, p, I[p], c, s, T, B) /\ I[p] \in KcpInfo /\ p \in Nodes
  BY <1>1 DEF NodeSound, EntrySound
<1>3. /\ f \in KcpInfo /\ f.state = "ACK" /\ f.conv = v /\ f.sponsor = I[p].sponsor
  OBVIOUS
<1>4. EntrySound(n, p, f, c, s, T, B) /\ ~ Own(n, p, f)
  <2>1. StateSound(n, p, f, T, B) /\ ~ Own(n, p, f)
    BY <1>3 DEF StateSound, Own
  <2> QED BY <1>2, <1>3, <2>1 DEF EntrySound
<1>5. n \notin Passive
  BY DEF Passive
<1>6. /\ DOMAIN J = DOMAIN I /\ J[p] = f /\ \A q \in DOMAIN I : q # p => J[q] = I[q]
  BY DEF Put
<1>7. DOMAIN L = DOMAIN K \cup {v} /\ \A k \in DOMAIN L : L[k] \in Pointer
  <2>1. [peer |-> p, born |-> I[p].born] \in Pointer
    BY <1>2 DEF Pointer, KcpInfo
  <2> QED BY <2>1 DEF NodeSound
<1> HIDE DEF J
<1>8. NodeSound(n, J, L, c, s, T, B)
  <2>1. \A q \in DOMAIN J : EntrySound(n, q, J[q], c, s, T, B)
    BY <1>1, <1>4, <1>6 DEF NodeSound
  <2>2. \A q, r \in DOMAIN J :
          Own(n, q, J[q]) /\ Own(n, r, J[r]) /\ J[q].conv = J[r].conv => q = r
    BY <1>1, <1>4, <1>6 DEF NodeSound
  <2>3. DOMAIN J \in SUBSET Nodes /\ DOMAIN L \in SUBSET Nat
    BY <1>1, <1>6, <1>7 DEF NodeSound
  <2> QED BY <1>1, <1>5, <1>7, <2>1, <2>2, <2>3 DEF NodeSound
<1> QED BY <1>8 DEF J

(* OnAck: the id is announced once, and nothing else is registered under it. *)
LEMMA LinkedNode ==
  ASSUME NEW n, NEW I, NEW K, NEW c, NEW s, NEW T, NEW A, NodeSound(n, I, K, c, s, T, A),
         NEW p \in DOMAIN I, I[p].state = "SYNACK", NEW v, v = I[p].conv, <<n, v>> \in A[p],
         NEW f \in KcpInfo, f.state = "Link", f.conv = v, f.sponsor = I[p].sponsor,
         f.born = I[p].born, f.kcp # 0, f.k2 = v,
         NEW L, L = [k \in DOMAIN K \cup {v} |->
                       IF k \in DOMAIN K THEN K[k] ELSE [peer |-> p, born |-> I[p].born]]
  PROVE  NodeSound(n, Put(I, p, f), L, c, s, T \cup {<<"LinkIncoming", v>>}, A)
<1> DEFINE J == Put(I, p, f)
           U == T \cup {<<"LinkIncoming", v>>}
<1>1. /\ EntrySound(n, p, I[p], c, s, T, A) /\ Own(n, p, I[p]) /\ OwnSound(I[p], c, s)
      /\ I[p] \in KcpInfo /\ p \in Nodes /\ v \in Nat /\ I[p].kcp = 0 /\ I[p].born \in Nat
      /\ <<p, n>> \in Dials
  BY DEF NodeSound, EntrySound, Own, StateSound, KcpInfo
<1>2. /\ f \in KcpInfo /\ f.state = "Link" /\ f.conv = v /\ f.sponsor = I[p].sponsor
      /\ f.born = I[p].born /\ f.kcp # 0 /\ f.k2 = v
  OBVIOUS
<1>3. /\ DOMAIN J = DOMAIN I /\ J[p] = f /\ \A q \in DOMAIN I : q # p => J[q] = I[q]
  BY DEF Put
<1> HIDE DEF J
<1>4. \A k : (<<"LinkIncoming", k>> \in U <=> <<"LinkIncoming", k>> \in T \/ k = v)
             /\ (<<"LinkAccepted", k>> \in U <=> <<"LinkAccepted", k>> \in T)
             /\ (<<"LinkLost", k>> \in U <=> <<"LinkLost", k>> \in T)
  OBVIOUS
<1>5. U \in SUBSET (Messages \X Nat)
  BY <1>1 DEF NodeSound, ToldSound, Messages
<1> HIDE DEF U
<1>6. ToldSound(c, s, U)
  BY <1>1, <1>4, <1>5 DEF NodeSound, ToldSound, OwnSound
<1>7. EntrySound(n, p, f, c, s, U, A) /\ (Own(n, p, f) => Own(n, p, I[p]))
  <2>1. OwnSound(f, c, s)
    BY <1>1, <1>2 DEF OwnSound
  <2>2. StateSound(n, p, f, U, A)
    BY <1>1, <1>2, <1>4 DEF StateSound
  <2>3. EntrySound(n, p, f, c, s, U, A)
    BY <1>1, <1>2, <2>1, <2>2 DEF EntrySound, OwnSound
  <2> QED BY <1>1, <2>3
<1>8. \A q \in DOMAIN I : q # p => EntrySound(n, q, I[q], c, s, U, A)
  <2> SUFFICES ASSUME NEW q \in DOMAIN I, q # p
               PROVE  EntrySound(n, q, I[q], c, s, U, A)
    OBVIOUS
  <2>1. EntrySound(n, q, I[q], c, s, T, A)
    BY DEF NodeSound
  <2>2. I[q].state = "SYNACK" => I[q].conv # v
    BY <1>1 DEF NodeSound, Own
  <2>3. StateSound(n, q, I[q], U, A)
    BY <1>4, <2>1, <2>2 DEF EntrySound, StateSound
  <2> QED BY <2>1, <2>3 DEF EntrySound
<1>9. n \in Passive => KeysSound(J, L)
  <2> SUFFICES ASSUME n \in Passive
               PROVE  KeysSound(J, L)
    OBVIOUS
  <2>1. KeysSound(I, K) /\ \A q \in DOMAIN I : q # p => I[q].conv # v
    BY <1>1 DEF NodeSound, Own, Passive
  <2>2. v \notin DOMAIN K
    BY <1>1, <2>1 DEF KeysSound
  <2>3. /\ DOMAIN L = DOMAIN K \cup {v} /\ L[v] = [peer |-> p, born |-> I[p].born]
        /\ \A k \in DOMAIN K : L[k] = K[k]
    BY <2>2
  <2>4. \A q \in DOMAIN J : J[q].kcp # 0 =>
          J[q].conv \in DOMAIN L /\ L[J[q].conv] = [peer |-> q, born |-> J[q].born]
    <3> SUFFICES ASSUME NEW q \in DOMAIN J, J[q].kcp # 0
                 PROVE  J[q].conv \in DOMAIN L /\ L[J[q].conv] = [peer |-> q, born |-> J[q].born]
      OBVIOUS
    <3>1. CASE q = p
      BY <1>2, <1>3, <2>3, <3>1
    <3>2. CASE q # p
      <4>1. q \in DOMAIN I /\ J[q] = I[q]
        BY <1>3, <3>2
      <4> QED BY <2>1, <2>3, <4>1 DEF KeysSound
    <3> QED BY <3>1, <3>2
  <2>5. \A k \in DOMAIN L : \E q \in DOMAIN J : J[q].kcp # 0 /\ J[q].conv = k
    <3> TAKE k \in DOMAIN L
    <3>1. CASE k = v
      BY <1>2, <1>3, <3>1
    <3>2. CASE k # v
      <4>1. PICK q \in DOMAIN I : I[q].kcp # 0 /\ I[q].conv = k
        BY <2>1, <2>3, <3>2 DEF KeysSound
      <4>2. q # p
        BY <3>2, <4>1
      <4> QED BY <1>3, <4>1, <4>2
    <3> QED BY <3>1, <3>2
  <2> QED BY <2>4, <2>5 DEF KeysSound
<1>10. NodeSound(n, J, L, c, s, U, A)
  <2>1. \A q \in DOMAIN J : EntrySound(n, q, J[q], c, s, U, A)
    BY <1>3, <1>7, <1>8
  <2>2. \A q, r \in DOMAIN J :
          Own(n, q, J[q]) /\ Own(n, r, J[r]) /\ J[q].conv = J[r].conv => q = r
    <3>1. \A q \in DOMAIN J : J[q].conv = I[q].conv /\ (Own(n, q, J[q]) => Own(n, q, I[q]))
      BY <1>2, <1>3, <1>7
    <3> QED BY <1>3, <3>1 DEF NodeSound
  <2>3. DOMAIN L \in SUBSET Nat /\ \A k \in DOMAIN L : L[k] \in Pointer
    <3>1. [peer |-> p, born |-> I[p].born] \in Pointer
      BY <1>1 DEF Pointer
    <3> QED BY <1>1, <3>1 DEF NodeSound
  <2> QED BY <1>3, <1>6, <1>9, <2>1, <2>2, <2>3 DEF NodeSound
<1> QED BY <1>10 DEF J, U

(* OnLink: on the side that dialed.                                        *)
LEMMA AcceptedLinkNode ==
  ASSUME NEW n, NEW I, NEW K, NEW c, NEW s, NEW T, NEW A, NodeSound(n, I, K, c, s, T, A),
         NEW p \in DOMAIN I, <<n, p>> \in Dials,
         NEW f, f = LinkAccepted(I[p])
  PROVE  NodeSound(n, Put(I, p, f), K, c, s, T \cup {<<"LinkAccepted", I[p].conv>>}, A)
<1> DEFINE J == Put(I, p, f)
           v == I[p].conv
           U == T \cup {<<"LinkAccepted", v>>}
<1>1. EntrySound(n, p, I[p], c, s, T, A) /\ I[p] \in KcpInfo /\ p \in Nodes /\ v \in Nat
  BY DEF NodeSound, EntrySound, KcpInfo
<1>2. f \in KcpInfo /\ f.state = "Link" /\ f.conv = v /\ f.sponsor = I[p].sponsor
  BY <1>1, AcceptedInfo
<1>3. /\ DOMAIN J = DOMAIN I /\ J[p] = f /\ \A q \in DOMAIN I : q # p => J[q] = I[q]
  BY DEF Put
<1>4. \A k : (<<"LinkIncoming", k>> \in U <=> <<"LinkIncoming", k>> \in T)
             /\ (<<"LinkAccepted", k>> \in U <=> <<"LinkAccepted", k>> \in T \/ k = v)
             /\ (<<"LinkLost", k>> \in U <=> <<"LinkLost", k>> \in T)
  OBVIOUS
<1>5. U \in SUBSET (Messages \X Nat)
  BY <1>1 DEF NodeSound, ToldSound, Messages
<1>6. n \notin Passive
  BY DEF Passive
<1> HIDE DEF J, U
<1>7. ToldSound(c, s, U)
  BY <1>4, <1>5 DEF NodeSound, ToldSound
<1>8. EntrySound(n, p, f, c, s, U, A) /\ ~ Own(n, p, f)
  <2>1. StateSound(n, p, f, U, A) /\ ~ Own(n, p, f)
    BY <1>2, <1>4 DEF StateSound, Own
  <2> QED BY <1>1, <1>2, <2>1 DEF EntrySound
<1>9. \A q \in DOMAIN I : q # p => EntrySound(n, q, I[q], c, s, U, A)
  BY <1>4 DEF NodeSound, EntrySound, StateSound
<1>10. NodeSound(n, J, K, c, s, U, A)
  BY <1>3, <1>6, <1>7, <1>8, <1>9 DEF NodeSound
<1> QED BY <1>10 DEF J, U, v

LEMMA Bounds ==
  MaxCalls \in Nat /\ MaxDup \in Nat /\ MaxRestarts \in Nat
BY KkConnAssumption

(* What only touches an entry.                                             *)
LEMMA Touches ==
  ASSUME NEW e \in KcpInfo
  PROVE  /\ Touch(e, [e EXCEPT !.sendAge = 0])
         /\ Touch(e, [e EXCEPT !.sendAge = 0, !.recAge = 0])
         /\ Touch(e, [e EXCEPT !.state = "AutoDisConnect"])
         /\ Touch(e, [e EXCEPT !.state = "AutoDisConnect", !.sendAge = 0])
<1>1. 0 \in 0 .. MaxAge /\ "AutoDisConnect" \in States
  BY MaxAgeIs DEF States
<1>2. Touch(e, [e EXCEPT !.sendAge = 0])
  BY <1>1 DEF Touch, KcpInfo
<1>3. Touch(e, [e EXCEPT !.sendAge = 0, !.recAge = 0])
  BY <1>1 DEF Touch, KcpInfo
<1>4. Touch(e, [e EXCEPT !.state = "AutoDisConnect"])
  BY <1>1 DEF Touch, KcpInfo
<1>5. Touch(e, [e EXCEPT !.state = "AutoDisConnect", !.sendAge = 0])
  BY <1>1 DEF Touch, KcpInfo
<1> QED BY <1>2, <1>3, <1>4, <1>5

LEMMA AgeOnly ==
  ASSUME NEW e \in KcpInfo
  PROVE  LET h == [e EXCEPT !.sendAge = 0] IN h.conv = e.conv /\ h.state = e.state
BY DEF KcpInfo

LEMMA RetryTouches ==
  ASSUME NEW e \in KcpInfo, e.handShake \in {0, 1}
  PROVE  Touch(e, [e EXCEPT !.handShake = @ + 1, !.sendAge = 0, !.recAge = 0])
<1>1. 0 \in 0 .. MaxAge /\ e.handShake + 1 \in 0 .. 2
  BY MaxAgeIs
<1> QED BY <1>1 DEF Touch, KcpInfo

LEMMA HeardTouches ==
  ASSUME NEW e \in KcpInfo, NEW h \in SUBSET Nat
  PROVE  Touch(e, [e EXCEPT !.sendAge = 0, !.recAge = 0, !.heard = h])
<1>1. 0 \in 0 .. MaxAge
  BY MaxAgeIs
<1> QED BY <1>1 DEF Touch, KcpInfo

LEMMA OlderTouches ==
  ASSUME NEW e \in KcpInfo
  PROVE  Touch(e, Older(e))
<1> DEFINE a == IF e.sendAge < MaxAge THEN e.sendAge + 1 ELSE e.sendAge
           b == IF e.recAge < MaxAge /\ e.sponsor THEN e.recAge + 1 ELSE e.recAge
<1>1. e.sendAge \in 0 .. MaxAge /\ e.recAge \in 0 .. MaxAge /\ MaxAge \in Nat
  BY MaxAgeIs DEF KcpInfo
<1>2. a \in 0 .. MaxAge /\ b \in 0 .. MaxAge
  BY <1>1
<1>3. Older(e) = [e EXCEPT !.sendAge = a, !.recAge = b]
  BY DEF Older
<1> HIDE DEF a, b
<1> QED BY <1>2, <1>3 DEF Touch, KcpInfo

-----------------------------------------------------------------------------
(* A step changes one endpoint.                                            *)

AtNode(n) ==
  NodeSound(n, info'[n], key2'[n], m_CurConv'[n], syn'[n], told'[n], acked')

Others(n) ==
  \A q \in Nodes \ {n} :
    /\ info'[q] = info[q] /\ key2'[q] = key2[q] /\ m_CurConv'[q] = m_CurConv[q]
    /\ syn'[q] = syn[q] /\ told'[q] = told[q]

Grows == \A q \in Nodes : acked[q] \subseteq acked'[q]

NetKept == \A m \in net' : m \in net \/ MsgSound(m, acked')

LEMMA StepKeeps ==
  ASSUME IInv, NEW n \in Nodes, Shape', Grows, Others(n), AtNode(n), NetKept, CmdsSound'
  PROVE  IInv'
<1>1. \A q \in Nodes : Local(q)'
  <2> SUFFICES ASSUME NEW q \in Nodes
               PROVE  NodeSound(q, info'[q], key2'[q], m_CurConv'[q], syn'[q], told'[q], acked')
    BY DEF Local
  <2>1. CASE q = n
    BY <2>1 DEF AtNode
  <2>2. CASE q # n
    <3>1. NodeSound(q, info[q], key2[q], m_CurConv[q], syn[q], told[q], acked)
      BY DEF IInv, Local
    <3>2. NodeSound(q, info[q], key2[q], m_CurConv[q], syn[q], told[q], acked')
      BY <3>1, WiderNode DEF Grows
    <3> QED BY <2>2, <3>2 DEF Others
  <2> QED BY <2>1, <2>2
<1>2. \A m \in net' : MsgSound(m, acked')
  BY WiderMsg DEF IInv, NetKept, Grows
<1> QED BY <1>1, <1>2 DEF IInv

LEMMA CmdsKept ==
  ASSUME IInv, Grows, cmds' = [q \in Nodes |-> cmds'[q]],
         \A q \in Nodes :
           \/ cmds'[q] = cmds[q] \/ cmds'[q] = <<>>
           \/ cmds[q] # <<>> /\ cmds'[q] = Tail(cmds[q])
           \/ \E m : m.kind # "ACK" /\ MsgSound(m, acked') /\ cmds'[q] = Append(cmds[q], m)
  PROVE  CmdsSound' /\ cmds' \in [Nodes -> Seq(Datagram)]
<1>0. cmds \in [Nodes -> Seq(Datagram)]
  BY DEF IInv, Shape
<1>1. \A q \in Nodes : \A i \in DOMAIN cmds[q] :
        cmds[q][i].kind # "ACK" /\ MsgSound(cmds[q][i], acked')
  BY WiderMsg DEF IInv, CmdsSound, Grows
<1>2. \A q \in Nodes : /\ cmds'[q] \in Seq(Datagram)
                       /\ \A i \in DOMAIN cmds'[q] :
                            cmds'[q][i].kind # "ACK" /\ MsgSound(cmds'[q][i], acked')
  <2> TAKE q \in Nodes
  <2>1. cmds[q] \in Seq(Datagram)
    BY <1>0
  <2>2. CASE cmds'[q] = cmds[q]
    BY <1>1, <2>1, <2>2
  <2>3. CASE cmds'[q] = <<>>
    BY <2>3
  <2>4. CASE cmds[q] # <<>> /\ cmds'[q] = Tail(cmds[q])
    <3>1. \A i \in DOMAIN cmds'[q] : i + 1 \in DOMAIN cmds[q] /\ cmds'[q][i] = cmds[q][i + 1]
      BY <2>1, <2>4
    <3> QED BY <1>1, <2>1, <2>4, <3>1
  <2>5. CASE \E m : m.kind # "ACK" /\ MsgSound(m, acked') /\ cmds'[q] = Append(cmds[q], m)
    <3>1. PICK m : m.kind # "ACK" /\ MsgSound(m, acked') /\ cmds'[q] = Append(cmds[q], m)
      BY <2>5
    <3>2. m \in Datagram
      BY <3>1 DEF MsgSound
    <3>3. \A i \in DOMAIN cmds'[q] :
            (i \in DOMAIN cmds[q] /\ cmds'[q][i] = cmds[q][i]) \/ cmds'[q][i] = m
      BY <2>1, <3>1, <3>2
    <3> QED BY <1>1, <2>1, <3>1, <3>2, <3>3
  <2> QED BY <2>2, <2>3, <2>4, <2>5
<1>3. CmdsSound'
  BY <1>2 DEF CmdsSound
<1> QED BY <1>2, <1>3

LEMMA SameCmds ==
  ASSUME IInv, Grows, cmds' = cmds
  PROVE  CmdsSound' /\ cmds' \in [Nodes -> Seq(Datagram)]
<1>1. \A q \in Nodes : \A i \in DOMAIN cmds[q] :
        cmds[q][i].kind # "ACK" /\ MsgSound(cmds[q][i], acked')
  BY WiderMsg DEF IInv, CmdsSound, Grows
<1>2. CmdsSound'
  BY <1>1 DEF CmdsSound
<1> QED BY <1>2 DEF IInv, Shape

LEMMA PostIs == \A in, sent : Post(in, sent) \subseteq in \cup sent
BY DEF Post

LEMMA SetInfoIs ==
  ASSUME NEW n \in Nodes, DOMAIN info = Nodes, NEW p, NEW e, SetInfo(n, p, e)
  PROVE  /\ DOMAIN info' = Nodes /\ info'[n] = Put(info[n], p, e)
         /\ \A q \in Nodes \ {n} : info'[q] = info[q]
BY DEF SetInfo, Put

LEMMA DeliverIs ==
  ASSUME IInv, NEW n \in Nodes, NEW m, NEW kind, NEW left, Deliver(n, m, kind, left)
  PROVE  /\ m \in net /\ m.dst = n /\ m.kind = kind /\ MsgSound(m, acked)
         /\ m.src \in Nodes /\ m.conv \in Nat /\ m.kcp \in Nat
         /\ left \subseteq net /\ syn[n] = None /\ up[n] /\ dups' \in 0 .. MaxDup
<1>1. MaxDup \in Nat /\ dups \in 0 .. MaxDup
  BY KkConnAssumption DEF IInv, Shape
<1>2. m \in net /\ m.dst = n /\ m.kind = kind /\ MsgSound(m, acked)
  BY DEF Deliver, IInv
<1>3. left \subseteq net /\ syn[n] = None /\ up[n] /\ dups' \in 0 .. MaxDup
  BY <1>1 DEF Deliver
<1> QED BY <1>2, <1>3 DEF MsgSound, Datagram

\* A datagram that anyone may send.
LEMMA PlainMsg ==
  ASSUME NEW n \in Nodes, NEW p \in Nodes, NEW v \in Nat, NEW A,
         NEW kind \in {"KcpHeart", "DisConnect", "UnLink", "KckLost"}
  PROVE  MsgSound(Control(n, p, kind, v), A)
BY DEF MsgSound, Datagram, Kinds, Control

LEMMA TouchStep ==
  ASSUME IInv, NEW n \in Nodes, NEW p \in DOMAIN info[n], NEW e, Touch(info[n][p], e),
         SetInfo(n, p, e), UNCHANGED <<m_CurConv, key2, syn, told, acked>>
  PROVE  AtNode(n) /\ Others(n) /\ DOMAIN info' = Nodes
<1>1. /\ DOMAIN info' = Nodes /\ info'[n] = Put(info[n], p, e)
      /\ \A q \in Nodes \ {n} : info'[q] = info[q]
  BY SetInfoIs DEF IInv, Shape
<1>2. NodeSound(n, info[n], key2[n], m_CurConv[n], syn[n], told[n], acked)
  BY DEF IInv, Local
<1> DEFINE J == Put(info[n], p, e)
<1>3. DOMAIN J = DOMAIN info[n] /\ \A q \in DOMAIN info[n] : J[q] = info[n][q] \/ Touch(info[n][q], J[q])
  BY DEF Put
<1> HIDE DEF J
<1>4. NodeSound(n, J, key2[n], m_CurConv[n], syn[n], told[n], acked)
  BY <1>2, <1>3, TouchedNode
<1> QED BY <1>1, <1>4 DEF J, AtNode, Others

LEMMA InfoIs ==
  ASSUME IInv, NEW n \in Nodes, NEW p \in DOMAIN info[n]
  PROVE  p \in Nodes /\ info[n][p] \in KcpInfo
BY DEF IInv, Local, NodeSound, EntrySound

-----------------------------------------------------------------------------
(* The API.                                                                *)

LEMMA ConnectKeeps ==
  ASSUME IInv, NEW n \in Nodes, NEW p \in Nodes, Connect(n, p)
  PROVE  IInv'
<1> DEFINE v == m_CurConv[n] + 1
           m == Control(n, p, "SYN", v)
<1>1. /\ <<n, p>> \in Dials /\ p \notin DOMAIN info[n] /\ v \in Nat
      /\ NodeSound(n, info[n], key2[n], m_CurConv[n], syn[n], told[n], acked)
  BY DEF Connect, HasInfo, IInv, Local, NodeSound
<1>2. /\ DOMAIN info' = Nodes /\ info'[n] = Put(info[n], p, NewInfo(p, v, "SYN", TRUE))
      /\ \A q \in Nodes \ {n} : info'[q] = info[q]
  <2>1. SetInfo(n, p, NewInfo(p, v, "SYN", TRUE))
    BY DEF Connect
  <2> HIDE DEF v
  <2> QED BY <2>1, SetInfoIs DEF IInv, Shape
<1>3. AtNode(n)
  <2>1. NodeSound(n, Put(info[n], p, NewInfo(p, v, "SYN", TRUE)), key2[n], v, syn[n], told[n], acked)
    BY <1>1, DialedNode
  <2>2. /\ m_CurConv'[n] = v /\ key2' = key2 /\ syn' = syn /\ told' = told /\ acked' = acked
    BY DEF Connect, histVars, IInv, Shape
  <2> HIDE DEF v
  <2> QED BY <1>2, <2>1, <2>2 DEF AtNode
<1>4. Grows /\ Others(n) /\ NetKept
  BY <1>2 DEF Connect, histVars, Grows, Others, NetKept, IInv, Shape
<1>5. MsgSound(m, acked') /\ m.kind # "ACK"
  BY <1>1 DEF MsgSound, Control, Datagram, Kinds
<1>6. cmds' = [q \in Nodes |-> cmds'[q]] /\ \A q \in Nodes : cmds'[q] = cmds[q] \/ cmds'[q] = Append(cmds[q], m)
  <2>1. cmds' = [cmds EXCEPT ![n] = Append(@, m)]
    BY DEF Connect
  <2> HIDE DEF m
  <2> QED BY <2>1 DEF IInv, Shape
<1>7. CmdsSound' /\ cmds' \in [Nodes -> Seq(Datagram)]
  <2> HIDE DEF m
  <2> QED BY <1>4, <1>5, <1>6, CmdsKept
<1>8. Shape'
  <2>1. calls' \in 0 .. MaxCalls
    BY Bounds DEF Connect, MayCall, IInv, Shape
  <2>2. m_CurConv' \in [Nodes -> Nat]
    BY <1>1 DEF Connect, IInv, Shape
  <2>3. /\ up' = up /\ key2' = key2 /\ blocks' = blocks /\ syn' = syn /\ dups' = dups
        /\ restarts' = restarts /\ told' = told /\ acked' = acked /\ aborted' = aborted
    BY DEF Connect, histVars
  <2> QED BY <1>2, <1>7, <2>1, <2>2, <2>3 DEF IInv, Shape
<1> QED BY <1>3, <1>4, <1>7, <1>8, StepKeeps

\* A disconnect notice.
LEMMA NoticeQueued ==
  ASSUME IInv, NEW n \in Nodes, NEW p \in Nodes, NEW v \in Nat, Grows,
         cmds' = [cmds EXCEPT ![n] = Append(@, Control(n, p, "DisConnect", v))]
  PROVE  CmdsSound' /\ cmds' \in [Nodes -> Seq(Datagram)]
<1> DEFINE m == Control(n, p, "DisConnect", v)
<1>1. MsgSound(m, acked') /\ m.kind # "ACK"
  BY PlainMsg DEF Control
<1> HIDE DEF m
<1>2. cmds' = [cmds EXCEPT ![n] = Append(@, m)]
  BY DEF m
<1>3. cmds' = [q \in Nodes |-> cmds'[q]] /\ \A q \in Nodes : cmds'[q] = cmds[q] \/ cmds'[q] = Append(cmds[q], m)
  BY <1>2 DEF IInv, Shape
<1> QED BY <1>1, <1>3, CmdsKept

LEMMA DisConnectIdKeeps ==
  ASSUME IInv, NEW n \in Nodes, NEW k \in DOMAIN key2[n], DisConnectId(n, k)
  PROVE  IInv'
<1> DEFINE p == key2[n][k].peer
           v == info[n][p].conv
<1>1. p \in DOMAIN info[n] /\ p \in Nodes /\ v \in Nat
  BY InfoIs DEF DisConnectId, Alive, HasInfo, KcpInfo
<1>2. /\ info' = info /\ key2' = key2 /\ m_CurConv' = m_CurConv /\ syn' = syn /\ told' = told
      /\ acked' = acked /\ net' = net /\ up' = up /\ blocks' = blocks /\ dups' = dups
      /\ restarts' = restarts /\ aborted' = aborted
      /\ cmds' = [cmds EXCEPT ![n] = Append(@, Control(n, p, "DisConnect", v))]
  BY DEF DisConnectId, mapVars, histVars
<1>3. Grows /\ Others(n) /\ NetKept /\ AtNode(n)
  BY <1>2 DEF Grows, Others, NetKept, AtNode, IInv, Local
<1>4. CmdsSound' /\ cmds' \in [Nodes -> Seq(Datagram)]
  <2> HIDE DEF p, v
  <2> QED BY <1>1, <1>2, <1>3, NoticeQueued
<1>5. calls' \in 0 .. MaxCalls
  BY Bounds DEF DisConnectId, MayCall, IInv, Shape
<1>6. Shape'
  BY <1>2, <1>4, <1>5 DEF IInv, Shape
<1> QED BY <1>3, <1>4, <1>6, StepKeeps

LEMMA DisConnectAddrKeeps ==
  ASSUME IInv, NEW n \in Nodes, NEW p \in Nodes, DisConnectAddr(n, p)
  PROVE  IInv'
<1> DEFINE e == info[n][p]
           f == [e EXCEPT !.state = "AutoDisConnect", !.sendAge = 0]
           v == e.conv
<1>1. p \in DOMAIN info[n] /\ e \in KcpInfo /\ v \in Nat
  BY InfoIs DEF DisConnectAddr, HasInfo, KcpInfo
<1>2. /\ SetInfo(n, p, f) /\ key2' = key2 /\ m_CurConv' = m_CurConv /\ syn' = syn /\ told' = told
      /\ acked' = acked /\ net' = net /\ up' = up /\ blocks' = blocks /\ dups' = dups
      /\ restarts' = restarts /\ aborted' = aborted
      /\ cmds' = [cmds EXCEPT ![n] = Append(@, Control(n, p, "DisConnect", v))]
  BY DEF DisConnectAddr, histVars
<1>3. Touch(e, f)
  BY <1>1, Touches
<1>4. AtNode(n) /\ Others(n) /\ DOMAIN info' = Nodes
  <2> HIDE DEF f
  <2> QED BY <1>1, <1>2, <1>3, TouchStep
<1>5. Grows /\ NetKept
  BY <1>2 DEF Grows, NetKept
<1>6. CmdsSound' /\ cmds' \in [Nodes -> Seq(Datagram)]
  <2> HIDE DEF v
  <2> QED BY <1>1, <1>2, <1>5, NoticeQueued
<1>7. calls' \in 0 .. MaxCalls
  BY Bounds DEF DisConnectAddr, MayCall, IInv, Shape
<1>8. Shape'
  BY <1>2, <1>4, <1>6, <1>7 DEF IInv, Shape
<1> QED BY <1>4, <1>5, <1>6, <1>8, StepKeeps

LEMMA StablySendKeeps ==
  ASSUME IInv, NEW n \in Nodes, NEW k \in DOMAIN key2[n], StablySend(n, k)
  PROVE  IInv'
<1> DEFINE p == key2[n][k].peer
           e == info[n][p]
           f == [e EXCEPT !.sendAge = 0]
<1>1. p \in DOMAIN info[n] /\ e \in KcpInfo
  BY InfoIs DEF StablySend, Alive, HasInfo
<1>2. /\ SetInfo(n, p, f) /\ key2' = key2 /\ m_CurConv' = m_CurConv /\ syn' = syn /\ told' = told
      /\ acked' = acked /\ net' = net /\ up' = up /\ blocks' = blocks /\ dups' = dups
      /\ restarts' = restarts /\ aborted' = aborted /\ cmds' = cmds /\ calls' = calls
  BY DEF StablySend, histVars
<1>3. Touch(e, f)
  BY <1>1, Touches
<1>4. AtNode(n) /\ Others(n) /\ DOMAIN info' = Nodes
  <2> HIDE DEF f, p
  <2> QED BY <1>1, <1>2, <1>3, TouchStep
<1>5. Grows /\ NetKept
  BY <1>2 DEF Grows, NetKept
<1>6. CmdsSound' /\ cmds' \in [Nodes -> Seq(Datagram)]
  BY <1>2, <1>5, SameCmds
<1>7. Shape'
  BY <1>2, <1>4, <1>6 DEF IInv, Shape
<1> QED BY <1>4, <1>5, <1>6, <1>7, StepKeeps

LEMMA HandleCmdKeeps ==
  ASSUME IInv, NEW n \in Nodes, HandleCmd(n)
  PROVE  IInv'
<1>1. /\ info' = info /\ key2' = key2 /\ m_CurConv' = m_CurConv /\ syn' = syn /\ told' = told
      /\ acked' = acked /\ up' = up /\ blocks' = blocks /\ dups' = dups
      /\ restarts' = restarts /\ aborted' = aborted /\ calls' = calls
      /\ cmds' = [cmds EXCEPT ![n] = Tail(@)] /\ cmds[n] # <<>>
      /\ net' = Post(net, {Head(cmds[n])})
  BY DEF HandleCmd, mapVars, histVars
<1>2. MsgSound(Head(cmds[n]), acked')
  <2>1. cmds[n] \in Seq(Datagram)
    BY DEF IInv, Shape
  <2>2. 1 \in DOMAIN cmds[n] /\ Head(cmds[n]) = cmds[n][1]
    BY <1>1, <2>1
  <2> QED BY <1>1, <2>2 DEF IInv, CmdsSound
<1>3. Grows /\ Others(n) /\ NetKept /\ AtNode(n)
  <2>1. \A m \in net' : m \in net \/ m = Head(cmds[n])
    BY <1>1, PostIs
  <2> QED BY <1>1, <1>2, <2>1 DEF Grows, Others, NetKept, AtNode, IInv, Local
<1>4. CmdsSound' /\ cmds' \in [Nodes -> Seq(Datagram)]
  <2>1. cmds' = [q \in Nodes |-> cmds'[q]]
    BY <1>1 DEF IInv, Shape
  <2>2. \A q \in Nodes : cmds'[q] = cmds[q] \/ (cmds[q] # <<>> /\ cmds'[q] = Tail(cmds[q]))
    BY <1>1 DEF IInv, Shape
  <2> QED BY <1>3, <2>1, <2>2, CmdsKept
<1>5. Shape'
  BY <1>1, <1>4 DEF IInv, Shape
<1> QED BY <1>3, <1>4, <1>5, StepKeeps

-----------------------------------------------------------------------------
(* The threads.                                                            *)

\* FreeKcpInfo.
LEMMA FreeStep ==
  ASSUME IInv, NEW n \in Nodes, NEW p \in DOMAIN info[n], FreeKcpInfo(n, p),
         UNCHANGED <<m_CurConv, syn, acked>>
  PROVE  /\ AtNode(n) /\ Others(n)
         /\ DOMAIN info' = Nodes /\ DOMAIN key2' = Nodes /\ DOMAIN told' = Nodes
<1>1. NodeSound(n, info[n], key2[n], m_CurConv[n], syn[n], told[n], acked)
  BY DEF IInv, Local
<1> DEFINE U == told[n] \cup {<<FreeMessage(info[n][p].state), info[n][p].conv>>}
<1>2. NodeSound(n, Without(info[n], p), Without(key2[n], info[n][p].k2), m_CurConv[n], syn[n],
                U, acked)
  BY <1>1, FreedNode
<1>3. /\ info' = [info EXCEPT ![n] = Without(@, p)]
      /\ key2' = [key2 EXCEPT ![n] = Without(@, info[n][p].k2)]
      /\ told' = [told EXCEPT ![n] = U]
  BY DEF FreeKcpInfo, Key1Del, Tell
<1>4. DOMAIN info = Nodes /\ DOMAIN key2 = Nodes /\ DOMAIN told = Nodes
  BY DEF IInv, Shape
<1> HIDE DEF U
<1>5. /\ info'[n] = Without(info[n], p) /\ key2'[n] = Without(key2[n], info[n][p].k2)
      /\ told'[n] = U
      /\ DOMAIN info' = Nodes /\ DOMAIN key2' = Nodes /\ DOMAIN told' = Nodes
  BY <1>3, <1>4
<1>6. Others(n)
  BY <1>3, <1>4 DEF Others
<1> QED BY <1>2, <1>5, <1>6 DEF AtNode

LEMMA ConnMgrKeeps ==
  ASSUME IInv, NEW n \in Nodes, NEW p \in Nodes, ConnMgr(n, p)
  PROVE  IInv'
<1> DEFINE e == info[n][p]
           D == Data(n, p)
<1>1. p \in DOMAIN info[n] /\ e \in KcpInfo
  BY InfoIs DEF ConnMgr, HasInfo
<1>2. /\ m_CurConv' = m_CurConv /\ syn' = syn /\ acked' = acked /\ up' = up /\ blocks' = blocks
      /\ dups' = dups /\ restarts' = restarts /\ aborted' = aborted /\ cmds' = cmds
      /\ calls' = calls
  BY DEF ConnMgr
<1>3. Grows /\ CmdsSound' /\ cmds' \in [Nodes -> Seq(Datagram)]
  <2>1. Grows
    BY <1>2 DEF Grows
  <2> QED BY <1>2, <2>1, SameCmds
<1>4. MsgSound(D, acked')
  BY <1>1 DEF MsgSound, Data, Datagram, Kinds, KcpInfo
<1> HIDE DEF D
<1>5. SUFFICES AtNode(n) /\ Others(n) /\ NetKept
               /\ DOMAIN info' = Nodes /\ DOMAIN key2' = Nodes /\ DOMAIN told' = Nodes
  <2>1. Shape'
    BY <1>2, <1>3, <1>5 DEF IInv, Shape
  <2> QED BY <1>3, <1>5, <2>1, StepKeeps
<1>6. DOMAIN info = Nodes /\ DOMAIN key2 = Nodes /\ DOMAIN told = Nodes
  BY DEF IInv, Shape
<1>7. PICK out \in SUBSET {D} :
        \/ /\ FreeKcpInfo(n, p)
           /\ net' = Post(net, out)
        \/ /\ Retry(e)
           /\ SetInfo(n, p, [e EXCEPT !.handShake = @ + 1, !.sendAge = 0, !.recAge = 0])
           /\ net' = Post(Post(net, out), {Control(n, p, e.state, e.conv)})
           /\ UNCHANGED <<key2, told>>
        \/ /\ HeartDue(e)
           /\ SetInfo(n, p, AfterHeart(e))
           /\ net' = Post(Post(net, out), {Control(n, p, "KcpHeart", e.conv)})
           /\ UNCHANGED <<key2, told>>
        \/ /\ net' = Post(net, out)
           /\ UNCHANGED <<info, key2, told>>
  BY DEF ConnMgr, D
<1>8. \A m \in net \cup out : m \in net \/ MsgSound(m, acked')
  BY <1>4, <1>7
<1>9. CASE FreeKcpInfo(n, p) /\ net' = Post(net, out)
  <2>1. NetKept
    BY <1>8, <1>9, PostIs DEF NetKept
  <2> QED BY <1>1, <1>2, <1>9, <2>1, FreeStep
<1>10. CASE /\ Retry(e)
            /\ SetInfo(n, p, [e EXCEPT !.handShake = @ + 1, !.sendAge = 0, !.recAge = 0])
            /\ net' = Post(Post(net, out), {Control(n, p, e.state, e.conv)})
            /\ UNCHANGED <<key2, told>>
  <2> DEFINE f == [e EXCEPT !.handShake = @ + 1, !.sendAge = 0, !.recAge = 0]
  <2>1. e.handShake \in {0, 1} /\ e.state \in {"SYN", "ACK"} /\ e.sponsor
    BY <1>10 DEF Retry, Shaking
  <2>2. Touch(e, f)
    <3> HIDE DEF e
    <3> QED BY <1>1, <2>1, RetryTouches
  <2>3. AtNode(n) /\ Others(n) /\ DOMAIN info' = Nodes
    <3> HIDE DEF f
    <3> QED BY <1>1, <1>2, <1>10, <2>2, TouchStep DEF f
  <2>4. MsgSound(Control(n, p, e.state, e.conv), acked')
    <3>1. EntrySound(n, p, e, m_CurConv[n], syn[n], told[n], acked)
      BY <1>1 DEF IInv, Local, NodeSound
    <3>2. /\ <<n, p>> \in Dials
          /\ e.state = "ACK" => <<p, e.conv>> \in acked[n]
      BY <2>1, <3>1 DEF EntrySound, StateSound
    <3>3. Control(n, p, e.state, e.conv) \in Datagram
      BY <1>1, <2>1 DEF Control, Datagram, Kinds, KcpInfo
    <3> QED BY <1>2, <2>1, <3>2, <3>3 DEF MsgSound, Control
  <2>5. NetKept
    <3>1. \A m \in net' : m \in net \cup out \/ m = Control(n, p, e.state, e.conv)
      BY <1>10, PostIs
    <3> QED BY <1>8, <2>4, <3>1 DEF NetKept
  <2> QED BY <1>6, <1>10, <2>3, <2>5
<1>11. CASE /\ HeartDue(e)
            /\ SetInfo(n, p, AfterHeart(e))
            /\ net' = Post(Post(net, out), {Control(n, p, "KcpHeart", e.conv)})
            /\ UNCHANGED <<key2, told>>
  <2>1. Touch(e, AfterHeart(e))
    <3> HIDE DEF e
    <3> QED BY <1>1, Touches DEF AfterHeart
  <2>2. AtNode(n) /\ Others(n) /\ DOMAIN info' = Nodes
    BY <1>1, <1>2, <1>11, <2>1, TouchStep
  <2>3. MsgSound(Control(n, p, "KcpHeart", e.conv), acked')
    <3>1. e.conv \in Nat
      BY <1>1 DEF KcpInfo
    <3> HIDE DEF e
    <3> QED BY <3>1, PlainMsg
  <2>4. NetKept
    <3>1. \A m \in net' : m \in net \cup out \/ m = Control(n, p, "KcpHeart", e.conv)
      BY <1>11, PostIs
    <3> QED BY <1>8, <2>3, <3>1 DEF NetKept
  <2> QED BY <1>6, <1>11, <2>2, <2>4
<1>12. CASE net' = Post(net, out) /\ UNCHANGED <<info, key2, told>>
  <2>1. NetKept
    BY <1>8, <1>12, PostIs DEF NetKept
  <2> QED BY <1>2, <1>6, <1>12, <2>1 DEF AtNode, Others, IInv, Local
<1> QED BY <1>7, <1>9, <1>10, <1>11, <1>12

LEMMA NodeIs ==
  ASSUME IInv, NEW n \in Nodes
  PROVE  NodeSound(n, info[n], key2[n], m_CurConv[n], syn[n], told[n], acked)
BY DEF IInv, Local

(* The process goes, and its memory with it.                               *)
LEMMA DownStep ==
  ASSUME IInv, NEW n \in Nodes, Down(n)
  PROVE  /\ AtNode(n) /\ Others(n) /\ Grows /\ CmdsSound'
         /\ (/\ dups' \in 0 .. MaxDup /\ calls' = calls /\ restarts' = restarts
             /\ aborted' \subseteq {"SYNACK", "ACK"}) => Shape'
<1>1. Shape
  BY DEF IInv
<1>2. /\ up' = [up EXCEPT ![n] = FALSE] /\ m_CurConv' = [m_CurConv EXCEPT ![n] = FirstConv]
      /\ info' = [info EXCEPT ![n] = EmptyMap] /\ key2' = [key2 EXCEPT ![n] = EmptyMap]
      /\ syn' = [syn EXCEPT ![n] = None] /\ told' = [told EXCEPT ![n] = {}]
      /\ cmds' = [cmds EXCEPT ![n] = <<>>] /\ blocks' = blocks /\ acked' = acked
  BY DEF Down
<1>3. /\ m_CurConv'[n] = FirstConv /\ info'[n] = EmptyMap /\ key2'[n] = EmptyMap
      /\ syn'[n] = None /\ told'[n] = {}
  BY <1>1, <1>2 DEF Shape
<1>4. AtNode(n)
  BY <1>3, EmptyNode DEF AtNode
<1>5. Others(n) /\ Grows
  BY <1>1, <1>2 DEF Others, Grows, Shape
<1>6. CmdsSound' /\ cmds' \in [Nodes -> Seq(Datagram)]
  <2>1. cmds' = [q \in Nodes |-> cmds'[q]] /\ \A q \in Nodes : cmds'[q] = cmds[q] \/ cmds'[q] = <<>>
    BY <1>1, <1>2 DEF Shape
  <2> QED BY <1>5, <2>1, CmdsKept
<1>7. /\ up' \in [Nodes -> BOOLEAN] /\ m_CurConv' \in [Nodes -> Nat]
      /\ DOMAIN info' = Nodes /\ DOMAIN key2' = Nodes /\ DOMAIN told' = Nodes
      /\ syn' \in [Nodes -> Nodes \cup {None}]
  BY <1>1, <1>2 DEF Shape, FirstConv
<1>8. (/\ dups' \in 0 .. MaxDup /\ calls' = calls /\ restarts' = restarts
       /\ aborted' \subseteq {"SYNACK", "ACK"}) => Shape'
  BY <1>1, <1>2, <1>6, <1>7 DEF Shape
<1> QED BY <1>4, <1>5, <1>6, <1>8

LEMMA OnSynKeeps ==
  ASSUME IInv, NEW n \in Nodes, NEW m \in net, OnSyn(n, m)
  PROVE  IInv'
<1>1. PICK left : /\ Deliver(n, m, "SYN", left) /\ net' = left
                  /\ m_CurConv' = [m_CurConv EXCEPT ![n] = IF m.conv > @ THEN m.conv ELSE @ + 1]
                  /\ syn' = [syn EXCEPT ![n] = m.src]
                  /\ up' = up /\ info' = info /\ key2' = key2 /\ blocks' = blocks
                  /\ cmds' = cmds /\ calls' = calls /\ restarts' = restarts
                  /\ told' = told /\ acked' = acked /\ aborted' = aborted
  BY DEF OnSyn, histVars
<1>2. /\ m.dst = n /\ m.kind = "SYN" /\ MsgSound(m, acked) /\ m.src \in Nodes /\ m.conv \in Nat
      /\ left \subseteq net /\ syn[n] = None /\ dups' \in 0 .. MaxDup
  BY <1>1, DeliverIs
<1> DEFINE d == IF m.conv > m_CurConv[n] THEN m.conv ELSE m_CurConv[n] + 1
<1>3. m_CurConv[n] \in Nat /\ d \in Nat /\ m_CurConv[n] < d
  BY <1>2 DEF IInv, Shape
<1>4. m_CurConv' = [m_CurConv EXCEPT ![n] = d]
  BY <1>1
<1> HIDE DEF d
<1>5. <<m.src, n>> \in Dials
  BY <1>2 DEF MsgSound
<1>6. NodeSound(n, info[n], key2[n], d, m.src, told[n], acked)
  BY <1>2, <1>3, <1>5, NodeIs, SynNode
<1>7. AtNode(n) /\ Others(n)
  BY <1>1, <1>4, <1>6 DEF AtNode, Others, IInv, Shape
<1>8. Grows /\ NetKept
  BY <1>1, <1>2 DEF Grows, NetKept
<1>9. CmdsSound' /\ cmds' \in [Nodes -> Seq(Datagram)]
  BY <1>1, <1>8, SameCmds
<1>10. Shape'
  <2>1. m_CurConv' \in [Nodes -> Nat] /\ syn' \in [Nodes -> Nodes \cup {None}]
    BY <1>1, <1>2, <1>3, <1>4 DEF IInv, Shape
  <2> QED BY <1>1, <1>2, <1>9, <2>1 DEF IInv, Shape
<1> QED BY <1>7, <1>8, <1>9, <1>10, StepKeeps

LEMMA AcceptSynKeeps ==
  ASSUME IInv, NEW n \in Nodes, AcceptSyn(n)
  PROVE  IInv'
<1> DEFINE p == syn[n]
           e == NewInfo(p, m_CurConv[n], "SYNACK", FALSE)
           L == IF p \in DOMAIN info[n] THEN Without(key2[n], info[n][p].k2) ELSE key2[n]
           m == Control(n, p, "SYNACK", e.conv)
<1>1. /\ p # None /\ SetInfo(n, p, e) /\ syn' = [syn EXCEPT ![n] = None]
      /\ key2' = [key2 EXCEPT ![n] = L]
      /\ net' = Post(net, {m})
      /\ up' = up /\ m_CurConv' = m_CurConv /\ blocks' = blocks /\ cmds' = cmds /\ dups' = dups
      /\ calls' = calls /\ restarts' = restarts
      /\ told' = told /\ acked' = acked /\ aborted' = aborted
  BY DEF AcceptSyn, HasInfo, histVars
<1>2. NodeSound(n, info[n], key2[n], m_CurConv[n], p, told[n], acked)
  BY NodeIs
<1>3. NodeSound(n, Put(info[n], p, e), L, m_CurConv[n], None, told[n], acked)
  <2> HIDE DEF p
  <2> QED BY <1>1, <1>2, AcceptedNode
<1>4. <<p, n>> \in Dials /\ p \in Nodes /\ m_CurConv[n] \in Nat
  BY <1>1, <1>2 DEF NodeSound
<1>5. MsgSound(m, acked')
  BY <1>4 DEF MsgSound, Control, Datagram, Kinds, NewInfo
<1> HIDE DEF m, L, e
<1>6. /\ DOMAIN info' = Nodes /\ info'[n] = Put(info[n], p, e)
      /\ \A q \in Nodes \ {n} : info'[q] = info[q]
  BY <1>1, SetInfoIs DEF IInv, Shape
<1>7. AtNode(n) /\ Others(n)
  BY <1>1, <1>3, <1>6 DEF AtNode, Others, IInv, Shape
<1>8. Grows /\ NetKept
  <2>1. \A x \in net' : x \in net \/ x = m
    BY <1>1, PostIs
  <2> QED BY <1>1, <1>5, <2>1 DEF Grows, NetKept
<1>9. CmdsSound' /\ cmds' \in [Nodes -> Seq(Datagram)]
  BY <1>1, <1>8, SameCmds
<1>10. Shape'
  BY <1>1, <1>6, <1>9 DEF IInv, Shape
<1> QED BY <1>7, <1>8, <1>9, <1>10, StepKeeps

\* A handler that reaches its assert.
LEMMA AbortKeeps ==
  ASSUME IInv, NEW n \in Nodes, NEW what \in {"SYNACK", "ACK"}, Abort(n, what),
         net' \subseteq net, dups' \in 0 .. MaxDup, calls' = calls, restarts' = restarts
  PROVE  IInv'
<1>1. Down(n) /\ aborted' \subseteq {"SYNACK", "ACK"}
  BY DEF Abort, IInv, Shape
<1>2. AtNode(n) /\ Others(n) /\ Grows /\ CmdsSound' /\ Shape'
  BY <1>1, DownStep
<1>3. NetKept
  BY DEF NetKept
<1> QED BY <1>2, <1>3, StepKeeps

(* A handler that only touches an entry, or none.                          *)
Still ==
  UNCHANGED <<up, m_CurConv, key2, blocks, cmds, syn, calls, restarts, told, acked, aborted>>

Touched(n) ==
  \/ info' = info
  \/ \E p \in DOMAIN info[n] : \E e : Touch(info[n][p], e) /\ SetInfo(n, p, e)

Sends(sent) == net' \subseteq net \cup sent /\ \A m \in sent : MsgSound(m, acked)

LEMMA HandlerKeeps ==
  ASSUME IInv, NEW n \in Nodes, NEW sent, Sends(sent), Touched(n), Still,
         dups' \in 0 .. MaxDup
  PROVE  IInv'
<1>1. AtNode(n) /\ Others(n) /\ DOMAIN info' = Nodes
  <2>1. CASE info' = info
    BY <2>1, NodeIs DEF AtNode, Others, IInv, Shape, Still
  <2>2. CASE \E p \in DOMAIN info[n] : \E e : Touch(info[n][p], e) /\ SetInfo(n, p, e)
    <3>1. PICK p \in DOMAIN info[n] : \E e : Touch(info[n][p], e) /\ SetInfo(n, p, e)
      BY <2>2
    <3>2. PICK e : Touch(info[n][p], e) /\ SetInfo(n, p, e)
      BY <3>1
    <3> QED BY <3>2, TouchStep DEF Still
  <2> QED BY <2>1, <2>2 DEF Touched
<1>2. Grows /\ NetKept
  BY DEF Grows, NetKept, Still, Sends
<1>3. CmdsSound' /\ cmds' \in [Nodes -> Seq(Datagram)]
  BY <1>2, SameCmds DEF Still
<1>4. Shape'
  BY <1>1, <1>3 DEF IInv, Shape, Still
<1> QED BY <1>1, <1>2, <1>3, <1>4, StepKeeps

LEMMA OnSynAckKeeps ==
  ASSUME IInv, NEW n \in Nodes, NEW m \in net, OnSynAck(n, m)
  PROVE  IInv'
<1> DEFINE p == m.src
           v == m.conv
           f == SynAcked(info[n][p], v, blocks[n])
           L == [k \in DOMAIN key2[n] \cup {v} |-> IF k \in DOMAIN key2[n] THEN key2[n][k]
                   ELSE [peer |-> p, born |-> info[n][p].born]]
           B == [acked EXCEPT ![n] = @ \cup {<<p, v>>}]
           a == Control(n, p, "ACK", v)
<1>1. PICK left : /\ Deliver(n, m, "SYNACK", left) /\ calls' = calls /\ restarts' = restarts
                  /\ IF HasInfo(n, m.src)
                     THEN /\ SetInfo(n, p, f)
                          /\ blocks' = [blocks EXCEPT ![n] = @ + 1]
                          /\ key2' = [key2 EXCEPT ![n] = L]
                          /\ net' = Post(left, {a})
                          /\ acked' = B
                          /\ UNCHANGED <<up, m_CurConv, cmds, syn, told, aborted>>
                     ELSE Abort(n, "SYNACK") /\ net' = left
  BY DEF OnSynAck, Key2Insert, PointerTo, SynAcked
<1>2. /\ MsgSound(m, acked) /\ m.dst = n /\ m.kind = "SYNACK"
      /\ p \in Nodes /\ v \in Nat /\ left \subseteq net /\ dups' \in 0 .. MaxDup
  BY <1>1, DeliverIs
<1>3. <<n, p>> \in Dials
  BY <1>2 DEF MsgSound
<1>4. CASE ~ HasInfo(n, m.src)
  BY <1>1, <1>2, <1>4, AbortKeeps
<1>5. CASE HasInfo(n, m.src)
  <2> HIDE DEF p, v
  <2>1. p \in DOMAIN info[n]
    BY <1>5 DEF HasInfo, p
  <2>2. blocks[n] \in Nat /\ acked \in [Nodes -> SUBSET (Nodes \X Nat)]
    BY DEF IInv, Shape
  <2>3. /\ B \in [Nodes -> SUBSET (Nodes \X Nat)] /\ <<p, v>> \in B[n]
        /\ \A q \in Nodes : acked[q] \subseteq B[q]
    BY <1>2, <2>2
  <2>4. \A q \in DOMAIN acked : q \in Nodes
    BY <2>2
  <2>5. MsgSound(a, B)
    <3>1. a \in Datagram
      BY <1>2 DEF a, Control, Datagram, Kinds
    <3> HIDE DEF B
    <3> QED BY <1>3, <2>3, <3>1 DEF MsgSound, Control, a
  <2> HIDE DEF B, a
  <2>6. NodeSound(n, Put(info[n], p, f), L, m_CurConv[n], syn[n], told[n], B)
    <3>1. NodeSound(n, info[n], key2[n], m_CurConv[n], syn[n], told[n], acked)
      BY NodeIs
    <3>2. f \in KcpInfo /\ f.state = "ACK" /\ f.conv = v /\ f.sponsor = info[n][p].sponsor
      <4> DEFINE e == info[n][p]
                 b == blocks[n]
      <4>1. f = SynAcked(e, v, b) /\ e \in KcpInfo /\ b \in Nat /\ v \in Nat
        BY <1>2, <2>1, <2>2, InfoIs DEF v
      <4> HIDE DEF e, b, f
      <4>2. f \in KcpInfo /\ f.state = "ACK" /\ f.conv = v /\ f.sponsor = e.sponsor
        BY <4>1, SynAckedInfo
      <4> QED BY <4>2 DEF e
    <3>3. L = [k \in DOMAIN key2[n] \cup {v} |-> IF k \in DOMAIN key2[n] THEN key2[n][k]
                 ELSE [peer |-> p, born |-> info[n][p].born]]
      OBVIOUS
    <3>4. v \in Nat /\ <<n, p>> \in Dials /\ <<p, v>> \in B[n]
      BY <1>2, <1>3, <2>2, <2>3
    <3> HIDE DEF f, L
    <3> QED BY <2>1, <2>3, <3>1, <3>2, <3>3, <3>4, SynAckedNode
  <2> HIDE DEF L, f
  <2>7. /\ SetInfo(n, p, f) /\ blocks' = [blocks EXCEPT ![n] = @ + 1]
        /\ key2' = [key2 EXCEPT ![n] = L] /\ net' = Post(left, {a}) /\ acked' = B
        /\ up' = up /\ m_CurConv' = m_CurConv /\ cmds' = cmds /\ syn' = syn /\ told' = told
        /\ aborted' = aborted
    BY <1>1, <1>5
  <2>8. /\ DOMAIN info' = Nodes /\ info'[n] = Put(info[n], p, f)
        /\ \A q \in Nodes \ {n} : info'[q] = info[q]
    BY <2>7, SetInfoIs DEF IInv, Shape
  <2>9. AtNode(n) /\ Others(n)
    BY <2>6, <2>7, <2>8 DEF AtNode, Others, IInv, Shape
  <2>10. Grows
    BY <2>3, <2>7 DEF Grows
  <2>11. NetKept
    <3>1. \A x \in net' : x \in left \/ x = a
      BY <2>7, PostIs
    <3> QED BY <1>2, <2>5, <2>7, <3>1 DEF NetKept
  <2>12. CmdsSound' /\ cmds' \in [Nodes -> Seq(Datagram)]
    BY <2>7, <2>10, SameCmds
  <2>13. Shape'
    <3>1. blocks' \in [Nodes -> Nat]
      BY <2>7 DEF IInv, Shape
    <3>2. DOMAIN key2' = Nodes
      BY <2>7 DEF IInv, Shape
    <3> QED BY <1>1, <1>2, <2>3, <2>7, <2>8, <2>12, <3>1, <3>2 DEF IInv, Shape
  <2> QED BY <2>9, <2>10, <2>11, <2>12, <2>13, StepKeeps
<1> QED BY <1>4, <1>5

LEMMA OnAckKeeps ==
  ASSUME IInv, NEW n \in Nodes, NEW m \in net, OnAck(n, m)
  PROVE  IInv'
<1> DEFINE p == m.src
           v == m.conv
           h == [info[n][p] EXCEPT !.sendAge = 0]
           f == Completed(info[n][p], blocks[n])
           L == [k \in DOMAIN key2[n] \cup {v} |-> IF k \in DOMAIN key2[n] THEN key2[n][k]
                   ELSE [peer |-> p, born |-> info[n][p].born]]
           a == Control(n, p, "Link", v)
<1>1. PICK left : /\ Deliver(n, m, "ACK", left) /\ calls' = calls /\ restarts' = restarts
                  /\ IF HasInfo(n, m.src)
                     THEN /\ IF Completes(h, m)
                             THEN /\ SetInfo(n, p, [h EXCEPT !.state = "Link", !.kcp = blocks[n] + 1,
                                                             !.heard = {}, !.k2 = h.conv])
                                  /\ blocks' = [blocks EXCEPT ![n] = @ + 1]
                                  /\ Key2Insert(n, h.conv, PointerTo(n, p))
                                  /\ Tell(n, "LinkIncoming", v)
                             ELSE SetInfo(n, p, h) /\ UNCHANGED <<blocks, key2, told>>
                          /\ net' = Post(left, {a})
                          /\ UNCHANGED <<up, m_CurConv, cmds, syn, acked, aborted>>
                     ELSE Abort(n, "ACK") /\ net' = left
  BY DEF OnAck
<1>2. /\ MsgSound(m, acked) /\ m.dst = n /\ m.kind = "ACK"
      /\ p \in Nodes /\ v \in Nat /\ left \subseteq net /\ dups' \in 0 .. MaxDup
  BY <1>1, DeliverIs
<1>3. <<p, n>> \in Dials /\ <<n, v>> \in acked[p]
  BY <1>2 DEF MsgSound
<1>4. MsgSound(a, acked)
  BY <1>2, <1>3 DEF MsgSound, Control, Datagram, Kinds
<1>5. CASE ~ HasInfo(n, m.src)
  BY <1>1, <1>2, <1>5, AbortKeeps
<1>6. CASE HasInfo(n, m.src) /\ ~ Completes(h, m)
  <2>1. /\ SetInfo(n, p, h) /\ net' = Post(left, {a}) /\ p \in DOMAIN info[n]
        /\ Still
    BY <1>1, <1>6 DEF HasInfo, Still
  <2>2. Touch(info[n][p], h)
    <3>1. info[n][p] \in KcpInfo
      BY <2>1, InfoIs
    <3> QED BY <3>1, Touches
  <2> HIDE DEF p, h, a
  <2>3. Sends({a})
    BY <1>2, <1>4, <2>1, PostIs DEF Sends
  <2>4. Touched(n)
    BY <2>1, <2>2 DEF Touched
  <2> QED BY <1>2, <2>1, <2>3, <2>4, HandlerKeeps
<1>7. CASE HasInfo(n, m.src) /\ Completes(h, m)
  <2> DEFINE e == info[n][p]
             U == told[n] \cup {<<"LinkIncoming", v>>}
  <2>1. p \in DOMAIN info[n] /\ e \in KcpInfo
    BY <1>7, InfoIs DEF HasInfo
  <2>2. h.conv = e.conv /\ h.state = e.state /\ e.state = "SYNACK" /\ v = e.conv
    <3>1. h.conv = e.conv /\ h.state = e.state
      BY <2>1, AgeOnly
    <3> QED BY <1>7, <3>1 DEF Completes
  <2>3. [h EXCEPT !.state = "Link", !.kcp = blocks[n] + 1, !.heard = {}, !.k2 = h.conv] = f
    <3>1. f = [h EXCEPT !.state = "Link", !.kcp = blocks[n] + 1, !.heard = {}, !.k2 = e.conv]
      BY DEF Completed
    <3> HIDE DEF h, f
    <3> QED BY <2>2, <3>1
  <2>4. /\ SetInfo(n, p, f) /\ blocks' = [blocks EXCEPT ![n] = @ + 1]
        /\ key2' = [key2 EXCEPT ![n] = L] /\ told' = [told EXCEPT ![n] = U]
        /\ net' = Post(left, {a})
        /\ up' = up /\ m_CurConv' = m_CurConv /\ cmds' = cmds /\ syn' = syn /\ acked' = acked
        /\ aborted' = aborted
    <3>1. /\ SetInfo(n, p, [h EXCEPT !.state = "Link", !.kcp = blocks[n] + 1, !.heard = {},
                                     !.k2 = h.conv])
          /\ blocks' = [blocks EXCEPT ![n] = @ + 1]
          /\ Key2Insert(n, h.conv, PointerTo(n, p))
          /\ Tell(n, "LinkIncoming", v)
          /\ net' = Post(left, {a})
          /\ up' = up /\ m_CurConv' = m_CurConv /\ cmds' = cmds /\ syn' = syn /\ acked' = acked
          /\ aborted' = aborted
      BY <1>1, <1>7
    <3>2. h.conv = v
      BY <2>2
    <3> HIDE DEF h, f, v, p, a, e
    <3>3. key2' = [key2 EXCEPT ![n] = L]
      BY <3>1, <3>2 DEF Key2Insert, PointerTo
    <3>4. told' = [told EXCEPT ![n] = U]
      BY <3>1 DEF Tell
    <3> QED BY <2>3, <3>1, <3>3, <3>4
  <2>5. blocks[n] \in Nat
    BY DEF IInv, Shape
  <2>6. NodeSound(n, Put(info[n], p, f), L, m_CurConv[n], syn[n], U, acked)
    <3>1. NodeSound(n, info[n], key2[n], m_CurConv[n], syn[n], told[n], acked)
      BY NodeIs
    <3>2. /\ f \in KcpInfo /\ f.state = "Link" /\ f.conv = v /\ f.sponsor = e.sponsor
          /\ f.born = e.born /\ f.kcp # 0 /\ f.k2 = v
      <4> DEFINE b == blocks[n]
      <4>1. f = Completed(e, b) /\ e \in KcpInfo /\ b \in Nat /\ v = e.conv
        BY <2>1, <2>2, <2>5
      <4> HIDE DEF e, b, f, v
      <4> QED BY <4>1, LinkedInfo
    <3> HIDE DEF p, v, f, L
    <3>3. L = [k \in DOMAIN key2[n] \cup {v} |-> IF k \in DOMAIN key2[n] THEN key2[n][k]
                 ELSE [peer |-> p, born |-> info[n][p].born]]
      BY DEF L
    <3> QED BY <1>3, <2>1, <2>2, <3>1, <3>2, <3>3, LinkedNode
  <2> HIDE DEF L, f, U, p, a, h, v
  <2>7. /\ DOMAIN info' = Nodes /\ info'[n] = Put(info[n], p, f)
        /\ \A q \in Nodes \ {n} : info'[q] = info[q]
    BY <2>4, SetInfoIs DEF IInv, Shape
  <2>8. AtNode(n) /\ Others(n)
    BY <2>4, <2>6, <2>7 DEF AtNode, Others, IInv, Shape
  <2>9. Grows /\ NetKept
    <3>1. \A x \in net' : x \in left \/ x = a
      BY <2>4, PostIs
    <3> QED BY <1>2, <1>4, <2>4, <3>1 DEF Grows, NetKept
  <2>10. CmdsSound' /\ cmds' \in [Nodes -> Seq(Datagram)]
    BY <2>4, <2>9, SameCmds
  <2>11. Shape'
    <3>1. blocks' \in [Nodes -> Nat] /\ DOMAIN key2' = Nodes /\ DOMAIN told' = Nodes
      BY <2>4 DEF IInv, Shape
    <3> QED BY <1>1, <1>2, <2>4, <2>7, <2>10, <3>1 DEF IInv, Shape
  <2> QED BY <2>8, <2>9, <2>10, <2>11, StepKeeps
<1> QED BY <1>5, <1>6, <1>7

LEMMA OnLinkKeeps ==
  ASSUME IInv, NEW n \in Nodes, NEW m \in net, OnLink(n, m)
  PROVE  IInv'
<1> DEFINE p == m.src
           v == m.conv
           e == info[n][p]
           f == LinkAccepted(e)
           k == Control(n, p, "KckLost", v)
<1>1. PICK left : /\ Deliver(n, m, "Link", left)
                  /\ IF HasInfo(n, p) /\ Accepts(e, m)
                     THEN SetInfo(n, p, f) /\ Tell(n, "LinkAccepted", v) /\ net' = left
                     ELSE net' = Post(left, {k}) /\ UNCHANGED <<info, told>>
                  /\ UNCHANGED <<up, m_CurConv, key2, blocks, cmds, syn, calls, restarts,
                                 acked, aborted>>
  BY DEF OnLink, LinkAccepted
<1>2. /\ MsgSound(m, acked) /\ m.dst = n /\ m.kind = "Link"
      /\ p \in Nodes /\ v \in Nat /\ left \subseteq net /\ dups' \in 0 .. MaxDup
  BY <1>1, DeliverIs
<1>3. <<n, p>> \in Dials
  BY <1>2 DEF MsgSound
<1>4. CASE ~ (HasInfo(n, p) /\ Accepts(e, m))
  <2>1. MsgSound(k, acked)
    BY <1>2, PlainMsg
  <2>2. Still /\ Touched(n) /\ net' = Post(left, {k})
    BY <1>1, <1>4 DEF Still, Touched
  <2> HIDE DEF k
  <2>3. Sends({k})
    BY <1>2, <2>1, <2>2, PostIs DEF Sends
  <2> QED BY <1>2, <2>2, <2>3, HandlerKeeps
<1>5. CASE HasInfo(n, p) /\ Accepts(e, m)
  <2> DEFINE U == told[n] \cup {<<"LinkAccepted", v>>}
  <2>1. p \in DOMAIN info[n] /\ e.conv = v
    BY <1>5 DEF HasInfo, Accepts
  <2>2. /\ SetInfo(n, p, f) /\ told' = [told EXCEPT ![n] = U] /\ net' = left
        /\ up' = up /\ m_CurConv' = m_CurConv /\ key2' = key2 /\ blocks' = blocks /\ cmds' = cmds
        /\ syn' = syn /\ calls' = calls /\ restarts' = restarts /\ acked' = acked
        /\ aborted' = aborted
    BY <1>1, <1>5 DEF Tell
  <2>3. NodeSound(n, Put(info[n], p, f), key2[n], m_CurConv[n], syn[n], U, acked)
    <3>1. NodeSound(n, info[n], key2[n], m_CurConv[n], syn[n], told[n], acked)
      BY NodeIs
    <3> HIDE DEF p, v
    <3> QED BY <1>3, <2>1, <3>1, AcceptedLinkNode
  <2> HIDE DEF p, v, U, f
  <2>4. /\ DOMAIN info' = Nodes /\ info'[n] = Put(info[n], p, f)
        /\ \A q \in Nodes \ {n} : info'[q] = info[q]
    BY <2>2, SetInfoIs DEF IInv, Shape
  <2>5. AtNode(n) /\ Others(n)
    BY <2>2, <2>3, <2>4 DEF AtNode, Others, IInv, Shape
  <2>6. Grows /\ NetKept
    BY <1>2, <2>2 DEF Grows, NetKept
  <2>7. CmdsSound' /\ cmds' \in [Nodes -> Seq(Datagram)]
    BY <2>2, <2>6, SameCmds
  <2>8. Shape'
    BY <1>2, <2>2, <2>4, <2>7 DEF IInv, Shape
  <2> QED BY <2>5, <2>6, <2>7, <2>8, StepKeeps
<1> QED BY <1>4, <1>5

LEMMA OnHeartKeeps ==
  ASSUME IInv, NEW n \in Nodes, NEW m \in net, OnHeart(n, m)
  PROVE  IInv'
<1> DEFINE v == m.conv
           k == Control(n, m.src, "KckLost", v)
           p == key2[n][v].peer
           e == info[n][p]
           f == IF e.sponsor THEN [e EXCEPT !.sendAge = 0, !.recAge = 0] ELSE [e EXCEPT !.sendAge = 0]
           h == Control(n, p, "KcpHeart", e.conv)
<1>1. PICK left :
        /\ Deliver(n, m, "KcpHeart", left) /\ calls' = calls /\ restarts' = restarts
        /\ \/ /\ net' = Post(left, {k})
              /\ UNCHANGED <<up, mapVars, cmds, syn, histVars>>
           \/ /\ v \in DOMAIN key2[n] /\ Alive(n, key2[n][v])
              /\ SetInfo(n, p, f)
              /\ net' = IF e.sponsor THEN left ELSE Post(left, {h})
              /\ UNCHANGED <<up, m_CurConv, key2, blocks, cmds, syn, histVars>>
           \/ /\ net' = left /\ aborted' = aborted
              /\ Down(n) \/ UNCHANGED <<up, mapVars, cmds, syn, told, acked>>
  BY DEF OnHeart
<1>2. m.src \in Nodes /\ v \in Nat /\ left \subseteq net /\ dups' \in 0 .. MaxDup
  BY <1>1, DeliverIs
<1>3. CASE net' = Post(left, {k}) /\ UNCHANGED <<up, mapVars, cmds, syn, histVars>>
  <2>1. MsgSound(k, acked)
    BY <1>2, PlainMsg
  <2> HIDE DEF k
  <2>2. Sends({k})
    BY <1>2, <1>3, <2>1, PostIs DEF Sends
  <2>3. Still /\ Touched(n)
    BY <1>1, <1>3 DEF Still, Touched, mapVars, histVars
  <2> QED BY <1>2, <2>2, <2>3, HandlerKeeps
<1>4. CASE /\ v \in DOMAIN key2[n] /\ Alive(n, key2[n][v])
           /\ SetInfo(n, p, f)
           /\ net' = IF e.sponsor THEN left ELSE Post(left, {h})
           /\ UNCHANGED <<up, m_CurConv, key2, blocks, cmds, syn, histVars>>
  <2>1. p \in DOMAIN info[n] /\ p \in Nodes /\ e \in KcpInfo
    BY <1>4, InfoIs DEF Alive, HasInfo
  <2>2. Touch(e, f)
    <3> HIDE DEF e
    <3> QED BY <2>1, Touches
  <2>3. MsgSound(h, acked)
    <3>1. e.conv \in Nat
      BY <2>1 DEF KcpInfo
    <3> HIDE DEF e
    <3> QED BY <2>1, <3>1, PlainMsg
  <2> HIDE DEF h, f
  <2>4. Sends({h})
    BY <1>2, <1>4, <2>3, PostIs DEF Sends
  <2>5. Touched(n)
    BY <1>4, <2>1, <2>2 DEF Touched
  <2>6. Still
    BY <1>1, <1>4 DEF Still, histVars
  <2> QED BY <1>2, <2>4, <2>5, <2>6, HandlerKeeps
<1>5. CASE /\ net' = left /\ aborted' = aborted
           /\ Down(n) \/ UNCHANGED <<up, mapVars, cmds, syn, told, acked>>
  <2>1. NetKept /\ aborted \subseteq {"SYNACK", "ACK"}
    BY <1>2, <1>5 DEF NetKept, IInv, Shape
  <2>2. CASE Down(n)
    <3>1. AtNode(n) /\ Others(n) /\ Grows /\ CmdsSound' /\ Shape'
      BY <1>1, <1>2, <1>5, <2>1, <2>2, DownStep
    <3> QED BY <2>1, <3>1, StepKeeps
  <2>3. CASE UNCHANGED <<up, mapVars, cmds, syn, told, acked>>
    <3>1. Sends({})
      BY <1>2, <1>5 DEF Sends
    <3>2. Still /\ Touched(n)
      BY <1>1, <1>5, <2>3 DEF Still, Touched, mapVars
    <3> QED BY <1>2, <3>1, <3>2, HandlerKeeps
  <2> QED BY <1>5, <2>2, <2>3
<1> QED BY <1>1, <1>3, <1>4, <1>5

LEMMA OnDisConnectKeeps ==
  ASSUME IInv, NEW n \in Nodes, NEW m \in net, OnDisConnect(n, m)
  PROVE  IInv'
<1> DEFINE p == m.src
           f == [info[n][p] EXCEPT !.state = "AutoDisConnect"]
<1>1. PICK left :
        /\ Deliver(n, m, "DisConnect", left) /\ net' = left
        /\ IF HasInfo(n, p) THEN SetInfo(n, p, f) ELSE UNCHANGED info
        /\ UNCHANGED <<up, m_CurConv, key2, blocks, cmds, syn, calls, restarts, histVars>>
  BY DEF OnDisConnect
<1>2. Sends({}) /\ dups' \in 0 .. MaxDup
  BY <1>1, DeliverIs DEF Sends
<1>3. Touched(n)
  <2>1. CASE HasInfo(n, p)
    <3>1. p \in DOMAIN info[n] /\ info[n][p] \in KcpInfo
      BY <2>1, InfoIs DEF HasInfo
    <3>2. Touch(info[n][p], f)
      BY <3>1, Touches
    <3> HIDE DEF f, p
    <3> QED BY <1>1, <2>1, <3>1, <3>2 DEF Touched
  <2> QED BY <1>1, <2>1 DEF Touched
<1>4. Still
  BY <1>1 DEF Still, histVars
<1> QED BY <1>2, <1>3, <1>4, HandlerKeeps

LEMMA OnNoticeKeeps ==
  ASSUME IInv, NEW n \in Nodes, NEW m \in net, OnNotice(n, m)
  PROVE  IInv'
<1>1. PICK left : /\ Deliver(n, m, "UnLink", left) \/ Deliver(n, m, "KckLost", left)
                  /\ net' = left
                  /\ UNCHANGED <<up, mapVars, cmds, syn, calls, restarts, histVars>>
  BY DEF OnNotice
<1>2. Sends({}) /\ dups' \in 0 .. MaxDup
  BY <1>1, DeliverIs DEF Sends
<1>3. Still /\ Touched(n)
  BY <1>1 DEF Still, Touched, mapVars, histVars
<1> QED BY <1>2, <1>3, HandlerKeeps

LEMMA OnKcpKeeps ==
  ASSUME IInv, NEW n \in Nodes, NEW m \in net, OnKcp(n, m)
  PROVE  IInv'
<1> DEFINE p == m.src
           e == info[n][p]
           f == [e EXCEPT !.sendAge = 0, !.recAge = 0, !.heard = Heard(e, m)]
           d == Data(n, p)
           k == Control(n, p, "UnLink", 0)
<1>1. PICK left :
        /\ Deliver(n, m, "kcp", left)
        /\ IF HasInfo(n, p)
           THEN SetInfo(n, p, f) /\ \E out \in SUBSET {d} : net' = Post(left, out)
           ELSE net' = Post(left, {k}) /\ UNCHANGED info
        /\ UNCHANGED <<up, m_CurConv, key2, blocks, cmds, syn, calls, restarts, histVars>>
  BY DEF OnKcp
<1>2. p \in Nodes /\ m.kcp \in Nat /\ left \subseteq net /\ dups' \in 0 .. MaxDup
  BY <1>1, DeliverIs
<1>3. CASE HasInfo(n, p)
  <2>1. p \in DOMAIN info[n] /\ e \in KcpInfo
    BY <1>3, InfoIs DEF HasInfo
  <2>2. Touch(e, f)
    <3> DEFINE H == Heard(e, m)
    <3>1. H \in SUBSET Nat
      BY <1>2, <2>1 DEF Heard, KcpInfo
    <3>2. f = [e EXCEPT !.sendAge = 0, !.recAge = 0, !.heard = H]
      OBVIOUS
    <3> HIDE DEF e, H, f
    <3> QED BY <2>1, <3>1, <3>2, HeardTouches
  <2>3. MsgSound(d, acked)
    BY <1>2, <2>1 DEF MsgSound, Data, Datagram, Kinds, KcpInfo
  <2> HIDE DEF d, f
  <2>4. Sends({d})
    BY <1>1, <1>2, <1>3, <2>3, PostIs DEF Sends
  <2>5. Touched(n)
    BY <1>1, <1>3, <2>1, <2>2 DEF Touched
  <2>6. Still
    BY <1>1 DEF Still, histVars
  <2> QED BY <1>2, <2>4, <2>5, <2>6, HandlerKeeps
<1>4. CASE ~ HasInfo(n, p)
  <2>1. MsgSound(k, acked)
    BY <1>2, PlainMsg
  <2> HIDE DEF k
  <2>2. Sends({k})
    BY <1>1, <1>2, <1>4, <2>1, PostIs DEF Sends
  <2>3. Still /\ Touched(n)
    BY <1>1, <1>4 DEF Still, Touched, histVars
  <2> QED BY <1>2, <2>2, <2>3, HandlerKeeps
<1> QED BY <1>3, <1>4

-----------------------------------------------------------------------------
(* Restarts, losses and time.                                              *)

LEMMA StopKeeps ==
  ASSUME IInv, NEW n \in Nodes, Stop(n)
  PROVE  IInv'
<1> DEFINE P == {q \in DOMAIN info[n] : /\ info[n][q].sponsor /\ info[n][q].state = "Link"
                                        /\ info[n][q].kcp # 0}
           sent == {Control(n, p, "DisConnect", 0) : p \in P}
<1>1. /\ Down(n) /\ net' = Post(net, sent)
      /\ dups' = dups /\ calls' = calls /\ restarts' = restarts /\ aborted' = aborted
  BY DEF Stop
<1>2. \A p \in P : MsgSound(Control(n, p, "DisConnect", 0), acked')
  BY InfoIs, PlainMsg
<1>3. \A m \in sent : MsgSound(m, acked')
  BY <1>2
<1> HIDE DEF sent
<1>4. AtNode(n) /\ Others(n) /\ Grows /\ CmdsSound' /\ Shape'
  <2>1. dups \in 0 .. MaxDup /\ aborted \subseteq {"SYNACK", "ACK"}
    BY DEF IInv, Shape
  <2> QED BY <1>1, <2>1, DownStep
<1>5. NetKept
  BY <1>1, <1>3, PostIs DEF NetKept
<1> QED BY <1>4, <1>5, StepKeeps

LEMMA CrashKeeps ==
  ASSUME IInv, NEW n \in Nodes, Crash(n)
  PROVE  IInv'
<1>1. /\ Down(n) /\ net' = net
      /\ dups' = dups /\ calls' = calls /\ restarts' = restarts /\ aborted' = aborted
  BY DEF Crash
<1>2. AtNode(n) /\ Others(n) /\ Grows /\ CmdsSound' /\ Shape'
  <2>1. dups \in 0 .. MaxDup /\ aborted \subseteq {"SYNACK", "ACK"}
    BY DEF IInv, Shape
  <2> QED BY <1>1, <2>1, DownStep
<1>3. NetKept
  BY <1>1 DEF NetKept
<1> QED BY <1>2, <1>3, StepKeeps

\* No endpoint's memory changes, and nothing is sent.
LEMMA NoMemory ==
  ASSUME IInv, net' \subseteq net, up' \in [Nodes -> BOOLEAN], restarts' \in 0 .. MaxRestarts,
         UNCHANGED <<mapVars, cmds, syn, dups, calls, histVars>>
  PROVE  IInv'
<1>1. \A n \in Nodes : Local(n)'
  BY NodeIs DEF Local, mapVars, histVars
<1>2. Shape'
  BY DEF IInv, Shape, mapVars, histVars
<1>3. CmdsSound'
  BY DEF IInv, CmdsSound, histVars
<1>4. \A m \in net' : MsgSound(m, acked')
  BY DEF IInv, histVars
<1> QED BY <1>1, <1>2, <1>3, <1>4 DEF IInv

LEMMA StartKeeps ==
  ASSUME IInv, NEW n \in Nodes, Start(n)
  PROVE  IInv'
<1>1. net' = net /\ UNCHANGED <<mapVars, cmds, syn, dups, calls, histVars>>
  BY DEF Start
<1>2. up' \in [Nodes -> BOOLEAN] /\ restarts' \in 0 .. MaxRestarts
  BY Bounds DEF Start, IInv, Shape
<1> QED BY <1>1, <1>2, NoMemory

LEMMA LoseKeeps ==
  ASSUME IInv, NEW m \in net, Lose(m)
  PROVE  IInv'
<1>1. net' \subseteq net /\ UNCHANGED <<mapVars, cmds, syn, dups, calls, histVars>>
  BY DEF Lose
<1>2. up' \in [Nodes -> BOOLEAN] /\ restarts' \in 0 .. MaxRestarts
  BY DEF Lose, IInv, Shape
<1> QED BY <1>1, <1>2, NoMemory

LEMMA TickKeeps ==
  ASSUME IInv, Tick
  PROVE  IInv'
<1>1. /\ info' = [n \in Nodes |-> [p \in DOMAIN info[n] |-> Older(info[n][p])]]
      /\ up' = up /\ m_CurConv' = m_CurConv /\ key2' = key2 /\ blocks' = blocks /\ cmds' = cmds
      /\ syn' = syn /\ net' = net /\ dups' = dups /\ calls' = calls /\ restarts' = restarts
      /\ told' = told /\ acked' = acked /\ aborted' = aborted
  BY DEF Tick, histVars
<1>2. \A n \in Nodes : Local(n)'
  <2> SUFFICES ASSUME NEW n \in Nodes
               PROVE  NodeSound(n, info'[n], key2[n], m_CurConv[n], syn[n], told[n], acked)
    BY <1>1 DEF Local
  <2> DEFINE J == [p \in DOMAIN info[n] |-> Older(info[n][p])]
  <2>1. DOMAIN J = DOMAIN info[n] /\ \A p \in DOMAIN info[n] : J[p] = Older(info[n][p])
    OBVIOUS
  <2>2. info'[n] = J
    BY <1>1
  <2> HIDE DEF J
  <2>3. \A p \in DOMAIN info[n] : Touch(info[n][p], J[p])
    BY <2>1, InfoIs, OlderTouches
  <2>4. NodeSound(n, J, key2[n], m_CurConv[n], syn[n], told[n], acked)
    BY <2>1, <2>3, NodeIs, TouchedNode
  <2> QED BY <2>2, <2>4
<1>3. Shape'
  BY <1>1 DEF IInv, Shape
<1>4. CmdsSound' /\ \A m \in net' : MsgSound(m, acked')
  BY <1>1 DEF IInv, CmdsSound
<1> QED BY <1>2, <1>3, <1>4 DEF IInv

-----------------------------------------------------------------------------
(* The invariant.                                                          *)

LEMMA InitSound == Init => IInv
<1> SUFFICES ASSUME Init
             PROVE  IInv
  OBVIOUS
<1>1. \A n \in Nodes : Local(n)
  BY EmptyNode DEF Init, Local
<1>2. Shape
  BY Bounds DEF Init, Shape, FirstConv
<1>3. CmdsSound /\ \A m \in net : MsgSound(m, acked)
  BY DEF Init, CmdsSound
<1> QED BY <1>1, <1>2, <1>3 DEF IInv

LEMMA NextKeeps == IInv /\ [Next]_vars => IInv'
<1> SUFFICES ASSUME IInv, [Next]_vars
             PROVE  IInv'
  OBVIOUS
<1>1. CASE Tick
  BY <1>1, TickKeeps
<1>2. CASE \E m \in net : Lose(m)
  BY <1>2, LoseKeeps
<1>3. CASE \E n \in Nodes : HandleCmd(n) \/ AcceptSyn(n) \/ Stop(n) \/ Crash(n) \/ Start(n)
  BY <1>3, HandleCmdKeeps, AcceptSynKeeps, StopKeeps, CrashKeeps, StartKeeps
<1>4. CASE \E n, p \in Nodes : Connect(n, p) \/ DisConnectAddr(n, p) \/ ConnMgr(n, p)
  BY <1>4, ConnectKeeps, DisConnectAddrKeeps, ConnMgrKeeps
<1>5. CASE \E n \in Nodes : \E k \in DOMAIN key2[n] : DisConnectId(n, k) \/ StablySend(n, k)
  BY <1>5, DisConnectIdKeeps, StablySendKeeps
<1>6. CASE \E n \in Nodes : \E m \in net : Receive(n, m)
  <2> SUFFICES ASSUME NEW n \in Nodes, NEW m \in net, Receive(n, m)
               PROVE  IInv'
    BY <1>6
  <2> QED BY OnSynKeeps, OnSynAckKeeps, OnAckKeeps, OnLinkKeeps, OnHeartKeeps, OnDisConnectKeeps,
             OnNoticeKeeps, OnKcpKeeps DEF Receive
<1>7. CASE UNCHANGED vars
  <2>1. net' = net /\ UNCHANGED <<mapVars, cmds, syn, dups, calls, histVars>>
    BY <1>7 DEF vars
  <2>2. up' \in [Nodes -> BOOLEAN] /\ restarts' \in 0 .. MaxRestarts
    BY <1>7 DEF vars, IInv, Shape
  <2> QED BY <2>1, <2>2, NoMemory
<1> QED BY <1>1, <1>2, <1>3, <1>4, <1>5, <1>6, <1>7 DEF Next

(* KKKcp.cpp:642-860: where the ids of the entries come from, what was     *)
(* told of them, and which datagrams are under way, in every state.        *)
THEOREM KkConnInductive == Spec => []IInv
BY InitSound, NextKeeps, PTL DEF Spec

(* Every entry is a KcpInfo, the retry counter never passes 2, and the     *)
(* queues hold datagrams that the put* functions build.                    *)
THEOREM Types == Spec => []TypeOK
<1>1. IInv => TypeOK
  <2> SUFFICES ASSUME IInv
               PROVE  TypeOK
    OBVIOUS
  <2>1. \A n \in Nodes : /\ DOMAIN info[n] \subseteq Nodes /\ Infos(n) \subseteq KcpInfo
                         /\ DOMAIN key2[n] \subseteq Nat
                         /\ \A k \in DOMAIN key2[n] : key2[n][k] \in Pointer
    BY NodeIs DEF NodeSound, EntrySound, Infos
  <2>2. net \subseteq Datagram
    BY DEF IInv, MsgSound
  <2> QED BY <2>1, <2>2 DEF TypeOK, IInv, Shape
<1> QED BY <1>1, KkConnInductive, PTL

(* FreeKcpInfo (KKKcp.cpp:1099): that a link was lost is told only after   *)
(* the link was.                                                           *)
THEOREM LossAfterLink == Spec => []LinkBeforeLoss
<1>1. IInv => LinkBeforeLoss
  <2> SUFFICES ASSUME IInv, NEW n \in Nodes, NEW k, <<"LinkLost", k>> \in told[n]
               PROVE  <<"LinkIncoming", k>> \in told[n] \/ <<"LinkAccepted", k>> \in told[n]
    BY DEF LinkBeforeLoss
  <2>1. ToldSound(m_CurConv[n], syn[n], told[n])
    BY NodeIs DEF NodeSound
  <2>2. k \in Nat
    BY <2>1 DEF ToldSound
  <2> QED BY <2>1, <2>2 DEF ToldSound
<1> QED BY <1>1, KkConnInductive, PTL

(* m_ConIPInfoMap of an endpoint that only accepts: an id leads to the     *)
(* live entry that has it, and no two entries share one.                   *)
THEOREM MapsAlwaysAgree == Spec => []MapsAgree
<1>1. IInv => MapsAgree
  <2> SUFFICES ASSUME IInv, NEW n \in Passive
               PROVE  /\ DOMAIN key2[n] = {e.conv : e \in {f \in Infos(n) : f.kcp # 0}}
                      /\ \A k \in DOMAIN key2[n] :
                           Alive(n, key2[n][k]) /\ info[n][key2[n][k].peer].conv = k
                      /\ \A p, q \in DOMAIN info[n] : info[n][p].conv = info[n][q].conv => p = q
    BY DEF MapsAgree
  <2>1. n \in Nodes /\ NodeSound(n, info[n], key2[n], m_CurConv[n], syn[n], told[n], acked)
    BY NodeIs DEF Passive
  <2>2. \A p \in DOMAIN info[n] : Own(n, p, info[n][p])
    BY DEF Own, Passive
  <2>3. KeysSound(info[n], key2[n])
    BY <2>1 DEF NodeSound
  <2>4. \A p, q \in DOMAIN info[n] : info[n][p].conv = info[n][q].conv => p = q
    BY <2>1, <2>2 DEF NodeSound
  <2>5. \A k \in DOMAIN key2[n] : Alive(n, key2[n][k]) /\ info[n][key2[n][k].peer].conv = k
    <3> TAKE k \in DOMAIN key2[n]
    <3>1. PICK p \in DOMAIN info[n] : info[n][p].kcp # 0 /\ info[n][p].conv = k
      BY <2>3 DEF KeysSound
    <3>2. key2[n][k] = [peer |-> p, born |-> info[n][p].born]
      BY <2>3, <3>1 DEF KeysSound
    <3> QED BY <3>1, <3>2 DEF Alive, HasInfo
  <2>6. DOMAIN key2[n] = {e.conv : e \in {f \in Infos(n) : f.kcp # 0}}
    <3>1. \A k \in DOMAIN key2[n] : \E e \in Infos(n) : e.kcp # 0 /\ e.conv = k
      BY <2>3 DEF KeysSound, Infos
    <3>2. \A e \in Infos(n) : e.kcp # 0 => e.conv \in DOMAIN key2[n]
      <4>1. \A p \in DOMAIN info[n] : info[n][p].kcp # 0 => info[n][p].conv \in DOMAIN key2[n]
        BY <2>3 DEF KeysSound
      <4> QED BY <4>1 DEF Infos
    <3> QED BY <3>1, <3>2
  <2> QED BY <2>4, <2>5, <2>6
<1> QED BY <1>1, KkConnInductive, PTL

-----------------------------------------------------------------------------
(* When no two endpoints dial each other: a node is a client of another or *)
(* its server.                                                             *)
OneWay == \A d \in Dials : <<d[2], d[1]>> \notin Dials

LEMMA Accepting ==
  ASSUME OneWay, IInv, NEW n \in Nodes, NEW p \in DOMAIN info[n]
  PROVE  ~ info[n][p].sponsor <=> <<n, p>> \notin Dials
<1>1. IF info[n][p].sponsor THEN <<n, p>> \in Dials ELSE <<p, n>> \in Dials
  BY NodeIs DEF NodeSound, EntrySound
<1>2. <<p, n>> \in Dials => <<n, p>> \notin Dials
  BY DEF OneWay
<1> QED BY <1>1, <1>2

(* KKACK (KKKcp.cpp:807-840): an accepting endpoint has a link with an id  *)
(* only if the dialing one acknowledged that id.                           *)
THEOREM ThreeWayAlways == OneWay => (Spec => []ThreeWay)
<1> SUFFICES ASSUME OneWay
             PROVE  Spec => []ThreeWay
  OBVIOUS
<1>1. IInv => ThreeWay
  <2> SUFFICES ASSUME IInv, NEW n \in Nodes, NEW p \in Nodes, Linked(n, p), ~ info[n][p].sponsor
               PROVE  <<n, info[n][p].conv>> \in acked[p]
    BY DEF ThreeWay
  <2>1. p \in DOMAIN info[n] /\ info[n][p].state = "Link"
    BY DEF Linked, HasInfo
  <2>2. <<n, p>> \notin Dials
    BY <2>1, Accepting
  <2>3. StateSound(n, p, info[n][p], told[n], acked)
    BY <2>1, NodeIs DEF NodeSound, EntrySound
  <2> QED BY <2>1, <2>2, <2>3 DEF StateSound
<1> QED BY <1>1, KkConnInductive, PTL

(* Entries keep their control block, or get none.                          *)
BlocksKept ==
  \A n \in Nodes : \A p \in DOMAIN info[n] :
    p \in DOMAIN info'[n] => info'[n][p].kcp \in {0, info[n][p].kcp}

LEMMA SetBlocks ==
  ASSUME IInv, NEW n \in Nodes, NEW p \in Nodes, NEW f, SetInfo(n, p, f),
         p \in DOMAIN info[n] => f.kcp = 0 \/ Touch(info[n][p], f)
  PROVE  BlocksKept
<1>1. /\ info'[n] = Put(info[n], p, f) /\ \A q \in Nodes \ {n} : info'[q] = info[q]
  BY SetInfoIs DEF IInv, Shape
<1>2. \A q \in DOMAIN info[n] : info'[n][q] = IF q = p THEN f ELSE info[n][q]
  BY <1>1 DEF Put
<1>3. p \in DOMAIN info[n] => f.kcp \in {0, info[n][p].kcp}
  BY DEF Touch
<1> QED BY <1>1, <1>2, <1>3 DEF BlocksKept

LEMMA AddrBlocks ==
  ASSUME IInv, NEW n \in Nodes, NEW p \in Nodes, DisConnectAddr(n, p)
  PROVE  BlocksKept
<1> DEFINE f == [info[n][p] EXCEPT !.state = "AutoDisConnect", !.sendAge = 0]
<1>1. p \in DOMAIN info[n] /\ info[n][p] \in KcpInfo /\ SetInfo(n, p, f)
  BY InfoIs DEF DisConnectAddr, HasInfo
<1>2. Touch(info[n][p], f)
  BY <1>1, Touches
<1> HIDE DEF f
<1> QED BY <1>1, <1>2, SetBlocks

LEMMA SendBlocks ==
  ASSUME IInv, NEW n \in Nodes, NEW k \in DOMAIN key2[n], StablySend(n, k)
  PROVE  BlocksKept
<1> DEFINE q == key2[n][k].peer
           f == [info[n][q] EXCEPT !.sendAge = 0]
<1>1. q \in DOMAIN info[n] /\ q \in Nodes /\ info[n][q] \in KcpInfo /\ SetInfo(n, q, f)
  BY InfoIs DEF StablySend, Alive, HasInfo
<1>2. Touch(info[n][q], f)
  BY <1>1, Touches
<1> HIDE DEF f, q
<1> QED BY <1>1, <1>2, SetBlocks

LEMMA ConnMgrBlocks ==
  ASSUME IInv, NEW n \in Nodes, NEW p \in Nodes, ConnMgr(n, p)
  PROVE  BlocksKept
<1> DEFINE e == info[n][p]
           f == [e EXCEPT !.handShake = @ + 1, !.sendAge = 0, !.recAge = 0]
<1>1. p \in DOMAIN info[n] /\ e \in KcpInfo
  BY InfoIs DEF ConnMgr, HasInfo
<1>2. \/ FreeKcpInfo(n, p)
      \/ Retry(e) /\ SetInfo(n, p, f)
      \/ SetInfo(n, p, AfterHeart(e))
      \/ info' = info
  BY DEF ConnMgr
<1>3. CASE FreeKcpInfo(n, p)
  BY <1>3 DEF FreeKcpInfo, Key1Del, Without, BlocksKept, IInv, Shape
<1>4. CASE Retry(e) /\ SetInfo(n, p, f)
  <2>1. e.handShake \in {0, 1}
    BY <1>4 DEF Retry
  <2>2. Touch(e, f)
    <3> HIDE DEF e
    <3> QED BY <1>1, <2>1, RetryTouches
  <2> HIDE DEF f
  <2> QED BY <1>4, <2>2, SetBlocks
<1>5. CASE SetInfo(n, p, AfterHeart(e))
  <2>1. Touch(e, AfterHeart(e))
    <3> HIDE DEF e
    <3> QED BY <1>1, Touches DEF AfterHeart
  <2> QED BY <1>5, <2>1, SetBlocks
<1>6. CASE info' = info
  BY <1>6 DEF BlocksKept
<1> QED BY <1>2, <1>3, <1>4, <1>5, <1>6

LEMMA DownBlocks ==
  ASSUME IInv, NEW n \in Nodes, Down(n)
  PROVE  BlocksKept
<1>1. DOMAIN EmptyMap = {}
  BY DEF EmptyMap
<1>2. info' = [info EXCEPT ![n] = EmptyMap]
  BY DEF Down
<1> HIDE DEF EmptyMap
<1> QED BY <1>1, <1>2 DEF BlocksKept, IInv, Shape

LEMMA ReceiveBlocks ==
  ASSUME IInv, NEW n \in Nodes, NEW m \in net, OnHeart(n, m) \/ OnDisConnect(n, m) \/ OnKcp(n, m)
  PROVE  BlocksKept
<1>1. CASE OnHeart(n, m)
  <2> DEFINE p == key2[n][m.conv].peer
             e == info[n][p]
             f == IF e.sponsor THEN [e EXCEPT !.sendAge = 0, !.recAge = 0] ELSE [e EXCEPT !.sendAge = 0]
  <2>1. \/ info' = info \/ Down(n)
        \/ p \in DOMAIN info[n] /\ SetInfo(n, p, f)
    BY <1>1 DEF OnHeart, mapVars, Alive, HasInfo
  <2>2. CASE p \in DOMAIN info[n] /\ SetInfo(n, p, f)
    <3>1. p \in Nodes /\ e \in KcpInfo
      BY <2>2, InfoIs
    <3>2. Touch(e, f)
      <4> HIDE DEF e
      <4> QED BY <3>1, Touches
    <3> HIDE DEF f, p
    <3> QED BY <2>2, <3>1, <3>2, SetBlocks
  <2>3. CASE info' = info
    BY <2>3 DEF BlocksKept
  <2> QED BY <2>1, <2>2, <2>3, DownBlocks
<1>2. CASE OnDisConnect(n, m)
  <2> DEFINE p == m.src
             f == [info[n][p] EXCEPT !.state = "AutoDisConnect"]
  <2>1. info' = info \/ (p \in DOMAIN info[n] /\ SetInfo(n, p, f))
    BY <1>2 DEF OnDisConnect, HasInfo
  <2>2. CASE info' = info
    BY <2>2 DEF BlocksKept
  <2>3. CASE p \in DOMAIN info[n] /\ SetInfo(n, p, f)
    <3>1. p \in Nodes /\ info[n][p] \in KcpInfo
      BY <2>3, InfoIs
    <3>2. Touch(info[n][p], f)
      BY <3>1, Touches
    <3> HIDE DEF f, p
    <3> QED BY <2>3, <3>1, <3>2, SetBlocks
  <2> QED BY <2>1, <2>2, <2>3
<1>3. CASE OnKcp(n, m)
  <2> DEFINE p == m.src
             H == Heard(info[n][p], m)
             f == [info[n][p] EXCEPT !.sendAge = 0, !.recAge = 0, !.heard = H]
  <2>1. info' = info \/ (p \in DOMAIN info[n] /\ SetInfo(n, p, f))
    BY <1>3 DEF OnKcp, HasInfo
  <2>2. CASE info' = info
    BY <2>2 DEF BlocksKept
  <2>3. CASE p \in DOMAIN info[n] /\ SetInfo(n, p, f)
    <3>1. p \in Nodes /\ info[n][p] \in KcpInfo
      BY <2>3, InfoIs
    <3>2. H \in SUBSET Nat
      <4>1. m.kcp \in Nat
        BY DEF IInv, MsgSound, Datagram
      <4> QED BY <3>1, <4>1 DEF Heard, KcpInfo
    <3> HIDE DEF H
    <3>3. Touch(info[n][p], f)
      BY <3>1, <3>2, HeardTouches
    <3> HIDE DEF f, p
    <3> QED BY <2>3, <3>1, <3>3, SetBlocks
  <2> QED BY <2>1, <2>2, <2>3
<1> QED BY <1>1, <1>2, <1>3

LEMMA SynAckSponsor ==
  ASSUME OneWay, IInv, NEW n \in Nodes, NEW m \in net, OnSynAck(n, m)
  PROVE  \A q \in Nodes : \A p \in DOMAIN info[q] :
           p \in DOMAIN info'[q] =>
             info'[q][p].sponsor \/ info'[q][p].kcp \in {0, info[q][p].kcp}
<1> DEFINE p == m.src
           f == SynAcked(info[n][p], m.conv, blocks[n])
<1>1. PICK left : /\ Deliver(n, m, "SYNACK", left)
                  /\ Down(n) \/ (p \in DOMAIN info[n] /\ SetInfo(n, p, f))
  BY DEF OnSynAck, SynAcked, HasInfo, Abort
<1>2. <<n, p>> \in Dials /\ p \in Nodes
  BY <1>1, DeliverIs DEF MsgSound
<1>3. CASE Down(n)
  BY <1>3, DownBlocks DEF BlocksKept
<1>4. CASE p \in DOMAIN info[n] /\ SetInfo(n, p, f)
  <2>1. info[n][p] \in KcpInfo /\ info[n][p].sponsor
    BY <1>2, <1>4, InfoIs, Accepting
  <2>2. f.sponsor
    <3>1. m.conv \in Nat /\ blocks[n] \in Nat
      BY <1>1, DeliverIs DEF IInv, Shape
    <3>2. f.sponsor = info[n][p].sponsor
      <4> DEFINE e == info[n][p]
                 v == m.conv
      <4>1. f = SynAcked(e, v, blocks[n]) /\ e \in KcpInfo /\ v \in Nat
        BY <2>1, <3>1
      <4> HIDE DEF e, v, f
      <4>2. f.sponsor = e.sponsor
        BY <4>1 DEF SynAcked, KcpInfo
      <4> QED BY <4>2 DEF e
    <3> QED BY <2>1, <3>2
  <2>3. /\ info'[n] = Put(info[n], p, f) /\ \A q \in Nodes \ {n} : info'[q] = info[q]
    BY <1>4, SetInfoIs DEF IInv, Shape
  <2> HIDE DEF f
  <2>4. \A q \in DOMAIN info[n] : info'[n][q] = IF q = p THEN f ELSE info[n][q]
    BY <2>3 DEF Put
  <2> QED BY <2>2, <2>3, <2>4
<1> QED BY <1>1, <1>3, <1>4

LEMMA AckAnnounces ==
  ASSUME IInv, NEW n \in Nodes, NEW m \in net, OnAck(n, m)
  PROVE  \/ BlocksKept
         \/ /\ <<"LinkIncoming", info'[n][m.src].conv>> \notin told[n]
            /\ \A q \in Nodes : \A p \in DOMAIN info[q] :
                 <<q, p>> # <<n, m.src>> => info'[q][p] = info[q][p]
<1> DEFINE p == m.src
           h == [info[n][p] EXCEPT !.sendAge = 0]
           f == [h EXCEPT !.state = "Link", !.kcp = blocks[n] + 1, !.heard = {}, !.k2 = h.conv]
<1>1. \/ Down(n)
      \/ /\ p \in DOMAIN info[n]
         /\ IF Completes(h, m) THEN SetInfo(n, p, f) ELSE SetInfo(n, p, h)
  BY DEF OnAck, HasInfo, Abort
<1>2. CASE Down(n)
  BY <1>2, DownBlocks
<1>3. CASE p \in DOMAIN info[n] /\ ~ Completes(h, m) /\ SetInfo(n, p, h)
  <2>1. p \in Nodes /\ info[n][p] \in KcpInfo
    BY <1>3, InfoIs
  <2>2. Touch(info[n][p], h)
    BY <2>1, Touches
  <2> HIDE DEF h, p
  <2> QED BY <1>3, <2>1, <2>2, SetBlocks
<1>4. CASE p \in DOMAIN info[n] /\ Completes(h, m) /\ SetInfo(n, p, f)
  <2>1. p \in Nodes /\ info[n][p] \in KcpInfo
    BY <1>4, InfoIs
  <2>2. h.conv = info[n][p].conv /\ h.state = info[n][p].state
    BY <2>1, AgeOnly
  <2>3. /\ info[n][p].state = "SYNACK"
        /\ StateSound(n, p, info[n][p], told[n], acked)
    BY <1>4, <2>2, NodeIs DEF Completes, NodeSound, EntrySound
  <2>4. f.conv = h.conv
    <3>1. h \in KcpInfo
      BY <2>1, Touches DEF Touch
    <3> HIDE DEF h
    <3> QED BY <3>1 DEF KcpInfo
  <2>5. <<"LinkIncoming", f.conv>> \notin told[n]
    BY <2>2, <2>3, <2>4 DEF StateSound
  <2> HIDE DEF f, h
  <2>6. /\ info'[n] = Put(info[n], p, f) /\ \A q \in Nodes \ {n} : info'[q] = info[q]
    BY <1>4, SetInfoIs DEF IInv, Shape
  <2>7. /\ info'[n][p] = f
        /\ \A q \in DOMAIN info[n] : q # p => info'[n][q] = info[n][q]
    BY <2>6 DEF Put
  <2> QED BY <2>5, <2>6, <2>7
<1> QED BY <1>1, <1>2, <1>3, <1>4

\* Everything else leaves the control blocks alone.
LEMMA OtherBlocks ==
  ASSUME IInv, [Next]_vars,
         ~ \E n \in Nodes : \E m \in net : OnAck(n, m) \/ OnSynAck(n, m)
  PROVE  BlocksKept
<1>1. CASE Tick
  <2>1. \A n \in Nodes : info'[n] = [p \in DOMAIN info[n] |-> Older(info[n][p])]
    BY <1>1 DEF Tick
  <2>2. \A n \in Nodes : \A p \in DOMAIN info[n] :
          info'[n][p] = Older(info[n][p]) /\ Touch(info[n][p], Older(info[n][p]))
    BY <2>1, InfoIs, OlderTouches
  <2> QED BY <2>2 DEF BlocksKept, Touch
<1>2. CASE \/ UNCHANGED vars \/ \E m \in net : Lose(m)
           \/ \E n \in Nodes : HandleCmd(n) \/ Start(n)
           \/ \E n \in Nodes : \E k \in DOMAIN key2[n] : DisConnectId(n, k)
           \/ \E n \in Nodes : \E m \in net : OnSyn(n, m) \/ OnNotice(n, m) \/ OnLink(n, m)
  <2>1. CASE \E n \in Nodes : \E m \in net : OnLink(n, m)
    <3> PICK n \in Nodes, m \in net : OnLink(n, m)
      BY <2>1
    <3> DEFINE p == m.src
               f == LinkAccepted(info[n][p])
    <3>1. info' = info \/ (p \in DOMAIN info[n] /\ SetInfo(n, p, f))
      BY DEF OnLink, LinkAccepted, HasInfo
    <3>2. CASE info' = info
      BY <3>2 DEF BlocksKept
    <3>3. CASE p \in DOMAIN info[n] /\ SetInfo(n, p, f)
      <4>1. info[n][p] \in KcpInfo
        BY <3>3, InfoIs
      <4>2. f.kcp = info[n][p].kcp
        BY <4>1 DEF LinkAccepted, KcpInfo
      <4> HIDE DEF f
      <4>3. /\ info'[n] = Put(info[n], p, f) /\ \A q \in Nodes \ {n} : info'[q] = info[q]
        BY <3>3, SetInfoIs DEF IInv, Shape
      <4>4. \A q \in DOMAIN info[n] : info'[n][q] = IF q = p THEN f ELSE info[n][q]
        BY <4>3 DEF Put
      <4> QED BY <4>2, <4>3, <4>4 DEF BlocksKept
    <3> QED BY <3>1, <3>2, <3>3
  <2>2. CASE ~ \E n \in Nodes : \E m \in net : OnLink(n, m)
    <3>1. info' = info
      BY <1>2, <2>2 DEF vars, mapVars, Lose, HandleCmd, Start, DisConnectId, OnSyn, OnNotice
    <3> QED BY <3>1 DEF BlocksKept
  <2> QED BY <2>1, <2>2
<1>3. CASE \E n \in Nodes : AcceptSyn(n) \/ Stop(n) \/ Crash(n)
  <2> PICK n \in Nodes : AcceptSyn(n) \/ Stop(n) \/ Crash(n)
    BY <1>3
  <2>1. CASE AcceptSyn(n)
    <3> DEFINE p == syn[n]
               f == NewInfo(p, m_CurConv[n], "SYNACK", FALSE)
    <3>1. p \in Nodes /\ SetInfo(n, p, f)
      BY <2>1 DEF AcceptSyn, IInv, Shape
    <3>2. f.kcp = 0
      BY DEF NewInfo
    <3> HIDE DEF f, p
    <3> QED BY <3>1, <3>2, SetBlocks
  <2> QED BY <2>1, DownBlocks DEF Stop, Crash
<1>4. CASE \E n, p \in Nodes : Connect(n, p) \/ ConnMgr(n, p)
  <2> PICK n \in Nodes, p \in Nodes : Connect(n, p) \/ ConnMgr(n, p)
    BY <1>4
  <2>1. CASE Connect(n, p)
    <3>1. p \notin DOMAIN info[n] /\ SetInfo(n, p, NewInfo(p, m_CurConv[n] + 1, "SYN", TRUE))
      BY <2>1 DEF Connect, HasInfo
    <3> QED BY <3>1, SetBlocks
  <2> QED BY <2>1, ConnMgrBlocks
<1>5. CASE \E n, p \in Nodes : DisConnectAddr(n, p)
  <2> PICK n \in Nodes, p \in Nodes : DisConnectAddr(n, p)
    BY <1>5
  <2> QED BY AddrBlocks
<1>6. CASE \E n \in Nodes : \E k \in DOMAIN key2[n] : StablySend(n, k)
  BY <1>6, SendBlocks
<1>7. CASE \E n \in Nodes : \E m \in net : OnHeart(n, m) \/ OnDisConnect(n, m) \/ OnKcp(n, m)
  BY <1>7, ReceiveBlocks
<1> QED BY <1>1, <1>2, <1>3, <1>4, <1>5, <1>6, <1>7 DEF Next, Receive

(* KKACK (KKKcp.cpp:807-840): an id is announced as incoming, and its      *)
(* entry given a control block, only once.                                 *)
THEOREM IncomingOnceAlways == OneWay => (Spec => IncomingOnce)
<1> SUFFICES ASSUME OneWay
             PROVE  Spec => IncomingOnce
  OBVIOUS
<1> DEFINE A == \A n, p \in Nodes :
                  (/\ HasInfo(n, p) /\ HasInfo(n, p)' /\ ~info'[n][p].sponsor
                   /\ info'[n][p].kcp \notin {0, info[n][p].kcp}) =>
                     <<"LinkIncoming", info'[n][p].conv>> \notin told[n]
<1>1. IInv /\ [Next]_vars => A
  <2> SUFFICES ASSUME IInv, [Next]_vars, NEW n \in Nodes, NEW p \in Nodes,
                      p \in DOMAIN info[n], p \in DOMAIN info'[n], ~ info'[n][p].sponsor,
                      info'[n][p].kcp \notin {0, info[n][p].kcp}
               PROVE  <<"LinkIncoming", info'[n][p].conv>> \notin told[n]
    BY DEF HasInfo
  <2>1. ~ BlocksKept
    BY DEF BlocksKept
  <2>2. CASE \E a \in Nodes : \E m \in net : OnAck(a, m)
    <3> PICK a \in Nodes, m \in net : OnAck(a, m)
      BY <2>2
    <3>1. /\ <<"LinkIncoming", info'[a][m.src].conv>> \notin told[a]
          /\ \A q \in Nodes : \A r \in DOMAIN info[q] :
               <<q, r>> # <<a, m.src>> => info'[q][r] = info[q][r]
      BY <2>1, AckAnnounces
    <3>2. n = a /\ p = m.src
      BY <3>1
    <3> QED BY <3>1, <3>2
  <2>3. CASE \E a \in Nodes : \E m \in net : OnSynAck(a, m)
    BY <2>3, SynAckSponsor
  <2> QED BY <2>1, <2>2, <2>3, OtherBlocks
<1>2. IInv /\ [Next]_vars => [A]_vars
  BY <1>1
<1> QED BY <1>2, KkConnInductive, PTL DEF IncomingOnce, Spec

-----------------------------------------------------------------------------
(* The relay server and its clients.                                       *)

Party   == Clients \cup {Rel!None}
LinkRec == [self: Rel!Ids, dest: Rel!Ids, peer: Party, sponsor: BOOLEAN]
Message == [kind: Rel!Kinds, from: Party, to: Party, self: Rel!Ids, dest: Rel!Ids, by: Party]

(* TypeOK, with what a link and a datagram consist of.                     *)
Typed == Rel!TypeOK /\ links \in [Clients -> SUBSET LinkRec] /\ relayNet \in SUBSET Message

(* An id that m_IdSet has not was never given.                             *)
GivenMarked == \A n \in Rel!Ids \ taken : holder[n] = Rel!None

(* What a datagram says of ids stays true while it is under way, however    *)
(* late it comes and whoever lost its id since.                            *)
RelayMsgSound(m) ==
  /\ m.to = Rel!None => m.from \in Clients
  /\ m.kind = "id" => m.to \in Clients /\ holder[m.self] = m.to
  /\ m.kind \in {"syn", "synack"} =>
       /\ m.by \in Clients /\ Rel!Held(m.self, m.by) /\ m.dest > 0
       /\ m.to # Rel!None => holder[m.dest] = m.to
  /\ m.kind = "synack" => m.self > 0
NetSound == \A m \in relayNet : RelayMsgSound(m)

LinkSound(c, l) == Rel!Held(l.self, c) /\ (l.peer # Rel!None => holder[l.dest] = l.peer)

RelayIInv == Typed /\ GivenMarked /\ NetSound /\ Rel!Relayed

(* Every set of naturals that has a member has a least one.                *)
LEMMA LeastOf ==
  ASSUME NEW K \in SUBSET Nat, K # {}
  PROVE  Rel!FX!Min(K) \in K /\ \A k \in K : Rel!FX!Min(K) <= k
<1>1. PICK x \in K : \A y \in K : ~ (<<y, x>> \in OpToRel(<, Nat))
  BY NatLessThanWellFounded, WFMin
<1>2. ASSUME NEW y \in K
      PROVE  x <= y
  <2>1. x \in Nat /\ y \in Nat
    OBVIOUS
  <2>2. y < x => <<y, x>> \in OpToRel(<, Nat)
    <3>1. <<y, x>> \in Nat \X Nat /\ <<y, x>>[1] = y /\ <<y, x>>[2] = x
      BY <2>1
    <3> QED BY <3>1, Zenon DEF OpToRel
  <2>3. ~ (y < x)
    BY <1>1, <2>2, Zenon
  <2> QED BY <2>1, <2>3
<1> QED
  BY <1>2 DEF Rel!FX!Min

(* Going round from n every id is reached.                                 *)
LEMMA RoundReaches ==
  ASSUME Rel!Sensible, NEW n \in Rel!Ids, NEW m \in Rel!Ids
  PROVE  \E k \in Rel!Ids : (n + k) % (MaxId + 1) = m
<1>1. MaxId \in Nat /\ n \in 0 .. MaxId /\ m \in 0 .. MaxId
  BY DEF Rel!Sensible, Rel!Ids
<1>2. \A M \in Nat \ {0} : \A x \in 0 .. (M - 1) : x % M = x /\ (x + M) % M = x
  OBVIOUS
<1>3. MaxId + 1 \in Nat \ {0} /\ m \in 0 .. (MaxId + 1) - 1
  BY <1>1
<1>4. m % (MaxId + 1) = m /\ (m + (MaxId + 1)) % (MaxId + 1) = m
  BY <1>2, <1>3, Zenon
<1>5. CASE m >= n
  <2>1. m - n \in Rel!Ids /\ n + (m - n) = m
    BY <1>1, <1>5 DEF Rel!Ids
  <2> QED BY <1>4, <2>1
<1>6. CASE m < n
  <2>1. m + (MaxId + 1) - n \in Rel!Ids /\ n + (m + (MaxId + 1) - n) = m + (MaxId + 1)
    BY <1>1, <1>6 DEF Rel!Ids
  <2> QED BY <1>4, <2>1, Zenon
<1> QED BY <1>1, <1>5, <1>6

(* The search of the server ends with an id that was never given, as long   *)
(* as there is one.                                                        *)
LEMMA FreeFromFinds ==
  ASSUME Rel!Sensible, NEW n \in Rel!Ids, NEW S \in SUBSET Rel!Ids, S # Rel!Ids
  PROVE  Rel!FreeFrom(n, S) \in Rel!Ids \ S
<1> DEFINE K == {k \in Rel!Ids : (n + k) % (MaxId + 1) \notin S}
<1>1. PICK m \in Rel!Ids : m \notin S
  OBVIOUS
<1>2. PICK k \in Rel!Ids : (n + k) % (MaxId + 1) = m
  BY RoundReaches
<1>3a. K \in SUBSET Nat
  BY DEF Rel!Ids, Rel!Sensible
<1>3b. k \in K
  BY <1>1, <1>2, Zenon
<1>3. K # {} /\ K \in SUBSET Nat
  BY <1>3a, <1>3b, Zenon
<1>4. Rel!FX!Min(K) \in K
  BY <1>3, LeastOf, Zenon
<1> DEFINE x == Rel!FX!Min(K)
<1>5. Rel!FreeFrom(n, S) = (n + x) % (MaxId + 1)
  BY DEF Rel!FreeFrom
<1>6. x \in Rel!Ids /\ (n + x) % (MaxId + 1) \notin S
  BY <1>4
<1> HIDE DEF x
<1>7. (n + x) % (MaxId + 1) \in Rel!Ids
  BY <1>6 DEF Rel!Ids, Rel!Sensible
<1> QED BY <1>5, <1>6, <1>7

-----------------------------------------------------------------------------
(* What stays true when ids are only ever given for the first time.        *)

(* holder is only added to.                                                *)
Remembered == \A n \in Rel!Ids : holder[n] # Rel!None => holder'[n] = holder[n]

(* So a datagram or a link that was sound stays sound.                     *)
LEMMA StaySound ==
  ASSUME Rel!Sensible, RelayIInv, Remembered
  PROVE  /\ \A m \in relayNet : RelayMsgSound(m)'
         /\ \A c \in Clients : \A l \in links[c] : LinkSound(c, l)'
         /\ \A c \in Clients, n \in Rel!Ids : Rel!Held(n, c) => Rel!Held(n, c)'
<1>1. Rel!None \notin Clients
  BY DEF Rel!Sensible
<1>2. \A c \in Clients, n \in Rel!Ids : holder[n] = c => holder'[n] = c
  BY <1>1 DEF Remembered
<1>3. \A c \in Clients, n \in Rel!Ids : Rel!Held(n, c) => Rel!Held(n, c)'
  BY <1>2 DEF Rel!Held
<1>4. ASSUME NEW m \in relayNet
      PROVE  RelayMsgSound(m)'
  <2>1. m \in Message /\ RelayMsgSound(m)
    BY DEF RelayIInv, Typed, NetSound
  <2>2. m.self \in Rel!Ids /\ m.dest \in Rel!Ids /\ m.to \in Clients \cup {Rel!None}
    BY <2>1 DEF Message, Party
  <2> QED BY <1>2, <1>3, <2>1, <2>2 DEF RelayMsgSound
<1>5. ASSUME NEW c \in Clients, NEW l \in links[c]
      PROVE  LinkSound(c, l)'
  <2>1. l \in LinkRec /\ LinkSound(c, l)
    BY DEF RelayIInv, Typed, Rel!Relayed, Rel!EndsAgree, LinkSound
  <2>2. l.self \in Rel!Ids /\ l.dest \in Rel!Ids /\ l.peer \in Clients \cup {Rel!None}
    BY <2>1 DEF LinkRec, Party
  <2> QED BY <1>2, <1>3, <2>1, <2>2 DEF LinkSound
<1> QED
  BY <1>3, <1>4, <1>5

(* Only GetTranId gives an id, and gives one that nobody had.              *)
LEMMA GetTranIdGives ==
  ASSUME Rel!Sensible, RelayIInv, NEW m \in relayNet, Rel!GetTranId(m)
  PROVE  \/ taken = Rel!Ids /\ UNCHANGED holder
         \/ \E n \in Rel!Ids \ taken :
              /\ holder[n] = Rel!None /\ holder' = [holder EXCEPT ![n] = m.from]
              /\ taken' = taken \cup {n} /\ next' = n
              /\ table' = [table EXCEPT ![m.from] = n] /\ fresh' = fresh \cup {m.from}
              /\ Rel!Sent({Rel!Datagram("id", Rel!None, m.from, n, 0, Rel!None)}) /\ hung' = hung
<1>1. next \in Rel!Ids /\ taken \in SUBSET Rel!Ids /\ holder \in [Rel!Ids -> Clients \cup {Rel!None}]
  BY DEF RelayIInv, Typed, Rel!TypeOK
<1>2. CASE taken = Rel!Ids
  BY <1>2 DEF Rel!GetTranId
<1>3. CASE taken # Rel!Ids
  <2> DEFINE n == Rel!FreeFrom(next, taken)
  <2>1. n \in Rel!Ids \ taken
    BY <1>1, <1>3, FreeFromFinds, Zenon
  <2>2. /\ next' = n /\ taken' = taken \cup {n}
        /\ table' = [table EXCEPT ![m.from] = n] /\ fresh' = fresh \cup {m.from}
        /\ holder' = [holder EXCEPT ![n] = IF @ = Rel!None THEN m.from ELSE @]
        /\ Rel!Sent({Rel!Datagram("id", Rel!None, m.from, n, 0, Rel!None)}) /\ hung' = hung
    BY <1>3 DEF Rel!GetTranId
  <2> HIDE DEF n
  <2>3. holder[n] = Rel!None
    BY <2>1 DEF RelayIInv, GivenMarked
  <2>4. holder' = [holder EXCEPT ![n] = m.from]
    BY <2>2, <2>3
  <2> QED BY <2>1, <2>2, <2>3, <2>4, Zenon
<1> QED BY <1>2, <1>3

LEMMA NextRemembers ==
  ASSUME Rel!Sensible, RelayIInv, [Rel!Next]_(Rel!vars)
  PROVE  Remembered /\ GivenMarked'
<1>1. holder \in [Rel!Ids -> Clients \cup {Rel!None}] /\ taken \in SUBSET Rel!Ids
  BY DEF RelayIInv, Typed, Rel!TypeOK
<1>2. CASE \E m \in relayNet : Rel!GetTranId(m)
  <2>1. PICK m \in relayNet : Rel!GetTranId(m)
    BY <1>2
  <2>2. CASE taken = Rel!Ids /\ UNCHANGED holder
    BY <2>1, <2>2 DEF Remembered, GivenMarked, Rel!GetTranId
  <2>3. CASE \E n \in Rel!Ids \ taken :
               /\ holder[n] = Rel!None /\ holder' = [holder EXCEPT ![n] = m.from]
               /\ taken' = taken \cup {n}
    BY <1>1, <2>3 DEF Remembered, GivenMarked, RelayIInv
  <2> QED BY <2>1, <2>2, <2>3, GetTranIdGives, Zenon
<1>3. CASE UNCHANGED <<holder, taken>>
  BY <1>3 DEF Remembered, GivenMarked, RelayIInv
<1>4. \/ \E m \in relayNet : Rel!GetTranId(m)
      \/ UNCHANGED <<holder, taken>>
  BY ZenonT(60) DEF Rel!Next, Rel!Age, Rel!Sweep, Rel!Freed, Rel!GetTranId_known,
         Rel!DelTranId, Rel!Heart, Rel!Forward,
         Rel!ConnectTranServer, Rel!AskTranId, Rel!FreeRelay, Rel!DisConnect,
         Rel!LinkHeart, Rel!FreeLink,
         Rel!Connect, Rel!TranIdOk, Rel!Syn, Rel!SynAck, Rel!server, Rel!vars
<1> QED BY <1>2, <1>3, <1>4

-----------------------------------------------------------------------------
(* Types.                                                                  *)

ServerType ==
  /\ table \in [Clients -> Rel!Ids \cup {Rel!NoId}] /\ fresh \in SUBSET Clients
  /\ taken \in SUBSET Rel!Ids /\ next \in Rel!Ids /\ hung \in BOOLEAN
  /\ holder \in [Rel!Ids -> Clients \cup {Rel!None}]
ClientType ==
  /\ relay \in [Clients -> {Rel!None, "GetTranId", "TranIdOk", "AutoDisConnect", "SYNACK"}]
  /\ tries \in [Clients -> 0..3] /\ own \in [Clients -> Rel!Ids]
RestType ==
  /\ links \in [Clients -> SUBSET LinkRec] /\ relayCalls \in 0..MaxRelayCalls
  /\ relayNet \in SUBSET Message /\ Rel!Cardinality(relayNet) <= MaxRelayNet

LEMMA TypedIs == Typed <=> ServerType /\ ClientType /\ RestType
<1>1. ASSUME RestType
      PROVE  /\ \A c \in Clients : \A l \in links[c] :
                  {l.self, l.dest} \subseteq Rel!Ids /\ l.peer \in Clients \cup {Rel!None}
             /\ \A m \in relayNet : m.kind \in Rel!Kinds /\ {m.from, m.to} \subseteq Clients \cup {Rel!None}
  <2>1. \A c \in Clients : \A l \in links[c] : l \in LinkRec
    BY <1>1 DEF RestType
  <2>2. \A l \in LinkRec : l.self \in Rel!Ids /\ l.dest \in Rel!Ids /\ l.peer \in Clients \cup {Rel!None}
    BY DEF LinkRec, Party
  <2>3. \A m \in Message : m.kind \in Rel!Kinds /\ m.from \in Clients \cup {Rel!None} /\ m.to \in Clients \cup {Rel!None}
    BY DEF Message, Party
  <2>4. \A m \in relayNet : m \in Message
    BY <1>1 DEF RestType
  <2> QED BY <2>1, <2>2, <2>3, <2>4
<1>2. Typed => ServerType /\ ClientType /\ RestType
  BY DEF Typed, Rel!TypeOK, ServerType, ClientType, RestType
<1>3. ServerType /\ ClientType /\ RestType => Typed
  BY <1>1 DEF Typed, Rel!TypeOK, ServerType, ClientType, RestType
<1> QED BY <1>2, <1>3

(* A datagram's fields.                                                    *)
LEMMA Fields ==
  ASSUME RelayIInv, NEW m \in relayNet
  PROVE  /\ m \in Message /\ RelayMsgSound(m) /\ m.self \in Rel!Ids /\ m.dest \in Rel!Ids
         /\ m.from \in Party /\ m.to \in Party /\ m.by \in Party
         /\ m.to = Rel!None => m.from \in Clients
         /\ m.kind \in {"syn", "synack"} => m.by \in Clients
<1>1. m \in Message /\ RelayMsgSound(m)
  BY DEF RelayIInv, Typed, NetSound
<1> QED BY <1>1 DEF Message, RelayMsgSound

LEMMA DatagramType ==
  ASSUME NEW kind \in Rel!Kinds, NEW from \in Party, NEW to \in Party,
         NEW self \in Rel!Ids, NEW dest \in Rel!Ids, NEW by \in Party
  PROVE  Rel!Datagram(kind, from, to, self, dest, by) \in Message
BY DEF Rel!Datagram, Message

LEMMA ServerTypeStep ==
  ASSUME Rel!Sensible, RelayIInv, [Rel!Next]_(Rel!vars)
  PROVE  ServerType'
<1>1. ServerType /\ (MaxId \in Nat /\ 0 \in Rel!Ids)
  BY TypedIs DEF RelayIInv, Rel!Sensible, Rel!Ids
<1>2. CASE \E m \in relayNet : Rel!GetTranId(m)
  <2>1. PICK m \in relayNet : Rel!GetTranId(m)
    BY <1>2
  <2>2. m.from \in Clients
    BY <2>1, Fields DEF Rel!GetTranId, Rel!At
  <2>3. CASE taken = Rel!Ids /\ UNCHANGED holder
    BY <1>1, <2>1, <2>3 DEF ServerType, Rel!GetTranId
  <2>4. CASE \E n \in Rel!Ids \ taken :
               /\ holder[n] = Rel!None /\ holder' = [holder EXCEPT ![n] = m.from]
               /\ taken' = taken \cup {n} /\ next' = n
               /\ table' = [table EXCEPT ![m.from] = n] /\ fresh' = fresh \cup {m.from}
               /\ hung' = hung
    BY <1>1, <2>2, <2>4 DEF ServerType
  <2> QED BY <2>1, <2>3, <2>4, GetTranIdGives, Zenon
<1>3. CASE \E m \in relayNet : Rel!GetTranId_known(m) \/ Rel!Heart(m) \/ Rel!Forward(m)
  <2>1. PICK m \in relayNet : Rel!GetTranId_known(m) \/ Rel!Heart(m) \/ Rel!Forward(m)
    BY <1>3
  <2>2. /\ m.from \in Clients /\ fresh' = fresh \cup {m.from}
        /\ UNCHANGED <<table, taken, next, hung, holder>>
    BY <2>1, Fields DEF Rel!GetTranId_known, Rel!Heart, Rel!Forward, Rel!At
  <2> QED BY <1>1, <2>2 DEF ServerType
<1>4. CASE Rel!Sweep \/ \E m \in relayNet : Rel!DelTranId(m)
  BY <1>1, <1>4 DEF ServerType, Rel!Sweep, Rel!DelTranId, Rel!Freed
<1>5. CASE Rel!Age
  BY <1>1, <1>5 DEF ServerType, Rel!Age
<1>6. CASE UNCHANGED Rel!server
  BY <1>1, <1>6 DEF ServerType, Rel!server
<1>7. \/ \E m \in relayNet : Rel!GetTranId(m)
      \/ \E m \in relayNet : Rel!GetTranId_known(m) \/ Rel!Heart(m) \/ Rel!Forward(m)
      \/ Rel!Sweep \/ \E m \in relayNet : Rel!DelTranId(m)
      \/ Rel!Age \/ UNCHANGED Rel!server
  BY DEF Rel!Next, Rel!ConnectTranServer, Rel!AskTranId, Rel!FreeRelay, Rel!DisConnect,
         Rel!LinkHeart,
         Rel!FreeLink, Rel!Connect, Rel!TranIdOk, Rel!Syn, Rel!SynAck, Rel!vars
<1> QED BY <1>2, <1>3, <1>4, <1>5, <1>6, <1>7

LEMMA ClientTypeStep ==
  ASSUME Rel!Sensible, RelayIInv, [Rel!Next]_(Rel!vars)
  PROVE  ClientType'
<1>1. ClientType /\ 0 \in Rel!Ids
  BY TypedIs DEF RelayIInv, Rel!Sensible, Rel!Ids
<1>2. ASSUME NEW c \in Clients, NEW s \in {Rel!None, "GetTranId", "TranIdOk", "AutoDisConnect", "SYNACK"},
             NEW n \in 0..3, NEW id \in Rel!Ids, Rel!Become(c, s, n, id)
      PROVE  ClientType'
  BY <1>1, <1>2 DEF ClientType, Rel!Become
<1>3. ASSUME NEW c \in Clients, \/ Rel!ConnectTranServer(c) \/ Rel!FreeRelay(c)
                                \/ \E m \in relayNet : Rel!Syn(c, m) /\ ~ (m.self > 0)
      PROVE  ClientType'
  <2>1. \E s \in {Rel!None, "GetTranId", "TranIdOk", "AutoDisConnect", "SYNACK"} : Rel!Become(c, s, 0, 0)
    BY <1>3 DEF Rel!ConnectTranServer, Rel!FreeRelay, Rel!Syn
  <2> QED BY <1>1, <1>2, <2>1
<1>4. ASSUME NEW c \in Clients, Rel!AskTranId(c)
      PROVE  ClientType'
  <2>1. /\ Rel!Become(c, relay[c], tries[c] + 1, own[c]) /\ tries[c] < 3
        /\ relay[c] \in {Rel!None, "GetTranId", "TranIdOk", "AutoDisConnect", "SYNACK"}
        /\ tries[c] \in 0..3 /\ own[c] \in Rel!Ids
    BY <1>1, <1>4 DEF Rel!AskTranId, ClientType
  <2> QED BY <1>2, <2>1
<1>5. ASSUME NEW c \in Clients, NEW m \in relayNet, Rel!TranIdOk(c, m)
      PROVE  ClientType'
  BY <1>2, <1>5, Fields DEF Rel!TranIdOk
<1>6. ASSUME NEW c \in Clients, Rel!DisConnect(c)
      PROVE  ClientType'
  <2>1. own[c] \in Rel!Ids
    BY <1>1 DEF ClientType
  <2> QED BY <1>2, <1>6, <2>1 DEF Rel!DisConnect
<1>7. CASE UNCHANGED Rel!client
  BY <1>1, <1>7 DEF ClientType, Rel!client
<1>8. \/ \E c \in Clients : \/ Rel!ConnectTranServer(c) \/ Rel!FreeRelay(c)
                            \/ Rel!AskTranId(c) \/ Rel!DisConnect(c)
                            \/ \E m \in relayNet : Rel!TranIdOk(c, m)
                            \/ \E m \in relayNet : Rel!Syn(c, m) /\ ~ (m.self > 0)
      \/ UNCHANGED Rel!client
  <2>1. ASSUME NEW c \in Clients, NEW m \in relayNet, Rel!Syn(c, m)
        PROVE  UNCHANGED Rel!client \/ ~ (m.self > 0)
    BY <2>1 DEF Rel!Syn
  <2> QED
    BY <2>1 DEF Rel!Next, Rel!Age, Rel!Sweep, Rel!GetTranId_known, Rel!GetTranId,
           Rel!DelTranId, Rel!Heart, Rel!Forward,
           Rel!LinkHeart, Rel!FreeLink, Rel!Connect, Rel!SynAck, Rel!vars
<1> QED BY <1>3, <1>4, <1>5, <1>6, <1>7, <1>8

-----------------------------------------------------------------------------
(* Datagrams.                                                              *)

(* Every datagram that a step sends is sound.                              *)
LEMMA SentSound ==
  ASSUME Rel!Sensible, RelayIInv, [Rel!Next]_(Rel!vars), NEW m \in relayNet', m \notin relayNet
  PROVE  m \in Message /\ RelayMsgSound(m)'
<1>1. /\ ServerType /\ ClientType /\ Rel!None \notin Clients /\ 0 \in Rel!Ids /\ Rel!None \in Party
      /\ \A c \in Clients : c \in Party
  BY TypedIs DEF RelayIInv, Rel!Sensible, Rel!Ids, Party
<1>2. /\ \A c \in Clients : table[c] # Rel!NoId => table[c] \in Rel!Ids /\ holder[table[c]] = c
      /\ \A c \in Clients : own[c] \in Rel!Ids /\ Rel!Held(own[c], c)
  BY <1>1 DEF RelayIInv, Rel!Relayed, Rel!IdsKept, ServerType, ClientType
<1>3. ASSUME NEW d \in relayNet, Rel!GetTranId_known(d)
      PROVE  m \in Message /\ RelayMsgSound(m)'
  <2>1. /\ d.from \in Clients /\ table[d.from] \in Rel!Ids /\ holder'[table[d.from]] = d.from
        /\ m = Rel!Datagram("id", Rel!None, d.from, table[d.from], 0, Rel!None)
    BY <1>2, <1>3, Fields DEF Rel!GetTranId_known, Rel!At, Rel!Sent
  <2> QED BY <1>1, <2>1 DEF Rel!Datagram, Message, RelayMsgSound, Rel!Kinds
<1>4. ASSUME NEW d \in relayNet, Rel!GetTranId(d)
      PROVE  m \in Message /\ RelayMsgSound(m)'
  <2>1. d.from \in Clients
    BY <1>4, Fields DEF Rel!GetTranId, Rel!At
  <2>2. taken # Rel!Ids
    BY <1>4 DEF Rel!GetTranId, Rel!Quiet
  <2>3. PICK n \in Rel!Ids \ taken :
           /\ holder' = [holder EXCEPT ![n] = d.from]
           /\ Rel!Sent({Rel!Datagram("id", Rel!None, d.from, n, 0, Rel!None)})
    BY <1>4, <2>2, GetTranIdGives, Zenon
  <2>4. n \in Rel!Ids /\ holder'[n] = d.from /\ m = Rel!Datagram("id", Rel!None, d.from, n, 0, Rel!None)
    BY <1>1, <2>3 DEF ServerType, Rel!Sent
  <2> QED BY <1>1, <2>1, <2>4 DEF Rel!Datagram, Message, RelayMsgSound, Rel!Kinds
<1>5. ASSUME NEW d \in relayNet, Rel!Forward(d)
      PROVE  m \in Message /\ RelayMsgSound(m)'
  <2>1. PICK c \in Clients : table[c] = d.dest /\ m = [d EXCEPT !.to = c]
    BY <1>5 DEF Rel!Forward, Rel!Sent, Rel!Quiet
  <2>2. /\ d \in Message /\ RelayMsgSound(d)' /\ d.dest \in Rel!Ids /\ d.kind \in {"syn", "synack"}
        /\ holder' = holder
    BY <1>5, Fields DEF Rel!Forward, Rel!At, RelayMsgSound, Rel!Held
  <2>3. d.dest # Rel!NoId
    BY <2>2 DEF Rel!Ids, Rel!NoId, Rel!Sensible
  <2>4. holder[d.dest] = c
    BY <1>2, <2>1, <2>3
  <2>5. /\ m \in Message /\ m.to = c /\ m.kind = d.kind /\ m.by = d.by
        /\ m.self = d.self /\ m.dest = d.dest
    BY <1>1, <2>1, <2>2 DEF Message
  <2> QED BY <1>1, <2>2, <2>4, <2>5 DEF RelayMsgSound, Rel!Held
<1>6. ASSUME NEW c \in Clients, Rel!AskTranId(c) \/ Rel!DisConnect(c) \/ Rel!LinkHeart(c)
      PROVE  m \in Message /\ RelayMsgSound(m)'
  <2>1. \E kind \in {"get", "del", "heart"} : m = Rel!Plain(kind, c)
    BY <1>6 DEF Rel!AskTranId, Rel!DisConnect, Rel!LinkHeart, Rel!Sent, Rel!Quiet
  <2> QED BY <1>1, <2>1 DEF Rel!Plain, Rel!Datagram, Message, RelayMsgSound, Rel!Kinds
<1>7. ASSUME NEW c \in Clients, NEW kind \in {"syn", "synack"},
             NEW self \in Rel!Ids, NEW dest \in Rel!Ids, Rel!Held(self, c), holder' = holder,
             m \in Rel!Wrapped(kind, c, self, dest), kind = "synack" => self > 0
      PROVE  m \in Message /\ RelayMsgSound(m)'
  <2>1. dest > 0 /\ m = Rel!Datagram(kind, c, Rel!None, self, dest, c)
    BY <1>7 DEF Rel!Wrapped
  <2> QED BY <1>1, <1>7, <2>1 DEF Rel!Datagram, Message, RelayMsgSound, Rel!Kinds, Rel!Held
<1>8. ASSUME NEW c \in Clients, NEW n \in Rel!Ids, Rel!Connect(c, n)
      PROVE  m \in Message /\ RelayMsgSound(m)'
  <2>1. m \in Rel!Wrapped("syn", c, own[c], n) /\ holder' = holder
    BY <1>8 DEF Rel!Connect, Rel!Sent, Rel!server
  <2> QED BY <1>2, <1>7, <2>1
<1>9. ASSUME NEW c \in Clients, NEW d \in relayNet, Rel!Syn(c, d)
      PROVE  m \in Message /\ RelayMsgSound(m)'
  <2>1. m \in Rel!Wrapped("synack", c, d.dest, d.self) /\ holder' = holder
    BY <1>9 DEF Rel!Syn, Rel!Sent, Rel!Quiet, Rel!server
  <2>2. /\ d.self \in Rel!Ids /\ d.dest \in Rel!Ids /\ holder[d.dest] = c /\ d.dest > 0
    BY <1>1, <1>9, Fields DEF Rel!Syn, RelayMsgSound
  <2> QED BY <1>7, <2>1, <2>2 DEF Rel!Held
<1>10. \/ \E d \in relayNet : Rel!GetTranId_known(d) \/ Rel!GetTranId(d) \/ Rel!Forward(d)
       \/ \E c \in Clients :
            \/ Rel!AskTranId(c) \/ Rel!DisConnect(c) \/ Rel!LinkHeart(c)
            \/ \E n \in Rel!Ids : Rel!Connect(c, n)
            \/ \E d \in relayNet : Rel!Syn(c, d)
  BY DEF Rel!Next, Rel!Age, Rel!Sweep, Rel!DelTranId, Rel!Heart, Rel!ConnectTranServer,
         Rel!FreeRelay, Rel!FreeLink,
         Rel!TranIdOk, Rel!SynAck, Rel!Quiet, Rel!vars
<1> QED BY <1>3, <1>4, <1>5, <1>6, <1>8, <1>9, <1>10

LEMMA NetStep ==
  ASSUME Rel!Sensible, RelayIInv, [Rel!Next]_(Rel!vars)
  PROVE  /\ NetSound' /\ relayNet' \in SUBSET Message
         /\ Rel!Cardinality(relayNet') <= MaxRelayNet
<1>1. \A m \in relayNet' : m \in Message /\ RelayMsgSound(m)'
  <2>1. \A m \in relayNet : m \in Message /\ RelayMsgSound(m)'
    BY StaySound, NextRemembers, Fields
  <2> QED BY <2>1, SentSound
<1>2. Rel!Cardinality(relayNet') <= MaxRelayNet
  <2>1. Rel!Cardinality(relayNet) <= MaxRelayNet
    BY DEF RelayIInv, Typed, Rel!TypeOK
  <2> QED
    BY <2>1, ZenonT(60) DEF Rel!Next, Rel!Age, Rel!Sweep, Rel!GetTranId_known,
           Rel!GetTranId, Rel!DelTranId, Rel!Heart, Rel!Forward,
           Rel!ConnectTranServer, Rel!AskTranId, Rel!FreeRelay, Rel!DisConnect,
           Rel!LinkHeart, Rel!FreeLink,
           Rel!Connect, Rel!TranIdOk, Rel!Syn, Rel!SynAck, Rel!Sent, Rel!Quiet, Rel!vars
<1> QED BY <1>1, <1>2 DEF NetSound

-----------------------------------------------------------------------------
(* Ids and links.                                                          *)

HeldNext(n, c) == n = 0 \/ holder'[n] = c

(* Nobody has an id that was another's, in the table or for its own.       *)
LEMMA IdsStep ==
  ASSUME Rel!Sensible, RelayIInv, [Rel!Next]_(Rel!vars)
  PROVE  Rel!IdsKept'
<1>1. /\ ServerType /\ ClientType /\ Rel!None \notin Clients
      /\ \A c \in Clients : table[c] # Rel!NoId => table[c] \in Rel!Ids
      /\ \A c \in Clients : own[c] \in Rel!Ids
  BY TypedIs DEF RelayIInv, Rel!Sensible, ServerType, ClientType
<1>2. /\ \A c \in Clients : table[c] # Rel!NoId => holder'[table[c]] = c
      /\ \A c \in Clients : HeldNext(own[c], c)
  <2>1. /\ \A c \in Clients : table[c] # Rel!NoId => holder[table[c]] = c
        /\ \A c \in Clients : Rel!Held(own[c], c)
    BY DEF RelayIInv, Rel!Relayed, Rel!IdsKept
  <2>2. \A c \in Clients, n \in Rel!Ids : (holder[n] = c => holder'[n] = c)
    BY <1>1, NextRemembers DEF Remembered
  <2> QED BY <1>1, <2>1, <2>2 DEF Rel!Held, HeldNext
<1>3. \A c \in Clients : table'[c] # Rel!NoId => holder'[table'[c]] = c
  <2>1. CASE \E m \in relayNet : Rel!GetTranId(m)
    <3>1. PICK m \in relayNet : Rel!GetTranId(m)
      BY <2>1
    <3>2. m.from \in Clients
      BY <3>1, Fields DEF Rel!GetTranId, Rel!At
    <3>3. CASE taken = Rel!Ids
      BY <1>2, <3>1, <3>3 DEF Rel!GetTranId
    <3>4. CASE \E n \in Rel!Ids \ taken :
                 /\ holder' = [holder EXCEPT ![n] = m.from]
                 /\ table' = [table EXCEPT ![m.from] = n]
      BY <1>1, <1>2, <3>2, <3>4 DEF ServerType
    <3> QED BY <3>1, <3>3, <3>4, GetTranIdGives, Zenon
  <2>2. CASE Rel!Sweep \/ \E m \in relayNet : Rel!DelTranId(m)
    BY <1>2, <2>2 DEF Rel!Sweep, Rel!DelTranId, Rel!Freed
  <2>3. CASE UNCHANGED table
    BY <1>2, <2>3
  <2>4. \/ \E m \in relayNet : Rel!GetTranId(m)
        \/ Rel!Sweep \/ \E m \in relayNet : Rel!DelTranId(m)
        \/ UNCHANGED table
    BY ZenonT(60) DEF Rel!Next, Rel!Age, Rel!GetTranId_known, Rel!Heart, Rel!Forward,
           Rel!ConnectTranServer, Rel!AskTranId,
           Rel!FreeRelay, Rel!DisConnect, Rel!LinkHeart, Rel!FreeLink, Rel!Connect,
           Rel!TranIdOk, Rel!Syn, Rel!SynAck,
           Rel!server, Rel!vars
  <2> QED BY <2>1, <2>2, <2>3, <2>4
<1>4. \A c \in Clients : HeldNext(own'[c], c)
  <2>1. ASSUME NEW c \in Clients, NEW s, NEW n, NEW id \in Rel!Ids, Rel!Become(c, s, n, id), HeldNext(id, c)
        PROVE  \A d \in Clients : HeldNext(own'[d], d)
    BY <1>1, <1>2, <2>1 DEF ClientType, Rel!Become
  <2>2. 0 \in Rel!Ids /\ \A c \in Clients : HeldNext(0, c)
    BY DEF HeldNext, Rel!Sensible, Rel!Ids
  <2>3. ASSUME NEW c \in Clients, \E s, n : Rel!Become(c, s, n, 0) \/ Rel!Become(c, s, n, own[c])
        PROVE  \A d \in Clients : HeldNext(own'[d], d)
    BY <1>1, <1>2, <2>1, <2>2, <2>3
  <2>4. ASSUME NEW c \in Clients, NEW m \in relayNet, Rel!TranIdOk(c, m)
        PROVE  \A d \in Clients : HeldNext(own'[d], d)
    <3>1. m.self \in Rel!Ids /\ holder[m.self] = c /\ holder' = holder
      BY <2>4, Fields DEF Rel!TranIdOk, RelayMsgSound, Rel!server
    <3>2. HeldNext(m.self, c)
      BY <3>1 DEF HeldNext
    <3> QED BY <2>1, <2>4, <3>1, <3>2 DEF Rel!TranIdOk
  <2>5. CASE UNCHANGED own
    BY <1>2, <2>5
  <2>6. ASSUME NEW c \in Clients, NEW m \in relayNet, Rel!Syn(c, m)
        PROVE  UNCHANGED own \/ Rel!Become(c, "SYNACK", 0, 0)
    BY <2>6 DEF Rel!Syn, Rel!client
  <2>7. \/ \E c \in Clients :
             \/ \E s, n : Rel!Become(c, s, n, 0) \/ Rel!Become(c, s, n, own[c])
             \/ \E m \in relayNet : Rel!TranIdOk(c, m)
        \/ UNCHANGED own
    BY <2>6 DEF Rel!Next, Rel!Age, Rel!Sweep, Rel!GetTranId_known, Rel!GetTranId,
           Rel!DelTranId, Rel!Heart, Rel!Forward,
           Rel!ConnectTranServer, Rel!AskTranId, Rel!FreeRelay, Rel!DisConnect,
           Rel!LinkHeart, Rel!FreeLink,
           Rel!Connect, Rel!SynAck, Rel!client, Rel!vars
  <2> QED BY <2>3, <2>4, <2>5, <2>7
<1>5. hung' => taken' = Rel!Ids
  <2>1. hung => taken = Rel!Ids
    BY DEF RelayIInv, Rel!Relayed, Rel!IdsKept
  <2> QED
    BY <2>1, ZenonT(60) DEF Rel!Next, Rel!Age, Rel!Sweep, Rel!GetTranId_known,
           Rel!GetTranId, Rel!DelTranId, Rel!Heart, Rel!Forward, Rel!At,
           Rel!Freed, Rel!ConnectTranServer, Rel!AskTranId, Rel!FreeRelay,
           Rel!DisConnect, Rel!LinkHeart, Rel!FreeLink,
           Rel!Connect, Rel!TranIdOk, Rel!Syn, Rel!SynAck, Rel!server, Rel!vars
<1> QED BY <1>3, <1>4, <1>5 DEF Rel!IdsKept, Rel!Held, HeldNext

(* A link that a step makes or changes is sound.                           *)
LEMMA LinksStep ==
  ASSUME Rel!Sensible, RelayIInv, [Rel!Next]_(Rel!vars)
  PROVE  links' \in [Clients -> SUBSET LinkRec] /\ Rel!EndsAgree'
<1>1. /\ links \in [Clients -> SUBSET LinkRec] /\ ClientType /\ Rel!None \notin Clients
      /\ Rel!None \in Party /\ \A c \in Clients : c \in Party
  BY TypedIs DEF RelayIInv, RestType, Rel!Sensible, Party
<1>2. \A c \in Clients : \A l \in links[c] : l \in LinkRec /\ LinkSound(c, l)'
  BY <1>1, StaySound, NextRemembers
<1>3. ASSUME NEW c \in Clients, NEW L \in SUBSET LinkRec,
             links' = [links EXCEPT ![c] = L],
             \A l \in L : LinkSound(c, l)'
      PROVE  links' \in [Clients -> SUBSET LinkRec] /\ Rel!EndsAgree'
  <2>1. links' \in [Clients -> SUBSET LinkRec]
    BY <1>1, <1>3
  <2>2. \A d \in Clients : \A l \in links'[d] : LinkSound(d, l)'
    BY <1>1, <1>2, <1>3
  <2> QED BY <2>1, <2>2 DEF Rel!EndsAgree, LinkSound, Rel!Held
<1>4. ASSUME NEW c \in Clients, NEW n \in Rel!Ids, Rel!Connect(c, n)
      PROVE  links' \in [Clients -> SUBSET LinkRec] /\ Rel!EndsAgree'
  <2> DEFINE l == Rel!Link(own[c], n, Rel!None, TRUE)
             L == links[c] \cup {l}
  <2>1. own[c] \in Rel!Ids /\ Rel!Held(own[c], c) /\ holder' = holder
    BY <1>1, <1>4 DEF ClientType, RelayIInv, Rel!Relayed, Rel!IdsKept, Rel!Connect,
           Rel!server
  <2>2. l \in LinkRec /\ l.self = own[c] /\ l.peer = Rel!None
    BY <1>1, <2>1 DEF Rel!Link, LinkRec
  <2>3. l.self = 0 \/ holder'[l.self] = c
    BY <2>1, <2>2 DEF Rel!Held
  <2>4. links' = [links EXCEPT ![c] = L]
    BY <1>1, <1>4 DEF Rel!Connect
  <2> HIDE DEF l
  <2>5. \A k \in L : k \in LinkRec /\ LinkSound(c, k)'
    BY <1>2, <2>2, <2>3 DEF LinkSound, Rel!Held
  <2> QED BY <1>3, <2>4, <2>5
<1>5. ASSUME NEW c \in Clients, NEW m \in relayNet, Rel!Syn(c, m), m.self > 0
      PROVE  links' \in [Clients -> SUBSET LinkRec] /\ Rel!EndsAgree'
  <2> DEFINE l == Rel!Link(m.dest, m.self, m.by, FALSE)
             L == {k \in links[c] : k.dest # m.self} \cup {l}
  <2>1. /\ m.self \in Rel!Ids /\ m.dest \in Rel!Ids /\ m.by \in Clients /\ holder[m.dest] = c
        /\ holder[m.self] = m.by /\ holder' = holder
    BY <1>1, <1>5, Fields DEF Rel!Syn, RelayMsgSound, Rel!Held, Rel!server
  <2>2. l \in LinkRec /\ LinkSound(c, l)'
    BY <1>1, <2>1 DEF Rel!Link, LinkRec, LinkSound, Rel!Held
  <2>3. links' = [links EXCEPT ![c] = L]
    BY <1>1, <1>5 DEF Rel!Syn
  <2>4. L \in SUBSET LinkRec /\ \A k \in L : LinkSound(c, k)'
    BY <1>2, <2>2
  <2> QED BY <1>3, <2>3, <2>4
<1>6. ASSUME NEW c \in Clients, NEW m \in relayNet, Rel!SynAck(c, m)
      PROVE  links' \in [Clients -> SUBSET LinkRec] /\ Rel!EndsAgree'
  <2>1. PICK l \in links[c] :
           /\ l.dest = m.self
           /\ links' = [links EXCEPT ![c] = (@ \ {l}) \cup {[l EXCEPT !.peer = m.by]}]
    BY <1>6 DEF Rel!SynAck
  <2> DEFINE k == [l EXCEPT !.peer = m.by]
             L == (links[c] \ {l}) \cup {k}
  <2>2. /\ m.self \in Rel!Ids /\ m.self > 0 /\ m.by \in Clients
        /\ holder[m.self] = m.by /\ holder' = holder
    BY <1>6, Fields DEF Rel!SynAck, RelayMsgSound, Rel!Held, Rel!server
  <2>3. l \in LinkRec /\ LinkSound(c, l)'
    BY <1>2
  <2>4. k \in LinkRec /\ k.self = l.self /\ k.dest = l.dest /\ k.peer = m.by
    BY <1>1, <2>2, <2>3 DEF LinkRec
  <2>5. LinkSound(c, k)'
    BY <2>1, <2>2, <2>3, <2>4 DEF LinkSound
  <2>6. links' = [links EXCEPT ![c] = L]
    BY <1>1, <2>1
  <2>7. L \in SUBSET LinkRec /\ \A j \in L : LinkSound(c, j)'
    BY <1>2, <2>4, <2>5
  <2> QED BY <1>3, <2>6, <2>7
<1>7. ASSUME NEW c \in Clients, Rel!FreeLink(c)
      PROVE  links' \in [Clients -> SUBSET LinkRec] /\ Rel!EndsAgree'
  <2>1. PICK l \in links[c] : links' = [links EXCEPT ![c] = @ \ {l}]
    BY <1>7 DEF Rel!FreeLink
  <2>2. links' = [links EXCEPT ![c] = links[c] \ {l}]
    BY <1>1, <2>1
  <2> QED BY <1>2, <1>3, <2>2
<1>8. CASE UNCHANGED links
  BY <1>1, <1>2, <1>8 DEF Rel!EndsAgree, LinkSound, Rel!Held
<1>9. \/ \E c \in Clients :
           \/ \E n \in Rel!Ids : Rel!Connect(c, n)
           \/ \E m \in relayNet : (Rel!Syn(c, m) /\ m.self > 0) \/ Rel!SynAck(c, m)
           \/ Rel!FreeLink(c)
      \/ UNCHANGED links
  <2>1. ASSUME NEW c \in Clients, NEW m \in relayNet, Rel!Syn(c, m)
        PROVE  UNCHANGED links \/ m.self > 0
    BY <2>1 DEF Rel!Syn
  <2> QED
    BY <2>1 DEF Rel!Next, Rel!Age, Rel!Sweep, Rel!GetTranId_known, Rel!GetTranId,
           Rel!DelTranId, Rel!Heart, Rel!Forward,
           Rel!ConnectTranServer, Rel!AskTranId, Rel!FreeRelay, Rel!DisConnect,
           Rel!LinkHeart, Rel!TranIdOk, Rel!vars
<1> QED BY <1>4, <1>5, <1>6, <1>7, <1>8, <1>9

-----------------------------------------------------------------------------
(* The theorems.                                                           *)

LEMMA InitIInv ==
  ASSUME Rel!Sensible, Rel!Init
  PROVE  RelayIInv
<1>1. 0 \in Rel!Ids /\ 1 % (MaxId + 1) \in Rel!Ids /\ MaxRelayCalls \in Nat /\ MaxRelayNet \in Nat
  BY DEF Rel!Sensible, Rel!Ids
<1>2. Rel!Cardinality(relayNet) <= MaxRelayNet
  <2>1. Rel!Cardinality({}) = 0
    BY FS_EmptySet DEF Cardinality, Rel!Cardinality
  <2> QED BY <1>1, <2>1 DEF Rel!Init
<1>3. ServerType
  BY <1>1 DEF Rel!Init, ServerType
<1>4. ClientType
  BY <1>1 DEF Rel!Init, ClientType
<1>5. RestType
  BY <1>1, <1>2 DEF Rel!Init, RestType
<1>6. GivenMarked /\ NetSound /\ Rel!Relayed
  BY DEF Rel!Init, GivenMarked, NetSound, Rel!Relayed, Rel!IdsKept, Rel!EndsAgree,
         Rel!Held
<1> QED BY <1>3, <1>4, <1>5, <1>6, TypedIs DEF RelayIInv

LEMMA NextIInv ==
  ASSUME Rel!Sensible, RelayIInv, [Rel!Next]_(Rel!vars)
  PROVE  RelayIInv'
<1>1. relayCalls' \in 0..MaxRelayCalls
  <2>1. relayCalls \in 0..MaxRelayCalls /\ MaxRelayCalls \in Nat
    BY DEF RelayIInv, Typed, Rel!TypeOK, Rel!Sensible
  <2>2. relayCalls' = relayCalls \/ (relayCalls < MaxRelayCalls /\ relayCalls' = relayCalls + 1)
    BY DEF Rel!Next, Rel!Age, Rel!Sweep, Rel!GetTranId_known, Rel!GetTranId,
           Rel!DelTranId, Rel!Heart, Rel!Forward,
           Rel!ConnectTranServer, Rel!AskTranId, Rel!FreeRelay, Rel!DisConnect,
           Rel!LinkHeart, Rel!FreeLink,
           Rel!Connect, Rel!TranIdOk, Rel!Syn, Rel!SynAck, Rel!Called, Rel!vars
  <2> QED BY <2>1, <2>2
<1>2. ServerType' /\ ClientType' /\ RestType'
  BY <1>1, ServerTypeStep, ClientTypeStep, NetStep, LinksStep DEF RestType
<1>3. (Typed <=> ServerType /\ ClientType /\ RestType)'
  BY TypedIs, PTL
<1> QED BY <1>2, <1>3, NextRemembers, NetStep, IdsStep, LinksStep DEF RelayIInv, Rel!Relayed

(* Every reachable state of the server, its clients and the network is one *)
(* of the inductive invariant (TranServer.cpp, KKKcp.cpp).                 *)
THEOREM RelayInductive == Rel!Sensible => (Rel!Spec => []RelayIInv)
<1> SUFFICES ASSUME Rel!Sensible PROVE Rel!Spec => []RelayIInv
  OBVIOUS
<1>1. Rel!Init => RelayIInv
  BY InitIInv
<1>2. RelayIInv /\ [Rel!Next]_(Rel!vars) => RelayIInv'
  BY NextIInv
<1> QED BY <1>1, <1>2, PTL DEF Rel!Spec

(* Beside the direct connections the relay takes its own steps only.        *)
LEMMA SignallingRelay == SignallingSpec => Rel!Spec
<1>1. SignallingInit => Rel!Init
  BY DEF SignallingInit
<1>2. [SignallingNext]_signallingVars => [Rel!Next]_(Rel!vars)
  <2> SUFFICES ASSUME [SignallingNext]_signallingVars PROVE [Rel!Next]_(Rel!vars)
    OBVIOUS
  <2>1. CASE RelayStep
    BY <2>1 DEF RelayStep
  <2>2. CASE UNCHANGED relayVars
    BY <2>2 DEF relayVars, Rel!vars, Rel!server, Rel!client
  <2> QED
    BY <2>1, <2>2 DEF SignallingNext, signallingVars, DirectStep
<1> QED BY <1>1, <1>2, PTL DEF SignallingSpec, Rel!Spec

(* An id is never given to a second client or taken for its own by one it   *)
(* was not given to, though clients are freed and come back                 *)
(* (TranServer.cpp:137), and the two ends of a connection through the       *)
(* server mean each other however late or often datagrams arrive            *)
(* (KKKcp.cpp:743).                                                        *)
THEOREM RelayedAlways == SignallingSpec => []Relayed
<1>1. RelayIInv => Relayed
  BY DEF RelayIInv, Typed, Relayed
<1>2. SignallingSpec => []RelayIInv
  BY SignallingRelay, RelayInductive, RelaySensible, PTL
<1> QED BY <1>1, <1>2, PTL
==============================================================================
