-------------------------------- MODULE Relay --------------------------------
(***************************************************************************)
(* The relay server (TranServer.cpp) and what CKKkcp does with it          *)
(* (KKKcp.cpp): clients register and are given ids, and connect to one     *)
(* another by id, the server forwarding each datagram to the client that   *)
(* is registered under the destination's id.  Datagrams are lost,          *)
(* duplicated and reordered.  The handshake beyond SYN and SYNACK is in    *)
(* KkConn.                                                                 *)
(***************************************************************************)
EXTENDS Integers, FiniteSets

FX == INSTANCE FiniteSetsExt

CONSTANTS Clients,             \* addresses
          MaxId,               \* the largest id, 0xfffe in the code
          MaxCalls, MaxNet     \* bounds on the API's calls and on different datagrams

None == "none"
NoId == -1
Ids  == 0..MaxId

Sensible == None \notin Clients /\ {MaxId, MaxCalls, MaxNet} \subseteq Nat

VARIABLES
  table, fresh,      \* m_TranInfoMap, and whose Tick is not MaxTranTick old
  taken, next, hung, \* m_IdSet, m_Id, and the thread loops for ever in its search
  relay, tries, own, \* each client's entry for the server: State, HandShake, nTranId
  links,             \* each client's entries through the server
  net,               \* datagrams that were sent
  calls,
  holder             \* who was given an id first, for the property

server == <<table, fresh, taken, next, hung, holder>>
client == <<relay, tries, own>>
vars == <<server, client, links, net, calls>>

Kinds == {"get", "del", "heart", "id", "syn", "synack"}

TypeOK ==
  /\ table \in [Clients -> Ids \cup {NoId}] /\ fresh \subseteq Clients
  /\ taken \subseteq Ids /\ next \in Ids /\ hung \in BOOLEAN
  /\ relay \in [Clients -> {None, "GetTranId", "TranIdOk", "AutoDisConnect", "SYNACK"}]
  /\ tries \in [Clients -> 0..3] /\ own \in [Clients -> Ids]
  /\ \A c \in Clients : \A l \in links[c] : {l.self, l.dest} \subseteq Ids /\ l.peer \in Clients \cup {None}
  /\ \A m \in net : m.kind \in Kinds /\ {m.from, m.to} \subseteq Clients \cup {None}
  /\ calls \in 0..MaxCalls /\ Cardinality(net) <= MaxNet
  /\ holder \in [Ids -> Clients \cup {None}]

Init ==
  /\ table = [c \in Clients |-> NoId] /\ fresh = {} /\ taken = {} /\ next = 1 % (MaxId + 1) /\ hung = FALSE
  /\ relay = [c \in Clients |-> None] /\ tries = [c \in Clients |-> 0] /\ own = [c \in Clients |-> 0]
  /\ links = [c \in Clients |-> {}] /\ net = {} /\ calls = 0
  /\ holder = [n \in Ids |-> None]

-----------------------------------------------------------------------------
(* Datagrams.  The header of a forwarded one has the sender's id and the   *)
(* destination's; "by" is the client that sent it, for the property.  What  *)
(* was sent is received any number of times, at any time, or never.        *)

Datagram(kind, from, to, self, dest, by) ==
  [kind |-> kind, from |-> from, to |-> to, self |-> self, dest |-> dest, by |-> by]
Plain(kind, c) == Datagram(kind, c, None, 0, 0, c)

Sent(D) == net' = net \cup D /\ Cardinality(net') <= MaxNet
Quiet   == UNCHANGED net

\* SendSign: only a datagram to an id above 0 has the header of a forwarded
\* one; the server ignores any other KCP datagram.
Wrapped(kind, c, self, dest) ==
  IF dest > 0 THEN {Datagram(kind, c, None, self, dest, c)} ELSE {}

-----------------------------------------------------------------------------
(* The server.                                                             *)

At(m, kind) == ~hung /\ m \in net /\ m.to = None /\ m.kind = kind

\* The search from m_Id, upwards and round, for an id that was never given.
FreeFrom(n, S) == (n + FX!Min({k \in Ids : (n + k) % (MaxId + 1) \notin S})) % (MaxId + 1)

GetTranId_known(m) ==
  /\ At(m, "get") /\ table[m.from] # NoId
  /\ fresh' = fresh \cup {m.from}
  /\ Sent({Datagram("id", None, m.from, table[m.from], 0, None)})
  /\ UNCHANGED <<table, taken, next, hung, holder, client, links, calls>>

GetTranId(m) ==
  /\ At(m, "get") /\ table[m.from] = NoId
  /\ IF taken = Ids
     THEN hung' = TRUE /\ Quiet /\ UNCHANGED <<table, fresh, taken, next, holder>>
     ELSE LET n == FreeFrom(next, taken) IN
          /\ next' = n /\ taken' = taken \cup {n}
          /\ table' = [table EXCEPT ![m.from] = n] /\ fresh' = fresh \cup {m.from}
          /\ holder' = [holder EXCEPT ![n] = IF @ = None THEN m.from ELSE @]
          /\ Sent({Datagram("id", None, m.from, n, 0, None)})
          /\ UNCHANGED hung
  /\ UNCHANGED <<client, links, calls>>

\* The ids of the clients S are not taken out of m_IdSet.
Freed_released(S) ==
  /\ table' = [c \in Clients |-> IF c \in S THEN NoId ELSE table[c]]
  /\ taken' = taken \ {table[c] : c \in S}

Freed(S) ==
  /\ table' = [c \in Clients |-> IF c \in S THEN NoId ELSE table[c]]
  /\ UNCHANGED taken

DelTranId(m) ==
  /\ At(m, "del") /\ Freed({m.from}) /\ Quiet
  /\ UNCHANGED <<fresh, next, hung, holder, client, links, calls>>

Heart(m) ==
  /\ At(m, "heart") /\ table[m.from] # NoId /\ fresh' = fresh \cup {m.from} /\ Quiet
  /\ UNCHANGED <<table, taken, next, hung, holder, client, links, calls>>

\* The answers UDPUNTRANID and UDPUNDEFTRANID are ignored by the clients.
Forward(m) ==
  /\ \E kind \in {"syn", "synack"} : At(m, kind)
  /\ table[m.from] # NoId /\ fresh' = fresh \cup {m.from}
  /\ LET To == {c \in Clients : table[c] = m.dest} IN
     IF To = {} THEN Quiet ELSE \E c \in To : Sent({[m EXCEPT !.to = c]})
  /\ UNCHANGED <<table, taken, next, hung, holder, client, links, calls>>

\* MaxTranTick passes for a client; when no datagram came, all such are freed.
Age ==
  /\ \E c \in fresh : fresh' = fresh \ {c}
  /\ UNCHANGED <<table, taken, next, hung, holder, client, links, net, calls>>

Sweep ==
  /\ ~hung /\ \E c \in Clients \ fresh : table[c] # NoId
  /\ Freed(Clients \ fresh)
  /\ UNCHANGED <<fresh, next, hung, holder, client, links, net, calls>>

-----------------------------------------------------------------------------
(* A client.  Its timeouts come at any time; HandShake is read in          *)
(* KKGetTranId only, and is 0 here in any other state.                     *)

Called == calls < MaxCalls /\ calls' = calls + 1
Become(c, s, n, id) ==
  /\ relay' = [relay EXCEPT ![c] = s] /\ tries' = [tries EXCEPT ![c] = n]
  /\ own' = [own EXCEPT ![c] = id]

ConnectTranServer(c) ==
  /\ relay[c] = None /\ Called /\ Become(c, "GetTranId", 0, 0) /\ Quiet
  /\ UNCHANGED <<server, links>>

\* ConnMgrThread2: two requests, then a pause, then the entry is freed.
AskTranId(c) ==
  /\ relay[c] = "GetTranId" /\ tries[c] < 3
  /\ Become(c, relay[c], tries[c] + 1, own[c])
  /\ IF tries[c] < 2 THEN Sent({Plain("get", c)}) ELSE Quiet
  /\ UNCHANGED <<server, links, calls>>

\* The entry's time is over: nothing was got, DisConnect was called, or, as
\* nothing renews rectick, MaxHeartValue has passed.  The server is not told.
FreeRelay(c) ==
  /\ relay[c] # None /\ (relay[c] = "GetTranId" => tries[c] = 3)
  /\ Become(c, None, 0, 0) /\ Quiet /\ UNCHANGED <<server, links, calls>>

\* OnTranBufHandle: in any state.
TranIdOk(c, m) ==
  /\ m \in net /\ m.to = c /\ m.kind = "id" /\ relay[c] # None
  /\ Become(c, "TranIdOk", 0, m.self) /\ Quiet /\ UNCHANGED <<server, links, calls>>

DisConnect(c) ==
  /\ relay[c] \in {"GetTranId", "TranIdOk"} /\ Called
  /\ Become(c, "AutoDisConnect", 0, own[c])
  /\ IF own[c] > 0 THEN Sent({Plain("del", c)}) ELSE Quiet
  /\ UNCHANGED <<server, links>>

Link(self, dest, peer, sponsor) == [self |-> self, dest |-> dest, peer |-> peer, sponsor |-> sponsor]

\* Connect to an id that was given, with nTranId as the entry has it: 0 when
\* the server has not answered.
Connect(c, dest) ==
  /\ relay[c] # None /\ Called /\ holder[dest] \notin {None, c}
  /\ ~\E l \in links[c] : l.dest = dest
  /\ links' = [links EXCEPT ![c] = @ \cup {Link(own[c], dest, None, TRUE)}]
  /\ Sent(Wrapped("syn", c, own[c], dest))
  /\ UNCHANGED <<server, client>>

\* OnConHandle, KKSYN: the entry of the same key is replaced.  A SYN without an
\* id has the key of the entry for the server.
Syn(c, m) ==
  /\ m \in net /\ m.to = c /\ m.kind = "syn"
  /\ IF m.self > 0
     THEN /\ links' = [links EXCEPT ![c] = {l \in @ : l.dest # m.self} \cup {Link(m.dest, m.self, m.by, FALSE)}]
          /\ Sent(Wrapped("synack", c, m.dest, m.self))
          /\ UNCHANGED client
     ELSE Become(c, "SYNACK", 0, 0) /\ Quiet /\ UNCHANGED links
  /\ UNCHANGED <<server, calls>>

\* OnConHandle, KKSYNACK: the entry is found under the sender's id.
SynAck(c, m) ==
  /\ m \in net /\ m.to = c /\ m.kind = "synack"
  /\ \E l \in links[c] :
       /\ l.dest = m.self /\ l.sponsor
       /\ links' = [links EXCEPT ![c] = (@ \ {l}) \cup {[l EXCEPT !.peer = m.by]}]
  /\ Quiet /\ UNCHANGED <<server, client, calls>>

\* A connection of which nobody hears is kept alive towards the server, and
\* ends, as does one whose handshake or heartbeat fails.
LinkHeart(c) ==
  /\ \E l \in links[c] : ~l.sponsor
  /\ Sent({Plain("heart", c)}) /\ UNCHANGED <<server, client, links, calls>>

FreeLink(c) ==
  /\ \E l \in links[c] : links' = [links EXCEPT ![c] = @ \ {l}]
  /\ Quiet /\ UNCHANGED <<server, client, calls>>

Next ==
  \/ Age \/ Sweep
  \/ \E m \in net : GetTranId_known(m) \/ GetTranId(m) \/ DelTranId(m) \/ Heart(m) \/ Forward(m)
  \/ \E c \in Clients :
       \/ ConnectTranServer(c) \/ AskTranId(c) \/ FreeRelay(c) \/ DisConnect(c)
       \/ LinkHeart(c) \/ FreeLink(c)
       \/ \E n \in Ids : Connect(c, n)
       \/ \E m \in net : TranIdOk(c, m) \/ Syn(c, m) \/ SynAck(c, m)

Spec == Init /\ [][Next]_vars

-----------------------------------------------------------------------------
(* Properties.                                                             *)

Held(n, c) == n = 0 \/ holder[n] = c

\* An id is never given to a second client, though clients are freed and come
\* back, and a client never takes for its own an id that was another's; the
\* server's search ends for as long as one id was never given.
IdsKept ==
  /\ \A c \in Clients : table[c] # NoId => holder[table[c]] = c
  /\ \A c \in Clients : Held(own[c], c)
  /\ hung => taken = Ids

\* The two ends of a connection through the relay mean each other: what either
\* sends to the id it has for the other reaches that client or nobody.
EndsAgree ==
  \A c \in Clients : \A l \in links[c] :
    /\ Held(l.self, c)
    /\ l.peer # None => holder[l.dest] = l.peer

Relayed == IdsKept /\ EndsAgree
=============================================================================
