----------------------------- MODULE Signalling -----------------------------
(***************************************************************************)
(* The connections of servererizo and the relay server they may go through *)
(* (KKKcp.cpp, TranServer.cpp).  A CKKkcp that is registered with a relay   *)
(* has its direct connections beside the relayed ones: a step is one of    *)
(* KkConn or one of Relay.                                                 *)
(***************************************************************************)
EXTENDS KkConn

CONSTANTS Clients, MaxId, MaxRelayCalls, MaxRelayNet   \* of Relay

VARIABLES
  table, fresh, taken, next, hung, relay, tries, own, links, relayNet, relayCalls, holder

relayVars ==
  <<table, fresh, taken, next, hung, relay, tries, own, links, relayNet, relayCalls, holder>>
signallingVars == <<vars, relayVars>>

Rel == INSTANCE Relay WITH
  MaxCalls <- MaxRelayCalls, MaxNet <- MaxRelayNet, net <- relayNet, calls <- relayCalls

ASSUME RelaySensible == Rel!Sensible

SignallingInit == Init /\ Rel!Init

DirectStep == Next /\ UNCHANGED relayVars
RelayStep  == Rel!Next /\ UNCHANGED vars

SignallingNext == DirectStep \/ RelayStep

SignallingSpec == SignallingInit /\ [][SignallingNext]_signallingVars

\* An id of the relay is never another client's, and the two ends of a
\* connection through it mean each other (TranServer.cpp:137, KKKcp.cpp:743).
Relayed == Rel!TypeOK /\ Rel!Relayed
=============================================================================
