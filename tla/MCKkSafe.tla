------------------------------ MODULE MCKkSafe ------------------------------
(* What is safe about connections, as instances for TLC: a behaviour is one *)
(* of those the cfg gives, with two calls, or a call and a restart, but one  *)
(* datagram at a time; one handshake with two datagrams under way, of which *)
(* one may come twice, and two control blocks at each end (the variables    *)
(* that begin with h); or one of the relay server and its clients.          *)
EXTENDS Signalling, MCKkConn

VARIABLES
  part,
  h_up, h_m_CurConv, h_info, h_key2, h_cmds, h_syn, h_blocks, h_net, h_dups,
  h_calls, h_restarts, h_told, h_acked, h_aborted

hVars ==
  <<h_up, h_m_CurConv, h_info, h_key2, h_cmds, h_syn, h_blocks, h_net, h_dups,
    h_calls, h_restarts, h_told, h_acked, h_aborted>>

Shake == INSTANCE KkConn WITH
  MaxConnects <- 1, MaxCalls <- 1, MaxNet <- 2, MaxDup <- 1, MaxRestarts <- 0,
  MaxEvents <- 1, AutomaticHeart <- FALSE,
  up <- h_up, m_CurConv <- h_m_CurConv, info <- h_info, key2 <- h_key2,
  cmds <- h_cmds, syn <- h_syn, blocks <- h_blocks, net <- h_net,
  dups <- h_dups, calls <- h_calls, restarts <- h_restarts, told <- h_told,
  acked <- h_acked, aborted <- h_aborted

ASSUME DialsOneWay == \A d \in Dials : <<d[2], d[1]>> \notin Dials

MaxBlocks == 2   \* bound of the part shake: control blocks an endpoint makes

MCInit == part \in {"shake", "restart", "relay"} /\ SignallingInit /\ Shake!Init

\* The relay may stop: its search for an id need not end.
MCNext ==
  \/ part = "restart" /\ DirectStep /\ UNCHANGED <<part, hVars>>
  \/ /\ part = "shake" /\ Shake!Next /\ UNCHANGED <<part, signallingVars>>
     /\ \A n \in Nodes : h_blocks'[n] <= MaxBlocks
  \/ part = "relay" /\ RelayStep /\ UNCHANGED <<part, hVars>>
  \/ part = "relay" /\ UNCHANGED <<part, signallingVars, hVars>>

MCSpec == MCInit /\ [][MCNext]_<<part, signallingVars, hVars>>

\* In the part shake: a link needs the acknowledged id, and the dialing side hears
\* one control block per id although any datagram may be late and one comes twice;
\* the accepting side does while none comes twice (KKKcp.cpp:798, ikcp.c:762).
Handshakes == Shake!ThreeWay /\ Shake!OneStream
=============================================================================
