----------------------------- MODULE MCKcpOrder -----------------------------
(* What is safe about two control blocks, as instances for TLC: a behaviour *)
(* is one of those the cfg gives, or one of three fragments that are sent   *)
(* to a side whose queue holds one (the variables that begin with w).       *)
EXTENDS MCKcp

VARIABLES
  small,
  w_snd_queue, w_snd_buf, w_snd_una, w_snd_nxt, w_rcv_buf, w_rcv_queue,
  w_rcv_nxt, w_acklist, w_rmt_wnd, w_probe, w_probe_wait, w_cc, w_dead, w_net,
  w_dups, w_stream, w_delivered

wVars ==
  <<w_snd_queue, w_snd_buf, w_snd_una, w_snd_nxt, w_rcv_buf, w_rcv_queue,
    w_rcv_nxt, w_acklist, w_rmt_wnd, w_probe, w_probe_wait, w_cc, w_dead,
    w_net, w_dups, w_stream, w_delivered>>

W == INSTANCE Kcp WITH
  SndWnd <- 2, RcvWnd <- 1, FastResend <- 0, DeadLink <- 1, NoCwnd <- TRUE,
  Mss <- 1, MsgSizes <- {1}, MaxStream <- OneWay, MaxDup <- 0, MaxNet <- 2,
  snd_queue <- w_snd_queue, snd_buf <- w_snd_buf, snd_una <- w_snd_una,
  snd_nxt <- w_snd_nxt, rcv_buf <- w_rcv_buf, rcv_queue <- w_rcv_queue,
  rcv_nxt <- w_rcv_nxt, acklist <- w_acklist, rmt_wnd <- w_rmt_wnd,
  probe <- w_probe, probe_wait <- w_probe_wait, cc <- w_cc, dead <- w_dead,
  net <- w_net, dups <- w_dups, stream <- w_stream, delivered <- w_delivered

MCInit == small \in BOOLEAN /\ Init /\ W!Init

MCNext ==
  \/ ~small /\ Next /\ UNCHANGED <<small, wVars>>
  \/ small /\ W!Next /\ UNCHANGED <<small, vars>>

MCSpec == MCInit /\ [][MCNext]_<<small, vars, wVars>>

\* No queue or window of the small instance is overrun (ikcp.c:717).
WindowsKept == Windows /\ W!Windows
=============================================================================
