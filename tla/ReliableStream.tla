--------------------------- MODULE ReliableStream ---------------------------
(***************************************************************************)
(* What a KCP connection promises its two users: the messages one side     *)
(* writes are read by the other one in order, whole, and exactly once.     *)
(* A message is a run of fragments of which only the last has frg = 0.     *)
(***************************************************************************)
EXTENDS Integers, Sequences

CONSTANTS
    Peers,      \* the two ends
    MsgSizes    \* fragment counts of the messages written

VARIABLES
    sent,       \* fragments each end has written
    received    \* fragments each end has read

rsVars == <<sent, received>>

Message(m, k) == [i \in 1 .. k |-> [msg |-> m, frg |-> k - i]]

RSInit == /\ sent = [p \in Peers |-> <<>>]
          /\ received = [p \in Peers |-> <<>>]

Write(p) ==
    /\ \E k \in MsgSizes :
          sent' = [sent EXCEPT ![p] = @ \o Message(Len(sent[p]), k)]
    /\ UNCHANGED received

(* The end p reads the next whole message of the other end q.              *)
Read(p, q) ==
    /\ \E n \in (Len(received[p]) + 1) .. Len(sent[q]) :
          /\ sent[q][n].frg = 0
          /\ \A i \in (Len(received[p]) + 1) .. (n - 1) : sent[q][i].frg # 0
          /\ received' = [received EXCEPT ![p] = SubSeq(sent[q], 1, n)]
    /\ UNCHANGED sent

RSNext == \E p \in Peers : Write(p) \/ \E q \in Peers \ {p} : Read(p, q)

RSSpec == RSInit /\ [][RSNext]_rsVars
=============================================================================
