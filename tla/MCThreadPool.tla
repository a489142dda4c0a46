---------------------------- MODULE MCThreadPool ----------------------------
(* Instances of ThreadPool for TLC.                                         *)
EXTENDS ThreadPool, TLC

CONSTANTS a, b, every, w1

OneWorker == [k \in Task |-> w1]
=============================================================================
