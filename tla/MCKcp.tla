------------------------------- MODULE MCKcp -------------------------------
(* Instances of Kcp for TLC.                                               *)
EXTENDS Kcp, TLC

OneWay == 0 :> 3 @@ 1 :> 0
Short == 0 :> 2 @@ 1 :> 0
Both == 0 :> 1 @@ 1 :> 1
=============================================================================
