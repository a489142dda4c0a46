------------------------------ MODULE MCKkConn ------------------------------
(* Instances of KkConn for TLC.                                            *)
EXTENDS KkConn, TLC

CONSTANTS c, s

OneDialer  == {<<c, s>>}
=============================================================================
