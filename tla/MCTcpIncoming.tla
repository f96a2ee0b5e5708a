---------------------------- MODULE MCTcpIncoming ----------------------------
(* Instances of TcpIncoming for TLC. *)
EXTENDS TcpIncoming, TLC
CONSTANTS c1, c2, c3
ThreeClients == {c1, c2, c3}
TwoResetting == {c1, c2}
NoneResetting == {}
=============================================================================
