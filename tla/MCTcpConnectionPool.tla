------------------------ MODULE MCTcpConnectionPool ------------------------
(* Instances of TcpConnectionPool for TLC.                                 *)
EXTENDS TcpConnectionPool, TLC

CONSTANTS a1, a2, c1, c2

OneCaller == {a1}
TwoCallers == {a1, a2}
TwoConns == {c1, c2}
=============================================================================
