----------------------------- MODULE MCTcpServer -----------------------------
(* Two connections and two numbers; one or both connections are admitted. *)
EXTENDS TcpServer

CONSTANTS a1, p1, c1, c2, l, n1, n2

OneApp == {a1}
OnePoller == {p1}
TwoConns == {c1, c2}
Numbers == {l, n1, n2}
OneOrTwo == {1, 2}
==============================================================================
