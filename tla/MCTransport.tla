----------------------------- MODULE MCTransport -----------------------------
(***************************************************************************)
(* A TcpClient; a UdpSocket; or a FlatHashMap, the table of the callbacks  *)
(* that both register with the poller.  A behaviour is one of them.        *)
(***************************************************************************)
EXTENDS TcpClient

CONSTANTS a1, w1, Callback

OneApp == {a1}
OneWorker == {w1}
ConnectTimeout == {"connect"}
WriteTimeout == {"write"}

VARIABLES which, u, at, wire, udpHistory, m, hash, contents, it, due

Udp == INSTANCE UdpSocket WITH MaxUdpCalls <- 6, MaxDatagrams <- 3, h <- udpHistory

\* Homes 3, 6 and 7: with capacity 8 the last two collide round the end of the table.
Map == INSTANCE FlatHashMap
    WITH Key <- 1 .. 4, Value <- {1, 2}, HashValues <- {3, 6, 7}, PslMax <- 255,
         MaxCapacity <- 8, Reserved <- {1, 6}

udpVars == <<u, at, wire, udpHistory>>
mapVars == <<m, hash, contents, it, due>>
allVars == <<which, vars, udpVars, mapVars>>

\* Keys are alike but for their hashes, which only matter to the map.
AllInit ==
    /\ which \in {"client", "udp", "map"}
    /\ Init /\ Udp!UdpInit /\ Map!HashInit
    /\ \A k \in 1 .. 3 : hash[k] <= hash[k + 1]
    /\ which # "map" => hash[4] = 3

AllNext ==
    /\ UNCHANGED which
    /\ \/ which = "client" /\ Next /\ UNCHANGED <<udpVars, mapVars>>
       \/ which = "udp" /\ Udp!UdpNext /\ UNCHANGED <<vars, mapVars>>
       \/ which = "map" /\ Map!HashNext /\ UNCHANGED <<vars, udpVars>>

AllSpec == AllInit /\ [][AllNext]_allVars

\* Once stopReceive() has returned the data callback of a UdpSocket gets no datagram
\* but the one the poller's thread is at, although it drains the socket in a loop.
StopReceiveStops == which = "udp" => Udp!StopReceiveStops

\* Whatever is inserted, erased, copied, moved and iterated over in whatever order, and
\* however the keys collide, a FlatHashMap finds what a map would.
AgreesWithMap == which = "map" => Map!AgreesWithMap
==============================================================================
