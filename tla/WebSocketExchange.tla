-------------------------- MODULE WebSocketExchange -------------------------
(***************************************************************************)
(* A WebSocketServer and a WebSocketClient that send each other messages   *)
(* of many lengths, and nothing else; the two with all that can come       *)
(* between; or one of them and a peer that sends what the other of them    *)
(* never would.                                                            *)
(***************************************************************************)
EXTENDS WebSocketServer

CONSTANTS
    ClientProtocols,
    Payloads,      \* the lengths of messages
    MaxSent,       \* bound on the messages of the client, when there is nothing else
    MaxPings,      \* bound on the pings to a peer
    PeerFrames,    \* what a peer sends to the server
    PeerReplies    \* what a peer sends to the client

VARIABLES
    wc,
    wconn,   \* the session that the client is connected to
    wmode    \* "messages", "both", "server" or "client"

WC == INSTANCE WebSocketClient

WsInit ==
    /\ WsServerInit /\ WC!WsClientInit /\ wconn = 0 /\ up = <<>> /\ down = <<>>
    /\ wmode \in {"messages", "both", "server", "client"}

-----------------------------------------------------------------------------

Accept ==
    /\ wmode # "server" => wc.tcp = "connecting" /\ wconn = ws.sessions
    /\ HandleClientConnected /\ UNCHANGED <<wc, wconn>>

Connected ==
    /\ \/ wconn < ws.sessions /\ WC!HandleTcpConnected(TRUE)
       \/ WC!HandleTcpConnected(FALSE)
    /\ wconn' = ws.sessions /\ UNCHANGED ws

Gone ==
    /\ wmode # "server" => wc.tcp = "closed" \/ (wc.tcp = "connecting" /\ wconn = ws.sessions)
    /\ PeerGone /\ UNCHANGED <<wc, wconn>>

EndOfStream ==
    /\ down = <<>> /\ ~Alive(ws)
    /\ WC!PeerClosed /\ UNCHANGED <<ws, wconn>>

PeerSends ==
    /\ wmode = "server" /\ ws.session = "open" /\ up = <<>> /\ ws.buffer = <<>>
    /\ ws.status = "Handshake" /\ At("reader", "idle")
    /\ \E units \in PeerFrames : up' = units
    /\ UNCHANGED <<ws, wc, down, wconn>>

PeerAnswers ==
    /\ wmode = "client" /\ ws.session = "open" /\ ws.status = "Handshake" /\ up # <<>>
    /\ up' = <<>>
    /\ \E units \in PeerReplies, close \in BOOLEAN :
           /\ down' = [i \in DOMAIN units |->
                          IF units[i].k = "head" /\ units[i].status = 101
                          THEN [units[i] EXCEPT !.accept = CreateAcceptKey(up[1].key)] ELSE units[i]]
           /\ ws' = [ws EXCEPT !.session = IF close THEN "dead" ELSE @, !.status = "Connected"]
    /\ UNCHANGED <<wc, wconn>>

WsNext ==
    /\ UNCHANGED wmode
    /\ LET lengths == IF wmode = "messages" THEN Payloads ELSE {1}
           most == IF wmode = "messages" THEN MaxSent ELSE 0
           Pieces(wire) == IF wmode = "both" THEN {Len(wire)} ELSE 1..Len(wire)
       IN
       \/ wmode # "client" /\ WsServerSteps /\ UNCHANGED <<wc, wconn>>
       \/ wmode # "client" /\ (\E n \in Pieces(up) : HandleDataReceived(n)) /\ UNCHANGED <<wc, wconn>>
       \/ wmode # "server" /\ (\E n \in Pieces(down) : WC!HandleDataReceived(n)) /\ UNCHANGED <<ws, wconn>>
       \/ wmode \in {"messages", "both"} /\ SendMessage(lengths, 1) /\ UNCHANGED <<wc, wconn>>
       \/ wmode = "both" /\ WsServerCalls /\ UNCHANGED <<wc, wconn>>
       \/ /\ wmode \in {"both", "server"}
          /\ SendPingToAllClients(IF wmode = "server" THEN MaxPings ELSE 0) \/ SendPing
          /\ UNCHANGED <<wc, wconn>>
       \/ wmode # "server" /\ (WC!WsClientSteps \/ WC!SendMessage(lengths, most)) /\ UNCHANGED <<ws, wconn>>
       \/ wmode \in {"both", "client"} /\ WC!WsClientCalls(IF wmode = "client" THEN MaxPings ELSE 0) /\ UNCHANGED <<ws, wconn>>
       \/ wmode # "server" /\ (Connected \/ EndOfStream)
       \/ Accept \/ Gone \/ PeerSends \/ PeerAnswers
       \/ wmode = "client" /\ HandleClientDisconnected /\ UNCHANGED <<wc, wconn>>

-----------------------------------------------------------------------------
\* Messages arrive as they were sent: the message callbacks of the server and of the
\* client are given the first of the messages that the other side sent over the same
\* connection, in their order, each whole and no other bytes, however the stream is
\* cut, lengths are encoded and payloads are masked; and both sides speak the same
\* subprotocol.
MessagesExact ==
    wmode \in {"messages", "both"} /\ wc.h.told = <<TRUE>> /\ wconn = ws.sessions =>
        /\ IsPrefix(ws.h.received, wc.h.sent)
        /\ IsPrefix(wc.h.received, ws.h.sent)
        /\ ws.status \in {"Connected", "Closing"} => ws.subprotocol = wc.accepted

\* The callbacks of a connection come in their order, and once.  The server tells of
\* the end of a connection if and only if it told of its begin; the client answers
\* connect() once and hands over no message before it, or after the callback that
\* closes; each sends one close frame at most, whoever of its threads decides to close.
CallbacksInOrder ==
    /\ wmode # "client" =>
           /\ ws.h.told \in {<<>>, <<"connected">>, <<"connected", "disconnected">>}
           /\ ws.h.received # <<>> => ws.h.told # <<>>
           /\ ws.session = "none" => ws.h.told # <<"connected">>
           /\ ws.h.closes <= 1
    /\ Len(wc.h.told) <= 1 /\ wc.h.closeTold <= 1 /\ wc.h.late = 0 /\ wc.h.closes <= 1
    /\ wc.h.received # <<>> => wc.h.told = <<TRUE>>
    /\ wc.h.told = <<FALSE>> => wc.h.closeTold = 0

\* Nothing waits for ever: connect() is answered, or the handshake is under its timer
\* (the answer is lost when the connection ends during the handshake); one that was
\* connected is told of the end; a close that awaits the peer's frame is under its
\* timer, and one of the server has its session closed.
NobodyWaits ==
    /\ wc.pending =>
           \/ wc.h.lost \/ wc.tcp = "connecting"
           \/ wc.state = "Handshake" /\ wc.tcp = "open" /\ "handshake" \in wc.timers \cup wc.late
    /\ wc.tcp = "closed" /\ wc.h.told = <<TRUE>> => wc.h.closeTold = 1
    /\ wc.state = "Closing" /\ wc.tcp = "open" => "close" \in wc.timers \cup wc.late
    /\ ws.status = "Closing" =>
           ws.session # "open" \/ \E a \in Actors : At(a, "close frame")

\* A connection is opened and closed as the callbacks tell: in order, once, and in the end.
OpenedAndClosed == CallbacksInOrder /\ NobodyWaits

=============================================================================
