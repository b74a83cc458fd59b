--------------------------- MODULE WebSocketServer --------------------------
(***************************************************************************)
(* src/src/WebSocketServer.cpp: one connection at a time of a server.  The *)
(* thread of the session, the ping timer and the application act on it;    *)
(* clientStatesMutex_ is held for a look at the ClientState or a change of *)
(* it, never for a call of TcpServer.  The session is "dead" from the time *)
(* TcpServer has closed it until its callback, which waits for the         *)
(* callback in progress (callbackMutex_ of ClientSession).                 *)
(***************************************************************************)
EXTENDS WebSocketProtocol

CONSTANTS
    kMaxClientBufferSize,
    ServerProtocols,   \* subprotocols_, in the order of preference
    MaxConnections     \* bound on the connections

VARIABLES ws, up, down

Actors == {"reader", "timer", "app"}
Rest == [at |-> "idle", code |-> 0, frame |-> <<>>, protocol |-> ""]

NewConnection == [told |-> <<>>, sent |-> <<>>, received |-> <<>>, pings |-> 0, closes |-> 0]

WsServerInit ==
    ws = [running |-> TRUE, session |-> "none", sessions |-> 0, status |-> "none",
          buffer |-> <<>>, subprotocol |-> "", pc |-> [a \in Actors |-> Rest], h |-> NewConnection]

\* A message: which it is of its side, and its length.  Those of even length are texts.
Message(n, length) == [i \in 1..length |-> n]

-----------------------------------------------------------------------------
(* What TcpServer does.                                                    *)

Alive(server) == server.session \in {"open", "closing"}

\* disconnectClient(): what was not sent is lost.
Kill(server) ==
    /\ ws' = [server EXCEPT !.session = IF Alive(server) THEN "dead" ELSE @]
    /\ IF Alive(server) THEN \E n \in 0..Len(down) : down' = SubSeq(down, 1, n)
                        ELSE UNCHANGED down

\* sendToClient(), and what is done if it fails.
Send(units, sent, failed) ==
    IF Alive(ws) THEN ws' = sent /\ down' = down \o units
                 ELSE ws' = failed /\ UNCHANGED down

CloseAfterPendingWrites(server) ==
    [server EXCEPT !.session = IF @ = "open" THEN "closing" ELSE @]

At(a, place) == ws.pc[a].at = place
Goto(server, a, place) == [server EXCEPT !.pc[a] = [Rest EXCEPT !.at = place]]

-----------------------------------------------------------------------------
(* disconnectClient(), in two steps.                                       *)

Disconnecting(server, a, code) ==
    [server EXCEPT !.pc[a] = [Rest EXCEPT !.at = "disconnect", !.code = code]]

DisconnectClient(a) ==
    /\ At(a, "disconnect")
    /\ ws' = IF ws.status = "Connected"
             THEN [ws EXCEPT !.status = "Closing", !.pc[a].at = "close frame"]
             ELSE [ws EXCEPT !.pc[a].at = IF ws.status = "Closing" THEN "closing" ELSE "direct"]
    /\ UNCHANGED <<up, down>>

Disconnects(a) ==
    LET on == Goto(ws, a, "idle") IN
    /\ \/ At(a, "direct") /\ Kill(on)
       \/ At(a, "closing") /\ ws' = CloseAfterPendingWrites(on) /\ UNCHANGED down
       \/ /\ At(a, "close frame")
          /\ Send(EncodeCloseFrame(ws.pc[a].code, FALSE),
                  CloseAfterPendingWrites([on EXCEPT !.h.closes = @ + 1]), on)
    /\ UNCHANGED up

-----------------------------------------------------------------------------
(* The callbacks of TcpServer.                                             *)

\* The table may be full of others.
HandleClientConnected ==
    /\ ws.running /\ ws.session = "none" /\ ws.sessions < MaxConnections
    /\ \E full \in BOOLEAN :
           ws' = [ws EXCEPT !.session = IF full THEN "dead" ELSE "open", !.sessions = @ + 1,
                            !.status = IF full THEN "none" ELSE "Handshake",
                            !.buffer = <<>>, !.subprotocol = "", !.h = NewConnection]
    /\ up' = <<>> /\ down' = <<>>

HandleClientDisconnected ==
    /\ ws.session = "dead" /\ At("reader", "idle")
    /\ ws' = [ws EXCEPT !.session = "none", !.status = "none", !.buffer = <<>>,
                        !.h.told = IF ws.status \in {"Connected", "Closing"}
                                   THEN Append(@, "disconnected") ELSE @]
    /\ UNCHANGED <<up, down>>

\* The buffer is kept without its consumed part, as makeBufferedView() shows it.
HandleDataReceived(n) ==
    /\ At("reader", "idle") /\ Alive(ws) /\ ws.status # "none"
    /\ n \in 1..Len(up)
    /\ up' = Drop(up, n)
    /\ ws' = [Goto(ws, "reader", IF ws.status = "Handshake" THEN "handshake"
                                 ELSE IF ws.status = "Connected" THEN "frames" ELSE "idle")
              EXCEPT !.buffer = @ \o SubSeq(up, 1, n)]
    /\ UNCHANGED down

\* handleHandshake(): the part under the mutex, ...
HandleHandshake ==
    /\ At("reader", "handshake")
    /\ ws' = IF Find(ws.buffer, "end", 0) = 0 THEN Goto(ws, "reader", "idle")
             ELSE IF ~ParseHead(ws.buffer) \/ ~ws.buffer[1].upgrade
                  THEN Disconnecting(ws, "reader", 1002)
             ELSE Goto(ws, "reader", "answer")
    /\ UNCHANGED <<up, down>>

SelectSubprotocol(requested) ==
    LET common == SelectSeq(ServerProtocols, LAMBDA p : p \in requested)
    IN  IF common = <<>> THEN "" ELSE common[1]

\* ... the answer, which the handshake callback may refuse or give another
\* subprotocol, ...
AnswerHandshake ==
    LET request == ws.buffer[1]
        on == Goto(ws, "reader", "upgrade")
        off == Goto(ws, "reader", "idle")
    IN  /\ At("reader", "answer")
        /\ \E accept \in BOOLEAN,
              chosen \in {SelectSubprotocol(request.protocols)} \cup ToSet(ServerProtocols) :
               IF accept /\ (chosen = "" \/ chosen \in request.protocols)
               THEN Send(HandshakeResponse(request.key, chosen),
                         [on EXCEPT !.pc["reader"].protocol = chosen],
                         Disconnecting(ws, "reader", 1011))
               ELSE Send(HandshakeRejection, CloseAfterPendingWrites(off),
                         CloseAfterPendingWrites(off))
        /\ UNCHANGED up

\* ... the change of state, ...
Upgrade ==
    /\ At("reader", "upgrade")
    /\ ws' = IF ws.status = "none" THEN Goto(ws, "reader", "idle")
             ELSE [Goto(ws, "reader", "connected") EXCEPT
                      !.status = "Connected", !.subprotocol = ws.pc["reader"].protocol,
                      !.buffer = Drop(@, Find(@, "end", 0))]
    /\ UNCHANGED <<up, down>>

\* ... and the callback.
TellConnected ==
    /\ At("reader", "connected")
    /\ ws' = [Goto(ws, "reader", IF ws.buffer = <<>> THEN "idle" ELSE "frames")
              EXCEPT !.h.told = Append(@, "connected")]
    /\ UNCHANGED <<up, down>>

\* One round of handleFrames() under the mutex.
HandleFrames ==
    LET size == GetFrameSize(ws.buffer)
        frame == DecodeFrame(SubSeq(ws.buffer, 1, size))
    IN  /\ At("reader", "frames")
        /\ ws' = IF ws.status # "Connected" THEN Goto(ws, "reader", "idle")
                 ELSE IF Len(ws.buffer) > kMaxClientBufferSize THEN Disconnecting(ws, "reader", 1009)
                 ELSE IF size = 0 THEN Goto(ws, "reader", "idle")
                 ELSE IF ~frame.ok \/ ~frame.final THEN Disconnecting(ws, "reader", 1002)
                 ELSE [ws EXCEPT !.pc["reader"] = [Rest EXCEPT !.at = "frame", !.frame = frame],
                                 !.buffer = Drop(@, size)]
        /\ UNCHANGED <<up, down>>

HandleFrame ==
    LET frame == ws.pc["reader"].frame
        on == Goto(ws, "reader", "frames")
    IN  /\ At("reader", "frame")
        /\ IF frame.type = "ping" THEN Send(EncodeFrame("pong", frame.payload, FALSE), on, on)
           ELSE /\ ws' = CASE frame.type = "close" ->
                                Disconnecting(ws, "reader", CloseCode(frame.payload))
                           [] frame.type = "pong" -> on
                           [] OTHER -> [on EXCEPT !.h.received = Append(@, frame.payload)]
                /\ UNCHANGED down
        /\ UNCHANGED up

-----------------------------------------------------------------------------
(* The ping timer, and the application.                                    *)

\* sendPingToAllClients() finds the client idle for too long, or not, ...
SendPingToAllClients(pings) ==
    /\ ws.running /\ At("timer", "idle") /\ ws.status = "Connected"
    /\ \E idle \in BOOLEAN :
           /\ idle \/ ws.h.pings < pings
           /\ ws' = IF idle THEN Disconnecting(ws, "timer", 1001)
                    ELSE [Goto(ws, "timer", "ping") EXCEPT !.h.pings = @ + 1]
    /\ UNCHANGED <<up, down>>

\* ... and sends it a frame, if it is connected or not.
SendPing ==
    /\ At("timer", "ping")
    /\ Send(EncodeFrame("ping", <<>>, FALSE), Goto(ws, "timer", "idle"), Goto(ws, "timer", "idle"))
    /\ UNCHANGED up

\* sendTextToClient(), sendBinaryToClient() and the broadcasts, which no state forbids.
SendMessage(lengths, most) ==
    /\ At("app", "idle") /\ Alive(ws) /\ Len(ws.h.sent) < most
    /\ \E length \in lengths :
           LET payload == Message(Len(ws.h.sent) + 1, length)
               type == IF length % 2 = 0 THEN "text" ELSE "binary"
           IN
           /\ down' = down \o EncodeFrame(type, payload, FALSE)
           /\ ws' = [ws EXCEPT !.h.sent = Append(@, payload)]
    /\ UNCHANGED up

AppDisconnects ==
    /\ At("app", "idle") /\ ws.status # "none"
    /\ ws' = Disconnecting(ws, "app", 1000)
    /\ UNCHANGED <<up, down>>

\* stop() and start(); TcpServer::stop() returns when the sessions are closed.
Stop ==
    /\ ws.running /\ At("app", "idle")
    /\ Kill([ws EXCEPT !.running = FALSE])
    /\ UNCHANGED up

Start ==
    /\ ~ws.running /\ ws.session = "none"
    /\ ws' = [ws EXCEPT !.running = TRUE]
    /\ UNCHANGED <<up, down>>

\* The end of a session: all is written, or the peer has gone.
Flushed == ws.session = "closing" /\ ws' = [ws EXCEPT !.session = "dead"] /\ UNCHANGED <<up, down>>
PeerGone == Alive(ws) /\ Kill(ws) /\ UNCHANGED up

WsServerSteps ==
    \/ \E a \in Actors : DisconnectClient(a) \/ Disconnects(a)
    \/ HandleClientDisconnected
    \/ HandleHandshake \/ AnswerHandshake \/ Upgrade \/ TellConnected
    \/ HandleFrames \/ HandleFrame \/ Flushed

WsServerCalls == AppDisconnects \/ Stop \/ Start

=============================================================================
