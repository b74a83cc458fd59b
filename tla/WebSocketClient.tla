--------------------------- MODULE WebSocketClient --------------------------
(***************************************************************************)
(* src/src/WebSocketClient.cpp.  The class has no lock of its own: the     *)
(* callbacks of TcpClient exclude each other, the timers and the           *)
(* application come between them, and between two frames that handleFrames *)
(* takes from the buffer.  A handler is a function from the members before *)
(* to the members after, in wc, which also holds the state of tcpClient_,  *)
(* what was sent in the step, and the history of the connection.           *)
(***************************************************************************)
EXTENDS WebSocketProtocol

CONSTANTS
    ClientProtocols,  \* subprotocols_
    MaxConnections

VARIABLES wc, up, down

NewAttempt == [told |-> <<>>, lost |-> FALSE, closeTold |-> 0, late |-> 0,
               sent |-> <<>>, received |-> <<>>, pings |-> 0, closes |-> 0]

WsClientInit ==
    wc = [tcp |-> "closed", state |-> "Disconnected", connected |-> FALSE, pending |-> FALSE,
          closeNotified |-> FALSE, closeFrameSent |-> FALSE, buffer |-> <<>>, accepted |-> "",
          timers |-> {}, late |-> {}, loop |-> FALSE, connects |-> 0, out |-> <<>>,
          h |-> NewAttempt]

-----------------------------------------------------------------------------
(* Callbacks, timers, and tcpClient_.                                      *)

\* notifyConnect(): the callback of connect(), once, and the one that stays set.
NotifyConnect(m, success) == [m EXCEPT !.pending = FALSE, !.h.told = Append(@, success)]

\* Mutation of NotifyClose: closeNotified_ is not heeded.
NotifyCloseAgain(m) == [m EXCEPT !.closeNotified = TRUE, !.h.closeTold = @ + 1]

NotifyClose(m) ==
    IF m.closeNotified THEN m ELSE [m EXCEPT !.closeNotified = TRUE, !.h.closeTold = @ + 1]

StopTimers(m) == [m EXCEPT !.timers = {}]

\* startHandshakeTimer(), startPingTimer() and startCloseTimer()
StartTimer(m, timer) == [m EXCEPT !.timers = @ \cup {timer}]

HandleDisconnected(m) ==
    LET told == IF m.connected \/ m.state = "Closing" THEN NotifyClose(m) ELSE m IN
    [StopTimers(told) EXCEPT
        !.connected = FALSE, !.closeFrameSent = FALSE, !.state = "Disconnected", !.buffer = <<>>,
        !.h.lost = @ \/ m.pending]

\* tcpClient_.disconnect() calls the callback before it returns.
TcpDisconnect(m) ==
    IF m.tcp = "connecting" THEN NotifyConnect([m EXCEPT !.tcp = "closed"], FALSE)
    ELSE IF m.tcp = "closed" THEN m
    ELSE HandleDisconnected([m EXCEPT !.tcp = "closed"])

Send(m, units) == [m EXCEPT !.out = @ \o units]

Becomes(m) == wc' = [m EXCEPT !.out = <<>>] /\ up' = up \o m.out

-----------------------------------------------------------------------------
(* The handshake.                                                          *)

Connect ==
    /\ wc.tcp = "closed" /\ ~wc.loop /\ wc.connects < MaxConnections
    /\ Becomes([wc EXCEPT !.pending = TRUE, !.closeNotified = FALSE, !.closeFrameSent = FALSE,
                   !.buffer = <<>>, !.state = "Disconnected", !.connected = FALSE, !.accepted = "",
                   !.tcp = "connecting", !.connects = @ + 1, !.h = NewAttempt])
    /\ UNCHANGED down

\* The callback of tcpClient_.connect(), and handleTcpConnected().
HandleTcpConnected(success) ==
    /\ wc.tcp = "connecting"
    /\ LET open == [wc EXCEPT !.tcp = "open", !.connected = FALSE, !.state = "Handshake",
                              !.buffer = <<>>]
       IN  Becomes(IF success
                   THEN StartTimer(Send(open, HandshakeRequest(wc.connects, ToSet(ClientProtocols))),
                                   "handshake")
                   ELSE NotifyConnect([wc EXCEPT !.tcp = "closed"], FALSE))
    /\ UNCHANGED down

\* handleHandshakeResponse()
HandleHandshakeResponse(m) ==
    LET head == m.buffer[1]
        valid == /\ ParseHead(m.buffer)
                 /\ head.status = 101 /\ head.upgrade
                 /\ head.accept = CreateAcceptKey(m.connects)
                 /\ head.protocol # "" => head.protocol \in ToSet(ClientProtocols)
        connected == [m EXCEPT !.timers = @ \ {"handshake"}, !.buffer = Drop(@, 2),
                               !.state = "Connected", !.connected = TRUE,
                               !.accepted = head.protocol, !.loop = TRUE]
    IN  IF Find(m.buffer, "end", 0) = 0 THEN m
        ELSE IF ~valid THEN TcpDisconnect(NotifyConnect(m, FALSE))
        ELSE NotifyConnect(StartTimer(connected, "ping"), TRUE)

-----------------------------------------------------------------------------
(* Frames.                                                                 *)

\* handleDataReceived()
HandleDataReceived(n) ==
    /\ wc.tcp \in {"open", "finishing"} /\ ~wc.loop
    /\ n \in 1..Len(down)
    /\ down' = Drop(down, n)
    /\ LET m == [wc EXCEPT !.buffer = @ \o SubSeq(down, 1, n)] IN
       Becomes(IF m.state = "Handshake" THEN HandleHandshakeResponse(m)
               ELSE [m EXCEPT !.loop = m.state \in {"Connected", "Closing"}])

\* handleFrame(); the state decides whether a message is handed over.
HandleFrame(m, frame) ==
    LET notified == NotifyClose(m)
        echoed == Send(StopTimers([notified EXCEPT !.closeFrameSent = TRUE, !.state = "Closing",
                                                   !.h.closes = @ + 1]),
                       EncodeCloseFrame(CloseCode(frame.payload), TRUE))
    IN  CASE frame.type \in {"text", "binary"} ->
               IF m.state = "Connected"
               THEN [m EXCEPT !.h.received = Append(@, frame.payload),
                              !.h.late = @ + m.h.closeTold] ELSE m
          [] frame.type = "close" ->
               [(IF m.closeFrameSent THEN notified ELSE echoed) EXCEPT !.tcp = "finishing"]
          [] frame.type = "ping" -> Send(m, EncodeFrame("pong", frame.payload, TRUE))
          [] frame.type = "pong" -> m

\* One round of handleFrames(), whatever the state has become.
HandleFrames ==
    LET size == GetFrameSize(wc.buffer)
        frame == DecodeFrame(SubSeq(wc.buffer, 1, size))
        rest == [wc EXCEPT !.buffer = Drop(@, size)]
    IN  /\ wc.loop
        /\ Becomes(IF size = 0 THEN [wc EXCEPT !.loop = FALSE]
                   ELSE IF ~frame.ok \/ ~frame.final \/ frame.masked
                   THEN TcpDisconnect([wc EXCEPT !.loop = FALSE])
                   ELSE HandleFrame(rest, frame))
        /\ UNCHANGED down

\* disconnectAfterPendingWrites(), once all is written, and the end of the connection.
Flushed == wc.tcp = "finishing" /\ Becomes(TcpDisconnect(wc)) /\ UNCHANGED down
PeerClosed ==
    /\ wc.tcp \in {"open", "finishing"} /\ ~wc.loop
    /\ Becomes(TcpDisconnect(wc)) /\ UNCHANGED down

-----------------------------------------------------------------------------
(* Timers, and the application.                                            *)

\* A timer calls back, from now on in a thread of its own; the ping timer is periodic.
TimerCallsBack(pings) ==
    /\ \E timer \in wc.timers \ wc.late :
           /\ timer = "ping" => wc.h.pings < pings
           /\ wc' = [wc EXCEPT !.timers = IF timer = "ping" THEN @ ELSE @ \ {timer},
                               !.late = @ \cup {timer}]
    /\ UNCHANGED <<up, down>>

\* handleHandshakeTimeout(), sendPing(), and the callback of startCloseTimer().
TimerRuns ==
    /\ \E timer \in wc.late :
           LET m == [wc EXCEPT !.late = @ \ {timer}] IN
           Becomes(CASE timer = "handshake" ->
                          IF m.state # "Handshake" \/ m.connected THEN m
                          ELSE TcpDisconnect(NotifyConnect(m, FALSE))
                     [] timer = "close" -> IF m.state = "Closing" THEN TcpDisconnect(m) ELSE m
                     [] timer = "ping" ->
                          IF ~m.connected \/ m.state # "Connected" THEN m
                          ELSE Send([m EXCEPT !.h.pings = @ + 1], EncodeFrame("ping", <<>>, TRUE)))
    /\ UNCHANGED down

\* sendText() and sendBinary()
SendMessage(lengths, most) ==
    /\ wc.connected /\ wc.state = "Connected" /\ Len(wc.h.sent) < most
    /\ \E length \in lengths :
           LET payload == [i \in 1..length |-> Len(wc.h.sent) + 1]
               type == IF length % 2 = 0 THEN "text" ELSE "binary"
           IN
           Becomes(Send([wc EXCEPT !.h.sent = Append(@, payload)],
                        EncodeFrame(type, payload, TRUE)))
    /\ UNCHANGED down

\* close(): the whole of it when connected, and otherwise the end of the connection.
Close ==
    LET closing == StopTimers([wc EXCEPT !.state = "Closing"]) IN
    /\ Becomes(CASE wc.state = "Disconnected" -> TcpDisconnect(StopTimers(wc))
                 [] wc.state = "Closing" -> IF wc.connected THEN StartTimer(wc, "close") ELSE wc
                 [] wc.state = "Connected" ->
                      StartTimer(Send([closing EXCEPT !.closeFrameSent = TRUE, !.h.closes = @ + 1],
                                      EncodeCloseFrame(1000, TRUE)), "close")
                 [] wc.state = "Handshake" -> TcpDisconnect(closing))
    /\ UNCHANGED down

WsClientSteps ==
    Connect \/ HandleFrames \/ Flushed

WsClientCalls(pings) == TimerCallsBack(pings) \/ TimerRuns \/ Close

=============================================================================
