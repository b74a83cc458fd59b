--------------------------- MODULE ClientSession ----------------------------
(***************************************************************************)
(* src/src/TcpServer.cpp, class ClientSession on Linux: one accepted       *)
(* connection, between the poller thread that starts it and handles its    *)
(* events, application threads that send and close, and IoService threads  *)
(* in which its timers call back.  Whoever sends writes the queue to the   *)
(* socket itself, and the poller thread goes on when the socket was full.  *)
(*                                                                         *)
(* A critical section of sendMutex_ is one step.  callbackMutex_ is        *)
(* recursive and held across calls.  The stack of a thread is the list of  *)
(* the points it has to go on from, and of the guards it has to release.   *)
(***************************************************************************)
EXTENDS Integers, FiniteSets, Deques

CONSTANTS App, Worker, Poller,
          MaxSends,   \* bound on accepted sends
          MaxRetimed, \* the bound in a session whose time-outs are changed
          ItemSize,   \* pieces in which the socket takes the payload of one send
          Tls,        \* whether the server has an SSLContext
          AtStart,    \* timeoutConfig_ at first: the time-outs that are not 0
          Settings    \* and what it may be changed to

Thread == App \cup Worker \cup {Poller}
NoItem == 0

ASSUME SessionConstants ==
    /\ MaxSends \in Nat /\ MaxRetimed \in 0..MaxSends /\ ItemSize \in Nat \ {0} /\ Tls \in BOOLEAN
    /\ {AtStart} \cup Settings \subseteq SUBSET {"connection", "read", "write"}

VARIABLES
    running, ready, socket, tlsState,
    registered, polled,     \* the poller has the socket, and polls it for writing
    sendQueue, closeAfterFlush, flushRunning, flushReschedule,
    offset,                 \* pieces taken of each entry
    writeInterest, readWait, writeWait, handshakeWait,
    timeouts, armed,        \* timeoutConfig_, and the timers that are started
    stack, current, wasReady,
    sent, wire,             \* sends accepted, and what the socket has taken
    promised,               \* sends accepted before closeAfterPendingWrites()
    connected, disconnected, \* calls of the server's callbacks
    retimed                 \* a time-out was changed

lifeVars == <<running, ready, socket, tlsState>>
pollVars == <<registered, polled>>
queueVars == <<sendQueue, closeAfterFlush, flushRunning, flushReschedule>>
waitVars == <<writeInterest, readWait, writeWait, handshakeWait>>
timerVars == <<timeouts, armed, retimed>>
threadVars == <<stack, current, wasReady>>
historyVars == <<sent, wire, promised, connected, disconnected>>
vars == <<lifeVars, pollVars, queueVars, offset, waitVars, timerVars, threadVars, historyVars>>

Init ==
    /\ running = FALSE /\ ready = FALSE /\ socket = "open" /\ tlsState = "Disabled"
    /\ registered = FALSE /\ polled = FALSE
    /\ sendQueue = <<>> /\ offset = <<>>
    /\ closeAfterFlush = FALSE /\ flushRunning = FALSE /\ flushReschedule = FALSE
    /\ writeInterest = FALSE
    /\ readWait = "None" /\ writeWait = "None" /\ handshakeWait = "None"
    /\ timeouts = AtStart /\ armed = {} /\ retimed = FALSE
    /\ stack = [t \in Thread |-> IF t = Poller THEN <<"start">> ELSE <<>>]
    /\ current = [t \in Thread |-> NoItem] /\ wasReady = FALSE
    /\ sent = 0 /\ wire = <<>> /\ promised = 0 /\ connected = 0 /\ disconnected = 0

-----------------------------------------------------------------------------
(* Stacks and the recursive callbackMutex_.                                *)

At(t, point) == stack[t] # <<>> /\ Head(stack[t]) = point

\* An "unlock" stands for a guard of callbackMutex_, which ends with what is
\* above it: n of them here.
Goto(t, points) ==
    LET rest == points \o Tail(stack[t]) IN
    \E n \in 0..Len(rest) :
        /\ \A i \in 1..n : rest[i] = "unlock"
        /\ n < Len(rest) => rest[n + 1] # "unlock"
        /\ stack' = [stack EXCEPT ![t] = SubSeq(rest, n + 1, Len(rest))]

Return(t) == Goto(t, <<>>)

CanLock(t) == \A u \in Thread \ {t} : "unlock" \notin Entries(stack[u])

-----------------------------------------------------------------------------
(* Interest in writability, under sendMutex_.                              *)

\* Mutation of ShouldEnableWrite: the queue is not looked at.
ShouldEnableOnWait(tls, queue, rw, ww, hw) ==
    IF tls = "Handshaking" THEN hw = "Write" ELSE rw = "Write" \/ ww = "Write"

\* shouldEnableWrite for the values after the assignments of the section.
ShouldEnableWrite(tls, queue, rw, ww, hw) ==
    IF tls = "Handshaking" THEN hw = "Write"
    ELSE \/ queue # <<>> /\ ww # "Read"
         \/ rw = "Write" \/ ww = "Write"

\* EventPoller::modify knows the socket by the number it had when registered.
RefreshInterestLocked(queue, rw, ww, hw) ==
    LET enable == ShouldEnableWrite(tlsState, queue, rw, ww, hw) IN
    /\ readWait' = rw /\ writeWait' = ww /\ handshakeWait' = hw
    /\ writeInterest' = (running /\ enable)
    /\ polled' = IF running /\ writeInterest # enable /\ registered /\ socket = "open"
                 THEN enable ELSE polled
    /\ UNCHANGED registered

\* The flags after markFlushScheduledLocked(), and what it returns.
MarkFlushScheduledLocked ==
    /\ flushRunning' = (flushRunning \/ running)
    /\ flushReschedule' = IF running THEN flushRunning ELSE flushReschedule

\* Mutation of FlushScheduled: also when a thread is flushing.
FlushScheduledAlways == running

FlushScheduled == running /\ ~flushRunning

Arm(timers) == armed' = armed \cup (timers \cap timeouts)
ArmIfReady(timer) == Arm(IF ready THEN {timer} ELSE {})

-----------------------------------------------------------------------------
(* start(), in the poller thread that accepted the connection.             *)

\* The socket options are set and the socket registered, or one of these fails.
StartRegisters(t) ==
    /\ At(t, "start")
    /\ \/ socket = "open" /\ registered' = TRUE /\ Goto(t, <<"run">>) /\ UNCHANGED socket
       \/ socket' = "closed" /\ Return(t) /\ UNCHANGED registered
    /\ UNCHANGED <<running, ready, tlsState, polled, queueVars, offset, waitVars, timerVars, current, wasReady, historyVars>>

StartRuns(t) ==
    /\ At(t, "run")
    /\ running' = TRUE
    /\ Goto(t, <<"armConnection", IF Tls THEN "initializeTls" ELSE "markReady">>)
    /\ UNCHANGED <<ready, socket, tlsState, pollVars, queueVars, offset, waitVars, timerVars, current, wasReady, historyVars>>

ArmConnectionTimer(t) ==
    /\ At(t, "armConnection")
    /\ Arm({"connection"})
    /\ Return(t)
    /\ UNCHANGED <<lifeVars, pollVars, queueVars, offset, waitVars, timeouts, retimed, current, wasReady, historyVars>>

InitializeTls(t) ==
    /\ At(t, "initializeTls")
    /\ \/ /\ tlsState' = "Handshaking" /\ handshakeWait' = "None"
          /\ Goto(t, <<"firstHandshake">>)
       \/ Goto(t, <<"abort">>) /\ UNCHANGED <<tlsState, handshakeWait>>
    /\ UNCHANGED <<running, ready, socket, pollVars, queueVars, offset, writeInterest, readWait,
                   writeWait, timerVars, current, wasReady, historyVars>>

\* abortStartup(): as close(), without the exchange and the callback.
AbortStartup(t) ==
    /\ At(t, "abort") /\ CanLock(t)
    /\ running' = FALSE /\ ready' = FALSE /\ armed' = {}
    /\ registered' = (registered /\ socket # "open")
    /\ polled' = (polled /\ socket # "open")
    /\ Goto(t, <<"clear", "unlock">>)
    /\ UNCHANGED <<socket, tlsState, queueVars, offset, waitVars, timeouts, retimed, current,
                   wasReady, historyVars>>

MarkReady(t) ==
    /\ At(t, "markReady")
    /\ ready' = TRUE
    /\ IF ready THEN Return(t) /\ UNCHANGED armed
                ELSE Goto(t, <<"connected">>) /\ Arm({"connection", "read"})
    /\ UNCHANGED <<running, socket, tlsState, pollVars, queueVars, offset, waitVars, timeouts,
                   retimed, current, wasReady, historyVars>>

\* readyCallback_, in which the application may use the session.
CallConnected(t) ==
    /\ At(t, "connected")
    /\ connected' = connected + 1
    /\ Goto(t, <<"user">>)
    /\ UNCHANGED <<lifeVars, pollVars, queueVars, offset, waitVars, timerVars, current,
                   wasReady, sent, wire, promised, disconnected>>

-----------------------------------------------------------------------------
(* driveTlsHandshake(), from start() and from the event handlers.          *)

Handshakes(t, point) == At(t, point) /\ tlsState = "Handshaking"

HandshakeCompletes(t, point) ==
    /\ Handshakes(t, point)
    /\ tlsState' = "Ready"
    /\ Goto(t, <<"handshaken", "markReady">>)
    /\ UNCHANGED <<running, ready, socket, pollVars, queueVars, offset, waitVars, timerVars, current, wasReady, historyVars>>

HandshakeWaits(t, point) ==
    /\ Handshakes(t, point)
    /\ \E wait \in {"Read", "Write"} :
           RefreshInterestLocked(sendQueue, readWait, writeWait, wait)
    /\ Return(t)
    /\ UNCHANGED <<lifeVars, queueVars, offset, timerVars, current, wasReady, historyVars>>

HandshakeFails(t, point, failure) ==
    /\ Handshakes(t, point)
    /\ Goto(t, <<failure>>)
    /\ UNCHANGED <<lifeVars, pollVars, queueVars, offset, waitVars, timerVars, current,
                   wasReady, historyVars>>

HandshakeIsOver(t, point) ==
    /\ At(t, point) /\ tlsState # "Handshaking"
    /\ Return(t)
    /\ UNCHANGED <<lifeVars, pollVars, queueVars, offset, waitVars, timerVars, current,
                   wasReady, historyVars>>

\* setHandshakeWait(None) after the handshake.
Handshaken(t) ==
    /\ At(t, "handshaken")
    /\ RefreshInterestLocked(sendQueue, readWait, writeWait, "None")
    /\ Return(t)
    /\ UNCHANGED <<lifeVars, queueVars, offset, timerVars, current, wasReady, historyVars>>

DriveTlsHandshake(t, point, failure) ==
    \/ HandshakeCompletes(t, point) \/ HandshakeWaits(t, point)
    \/ HandshakeFails(t, point, failure) \/ HandshakeIsOver(t, point)

-----------------------------------------------------------------------------
(* close().                                                                *)

\* Mutation of Close: callbackMutex_ is not taken.
CloseUnlocked(t) ==
    /\ At(t, "close")
    /\ running' = FALSE
    /\ registered' = (registered /\ ~(running /\ socket = "open"))
    /\ polled' = (polled /\ ~(running /\ socket = "open"))
    /\ Goto(t, IF running THEN <<"unready">> ELSE <<"closeAgain">>)
    /\ UNCHANGED <<ready, socket, tlsState, queueVars, offset, waitVars, timerVars, current,
                   wasReady, historyVars>>

\* The exchange of running_, and the poller forgets the socket: as long as the
\* lock is held a report of the poller comes to nothing.
Close(t) ==
    /\ At(t, "close") /\ CanLock(t)
    /\ running' = FALSE
    /\ registered' = (registered /\ ~(running /\ socket = "open"))
    /\ polled' = (polled /\ ~(running /\ socket = "open"))
    /\ Goto(t, IF running THEN <<"unready", "unlock">> ELSE <<"closeAgain", "unlock">>)
    /\ UNCHANGED <<ready, socket, tlsState, queueVars, offset, waitVars, timerVars, current,
                   wasReady, historyVars>>

CloseUnreadies(t) ==
    /\ At(t, "unready")
    /\ wasReady' = ready /\ ready' = FALSE /\ armed' = {}
    /\ Goto(t, <<"clear", "closed">>)
    /\ UNCHANGED <<running, socket, tlsState, pollVars, queueVars, offset, waitVars, timeouts,
                   retimed, current, historyVars>>

\* clearQueuesAndWaits(), under sendMutex_.
ClearQueuesAndWaits ==
    /\ sendQueue' = <<>> /\ closeAfterFlush' = FALSE
    /\ flushRunning' = FALSE /\ flushReschedule' = FALSE
    /\ writeInterest' = FALSE
    /\ readWait' = "None" /\ writeWait' = "None" /\ handshakeWait' = "None"

CloseClears(t) ==
    /\ At(t, "clear")
    /\ ClearQueuesAndWaits
    /\ Goto(t, <<"releaseTls">>)
    /\ UNCHANGED <<lifeVars, pollVars, offset, timerVars, current, wasReady, historyVars>>

ReleaseTls(t) ==
    /\ At(t, "releaseTls")
    /\ tlsState' = "Disabled"
    /\ Goto(t, <<"closeSocket">>)
    /\ UNCHANGED <<running, ready, socket, pollVars, queueVars, offset, waitVars, timerVars, current, wasReady, historyVars>>

CloseSocket(t) ==
    /\ At(t, "closeSocket")
    /\ socket' = "closed"
    /\ Return(t)
    /\ UNCHANGED <<running, ready, tlsState, pollVars, queueVars, offset, waitVars, timerVars,
                   current, wasReady, historyVars>>

\* closedCallback_; the server calls its own callback if the session was ready.
CallClosed(t) ==
    /\ At(t, "closed")
    /\ disconnected' = disconnected + (IF wasReady THEN 1 ELSE 0)
    /\ Return(t)
    /\ UNCHANGED <<lifeVars, pollVars, queueVars, offset, waitVars, timerVars, current,
                   wasReady, sent, wire, promised, connected>>

\* close() of a session that is not running: the timers, the TLS state and the
\* socket, then the queue.
CloseAgain(t) ==
    /\ At(t, "closeAgain")
    /\ armed' = {} /\ tlsState' = "Disabled" /\ socket' = "closed"
    /\ Goto(t, <<"clearAgain">>)
    /\ UNCHANGED <<running, ready, pollVars, queueVars, offset, waitVars, timeouts, retimed, current, wasReady, historyVars>>

CloseAgainClears(t) ==
    /\ At(t, "clearAgain")
    /\ ClearQueuesAndWaits
    /\ ready' = FALSE
    /\ Return(t)
    /\ UNCHANGED <<running, socket, tlsState, pollVars, offset, timerVars, current,
                   wasReady, historyVars>>

CloseSteps(t) ==
    \/ Close(t) \/ CloseUnreadies(t) \/ CloseClears(t) \/ ReleaseTls(t)
    \/ CloseSocket(t) \/ CallClosed(t) \/ CloseAgain(t) \/ CloseAgainClears(t)

-----------------------------------------------------------------------------
(* The calls of an application: from its own threads, and from callbacks,  *)
(* where "user" or "data" is on top of the stack.                          *)

InCallback(t) == At(t, "user") \/ At(t, "data")

Calls(t, points) ==
    \/ t \in App /\ stack[t] = <<>> /\ stack' = [stack EXCEPT ![t] = points]
    \/ InCallback(t) /\ Goto(t, points)

NothingToCall(t) ==
    /\ InCallback(t) /\ Return(t)
    /\ UNCHANGED <<lifeVars, pollVars, queueVars, offset, waitVars, timerVars, current,
                   wasReady, historyVars>>

Pushing(point) == Cardinality({t \in Thread : point \in Entries(stack[t])})
Room == (IF retimed THEN MaxRetimed ELSE MaxSends)
            - sent - Pushing("pushOne") - 2 * Pushing("pushTwo")

\* The overloads of send(), and sendFile() with a prefix: "pushTwo".  ready_ is
\* read first, the queue locked later.
Send(t) ==
    /\ ready
    /\ \/ Room >= 1 /\ Calls(t, <<"pushOne">>)
       \/ Room >= 2 /\ Calls(t, <<"pushTwo">>)
    /\ UNCHANGED <<lifeVars, pollVars, queueVars, offset, waitVars, timerVars, current,
                   wasReady, historyVars>>

Push(t, point, n) ==
    /\ At(t, point)
    /\ sent' = sent + n
    /\ sendQueue' = sendQueue \o [i \in 1..n |-> sent + i]
    /\ offset' = offset \o [i \in 1..n |-> 0]
    /\ RefreshInterestLocked(sendQueue', readWait, writeWait, handshakeWait)
    /\ MarkFlushScheduledLocked
    /\ Goto(t, IF FlushScheduled THEN <<"armWrite", "flush">> ELSE <<"armWrite">>)
    /\ UNCHANGED <<lifeVars, closeAfterFlush, timerVars, current, wasReady, wire, promised,
                   connected, disconnected>>

ArmWriteTimer(t) ==
    /\ At(t, "armWrite")
    /\ ArmIfReady("write")
    /\ Return(t)
    /\ UNCHANGED <<lifeVars, pollVars, queueVars, offset, waitVars, timeouts, retimed, current, wasReady, historyVars>>

CloseAfterPendingWrites(t) ==
    /\ promised' = sent
    /\ IF sendQueue = <<>>
       THEN /\ Calls(t, <<"close">>)
            /\ closeAfterFlush' = FALSE
            /\ UNCHANGED <<pollVars, waitVars>>
       ELSE /\ Calls(t, <<>>)
            /\ closeAfterFlush' = TRUE
            /\ RefreshInterestLocked(sendQueue, readWait, writeWait, handshakeWait)
    /\ UNCHANGED <<lifeVars, sendQueue, flushRunning, flushReschedule, offset, timerVars, current, wasReady, sent, wire, connected, disconnected>>

\* disconnectClient() and stop() of the server.
CallClose(t) ==
    /\ Calls(t, <<"close">>)
    /\ UNCHANGED <<lifeVars, pollVars, queueVars, offset, waitVars, timerVars, current,
                   wasReady, historyVars>>

\* updateTimeouts(): the connection and read timers, then the write timer, with
\* what the queue was when it was looked at.  Bound: they are changed once.
UpdateTimeouts(t) ==
    /\ ~retimed /\ Room >= MaxSends - MaxRetimed
    /\ \E setting \in Settings \ {timeouts} :
           /\ timeouts' = setting
           /\ armed' = (armed \cap ({"write"} \cup setting))
                          \cup (setting \cap ((IF running THEN {"connection"} ELSE {})
                                               \cup (IF ready THEN {"read"} ELSE {})))
           /\ Calls(t, IF "write" \in setting /\ sendQueue # <<>>
                       THEN <<"armWrite">> ELSE <<"stopWrite">>)
    /\ retimed' = TRUE
    /\ UNCHANGED <<lifeVars, pollVars, queueVars, offset, waitVars, current, wasReady,
                   historyVars>>

StopWriteTimer(t) ==
    /\ At(t, "stopWrite")
    /\ armed' = armed \ {"write"}
    /\ Return(t)
    /\ UNCHANGED <<lifeVars, pollVars, queueVars, offset, waitVars, timeouts, retimed, current, wasReady, historyVars>>

-----------------------------------------------------------------------------
(* runQueuedFlush() and drainSendQueue().                                  *)

Flush(t) ==
    /\ At(t, "flush")
    /\ IF ready THEN Goto(t, <<"drain">>) /\ UNCHANGED <<flushRunning, flushReschedule>>
                ELSE Return(t) /\ flushRunning' = FALSE /\ flushReschedule' = FALSE
    /\ UNCHANGED <<lifeVars, pollVars, sendQueue, closeAfterFlush, offset, waitVars, timerVars,
                   current, wasReady, historyVars>>

\* What follows a section that may have found the queue empty: the write timer,
\* and closeAfterFlush_.
Emptied(t, otherwise) ==
    /\ closeAfterFlush' = FALSE
    /\ armed' = armed \ {"write"}
    /\ Goto(t, IF closeAfterFlush THEN <<"close", "stopFlush">> ELSE otherwise)

Drain(t) ==
    /\ At(t, "drain")
    /\ IF ~ready
       THEN /\ Goto(t, <<"stopFlush">>)
            /\ UNCHANGED <<pollVars, closeAfterFlush, waitVars, armed, current>>
       ELSE IF sendQueue = <<>>
       THEN /\ Emptied(t, <<"drained">>)
            /\ RefreshInterestLocked(sendQueue, readWait, "None", handshakeWait)
            /\ UNCHANGED current
       ELSE /\ current' = [current EXCEPT ![t] = Head(sendQueue)]
            /\ Goto(t, <<"writeItem">>)
            /\ UNCHANGED <<pollVars, closeAfterFlush, waitVars, armed>>
    /\ UNCHANGED <<lifeVars, sendQueue, flushRunning, flushReschedule, offset, timeouts, retimed,
                   wasReady, historyVars>>

\* current points to an entry that clearQueuesAndWaits() has destroyed.
Dangling(t) == current[t] \notin Entries(sendQueue)

\* writePendingSend() and the socket takes a piece.
WriteItem(t) ==
    /\ At(t, "writeItem") /\ socket = "open" /\ ~Dangling(t)
    /\ wire' = Append(wire, current[t])
    /\ offset' = [offset EXCEPT ![current[t]] = @ + 1]
    /\ Goto(t, <<"wrote">>)
    /\ UNCHANGED <<lifeVars, pollVars, queueVars, waitVars, timerVars, current, wasReady,
                   sent, promised, connected, disconnected>>

\* Undefined: anything may be read from the entry, and sent if there is a socket.
WriteDangling(t) ==
    /\ At(t, "writeItem") /\ Dangling(t)
    /\ wire' \in {wire} \cup (IF socket = "open" THEN {Append(wire, NoItem)} ELSE {})
    /\ \E point \in {"wrote", "pop"} : Goto(t, <<point>>)
    /\ UNCHANGED <<lifeVars, pollVars, queueVars, offset, waitVars, timerVars, current,
                   wasReady, sent, promised, connected, disconnected>>

\* The socket is full.  A closed one fails, with the error of an earlier call.
WriteWouldBlock(t) ==
    /\ At(t, "writeItem")
    /\ ArmIfReady("write")
    /\ Goto(t, <<"blocked", "stopFlush">>)
    /\ UNCHANGED <<lifeVars, pollVars, queueVars, offset, waitVars, timeouts, retimed, current, wasReady, historyVars>>

\* The peer has closed, or an error: close() or handleTransportFailure().
WriteFails(t) ==
    /\ At(t, "writeItem")
    /\ Goto(t, <<"close", "stopFlush">>)
    /\ UNCHANGED <<lifeVars, pollVars, queueVars, offset, waitVars, timerVars, current,
                   wasReady, historyVars>>

\* setWriteWait(), with the direction that the write gave.
Blocked(t) ==
    /\ At(t, "blocked")
    /\ \E wait \in IF Tls THEN {"Read", "Write"} ELSE {"Write"} :
           RefreshInterestLocked(sendQueue, readWait, wait, handshakeWait)
    /\ Return(t)
    /\ UNCHANGED <<lifeVars, queueVars, offset, timerVars, current, wasReady, historyVars>>

\* setWriteWait(None) and armConnectionTimer(); should close() stop the timers in
\* between, the callback of this one finds the session closed.
Wrote(t) ==
    /\ At(t, "wrote")
    /\ RefreshInterestLocked(sendQueue, readWait, "None", handshakeWait)
    /\ Arm({"connection"})
    /\ Goto(t, <<"pop">>)
    /\ UNCHANGED <<lifeVars, queueVars, offset, timeouts, retimed, current, wasReady,
                   historyVars>>

\* Mutation of Pop: closeAfterFlush_ is heeded while entries are left.
PopCloses(t) ==
    /\ At(t, "pop") /\ ~Dangling(t)
    /\ sendQueue' = IF offset[current[t]] = ItemSize THEN Tail(sendQueue) ELSE sendQueue
    /\ IF sendQueue' = <<>> \/ closeAfterFlush
       THEN Emptied(t, <<"drain">>)
       ELSE ArmIfReady("write") /\ Goto(t, <<"drain">>) /\ UNCHANGED closeAfterFlush
    /\ RefreshInterestLocked(sendQueue', readWait, writeWait, handshakeWait)
    /\ current' = [current EXCEPT ![t] = NoItem]
    /\ UNCHANGED <<lifeVars, flushRunning, flushReschedule, offset, timeouts, retimed, wasReady, historyVars>>

\* An entry that is complete leaves the queue.  An entry pushed since may have
\* the address of the one that current pointed to.
Pop(t) ==
    /\ At(t, "pop")
    /\ \/ /\ ~Dangling(t)
          /\ sendQueue' = IF current[t] = Head(sendQueue) /\ offset[current[t]] = ItemSize
                          THEN Tail(sendQueue) ELSE sendQueue
       \/ /\ Dangling(t)
          /\ sendQueue' \in {sendQueue} \cup (IF sendQueue = <<>> THEN {} ELSE {Tail(sendQueue)})
    /\ IF sendQueue' = <<>>
       THEN Emptied(t, <<"drain">>)
       ELSE ArmIfReady("write") /\ Goto(t, <<"drain">>) /\ UNCHANGED closeAfterFlush
    /\ RefreshInterestLocked(sendQueue', readWait, writeWait, handshakeWait)
    /\ current' = [current EXCEPT ![t] = NoItem]
    /\ UNCHANGED <<lifeVars, flushRunning, flushReschedule, offset, timeouts, retimed, wasReady, historyVars>>

\* drainSendQueue() returned QueueDrained.
Drained(t) ==
    /\ At(t, "drained")
    /\ flushReschedule' = FALSE
    /\ IF running /\ flushReschedule
       THEN Goto(t, <<"flush">>) /\ UNCHANGED flushRunning
       ELSE Return(t) /\ flushRunning' = FALSE
    /\ UNCHANGED <<lifeVars, pollVars, sendQueue, closeAfterFlush, offset, waitVars, timerVars,
                   current, wasReady, historyVars>>

\* It returned WouldBlock or Closed.
StopFlush(t) ==
    /\ At(t, "stopFlush")
    /\ flushRunning' = FALSE /\ flushReschedule' = FALSE
    /\ current' = [current EXCEPT ![t] = NoItem]
    /\ Return(t)
    /\ UNCHANGED <<lifeVars, pollVars, sendQueue, closeAfterFlush, offset, waitVars, timerVars,
                   wasReady, historyVars>>

FlushSteps(t) ==
    \/ Flush(t) \/ Drain(t) \/ WriteItem(t) \/ WriteDangling(t) \/ WriteWouldBlock(t)
    \/ WriteFails(t) \/ Blocked(t) \/ Wrote(t) \/ Pop(t) \/ Drained(t) \/ StopFlush(t)

-----------------------------------------------------------------------------
(* The poller's callback, and handleRead(), handleWrite().                 *)

\* One readiness report; the callback handles its events in this order.  Error
\* and Close, here "close", are handleTransportFailure(), which closes.
PollEvents(t) ==
    /\ t = Poller /\ stack[t] = <<>>
    /\ registered /\ socket = "open"
    /\ \E report \in {<<"read">>, <<"write">>, <<"close">>, <<"read", "write">>,
                       <<"read", "close">>, <<"write", "close">>, <<"read", "write", "close">>} :
           /\ "write" \in Entries(report) => polled
           /\ stack' = [stack EXCEPT ![t] = report]
    /\ UNCHANGED <<lifeVars, pollVars, queueVars, offset, waitVars, timerVars, current,
                   wasReady, historyVars>>

HandleRead(t) ==
    /\ At(t, "read") /\ CanLock(t)
    /\ Goto(t, IF ~running THEN <<"unlock">>
               ELSE IF tlsState = "Handshaking" THEN <<"handshake", "unlock">>
               ELSE <<"receive", "unlock">>)
    /\ UNCHANGED <<lifeVars, pollVars, queueVars, offset, waitVars, timerVars, current, wasReady,
                   historyVars>>

\* The loop of handleRead() ends when a callback has closed the session.
ReceiveEnds(t) ==
    /\ At(t, "receive") /\ ~running
    /\ Return(t)
    /\ UNCHANGED <<lifeVars, pollVars, queueVars, offset, waitVars, timerVars, current,
                   wasReady, historyVars>>

\* readTransport() has data, a full buffer, after which the loop goes on, or less,
\* and the application's data callback is called: "data".  The lock keeps close()
\* from stopping the timers in between.
ReceiveData(t) ==
    /\ At(t, "receive") /\ running /\ socket = "open"
    /\ RefreshInterestLocked(sendQueue, "None", writeWait, handshakeWait)
    /\ Arm({"connection"} \cup (IF ready THEN {"read"} ELSE {}))
    /\ \E points \in {<<"data">>, <<"data", "receive">>} : Goto(t, points)
    /\ UNCHANGED <<lifeVars, queueVars, offset, timeouts, retimed, current, wasReady,
                   historyVars>>

ReceiveWouldBlock(t) ==
    /\ At(t, "receive") /\ running
    /\ \E wait \in IF Tls THEN {"Read", "Write"} ELSE {"Read"} :
           RefreshInterestLocked(sendQueue, wait, writeWait, handshakeWait)
    /\ Return(t)
    /\ UNCHANGED <<lifeVars, queueVars, offset, timerVars, current, wasReady, historyVars>>

\* The peer has closed, or an error.
ReceiveFails(t) ==
    /\ At(t, "receive") /\ running
    /\ Goto(t, <<"close">>)
    /\ UNCHANGED <<lifeVars, pollVars, queueVars, offset, waitVars, timerVars, current,
                   wasReady, historyVars>>

HandleWrite(t) ==
    /\ At(t, "write") /\ CanLock(t)
    /\ IF ~running \/ tlsState = "Handshaking"
       THEN /\ Goto(t, IF running THEN <<"handshake", "unlock">> ELSE <<"unlock">>)
            /\ UNCHANGED <<flushRunning, flushReschedule>>
       ELSE /\ MarkFlushScheduledLocked
            /\ Goto(t, IF FlushScheduled THEN <<"flush", "unlock">> ELSE <<"unlock">>)
    /\ UNCHANGED <<lifeVars, pollVars, sendQueue, closeAfterFlush, offset, waitVars, timerVars,
                   current, wasReady, historyVars>>

EventSteps(t) ==
    \/ HandleRead(t) \/ ReceiveEnds(t) \/ ReceiveData(t)
    \/ ReceiveWouldBlock(t) \/ ReceiveFails(t)
    \/ HandleWrite(t)

-----------------------------------------------------------------------------
(* Timers.  A timer that is started calls back, in an IoService thread.    *)

Callback == [connection |-> "connectionTimer", read |-> "readTimer", write |-> "writeTimer"]

TimerFires(w, timer) ==
    /\ stack[w] = <<>> /\ timer \in armed
    /\ armed' = armed \ {timer}
    /\ stack' = [stack EXCEPT ![w] = <<Callback[timer]>>]
    /\ UNCHANGED <<lifeVars, pollVars, queueVars, offset, waitVars, timeouts, retimed, current, wasReady, historyVars>>

TimerCallback(w, timer, due) ==
    /\ At(w, timer)
    /\ Goto(w, IF due THEN <<"close">> ELSE <<>>)
    /\ UNCHANGED <<lifeVars, pollVars, queueVars, offset, waitVars, timerVars, current,
                   wasReady, historyVars>>

TimerSteps(w) ==
    \/ TimerCallback(w, "connectionTimer", running)
    \/ TimerCallback(w, "readTimer", ready)
    \/ TimerCallback(w, "writeTimer", ready /\ sendQueue # <<>>)

-----------------------------------------------------------------------------
StartSteps(t) ==
    \/ StartRegisters(t) \/ StartRuns(t) \/ InitializeTls(t) \/ AbortStartup(t)
    \/ DriveTlsHandshake(t, "firstHandshake", "abort")
    \/ DriveTlsHandshake(t, "handshake", "close")
    \/ Handshaken(t) \/ MarkReady(t) \/ CallConnected(t)

ThreadSteps(t) ==
    \/ StartSteps(t) \/ EventSteps(t) \/ TimerSteps(t) \/ CloseSteps(t) \/ FlushSteps(t)
    \/ Push(t, "pushOne", 1) \/ Push(t, "pushTwo", 2)
    \/ ArmConnectionTimer(t) \/ ArmWriteTimer(t) \/ StopWriteTimer(t)
    \/ NothingToCall(t)

UserCalls(t) ==
    \/ Send(t) \/ CloseAfterPendingWrites(t) \/ CallClose(t) \/ UpdateTimeouts(t)

Next ==
    \/ \E t \in Thread : ThreadSteps(t) \/ UserCalls(t) \/ PollEvents(t)
    \/ \E w \in Worker, timer \in {"connection", "read", "write"} : TimerFires(w, timer)

Spec == Init /\ [][Next]_vars

-----------------------------------------------------------------------------
(* Properties.                                                             *)

\* The peer gets the sends in the order in which they were accepted, each once
\* and whole: two threads never write at the same time, though every sender
\* writes.  Only when close() has begun may something else be sent, from an
\* entry that close() destroyed under the thread that was writing it.
WireInOrder ==
    /\ \A i \in 1..Len(wire) : wire[i] \in {(i - 1) \div ItemSize + 1, NoItem}
    /\ running => NoItem \notin Entries(wire)

\* The application is told at most once that the session is connected and that
\* it is disconnected, and gets data only in between.
CallbackProtocol ==
    /\ connected <= 1 /\ disconnected <= 1
    /\ (\E t \in Thread : At(t, "data")) => connected = 1 /\ disconnected = 0

\* What is queued is not forgotten.  The poller watches for room in the socket,
\* unless TLS has to read first; and when no thread is writing or about to arm
\* it, the write timer runs if there is a write time-out, so that a peer that
\* does not read is disconnected.  Changing the time-outs meanwhile may stop it.
NothingStalls ==
    running /\ ready /\ socket = "open" /\ sendQueue # <<>> =>
        /\ writeWait # "Read" => polled
        /\ \/ "write" \notin timeouts \/ retimed \/ flushRunning
           \/ \E t \in Thread : "armWrite" \in Entries(stack[t])
           \/ "write" \in armed \/ \E w \in Worker : At(w, "writeTimer") \/ At(w, "close")

\* closeAfterPendingWrites() closes when the socket has taken everything that
\* was accepted before it was called.
ClosesWhenFlushed ==
    [][\A t \in Thread : running /\ socket = "open" /\ (At(t, "drain") \/ At(t, "pop")) /\ At(t, "close")'
                             => Len(wire) >= promised * ItemSize]_vars
=============================================================================
