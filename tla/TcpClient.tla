----------------------------- MODULE TcpClient ------------------------------
(***************************************************************************)
(* src/src/TcpClient.cpp on Linux: connect() in an application's thread,   *)
(* the poller's thread that handles the events of the socket, IoService    *)
(* threads in which the timers call back, and callbacks that call the      *)
(* client again.  c holds the members of TcpClient::Impl.                  *)
(*                                                                         *)
(* callbackMutex_ is recursive and held across calls; connect(), the timer *)
(* callbacks, disconnect() up to closeWithReason() and                     *)
(* disconnectAfterPendingWrites() run without it.  The stack of a thread   *)
(* lists the points it goes on from and the guards it has to release.      *)
(***************************************************************************)
EXTENDS Integers, FiniteSets, SequencesExt

CONSTANTS App, Worker, Poller,
          MaxConnects,  \* bound on the calls of connect()
          MaxCalls,     \* bound on all the calls of the application
          ItemSize,     \* pieces in which the socket takes what is sent
          Timeouts,     \* time-outs that are not 0 at first
          Settable      \* time-outs the application changes

Thread == App \cup Worker \cup {Poller}
Timer == {"connect", "read", "write"}

ASSUME ClientConstants ==
    /\ MaxConnects \in Nat /\ MaxCalls \in Nat
    /\ ItemSize \in Nat \ {0} /\ Timeouts \cup Settable \subseteq Timer

VARIABLES
    c,      \* the members of Impl; pendingConnect and pendingTls are 0 or a call
    stack,
    seen,   \* the callback a thread has tested and not yet taken
    peer,   \* whether the peer has the connection open
    h       \* history: the calls, their answers, what was announced and written

vars == <<c, stack, seen, peer, h>>

Init ==
    /\ c = [running |-> FALSE, connected |-> FALSE, socket |-> "closed", registered |-> FALSE,
            tls |-> "Disabled", sslFailed |-> FALSE, upgrade |-> FALSE,
            pendingConnect |-> 0, pendingTls |-> 0,
            queue |-> 0, closeAfterFlush |-> FALSE,
            flushRunning |-> FALSE, flushReschedule |-> FALSE, interest |-> FALSE,
            readWait |-> "None", writeWait |-> "None", handshakeWait |-> "None",
            timeouts |-> Timeouts, armed |-> {}]
    /\ stack = [t \in Thread |-> <<>>]
    /\ seen = [t \in Thread |-> 0]
    /\ peer = "closed"
    /\ h = [connects |-> 0, overtaken |-> {}, answered |-> {}, upgrades |-> 0, upgraded |-> {},
            up |-> 0, down |-> 0, calls |-> 0,
            thrown |-> FALSE]

-----------------------------------------------------------------------------
(* Stacks, the recursive callbackMutex_, and assignments.                  *)

At(t, point) == stack[t] # <<>> /\ Head(stack[t]) = point

\* A guard of callbackMutex_, "unlock", ends with what is above it, and so does
\* a call of connect().
Guard == {"unlock", "connecting"}
Unlocked(points) ==
    LET n == CHOOSE n \in 0..Len(points) :
                 /\ \A i \in 1..n : points[i] \in Guard
                 /\ n = Len(points) \/ points[n + 1] \notin Guard
    IN  SubSeq(points, n + 1, Len(points))

Goto(t, points) == stack' = [stack EXCEPT ![t] = Unlocked(points \o Tail(@))]
CanLock(t) == \A u \in Thread \ {t} : "unlock" \notin ToSet(stack[u])

\* Only the stack changes.
Jump(t, points) == Goto(t, points) /\ UNCHANGED <<c, seen, peer, h>>

\* Members change as well.
Assign(t, impl, points) == c' = impl /\ Goto(t, points) /\ UNCHANGED <<seen, peer, h>>

Room == h.connects + h.calls < MaxCalls

\* A call of the public interface, from a thread or from a callback.
Calls(t, points) ==
    \/ t \in App /\ stack[t] = <<>> /\ stack' = [stack EXCEPT ![t] = Unlocked(points)]
    \/ At(t, "user") /\ Goto(t, points)

-----------------------------------------------------------------------------
(* Members that change together.                                           *)

\* Mutation of Refresh: a socket that was full is not waited for.
RefreshUnlessFull(impl) ==
    [impl EXCEPT !.interest =
        /\ impl.running
        /\ IF impl.tls = "Handshaking" THEN impl.handshakeWait = "Write"
           ELSE impl.queue # 0 /\ impl.writeWait = "None"]

\* refreshInterestLocked(), which tells the poller what it stores.  A readWait_
\* or handshakeWait_ of Read, for which the socket is always polled, is "None".
Refresh(impl) ==
    [impl EXCEPT !.interest =
        /\ impl.running
        /\ IF impl.tls = "Handshaking" THEN impl.handshakeWait = "Write"
           ELSE \/ impl.queue # 0 /\ impl.writeWait # "Read"
                \/ impl.readWait = "Write" \/ impl.writeWait = "Write"]

\* clearQueuesAndWaits()
Cleared(impl) ==
    [impl EXCEPT !.queue = 0, !.closeAfterFlush = FALSE,
                 !.flushRunning = FALSE, !.flushReschedule = FALSE, !.interest = FALSE,
                 !.readWait = "None", !.writeWait = "None", !.handshakeWait = "None"]

\* stopAllTimers(), clearQueuesAndWaits(), releaseTls() and socket_.close().
TornDown(impl) == [Cleared(impl) EXCEPT !.armed = {}, !.tls = "Disabled", !.sslFailed = FALSE,
                                       !.socket = "closed"]

Arm(impl, timer) ==
    [impl EXCEPT !.armed = @ \cup ({timer} \cap impl.timeouts)]
ArmIfConnected(impl, timer) == IF impl.connected THEN Arm(impl, timer) ELSE impl

-----------------------------------------------------------------------------
(* notifyConnect() and notifyTlsUpgrade().  The callback is tested, and    *)
(* then taken with std::exchange, without a lock: a thread that comes too  *)
(* late calls it once more, or calls an empty std::function, which throws. *)

NotifyConnect(t, point, take, callback) ==
    /\ At(t, point)
    /\ seen' = [seen EXCEPT ![t] = c.pendingConnect]
    /\ Goto(t, IF c.pendingConnect = 0 THEN callback ELSE <<take>>)
    /\ UNCHANGED <<c, peer, h>>

\* The callback of the call, and then the client's connectCallback_.
TakeConnect(t, take, callback) ==
    /\ At(t, take)
    /\ \/ h' = [h EXCEPT !.answered =
                     @ \cup {IF c.pendingConnect = 0 THEN seen[t] ELSE c.pendingConnect}]
       \/ c.pendingConnect = 0 /\ h' = [h EXCEPT !.thrown = TRUE]
    /\ c' = [c EXCEPT !.pendingConnect = 0]
    /\ seen' = [seen EXCEPT ![t] = 0]
    /\ Goto(t, callback)
    /\ UNCHANGED peer

NotifyTlsUpgrade(t, point) ==
    /\ At(t, point)
    /\ c' = [c EXCEPT !.upgrade = FALSE]
    /\ seen' = [seen EXCEPT ![t] = c.pendingTls]
    /\ Goto(t, IF c.pendingTls = 0 THEN <<>> ELSE <<"take tls">>)
    /\ UNCHANGED <<peer, h>>

TakeTls(t) ==
    /\ At(t, "take tls")
    /\ \/ h' = [h EXCEPT !.upgraded =
                     @ \cup {IF c.pendingTls = 0 THEN seen[t] ELSE c.pendingTls}]
       \/ c.pendingTls = 0 /\ h' = [h EXCEPT !.thrown = TRUE]
    /\ c' = [c EXCEPT !.pendingTls = 0]
    /\ seen' = [seen EXCEPT ![t] = 0]
    /\ Goto(t, <<>>)
    /\ UNCHANGED peer

\* notifyHandshakeFailure()
NotifyHandshakeFailure(t) ==
    At(t, "handshake failed") /\ Jump(t, IF c.upgrade THEN <<"tls no">> ELSE <<"answer no">>)

Notifications(t) ==
    \/ NotifyConnect(t, "answer yes", "take yes", <<"user">>)
    \/ TakeConnect(t, "take yes", <<"user">>)
    \/ NotifyConnect(t, "answer no", "take no", <<>>) \/ TakeConnect(t, "take no", <<>>)
    \/ NotifyTlsUpgrade(t, "tls yes") \/ NotifyTlsUpgrade(t, "tls no") \/ TakeTls(t)
    \/ NotifyHandshakeFailure(t)

-----------------------------------------------------------------------------
(* connect(): the first of a client, whose connection the model follows to *)
(* its end, and others while it is running, each by an application that    *)
(* has the answer to the one before.                                       *)

Connecting == {t \in Thread : "connecting" \in ToSet(stack[t])}

\* The call of connect() that a thread overtakes when it closes.
Overtaken == IF Connecting = {} THEN {} ELSE {h.connects}

Connect(t) ==
    /\ h.connects < MaxConnects /\ Room
    /\ stack[t] = <<>>
    /\ h.connects = 0 \/ c.running
    /\ Connecting = {} /\ c.pendingConnect \in {0} \cup h.overtaken
    /\ c' = [c EXCEPT !.pendingConnect = h.connects + 1]
    /\ h' = [h EXCEPT !.connects = @ + 1]
    /\ Calls(t, <<IF c.running THEN "answer no" ELSE "reset", "connecting">>)
    /\ UNCHANGED <<seen, peer>>

ResetTransportState(t) ==
    /\ At(t, "reset") /\ CanLock(t)
    /\ Assign(t, [TornDown(c) EXCEPT !.connected = FALSE, !.running = FALSE, !.upgrade = FALSE,
                                     !.pendingTls = 0], <<"open">>)

\* The socket is created, set up, connected and registered, or one of these fails.
Open(t) ==
    /\ At(t, "open")
    /\ \/ /\ c' = [c EXCEPT !.socket = "open", !.registered = TRUE]
          /\ peer' = "open"
          /\ \E next \in {"run", "run with TLS"} : Goto(t, <<next>>)
          /\ UNCHANGED <<seen, h>>
       \/ Assign(t, [c EXCEPT !.socket = "closed"], <<"answer no">>)

\* running_ is set, and the connect timer started.
Run(t, point, next) ==
    At(t, point) /\ Assign(t, Arm([c EXCEPT !.running = TRUE], "connect"), <<next>>)

InitializeTls(t, point, drive, failure) ==
    /\ At(t, point)
    /\ \/ Assign(t, [c EXCEPT !.tls = "Handshaking", !.handshakeWait = "None"], <<drive>>)
       \/ Jump(t, failure)

\* Under tlsMutex_.  Over a closed socket, and after it has failed, a handshake
\* can only fail.
DriveTlsHandshake(t, point, failure) ==
    /\ At(t, point)
    /\ \/ c.tls # "Handshaking" /\ Jump(t, <<>>)
       \/ /\ c.tls = "Handshaking" /\ c.socket = "open" /\ ~c.sslFailed
          /\ \/ Assign(t, Refresh([c EXCEPT !.tls = "Ready", !.handshakeWait = "None"]),
                       <<"mark connected">>)
             \/ \E wait \in {"None", "Write"} :
                    peer = "open" /\ Assign(t, Refresh([c EXCEPT !.handshakeWait = wait]), <<>>)
       \/ c.tls = "Handshaking" /\ Assign(t, [c EXCEPT !.sslFailed = TRUE], failure)

MarkConnected(t) ==
    /\ At(t, "mark connected")
    /\ c' = Arm([c EXCEPT !.connected = TRUE, !.armed = @ \ {"connect"}], "read")
    /\ h' = [h EXCEPT !.up = @ + (IF c.connected THEN 0 ELSE 1)]
    /\ Goto(t, IF c.upgrade THEN <<"tls yes">> ELSE <<"answer yes">>)
    /\ UNCHANGED <<seen, peer>>

CleanupInactiveTransport(t) ==
    /\ At(t, "cleanup") /\ CanLock(t)
    /\ Assign(t, [TornDown(c) EXCEPT !.running = FALSE, !.connected = FALSE,
                                     !.registered = @ /\ c.socket # "open"], <<>>)

ConnectSteps(t) ==
    \/ ResetTransportState(t) \/ Open(t)
    \/ Run(t, "run", "mark connected") \/ Run(t, "run with TLS", "init tls")
    \/ InitializeTls(t, "init tls", "drive connect", <<"answer no", "cleanup">>)
    \/ DriveTlsHandshake(t, "drive connect", <<"answer no", "cleanup">>)
    \/ MarkConnected(t) \/ CleanupInactiveTransport(t)

-----------------------------------------------------------------------------
(* startTls(), on a connection without TLS and with nothing queued, by an  *)
(* application that has the answer to its connect().                       *)

StartTls(t) ==
    /\ Room /\ c.pendingConnect = 0 /\ CanLock(t)
    /\ c.running /\ c.connected /\ c.tls = "Disabled" /\ c.queue = 0
    /\ h' = [h EXCEPT !.calls = @ + 1, !.upgrades = @ + 1]
    /\ c' = [c EXCEPT !.pendingTls = h.upgrades + 1, !.upgrade = TRUE,
                      !.armed = @ \ {"read", "write"}]
    /\ Calls(t, <<"upgrade", "unlock">>)
    /\ UNCHANGED <<seen, peer>>

\* releaseTls(), before closeWithReason()
ReleaseTls(t) ==
    At(t, "release tls") /\ Assign(t, [c EXCEPT !.tls = "Disabled", !.sslFailed = FALSE], <<>>)

UpgradeSteps(t) ==
    \/ InitializeTls(t, "upgrade", "drive upgrade", <<"tls no", "release tls", "close">>)
    \/ DriveTlsHandshake(t, "drive upgrade", <<"handshake failed", "close">>)
    \/ ReleaseTls(t)

-----------------------------------------------------------------------------
(* disconnect(), closeWithReason() and handleTransportFailure().           *)

CancelConnect ==
    IF c.running /\ ~c.connected /\ c.pendingConnect # 0 THEN <<"answer no">> ELSE <<>>

Disconnect(t) ==
    /\ Room
    /\ h' = [h EXCEPT !.calls = @ + 1, !.overtaken = @ \cup Overtaken]
    /\ Calls(t, CancelConnect \o <<"cancel tls", "close">>)
    /\ UNCHANGED <<c, seen, peer>>

CancelTls(t) ==
    /\ At(t, "cancel tls")
    /\ Jump(t, IF c.running /\ c.upgrade /\ c.pendingTls # 0 THEN <<"tls no">> ELSE <<>>)

\* running_.exchange(false), and the poller forgets the socket.
ExchangeRunning(t, guards) ==
    /\ IF c.running
       THEN /\ c' = [c EXCEPT !.running = FALSE, !.registered = @ /\ c.socket # "open"]
            /\ Goto(t, <<"exchange connected">> \o guards)
       ELSE /\ c' = [TornDown(c) EXCEPT !.connected = FALSE]
            /\ Goto(t, guards)
    /\ h' = [h EXCEPT !.overtaken = @ \cup Overtaken]
    /\ UNCHANGED <<seen, peer>>

CloseWithReason(t) ==
    \/ /\ At(t, "close") /\ CanLock(t)
       /\ IF c.upgrade /\ c.pendingTls # 0 THEN Jump(t, <<"tls no", "exchange", "unlock">>)
                                           ELSE ExchangeRunning(t, <<"unlock">>)
    \/ At(t, "exchange") /\ ExchangeRunning(t, <<>>)

\* Mutation of ExchangeConnected: it is not asked whether there was a connection.
ExchangeConnectedAlways(t) ==
    /\ At(t, "exchange connected")
    /\ c' = [TornDown(c) EXCEPT !.connected = FALSE]
    /\ h' = [h EXCEPT !.down = @ + 1]
    /\ Goto(t, <<"user">>)
    /\ UNCHANGED <<seen, peer>>

\* connected_.exchange(false), what is stopped, cleared and closed after it, and
\* the disconnected callback.
ExchangeConnected(t) ==
    /\ At(t, "exchange connected")
    /\ c' = [TornDown(c) EXCEPT !.connected = FALSE]
    /\ h' = [h EXCEPT !.down = @ + (IF c.connected THEN 1 ELSE 0)]
    /\ Goto(t, IF c.connected THEN <<"user">> ELSE <<>>)
    /\ UNCHANGED <<seen, peer>>

HandleTransportFailure(t) ==
    /\ At(t, "failure")
    /\ Jump(t, (IF ~c.connected /\ c.pendingConnect # 0 THEN <<"answer no">> ELSE <<>>)
                   \o <<"close">>)

CloseSteps(t) ==
    CancelTls(t) \/ CloseWithReason(t) \/ ExchangeConnected(t) \/ HandleTransportFailure(t)

-----------------------------------------------------------------------------
(* send() and the flush.  callbackMutex_ is held, and what other threads   *)
(* do meanwhile they could do before: runQueuedFlush() is one step.        *)

\* markFlushScheduledLocked()
FlushScheduled(impl) == impl.running /\ ~impl.flushRunning
MarkFlushScheduled(impl) ==
    [impl EXCEPT !.flushRunning = @ \/ impl.running,
                 !.flushReschedule = IF impl.running THEN impl.flushRunning ELSE @]

FlushDone(impl) == [impl EXCEPT !.flushRunning = FALSE, !.flushReschedule = FALSE]

\* What writeTransport() waits for when it would block.
WriteTransportWaits == {"Write"} \cup (IF c.tls = "Ready" THEN {"Read"} ELSE {})

\* drainSendQueue() writes n pieces and then finds the queue empty, or the socket
\* full, or it fails; a payload is as many pieces as the socket takes it in.
RunQueuedFlush(t) ==
    /\ At(t, "flush")
    /\ \/ ~c.connected /\ Assign(t, FlushDone(c), <<>>)
       \/ /\ c.connected /\ c.socket = "open"
          /\ LET empty == [c EXCEPT !.queue = 0, !.writeWait = "None", !.armed = @ \ {"write"},
                                    !.closeAfterFlush = FALSE]
             IN  IF c.closeAfterFlush THEN Assign(t, Refresh(empty), <<"close", "stop flush">>)
                                      ELSE Assign(t, FlushDone(Refresh(empty)), <<>>)
       \/ /\ c.connected /\ c.socket = "open" /\ c.queue # 0
          /\ \E n \in 0..(c.queue - 1) :
             \E wait \in WriteTransportWaits :
                 Assign(t, FlushDone(Refresh(
                     [Arm(c, "write") EXCEPT !.queue = @ - n, !.writeWait = wait])),
                     <<>>)
       \/ /\ c.connected /\ c.queue # 0
          /\ \E end \in {"close", "failure"} : Jump(t, <<end, "stop flush">>)

StopFlush(t) == At(t, "stop flush") /\ Assign(t, FlushDone(c), <<>>)

\* The overloads of send(): the payload is queued, and written if nobody does.
Send(t) ==
    /\ Room /\ CanLock(t)
    /\ c.connected
    /\ h' = [h EXCEPT !.calls = @ + 1]
    /\ LET queued == Refresh([c EXCEPT !.queue = @ + ItemSize]) IN
       /\ c' = Arm(MarkFlushScheduled(queued), "write")
       /\ Calls(t, IF FlushScheduled(queued) THEN <<"flush", "unlock">> ELSE <<>>)
    /\ UNCHANGED <<seen, peer>>

DisconnectAfterPendingWrites(t) ==
    /\ Room
    /\ h' = [h EXCEPT !.calls = @ + 1, !.overtaken = @ \cup Overtaken]
    /\ IF ~c.connected
       THEN Calls(t, CancelConnect \o <<"cancel tls", "close">>) /\ UNCHANGED c
       ELSE IF c.queue = 0
       THEN Calls(t, <<"close">>) /\ c' = [c EXCEPT !.closeAfterFlush = FALSE]
       ELSE Calls(t, <<>>) /\ c' = Refresh([c EXCEPT !.closeAfterFlush = TRUE])
    /\ UNCHANGED <<seen, peer>>

FlushSteps(t) == RunQueuedFlush(t) \/ StopFlush(t)

-----------------------------------------------------------------------------
(* The poller's thread, the timers, and the time-outs.                     *)

TlsToCome == \E t \in Thread : {"run with TLS", "init tls"} \cap ToSet(stack[t]) # {}

PeerCloses == c.socket = "open" /\ peer' = "closed" /\ UNCHANGED <<c, stack, seen, h>>

\* The callback given to EventPoller::add(), with the events of one report.  A
\* peer does not speak before the client has begun the TLS handshake.
SocketEvent(t) ==
    /\ t = Poller /\ stack[t] = <<>> /\ c.registered /\ c.socket = "open"
    /\ \E events \in SUBSET {"read", "write event", "failure"} :
           /\ events # {}
           /\ "write event" \in events => c.interest
           /\ "read" \in events /\ TlsToCome => peer = "closed"
           /\ stack' = [stack EXCEPT ![t] =
                  SelectSeq(<<"read", "write event", "failure">>, LAMBDA e : e \in events)]
    /\ UNCHANGED <<c, seen, peer, h>>

HandleRead(t) ==
    /\ At(t, "read") /\ CanLock(t)
    /\ Jump(t, IF ~c.running THEN <<>>
               ELSE IF c.tls = "Handshaking" THEN <<"drive handler", "unlock">>
               ELSE <<"receive", "unlock">>)

\* What readTransport() waits for when it would block.
ReadTransportWaits == {"None"} \cup (IF c.tls = "Ready" THEN {"Write"} ELSE {})

\* One round of the loop of handleRead().
Receive(t) ==
    /\ At(t, "receive")
    /\ \/ ~c.running /\ Jump(t, <<>>)
       \/ /\ c.running /\ c.socket = "open"
          /\ \/ \E more \in {<<>>, <<"receive">>} :
                    Assign(t, ArmIfConnected(Refresh([c EXCEPT !.readWait = "None"]), "read"),
                           <<"user">> \o more)
             \/ \E wait \in ReadTransportWaits :
                    peer = "open" /\ Assign(t, Refresh([c EXCEPT !.readWait = wait]), <<>>)
             \/ peer = "closed" /\ Jump(t, <<"close">>)
       \/ c.running /\ Jump(t, <<"failure">>)

HandleWrite(t) ==
    /\ At(t, "write event") /\ CanLock(t)
    /\ IF c.running /\ c.tls # "Handshaking"
       THEN Assign(t, MarkFlushScheduled(c),
                   IF FlushScheduled(c) THEN <<"flush", "unlock">> ELSE <<>>)
       ELSE Jump(t, IF c.running THEN <<"drive handler", "unlock">> ELSE <<>>)

EventSteps(t) ==
    \/ HandleRead(t) \/ Receive(t) \/ HandleWrite(t)
    \/ DriveTlsHandshake(t, "drive handler", <<"handshake failed", "failure">>)

\* A timer calls back; that it is stopped from now on changes nothing.
TimerFires(t) ==
    /\ t \in Worker /\ stack[t] = <<>>
    /\ \E timer \in c.armed :
           /\ c' = [c EXCEPT !.armed = @ \ {timer}]
           /\ stack' = [stack EXCEPT ![t] = <<timer>>]
    /\ UNCHANGED <<seen, peer, h>>

TimerRuns(t) ==
    \E timer \in Timer :
        /\ At(t, timer) /\ t \in Worker
        /\ Jump(t, IF \/ timer = "connect" /\ c.running /\ ~c.connected
                      \/ timer = "read" /\ c.connected
                      \/ timer = "write" /\ c.connected /\ c.queue # 0
                   THEN <<"failure">> ELSE <<>>)

\* setConnectTimeout(), setReadTimeout(), setWriteTimeout().
SetTimeout(t) ==
    /\ Room
    /\ h' = [h EXCEPT !.calls = @ + 1]
    /\ \E timer \in Settable : \E on \in BOOLEAN :
           LET set == [c EXCEPT !.timeouts = IF on THEN @ \cup {timer} ELSE @ \ {timer}]
               wanted == CASE timer = "connect" -> c.running /\ ~c.connected
                           [] timer = "read" -> c.connected
                           [] timer = "write" -> c.connected /\ c.queue # 0
           IN  c' = IF on /\ wanted THEN Arm(set, timer)
                                    ELSE [set EXCEPT !.armed = @ \ {timer}]
    /\ Calls(t, <<>>)
    /\ UNCHANGED <<seen, peer>>

-----------------------------------------------------------------------------

CallbackReturns(t) == At(t, "user") /\ Jump(t, <<>>)

UserCalls(t) ==
    \/ Connect(t) \/ StartTls(t) \/ Disconnect(t) \/ DisconnectAfterPendingWrites(t)
    \/ Send(t) \/ SetTimeout(t)

ThreadSteps(t) ==
    \/ Notifications(t) \/ ConnectSteps(t) \/ UpgradeSteps(t) \/ CloseSteps(t)
    \/ FlushSteps(t) \/ EventSteps(t) \/ TimerRuns(t) \/ CallbackReturns(t)

Next ==
    /\ ~h.thrown
    /\ \/ PeerCloses
       \/ \E t \in Thread : UserCalls(t) \/ ThreadSteps(t) \/ SocketEvent(t) \/ TimerFires(t)

Spec == Init /\ [][Next]_vars

-----------------------------------------------------------------------------
AtRest == \A t \in Thread : stack[t] = <<>>

\* No answer is forgotten: with all calls returned, the callback of connect() was
\* called, or it waits for a TLS handshake that the poller watches and that
\* connectTimeout_ ends; the callback of startTls() was called, or its handshake is
\* going on.  Only a close that overtakes connect() can lose an answer.
AnswersOwed ==
    AtRest /\ ~h.thrown =>
        /\ 1..h.connects \subseteq h.answered \cup h.overtaken \cup {c.pendingConnect}
        /\ c.pendingConnect \notin {0} \cup h.overtaken =>
               /\ c.running /\ ~c.connected /\ c.tls = "Handshaking"
               /\ c.registered /\ c.socket = "open"
               /\ "connect" \in c.timeouts => "connect" \in c.armed
        /\ 1..h.upgrades \subseteq h.upgraded \cup {c.pendingTls}
        /\ c.pendingTls # 0 => c.running /\ c.upgrade /\ c.tls = "Handshaking"

\* An application that was told of a connection is told of its end, once,
\* whichever thread ends it and however often it is closed: by closeWithReason()
\* when it takes connected_, unless the close overtakes connect().
DisconnectTold ==
    /\ h.down <= h.up
    /\ AtRest /\ ~h.thrown /\ ~c.running /\ h.overtaken = {} => h.down = h.up

\* The application hears of every connect(), startTls() and connection, once.
ClientAnswers == AnswersOwed /\ DisconnectTold

\* What is queued is not forgotten by poller and write timer: when nobody is
\* flushing, the socket is polled for writing, or TLS has to read first.
NothingStranded ==
    AtRest /\ c.running /\ c.connected /\ c.queue # 0 =>
        /\ c.interest \/ c.writeWait = "Read" \/ c.tls = "Handshaking"
        /\ "write" \in c.timeouts => "write" \in c.armed

=============================================================================
