------------------------------ MODULE TcpServer ------------------------------
(***************************************************************************)
(* src/src/TcpServer.cpp, class TcpServer::Impl on Linux, composed with    *)
(* the EventPoller: the listening socket and the sessions' sockets are its *)
(* descriptors, and accepting and closing happen in its callbacks, while   *)
(* application threads start and stop the server, disconnect clients and   *)
(* broadcast.  Descriptor numbers are used again once closed.              *)
(*                                                                         *)
(* A session is what the server sees of it, its write queue, TLS and       *)
(* time-outs are in ClientSession.  A connection's ConnectionId is the     *)
(* connection itself.                                                      *)
(***************************************************************************)
EXTENDS EventPoller, FiniteSets

CONSTANTS Conn,            \* connections that peers may make
          Listen,          \* the number of the listening socket, in Fd
          Limits,          \* what setMaxConnections() may be given
          MaxStarts,       \* bound on calls of start()
          MaxBroadcasts    \* bound on calls of broadcast()

Poller == CHOOSE p \in PollThread : TRUE
Number == Fd \ {Listen}

ASSUME ServerConstants ==
    /\ PollThread = {Poller} /\ Listen \in Fd /\ ~OneShot
    /\ Limits \subseteq Nat /\ MaxStarts \in Nat /\ MaxBroadcasts \in Nat

VARIABLES
    running, listening, backlog,
    sessions, sessionCount,
    maxConnections,              \* set before start()
    peer,                        \* "away", "there" or "gone"
    socket, number,              \* of a connection: "none", "open" or "closed", and the number
                                 \* it was registered by, which is Listen if there is none
    sessionRunning, ready,       \* running_ and ready_ of a session
    callbackMutex,               \* who holds it
    current, todo,               \* of a thread: the session at hand, and those it has copied
    starts, broadcasts,
    got, expected                \* who got the last broadcast, and who should

tableVars == <<sessions, sessionCount>>
serverVars == <<running, listening, backlog, maxConnections>>
sessionVars == <<socket, number, sessionRunning, ready, callbackMutex>>
threadVars == <<current, todo>>
castVars == <<broadcasts, got, expected>>
vars == <<pollerVars, tableVars, serverVars, peer, sessionVars, threadVars, starts, castVars>>

ServerInit ==
    /\ Init
    /\ running = FALSE /\ listening = FALSE /\ backlog = {}
    /\ sessions = {} /\ sessionCount = 0 /\ maxConnections \in Limits
    /\ peer = [c \in Conn |-> "away"] /\ socket = [c \in Conn |-> "none"]
    /\ number = [c \in Conn |-> Listen]
    /\ sessionRunning = [c \in Conn |-> FALSE] /\ ready = [c \in Conn |-> FALSE]
    /\ callbackMutex = [c \in Conn |-> Nobody]
    /\ current = [t \in Thread |-> Nobody] /\ todo = [t \in Thread |-> {}]
    /\ starts = 0 /\ broadcasts = 0 /\ got = {} /\ expected = {}

-----------------------------------------------------------------------------
(* start().                                                                *)

StartServer(a) ==
    /\ pc[a] = "idle" /\ ~running /\ starts < MaxStarts
    /\ running' = TRUE /\ starts' = starts + 1
    /\ Goto(a, "listen")
    /\ UNCHANGED <<mapVars, batchVars, tableVars, listening, backlog, maxConnections, peer,
                   sessionVars, threadVars, castVars>>

\* The listening socket is made, or one of the calls fails.
StartListens(a) ==
    /\ pc[a] = "listen"
    /\ \/ listening' = TRUE /\ Goto(a, "register")
       \/ listening' = FALSE /\ Goto(a, "unlisten")
    /\ UNCHANGED <<mapVars, batchVars, tableVars, running, backlog, maxConnections, peer,
                   sessionVars, threadVars, starts, castVars>>

StartRegisters(a) ==
    /\ \/ pc[a] = "register" /\ AddCheck(a, Listen, "register kernel", "unlisten")
       \/ /\ pc[a] = "register kernel"
          /\ AddKernel(a, Listen, listening, "register insert", "unlisten")
       \/ pc[a] = "register insert" /\ AddInsert(a, Listen, Listen, "idle", "unlisten")
    /\ UNCHANGED <<tableVars, serverVars, peer, sessionVars, threadVars, starts, castVars>>

StartFails(a) ==
    /\ pc[a] = "unlisten"
    /\ running' = FALSE /\ listening' = FALSE /\ backlog' = {}
    /\ Goto(a, "idle")
    /\ UNCHANGED <<mapVars, batchVars, tableVars, maxConnections, peer, sessionVars,
                   threadVars, starts, castVars>>

-----------------------------------------------------------------------------
(* stop(), disconnectClient() and broadcast().                             *)

StopServer(a) ==
    /\ pc[a] = "idle" /\ running
    /\ running' = FALSE
    /\ Goto(a, "stop listening")
    /\ UNCHANGED <<mapVars, batchVars, tableVars, listening, backlog, maxConnections, peer,
                   sessionVars, threadVars, starts, castVars>>

\* Closing the listening socket resets the connections nobody accepted.
StopListening(a) ==
    /\ pc[a] = "stop listening"
    /\ RemoveFd(Listen)
    /\ listening' = FALSE /\ backlog' = {}
    /\ Goto(a, "clear sessions")
    /\ UNCHANGED <<batchVars, tableVars, running, maxConnections, peer, sessionVars,
                   threadVars, starts, castVars>>

StopClears(a) ==
    /\ pc[a] = "clear sessions"
    /\ todo' = [todo EXCEPT ![a] = sessions]
    /\ sessions' = {} /\ sessionCount' = 0
    /\ expected' = {}
    /\ Goto(a, "next")
    /\ UNCHANGED <<mapVars, batchVars, serverVars, peer, sessionVars, current, starts,
                   broadcasts, got>>

\* The sessions that were copied are closed one after the other.
NextToClose(a) ==
    /\ pc[a] = "next"
    /\ \/ \E c \in todo[a] :
            /\ todo' = [todo EXCEPT ![a] = @ \ {c}]
            /\ current' = [current EXCEPT ![a] = c]
            /\ Goto(a, "close")
       \/ todo[a] = {} /\ Goto(a, "idle") /\ UNCHANGED threadVars
    /\ UNCHANGED <<mapVars, batchVars, tableVars, serverVars, peer, sessionVars, starts,
                   castVars>>

DisconnectClient(a, c) ==
    /\ pc[a] = "idle" /\ c \in sessions
    /\ current' = [current EXCEPT ![a] = c]
    /\ Goto(a, "close")
    /\ UNCHANGED <<mapVars, batchVars, tableVars, serverVars, peer, sessionVars, todo,
                   starts, castVars>>

\* broadcast() copies the table.  Those it owes the data to are the clients that
\* are connected by then.
Broadcast(a) ==
    /\ pc[a] = "idle" /\ broadcasts < MaxBroadcasts
    /\ broadcasts' = broadcasts + 1
    /\ todo' = [todo EXCEPT ![a] = sessions]
    /\ got' = {}
    /\ expected' = {c \in Conn : sessionRunning[c] /\ ready[c] /\ socket[c] = "open"}
    /\ Goto(a, "broadcast")
    /\ UNCHANGED <<mapVars, batchVars, tableVars, serverVars, peer, sessionVars, current,
                   starts>>

\* Mutation of BroadcastNext: a refused send() ends the broadcast.
BroadcastStops(a) ==
    /\ pc[a] = "broadcast"
    /\ \/ \E c \in todo[a] :
            /\ todo' = [todo EXCEPT ![a] = IF ready[c] THEN @ \ {c} ELSE {}]
            /\ got' = IF ready[c] THEN got \cup {c} ELSE got
            /\ UNCHANGED pc
       \/ todo[a] = {} /\ Goto(a, "idle") /\ UNCHANGED <<todo, got>>
    /\ UNCHANGED <<mapVars, batchVars, tableVars, serverVars, peer, sessionVars,
                   current, starts, broadcasts, expected>>

\* send() refuses when the session is not ready.
BroadcastNext(a) ==
    /\ pc[a] = "broadcast"
    /\ \/ \E c \in todo[a] :
            /\ todo' = [todo EXCEPT ![a] = @ \ {c}]
            /\ got' = IF ready[c] THEN got \cup {c} ELSE got
            /\ UNCHANGED pc
       \/ todo[a] = {} /\ Goto(a, "idle") /\ UNCHANGED <<todo, got>>
    /\ UNCHANGED <<mapVars, batchVars, tableVars, serverVars, peer, sessionVars, current,
                   starts, broadcasts, expected>>

-----------------------------------------------------------------------------
(* ClientSession::close() by a thread t, under callbackMutex_.             *)

\* The kernel forgets a descriptor that is closed.
CloseNumber(c) ==
    /\ socket' = [socket EXCEPT ![c] = "closed"]
    /\ kernel' = IF socket[c] = "open" THEN [kernel EXCEPT ![number[c]] = "out"] ELSE kernel

\* The poller's callback is over, stop() goes on with the next session.
CloseReturns(t) ==
    /\ current' = [current EXCEPT ![t] = Nobody]
    /\ IF t = Poller
       THEN CallEnds(t) /\ Goto(t, "dispatch")
       ELSE Goto(t, "next") /\ UNCHANGED <<readyEvents, calling>>

\* Mutation of CloseSession: running_ is only read.
CloseSessionReads(t) ==
    LET c == current[t] IN
    /\ pc[t] = "close" /\ callbackMutex[c] = Nobody /\ sessionRunning[c]
    /\ callbackMutex' = [callbackMutex EXCEPT ![c] = t]
    /\ IF socket[c] = "open" THEN RemoveFd(number[c]) ELSE UNCHANGED mapVars
    /\ Goto(t, "close socket")
    /\ UNCHANGED <<batchVars, tableVars, serverVars, peer, socket, number, ready,
                   sessionRunning, threadVars, starts, castVars>>

\* The exchange of running_, and the poller forgets the socket.
CloseSession(t) ==
    LET c == current[t] IN
    /\ pc[t] = "close" /\ callbackMutex[c] = Nobody /\ sessionRunning[c]
    /\ sessionRunning' = [sessionRunning EXCEPT ![c] = FALSE]
    /\ callbackMutex' = [callbackMutex EXCEPT ![c] = t]
    /\ IF socket[c] = "open" THEN RemoveFd(number[c]) ELSE UNCHANGED mapVars
    /\ Goto(t, "close socket")
    /\ UNCHANGED <<batchVars, tableVars, serverVars, peer, socket, number, ready,
                   threadVars, starts, castVars>>

\* close() of a session that does not run, or not yet: only the socket.
CloseAgain(t) ==
    LET c == current[t] IN
    /\ pc[t] = "close" /\ callbackMutex[c] = Nobody /\ ~sessionRunning[c]
    /\ CloseNumber(c)
    /\ ready' = [ready EXCEPT ![c] = FALSE]
    /\ CloseReturns(t)
    /\ UNCHANGED <<eventMap, events, count, tableVars, serverVars, peer, number,
                   sessionRunning, callbackMutex, todo, starts, castVars>>

CloseSocket(t) ==
    LET c == current[t] IN
    /\ pc[t] = "close socket"
    /\ CloseNumber(c) /\ number' = [number EXCEPT ![c] = Listen]
    /\ ready' = [ready EXCEPT ![c] = FALSE]
    /\ Goto(t, "closed")
    /\ UNCHANGED <<eventMap, batchVars, tableVars, serverVars, peer, sessionRunning,
                   callbackMutex, threadVars, starts, castVars>>

\* What erasing a session does to the table and to its counter.
Erase(c) ==
    /\ sessions' = sessions \ {c}
    /\ sessionCount' = sessionCount - (IF c \in sessions THEN 1 ELSE 0)

OnSessionClosed(t) ==
    LET c == current[t] IN
    /\ pc[t] = "closed"
    /\ Erase(c)
    /\ callbackMutex' = [callbackMutex EXCEPT ![c] = Nobody]
    /\ CloseReturns(t)
    /\ UNCHANGED <<mapVars, events, count, serverVars, peer, socket, number,
                   sessionRunning, ready, todo, starts, castVars>>

CloseSteps(t) == CloseSession(t) \/ CloseAgain(t) \/ CloseSocket(t) \/ OnSessionClosed(t)

-----------------------------------------------------------------------------
(* The poller's callbacks.                                                 *)

\* acceptNewConnections() for the listening socket.
CallListener(p) ==
    /\ pc[p] = "call" /\ calling[p] = Listen
    /\ Goto(p, "accept")
    /\ UNCHANGED <<mapVars, batchVars, tableVars, serverVars, peer, sessionVars,
                   threadVars, starts, castVars>>

\* The number is one that nobody has.
Accept(p) ==
    /\ pc[p] = "accept" /\ running /\ listening
    /\ \E c \in backlog, n \in Number :
         /\ \A d \in Conn : socket[d] = "open" => number[d] # n
         /\ backlog' = backlog \ {c}
         /\ socket' = [socket EXCEPT ![c] = "open"] /\ number' = [number EXCEPT ![c] = n]
         /\ current' = [current EXCEPT ![p] = c]
    /\ Goto(p, "adopt")
    /\ UNCHANGED <<mapVars, batchVars, tableVars, running, listening, maxConnections, peer,
                   sessionRunning, ready, callbackMutex, todo, starts, castVars>>

\* The server has been stopped, or accept() would block or fails.
AcceptEnds(p) ==
    /\ pc[p] = "accept" /\ (running /\ listening => backlog = {})
    /\ CallReturns(p)
    /\ current' = [current EXCEPT ![p] = Nobody]
    /\ UNCHANGED <<tableVars, serverVars, peer, sessionVars, todo, starts, castVars>>

\* adoptAcceptedSocket(): too many, or the session cannot be made.
Refuse(p) ==
    /\ pc[p] = "adopt"
    /\ CloseNumber(current[p]) /\ number' = [number EXCEPT ![current[p]] = Listen]
    /\ Goto(p, "accept")
    /\ UNCHANGED <<eventMap, batchVars, tableVars, serverVars, peer, sessionRunning, ready,
                   callbackMutex, threadVars, starts, castVars>>

\* The counter is tested, then the table.  Only this thread adds to it.
Adopt(p) ==
    /\ pc[p] = "adopt"
    /\ sessionCount < maxConnections /\ Cardinality(sessions) < maxConnections
    /\ sessions' = sessions \cup {current[p]} /\ sessionCount' = sessionCount + 1
    /\ Goto(p, "start session")
    /\ UNCHANGED <<mapVars, batchVars, serverVars, peer, sessionVars, threadVars, starts,
                   castVars>>

\* ClientSession::start(): the options of the socket, which fail on a closed one,
\* and its registration.
SessionRegisters(p) ==
    LET c == current[p] IN
    /\ \/ /\ pc[p] = "start session"
          /\ \/ socket[c] = "open" /\ AddCheck(p, number[c], "add to kernel", "start failed")
             \/ Goto(p, "start failed") /\ UNCHANGED <<mapVars, batchVars>>
       \/ /\ pc[p] = "add to kernel"
          /\ AddKernel(p, number[c], socket[c] = "open", "insert", "start failed")
       \/ pc[p] = "insert" /\ AddInsert(p, number[c], c, "run", "start failed")
    /\ UNCHANGED <<tableVars, serverVars, peer, sessionVars, threadVars, starts, castVars>>

SessionStartFailed(p) ==
    /\ pc[p] = "start failed"
    /\ CloseNumber(current[p]) /\ number' = [number EXCEPT ![current[p]] = Listen]
    /\ Erase(current[p])
    /\ Goto(p, "accept")
    /\ UNCHANGED <<eventMap, batchVars, serverVars, peer, sessionRunning, ready,
                   callbackMutex, threadVars, starts, castVars>>

SessionRuns(p) ==
    /\ pc[p] = "run"
    /\ sessionRunning' = [sessionRunning EXCEPT ![current[p]] = TRUE]
    /\ Goto(p, "mark ready")
    /\ UNCHANGED <<mapVars, batchVars, tableVars, serverVars, peer, socket, number, ready,
                   callbackMutex, threadVars, starts, castVars>>

\* markReady(), and with it the application's connected callback.
MarkReady(p) ==
    /\ pc[p] = "mark ready"
    /\ ready' = [ready EXCEPT ![current[p]] = TRUE]
    /\ Goto(p, "accept")
    /\ UNCHANGED <<mapVars, batchVars, tableVars, serverVars, peer, socket, number,
                   sessionRunning, callbackMutex, threadVars, starts, castVars>>

\* Mutation of CallSession: the callback does nothing about Close.
CallSessionIgnores(p) ==
    /\ pc[p] = "call" /\ calling[p] \in Conn
    /\ CallReturns(p)
    /\ UNCHANGED <<tableVars, serverVars, peer, sessionVars, threadVars, starts, castVars>>

\* The callback of a session, for a Close event, whichever connection that was
\* about when epoll_wait reported it.
CallSession(p) ==
    /\ pc[p] = "call" /\ calling[p] \in Conn
    /\ current' = [current EXCEPT ![p] = calling[p]]
    /\ Goto(p, "close")
    /\ UNCHANGED <<mapVars, batchVars, tableVars, serverVars, peer, sessionVars, todo,
                   starts, castVars>>

-----------------------------------------------------------------------------
(* The peers.                                                              *)

Connect(c) ==
    /\ listening /\ peer[c] = "away"
    /\ peer' = [peer EXCEPT ![c] = "there"]
    /\ backlog' = backlog \cup {c}
    /\ UNCHANGED <<pollerVars, tableVars, running, listening, maxConnections, sessionVars,
                   threadVars, starts, castVars>>

Leave(c) ==
    /\ peer[c] = "there" /\ (c \in backlog \/ socket[c] = "open")
    /\ peer' = [peer EXCEPT ![c] = "gone"]
    /\ UNCHANGED <<pollerVars, tableVars, serverVars, sessionVars, threadVars, starts,
                   castVars>>

\* What the kernel reports: connections to accept, and peers that have closed.
ReadyFds ==
    (IF listening /\ backlog # {} THEN {Listen} ELSE {})
        \cup {number[c] : c \in {d \in Conn : socket[d] = "open" /\ peer[d] = "gone"}}

-----------------------------------------------------------------------------
Polls(p) ==
    PollSteps(p, ReadyFds)
        /\ UNCHANGED <<tableVars, serverVars, peer, sessionVars, threadVars, starts, castVars>>

PollerSteps(p) ==
    \/ Polls(p) \/ CallListener(p) \/ Accept(p) \/ AcceptEnds(p) \/ Refuse(p) \/ Adopt(p)
    \/ SessionRegisters(p) \/ SessionStartFailed(p) \/ SessionRuns(p) \/ MarkReady(p)
    \/ CallSession(p) \/ CloseSteps(p)

AppSteps(a) ==
    \/ StartListens(a) \/ StartRegisters(a) \/ StartFails(a)
    \/ StopListening(a) \/ StopClears(a) \/ NextToClose(a) \/ CloseSteps(a) \/ BroadcastNext(a)

AppCalls(a) ==
    \/ StartServer(a) \/ StopServer(a) \/ Broadcast(a)
    \/ \E c \in Conn : DisconnectClient(a, c)

ServerNext ==
    \/ \E p \in PollThread : PollerSteps(p)
    \/ \E a \in User : AppSteps(a) \/ AppCalls(a)
    \/ \E c \in Conn : Connect(c) \/ Leave(c)

\* Threads inside a call, and the poller's, keep running.
ServerSpec ==
    /\ ServerInit /\ [][ServerNext]_vars
    /\ \A p \in PollThread : WF_vars(PollerSteps(p))
    /\ \A a \in User : WF_vars(AppSteps(a))

-----------------------------------------------------------------------------
(* Properties.                                                             *)

Starting == {"start session", "add to kernel", "insert", "start failed", "run"}
Closing == {"close", "close socket", "closed"}

\* The table of sessions neither leaks nor loses any: sessionCount_ is its size,
\* at most maxConnections_; a session in it runs, or a thread is about to start
\* it or to erase it; and a session that runs on an open socket is in it, or
\* stop() is about to close it, also when stop() comes between accepting,
\* inserting and starting.
TableExact ==
    /\ sessionCount = Cardinality(sessions) /\ sessionCount <= maxConnections
    /\ \A c \in sessions :
         \/ sessionRunning[c]
         \/ \E t \in Thread : current[t] = c /\ pc[t] \in Starting \cup Closing
    /\ \A c \in Conn : sessionRunning[c] /\ socket[c] = "open" =>
         \/ c \in sessions
         \/ \E a \in User : c \in todo[a] \/ (current[a] = c /\ pc[a] = "close")

\* The poller watches exactly the sockets that need it: a running session with
\* an open socket is in the kernel's set under its own callback, and the kernel's
\* set has no other socket, but for one whose add() is under way.
Watched ==
    /\ \A c \in Conn : sessionRunning[c] /\ socket[c] = "open" =>
         eventMap[number[c]] = c /\ kernel[number[c]] = "armed"
    /\ \A n \in Number : kernel[n] # "out" =>
         \E c \in Conn :
            /\ number[c] = n /\ socket[c] = "open"
            /\ eventMap[n] = c \/ (current[Poller] = c /\ pc[Poller] \in {"insert", "run"})

\* Table, poller and kernel agree on the sessions there are.
SessionsExact == TableExact /\ Watched

\* A client that was connected when broadcast() was called has got the data when
\* it returns, unless it was closed or the server stopped meanwhile, although
\* the table changes while the data are sent.
BroadcastReaches ==
    (\A a \in User : pc[a] # "broadcast") =>
        \A c \in expected : c \in got \/ ~sessionRunning[c] \/ ~ready[c]

\* A connection in the backlog is accepted, or reset by stop(), and a session
\* whose peer has closed is closed, whatever else happens to the table and to
\* the numbers of the descriptors.
ServedInTheEnd ==
    \A c \in Conn : /\ c \in backlog ~> c \notin backlog
                    /\ (sessionRunning[c] /\ peer[c] = "gone") ~> socket[c] = "closed"
==============================================================================
