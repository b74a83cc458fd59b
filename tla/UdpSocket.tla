------------------------------ MODULE UdpSocket ------------------------------
(***************************************************************************)
(* src/src/UdpSocket.cpp: application threads that bind the socket, start  *)
(* and stop receiving, beside the poller's thread, which drains the socket *)
(* and whose data callback may start and stop as well.  Nothing holds      *)
(* receiving_ together with the registration in the poller, whose add()    *)
(* has the phases of EventPoller: the calls of the application do not      *)
(* overlap, only the poller's thread runs beside them.  Sending, options   *)
(* and the error callback leave this state alone.                          *)
(***************************************************************************)
EXTENDS Naturals, Sequences

CONSTANTS App, Poller,
          Callback,      \* the calls that the data callback makes in the poller's thread
          MaxUdpCalls,   \* bound on the calls of the application
          MaxDatagrams   \* bound on the datagrams of the peers

Caller == App \cup {Callback}

VARIABLES
    u,      \* the members, and the registration of the socket
    at,     \* where a thread is
    wire,   \* datagrams in the socket
    h       \* history: calls, datagrams that came, those the callback got since the stop

udpVars == <<u, at, wire, h>>

UdpInit ==
    /\ u = [bound |-> FALSE, receiving |-> FALSE, inMap |-> FALSE, inKernel |-> FALSE]
    /\ at = [t \in Caller \cup {Poller} |-> "idle"]
    /\ wire = <<>>
    /\ h = [calls |-> 0, came |-> 0, late |-> 0]

Goto(t, label) == at' = [at EXCEPT ![t] = label]

Call(t, late) ==
    /\ \A v \in Caller : at[v] = "idle"
    /\ t = Callback => at[Poller] = "callback"
    /\ h.calls < MaxUdpCalls /\ h' = [h EXCEPT !.calls = @ + 1, !.late = late]
    /\ UNCHANGED wire

\* If one of its system calls fails the socket is closed again.
Bind(t) ==
    /\ Call(t, h.late)
    /\ u' \in {u, [u EXCEPT !.bound = TRUE]}
    /\ UNCHANGED at

\* startReceive(): the flag first, then the phases of add().
StartReceive(t) ==
    /\ Call(t, IF u.bound THEN 0 ELSE h.late)
    /\ IF u.bound /\ ~u.receiving THEN u' = [u EXCEPT !.receiving = TRUE] /\ Goto(t, "check")
                                  ELSE UNCHANGED <<u, at>>

AddCheck(t) ==
    /\ at[t] = "check"
    /\ Goto(t, IF u.inMap THEN "failed" ELSE "kernel")
    /\ UNCHANGED <<u, wire, h>>

AddKernel(t) ==
    /\ at[t] = "kernel"
    /\ \/ Goto(t, "failed") /\ UNCHANGED u
       \/ ~u.inKernel /\ Goto(t, "insert") /\ u' = [u EXCEPT !.inKernel = TRUE]
    /\ UNCHANGED <<wire, h>>

AddInsert(t) ==
    /\ at[t] = "insert"
    /\ IF u.inMap THEN Goto(t, "failed") /\ u' = [u EXCEPT !.inKernel = FALSE]
                  ELSE Goto(t, "idle") /\ u' = [u EXCEPT !.inMap = TRUE]
    /\ UNCHANGED <<wire, h>>

AddFailed(t) ==
    /\ at[t] = "failed"
    /\ u' = [u EXCEPT !.receiving = FALSE]
    /\ Goto(t, "idle")
    /\ UNCHANGED <<wire, h>>

\* stopReceive(): the flag, then remove(), which takes the poller's lock once.
StopReceive(t) ==
    /\ Call(t, h.late)
    /\ u' = [u EXCEPT !.receiving = FALSE]
    /\ IF u.receiving THEN Goto(t, "remove") ELSE UNCHANGED at

RemoveRegistration(t) ==
    /\ at[t] = "remove"
    /\ u' = IF u.inMap THEN [u EXCEPT !.inMap = FALSE, !.inKernel = FALSE] ELSE u
    /\ Goto(t, "idle")
    /\ UNCHANGED <<wire, h>>

-----------------------------------------------------------------------------
DatagramArrives ==
    /\ u.bound /\ h.came < MaxDatagrams
    /\ h' = [h EXCEPT !.came = @ + 1]
    /\ wire' = Append(wire, h.came + 1)
    /\ UNCHANGED <<u, at>>

\* The poller has an event, and has copied the callback.
PollEvent ==
    /\ at[Poller] = "idle" /\ u.inMap /\ u.inKernel /\ wire # <<>>
    /\ Goto(Poller, "handle")
    /\ UNCHANGED <<u, wire, h>>

\* Mutation of HandlePollEvents: the loop goes on after a stop.
HandlePollEventsAlways ==
    /\ at[Poller] = "handle"
    /\ Goto(Poller, "recv")
    /\ UNCHANGED <<u, wire, h>>

\* handlePollEvents() returns when nobody wants to receive, and so does the loop of
\* drainReceiveQueue() before each recvFrom().
HandlePollEvents ==
    /\ at[Poller] = "handle"
    /\ Goto(Poller, IF u.receiving THEN "recv" ELSE "idle")
    /\ UNCHANGED <<u, wire, h>>

\* What recvFrom() takes from the socket goes to the callback; if there is nothing,
\* or it fails, the loop ends.
RecvFrom ==
    /\ at[Poller] = "recv"
    /\ \/ /\ wire # <<>>
          /\ wire' = Tail(wire) /\ h' = [h EXCEPT !.late = IF u.receiving THEN @ ELSE @ + 1]
          /\ Goto(Poller, "callback")
       \/ Goto(Poller, "idle") /\ UNCHANGED <<wire, h>>
    /\ UNCHANGED u

CallbackReturns ==
    /\ at[Poller] = "callback" /\ at[Callback] = "idle"
    /\ Goto(Poller, "handle")
    /\ UNCHANGED <<u, wire, h>>

UdpNext ==
    \/ \E t \in Caller :
         \/ Bind(t) \/ StartReceive(t) \/ StopReceive(t)
         \/ AddCheck(t) \/ AddKernel(t) \/ AddInsert(t) \/ AddFailed(t) \/ RemoveRegistration(t)
    \/ DatagramArrives \/ PollEvent \/ HandlePollEvents \/ RecvFrom \/ CallbackReturns

-----------------------------------------------------------------------------
\* stopReceive() stops: of the datagrams that are in the socket or still come, the
\* callback gets at most the one for which receiving_ was tested before, until
\* somebody starts again; and when the calls have returned, the socket is registered
\* with the poller, in the map and in the kernel, exactly if isReceiving().
StopReceiveStops ==
    /\ ~u.receiving => h.late <= 1
    /\ (\A t \in Caller : at[t] = "idle") => u.receiving = u.inMap /\ u.inMap = u.inKernel
=============================================================================
