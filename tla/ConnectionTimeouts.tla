------------------------- MODULE ConnectionTimeouts -------------------------
(***************************************************************************)
(* src/src/Timer.cpp, ConnectionTimeoutManager: one timer per connection,  *)
(* on top of a TimerService whose thread calls the time-out callbacks.     *)
(* The operations hold mutex_; the timer thread does not, and can fire     *)
(* between their calls of the TimerManager.                                *)
(***************************************************************************)
EXTENDS TimerService, Integers

CONSTANTS Conn, NoConn, NoTimer

VARIABLES timerOf,      \* connections_: the timerId of each, or NoTimer
          connOf,       \* the connection that a timer's lambda has captured
          adding,       \* the connection whose timer is being replaced
          timedOut      \* timers whose callback has been called

allVars == <<vars, timerOf, connOf, adding, timedOut>>

TimeoutsInit ==
    /\ Init
    /\ timerOf = [c \in Conn |-> NoTimer] /\ connOf = [t \in Timer |-> NoConn]
    /\ adding = NoConn /\ timedOut = {}

Fresh(t) == connOf[t] = NoConn
CancelTimer(t) == IF t \in armed THEN Cancel(t) ELSE UNCHANGED vars

\* setConnectionTimeout(), refreshConnection(): the old timer, if there is one,
\* is cancelled.  (refreshConnection() returns where there is no old one.)
Replace(c) ==
    /\ adding = NoConn /\ \E t \in Timer : Fresh(t)
    /\ CancelTimer(timerOf[c])
    /\ adding' = c
    /\ UNCHANGED <<timerOf, connOf, timedOut>>

\* A new one is added.
Add(t) ==
    /\ adding # NoConn /\ Fresh(t) /\ Arm(t)
    /\ connOf' = [connOf EXCEPT ![t] = adding]
    /\ timerOf' = [timerOf EXCEPT ![adding] = t]
    /\ adding' = NoConn
    /\ UNCHANGED timedOut

RemoveConnection(c) ==
    /\ adding = NoConn /\ timerOf[c] # NoTimer
    /\ CancelTimer(timerOf[c])
    /\ timerOf' = [timerOf EXCEPT ![c] = NoTimer]
    /\ UNCHANGED <<connOf, adding, timedOut>>

TimerFires(t) ==
    /\ Fire(t)
    /\ UNCHANGED <<timerOf, connOf, adding, timedOut>>

\* The lambda of the timer calls the callback.
TimesOut(t) ==
    /\ Done(t)
    /\ timedOut' = timedOut \cup {t}
    /\ UNCHANGED <<timerOf, connOf, adding>>

Adding == \E t \in Timer : Add(t)

TimeoutsNext ==
    \/ \E c \in Conn : Replace(c) \/ RemoveConnection(c)
    \/ Adding
    \/ \E t \in Timer : TimerFires(t) \/ TimesOut(t)

TimeoutsSpec == TimeoutsInit /\ [][TimeoutsNext]_allVars

\* A call that has begun ends, every armed timer gets its turn
\* (TimerManager!TimerFires), and callbacks return.
TimeoutsFairness ==
    /\ WF_allVars(Adding)
    /\ \A t \in Timer : SF_allVars(TimerFires(t)) /\ WF_allVars(TimesOut(t))

-----------------------------------------------------------------------------
(* Properties.                                                             *)

\* A connection has at most one armed timer, the one that is listed for it:
\* refreshing and removing leave no other behind that would time it out early.
OneTimerEach == \A t \in armed : timerOf[connOf[t]] = t /\ connOf[t] # adding

\* What the proof needs besides: an armed timer has its connection, and a listed one
\* belongs to the connection it is listed for.
TimeoutsInv ==
    /\ adding \in Conn \cup {NoConn} /\ armed \subseteq Timer
    /\ timerOf \in [Conn -> Timer \cup {NoTimer}] /\ connOf \in [Timer -> Conn \cup {NoConn}]
    /\ \A t \in armed : connOf[t] # NoConn
    /\ OneTimerEach

\* A managed connection that is neither refreshed nor removed has to time out.
Awaits(t) == \E c \in Conn : timerOf[c] = t
Served(t) == t \in timedOut \/ \A c \in Conn : timerOf[c] # t \/ adding = c
=============================================================================
