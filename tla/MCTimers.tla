------------------------------ MODULE MCTimers ------------------------------
(***************************************************************************)
(* The TimerManager, or one of its users on top of a TimerService: a Timer *)
(* object, or the ConnectionTimeoutManager.  A behaviour is one of them.   *)
(***************************************************************************)
EXTENDS TimerUsers, TLC

CONSTANTS k1, k2, t1, t2, t3, w1, w2, c1, c2

TwoClients == {k1, k2}
ThreeTimers == {t1, t2, t3}
OneRepeats == {t1}
TwoWorkers == {w1, w2}
TwoConns == {c1, c2}

VARIABLE which

objectVars == <<armed, firing, over, holder, timerId, tokenOf, live, stateToken, invoked, posted, calling, calls>>
timeoutVars == <<connArmed, connFiring, connOver, timerOf, connOf, replacing, timedOut>>
allVars == <<which, vars, objectVars, timeoutVars>>

AllInit == which \in {"manager", "object", "timeouts"} /\ Init /\ Object!ObjectInit /\ Timeouts!TimeoutsInit

AllNext ==
    /\ UNCHANGED which
    /\ \/ which = "manager" /\ Next /\ UNCHANGED <<objectVars, timeoutVars>>
       \/ which = "object" /\ Object!ObjectNext /\ UNCHANGED <<vars, timeoutVars>>
       \/ which = "timeouts" /\ Timeouts!TimeoutsNext /\ UNCHANGED <<vars, objectVars>>

\* The steps of a system that was not chosen are never enabled.
AllSpec == AllInit /\ [][AllNext]_allVars /\ Fairness /\ Object!ObjectFairness /\ Timeouts!TimeoutsFairness

Awaited(t) == CASE which = "manager" -> Awaits(t)
                [] which = "object" -> Object!Awaits(t)
                [] which = "timeouts" -> Timeouts!Awaits(t)
Given(t) == CASE which = "manager" -> Served(t)
              [] which = "object" -> Object!Served(t)
              [] which = "timeouts" -> Timeouts!Served(t)

\* A timer that is added fires unless it is cancelled or the manager is stopped, and
\* repeating timers do not keep others from their turn; the callback of a started Timer
\* is called unless it is stopped; a connection that nobody refreshes or removes times out;
\* stop() returns if a timer is left.  Timers that do not repeat are alike: t2 is one.
TimersFire == StopReturns /\ \A t \in {t1, t2} : Awaited(t) ~> Given(t)
=============================================================================
