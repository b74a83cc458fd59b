----------------------------- MODULE TimerUsers -----------------------------
(***************************************************************************)
(* The TimerManager and its users, each on a TimerService of its own: a    *)
(* Timer object, whose timers may repeat, and the ConnectionTimeoutManager,*)
(* whose timers do not.                                                    *)
(***************************************************************************)
EXTENDS TimerManager

CONSTANTS Worker, Conn, NoConn,
          MaxPosted     \* bound on posted tasks of a Timer

ASSUME Connections == NoConn \notin Conn

VARIABLES armed, firing, over,
          holder, timerId, tokenOf, live, stateToken, invoked, posted, calling, calls,
          connArmed, connFiring, connOver, timerOf, connOf, replacing, timedOut

Object == INSTANCE TimerObject WITH owner <- holder
Timeouts == INSTANCE ConnectionTimeouts
    WITH Repeating <- {}, armed <- connArmed, firing <- connFiring, over <- connOver,
         adding <- replacing

UsersSpec == Spec /\ Object!ObjectSpec /\ Timeouts!TimeoutsSpec

-----------------------------------------------------------------------------
(* Properties.                                                             *)

\* cancelTimer() finds every timer it should.  A Timer that does not repeat has at most
\* one timer armed, the one its next stop() cancels, and isRunning() tells whether its
\* callback has still to be called, once.  A connection has at most one armed timer, the
\* one listed for it.
TimersExact ==
    RepeatingCancellable /\ Object!RunningUntilCalled /\ Object!OneArmed /\ Timeouts!OneTimerEach

\* Only callbacks of the last start() of a Timer get through, however many tasks of
\* earlier ones the IoService still has.
OnlyTheLastStart == Object!OnlyTheLastStart
=============================================================================
