---------------------------- MODULE TimerService ----------------------------
(***************************************************************************)
(* What TimerManager promises its users: a timer that has been added is    *)
(* armed until it is cancelled or its turn comes; one callback is called   *)
(* at a time; a repeating timer is armed again when its callback is over.  *)
(* TimerManager implements this specification.                             *)
(***************************************************************************)
CONSTANTS Timer,      \* the timers that may be added
          Repeating   \* those of addRepeatingTimer()

VARIABLES armed,      \* what cancelTimer() can cancel
          firing,     \* the timer whose callback is being called
          over        \* timers cancelled, by cancelTimer() or stop()

vars == <<armed, firing, over>>

Init == armed = {} /\ firing = {} /\ over = {}

\* addTimer(), addRepeatingTimer().
Arm(t) ==
    /\ t \notin armed \cup firing \cup over
    /\ armed' = armed \cup {t}
    /\ UNCHANGED <<firing, over>>

\* cancelTimer() returns true.
Cancel(t) ==
    /\ t \in armed
    /\ armed' = armed \ {t} /\ over' = over \cup {t}
    /\ UNCHANGED firing

Fire(t) ==
    /\ firing = {} /\ t \in armed
    /\ armed' = armed \ {t} /\ firing' = {t}
    /\ UNCHANGED over

\* The callback is over, or not called because of stop().
Done(t) ==
    /\ firing = {t}
    /\ firing' = {}
    /\ UNCHANGED <<armed, over>>

Rearm(t) ==
    /\ firing = {t} /\ t \in Repeating
    /\ firing' = {} /\ armed' = armed \cup {t}
    /\ UNCHANGED over

\* stop().
Clear ==
    /\ firing = {}
    /\ armed' = {} /\ over' = over \cup armed
    /\ UNCHANGED firing

Next == Clear \/ \E t \in Timer : Arm(t) \/ Cancel(t) \/ Fire(t) \/ Done(t) \/ Rearm(t)

Spec == Init /\ [][Next]_vars
=============================================================================
