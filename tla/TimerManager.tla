---------------------------- MODULE TimerManager ----------------------------
(***************************************************************************)
(* src/src/Timer.cpp, TimerManager: threads that add and cancel timers,    *)
(* one that calls stop(), and the worker thread, which sleeps on           *)
(* condition_ until the earliest timer is due and calls its callback.      *)
(*                                                                         *)
(* timers_ is kept in two parts: the entries whose time has come, in the   *)
(* order of their times, and the others.  A step is what a thread does     *)
(* under mutex_ or between two accesses to shared state; the worker keeps  *)
(* the mutex from the moment it decides to sleep until it is asleep.       *)
(* start() is not called while stop() is under way.                        *)
(***************************************************************************)
EXTENDS Integers, Sequences, FiniteSets

CONSTANTS Client, Timer, Repeating, NoTimer,
          MaxStops      \* bound on calls of stop()

ASSUME Timers == Repeating \subseteq Timer /\ NoTimer \notin Timer /\ MaxStops \in Nat

VARIABLES running, worker, owner,
          waiting, due,     \* timers_: not due yet; due, earliest first
          active,           \* activeTimers_
          cancelled,        \* the flags of the entries
          entry,            \* local of workerLoop
          adding,           \* local of schedule, per client
          used,             \* timers whose identifier is taken
          fired,            \* timers whose callback has been called
          stops

heapVars == <<waiting, due, active, cancelled>>
vars == <<running, worker, owner, heapVars, entry, adding, used, fired, stops>>

Init ==
    /\ running = FALSE /\ worker = "none" /\ owner = "out"
    /\ waiting = {} /\ due = <<>> /\ active = {} /\ cancelled = {}
    /\ entry = NoTimer /\ adding = [c \in Client |-> NoTimer]
    /\ used = {} /\ fired = {} /\ stops = 0

InHeap == waiting \cup {due[i] : i \in 1..Len(due)}

\* The worker has the mutex and is about to sleep.
Locked == worker \in {"sleeps", "dozes"}

\* Mutant: no notification.
WorkerSleepsOn == worker

\* condition_.notify_all()
WorkerNotified == IF worker \in {"asleep", "dozing"} THEN "scan" ELSE worker

-----------------------------------------------------------------------------
(* Clients.                                                                *)

\* The first part of schedule(): start(), and a new identifier.
Schedule(c, t) ==
    /\ adding[c] = NoTimer /\ t \notin used
    /\ running \/ owner = "out"
    /\ running' = TRUE
    /\ worker' = IF running THEN worker ELSE "scan"
    /\ adding' = [adding EXCEPT ![c] = t]
    /\ used' = used \cup {t}
    /\ UNCHANGED <<owner, heapVars, entry, fired, stops>>

\* The rest of schedule(): the entry gets into both containers.
ScheduleInserts(c) ==
    /\ adding[c] # NoTimer /\ ~Locked
    /\ active' = active \cup {adding[c]} /\ waiting' = waiting \cup {adding[c]}
    /\ worker' = WorkerNotified
    /\ adding' = [adding EXCEPT ![c] = NoTimer]
    /\ UNCHANGED <<running, owner, due, cancelled, entry, used, fired, stops>>

\* cancelTimer() finds the timer; otherwise it changes nothing.
CancelTimer(t) ==
    /\ ~Locked /\ t \in active
    /\ cancelled' = cancelled \cup {t} /\ active' = active \ {t}
    /\ worker' = WorkerNotified
    /\ UNCHANGED <<running, owner, waiting, due, entry, adding, used, fired, stops>>

-----------------------------------------------------------------------------
(* The worker.                                                             *)

\* The top of the heap: the earliest due entry; among those that are not due
\* any can be the earliest.
IsTop(t) == IF due # <<>> THEN t = Head(due) ELSE t \in waiting

Popped(t) ==
    /\ waiting' = waiting \ {t}
    /\ due' = IF due # <<>> THEN Tail(due) ELSE due

WorkerExits ==
    /\ worker = "scan" /\ ~running
    /\ worker' = "exited"
    /\ UNCHANGED <<running, owner, heapVars, entry, adding, used, fired, stops>>

WorkerDropsCancelled(t) ==
    /\ worker = "scan" /\ running
    /\ IsTop(t) /\ t \in cancelled
    /\ Popped(t)
    /\ UNCHANGED <<running, worker, owner, active, cancelled, entry, adding, used, fired, stops>>

WorkerDecidesToSleep ==
    /\ worker = "scan" /\ running
    /\ \/ InHeap = {} /\ worker' = "sleeps"
       \/ /\ due = <<>> /\ \E t \in waiting : t \notin cancelled
          /\ worker' = "dozes"
    /\ UNCHANGED <<running, owner, heapVars, entry, adding, used, fired, stops>>

WorkerSleeps ==
    /\ Locked
    /\ worker' = IF worker = "sleeps" THEN "asleep" ELSE "dozing"
    /\ UNCHANGED <<running, owner, heapVars, entry, adding, used, fired, stops>>

\* wait_until returns when the time has come.
WorkerWakes ==
    /\ worker = "dozing" /\ due # <<>>
    /\ worker' = "scan"
    /\ UNCHANGED <<running, owner, heapVars, entry, adding, used, fired, stops>>

\* Mutant: the flag of the candidate is not looked at.
WorkerPopsAny(t) ==
    /\ worker = "scan" /\ running
    /\ due # <<>> /\ t = Head(due)
    /\ Popped(t)
    /\ active' = active \ {t}
    /\ entry' = t /\ worker' = "popped"
    /\ UNCHANGED <<running, owner, cancelled, adding, used, fired, stops>>

WorkerPops(t) ==
    /\ worker = "scan" /\ running
    /\ due # <<>> /\ t = Head(due) /\ t \notin cancelled
    /\ Popped(t)
    /\ active' = active \ {t}
    /\ entry' = t /\ worker' = "popped"
    /\ UNCHANGED <<running, owner, cancelled, adding, used, fired, stops>>

\* The mutex is free: both flags are looked at again.
WorkerCalls ==
    /\ worker = "popped"
    /\ IF running /\ entry \notin cancelled
         THEN worker' = "callback" /\ fired' = fired \cup {entry} /\ UNCHANGED entry
         ELSE /\ worker' = IF running THEN "scan" ELSE "exited"
              /\ entry' = NoTimer /\ UNCHANGED fired
    /\ UNCHANGED <<running, owner, heapVars, adding, used, stops>>

CallbackReturns ==
    /\ worker = "callback"
    /\ IF entry \in Repeating /\ entry \notin cancelled /\ running
         THEN worker' = "rearm" /\ UNCHANGED entry
         ELSE worker' = "scan" /\ entry' = NoTimer
    /\ UNCHANGED <<running, owner, heapVars, adding, used, fired, stops>>

\* The next expiry lies in the future.
WorkerRearms ==
    /\ worker = "rearm"
    /\ IF entry \notin cancelled /\ running
         THEN active' = active \cup {entry} /\ waiting' = waiting \cup {entry}
         ELSE UNCHANGED <<active, waiting>>
    /\ worker' = "scan" /\ entry' = NoTimer
    /\ UNCHANGED <<running, owner, due, cancelled, adding, used, fired, stops>>

-----------------------------------------------------------------------------
(* stop(): the flag and the notification, without the mutex; the join; the *)
(* clearing.                                                               *)

Stop ==
    /\ owner = "out" /\ running /\ stops < MaxStops
    /\ running' = FALSE /\ stops' = stops + 1
    /\ worker' = WorkerNotified
    /\ owner' = "join"
    /\ UNCHANGED <<heapVars, entry, adding, used, fired>>

StopJoins ==
    /\ owner = "join" /\ worker = "exited"
    /\ worker' = "none" /\ owner' = "clear"
    /\ UNCHANGED <<running, heapVars, entry, adding, used, fired, stops>>

\* Mutant: the entries' flags are not set.
StopClearsUnflagged ==
    /\ owner = "clear" /\ ~Locked
    /\ waiting' = {} /\ due' = <<>> /\ active' = {}
    /\ owner' = "out"
    /\ UNCHANGED <<running, worker, cancelled, entry, adding, used, fired, stops>>

StopClears ==
    /\ owner = "clear" /\ ~Locked
    /\ cancelled' = cancelled \cup active
    /\ waiting' = {} /\ due' = <<>> /\ active' = {}
    /\ owner' = "out"
    /\ UNCHANGED <<running, worker, entry, adding, used, fired, stops>>

\* The time of an entry comes.
Expires(t) ==
    /\ t \in waiting
    /\ waiting' = waiting \ {t} /\ due' = Append(due, t)
    /\ UNCHANGED <<running, worker, owner, active, cancelled, entry, adding, used, fired, stops>>

-----------------------------------------------------------------------------
WorkerSteps ==
    \/ WorkerExits \/ WorkerDecidesToSleep \/ WorkerSleeps \/ WorkerWakes
    \/ WorkerCalls \/ CallbackReturns \/ WorkerRearms
    \/ \E t \in Timer : WorkerDropsCancelled(t) \/ WorkerPops(t)

StopSteps == StopJoins \/ StopClears

Next ==
    \/ \E c \in Client : ScheduleInserts(c) \/ \E t \in Timer : Schedule(c, t)
    \/ \E t \in Timer : CancelTimer(t) \/ Expires(t)
    \/ WorkerSteps
    \/ Stop \/ StopSteps

Spec == Init /\ [][Next]_vars

\* Time passes, and a thread inside a call or a callback goes on.  Nobody has
\* to add, cancel or stop anything, and sleepers need a notification.
Fairness ==
    /\ WF_vars(WorkerSteps) /\ WF_vars(StopSteps)
    /\ \A c \in Client : WF_vars(ScheduleInserts(c))
    /\ \A t \in Timer : WF_vars(Expires(t))

-----------------------------------------------------------------------------
(* Properties.                                                             *)

\* Every variable has its type.
TypeOK ==
    /\ running \in BOOLEAN /\ stops \in 0..MaxStops
    /\ worker \in {"none", "scan", "sleeps", "dozes", "asleep", "dozing", "popped", "callback",
                   "rearm", "exited"}
    /\ owner \in {"out", "join", "clear"}
    /\ waiting \subseteq Timer /\ due \in Seq(Timer)
    /\ active \subseteq Timer /\ cancelled \subseteq Timer
    /\ used \subseteq Timer /\ fired \subseteq Timer
    /\ adding \in [Client -> Timer \cup {NoTimer}]
    /\ entry \in Timer \cup {NoTimer}
    /\ entry # NoTimer <=> worker \in {"popped", "callback", "rearm"}

\* The two containers agree: activeTimers_, in which cancelTimer() looks and
\* which getActiveTimerCount() counts, holds the entries of timers_ that are not
\* cancelled.
ActiveExact == active = InHeap \ cancelled

\* No entry is twice in the heap, nor there while the worker has it.
InOnePlace ==
    /\ \A i, j \in 1..Len(due) : due[i] = due[j] => i = j
    /\ \A i \in 1..Len(due) : due[i] \notin waiting
    /\ entry \notin InHeap

\* A timer for which cancelTimer() returned true is not in the hands of the
\* worker and never gets there: its callback is not called any more.
CancelledIsSilent == worker \in {"popped", "callback", "rearm"} => entry \notin cancelled

\* When stop() has returned, and before a timer is added, no callback runs and
\* there is no worker.
StoppedIsSilent == owner = "out" /\ ~running => worker = "none"

\* The callback of addTimer() is called once.
OneShotOnce ==
    [][worker = "popped" /\ worker' = "callback" /\ entry \notin Repeating
         => entry \notin fired]_vars

\* What the proofs need besides: identifiers are not reused, and the thread that
\* stops the manager and the worker know of each other.
Identifiers ==
    /\ InHeap \cup cancelled \cup fired \cup ({entry} \ {NoTimer}) \subseteq used
    /\ \A c \in Client : adding[c] # NoTimer =>
           adding[c] \in used \ (InHeap \cup cancelled \cup fired \cup {entry})
    /\ \A c, d \in Client : adding[c] = adding[d] /\ adding[c] # NoTimer => c = d
    /\ \A t \in fired \ Repeating : t \notin InHeap /\ (t = entry => worker = "callback")
    /\ worker \in {"callback", "rearm"} => entry \in fired

Threads ==
    /\ running => owner = "out" /\ worker \notin {"none", "exited"}
    /\ owner = "clear" => worker = "none"
    /\ StoppedIsSilent

\* The inductive invariant: all of the above.
Inv == TypeOK /\ ActiveExact /\ InOnePlace /\ CancelledIsSilent /\ Identifiers /\ Threads

\* What a timer that was added waits for, and what it gets: its call, unless it is
\* cancelled or the manager is stopped.
Awaits(t) == t \in active /\ running
Served(t) == (worker = "callback" /\ entry = t) \/ t \in cancelled \/ ~running

\* stop() returns when there is a timer left in the heap, at the latest when that one
\* is due.  (With an empty heap its notification, sent without mutex_, can be lost.)
StopReturns == (owner = "join" /\ InHeap # {}) ~> (owner = "out")

\* cancelTimer() finds a repeating timer that has been added and not been cancelled,
\* until the manager is stopped, except while the worker has it in hand.
RepeatingCancellable ==
    stops = 0 => \A t \in Repeating \cap used :
                   t \in active \cup cancelled \cup {entry} \/ \E c \in Client : adding[c] = t

Service == INSTANCE TimerService
    WITH armed <- active, over <- cancelled,
         firing <- IF worker \in {"popped", "callback", "rearm"} THEN {entry} ELSE {}

\* TimerManager implements TimerService: every step of addTimer(), cancelTimer(), stop()
\* and the worker, mapped to the timers that are armed, being fired or over, is a step
\* that the contract allows, or none.
ImplementsTimerService == Service!Spec
=============================================================================
