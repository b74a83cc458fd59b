---------------------------- MODULE TimerObject -----------------------------
(***************************************************************************)
(* src/src/Timer.cpp, class Timer: one object whose owner starts and stops *)
(* it again and again, the timer thread, which is a TimerService, and the  *)
(* IoService threads, to which the timer thread posts the callback.  Each  *)
(* start() makes a token of its own; whoever is about to call the callback *)
(* asks the token it was given.                                            *)
(***************************************************************************)
EXTENDS TimerService, Integers, FiniteSets

CONSTANTS Worker,       \* threads of the IoService
          NoTimer,      \* timerId_ = 0
          MaxPosted     \* bound on posted tasks of one timer

VARIABLES owner, timerId,
          tokenOf,      \* the token that the lambdas of a timer have captured
          live,         \* tokens that are true
          stateToken,   \* stateToken_
          invoked,      \* whether the lambda of the firing timer has run
          posted,       \* tasks that the IoService has not taken, per timer
          calling,      \* the timer whose callback a worker is in
          calls         \* callbacks called, per timer (one-shot timers)

objectVars == <<timerId, tokenOf, live, stateToken>>
allVars == <<vars, owner, objectVars, invoked, posted, calling, calls>>

\* Tokens are named after the timer they were made for; the constructor's is
\* NoTimer.
ObjectInit ==
    /\ Init
    /\ owner = "out" /\ timerId = NoTimer
    /\ tokenOf = [t \in Timer |-> NoTimer] /\ live = {} /\ stateToken = NoTimer
    /\ invoked = FALSE
    /\ posted = [t \in Timer |-> 0]
    /\ calling = [w \in Worker |-> NoTimer] /\ calls = [t \in Timer |-> 0]

-----------------------------------------------------------------------------
(* The owner: stop(), and start(), which begins with a stop().             *)

Fresh(t) == tokenOf[t] = NoTimer

StopToken(next) ==
    /\ owner = "out"
    /\ next = "cancel" \/ (next = "restart" /\ \E t \in Timer : Fresh(t))
    /\ live' = live \ {stateToken}
    /\ owner' = next
    /\ UNCHANGED <<vars, timerId, tokenOf, stateToken, invoked, posted, calling, calls>>

StopCancels ==
    /\ owner \in {"cancel", "restart"}
    /\ IF timerId \in armed THEN Cancel(timerId) ELSE UNCHANGED vars
    /\ timerId' = NoTimer
    /\ owner' = IF owner = "cancel" THEN "out" ELSE "start"
    /\ UNCHANGED <<tokenOf, live, stateToken, invoked, posted, calling, calls>>

\* Mutant: the old token is made true again.
StartSameToken(t) ==
    /\ owner = "start" /\ Arm(t)
    /\ UNCHANGED stateToken
    /\ tokenOf' = [tokenOf EXCEPT ![t] = stateToken]
    /\ live' = live \cup {stateToken}
    /\ timerId' = t /\ owner' = "out"
    /\ UNCHANGED <<invoked, posted, calling, calls>>

Start(t) ==
    /\ owner = "start" /\ Fresh(t) /\ Arm(t)
    /\ stateToken' = t
    /\ tokenOf' = [tokenOf EXCEPT ![t] = t]
    /\ live' = live \cup {t}
    /\ timerId' = t /\ owner' = "out"
    /\ UNCHANGED <<invoked, posted, calling, calls>>

-----------------------------------------------------------------------------
(* The timer thread.                                                       *)

TimerFires(t) ==
    /\ Fire(t)
    /\ invoked' = FALSE
    /\ UNCHANGED <<owner, objectVars, posted, calling, calls>>

\* The lambda posts if its token is still true.
Invoke(t) ==
    /\ firing = {t} /\ ~invoked
    /\ invoked' = TRUE
    /\ IF tokenOf[t] \in live
         THEN posted[t] < MaxPosted /\ posted' = [posted EXCEPT ![t] = @ + 1]
         ELSE UNCHANGED posted
    /\ UNCHANGED <<vars, owner, objectVars, calling, calls>>

TimerDone(t) ==
    /\ firing = {t} /\ invoked
    /\ IF t \in Repeating THEN Rearm(t) ELSE Done(t)
    /\ invoked' = FALSE
    /\ UNCHANGED <<owner, objectVars, posted, calling, calls>>

-----------------------------------------------------------------------------
(* The IoService threads.                                                  *)

\* Mutant: the token is only read, as for repeating timers.
RunTaskLoads(w, t) ==
    /\ calling[w] = NoTimer /\ posted[t] > 0
    /\ posted' = [posted EXCEPT ![t] = @ - 1]
    /\ IF tokenOf[t] \in live
         THEN /\ calling' = [calling EXCEPT ![w] = t]
              /\ calls' = [calls EXCEPT ![t] = IF t \in Repeating THEN 0 ELSE @ + 1]
         ELSE UNCHANGED <<calling, calls>>
    /\ UNCHANGED <<vars, owner, objectVars, invoked>>

RunTask(w, t) ==
    /\ calling[w] = NoTimer /\ posted[t] > 0
    /\ posted' = [posted EXCEPT ![t] = @ - 1]
    /\ IF tokenOf[t] \in live
         THEN /\ calling' = [calling EXCEPT ![w] = t]
              /\ live' = IF t \in Repeating THEN live ELSE live \ {tokenOf[t]}
              /\ calls' = [calls EXCEPT ![t] = IF t \in Repeating THEN 0 ELSE @ + 1]
         ELSE UNCHANGED <<calling, calls, live>>
    /\ UNCHANGED <<vars, owner, timerId, tokenOf, stateToken, invoked>>

CallbackEnds(w) ==
    /\ calling[w] # NoTimer
    /\ calling' = [calling EXCEPT ![w] = NoTimer]
    /\ UNCHANGED <<vars, owner, objectVars, invoked, posted, calls>>

-----------------------------------------------------------------------------
OwnerGoesOn == StopCancels \/ \E t \in Timer : Start(t)
TimerThread == \E t \in Timer : TimerFires(t) \/ Invoke(t) \/ TimerDone(t)
WorkerThread(w) == CallbackEnds(w) \/ \E t \in Timer : RunTask(w, t)

ObjectNext ==
    \/ \E next \in {"cancel", "restart"} : StopToken(next)
    \/ OwnerGoesOn \/ TimerThread
    \/ \E w \in Worker : WorkerThread(w)

ObjectSpec == ObjectInit /\ [][ObjectNext]_allVars

\* The timer thread and the IoService go on, and every armed timer gets its turn
\* (TimerManager!TimerFires); nobody has to start or stop the object.
ObjectFairness ==
    /\ WF_allVars(OwnerGoesOn) /\ WF_allVars(TimerThread)
    /\ \A t \in Timer : SF_allVars(TimerFires(t))
    /\ \A w \in Worker : WF_allVars(WorkerThread(w))

-----------------------------------------------------------------------------
(* Properties.                                                             *)

\* A callback that an IoService thread lets through belongs to the last start(),
\* which no stop() has undone, however many tasks of earlier starts are posted.
OnlyTheLastStart ==
    [][\A w \in Worker : calling'[w] # calling[w] /\ calling'[w] # NoTimer
           => calling'[w] = timerId /\ owner = "out"]_allVars

\* isRunning() tells of a timer that does not repeat whether its callback has
\* still to be called, which happens once: the exchange of the token decides it,
\* not the timer thread.
RunningUntilCalled ==
    \A t \in Timer \ Repeating :
        timerId = t /\ owner = "out" => calls[t] = (IF stateToken \in live THEN 0 ELSE 1)

\* Of the timers that do not repeat at most one is armed, the one that the next
\* stop() cancels.  (A repeating one that stop() meets while the timer thread is
\* in its lambda is armed again, with a dead token, and stays for ever.)
OneArmed == armed \ Repeating \subseteq {timerId}

\* What the proofs need besides.  A live token is that of the last start(), and none is
\* live inside stop(); a timer's token is its own; only a fresh one has not been called.
ObjectInv ==
    /\ timerId \in Timer \cup {NoTimer} /\ armed \subseteq Timer
    /\ tokenOf \in [Timer -> Timer \cup {NoTimer}] /\ calls \in [Timer -> Nat]
    /\ calling \in [Worker -> Timer \cup {NoTimer}]
    /\ \A t \in Timer : tokenOf[t] \in {NoTimer, t} /\ (Fresh(t) => calls[t] = 0)
    /\ live \subseteq {stateToken} \ {NoTimer}
    /\ live # {} => owner = "out" /\ stateToken = timerId
    /\ owner = "out" /\ timerId # NoTimer => stateToken = timerId
    /\ owner = "start" => timerId = NoTimer
    /\ RunningUntilCalled /\ OneArmed

\* What start() promises: the callback is called, or the object is stopped.
Awaits(t) == t \in live
Served(t) == t \notin live \/ \E w \in Worker : calling[w] = t
=============================================================================
