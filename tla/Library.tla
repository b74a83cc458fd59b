------------------------------- MODULE Library -------------------------------
(***************************************************************************)
(* src/src/FastNet.cpp: initialize() and cleanup(), called by parts of an  *)
(* application that each want the library for some time.  The first        *)
(* initialize() starts the shared resources and the last cleanup() takes   *)
(* them down, both without g_libraryMutex; the others wait on              *)
(* g_libraryCondition meanwhile.                                           *)
(*                                                                         *)
(* A caller that holds the library has called initialize() with success    *)
(* and not yet cleanup().  Careless callers may also call cleanup()        *)
(* without holding it.  A step is what a caller does under the mutex, or   *)
(* one resource started or taken down.  Lazy users are objects made        *)
(* outside initialize() ... cleanup(): a Timer, say, starts both the       *)
(* timers and the IoService when they are not there.                       *)
(***************************************************************************)
EXTENDS Integers, Sequences, FiniteSets

CONSTANTS Caller, Careless,
          ThreadCount,          \* arguments of initialize(), 0 for the default
          Configured,           \* Option::ThreadPoolSize
          Hardware,             \* hardware_concurrency()
          kMaxThreadPoolSize,
          Lazy                  \* are there lazy users?

ASSUME Callers == IsFiniteSet(Caller) /\ Careless \subseteq Caller
ASSUME Counts ==
    /\ ThreadCount \subseteq Nat /\ Configured \in Nat
    /\ Hardware \in Nat \ {0} /\ kMaxThreadPoolSize \in Nat \ {0}
ASSUME LazyBoolean == Lazy \in BOOLEAN

VARIABLES state, refCount, threads,     \* g_libraryState, g_initializeRefCount, g_initializedThreadCount
          up,                           \* resources that run
          ioThreads, ioWanted,          \* of the IoService, g_globalIoServiceThreadCount
          pc, op, request,              \* locals of the callers
          left,                         \* what a caller still has to take down
          held                          \* the callers that hold the library

libraryVars == <<state, refCount, threads>>
ioVars == <<ioThreads, ioWanted>>
callVars == <<op, request>>
vars == <<libraryVars, up, ioVars, pc, callVars, left, held>>

Resource == {"sockets", "io", "timers", "monitor", "logger"}
Needed == {"sockets", "io", "timers"}

Init ==
    /\ state = "Uninitialized" /\ refCount = 0 /\ threads = 0
    /\ up = {} /\ ioThreads = 0 /\ ioWanted = 0
    /\ pc = [p \in Caller |-> "out"] /\ op = [p \in Caller |-> "cleanup"]
    /\ request = [p \in Caller |-> 0] /\ left = [p \in Caller |-> <<>>]
    /\ held = {}

Goto(p, label) == pc' = [pc EXCEPT ![p] = label]

Settled == state \notin {"Initializing", "CleaningUp"}

AtMost(n, max) == IF n > max THEN max ELSE n

resolveRequestedThreadCount(n) ==
    AtMost(IF n # 0 THEN n ELSE IF Configured > 0 THEN Configured ELSE Hardware,
           kMaxThreadPoolSize)

normalizeThreadCount(n) == AtMost(IF n = 0 THEN Hardware ELSE n, kMaxThreadPoolSize)

-----------------------------------------------------------------------------
(* Calls, and the wait at their beginning.                                 *)

CallInitialize(p, n) ==
    /\ pc[p] = "out" /\ p \notin held
    /\ Goto(p, "enter")
    /\ op' = [op EXCEPT ![p] = "initialize"]
    /\ request' = [request EXCEPT ![p] = n]
    /\ UNCHANGED <<libraryVars, up, ioVars, left, held>>

CallCleanup(p) ==
    /\ pc[p] = "out" /\ p \in held \cup Careless
    /\ Goto(p, "enter")
    /\ op' = [op EXCEPT ![p] = "cleanup"]
    /\ request' = [request EXCEPT ![p] = 0]
    /\ UNCHANGED <<libraryVars, up, ioVars, left, held>>

Sleep(p) ==
    /\ pc[p] = "enter" /\ ~Settled
    /\ Goto(p, "asleep")
    /\ UNCHANGED <<libraryVars, up, ioVars, callVars, left, held>>

\* Mutant: notify_one().
NotifyOne(p) ==
    /\ pc[p] = "notify"
    /\ \E q \in Caller :
          /\ pc[q] = "asleep" \/ \A r \in Caller : pc[r] # "asleep"
          /\ pc' = [r \in Caller |-> IF r = p THEN "out"
                                     ELSE IF r = q /\ pc[r] = "asleep" THEN "enter" ELSE pc[r]]
    /\ UNCHANGED <<libraryVars, up, ioVars, callVars, left, held>>

\* The last statement of both functions.
Notify(p) ==
    /\ pc[p] = "notify"
    /\ pc' = [q \in Caller |-> IF q = p THEN "out"
                               ELSE IF pc[q] = "asleep" THEN "enter" ELSE pc[q]]
    /\ UNCHANGED <<libraryVars, up, ioVars, callVars, left, held>>

-----------------------------------------------------------------------------
(* initialize()                                                            *)

Enters(p, call) == pc[p] = "enter" /\ op[p] = call /\ Settled

\* Mutant: any number of threads is accepted.
InitializeAny(p) ==
    /\ Enters(p, "initialize") /\ state = "Initialized"
    /\ refCount' = refCount + 1 /\ held' = held \cup {p}
    /\ up' = up \cup {"monitor", "logger"}
    /\ Goto(p, "out")
    /\ UNCHANGED <<state, threads, ioVars, callVars, left>>

\* The library runs already.  applyRuntimeConfiguration() initializes the
\* monitor and the logger again, since they can be shut down from outside.
InitializeAgain(p) ==
    /\ Enters(p, "initialize") /\ state = "Initialized"
    /\ request[p] = 0 \/ threads = resolveRequestedThreadCount(request[p])
    /\ refCount' = refCount + 1 /\ held' = held \cup {p}
    /\ up' = up \cup {"monitor", "logger"}
    /\ Goto(p, "out")
    /\ UNCHANGED <<state, threads, ioVars, callVars, left>>

\* AlreadyRunning, or an exception in applyRuntimeConfiguration(), which may
\* come from a logger that has been stopped in order to change its file.
InitializeRefused(p) ==
    /\ Enters(p, "initialize") /\ state = "Initialized"
    /\ \/ /\ request[p] # 0 /\ threads # resolveRequestedThreadCount(request[p])
          /\ UNCHANGED up
       \/ /\ request[p] = 0 \/ threads = resolveRequestedThreadCount(request[p])
          /\ up' \in {up, up \ {"logger"}}
    /\ Goto(p, "out")
    /\ UNCHANGED <<libraryVars, ioVars, callVars, left, held>>

InitializeFirst(p) ==
    /\ Enters(p, "initialize") /\ state = "Uninitialized"
    /\ state' = "Initializing"
    /\ Goto(p, "sockets")
    /\ UNCHANGED <<refCount, threads, up, ioVars, callVars, left, held>>

\* p gives up, after it has taken down the resources of the sequence s.
Fail(p, s) == Goto(p, "down") /\ left' = [left EXCEPT ![p] = s]

\* The catch block, for an exception when the socket library is ready.
Undo == <<"monitor", "logger", "timers", "io", "sockets">>

initializeSocketLibrary(p) ==
    /\ pc[p] = "sockets"
    /\ \/ up' = up \cup {"sockets"} /\ Goto(p, "io") /\ UNCHANGED left
       \/ Fail(p, <<>>) /\ UNCHANGED up
    /\ UNCHANGED <<libraryVars, ioVars, callVars, held>>

\* configureGlobalIoService(), getGlobalIoService() and start().
StartIo(p) ==
    LET n == resolveRequestedThreadCount(request[p]) IN
    /\ pc[p] = "io"
    /\ ioWanted' = n
    /\ \/ /\ up' = up \cup {"io"}
          /\ ioThreads' = IF "io" \in up THEN ioThreads ELSE normalizeThreadCount(n)
          /\ Goto(p, "timers") /\ UNCHANGED left
       \/ "io" \notin up /\ Fail(p, <<"io", "sockets">>) /\ UNCHANGED <<up, ioThreads>>
       \/ "io" \notin up /\ Fail(p, Undo) /\ UNCHANGED <<up, ioThreads>>
    /\ UNCHANGED <<libraryVars, callVars, held>>

StartTimers(p) ==
    /\ pc[p] = "timers"
    /\ \/ up' = up \cup {"timers"} /\ Goto(p, "configure") /\ UNCHANGED left
       \/ "timers" \notin up /\ Fail(p, Undo) /\ UNCHANGED up
    /\ UNCHANGED <<libraryVars, ioVars, callVars, held>>

applyRuntimeConfiguration(p) ==
    /\ pc[p] = "configure"
    /\ \/ up' = up \cup {"monitor", "logger"} /\ Goto(p, "commit") /\ UNCHANGED left
       \/ up' \in {up, up \cup {"logger"}} /\ Fail(p, Undo)
    /\ UNCHANGED <<libraryVars, ioVars, callVars, held>>

\* Mutant: the number asked for is recorded, not the IoService's.
InitializeBelieves(p) ==
    /\ pc[p] = "commit"
    /\ state' = "Initialized" /\ refCount' = 1
    /\ threads' = resolveRequestedThreadCount(request[p])
    /\ held' = held \cup {p}
    /\ Goto(p, "notify")
    /\ UNCHANGED <<up, ioVars, callVars, left>>

InitializeSucceeds(p) ==
    /\ pc[p] = "commit"
    /\ state' = "Initialized" /\ refCount' = 1 /\ threads' = ioThreads
    /\ held' = held \cup {p}
    /\ Goto(p, "notify")
    /\ UNCHANGED <<up, ioVars, callVars, left>>

InitializeFails(p) ==
    /\ pc[p] = "down" /\ op[p] = "initialize" /\ left[p] = <<>>
    /\ state' = "Uninitialized" /\ refCount' = 0 /\ threads' = 0
    /\ Goto(p, "notify")
    /\ UNCHANGED <<up, ioVars, callVars, left, held>>

\* One of the shutdown calls of either function.
TakeDown(p) ==
    /\ pc[p] = "down" /\ left[p] # <<>>
    /\ up' = up \ {Head(left[p])}
    /\ IF Head(left[p]) = "io" THEN ioThreads' = 0 /\ ioWanted' = 0 ELSE UNCHANGED ioVars
    /\ left' = [left EXCEPT ![p] = Tail(@)]
    /\ UNCHANGED <<libraryVars, pc, callVars, held>>

-----------------------------------------------------------------------------
(* cleanup()                                                               *)

shutdownLibraryResources == <<"timers", "io", "monitor", "logger", "sockets">>

CleanupIgnored(p) ==
    /\ Enters(p, "cleanup")
    /\ state # "Initialized" \/ refCount = 0
    /\ held' = held \ {p}
    /\ Goto(p, "out")
    /\ UNCHANGED <<libraryVars, up, ioVars, callVars, left>>

\* Mutant: the count is not touched.
CleanupUncounted(p) ==
    /\ Enters(p, "cleanup") /\ state = "Initialized" /\ refCount > 1
    /\ held' = held \ {p}
    /\ Goto(p, "out")
    /\ UNCHANGED <<libraryVars, up, ioVars, callVars, left>>

CleanupKeeps(p) ==
    /\ Enters(p, "cleanup") /\ state = "Initialized" /\ refCount > 1
    /\ refCount' = refCount - 1
    /\ held' = held \ {p}
    /\ Goto(p, "out")
    /\ UNCHANGED <<state, threads, up, ioVars, callVars, left>>

CleanupLast(p) ==
    /\ Enters(p, "cleanup") /\ state = "Initialized" /\ refCount = 1
    /\ refCount' = 0 /\ state' = "CleaningUp" /\ threads' = 0
    /\ held' = held \ {p}
    /\ Goto(p, "down") /\ left' = [left EXCEPT ![p] = shutdownLibraryResources]
    /\ UNCHANGED <<up, ioVars, callVars>>

CleanupEnds(p) ==
    /\ pc[p] = "down" /\ op[p] = "cleanup" /\ left[p] = <<>>
    /\ state' = "Uninitialized"
    /\ Goto(p, "notify")
    /\ UNCHANGED <<refCount, threads, up, ioVars, callVars, left, held>>

-----------------------------------------------------------------------------
(* getGlobalIoService() and getGlobalTimerManager(), called by others.     *)

LazyIo ==
    /\ Lazy /\ "io" \notin up
    /\ up' = up \cup {"io"} /\ ioThreads' = normalizeThreadCount(ioWanted)
    /\ UNCHANGED <<libraryVars, ioWanted, pc, callVars, left, held>>

LazyTimers ==
    /\ Lazy /\ "timers" \notin up
    /\ up' = up \cup {"timers"}
    /\ UNCHANGED <<libraryVars, ioVars, pc, callVars, left, held>>

-----------------------------------------------------------------------------
\* What a caller does once it is inside a call.
Continue(p) ==
    \/ Sleep(p) \/ Notify(p)
    \/ InitializeAgain(p) \/ InitializeRefused(p) \/ InitializeFirst(p)
    \/ initializeSocketLibrary(p) \/ StartIo(p) \/ StartTimers(p) \/ applyRuntimeConfiguration(p)
    \/ InitializeSucceeds(p) \/ InitializeFails(p) \/ TakeDown(p)
    \/ CleanupIgnored(p) \/ CleanupKeeps(p) \/ CleanupLast(p) \/ CleanupEnds(p)

Next ==
    \/ \E p \in Caller : \/ \E n \in ThreadCount : CallInitialize(p, n)
                         \/ CallCleanup(p) \/ Continue(p)
    \/ LazyIo \/ LazyTimers

Spec == Init /\ [][Next]_vars

FairSpec == Spec /\ \A p \in Caller : WF_vars(Continue(p))

-----------------------------------------------------------------------------
(* Properties.                                                             *)

Label == {"out", "enter", "asleep", "sockets", "io", "timers", "configure", "commit",
          "down", "notify"}

\* The type invariant.
TypeOK ==
    /\ state \in {"Uninitialized", "Initializing", "Initialized", "CleaningUp"}
    /\ refCount \in Nat /\ threads \in Nat
    /\ up \subseteq Resource /\ ioThreads \in Nat /\ ioWanted \in Nat
    /\ pc \in [Caller -> Label]
    /\ op \in [Caller -> {"initialize", "cleanup"}]
    /\ request \in [Caller -> Nat]
    /\ left \in [Caller -> Seq(Resource)]
    /\ held \subseteq Caller

\* A caller starting or taking down the resources, without the mutex.
Changing(p) == pc[p] \in {"sockets", "io", "timers", "configure", "commit", "down"}

\* initialize() and cleanup() unlock g_libraryMutex while they start or take
\* down the resources: exactly one caller does so while g_libraryState is
\* Initializing or CleaningUp, for the call the state names, and none otherwise.
OneChanger ==
    /\ \A p, q \in Caller : Changing(p) /\ Changing(q) => p = q
    /\ ~Settled <=> \E p \in Caller : Changing(p)
    /\ \A p \in Caller : Changing(p) =>
          state = IF op[p] = "initialize" THEN "Initializing" ELSE "CleaningUp"

\* g_initializeRefCount never exceeds the number of callers that hold the
\* library, and is that number when cleanup() is only called by holders.
RefCountExact ==
    /\ refCount <= Cardinality(held)
    /\ Careless = {} => refCount = Cardinality(held)

\* While g_libraryState is Initialized the resources that networking needs
\* run, and g_initializedThreadCount is the number the IoService really has;
\* no failing initialize() or late shutdown of an earlier cleanup() takes
\* them away.
ReadyWhenInitialized ==
    state = "Initialized" => Needed \subseteq up /\ threads = ioThreads /\ threads > 0

\* A caller that holds the library finds it running, whatever others do, as
\* long as they only clean up what they have initialized.
HeldIsReady ==
    Careless = {} /\ held # {} => state = "Initialized"

\* After a failed initialize() or the last cleanup() nothing is left running,
\* except what lazy users have started.
NothingLeftBehind ==
    state = "Uninitialized" =>
        /\ up \cap {"sockets", "monitor", "logger"} = {}
        /\ Lazy \/ up = {}

\* A caller that asked for a number of threads and got Success holds a library
\* with that number, when nobody used the IoService before: later callers
\* with other numbers get AlreadyRunning.
ThreadsAsAsked ==
    ~Lazy /\ Careless = {} =>
        \A p \in held : request[p] # 0 => threads = resolveRequestedThreadCount(request[p])

\* Although the mutex is released meanwhile, the resources are started and taken down
\* by one caller at a time, an Initialized library has them, and one that is not has
\* nothing left behind.
ResourcesExact == OneChanger /\ ReadyWhenInitialized /\ NothingLeftBehind

\* A caller asleep on g_libraryCondition is woken: no notification is lost.
SleepersWake == \A p \in Caller : pc[p] = "asleep" ~> pc[p] # "asleep"

==============================================================================
