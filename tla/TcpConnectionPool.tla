------------------------- MODULE TcpConnectionPool -------------------------
(***************************************************************************)
(* src/src/TcpConnectionPool.cpp: callers that acquire and release pooled  *)
(* connections, the maintenance thread, and an owner that initializes and  *)
(* shuts the pool down.  A step is what a thread does under mutex_, or one *)
(* access to an atomic outside it.                                         *)
(*                                                                         *)
(* Time is kept as what canReuse makes of it: a connection is fit, expired *)
(* (unused for longer than idleTimeout, until updateUsedTime() is called)  *)
(* or gone, when its client is not connected any more.  The callbacks      *)
(* posted to the IoService are called at once.                             *)
(***************************************************************************)
EXTENDS Integers, Sequences, FiniteSets, Deques

CONSTANTS
    Caller, Owner, Maintenance,     \* threads
    Conn, NoConn,                   \* bound: connections created altogether
    MinConnections, MaxConnections,
    AcquireTimeout,                 \* 0: do not wait
    Mod32, Mod64,                   \* widths of uint32_t and size_t
    MaxInits                        \* bound on calls of initialize()

ASSUME PoolLimits ==
    /\ MinConnections \in Nat /\ MaxConnections \in Nat \ {0}
    /\ MinConnections <= MaxConnections
    /\ AcquireTimeout \in Nat /\ MaxInits \in Nat
    /\ Mod32 \in Nat /\ Mod64 \in Nat /\ 2 * Mod32 <= Mod64
    /\ MaxConnections + MinConnections < Mod32
    /\ IsFiniteSet(Caller) /\ Cardinality(Caller) < Mod32
    /\ Owner \notin Caller /\ Maintenance \notin Caller /\ Owner # Maintenance
    /\ NoConn \notin Conn

Thread == Caller \cup {Owner, Maintenance}

VARIABLES
    connections, idleConnections, pendingAcquires,  \* guarded by mutex_
    state,                  \* PooledConnection: state_
    fitness,                \* what canReuse asks: "fit", "expired" or "gone"
    currentConnections, idleConnectionsCount, inUseConnectionsCount, creatingConnections,
    initialized, shutdown,
    pc, conn,               \* per thread: where it is, the connection it has
    reusable, wasInUse,     \* per caller: locals of release()
    seen,                   \* local of ensureMinimumConnections
    made,                   \* loop counter of initialize()
    closing,                \* local of shutdown()
    inits, pristine         \* calls of initialize(); no shutdown() so far

poolVars == <<connections, idleConnections, pendingAcquires>>
connVars == <<state, fitness>>
countVars == <<currentConnections, idleConnectionsCount, inUseConnectionsCount,
               creatingConnections>>
flagVars == <<initialized, shutdown, inits, pristine>>
localVars == <<reusable, wasInUse, seen, made, closing>>
vars == <<poolVars, connVars, countVars, flagVars, pc, conn, localVars>>

Init ==
    /\ connections = {} /\ idleConnections = <<>> /\ pendingAcquires = <<>>
    /\ state = [c \in Conn |-> "None"] /\ fitness = [c \in Conn |-> "fit"]
    /\ currentConnections = 0 /\ idleConnectionsCount = 0
    /\ inUseConnectionsCount = 0 /\ creatingConnections = 0
    /\ initialized = FALSE /\ shutdown = FALSE
    /\ pc = [t \in Thread |-> IF t = Maintenance THEN "off" ELSE "out"]
    /\ conn = [t \in Thread |-> NoConn]
    /\ reusable = [a \in Caller |-> FALSE] /\ wasInUse = [a \in Caller |-> FALSE]
    /\ seen = 0 /\ made = 0 /\ closing = {}
    /\ inits = 0 /\ pristine = TRUE

Goto(t, label) == pc' = [pc EXCEPT ![t] = label]

Sub32(n, m) == (n - m) % Mod32

-----------------------------------------------------------------------------
(* Helpers under the mutex.                                                *)

CanReuse(c) == fitness[c] = "fit"

\* close() of some connections: their clients disconnect.
CloseAll(set) ==
    /\ state' = [c \in Conn |-> IF c \in set THEN "Closed" ELSE state[c]]
    /\ fitness' = [c \in Conn |-> IF c \in set THEN "gone" ELSE fitness[c]]

UpdateUsedTime(c) ==
    fitness' = [fitness EXCEPT ![c] = IF @ = "expired" THEN "fit" ELSE @]

TotalInFlight == (currentConnections + creatingConnections) % Mod64

\* tryAcquireIdleLocked pops k entries: the last one is the first fit one, or
\* the deque is empty afterwards.
FirstFit(k) ==
    /\ k \in 1..Len(idleConnections) /\ CanReuse(idleConnections[k])
    /\ \A i \in 1..k-1 : ~CanReuse(idleConnections[i])
NoneFit == \A i \in 1..Len(idleConnections) : ~CanReuse(idleConnections[i])

Leading(k) == {idleConnections[i] : i \in 1..k}

\* The first k entries are popped; the first n of them, which are unfit, are forgotten.
Discard(k, n) ==
    /\ idleConnections' = SubSeq(idleConnections, k + 1, Len(idleConnections))
    /\ idleConnectionsCount' = Sub32(idleConnectionsCount, k)
    /\ connections' = connections \ Leading(n)
    /\ currentConnections' = Sub32(currentConnections, n)

\* A thread takes the idle connection at k and marks it in use.
TakeIdle(t, k) ==
    /\ FirstFit(k)
    /\ Discard(k, k - 1)
    /\ state' = [c \in Conn |-> IF c = idleConnections[k] THEN "InUse"
                                ELSE IF c \in Leading(k - 1) THEN "Closed" ELSE state[c]]
    /\ fitness' = [c \in Conn |-> IF c \in Leading(k - 1) THEN "gone" ELSE fitness[c]]
    /\ conn' = [conn EXCEPT ![t] = idleConnections[k]]
    /\ inUseConnectionsCount' = (inUseConnectionsCount + 1) % Mod32
    /\ Goto(t, "holds")

\* There is none to take.
DiscardAll ==
    /\ NoneFit
    /\ Discard(Len(idleConnections), Len(idleConnections))
    /\ CloseAll(Entries(idleConnections))

\* The end of createConnection: the client is connected, and registered.
Connected(t, c) ==
    /\ state[c] = "None"
    /\ state' = [state EXCEPT ![c] = "Idle"]
    /\ connections' = connections \cup {c}
    /\ currentConnections' = (currentConnections + 1) % Mod32
    /\ conn' = [conn EXCEPT ![t] = c]
    /\ UNCHANGED <<idleConnections, pendingAcquires, fitness>>

\* A connection that a thread has created becomes idle.
PushIdle(t) ==
    /\ state' = [state EXCEPT ![conn[t]] = "Idle"]
    /\ idleConnections' = Append(idleConnections, conn[t])
    /\ idleConnectionsCount' = (idleConnectionsCount + 1) % Mod32
    /\ conn' = [conn EXCEPT ![t] = NoConn]
    /\ UNCHANGED <<connections, pendingAcquires>>

-----------------------------------------------------------------------------
(* acquire(callback).                                                      *)

\* Mutant: shutdown_ is not read under the mutex.
AcquireAsyncUnchecked(a) ==
    /\ pc[a] = "out" /\ DiscardAll
    /\ pendingAcquires' = Append(pendingAcquires, a)
    /\ Goto(a, "pending")
    /\ UNCHANGED <<conn, creatingConnections, inUseConnectionsCount, flagVars, localVars>>

AcquireAsync(a) ==
    /\ pc[a] = "out" /\ ~shutdown
    /\ \/ /\ \E k \in 1..Len(idleConnections) : TakeIdle(a, k)
          /\ UNCHANGED pendingAcquires
       \/ /\ DiscardAll
          /\ IF (currentConnections' + creatingConnections) % Mod64 >= MaxConnections
               THEN /\ pendingAcquires' = Append(pendingAcquires, a)
                    /\ Goto(a, "pending")
               ELSE /\ Goto(a, "check")
                    /\ UNCHANGED pendingAcquires
          /\ UNCHANGED <<conn, inUseConnectionsCount>>
    /\ UNCHANGED <<creatingConnections, flagVars, localVars>>

(* acquireSync.  It begins with the loop's condition.                      *)

AcquireSync(a) ==
    /\ pc[a] = "out"
    /\ Goto(a, "check")
    /\ UNCHANGED <<poolVars, connVars, countVars, flagVars, conn, localVars>>

AcquireCheck(a) ==
    /\ pc[a] = "check"
    /\ Goto(a, IF shutdown THEN "out" ELSE "try")
    /\ UNCHANGED <<poolVars, connVars, countVars, flagVars, conn, localVars>>

\* After a failed attempt: give up at once, or wait.
WaitOrGiveUp == IF AcquireTimeout = 0 THEN "out" ELSE "wait"

\* Mutant: connections being created are not counted.
AcquireTryCurrentOnly(a) ==
    /\ pc[a] = "try"
    /\ \/ /\ \E k \in 1..Len(idleConnections) : TakeIdle(a, k)
          /\ UNCHANGED creatingConnections
       \/ /\ DiscardAll
          /\ IF currentConnections' < MaxConnections
               THEN /\ creatingConnections' = (creatingConnections + 1) % Mod64
                    /\ Goto(a, "create")
               ELSE /\ Goto(a, WaitOrGiveUp)
                    /\ UNCHANGED creatingConnections
          /\ UNCHANGED <<conn, inUseConnectionsCount>>
    /\ UNCHANGED <<pendingAcquires, flagVars, localVars>>

AcquireTry(a) ==
    /\ pc[a] = "try"
    /\ \/ /\ \E k \in 1..Len(idleConnections) : TakeIdle(a, k)
          /\ UNCHANGED creatingConnections
       \/ /\ DiscardAll
          /\ IF (currentConnections' + creatingConnections) % Mod64 < MaxConnections
               THEN /\ creatingConnections' = (creatingConnections + 1) % Mod64
                    /\ Goto(a, "create")
               ELSE /\ Goto(a, WaitOrGiveUp)
                    /\ UNCHANGED creatingConnections
          /\ UNCHANGED <<conn, inUseConnectionsCount>>
    /\ UNCHANGED <<pendingAcquires, flagVars, localVars>>

AcquireCreates(a) ==
    /\ pc[a] = "create"
    /\ \E c \in Conn : Connected(a, c)
    /\ Goto(a, "created")
    /\ UNCHANGED <<idleConnectionsCount, inUseConnectionsCount, creatingConnections, flagVars,
                   localVars>>

\* createConnection has failed; the mutex is taken again.
AcquireCreateFails(a) ==
    /\ pc[a] = "create"
    /\ creatingConnections' = (creatingConnections - 1) % Mod64
    /\ Goto(a, WaitOrGiveUp)
    /\ UNCHANGED <<poolVars, connVars, currentConnections, idleConnectionsCount,
                   inUseConnectionsCount, flagVars, conn, localVars>>

AcquireCreated(a) ==
    /\ pc[a] = "created"
    /\ creatingConnections' = (creatingConnections - 1) % Mod64
    /\ state' = [state EXCEPT ![conn[a]] = "InUse"]
    /\ UpdateUsedTime(conn[a])
    /\ inUseConnectionsCount' = (inUseConnectionsCount + 1) % Mod32
    /\ Goto(a, "holds")
    /\ UNCHANGED <<poolVars, currentConnections, idleConnectionsCount, flagVars, conn,
                   localVars>>

\* wait_until returns with its predicate, after a notification or at the
\* deadline; only where the predicate is false is the deadline looked at.
WorthTrying == shutdown \/ idleConnections # <<>> \/ TotalInFlight < MaxConnections

AcquireWakes(a) ==
    /\ pc[a] = "wait"
    /\ Goto(a, IF WorthTrying THEN "check" ELSE "out")
    /\ UNCHANGED <<poolVars, connVars, countVars, flagVars, conn, localVars>>

-----------------------------------------------------------------------------
(* release(connection).                                                    *)

Release(a) ==
    /\ pc[a] = "holds"
    /\ reusable' = [reusable EXCEPT ![a] = CanReuse(conn[a])]
    /\ wasInUse' = [wasInUse EXCEPT ![a] = state[conn[a]] = "InUse"]
    /\ Goto(a, "release")
    /\ UNCHANGED <<poolVars, connVars, countVars, flagVars, conn, seen, made, closing>>

\* The connection goes to the first pending acquire...
ReleaseToPending(a) ==
    LET p == Head(pendingAcquires) IN
    /\ pc[a] = "release" /\ ~shutdown /\ reusable[a] /\ pendingAcquires # <<>>
    /\ pendingAcquires' = Tail(pendingAcquires)
    /\ state' = [state EXCEPT ![conn[a]] = "InUse"]
    /\ UpdateUsedTime(conn[a])
    /\ conn' = [conn EXCEPT ![a] = NoConn, ![p] = conn[a]]
    /\ pc' = [pc EXCEPT ![a] = "out", ![p] = "holds"]
    /\ UNCHANGED <<connections, idleConnections, countVars, flagVars, localVars>>

\* ... or becomes idle ...
ReleaseToIdle(a) ==
    /\ pc[a] = "release" /\ ~shutdown /\ reusable[a] /\ pendingAcquires = <<>>
    /\ PushIdle(a)
    /\ UpdateUsedTime(conn[a])
    /\ Goto(a, "released")
    /\ UNCHANGED <<currentConnections, inUseConnectionsCount, creatingConnections, flagVars,
                   localVars>>

\* ... or is closed.
ReleaseToClose(a) ==
    /\ pc[a] = "release" /\ (shutdown \/ ~reusable[a])
    /\ Goto(a, "released")
    /\ UNCHANGED <<poolVars, connVars, countVars, flagVars, conn, localVars>>

Released(a) ==
    /\ pc[a] = "released"
    /\ inUseConnectionsCount' = Sub32(inUseConnectionsCount, IF wasInUse[a] THEN 1 ELSE 0)
    /\ Goto(a, IF conn[a] = NoConn THEN "out" ELSE "close")
    /\ UNCHANGED <<poolVars, connVars, currentConnections, idleConnectionsCount,
                   creatingConnections, flagVars, conn, localVars>>

ReleaseCloses(a) ==
    /\ pc[a] = "close"
    /\ CloseAll({conn[a]})
    /\ connections' = connections \ {conn[a]}
    /\ currentConnections' = Sub32(currentConnections, 1)
    /\ conn' = [conn EXCEPT ![a] = NoConn]
    /\ Goto(a, "out")
    /\ UNCHANGED <<idleConnections, pendingAcquires, idleConnectionsCount,
                   inUseConnectionsCount, creatingConnections, flagVars, localVars>>

-----------------------------------------------------------------------------
(* The maintenance thread: maintenanceLoop, cleanupIdleConnections and     *)
(* ensureMinimumConnections, which reads its two counters one after the    *)
(* other and without the mutex.                                            *)

\* Mutant: the loop does not look at shutdown_.
MaintenanceGoesOn ==
    /\ pc[Maintenance] = "sleep"
    /\ Goto(Maintenance, "cleanup")
    /\ UNCHANGED <<poolVars, connVars, countVars, flagVars, conn, localVars>>

MaintenanceWakes ==
    /\ pc[Maintenance] = "sleep"
    /\ Goto(Maintenance, IF shutdown THEN "exited" ELSE "cleanup")
    /\ UNCHANGED <<poolVars, connVars, countVars, flagVars, conn, localVars>>

\* The first MinConnections entries stay, unfit or not.
CleanupIdleConnections ==
    LET n == Len(idleConnections)
        retained == {i \in 1..n : i <= MinConnections \/ CanReuse(idleConnections[i])}
        stale == {idleConnections[i] : i \in (1..n) \ retained}
    IN  /\ pc[Maintenance] = "cleanup"
        /\ \E f \in Listings(retained, n) :
             /\ idleConnections' = Picked(idleConnections, f)
             /\ idleConnectionsCount' = Sub32(idleConnectionsCount, n - Len(f))
             /\ currentConnections' = Sub32(currentConnections, n - Len(f))
        /\ connections' = connections \ stale
        /\ CloseAll(stale)
        /\ Goto(Maintenance, "ensure")
        /\ UNCHANGED <<pendingAcquires, inUseConnectionsCount, creatingConnections,
                       flagVars, conn, localVars>>

EnsureReads ==
    /\ pc[Maintenance] = "ensure"
    /\ Goto(Maintenance, IF shutdown THEN "sleep" ELSE "compare")
    /\ seen' = currentConnections
    /\ UNCHANGED <<poolVars, connVars, countVars, flagVars, conn, reusable, wasInUse, made,
                   closing>>

EnsureCompares ==
    /\ pc[Maintenance] = "compare"
    /\ Goto(Maintenance, IF (seen + creatingConnections) % Mod64 < MinConnections
                           THEN "count" ELSE "sleep")
    /\ seen' = 0
    /\ UNCHANGED <<poolVars, connVars, countVars, flagVars, conn, reusable, wasInUse, made,
                   closing>>

EnsureCounts ==
    /\ pc[Maintenance] = "count"
    /\ creatingConnections' = (creatingConnections + 1) % Mod64
    /\ Goto(Maintenance, "create")
    /\ UNCHANGED <<poolVars, connVars, currentConnections, idleConnectionsCount,
                   inUseConnectionsCount, flagVars, conn, localVars>>

EnsureCreates ==
    /\ pc[Maintenance] = "create"
    /\ \E c \in Conn : Connected(Maintenance, c)
    /\ Goto(Maintenance, "created")
    /\ UNCHANGED <<idleConnectionsCount, inUseConnectionsCount, creatingConnections, flagVars,
                   localVars>>

EnsureCreateFails ==
    /\ pc[Maintenance] = "create"
    /\ creatingConnections' = (creatingConnections - 1) % Mod64
    /\ Goto(Maintenance, "sleep")
    /\ UNCHANGED <<poolVars, connVars, currentConnections, idleConnectionsCount,
                   inUseConnectionsCount, flagVars, conn, localVars>>

EnsureCreated ==
    /\ pc[Maintenance] = "created"
    /\ creatingConnections' = (creatingConnections - 1) % Mod64
    /\ Goto(Maintenance, "push")
    /\ UNCHANGED <<poolVars, connVars, currentConnections, idleConnectionsCount,
                   inUseConnectionsCount, flagVars, conn, localVars>>

EnsurePushes ==
    /\ pc[Maintenance] = "push"
    /\ PushIdle(Maintenance)
    /\ Goto(Maintenance, "ensure")
    /\ UNCHANGED <<fitness, currentConnections, inUseConnectionsCount, creatingConnections,
                   flagVars, localVars>>

-----------------------------------------------------------------------------
(* The owner: initialize(), shutdown().                                    *)

Initialize ==
    /\ pc[Owner] = "out" /\ ~initialized
    /\ inits < MaxInits
    /\ initialized' = TRUE /\ shutdown' = FALSE /\ inits' = inits + 1
    /\ made' = 0
    /\ Goto(Owner, "create")
    /\ UNCHANGED <<poolVars, connVars, countVars, pristine, conn, reusable, wasInUse, seen,
                   closing>>

InitializeCreates ==
    /\ pc[Owner] = "create" /\ made < MinConnections
    /\ \E c \in Conn : Connected(Owner, c)
    /\ Goto(Owner, "push")
    /\ UNCHANGED <<idleConnectionsCount, inUseConnectionsCount, creatingConnections, flagVars,
                   localVars>>

InitializePushes ==
    /\ pc[Owner] = "push"
    /\ PushIdle(Owner)
    /\ made' = made + 1
    /\ Goto(Owner, "create")
    /\ UNCHANGED <<fitness, currentConnections, inUseConnectionsCount, creatingConnections,
                   flagVars, reusable, wasInUse, seen, closing>>

\* All are created, or one could not be.
InitializeEnds ==
    /\ pc[Owner] = "create"
    /\ made' = 0
    /\ pc' = [pc EXCEPT ![Owner] = "out", ![Maintenance] = "sleep"]
    /\ UNCHANGED <<poolVars, connVars, countVars, flagVars, conn, reusable, wasInUse, seen,
                   closing>>

Shutdown ==
    /\ pc[Owner] = "out" /\ ~shutdown
    /\ shutdown' = TRUE /\ pristine' = FALSE
    /\ Goto(Owner, "join")
    /\ UNCHANGED <<poolVars, connVars, countVars, initialized, inits, conn, localVars>>

\* Those whose acquire is pending get an error.
ShutdownSwaps ==
    /\ pc[Owner] = "join" /\ pc[Maintenance] \in {"off", "exited"}
    /\ closing' = connections
    /\ connections' = {} /\ idleConnections' = <<>> /\ pendingAcquires' = <<>>
    /\ pc' = [t \in Thread |-> IF t = Owner THEN "close"
                               ELSE IF t \in Entries(pendingAcquires) THEN "out" ELSE pc[t]]
    /\ UNCHANGED <<connVars, countVars, flagVars, conn, reusable, wasInUse, seen, made>>

ShutdownCloses ==
    /\ pc[Owner] = "close"
    /\ CloseAll(closing)
    /\ closing' = {}
    /\ Goto(Owner, "zero current")
    /\ UNCHANGED <<poolVars, countVars, flagVars, conn, reusable, wasInUse, seen, made>>

ShutdownZeroesCurrent ==
    /\ pc[Owner] = "zero current"
    /\ currentConnections' = 0 /\ idleConnectionsCount' = 0
    /\ Goto(Owner, "zero in use")
    /\ UNCHANGED <<poolVars, connVars, inUseConnectionsCount, creatingConnections, flagVars,
                   conn, localVars>>

ShutdownZeroesInUse ==
    /\ pc[Owner] = "zero in use"
    /\ inUseConnectionsCount' = 0
    /\ Goto(Owner, "zero creating")
    /\ UNCHANGED <<poolVars, connVars, currentConnections, idleConnectionsCount,
                   creatingConnections, flagVars, conn, localVars>>

ShutdownEnds ==
    /\ pc[Owner] = "zero creating"
    /\ creatingConnections' = 0 /\ initialized' = FALSE
    /\ pc' = [pc EXCEPT ![Owner] = "out", ![Maintenance] = "off"]
    /\ UNCHANGED <<poolVars, connVars, currentConnections, idleConnectionsCount,
                   inUseConnectionsCount, shutdown, inits, pristine, conn, localVars>>

-----------------------------------------------------------------------------
PeerGoes(c) ==
    /\ state[c] # "None" /\ fitness[c] # "gone"
    /\ fitness' = [fitness EXCEPT ![c] = "gone"]
    /\ UNCHANGED <<poolVars, state, countVars, flagVars, pc, conn, localVars>>

IdleTimeoutPasses(c) ==
    /\ state[c] # "None" /\ fitness[c] = "fit"
    /\ fitness' = [fitness EXCEPT ![c] = "expired"]
    /\ UNCHANGED <<poolVars, state, countVars, flagVars, pc, conn, localVars>>

\* Callers come when initialize() has returned, as in the documentation.
CallerStarts(a) ==
    /\ inits > 0 /\ pc[Owner] \notin {"create", "push"}
    /\ AcquireAsync(a) \/ AcquireSync(a)

CallerSteps(a) ==
    \/ AcquireCheck(a) \/ AcquireTry(a) \/ AcquireCreates(a) \/ AcquireCreateFails(a)
    \/ AcquireCreated(a) \/ AcquireWakes(a)
    \/ ReleaseToPending(a) \/ ReleaseToIdle(a) \/ ReleaseToClose(a)
    \/ Released(a) \/ ReleaseCloses(a)

MaintenanceSteps ==
    \/ MaintenanceWakes \/ CleanupIdleConnections
    \/ EnsureReads \/ EnsureCompares \/ EnsureCounts \/ EnsureCreates \/ EnsureCreateFails
    \/ EnsureCreated \/ EnsurePushes

OwnerSteps ==
    \/ InitializeCreates \/ InitializePushes \/ InitializeEnds
    \/ ShutdownSwaps \/ ShutdownCloses \/ ShutdownZeroesCurrent \/ ShutdownZeroesInUse
    \/ ShutdownEnds

Next ==
    \/ \E a \in Caller : CallerStarts(a) \/ CallerSteps(a) \/ Release(a)
    \/ MaintenanceSteps
    \/ Initialize \/ Shutdown \/ OwnerSteps
    \/ \E c \in Conn : PeerGoes(c) \/ IdleTimeoutPasses(c)

Spec == Init /\ [][Next]_vars

\* A thread inside a call goes on: the mutex is always given back, waits have a
\* deadline and connection attempts a time-out.  Nobody has to call anything.
FairSpec ==
    /\ Spec
    /\ \A a \in Caller : WF_vars(CallerSteps(a))
    /\ WF_vars(MaintenanceSteps) /\ WF_vars(OwnerSteps)

-----------------------------------------------------------------------------
(* Properties.                                                             *)

\* Every variable has its type.
TypeOK ==
    /\ connections \subseteq Conn /\ idleConnections \in Seq(Conn)
    /\ pendingAcquires \in Seq(Caller)
    /\ state \in [Conn -> {"None", "Idle", "InUse", "Closed"}]
    /\ fitness \in [Conn -> {"fit", "expired", "gone"}]
    /\ currentConnections \in 0..Mod32-1 /\ idleConnectionsCount \in 0..Mod32-1
    /\ inUseConnectionsCount \in 0..Mod32-1 /\ creatingConnections \in 0..Mod64-1
    /\ initialized \in BOOLEAN /\ shutdown \in BOOLEAN /\ pristine \in BOOLEAN
    /\ conn \in [Thread -> Conn \cup {NoConn}] /\ DOMAIN pc = Thread
    /\ \A a \in Caller : /\ pc[a] \in {"out", "pending", "check", "try", "create", "created",
                                      "wait", "holds", "release", "released", "close"}
                         /\ pc[a] = "pending" <=> a \in Entries(pendingAcquires)
    /\ pc[Owner] \in {"out", "create", "push", "join", "close", "zero current", "zero in use",
                      "zero creating"}
    /\ pc[Maintenance] \in {"off", "sleep", "cleanup", "ensure", "compare", "count", "create",
                            "created", "push", "exited"}
    /\ reusable \in [Caller -> BOOLEAN] /\ wasInUse \in [Caller -> BOOLEAN]
    /\ seen \in 0..Mod32-1 /\ made \in 0..MinConnections /\ closing \subseteq Conn

Carriers(c) == {t \in Thread : conn[t] = c}

\* A connection is in one place: once in the deque of idle connections, or with
\* one thread, which created it, acquired it or is giving it back.  It is never
\* handed to two callers, also when acquires, releases, clean-up and shutdown()
\* meet.
HandedOutOnce ==
    /\ \A c \in Conn : \A s, t \in Carriers(c) : s = t
    /\ \A i, j \in 1..Len(idleConnections) : idleConnections[i] = idleConnections[j] => i = j
    /\ \A c \in Entries(idleConnections) : Carriers(c) = {}

\* What connections_ lists is idle or with a thread: none takes up room in the pool
\* without anyone being able to use it.  Idle connections are listed, except those a
\* shutdown() has closed: a release() that found one reusable before it may put it
\* back after the next initialize().
NoneLost ==
    /\ \A c \in Entries(idleConnections) : c \in connections \/ fitness[c] = "gone"
    /\ \A c \in connections : c \in Entries(idleConnections) \/ Carriers(c) # {}

\* The counters that getCurrentConnectionCount, getIdleConnectionCount and
\* getInUseConnectionCount return are exact: the idle one but while shutdown()
\* is about to reset it, the others until the first shutdown().
CountsExact ==
    /\ pristine => currentConnections = Cardinality(connections)
    /\ pc[Owner] \notin {"close", "zero current"} =>
          idleConnectionsCount = Len(idleConnections) % Mod32
    /\ pristine => inUseConnectionsCount = Cardinality(
           {a \in Caller : pc[a] \in {"holds", "release"} \/ (pc[a] = "released" /\ wasInUse[a])})

\* Until the first shutdown() the pool holds, connections being created
\* included, at most minConnections more than maxConnections: the maintenance
\* thread decides to create one on counters that callers change meanwhile.
MaximumKept ==
    pristine => Cardinality(connections)
                  + Cardinality({t \in Caller \cup {Maintenance} : pc[t] = "create"})
                    <= MaxConnections + MinConnections

\* When shutdown() has collected the pending acquires no other becomes pending,
\* which nobody would answer.
NobodyLeftPending == shutdown /\ pc[Owner] # "join" => pendingAcquires = <<>>

\* Connections and pending acquires are each in one place, and in a place where
\* somebody finds them.
OnePlace == TypeOK /\ HandedOutOnce /\ NoneLost /\ NobodyLeftPending

\* A release after shutdown() lowers currentConnections_ below 0, where it wraps: by at
\* most one for each connection that a caller had or was creating.
WrapBounded ==
    (Cardinality(connections) - currentConnections) % Mod32 <= Cardinality(Caller)

\* The counters are exact, and maxConnections is kept but for minConnections, until the
\* first shutdown(); after it the error is bounded.
CountsHold == CountsExact /\ MaximumKept /\ (pc[Owner] = "out" => WrapBounded)

\* acquireSync returns, with a connection or without.
AcquireReturns == \A a \in Caller : (pc[a] = "check") ~> (pc[a] \in {"out", "holds"})

\* shutdown() returns: the maintenance thread can be joined.
ShutdownReturns == (pc[Owner] = "join") ~> (pc[Owner] = "out")
=============================================================================
