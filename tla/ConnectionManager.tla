------------------------- MODULE ConnectionManager -------------------------
(***************************************************************************)
(* src/src/ConnectionManager.cpp: the bookkeeping of connections to the    *)
(* backends of named services, their health and the circuit breaker of     *)
(* each service.  Every public operation holds the mutex from beginning to *)
(* end and is one action; the maintenance thread runs between them.        *)
(*                                                                         *)
(* Time is reduced to what the code asks of it: which idle connections     *)
(* have outlived idleTimeout (expired), and which breakers and backends    *)
(* had their last failure at least recoveryTimeout ago (cooled).  Failure  *)
(* and success counts are only compared with a threshold and saturate      *)
(* there.  pendingRequests is back at its old value when an operation ends.*)
(***************************************************************************)
EXTENDS Integers, Sequences, FiniteSets, Functions, Deques

CONSTANTS
    Service, Backend,
    MaxPoolSize,            \* MaxConnections, per service
    FailureThreshold,
    HalfOpenAttempts,
    CircuitBreakerEnabled,
    RecoveryTimeout,        \* 0: recovery does not wait
    IdleTimeout,            \* 0: idle connections do not expire
    MaxConnectionId         \* bound: connections created altogether

ASSUME Limits == /\ MaxPoolSize \in Nat \ {0} /\ FailureThreshold \in Nat \ {0}
                 /\ HalfOpenAttempts \in Nat \ {0} /\ CircuitBreakerEnabled \in BOOLEAN
                 /\ RecoveryTimeout \in Nat /\ IdleTimeout \in Nat
                 /\ MaxConnectionId \in Nat

VARIABLES
    services,           \* the keys of the map of services
    backends, healthy,  \* per service: its backends, and the healthy ones
    failureCount,       \* per service and backend
    activeConnections,  \* per service and backend: the code's counter
    breaker,            \* per service
    connections,        \* id -> service, backend, isActive
    nextConnectionId,
    idleConnections,    \* per service: the deque of idle ids
    totalConnections,   \* per service: the code's counter
    expired, cooled,    \* what has waited long enough
    running, thread,    \* the flag and the maintenance thread
    trials, forgotten   \* history: successes since half-open; backends that
                        \* were removed while connections to them were active

backendVars == <<backends, healthy, failureCount, activeConnections>>
poolVars == <<connections, nextConnectionId, idleConnections, totalConnections, expired>>
lifeVars == <<running, thread>>
vars == <<services, backendVars, breaker, poolVars, cooled, lifeVars, trials, forgotten>>

ClosedBreaker == [state |-> "Closed", failureCount |-> 0, successCount |-> 0]
PerBackend(x) == [s \in Service |-> [b \in Backend |-> x]]

Init ==
    /\ services = {}
    /\ backends = [s \in Service |-> {}] /\ healthy = [s \in Service |-> {}]
    /\ failureCount = PerBackend(0) /\ activeConnections = PerBackend(0)
    /\ breaker = [s \in Service |-> ClosedBreaker]
    /\ connections = <<>> /\ nextConnectionId = 1
    /\ idleConnections = [s \in Service |-> <<>>]
    /\ totalConnections = [s \in Service |-> 0]
    /\ expired = {} /\ cooled = {}
    /\ running = FALSE /\ thread = "off"
    /\ trials = [s \in Service |-> 0] /\ forgotten = {}

-----------------------------------------------------------------------------
(* Helpers of the operations.                                              *)

Ids == DOMAIN connections
ConnectionsOf(s) == {id \in Ids : connections[id].service = s}
ConnectionsTo(s, b) == {id \in Ids : connections[id].service = s /\ connections[id].backend = b}
IdleTo(s, b) == {id \in ConnectionsTo(s, b) : ~connections[id].isActive}

Monus(m, n) == IF m > n THEN m - n ELSE 0
Saturated(n, limit) == IF n < limit THEN n ELSE limit

\* Mutant: a removal is not counted.
KeptTotalUncounted(gone) == totalConnections

\* removeConnectionLocked for every connection of gone: it leaves the map and
\* its service's deque, and its service counts one less.
Kept(gone) == Restrict(connections, Ids \ gone)
KeptIdle(gone) == [s \in Service |-> Erase(idleConnections[s], gone)]
KeptTotal(gone) ==
    [s \in Service |->
        Monus(totalConnections[s], Cardinality({id \in gone : connections[id].service = s}))]

RemoveConnections(gone) ==
    /\ connections' = Kept(gone)
    /\ idleConnections' = KeptIdle(gone)
    /\ totalConnections' = KeptTotal(gone)
    /\ expired' = expired \ gone
    /\ UNCHANGED nextConnectionId

\* Mutant: nothing is counted down.
ReleasedUncounted(s, b) == activeConnections

\* One connection less is in use on a backend that is still registered.
Released(s, b) ==
    IF b \in backends[s]
      THEN [activeConnections EXCEPT ![s][b] = Monus(@, 1)]
      ELSE activeConnections

-----------------------------------------------------------------------------
(* acquireConnection.                                                      *)

HalfOpened(c) == [state |-> "HalfOpen", failureCount |-> c.failureCount, successCount |-> 0]
Recovered(x) == RecoveryTimeout = 0 \/ x \in cooled

\* prepareCircuitBreakerLocked: the breaker after it, and its verdict.
Prepared(s) ==
    IF CircuitBreakerEnabled /\ breaker[s].state = "Open" /\ Recovered(<<s>>)
      THEN HalfOpened(breaker[s])
      ELSE breaker[s]

\* The sum of the backends' counts, as the number of pairs of a backend and a
\* number up to its count.
ActiveCount(s) == Cardinality(UNION {{b} \X (1..activeConnections[s][b]) : b \in backends[s]})

\* Mutant: one connection too many.
AdmitsOneMore(s) ==
    CircuitBreakerEnabled =>
        /\ Prepared(s).state # "Open"
        /\ Prepared(s).state = "HalfOpen" => ActiveCount(s) <= HalfOpenAttempts

Admits(s) ==
    CircuitBreakerEnabled =>
        /\ Prepared(s).state # "Open"
        /\ Prepared(s).state = "HalfOpen" => ActiveCount(s) < HalfOpenAttempts

\* What every call does before it looks at connections.
Prepare(s) ==
    /\ services' = services \cup {s}
    /\ breaker' = [breaker EXCEPT ![s] = Prepared(s)]
    /\ trials' = IF breaker'[s] # breaker[s] THEN [trials EXCEPT ![s] = 0] ELSE trials
    /\ UNCHANGED <<backends, healthy, failureCount, cooled, lifeVars, forgotten>>

\* The idle connection id is handed out again.
Usable(s, id) ==
    /\ id \in Ids /\ ~connections[id].isActive /\ id \notin expired
    /\ connections[id].backend \in healthy[s]

\* The loop over the deque pops k entries, none of them usable, and removes
\* those that are idle connections.
Popped(s, k) == {idleConnections[s][i] : i \in 1..k}
Stale(s, k) == {id \in Popped(s, k) : id \in Ids /\ ~connections[id].isActive}

\* A connection on a missing or unhealthy backend is marked active before it
\* is removed, so that its removal decrements a counter.
CountsAfter(s, k) ==
    [b \in Backend |->
        IF b \in backends[s]
          THEN Monus(activeConnections[s][b],
                     Cardinality({id \in Stale(s, k) \ expired : connections[id].backend = b}))
          ELSE activeConnections[s][b]]

AcquireRefused(s) ==
    /\ ~Admits(s)
    /\ Prepare(s)
    /\ UNCHANGED <<activeConnections, poolVars>>

AcquireIdle(s, k) ==
    LET id == idleConnections[s][k]
        b == connections[id].backend
    IN  /\ Admits(s)
        /\ Usable(s, id) /\ \A i \in 1..k-1 : ~Usable(s, idleConnections[s][i])
        /\ Prepare(s)
        /\ connections' = [Kept(Stale(s, k - 1)) EXCEPT ![id].isActive = TRUE]
        /\ idleConnections' = [KeptIdle(Stale(s, k - 1)) EXCEPT
               ![s] = Erase(SubSeq(idleConnections[s], k + 1, Len(idleConnections[s])),
                            Stale(s, k - 1))]
        /\ totalConnections' = KeptTotal(Stale(s, k - 1))
        /\ activeConnections' = [activeConnections EXCEPT
               ![s] = [CountsAfter(s, k - 1) EXCEPT ![b] = @ + 1]]
        /\ expired' = expired \ Stale(s, k - 1)
        /\ UNCHANGED nextConnectionId

\* selectBackendLocked: weights, counters and the strategy choose among the
\* healthy backends.
SelectBackend(s) == healthy[s]

\* createConnectionLocked, given the map without the connections removed.
Created(kept, s, b) ==
    [id \in DOMAIN kept \cup {nextConnectionId} |->
        IF id = nextConnectionId THEN [service |-> s, backend |-> b, isActive |-> TRUE]
                                 ELSE kept[id]]

\* No idle connection is left: a new one is created, unless the pool is full
\* or no backend is healthy.
AcquireNew(s) ==
    LET k == Len(idleConnections[s])
        gone == Stale(s, k)
    IN  /\ Admits(s)
        /\ \A i \in 1..k : ~Usable(s, idleConnections[s][i])
        /\ Prepare(s)
        /\ expired' = expired \ gone
        /\ idleConnections' = [KeptIdle(gone) EXCEPT ![s] = <<>>]
        /\ \/ /\ KeptTotal(gone)[s] >= MaxPoolSize \/ SelectBackend(s) = {}
              /\ connections' = Kept(gone)
              /\ totalConnections' = KeptTotal(gone)
              /\ activeConnections' = [activeConnections EXCEPT ![s] = CountsAfter(s, k)]
              /\ UNCHANGED nextConnectionId
           \/ \E b \in SelectBackend(s) :
              /\ KeptTotal(gone)[s] < MaxPoolSize
              /\ nextConnectionId <= MaxConnectionId
              /\ connections' = Created(Kept(gone), s, b)
              /\ totalConnections' = [KeptTotal(gone) EXCEPT ![s] = @ + 1]
              /\ activeConnections' = [activeConnections EXCEPT
                     ![s] = [CountsAfter(s, k) EXCEPT ![b] = @ + 1]]
              /\ nextConnectionId' = nextConnectionId + 1

Acquire(s) ==
    \/ AcquireRefused(s)
    \/ \E k \in 1..Len(idleConnections[s]) : AcquireIdle(s, k)
    \/ AcquireNew(s)

-----------------------------------------------------------------------------
(* releaseConnection, closeConnection.  Ids that are not in the map, and   *)
(* releases of idle connections, change nothing.                           *)

Release(id) ==
    LET c == connections[id] IN
    /\ id \in Ids /\ c.isActive
    /\ activeConnections' = Released(c.service, c.backend)
    /\ IF c.backend \in healthy[c.service]
         THEN /\ connections' = [connections EXCEPT ![id].isActive = FALSE]
              /\ idleConnections' = [idleConnections EXCEPT ![c.service] = Append(@, id)]
              /\ UNCHANGED <<nextConnectionId, totalConnections, expired>>
         ELSE RemoveConnections({id})
    /\ UNCHANGED <<services, backends, healthy, failureCount, breaker, cooled, lifeVars,
                   trials, forgotten>>

Close(id) ==
    LET c == connections[id] IN
    /\ id \in Ids
    /\ RemoveConnections({id})
    /\ activeConnections' = IF c.isActive THEN Released(c.service, c.backend)
                                          ELSE activeConnections
    /\ UNCHANGED <<services, backends, healthy, failureCount, breaker, cooled, lifeVars,
                   trials, forgotten>>

-----------------------------------------------------------------------------
(* Backends.  Weights and strategies decide which healthy backend a new    *)
(* connection gets, nothing else; here it is any of them.                  *)

AddBackendServer(s, b) ==
    /\ services' = services \cup {s}
    /\ backends' = [backends EXCEPT ![s] = @ \cup {b}]
    /\ healthy' = [healthy EXCEPT ![s] = @ \cup {b}]
    /\ UNCHANGED <<failureCount, activeConnections, breaker, poolVars, cooled, lifeVars,
                   trials, forgotten>>

\* Mutant: idle connections to the backend stay.
RemoveBackendOnly(s, b) ==
    /\ b \in backends[s]
    /\ backends' = [backends EXCEPT ![s] = @ \ {b}]
    /\ healthy' = [healthy EXCEPT ![s] = @ \ {b}]
    /\ failureCount' = [failureCount EXCEPT ![s][b] = 0]
    /\ activeConnections' = [activeConnections EXCEPT ![s][b] = 0]
    /\ UNCHANGED <<services, breaker, poolVars, cooled, lifeVars, trials, forgotten>>

\* The record of the backend goes, its counters with it, and so do the idle
\* connections to it; the active ones stay.
RemoveBackendServer(s, b) ==
    /\ b \in backends[s]
    /\ backends' = [backends EXCEPT ![s] = @ \ {b}]
    /\ healthy' = [healthy EXCEPT ![s] = @ \ {b}]
    /\ failureCount' = [failureCount EXCEPT ![s][b] = 0]
    /\ activeConnections' = [activeConnections EXCEPT ![s][b] = 0]
    /\ RemoveConnections(IdleTo(s, b))
    /\ forgotten' = IF ConnectionsTo(s, b) = IdleTo(s, b)
                      THEN forgotten ELSE forgotten \cup {<<s, b>>}
    /\ UNCHANGED <<services, breaker, cooled, lifeVars, trials>>

\* setLoadBalancingStrategy: the service comes into being.
SetLoadBalancingStrategy(s) ==
    /\ services' = services \cup {s}
    /\ UNCHANGED <<backendVars, breaker, poolVars, cooled, lifeVars, trials, forgotten>>

\* reportBackendStatus: applyBackendStatus in one service or in all of them; a
\* backend that turns unhealthy loses its idle connections.
ReportSuccess(S, b) ==
    /\ healthy' = [s \in Service |-> IF s \in S /\ b \in backends[s]
                                       THEN healthy[s] \cup {b} ELSE healthy[s]]
    /\ failureCount' = [s \in Service |-> IF s \in S /\ b \in backends[s]
                                            THEN [failureCount[s] EXCEPT ![b] = 0]
                                            ELSE failureCount[s]]
    /\ UNCHANGED <<services, backends, activeConnections, breaker, poolVars, cooled, lifeVars,
                   trials, forgotten>>

ReportFailure(S, b) ==
    LET hit == {s \in S : b \in backends[s]}
        count(s) == Saturated(failureCount[s][b] + 1, FailureThreshold)
        failed == {s \in hit : b \in healthy[s] /\ count(s) >= FailureThreshold}
    IN  /\ failureCount' = [s \in Service |-> IF s \in hit
                                THEN [failureCount[s] EXCEPT ![b] = count(s)]
                                ELSE failureCount[s]]
        /\ healthy' = [s \in Service |-> IF s \in failed THEN healthy[s] \ {b} ELSE healthy[s]]
        /\ RemoveConnections(UNION {IdleTo(s, b) : s \in failed})
        /\ cooled' = cooled \ {<<s, b>> : s \in hit}
        /\ UNCHANGED <<services, backends, activeConnections, breaker, lifeVars, trials,
                       forgotten>>

-----------------------------------------------------------------------------
(* reportExecution: applyExecutionResult, for one service or for all.      *)

\* Mutant: any success closes a breaker that is not closed.
AfterSuccessCloses(c) ==
    IF c.state # "Closed" THEN ClosedBreaker
    ELSE [c EXCEPT !.successCount = Saturated(c.successCount + 1, HalfOpenAttempts),
                   !.failureCount = 0]

AfterSuccess(c) ==
    LET n == Saturated(c.successCount + 1, HalfOpenAttempts) IN
    CASE c.state = "HalfOpen" /\ n >= HalfOpenAttempts -> ClosedBreaker
      [] c.state = "Closed" -> [ClosedBreaker EXCEPT !.successCount = n]
      [] OTHER -> [c EXCEPT !.successCount = n]

AfterFailure(c) ==
    LET n == Saturated(c.failureCount + 1, FailureThreshold) IN
    IF c.state = "HalfOpen" \/ n >= FailureThreshold
      THEN [state |-> "Open", failureCount |-> n, successCount |-> 0]
      ELSE [c EXCEPT !.failureCount = n]

ReportExecution(S, success) ==
    /\ CircuitBreakerEnabled
    /\ breaker' = [s \in Service |-> IF s \notin S THEN breaker[s]
                                     ELSE IF success THEN AfterSuccess(breaker[s])
                                     ELSE AfterFailure(breaker[s])]
    /\ trials' = [s \in Service |-> IF s \in S /\ success /\ breaker[s].state = "HalfOpen"
                                      THEN Saturated(trials[s] + 1, HalfOpenAttempts)
                                      ELSE trials[s]]
    /\ cooled' = IF success THEN cooled ELSE cooled \ {<<s>> : s \in S}
    /\ UNCHANGED <<services, backendVars, poolVars, lifeVars, forgotten>>

-----------------------------------------------------------------------------
(* One round of maintenanceLoop: cleanupExpiredConnectionsLocked, then     *)
(* performHealthCheckLocked.                                               *)

Outlived == {id \in expired \cap Ids : ~connections[id].isActive}
Recovering(s) == s \in services /\ breaker[s].state = "Open" /\ Recovered(<<s>>)
Well(s) == {b \in backends[s] \ healthy[s] : Recovered(<<s, b>>)}

\* Mutant: a round that only removes connections.
MaintainConnections ==
    /\ thread = "on" /\ running
    /\ RemoveConnections(Outlived)
    /\ UNCHANGED <<services, backendVars, breaker, cooled, lifeVars, trials, forgotten>>

Maintain ==
    /\ thread = "on" /\ running
    /\ connections' = Kept(Outlived)
    /\ totalConnections' = KeptTotal(Outlived)
    /\ expired' = expired \ Outlived
    /\ idleConnections' = [s \in Service |->
           Erase(idleConnections[s], {id \in Popped(s, Len(idleConnections[s])) :
                     id \notin Ids \ Outlived \/ connections[id].isActive})]
    /\ breaker' = [s \in Service |-> IF Recovering(s) THEN HalfOpened(breaker[s]) ELSE breaker[s]]
    /\ trials' = [s \in Service |-> IF Recovering(s) THEN 0 ELSE trials[s]]
    /\ healthy' = [s \in Service |-> healthy[s] \cup Well(s)]
    /\ failureCount' = [s \in Service |-> [b \in Backend |->
                            IF b \in Well(s) THEN 0 ELSE failureCount[s][b]]]
    /\ UNCHANGED <<services, backends, activeConnections, nextConnectionId, cooled,
                   lifeVars, forgotten>>

-----------------------------------------------------------------------------
(* initialize() and cleanup(), called by one owner.  cleanup() clears the  *)
(* flag without the mutex, joins the thread and then empties the maps;     *)
(* clients go on calling in between.                                       *)

Initialize ==
    /\ ~running /\ thread = "off"
    /\ running' = TRUE /\ thread' = "on"
    /\ UNCHANGED <<services, backendVars, breaker, poolVars, cooled, trials, forgotten>>

CleanupStops ==
    /\ running
    /\ running' = FALSE
    /\ UNCHANGED <<services, backendVars, breaker, poolVars, cooled, thread, trials, forgotten>>

ThreadExits ==
    /\ thread = "on" /\ ~running
    /\ thread' = "exited"
    /\ UNCHANGED <<services, backendVars, breaker, poolVars, cooled, running, trials, forgotten>>

CleanupClears ==
    /\ ~running /\ thread \in {"off", "exited"}
    /\ services' = {}
    /\ backends' = [s \in Service |-> {}] /\ healthy' = [s \in Service |-> {}]
    /\ failureCount' = PerBackend(0) /\ activeConnections' = PerBackend(0)
    /\ breaker' = [s \in Service |-> ClosedBreaker]
    /\ connections' = <<>>
    /\ idleConnections' = [s \in Service |-> <<>>]
    /\ totalConnections' = [s \in Service |-> 0]
    /\ expired' = {} /\ cooled' = {}
    /\ thread' = "off"
    /\ trials' = [s \in Service |-> 0] /\ forgotten' = {}
    /\ UNCHANGED <<nextConnectionId, running>>

-----------------------------------------------------------------------------
(* Time.  The deque is in the order of the releases, so that its front     *)
(* expires first.                                                          *)

IdleTimeoutPasses(s, k) ==
    /\ IdleTimeout > 0
    /\ idleConnections[s][k] \notin expired
    /\ \A i \in 1..k-1 : idleConnections[s][i] \in expired
    /\ expired' = expired \cup {idleConnections[s][k]}
    /\ UNCHANGED <<services, backendVars, breaker, connections, nextConnectionId,
                   idleConnections, totalConnections, cooled, lifeVars, trials, forgotten>>

RecoveryTimeoutPasses(x) ==
    /\ RecoveryTimeout > 0 /\ x \notin cooled
    /\ cooled' = cooled \cup {x}
    /\ UNCHANGED <<services, backendVars, breaker, poolVars, lifeVars, trials, forgotten>>

\* What waits for its recovery: open breakers and unhealthy backends.
Cooling == {<<s>> : s \in {t \in Service : breaker[t].state = "Open"}}
           \cup UNION {{<<s, b>> : b \in backends[s] \ healthy[s]} : s \in Service}

-----------------------------------------------------------------------------
Client ==
    \/ \E s \in Service : Acquire(s) \/ SetLoadBalancingStrategy(s)
    \/ \E id \in Ids : Release(id) \/ Close(id)
    \/ \E s \in Service, b \in Backend : AddBackendServer(s, b) \/ RemoveBackendServer(s, b)
    \/ \E s \in services, b \in Backend : ReportSuccess({s}, b) \/ ReportFailure({s}, b)
    \/ \E b \in Backend : ReportSuccess(services, b) \/ ReportFailure(services, b)
    \/ \E success \in BOOLEAN :
         \/ ReportExecution(services, success)
         \/ \E s \in services : ReportExecution({s}, success)

Time ==
    \/ \E s \in Service : \E k \in 1..Len(idleConnections[s]) : IdleTimeoutPasses(s, k)
    \/ \E x \in Cooling : RecoveryTimeoutPasses(x)

Next ==
    \/ Client \/ Maintain \/ Time
    \/ Initialize \/ CleanupStops \/ ThreadExits \/ CleanupClears

Spec == Init /\ [][Next]_vars

\* The maintenance thread's wait has a deadline and takes the mutex, which
\* every operation gives back.  Nobody has to call anything, nor time to pass.
FairSpec == Spec /\ WF_vars(Maintain)

-----------------------------------------------------------------------------
(* Properties.                                                             *)

Connection == [service : Service, backend : Backend, isActive : BOOLEAN]
Breaker == [state : {"Closed", "Open", "HalfOpen"},
            failureCount : 0..FailureThreshold, successCount : 0..HalfOpenAttempts]

\* An idle connection leads to a registered, healthy backend at all times, not
\* just when it is handed out: whatever makes a backend unhealthy or removes
\* it sweeps its idle connections, and releaseConnection keeps none such.
\* (testUnhealthyBackendDoesNotReuseIdleConnection and
\* testRemovedBackendDoesNotReturnReleasedConnectionToIdlePool.)
IdleUsable ==
    \A id \in Ids : ~connections[id].isActive =>
        connections[id].backend \in healthy[connections[id].service]

\* The deque of a service holds its idle connections, each once: releasing,
\* reusing, closing and expiring never strand an idle connection outside the
\* deque, where it would fill the pool and never be reused.
IdleQueueExact ==
    \A s \in Service :
        /\ {id \in ConnectionsOf(s) : ~connections[id].isActive}
              = {idleConnections[s][k] : k \in 1..Len(idleConnections[s])}
        /\ \A i, j \in 1..Len(idleConnections[s]) :
              idleConnections[s][i] = idleConnections[s][j] => i = j

\* totalConnections, which acquireConnection compares with the pool's limit, is
\* the number of connections of the service, so that the limit is kept.
PoolBounded ==
    \A s \in Service :
        /\ totalConnections[s] = Cardinality(ConnectionsOf(s))
        /\ totalConnections[s] <= MaxPoolSize

\* Ids are fresh, and the pool's counter is exact and bounded.
PoolOK ==
    /\ IsFiniteSet(Ids) /\ connections \in [Ids -> Connection]
    /\ nextConnectionId \in Nat /\ \A id \in Ids : id \in Nat /\ id < nextConnectionId
    /\ totalConnections \in [Service -> Nat]
    /\ PoolBounded

\* The successes a half-open breaker has counted are those reported since it
\* became half-open, too few to close it.
BreakerOK ==
    /\ breaker \in [Service -> Breaker] /\ trials \in [Service -> 0..HalfOpenAttempts]
    /\ \A s \in Service : breaker[s].state = "HalfOpen" =>
          breaker[s].successCount = trials[s] /\ trials[s] < HalfOpenAttempts

\* The inductive invariant: what the last two properties and BreakerProtocol
\* rest on, in any order of the operations.
Inv ==
    /\ backends \in [Service -> SUBSET Backend] /\ healthy \in [Service -> SUBSET Backend]
    /\ PoolOK /\ IdleUsable /\ BreakerOK

ActiveTo(s, b) == ConnectionsTo(s, b) \ IdleTo(s, b)

\* A backend's activeConnections, which balances the load and limits a
\* half-open breaker, never exceeds the connections in use on it, and equals
\* it unless the backend was once removed with connections in use.
ActiveCountExact ==
    \A s \in Service : \A b \in backends[s] :
        /\ activeConnections[s][b] <= Cardinality(ActiveTo(s, b))
        /\ <<s, b>> \notin forgotten => activeConnections[s][b] = Cardinality(ActiveTo(s, b))

\* The deque of idle connections and the count of those in use agree with the
\* connections there are, after any sequence of acquire, release, close, expiry and
\* removal.
BooksExact == IdleQueueExact /\ ActiveCountExact

\* A breaker closes only from half-open, on the HalfOpenAttempts-th success
\* reported since it became half-open, and becomes half-open only from open,
\* whoever of acquireConnection and the maintenance thread makes it so.  Only
\* cleanup(), which forgets the service, is excepted.
BreakerProtocol ==
    [][\A s \in Service : s \in services' /\ breaker'[s].state # breaker[s].state =>
          \/ breaker'[s].state = "Open"
          \/ breaker[s].state = "Open" /\ breaker'[s].state = "HalfOpen"
          \/ /\ breaker[s].state = "HalfOpen" /\ breaker'[s].state = "Closed"
             /\ trials'[s] = HalfOpenAttempts]_vars

\* The connections in use on registered backends, those aside that were once
\* removed with connections in use.
InUse(s) == UNION {ActiveTo(s, b) : b \in {c \in backends[s] : <<s, c>> \notin forgotten}}

\* A connection handed out while the breaker is half-open leaves at most
\* HalfOpenAttempts in use, idle ones that are reused counted too.
HalfOpenBounded ==
    [][\A s \in Service :
          breaker'[s].state = "HalfOpen" /\ ~(InUse(s)' \subseteq InUse(s))
             => Cardinality(InUse(s)') <= HalfOpenAttempts]_vars

\* While the maintenance thread runs, a connection that has outlived the idle
\* timeout is removed or taken into use, also when nobody calls the service.
IdleReclaimed ==
    \A id \in 1..MaxConnectionId : (running /\ id \in expired) ~> (~running \/ id \notin expired)

\* A breaker that has been open for the recovery timeout does not stay open:
\* unless a further failure is reported it becomes half-open without a caller.
BreakerRecovers ==
    \A s \in Service : (running /\ breaker[s].state = "Open" /\ <<s>> \in cooled)
        ~> (~running \/ breaker[s].state # "Open" \/ <<s>> \notin cooled)

\* The maintenance thread alone gets connections and breakers out of these states.
Recovers == IdleReclaimed /\ BreakerRecovers
=============================================================================
