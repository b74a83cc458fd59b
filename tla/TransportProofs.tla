-------------------------- MODULE TransportProofs ---------------------------
(* Proofs, for any callers, connections, limits and number of restarts, of *)
(* TcpConnectionPool's safety; and, for any application threads, calls and *)
(* datagrams, of what stopReceive() of a UdpSocket promises.               *)
EXTENDS TcpConnectionPool, QueueFacts

\* The counters and the locals of release() and ensureMinimumConnections.
Numbers ==
  /\ currentConnections \in 0..Mod32-1 /\ idleConnectionsCount \in 0..Mod32-1
  /\ inUseConnectionsCount \in 0..Mod32-1 /\ creatingConnections \in 0..Mod64-1
  /\ reusable \in [Caller -> BOOLEAN] /\ wasInUse \in [Caller -> BOOLEAN]
  /\ seen \in 0..Mod32-1

Closing == {"close", "zero current", "zero in use", "zero creating"}

\* The owner starts the maintenance thread when there is none, and empties the
\* pool when the thread has ended; closing is filled in between only.
Phases ==
  /\ pc[Owner] \in {"create", "push"} => initialized /\ ~shutdown /\ pc[Maintenance] = "off"
  /\ pc[Owner] = "out" /\ ~initialized => pc[Maintenance] = "off"
  /\ pc[Owner] \in Closing => shutdown /\ pc[Maintenance] \in {"off", "exited"}
  /\ pc[Owner] = "join" => shutdown
  /\ closing = {} \/ pc[Owner] = "close"
  /\ pc[Owner] = "push" => made < MinConnections

Without == {"out", "pending", "check", "try", "create", "wait"}
With == {"created", "holds", "release", "close"}

\* Where a thread is tells whether it has a connection, but in "released".
Carried ==
  /\ \A a \in Caller : /\ pc[a] \in Without => conn[a] = NoConn
                       /\ pc[a] \in With => conn[a] # NoConn
  /\ conn[Maintenance] # NoConn <=> pc[Maintenance] \in {"created", "push"}
  /\ conn[Owner] # NoConn <=> pc[Owner] = "push"

\* No two threads have the same connection, and none has an idle one; what has
\* not been created is nowhere; what a thread has is listed, or has been closed by
\* shutdown(), or is about to be.
Placed ==
  /\ \A t, u \in Thread : conn[t] = conn[u] /\ conn[t] # NoConn => t = u
  /\ NoRepeats(idleConnections) /\ \A t \in Thread : conn[t] \notin Entries(idleConnections)
  /\ \A c \in Conn : state[c] = "None" =>
        c \notin connections \cup Entries(idleConnections) /\ \A t \in Thread : conn[t] # c
  /\ \A t \in Thread : conn[t] # NoConn =>
        conn[t] \in connections \cup closing \/ fitness[conn[t]] = "gone"
  /\ NoRepeats(pendingAcquires)

\* The inductive invariant.
PoolInv == TypeOK /\ Phases /\ Carried /\ Placed /\ NoneLost /\ NobodyLeftPending

-----------------------------------------------------------------------------
\* What the invariant says of the places, in the words the steps use.
LEMMA Places ==
  ASSUME PoolInv
  PROVE  /\ \A t, u \in Thread : conn[t] = conn[u] /\ conn[t] # NoConn => t = u
         /\ NoRepeats(idleConnections) /\ \A t \in Thread : conn[t] \notin Entries(idleConnections)
         /\ \A c \in Conn : state[c] = "None" =>
               c \notin connections \cup Entries(idleConnections) /\ \A t \in Thread : conn[t] # c
         /\ \A t \in Thread : conn[t] # NoConn =>
               conn[t] \in connections \cup closing \/ fitness[conn[t]] = "gone"
         /\ NoRepeats(pendingAcquires)
BY Zenon DEF PoolInv, Placed

\* The invariant has OnePlace in it.
LEMMA InvOnePlace == PoolInv => OnePlace
<1> SUFFICES ASSUME PoolInv PROVE HandedOutOnce
  BY DEF PoolInv, OnePlace
<1>1. \A c \in Conn : \A s, t \in Carriers(c) : s = t
  BY PoolLimits DEF PoolInv, Placed, Carriers
<1>2. \A c \in Entries(idleConnections) : Carriers(c) = {}
  BY DEF PoolInv, Placed, Carriers
<1>3. \A i, j \in 1..Len(idleConnections) : idleConnections[i] = idleConnections[j] => i = j
  BY DEF PoolInv, Placed, NoRepeats
<1> QED BY <1>1, <1>2, <1>3 DEF HandedOutOnce

\* Counting modulo the width.
LEMMA Widths == Mod32 \in Nat /\ Mod32 > 0 /\ Mod64 \in Nat /\ Mod64 > 0
BY PoolLimits

\* Additions modulo the widths stay within them.
LEMMA Wraps == \A x \in Int : x % Mod32 \in 0..Mod32-1 /\ x % Mod64 \in 0..Mod64-1
BY Widths

\* The counters are integers.
LEMMA Integral ==
  ASSUME PoolInv
  PROVE  /\ currentConnections \in Int /\ idleConnectionsCount \in Int
         /\ inUseConnectionsCount \in Int /\ creatingConnections \in Int
<1>1. /\ currentConnections \in 0..Mod32-1 /\ idleConnectionsCount \in 0..Mod32-1
      /\ inUseConnectionsCount \in 0..Mod32-1 /\ creatingConnections \in 0..Mod64-1
  BY Zenon DEF PoolInv, TypeOK
<1> QED BY <1>1, Widths

\* Steps that move no connection.
LEMMA SamePlaces ==
  ASSUME PoolInv, UNCHANGED <<connections, idleConnections, conn, closing, pendingAcquires>>,
         \A c \in Conn : /\ state'[c] = "None" => state[c] = "None"
                         /\ fitness[c] = "gone" => fitness'[c] = "gone"
  PROVE  Placed' /\ NoneLost'
<1>1. Placed'
  BY ZenonT(30) DEF PoolInv, Placed, TypeOK
<1>2. NoneLost'
  <2>1. Entries(idleConnections) \subseteq Conn
    BY Zenon, EntriesIn DEF PoolInv, TypeOK
  <2>2. \A c \in Entries(idleConnections) : c \in connections' \/ fitness'[c] = "gone"
    BY <2>1 DEF PoolInv, NoneLost
  <2>3. \A c : Carriers(c)' = Carriers(c)
    BY DEF Carriers
  <2>4. \A c \in connections : c \in Entries(idleConnections) \/ Carriers(c)' # {}
    BY <2>3 DEF PoolInv, NoneLost
  <2> QED BY <2>2, <2>4 DEF NoneLost
<1> QED BY <1>1, <1>2

StateType == [Conn -> {"None", "Idle", "InUse", "Closed"}]
FitnessType == [Conn -> {"fit", "expired", "gone"}]

\* A step of a caller, given that it puts connections where they may be.
LEMMA CallerStep ==
  ASSUME PoolInv, NEW a \in Caller, pc[a] # "pending",
         NEW label \in (Without \cup With \cup {"released"}) \ {"pending"}, Goto(a, label),
         NEW x \in Conn \cup {NoConn}, conn' = [conn EXCEPT ![a] = x],
         label \in Without => x = NoConn, label \in With => x # NoConn,
         UNCHANGED <<pendingAcquires, flagVars, made, closing>>, Numbers',
         connections' \subseteq Conn, idleConnections' \in Seq(Conn),
         state' \in StateType, fitness' \in FitnessType, Placed', NoneLost'
  PROVE  PoolInv'
<1> USE PoolLimits DEF Goto, Thread
<1>1. TypeOK'
  BY ZenonT(30) DEF PoolInv, TypeOK, Numbers, flagVars, Without, With, StateType, FitnessType
<1>2. Phases' /\ NobodyLeftPending'
  BY Zenon DEF PoolInv, TypeOK, Phases, NobodyLeftPending, flagVars
<1>3. Carried'
  BY Zenon DEF PoolInv, TypeOK, Carried, With, Without
<1> QED BY <1>1, <1>2, <1>3 DEF PoolInv

\* One that moves no connection.
LEMMA CallerMoves ==
  ASSUME PoolInv, NEW a \in Caller, pc[a] # "pending",
         NEW label \in (Without \cup With \cup {"released"}) \ {"pending"}, Goto(a, label),
         label \in Without => conn[a] = NoConn, label \in With => conn[a] # NoConn,
         UNCHANGED <<poolVars, conn, flagVars, made, closing>>, Numbers',
         state' \in StateType, fitness' \in FitnessType,
         \A c \in Conn : /\ state'[c] = "None" => state[c] = "None"
                         /\ fitness[c] = "gone" => fitness'[c] = "gone"
  PROVE  PoolInv'
<1>1. PICK x : x = conn[a]
  OBVIOUS
<1>2. x \in Conn \cup {NoConn} /\ conn' = [conn EXCEPT ![a] = x]
  BY Zenon, <1>1 DEF PoolInv, TypeOK, Thread
<1>3. connections' \subseteq Conn /\ idleConnections' \in Seq(Conn)
  BY Zenon DEF PoolInv, TypeOK, poolVars
<1>4. Placed' /\ NoneLost'
  BY SamePlaces DEF poolVars
<1> QED BY Zenon, <1>1, <1>2, <1>3, <1>4, CallerStep DEF poolVars

MaintenanceLabel == {"sleep", "cleanup", "ensure", "compare", "count", "create", "created", "push",
                     "exited"}

\* A step of the maintenance thread, given that it puts connections where they may
\* be.
LEMMA MaintenanceStep ==
  ASSUME PoolInv, pc[Maintenance] \notin {"off", "exited"},
         NEW label \in MaintenanceLabel, Goto(Maintenance, label),
         NEW x \in Conn \cup {NoConn}, conn' = [conn EXCEPT ![Maintenance] = x],
         label \in {"created", "push"} <=> x # NoConn,
         UNCHANGED <<pendingAcquires, flagVars, made, closing>>, Numbers',
         connections' \subseteq Conn, idleConnections' \in Seq(Conn),
         state' \in StateType, fitness' \in FitnessType, Placed', NoneLost'
  PROVE  PoolInv'
<1> USE PoolLimits DEF Goto, Thread
<1>1. TypeOK'
  BY Zenon DEF PoolInv, TypeOK, Numbers, flagVars, MaintenanceLabel, StateType, FitnessType
<1>2. Phases' /\ NobodyLeftPending'
  BY Zenon DEF PoolInv, TypeOK, Phases, NobodyLeftPending, flagVars, Closing
<1>3. Carried'
  BY Zenon DEF PoolInv, TypeOK, Carried
<1> QED BY <1>1, <1>2, <1>3 DEF PoolInv

\* One that moves no connection.
LEMMA MaintenanceMoves ==
  ASSUME PoolInv, pc[Maintenance] \notin {"off", "exited"},
         NEW label \in MaintenanceLabel, Goto(Maintenance, label),
         label \in {"created", "push"} <=> conn[Maintenance] # NoConn,
         UNCHANGED <<poolVars, connVars, flagVars, conn, made, closing>>, Numbers'
  PROVE  PoolInv'
<1>1. PICK x : x = conn[Maintenance]
  OBVIOUS
<1>2. x \in Conn \cup {NoConn} /\ conn' = [conn EXCEPT ![Maintenance] = x]
  BY Zenon, <1>1 DEF PoolInv, TypeOK, Thread
<1>3. /\ connections' \subseteq Conn /\ idleConnections' \in Seq(Conn)
      /\ state' \in StateType /\ fitness' \in FitnessType
  BY Zenon DEF PoolInv, TypeOK, poolVars, connVars, StateType, FitnessType
<1>4. Placed' /\ NoneLost'
  BY SamePlaces DEF poolVars, connVars
<1> QED BY Zenon, <1>1, <1>2, <1>3, <1>4, MaintenanceStep DEF poolVars

\* What the first entries of the deque are.
LEMMA LeadingFacts ==
  ASSUME PoolInv, NEW k \in 0..Len(idleConnections)
  PROVE  /\ Leading(k) \subseteq Entries(idleConnections)
         /\ k > 0 => /\ k - 1 \in 0..Len(idleConnections) /\ idleConnections[k] \in Leading(k)
                     /\ Leading(k - 1) = Leading(k) \ {idleConnections[k]}
<1>1. idleConnections \in Seq(Conn) /\ NoRepeats(idleConnections) /\ Len(idleConnections) \in Nat
  BY Zenon, SeqType DEF PoolInv, TypeOK, Placed
<1>3. Leading(k) \subseteq Entries(idleConnections)
  BY <1>1 DEF Leading, Entries
<1>4. ASSUME k > 0
      PROVE  /\ k - 1 \in 0..Len(idleConnections) /\ idleConnections[k] \in Leading(k)
             /\ Leading(k - 1) = Leading(k) \ {idleConnections[k]}
  <2>1. \A i : i \in 1..k <=> i \in 1..k-1 \/ i = k
    BY <1>1, <1>4
  <2>2. \A i \in 1..k-1 : idleConnections[i] # idleConnections[k]
    BY <1>1, <1>4 DEF NoRepeats
  <2>3. \A c : c \in Leading(k - 1) <=> c \in Leading(k) /\ c # idleConnections[k]
    BY <2>1, <2>2 DEF Leading
  <2>4. Leading(k - 1) = Leading(k) \ {idleConnections[k]}
    BY <2>3
  <2>5. idleConnections[k] \in Leading(k)
    BY <2>1 DEF Leading
  <2>6. k - 1 \in 0..Len(idleConnections)
    BY <1>1, <1>4
  <2> QED BY <2>4, <2>5, <2>6
<1> QED BY <1>3, <1>4

\* Popping entries.
LEMMA DiscardFacts ==
  ASSUME PoolInv, NEW k \in 0..Len(idleConnections), NEW n \in 0..Len(idleConnections),
         Discard(k, n)
  PROVE  /\ idleConnections' \in Seq(Conn) /\ NoRepeats(idleConnections')
         /\ Len(idleConnections') = Len(idleConnections) - k
         /\ Entries(idleConnections') = Entries(idleConnections) \ Leading(k)
         /\ idleConnectionsCount' \in 0..Mod32-1 /\ currentConnections' \in 0..Mod32-1
         /\ connections' \subseteq Conn
<1>1. idleConnections \in Seq(Conn) /\ NoRepeats(idleConnections) /\ Len(idleConnections) \in Nat
  BY Zenon, SeqType DEF PoolInv, TypeOK, Placed
<1>2. /\ idleConnections' \in Seq(Conn) /\ NoRepeats(idleConnections')
      /\ Len(idleConnections') = Len(idleConnections) - k
      /\ Entries(idleConnections') = Entries(idleConnections) \ Leading(k)
  BY Zenon, <1>1, RestEntries DEF Discard, Rest, Leading
<1>3. idleConnectionsCount' \in 0..Mod32-1 /\ currentConnections' \in 0..Mod32-1
  <2>3. idleConnectionsCount - k \in Int /\ currentConnections - n \in Int
    BY Integral
  <2> QED BY <2>3, Wraps DEF Discard, Sub32
<1>4. connections' \subseteq Conn
  BY Zenon DEF Discard, PoolInv, TypeOK
<1> QED BY <1>2, <1>3, <1>4

\* An idle connection goes to a caller.
LEMMA TakeIdleInv ==
  ASSUME PoolInv, NEW a \in Caller, pc[a] \in {"out", "try"},
         NEW k \in 1..Len(idleConnections), TakeIdle(a, k),
         UNCHANGED <<pendingAcquires, creatingConnections, flagVars, localVars>>
  PROVE  PoolInv'
<1> USE PoolLimits
<1> DEFINE E == Entries(idleConnections)
           L == Leading(k - 1)
           c0 == idleConnections[k]
<1>1. idleConnections \in Seq(Conn) /\ Len(idleConnections) \in Nat /\ k \in 0..Len(idleConnections)
      /\ k > 0 /\ k - 1 \in 0..Len(idleConnections)
  <2>1. idleConnections \in Seq(Conn)
    BY Zenon DEF PoolInv, TypeOK
  <2>2. Len(idleConnections) \in Nat
    BY <2>1, SeqType
  <2> QED BY <2>1, <2>2
<1>2. E \subseteq Conn /\ c0 \in E /\ L \subseteq E /\ c0 \notin L /\ Leading(k) = L \cup {c0}
  BY <1>1, EntriesIn, LeadingFacts
<1>3. /\ idleConnections' \in Seq(Conn) /\ NoRepeats(idleConnections')
      /\ Entries(idleConnections') = E \ (L \cup {c0})
      /\ idleConnectionsCount' \in 0..Mod32-1 /\ currentConnections' \in 0..Mod32-1
      /\ connections' \subseteq Conn
  BY Zenon, <1>1, <1>2, DiscardFacts DEF TakeIdle
<1>4. connections' = connections \ L
  BY DEF TakeIdle, Discard
<1>5. /\ state' = [c \in Conn |-> IF c = c0 THEN "InUse" ELSE IF c \in L THEN "Closed" ELSE state[c]]
      /\ fitness' = [c \in Conn |-> IF c \in L THEN "gone" ELSE fitness[c]]
      /\ conn' = [conn EXCEPT ![a] = c0] /\ pc' = [pc EXCEPT ![a] = "holds"]
      /\ inUseConnectionsCount' = (inUseConnectionsCount + 1) % Mod32
  BY DEF TakeIdle, Goto
<1>6. conn[a] = NoConn /\ pc[a] # "pending" /\ fitness[c0] = "fit"
  BY DEF PoolInv, Carried, Without, TakeIdle, FirstFit, CanReuse
<1> HIDE DEF E, L, c0
<1>7. Numbers' /\ state' \in StateType /\ fitness' \in FitnessType
  <2>1. inUseConnectionsCount' \in 0..Mod32-1
    <3>1. inUseConnectionsCount + 1 \in Int
      BY Integral
    <3> QED BY Zenon, <1>5, <3>1, Wraps
  <2>2. state' \in StateType /\ fitness' \in FitnessType
    BY Zenon, <1>5 DEF PoolInv, TypeOK, StateType, FitnessType
  <2> QED BY Zenon, <1>3, <2>1, <2>2 DEF PoolInv, TypeOK, Numbers, localVars
<1>10. Placed'
  <2>1. \A t \in Thread : conn'[t] = IF t = a THEN c0 ELSE conn[t]
    BY Zenon, <1>5 DEF PoolInv, TypeOK
  <2>2. \A t \in Thread : conn[t] \notin E
    BY DEF PoolInv, Placed, E
  <2>3. \A t, u \in Thread : conn'[t] = conn'[u] /\ conn'[t] # NoConn => t = u
    <3>1. \A t, u \in Thread : conn[t] = conn[u] /\ conn[t] # NoConn => t = u
      BY Zenon, Places
    <3> QED BY <1>2, <2>1, <2>2, <3>1
  <2>4. \A t \in Thread : conn'[t] \notin Entries(idleConnections')
    BY Zenon, <1>3, <2>1, <2>2
  <2>5. \A c \in Conn : state'[c] = "None" =>
           c \notin connections' \cup Entries(idleConnections') /\ \A t \in Thread : conn'[t] # c
    <3>1. \A c \in Conn : state[c] = "None" =>
             c \notin connections \cup E /\ \A t \in Thread : conn[t] # c
      BY Zenon, Places DEF E
    <3> SUFFICES ASSUME NEW c \in Conn, state'[c] = "None"
                 PROVE  /\ c \notin connections' \cup Entries(idleConnections')
                        /\ \A t \in Thread : conn'[t] # c
      OBVIOUS
    <3>2. state[c] = "None" /\ c # c0
      <4>1. state'[c] = IF c = c0 THEN "InUse" ELSE IF c \in L THEN "Closed" ELSE state[c]
        BY Zenon, <1>5
      <4>2. "InUse" # "None" /\ "Closed" # "None"
        OBVIOUS
      <4> QED BY Zenon, <4>1, <4>2
    <3> QED BY Zenon, <1>3, <1>4, <2>1, <3>1, <3>2
  <2>6. c0 \in connections /\ c0 \notin L
    BY <1>2, <1>6 DEF PoolInv, NoneLost, E
  <2>7. \A t \in Thread : conn[t] # NoConn => conn[t] \in Conn
    BY Zenon DEF PoolInv, TypeOK
  <2>8. \A t \in Thread : conn'[t] # NoConn =>
           conn'[t] \in connections' \cup closing' \/ fitness'[conn'[t]] = "gone"
    <3>1. \A t \in Thread : conn[t] # NoConn =>
             conn[t] \in connections \cup closing \/ fitness[conn[t]] = "gone"
      BY Zenon, Places
    <3>2. closing' = closing
      BY DEF localVars
    <3>3. \A c \in Conn : fitness'[c] = IF c \in L THEN "gone" ELSE fitness[c]
      BY Zenon, <1>5
    <3> SUFFICES ASSUME NEW t \in Thread, conn'[t] # NoConn
                 PROVE  conn'[t] \in connections' \cup closing' \/ fitness'[conn'[t]] = "gone"
      OBVIOUS
    <3>4. CASE t = a
      <4>1. conn'[t] = c0
        BY Zenon, <2>1, <3>4
      <4> QED BY Zenon, <1>4, <2>6, <4>1
    <3>5. CASE t # a
      <4>1. conn'[t] = conn[t] /\ conn[t] \in Conn
        BY Zenon, <2>1, <2>7, <3>5
      <4> QED BY Zenon, <1>4, <3>1, <3>2, <3>3, <4>1
    <3> QED BY Zenon, <3>4, <3>5
  <2> QED BY <1>3, <2>3, <2>4, <2>5, <2>8 DEF PoolInv, Placed
<1>11. NoneLost'
  <2>1. \A c \in Entries(idleConnections') : c \in connections' \/ fitness'[c] = "gone"
    BY <1>2, <1>3, <1>4, <1>5 DEF PoolInv, NoneLost, E
  <2>2. \A t \in Thread : conn'[t] = IF t = a THEN c0 ELSE conn[t]
    BY Zenon, <1>5 DEF PoolInv, TypeOK
  <2>3. \A c \in Conn : Carriers(c) # {} => Carriers(c)' # {}
    BY <1>6, <2>2 DEF Carriers
  <2>4. \A c \in Conn : c = c0 => Carriers(c)' # {}
    BY <2>2 DEF Carriers, Thread
  <2>5. \A c \in connections' : c \in Entries(idleConnections') \/ Carriers(c)' # {}
    BY Zenon, <1>3, <1>4, <2>3, <2>4 DEF PoolInv, NoneLost, TypeOK, E
  <2> QED BY <2>1, <2>5 DEF NoneLost
<1>12. PICK x : x = c0
  OBVIOUS
<1>13. x \in Conn /\ x # NoConn /\ conn' = [conn EXCEPT ![a] = x]
  BY <1>2, <1>5, <1>12
<1>14. Goto(a, "holds")
  BY <1>5 DEF Goto
<1>15. "holds" \in (Without \cup With \cup {"released"}) \ {"pending"} /\ "holds" \notin Without
  BY DEF Without, With
<1>16. UNCHANGED <<pendingAcquires, flagVars, made, closing>>
  BY DEF localVars
<1> QED BY Zenon, <1>3, <1>6, <1>7, <1>10, <1>11, <1>13, <1>14, <1>15, <1>16, CallerStep

\* The idle connections, none of them fit, are closed and forgotten.
LEMMA DiscardAllPlaces ==
  ASSUME PoolInv, DiscardAll, UNCHANGED <<conn, closing>>, NoRepeats(pendingAcquires')
  PROVE  /\ Placed' /\ NoneLost' /\ state' \in StateType /\ fitness' \in FitnessType
         /\ connections' \subseteq Conn /\ idleConnections' \in Seq(Conn)
         /\ idleConnectionsCount' \in 0..Mod32-1 /\ currentConnections' \in 0..Mod32-1
<1> DEFINE E == Entries(idleConnections)
<1>1. idleConnections \in Seq(Conn) /\ Len(idleConnections) \in Nat
      /\ Len(idleConnections) \in 0..Len(idleConnections)
  <2>1. idleConnections \in Seq(Conn)
    BY Zenon DEF PoolInv, TypeOK
  <2> QED BY <2>1, SeqType
<1>2. E = Leading(Len(idleConnections))
  BY DEF Leading, Entries
<1>3. /\ idleConnections' \in Seq(Conn) /\ NoRepeats(idleConnections')
      /\ Entries(idleConnections') = E \ E /\ connections' \subseteq Conn
      /\ idleConnectionsCount' \in 0..Mod32-1 /\ currentConnections' \in 0..Mod32-1
  BY <1>1, <1>2, DiscardFacts DEF DiscardAll
<1>4. /\ connections' = connections \ E
      /\ state' = [c \in Conn |-> IF c \in E THEN "Closed" ELSE state[c]]
      /\ fitness' = [c \in Conn |-> IF c \in E THEN "gone" ELSE fitness[c]]
  BY <1>2 DEF DiscardAll, Discard, CloseAll
<1>5. \A t \in Thread : conn[t] \notin E
  BY DEF PoolInv, Placed
<1>6. state' \in StateType /\ fitness' \in FitnessType
  BY Zenon, <1>4 DEF PoolInv, TypeOK, StateType, FitnessType
<1> HIDE DEF E
<1>7. Placed'
  <2>1. \A t \in Thread : conn[t] # NoConn => conn[t] \in Conn
    BY Zenon DEF PoolInv, TypeOK
  <2>2. \A t \in Thread : conn[t] # NoConn =>
           conn[t] \in connections' \cup closing \/ fitness'[conn[t]] = "gone"
    BY <1>4, <1>5, <2>1 DEF PoolInv, Placed
  <2>3. \A c \in Conn : state'[c] = "None" =>
           c \notin connections' \cup Entries(idleConnections') /\ \A t \in Thread : conn[t] # c
    BY <1>3, <1>4 DEF PoolInv, Placed
  <2> QED BY <1>3, <2>2, <2>3 DEF PoolInv, Placed
<1>8. NoneLost'
  <2>1. \A c : Carriers(c)' = Carriers(c)
    BY DEF Carriers
  <2>2. \A c \in connections' : Carriers(c)' # {}
    BY <1>4, <2>1 DEF PoolInv, NoneLost, E
  <2> QED BY <1>3, <2>2 DEF NoneLost
<1> QED BY <1>3, <1>6, <1>7, <1>8

\* Then the caller goes on without a connection.
LEMMA DiscardAllInv ==
  ASSUME PoolInv, DiscardAll, NEW a \in Caller, pc[a] \in {"out", "try"},
         NEW label \in Without \ {"pending"}, Goto(a, label), creatingConnections' \in 0..Mod64-1,
         UNCHANGED <<pendingAcquires, conn, inUseConnectionsCount, flagVars, localVars>>
  PROVE  PoolInv'
<1>1. conn[a] = NoConn /\ NoRepeats(pendingAcquires) /\ pc[a] # "pending"
  BY DEF PoolInv, Carried, Without, Placed
<1>2. conn' = [conn EXCEPT ![a] = NoConn]
  BY Zenon, <1>1 DEF PoolInv, TypeOK, Thread
<1>3. UNCHANGED <<closing, made>>
  BY DEF localVars
<1>4. /\ Placed' /\ NoneLost' /\ state' \in StateType /\ fitness' \in FitnessType
      /\ connections' \subseteq Conn /\ idleConnections' \in Seq(Conn)
      /\ idleConnectionsCount' \in 0..Mod32-1 /\ currentConnections' \in 0..Mod32-1
  BY <1>1, <1>3, DiscardAllPlaces
<1>5. Numbers'
  BY Zenon, <1>4 DEF PoolInv, TypeOK, Numbers, localVars
<1>6. label \in (Without \cup With \cup {"released"}) \ {"pending"} /\ label \notin With
  BY DEF Without, With
<1> QED BY Zenon, <1>1, <1>2, <1>3, <1>4, <1>5, <1>6, CallerStep

\* A thread that has no connection creates one.
LEMMA ConnectedPlaces ==
  ASSUME PoolInv, NEW t \in Thread, conn[t] = NoConn, NEW c \in Conn, Connected(t, c),
         UNCHANGED closing
  PROVE  /\ Placed' /\ NoneLost' /\ state' \in StateType /\ fitness' \in FitnessType
         /\ connections' \subseteq Conn /\ idleConnections' \in Seq(Conn)
         /\ currentConnections' \in 0..Mod32-1
<1> USE PoolLimits
<1>1. /\ state[c] = "None" /\ state' = [state EXCEPT ![c] = "Idle"]
      /\ connections' = connections \cup {c} /\ conn' = [conn EXCEPT ![t] = c]
      /\ UNCHANGED <<idleConnections, pendingAcquires, fitness>>
      /\ currentConnections' = (currentConnections + 1) % Mod32
  BY DEF Connected
<1>2. /\ state' \in StateType /\ fitness' \in FitnessType
      /\ connections' \subseteq Conn /\ idleConnections' \in Seq(Conn)
  BY Zenon, <1>1 DEF PoolInv, TypeOK, StateType, FitnessType
<1>3. currentConnections' \in 0..Mod32-1
  <2>1. currentConnections + 1 \in Int
    BY Integral
  <2> QED BY Zenon, <1>1, <2>1, Wraps
<1>4. /\ \A u \in Thread : conn'[u] = IF u = t THEN c ELSE conn[u]
      /\ \A d \in Conn : state'[d] = IF d = c THEN "Idle" ELSE state[d]
  BY Zenon, <1>1 DEF PoolInv, TypeOK
<1>5. c \notin Entries(idleConnections) /\ \A u \in Thread : conn[u] # c
  BY <1>1 DEF PoolInv, Placed
<1>6. Placed'
  <2>1. \A u, v \in Thread : conn'[u] = conn'[v] /\ conn'[u] # NoConn => u = v
    <3>1. \A u, v \in Thread : conn[u] = conn[v] /\ conn[u] # NoConn => u = v
      BY Zenon, Places
    <3> QED BY <1>4, <1>5, <3>1
  <2>2. \A u \in Thread : conn'[u] \notin Entries(idleConnections')
    <3>1. \A u \in Thread : conn[u] \notin Entries(idleConnections)
      BY Zenon, Places
    <3> QED BY <1>1, <1>4, <1>5, <3>1
  <2>3. \A d \in Conn : state'[d] = "None" =>
           d \notin connections' \cup Entries(idleConnections') /\ \A u \in Thread : conn'[u] # d
    <3>1. \A d \in Conn : state[d] = "None" =>
             d \notin connections \cup Entries(idleConnections) /\ \A u \in Thread : conn[u] # d
      BY Zenon, Places
    <3> QED BY <1>1, <1>4, <3>1
  <2>4. \A u \in Thread : conn'[u] # NoConn =>
           conn'[u] \in connections' \cup closing' \/ fitness'[conn'[u]] = "gone"
    <3>1. \A u \in Thread : conn[u] # NoConn =>
             conn[u] \in connections \cup closing \/ fitness[conn[u]] = "gone"
      BY Zenon, Places
    <3> QED BY <1>1, <1>4, <3>1
  <2>5. NoRepeats(idleConnections') /\ NoRepeats(pendingAcquires')
    BY Zenon, <1>1, Places
  <2> QED BY Zenon, <2>1, <2>2, <2>3, <2>4, <2>5 DEF Placed
<1>7. NoneLost'
  <2>1. \A d : Carriers(d)' = {u \in Thread : conn'[u] = d}
    BY DEF Carriers
  <2>2. \A d \in connections : d \in Entries(idleConnections) \/ \E u \in Thread : conn[u] = d
    BY DEF PoolInv, NoneLost, Carriers
  <2>3. \A d \in connections : NoConn # d
    BY Zenon DEF PoolInv, TypeOK
  <2>4. \A d \in connections' : d \in Entries(idleConnections) \/ \E u \in Thread : conn'[u] = d
    BY <1>1, <1>4, <2>2, <2>3
  <2>5. \A d \in connections' : d \in Entries(idleConnections') \/ Carriers(d)' # {}
    BY <1>1, <2>1, <2>4
  <2> QED BY <1>1, <2>5 DEF PoolInv, NoneLost
<1> QED BY <1>2, <1>3, <1>6, <1>7

\* A thread makes its connection idle, while shutdown() is not closing any.
LEMMA PushIdlePlaces ==
  ASSUME PoolInv, NEW t \in Thread, conn[t] # NoConn, PushIdle(t), UNCHANGED closing, closing = {},
         fitness' \in FitnessType, \A c \in Conn : fitness[c] = "gone" => fitness'[c] = "gone"
  PROVE  /\ Placed' /\ NoneLost' /\ state' \in StateType
         /\ connections' \subseteq Conn /\ idleConnections' \in Seq(Conn)
         /\ idleConnectionsCount' \in 0..Mod32-1
<1> USE PoolLimits
<1>1. PICK c : c = conn[t]
  OBVIOUS
<1>2. /\ state' = [state EXCEPT ![c] = "Idle"] /\ idleConnections' = Append(idleConnections, c)
      /\ idleConnectionsCount' = (idleConnectionsCount + 1) % Mod32
      /\ conn' = [conn EXCEPT ![t] = NoConn] /\ UNCHANGED <<connections, pendingAcquires>>
  BY <1>1 DEF PushIdle
<1>3. c \in Conn /\ idleConnections \in Seq(Conn)
  BY Zenon, <1>1 DEF PoolInv, TypeOK
<1>4. NoRepeats(idleConnections) /\ c \notin Entries(idleConnections)
  BY <1>1 DEF PoolInv, Placed
<1>5. /\ idleConnections' \in Seq(Conn) /\ NoRepeats(idleConnections')
      /\ Entries(idleConnections') = Entries(idleConnections) \cup {c}
  BY <1>2, <1>3, <1>4, AppendEntries
<1>6. state' \in StateType /\ connections' \subseteq Conn
  BY Zenon, <1>2, <1>3 DEF PoolInv, TypeOK, StateType
<1>7. idleConnectionsCount' \in 0..Mod32-1
  <2>1. idleConnectionsCount + 1 \in Int
    BY Integral
  <2> QED BY Zenon, <1>2, <2>1, Wraps
<1>8. /\ \A u \in Thread : conn'[u] = IF u = t THEN NoConn ELSE conn[u]
      /\ \A d \in Conn : state'[d] = IF d = c THEN "Idle" ELSE state[d]
  BY Zenon, <1>2 DEF PoolInv, TypeOK
<1>9. \A u \in Thread : conn[u] = c => u = t
  BY <1>1 DEF PoolInv, Placed
<1>10. Entries(idleConnections) \subseteq Conn /\ \A u \in Thread : conn[u] \in Conn \cup {NoConn}
  BY Zenon, <1>3, EntriesIn DEF PoolInv, TypeOK
<1>11. Placed'
  <2>1. \A u, v \in Thread : conn'[u] = conn'[v] /\ conn'[u] # NoConn => u = v
    <3>1. \A u, v \in Thread : conn[u] = conn[v] /\ conn[u] # NoConn => u = v
      BY ZenonT(30), Places
    <3> QED BY Zenon, <1>8, <3>1
  <2>2. \A u \in Thread : conn'[u] \notin Entries(idleConnections')
    <3>1. \A u \in Thread : conn[u] \notin Entries(idleConnections)
      BY ZenonT(30), Places
    <3> QED BY <1>3, <1>5, <1>8, <1>9, <1>10, <3>1
  <2>3. \A d \in Conn : state'[d] = "None" =>
           d \notin connections' \cup Entries(idleConnections') /\ \A u \in Thread : conn'[u] # d
    <3>1. \A d \in Conn : state[d] = "None" =>
             d \notin connections \cup Entries(idleConnections) /\ \A u \in Thread : conn[u] # d
      BY Zenon, Places
    <3> QED BY <1>2, <1>5, <1>8, <3>1
  <2>4. \A u \in Thread : conn'[u] # NoConn =>
           conn'[u] \in connections' \cup closing' \/ fitness'[conn'[u]] = "gone"
    <3>1. \A u \in Thread : conn[u] # NoConn =>
             conn[u] \in connections \cup closing \/ fitness[conn[u]] = "gone"
      BY Zenon, Places
    <3> QED BY <1>2, <1>8, <1>10, <3>1
  <2> QED BY <1>2, <1>5, <2>1, <2>2, <2>3, <2>4 DEF PoolInv, Placed
<1>12. NoneLost'
  <2>1. c \in connections \/ fitness[c] = "gone"
    BY <1>1 DEF PoolInv, Placed
  <2>2. \A d \in Entries(idleConnections') : d \in connections' \/ fitness'[d] = "gone"
    BY <1>2, <1>3, <1>5, <1>10, <2>1 DEF PoolInv, NoneLost
  <2>3. \A d : Carriers(d)' = {u \in Thread : conn'[u] = d}
    BY DEF Carriers
  <2>4. \A d \in connections : d \in Entries(idleConnections) \/ \E u \in Thread : conn[u] = d
    BY DEF PoolInv, NoneLost, Carriers
  <2>5. \A d \in connections' : d \in Entries(idleConnections') \/ \E u \in Thread : conn'[u] = d
    <3> SUFFICES ASSUME NEW d \in connections, d \notin Entries(idleConnections')
                 PROVE  \E u \in Thread : conn'[u] = d
      BY Zenon, <1>2
    <3>1. d # c /\ d \notin Entries(idleConnections)
      BY Zenon, <1>5
    <3>2. PICK u \in Thread : conn[u] = d
      BY Zenon, <2>4, <3>1
    <3>3. conn'[u] = d
      BY Zenon, <1>1, <1>8, <3>1, <3>2
    <3> QED BY Zenon, <3>3
  <2> QED BY Zenon, <2>2, <2>3, <2>5 DEF NoneLost
<1> QED BY <1>5, <1>6, <1>7, <1>11, <1>12

-----------------------------------------------------------------------------
(* The actions preserve the invariant.                                     *)

\* acquire(callback).
LEMMA AcquireAsyncInv ==
  ASSUME PoolInv, NEW a \in Caller, AcquireAsync(a)
  PROVE  PoolInv'
<1>1. CASE \E k \in 1..Len(idleConnections) : TakeIdle(a, k) /\ UNCHANGED pendingAcquires
  BY <1>1, TakeIdleInv DEF AcquireAsync
<1>2. CASE DiscardAll /\ Goto(a, "check") /\ UNCHANGED <<pendingAcquires, conn, inUseConnectionsCount>>
  <2>1. "check" \in Without \ {"pending"} /\ creatingConnections' \in 0..Mod64-1
    BY Zenon DEF Without, AcquireAsync, PoolInv, TypeOK
  <2> QED BY <1>2, <2>1, DiscardAllInv DEF AcquireAsync
<1>3. CASE /\ DiscardAll /\ pendingAcquires' = Append(pendingAcquires, a) /\ Goto(a, "pending")
           /\ UNCHANGED <<conn, inUseConnectionsCount>>
  <2>1. pc[a] = "out" /\ ~shutdown /\ UNCHANGED <<creatingConnections, flagVars, localVars>>
    BY DEF AcquireAsync
  <2>2. a \notin Entries(pendingAcquires) /\ pendingAcquires \in Seq(Caller)
        /\ NoRepeats(pendingAcquires)
    BY Zenon, <2>1 DEF PoolInv, TypeOK, Placed
  <2>3. /\ pendingAcquires' \in Seq(Caller) /\ NoRepeats(pendingAcquires')
        /\ Entries(pendingAcquires') = Entries(pendingAcquires) \cup {a}
    BY <1>3, <2>2, AppendEntries
  <2>4. UNCHANGED <<closing, made>>
    BY <2>1 DEF localVars
  <2>5. /\ Placed' /\ NoneLost' /\ state' \in StateType /\ fitness' \in FitnessType
        /\ connections' \subseteq Conn /\ idleConnections' \in Seq(Conn)
        /\ idleConnectionsCount' \in 0..Mod32-1 /\ currentConnections' \in 0..Mod32-1
    BY <1>3, <2>3, <2>4, DiscardAllPlaces
  <2>6. /\ DOMAIN pc' = Thread
        /\ \A t \in Thread : pc'[t] = IF t = a THEN "pending" ELSE pc[t]
    BY Zenon, <1>3 DEF Goto, PoolInv, TypeOK
  <2>7. pc'[Owner] = pc[Owner] /\ pc'[Maintenance] = pc[Maintenance]
    BY <2>6, PoolLimits DEF Thread
  <2>8. TypeOK'
    <3>1. \A b \in Caller :
             /\ pc'[b] \in {"out", "pending", "check", "try", "create", "created",
                            "wait", "holds", "release", "released", "close"}
             /\ pc'[b] = "pending" <=> b \in Entries(pendingAcquires')
      BY ZenonT(30), <2>3, <2>6 DEF PoolInv, TypeOK, Thread
    <3> QED BY ZenonT(30), <1>3, <2>1, <2>3, <2>5, <2>6, <2>7, <3>1
            DEF PoolInv, TypeOK, flagVars, localVars, StateType, FitnessType
  <2>9. Phases' /\ NobodyLeftPending'
    BY <2>1, <2>7 DEF PoolInv, Phases, NobodyLeftPending, flagVars, localVars
  <2>10. Carried'
    BY Zenon, <1>3, <2>1, <2>6, <2>7 DEF PoolInv, Carried, Without, With, Thread
  <2> QED BY <2>5, <2>8, <2>9, <2>10 DEF PoolInv
<1> QED BY <1>1, <1>2, <1>3 DEF AcquireAsync

\* The attempts of acquireSync.
LEMMA AcquireTryInv ==
  ASSUME PoolInv, NEW a \in Caller, AcquireTry(a)
  PROVE  PoolInv'
<1>1. CASE \E k \in 1..Len(idleConnections) : TakeIdle(a, k) /\ UNCHANGED creatingConnections
  BY <1>1, TakeIdleInv DEF AcquireTry
<1>2. CASE /\ DiscardAll /\ creatingConnections' = (creatingConnections + 1) % Mod64
           /\ Goto(a, "create") /\ UNCHANGED <<conn, inUseConnectionsCount>>
  <2>1. creatingConnections + 1 \in Int
    BY Integral
  <2>2. creatingConnections' \in 0..Mod64-1
    BY <1>2, <2>1, Wraps
  <2>3. "create" \in Without \ {"pending"}
    BY DEF Without
  <2> QED BY <1>2, <2>2, <2>3, DiscardAllInv DEF AcquireTry
<1>3. CASE /\ DiscardAll /\ Goto(a, WaitOrGiveUp)
           /\ UNCHANGED <<creatingConnections, conn, inUseConnectionsCount>>
  <2>1. creatingConnections' \in 0..Mod64-1 /\ WaitOrGiveUp \in Without \ {"pending"}
    BY Zenon, <1>3 DEF Without, WaitOrGiveUp, PoolInv, TypeOK
  <2>2. PICK label : label = WaitOrGiveUp
    OBVIOUS
  <2> QED BY <1>3, <2>1, <2>2, DiscardAllInv DEF AcquireTry
<1> QED BY <1>1, <1>2, <1>3 DEF AcquireTry

\* updateUsedTime() revives no client.
LEMMA UsedTime ==
  ASSUME PoolInv, NEW c \in Conn, UpdateUsedTime(c)
  PROVE  /\ fitness' \in FitnessType
         /\ \A d \in Conn : fitness[d] = "gone" => fitness'[d] = "gone"
BY Zenon DEF PoolInv, TypeOK, UpdateUsedTime, FitnessType

\* Steps of a caller that move no connection.
LEMMA CallerMovesInv ==
  ASSUME PoolInv, NEW a \in Caller,
         \/ AcquireSync(a) \/ AcquireCheck(a) \/ AcquireCreateFails(a) \/ AcquireWakes(a)
         \/ Release(a) \/ ReleaseToClose(a) \/ Released(a)
  PROVE  PoolInv'
<1> DEFINE Labels == (Without \cup With \cup {"released"}) \ {"pending"}
<1>1. /\ pc[a] # "pending" /\ UNCHANGED <<poolVars, connVars, conn, flagVars, made, closing>>
  BY Zenon DEF AcquireSync, AcquireCheck, AcquireCreateFails, AcquireWakes, Release, ReleaseToClose,
         Released, localVars, countVars
<1>2. Numbers'
  <2>1. CASE AcquireCreateFails(a)
    <3>1. creatingConnections - 1 \in Int
      BY Integral
    <3>2. creatingConnections' \in 0..Mod64-1
      BY <2>1, <3>1, Wraps DEF AcquireCreateFails
    <3> QED BY Zenon, <2>1, <3>2 DEF AcquireCreateFails, Numbers, PoolInv, TypeOK, localVars
  <2>2. CASE Released(a)
    <3>1. inUseConnectionsCount - 1 \in Int /\ inUseConnectionsCount - 0 \in Int
      BY Integral
    <3>2. inUseConnectionsCount' \in 0..Mod32-1
      BY <2>2, <3>1, Wraps DEF Released, Sub32
    <3> QED BY Zenon, <2>2, <3>2 DEF Released, Numbers, PoolInv, TypeOK, localVars
  <2>3. CASE Release(a)
    <3>1. \A f \in [Caller -> BOOLEAN] : \A b \in BOOLEAN :
             [f EXCEPT ![a] = b] \in [Caller -> BOOLEAN]
      OBVIOUS
    <3>2. reusable \in [Caller -> BOOLEAN] /\ wasInUse \in [Caller -> BOOLEAN]
      BY Zenon DEF PoolInv, TypeOK
    <3>3. CanReuse(conn[a]) \in BOOLEAN /\ (state[conn[a]] = "InUse") \in BOOLEAN
      BY DEF CanReuse
    <3>4. reusable' \in [Caller -> BOOLEAN] /\ wasInUse' \in [Caller -> BOOLEAN]
      BY <2>3, <3>1, <3>2, <3>3, Zenon DEF Release
    <3> QED BY Zenon, <2>3, <3>4 DEF Release, Numbers, PoolInv, TypeOK, countVars
  <2>4. CASE AcquireSync(a) \/ AcquireCheck(a) \/ AcquireWakes(a) \/ ReleaseToClose(a)
    BY Zenon, <2>4 DEF AcquireSync, AcquireCheck, AcquireWakes, ReleaseToClose, Numbers, PoolInv, TypeOK,
                countVars, localVars
  <2> QED BY <2>1, <2>2, <2>3, <2>4
<1>3. \E label \in Labels : /\ Goto(a, label)
                            /\ label \in Without => conn[a] = NoConn
                            /\ label \in With => conn[a] # NoConn
  <2>1. CASE AcquireSync(a) \/ AcquireCheck(a) \/ AcquireCreateFails(a) \/ AcquireWakes(a)
    <3>1. conn[a] = NoConn
      BY <2>1 DEF PoolInv, Carried, Without, AcquireSync, AcquireCheck, AcquireCreateFails,
                  AcquireWakes
    <3>2. \E label \in {"out", "check", "try", "wait"} : Goto(a, label)
      BY <2>1 DEF AcquireSync, AcquireCheck, AcquireCreateFails, AcquireWakes, WaitOrGiveUp
    <3>3. \A label \in {"out", "check", "try", "wait"} : label \in Labels /\ label \notin With
      BY DEF Without, With
    <3> QED BY ZenonT(30), <3>1, <3>2, <3>3
  <2>2. CASE Release(a)
    <3>1. conn[a] # NoConn /\ Goto(a, "release")
      BY Zenon, <2>2 DEF PoolInv, Carried, With, Release
    <3> QED BY <3>1 DEF Without, With
  <2>3. CASE ReleaseToClose(a)
    <3>1. Goto(a, "released")
      BY Zenon, <2>3 DEF ReleaseToClose
    <3> QED BY <3>1 DEF Without, With
  <2>4. CASE Released(a)
    <3>1. CASE conn[a] = NoConn
      <4>1. Goto(a, "out")
        BY <2>4, <3>1 DEF Released
      <4> QED BY <3>1, <4>1 DEF Without, With
    <3>2. CASE conn[a] # NoConn
      <4>1. Goto(a, "close")
        BY <2>4, <3>2 DEF Released
      <4> QED BY <3>2, <4>1 DEF Without, With
    <3> QED BY <3>1, <3>2
  <2> QED BY <2>1, <2>2, <2>3, <2>4
<1>4. PICK label \in Labels : /\ Goto(a, label)
                              /\ label \in Without => conn[a] = NoConn
                              /\ label \in With => conn[a] # NoConn
  BY <1>3
<1>5. /\ state' \in StateType /\ fitness' \in FitnessType
      /\ \A c \in Conn : /\ state'[c] = "None" => state[c] = "None"
                         /\ fitness[c] = "gone" => fitness'[c] = "gone"
  BY Zenon, <1>1 DEF PoolInv, TypeOK, connVars, StateType, FitnessType
<1> HIDE DEF Labels
<1>6. UNCHANGED <<poolVars, conn, flagVars, made, closing>>
  BY <1>1
<1>7. label \in (Without \cup With \cup {"released"}) \ {"pending"}
  BY DEF Labels
<1> QED BY <1>1, <1>2, <1>4, <1>5, <1>6, <1>7, CallerMoves

\* acquireSync creates a connection, and has it.
LEMMA AcquireCreateInv ==
  ASSUME PoolInv, NEW a \in Caller, AcquireCreates(a) \/ AcquireCreated(a)
  PROVE  PoolInv'
<1> USE PoolLimits
<1>1. CASE AcquireCreates(a)
  <2>1. PICK c \in Conn : Connected(a, c)
    BY Zenon, <1>1 DEF AcquireCreates
  <2>2. conn[a] = NoConn /\ pc[a] # "pending" /\ a \in Thread
    BY <1>1 DEF PoolInv, Carried, Without, AcquireCreates, Thread
  <2>3. UNCHANGED <<pendingAcquires, flagVars, made, closing>> /\ conn' = [conn EXCEPT ![a] = c]
    BY Zenon, <1>1, <2>1 DEF AcquireCreates, localVars, Connected
  <2>4. /\ Placed' /\ NoneLost' /\ state' \in StateType /\ fitness' \in FitnessType
        /\ connections' \subseteq Conn /\ idleConnections' \in Seq(Conn)
        /\ currentConnections' \in 0..Mod32-1
    <3>1. UNCHANGED closing
      BY <2>3
    <3> QED BY Zenon, <2>1, <2>2, <3>1, ConnectedPlaces
  <2>5. Numbers'
    BY Zenon, <1>1, <2>4 DEF PoolInv, TypeOK, Numbers, AcquireCreates, localVars
  <2>6. /\ "created" \in (Without \cup With \cup {"released"}) \ {"pending"}
        /\ "created" \notin Without /\ c # NoConn /\ Goto(a, "created")
    <3>1. Goto(a, "created")
      BY Zenon, <1>1 DEF AcquireCreates
    <3> QED BY <3>1 DEF Without, With
  <2> QED BY Zenon, <2>2, <2>3, <2>4, <2>5, <2>6, CallerStep
<1>2. CASE AcquireCreated(a)
  <2>1. pc[a] = "created" /\ conn[a] # NoConn /\ conn[a] \in Conn
    BY Zenon, <1>2 DEF PoolInv, TypeOK, Carried, With, AcquireCreated, Thread
  <2>2. Numbers'
    <3>1. creatingConnections - 1 \in Int /\ inUseConnectionsCount + 1 \in Int
      BY Integral
    <3>2. creatingConnections' \in 0..Mod64-1 /\ inUseConnectionsCount' \in 0..Mod32-1
      BY Zenon, <1>2, <3>1, Wraps DEF AcquireCreated
    <3> QED BY Zenon, <1>2, <3>2 DEF PoolInv, TypeOK, Numbers, AcquireCreated, localVars
  <2>3. state' \in StateType /\ \A c \in Conn : state'[c] = "None" => state[c] = "None"
    BY Zenon, <1>2, <2>1 DEF PoolInv, TypeOK, AcquireCreated, StateType
  <2>4. /\ fitness' \in FitnessType
        /\ \A d \in Conn : fitness[d] = "gone" => fitness'[d] = "gone"
    BY Zenon, <1>2, <2>1, UsedTime DEF AcquireCreated
  <2>5. /\ "holds" \in (Without \cup With \cup {"released"}) \ {"pending"}
        /\ "holds" \notin Without /\ Goto(a, "holds")
        /\ UNCHANGED <<poolVars, conn, flagVars, made, closing>>
    <3>1. /\ Goto(a, "holds")
          /\ UNCHANGED <<poolVars, conn, flagVars, made, closing>>
      BY Zenon, <1>2 DEF AcquireCreated, localVars
    <3> QED BY <3>1 DEF Without, With
  <2> QED BY Zenon, <2>1, <2>2, <2>3, <2>4, <2>5, CallerMoves
<1> QED BY <1>1, <1>2

\* release() to the first pending acquire.
LEMMA ReleaseToPendingInv ==
  ASSUME PoolInv, NEW a \in Caller, ReleaseToPending(a)
  PROVE  PoolInv'
<1> USE PoolLimits
<1>1. PICK p : p = Head(pendingAcquires)
  OBVIOUS
<1>2. PICK c : c = conn[a]
  OBVIOUS
<1>3. /\ pc[a] = "release" /\ ~shutdown /\ pendingAcquires # <<>>
      /\ pendingAcquires' = Tail(pendingAcquires) /\ state' = [state EXCEPT ![c] = "InUse"]
      /\ UpdateUsedTime(c) /\ conn' = [conn EXCEPT ![a] = NoConn, ![p] = c]
      /\ pc' = [pc EXCEPT ![a] = "out", ![p] = "holds"]
      /\ UNCHANGED <<connections, idleConnections, countVars, flagVars, localVars>>
  BY <1>1, <1>2 DEF ReleaseToPending
<1>4. pendingAcquires \in Seq(Caller) /\ NoRepeats(pendingAcquires)
  BY Zenon DEF PoolInv, TypeOK, Placed
<1>5. /\ pendingAcquires' \in Seq(Caller) /\ NoRepeats(pendingAcquires')
      /\ Entries(pendingAcquires') = Entries(pendingAcquires) \ {p}
      /\ p \in Entries(pendingAcquires) /\ p \in Caller
  BY <1>1, <1>3, <1>4, TailEntries, EntriesIn
<1>6. pc[p] = "pending" /\ p # a /\ conn[p] = NoConn
  BY ZenonT(30), <1>3, <1>5 DEF PoolInv, TypeOK, Carried, Without
<1>7. c \in Conn /\ c # NoConn
  BY Zenon, <1>2, <1>3 DEF PoolInv, TypeOK, Carried, With, Thread
<1>8. /\ DOMAIN pc' = Thread
      /\ \A t \in Thread : pc'[t] = IF t = a THEN "out" ELSE IF t = p THEN "holds" ELSE pc[t]
      /\ conn' \in [Thread -> Conn \cup {NoConn}]
      /\ \A t \in Thread : conn'[t] = IF t = a THEN NoConn ELSE IF t = p THEN c ELSE conn[t]
  BY ZenonT(30), <1>3, <1>6, <1>7 DEF PoolInv, TypeOK
<1>9. /\ pc'[Owner] = pc[Owner] /\ pc'[Maintenance] = pc[Maintenance]
      /\ conn'[Owner] = conn[Owner] /\ conn'[Maintenance] = conn[Maintenance]
  BY ZenonT(30), <1>5, <1>8 DEF Thread
<1>10. /\ state' \in StateType /\ \A d \in Conn : state'[d] = "None" => state[d] = "None" /\ d # c
       /\ fitness' \in FitnessType /\ \A d \in Conn : fitness[d] = "gone" => fitness'[d] = "gone"
  BY ZenonT(30), <1>3, <1>7, UsedTime DEF PoolInv, TypeOK, StateType
<1>11. TypeOK'
  <2>1. \A b \in Caller :
             /\ pc'[b] \in {"out", "pending", "check", "try", "create", "created",
                            "wait", "holds", "release", "released", "close"}
             /\ pc'[b] = "pending" <=> b \in Entries(pendingAcquires')
    BY ZenonT(30), <1>3, <1>5, <1>6, <1>8 DEF PoolInv, TypeOK, Thread
  <2> QED BY ZenonT(30), <1>3, <1>5, <1>8, <1>9, <1>10, <2>1
          DEF PoolInv, TypeOK, flagVars, localVars, countVars, StateType, FitnessType
<1>12. Phases' /\ NobodyLeftPending'
  BY <1>3, <1>9 DEF PoolInv, Phases, NobodyLeftPending, flagVars, localVars
<1>13. Carried'
  BY ZenonT(30), <1>7, <1>8, <1>9 DEF PoolInv, Carried, With, Without, Thread
<1>14. \A t \in Thread : conn[t] = c => t = a
  BY ZenonT(30), <1>2, <1>7 DEF PoolInv, Placed, Thread
<1>15. Placed'
  <2>1. \A t, u \in Thread : conn'[t] = conn'[u] /\ conn'[t] # NoConn => t = u
    <3>1. \A t, u \in Thread : conn[t] = conn[u] /\ conn[t] # NoConn => t = u
      BY Zenon DEF PoolInv, Placed
    <3> SUFFICES ASSUME NEW t \in Thread, NEW u \in Thread,
                        conn'[t] = conn'[u], conn'[t] # NoConn
                 PROVE  t = u
      OBVIOUS
    <3>2. t # a /\ u # a
      BY Zenon, <1>8
    <3>3. CASE t = p
      BY Zenon, <1>8, <1>14, <3>2, <3>3
    <3>4. CASE u = p
      BY Zenon, <1>8, <1>14, <3>2, <3>4
    <3>5. CASE t # p /\ u # p
      BY Zenon, <1>8, <3>1, <3>2, <3>5
    <3> QED BY Zenon, <3>3, <3>4, <3>5
  <2>2. \A t \in Thread : conn'[t] \notin Entries(idleConnections)
    <3>1. NoConn \notin Entries(idleConnections)
      BY ZenonT(30), EntriesIn DEF PoolInv, TypeOK
    <3> QED BY ZenonT(30), <1>2, <1>8, <3>1 DEF PoolInv, Placed, Thread
  <2>3. \A d \in Conn : state'[d] = "None" =>
           d \notin connections \cup Entries(idleConnections) /\ \A t \in Thread : conn'[t] # d
    <3>1. \A d \in Conn : state[d] = "None" =>
             d \notin connections \cup Entries(idleConnections) /\ \A t \in Thread : conn[t] # d
      BY ZenonT(30) DEF PoolInv, Placed
    <3> SUFFICES ASSUME NEW d \in Conn, state'[d] = "None"
                 PROVE  /\ d \notin connections \cup Entries(idleConnections)
                        /\ \A t \in Thread : conn'[t] # d
      OBVIOUS
    <3>2. state[d] = "None" /\ d # c /\ d # NoConn
      BY Zenon, <1>10, PoolLimits
    <3> QED BY Zenon, <1>8, <3>1, <3>2
  <2>4. \A t \in Thread : conn'[t] # NoConn =>
           conn'[t] \in connections \cup closing \/ fitness'[conn'[t]] = "gone"
    <3>1. c \in connections \cup closing \/ fitness[c] = "gone"
      BY <1>2, <1>7 DEF PoolInv, Placed, Thread
    <3>2. \A t \in Thread : conn[t] # NoConn => conn[t] \in Conn
      BY ZenonT(30) DEF PoolInv, TypeOK
    <3>3. \A t \in Thread : conn[t] # NoConn =>
             conn[t] \in connections \cup closing \/ fitness[conn[t]] = "gone"
      BY Zenon DEF PoolInv, Placed
    <3>4. \A d \in Conn : d \in connections \cup closing \/ fitness[d] = "gone" =>
             d \in connections \cup closing \/ fitness'[d] = "gone"
      BY Zenon, <1>10
    <3> SUFFICES ASSUME NEW t \in Thread, conn'[t] # NoConn
                 PROVE  conn'[t] \in connections \cup closing \/ fitness'[conn'[t]] = "gone"
      OBVIOUS
    <3>5. CASE t = p
      BY Zenon, <1>6, <1>7, <1>8, <3>1, <3>4, <3>5
    <3>6. CASE t # p
      <4>1. conn'[t] = conn[t]
        BY Zenon, <1>8, <3>6
      <4> QED BY Zenon, <3>2, <3>3, <3>4, <4>1
    <3> QED BY ZenonT(30), <3>5, <3>6
  <2> QED BY ZenonT(30), <1>3, <1>5, <2>1, <2>2, <2>3, <2>4 DEF PoolInv, Placed, localVars
<1>16. NoneLost'
  <2>1. \A d \in Entries(idleConnections) : d \in connections \/ fitness'[d] = "gone"
    <3>1. Entries(idleConnections) \subseteq Conn
      BY Zenon, EntriesIn DEF PoolInv, TypeOK
    <3> QED BY <1>10, <3>1 DEF PoolInv, NoneLost
  <2>2. \A d : Carriers(d)' = {u \in Thread : conn'[u] = d}
    BY DEF Carriers
  <2>3. \A d \in connections : d \in Entries(idleConnections) \/ \E u \in Thread : conn[u] = d
    BY DEF PoolInv, NoneLost, Carriers
  <2>4. \A d \in connections : d # NoConn
    BY Zenon DEF PoolInv, TypeOK
  <2>5. p \in Thread
    BY <1>5 DEF Thread
  <2>6. \A d \in connections : d \in Entries(idleConnections) \/ \E u \in Thread : conn'[u] = d
    <3> SUFFICES ASSUME NEW d \in connections, NEW u \in Thread, conn[u] = d
                 PROVE  \E v \in Thread : conn'[v] = d
      BY Zenon, <2>3
    <3>1. CASE u = a
      <4>1. conn'[p] = d
        BY Zenon, <1>2, <1>6, <1>8, <2>5, <3>1
      <4> QED BY Zenon, <2>5, <4>1
    <3>2. CASE u # a
      <4>1. conn'[u] = d
        BY Zenon, <1>6, <1>8, <2>4, <3>2
      <4> QED BY Zenon, <4>1
    <3> QED BY Zenon, <3>1, <3>2
  <2> QED BY Zenon, <1>3, <2>1, <2>2, <2>6 DEF NoneLost
<1> QED BY <1>11, <1>12, <1>13, <1>15, <1>16 DEF PoolInv

\* release() to the idle connections.
LEMMA ReleaseToIdleInv ==
  ASSUME PoolInv, NEW a \in Caller, ReleaseToIdle(a)
  PROVE  PoolInv'
<1> USE PoolLimits
<1>1. pc[a] = "release" /\ ~shutdown /\ PushIdle(a) /\ UpdateUsedTime(conn[a])
      /\ Goto(a, "released")
      /\ UNCHANGED <<currentConnections, inUseConnectionsCount, creatingConnections, flagVars,
                     localVars>>
  BY ZenonT(30) DEF ReleaseToIdle
<1>2. conn[a] # NoConn /\ conn[a] \in Conn /\ a \in Thread
  BY ZenonT(30), <1>1 DEF PoolInv, TypeOK, Carried, With, Thread
<1>3. /\ fitness' \in FitnessType
      /\ \A d \in Conn : fitness[d] = "gone" => fitness'[d] = "gone"
  BY <1>1, <1>2, UsedTime
<1>4. closing = {} /\ UNCHANGED <<closing, made, pendingAcquires>>
  BY ZenonT(30), <1>1 DEF PoolInv, Phases, Closing, localVars, PushIdle
<1>5. /\ Placed' /\ NoneLost' /\ state' \in StateType
      /\ connections' \subseteq Conn /\ idleConnections' \in Seq(Conn)
      /\ idleConnectionsCount' \in 0..Mod32-1
  BY Zenon, <1>1, <1>2, <1>3, <1>4, PushIdlePlaces
<1>6. Numbers'
  BY Zenon, <1>1, <1>5 DEF PoolInv, TypeOK, Numbers, localVars
<1>7. /\ "released" \in (Without \cup With \cup {"released"}) \ {"pending"}
      /\ "released" \notin Without /\ "released" \notin With /\ pc[a] # "pending"
      /\ conn' = [conn EXCEPT ![a] = NoConn]
  BY <1>1 DEF With, Without, PushIdle
<1> QED BY ZenonT(30), <1>1, <1>3, <1>4, <1>5, <1>6, <1>7, CallerStep

\* Connections that nobody else has are closed and forgotten.
LEMMA ForgottenPlaces ==
  ASSUME PoolInv, NEW S \in SUBSET Conn, CloseAll(S), connections' = connections \ S,
         conn' \in [Thread -> Conn \cup {NoConn}],
         \A t \in Thread : conn'[t] = IF conn[t] \in S THEN NoConn ELSE conn[t],
         idleConnections' \in Seq(Conn), NoRepeats(idleConnections'),
         Entries(idleConnections') = Entries(idleConnections) \ S,
         UNCHANGED <<pendingAcquires, closing>>
  PROVE  /\ Placed' /\ NoneLost' /\ state' \in StateType /\ fitness' \in FitnessType
         /\ connections' \subseteq Conn
<1> USE PoolLimits
<1>1. /\ state' = [c \in Conn |-> IF c \in S THEN "Closed" ELSE state[c]]
      /\ fitness' = [c \in Conn |-> IF c \in S THEN "gone" ELSE fitness[c]]
  BY ZenonT(30) DEF CloseAll
<1>2. state' \in StateType /\ fitness' \in FitnessType /\ connections' \subseteq Conn
  BY ZenonT(30), <1>1 DEF PoolInv, TypeOK, StateType, FitnessType
<1>3. Entries(idleConnections) \subseteq Conn /\ \A t \in Thread : conn[t] \in Conn \cup {NoConn}
  BY ZenonT(30), EntriesIn DEF PoolInv, TypeOK
<1>4. Placed'
  <2>1. \A t, u \in Thread : conn'[t] = conn'[u] /\ conn'[t] # NoConn => t = u
    BY ZenonT(30) DEF PoolInv, Placed
  <2>2. \A t \in Thread : conn'[t] \notin Entries(idleConnections')
    <3>1. \A t \in Thread : conn[t] \notin Entries(idleConnections)
      BY Zenon DEF PoolInv, Placed
    <3> QED BY Zenon, <1>3, <3>1, PoolLimits
  <2>3. \A c \in Conn : state'[c] = "None" =>
           c \notin connections' \cup Entries(idleConnections') /\ \A t \in Thread : conn'[t] # c
    <3>1. \A c \in Conn : state[c] = "None" =>
             c \notin connections \cup Entries(idleConnections) /\ \A t \in Thread : conn[t] # c
      BY ZenonT(30) DEF PoolInv, Placed
    <3> SUFFICES ASSUME NEW c \in Conn, state'[c] = "None"
                 PROVE  /\ c \notin connections' \cup Entries(idleConnections')
                        /\ \A t \in Thread : conn'[t] # c
      OBVIOUS
    <3>2. state[c] = "None" /\ c # NoConn
      <4>1. state'[c] = IF c \in S THEN "Closed" ELSE state[c]
        BY Zenon, <1>1
      <4>2. "Closed" # "None"
        OBVIOUS
      <4> QED BY Zenon, <4>1, <4>2, PoolLimits
    <3> QED BY Zenon, <3>1, <3>2
  <2>4. \A t \in Thread : conn'[t] # NoConn =>
           conn'[t] \in connections' \cup closing' \/ fitness'[conn'[t]] = "gone"
    BY ZenonT(30), <1>1, <1>3 DEF PoolInv, Placed
  <2> QED BY ZenonT(30), <2>1, <2>2, <2>3, <2>4 DEF PoolInv, Placed
<1>5. NoneLost'
  <2>1. \A c \in Entries(idleConnections') : c \in connections' \/ fitness'[c] = "gone"
    BY <1>1, <1>3 DEF PoolInv, NoneLost
  <2>2. \A c : Carriers(c)' = {u \in Thread : conn'[u] = c}
    BY DEF Carriers
  <2>3. \A c \in connections : c \in Entries(idleConnections) \/ \E u \in Thread : conn[u] = c
    BY DEF PoolInv, NoneLost, Carriers
  <2>4. \A c \in connections' : c \in Entries(idleConnections') \/ \E u \in Thread : conn'[u] = c
    BY <2>3
  <2> QED BY ZenonT(30), <2>1, <2>2, <2>4 DEF NoneLost
<1> QED BY <1>2, <1>4, <1>5

\* release() closes the connection.
LEMMA ReleaseClosesInv ==
  ASSUME PoolInv, NEW a \in Caller, ReleaseCloses(a)
  PROVE  PoolInv'
<1> USE PoolLimits
<1>1. PICK c : c = conn[a]
  OBVIOUS
<1>2. /\ pc[a] = "close" /\ CloseAll({c}) /\ connections' = connections \ {c}
      /\ currentConnections' = Sub32(currentConnections, 1)
      /\ conn' = [conn EXCEPT ![a] = NoConn] /\ Goto(a, "out")
      /\ UNCHANGED <<idleConnections, pendingAcquires, idleConnectionsCount,
                     inUseConnectionsCount, creatingConnections, flagVars, localVars>>
  BY <1>1 DEF ReleaseCloses
<1>3. c \in Conn /\ c # NoConn /\ a \in Thread
  BY ZenonT(30), <1>1, <1>2 DEF PoolInv, TypeOK, Carried, With, Thread
<1>4. /\ conn' \in [Thread -> Conn \cup {NoConn}]
      /\ \A t \in Thread : conn'[t] = IF conn[t] \in {c} THEN NoConn ELSE conn[t]
  BY Zenon, <1>1, <1>2, <1>3 DEF PoolInv, TypeOK, Placed
<1>5. /\ idleConnections' \in Seq(Conn) /\ NoRepeats(idleConnections')
      /\ Entries(idleConnections') = Entries(idleConnections) \ {c}
  <2>1. idleConnections \in Seq(Conn) /\ NoRepeats(idleConnections) /\ c \notin Entries(idleConnections)
    BY Zenon, <1>1, <1>3 DEF PoolInv, TypeOK, Placed
  <2> QED BY <1>2, <2>1
<1>6. UNCHANGED <<pendingAcquires, flagVars, made, closing>> /\ {c} \in SUBSET Conn
  BY <1>2, <1>3 DEF localVars
<1>7. /\ Placed' /\ NoneLost' /\ state' \in StateType /\ fitness' \in FitnessType
      /\ connections' \subseteq Conn
  BY <1>2, <1>4, <1>5, <1>6, ForgottenPlaces
<1>8. Numbers'
  <2>1. currentConnections - 1 \in Int
    BY Integral
  <2>2. currentConnections' \in 0..Mod32-1
    BY Zenon, <1>2, <2>1, Wraps DEF Sub32
  <2> QED BY Zenon, <1>2, <2>2 DEF PoolInv, TypeOK, Numbers, localVars
<1>9. /\ "out" \in (Without \cup With \cup {"released"}) \ {"pending"}
      /\ "out" \notin With /\ pc[a] # "pending"
  BY <1>2 DEF With, Without
<1> QED BY ZenonT(30), <1>2, <1>5, <1>6, <1>7, <1>8, <1>9, CallerStep

\* The places of the idle list that cleanupIdleConnections keeps, and the connections
\* at the others, which it closes.
Retained == {i \in 1..Len(idleConnections) :
                i <= MinConnections \/ CanReuse(idleConnections[i])}
StaleIdle == {idleConnections[i] : i \in (1..Len(idleConnections)) \ Retained}

\* What the listed places of a sequence without repetitions hold: the entries of the
\* sequence but those at the other places, each once.
LEMMA PickedEntries ==
  ASSUME NEW S, NEW q \in Seq(S), NoRepeats(q), NEW stay \in SUBSET (1..Len(q)),
         NEW f \in Listings(stay, Len(q))
  PROVE  /\ Picked(q, f) \in Seq(S) /\ NoRepeats(Picked(q, f)) /\ Len(f) \in Nat
         /\ Entries(Picked(q, f)) = Entries(q) \ {q[i] : i \in (1..Len(q)) \ stay}
<1>1. PICK k \in 0..Len(q) : f \in [1..k -> stay]
  BY DEF Listings
<1>2. k \in Nat /\ Len(f) = k /\ DOMAIN f = 1..k
  <2>1. k \in Nat /\ Len(q) \in Nat
    BY SeqType
  <2>2. f \in Seq(stay) /\ DOMAIN f = 1..k
    BY <1>1, <2>1
  <2>3. Len(f) \in Nat /\ 1..Len(f) = 1..k
    BY <2>2, SeqType
  <2>4. Len(f) \in 1..Len(f) \/ Len(f) = 0
    BY <2>3
  <2>5. k \in 1..k \/ k = 0
    BY <2>1
  <2>6. Len(f) <= k /\ k <= Len(f)
    BY <2>1, <2>3, <2>4, <2>5
  <2> QED BY <2>1, <2>2, <2>3, <2>6
<1>3. /\ \A i, j \in 1..k : i < j => f[i] < f[j]
      /\ \A m \in stay : \E i \in 1..k : f[i] = m
  BY Zenon, <1>2 DEF Listings
<1>4. \A i \in 1..k : f[i] \in stay /\ f[i] \in 1..Len(q) /\ q[f[i]] \in S
  <2>1. \A m \in 1..Len(q) : q[m] \in S
    BY SeqType
  <2>2. \A i \in 1..k : f[i] \in stay
    BY <1>1
  <2> QED BY Zenon, <2>1, <2>2
<1>5. Picked(q, f) = [i \in 1..k |-> q[f[i]]]
  BY <1>2 DEF Picked
<1>6. Picked(q, f) \in Seq(S) /\ Len(Picked(q, f)) = k
  BY <1>2, <1>4, <1>5
<1>7. NoRepeats(Picked(q, f))
  <2>1. \A i, j \in 1..k : f[i] = f[j] => i = j
    BY <1>2, <1>3, <1>4
  <2> QED BY <1>4, <1>5, <1>6, <2>1 DEF NoRepeats
<1>8. Entries(Picked(q, f)) = {q[m] : m \in stay}
  BY SMTT(30), <1>3, <1>4, <1>5, <1>6 DEF Entries
<1>9. {q[m] : m \in stay} = Entries(q) \ {q[i] : i \in (1..Len(q)) \ stay}
  BY DEF Entries, NoRepeats
<1> QED BY Zenon, <1>2, <1>6, <1>7, <1>8, <1>9

\* cleanupIdleConnections.
LEMMA CleanupInv ==
  ASSUME PoolInv, CleanupIdleConnections
  PROVE  PoolInv'
<1> USE PoolLimits
<1>1. PICK S : S = StaleIdle
  OBVIOUS
<1>2. PICK n, f :
      /\ n = Len(idleConnections) - Len(f) /\ f \in Listings(Retained, Len(idleConnections))
      /\ pc[Maintenance] = "cleanup" /\ idleConnections' = Picked(idleConnections, f)
      /\ idleConnectionsCount' = Sub32(idleConnectionsCount, n)
      /\ connections' = connections \ S
      /\ currentConnections' = Sub32(currentConnections, n)
      /\ CloseAll(S) /\ Goto(Maintenance, "ensure")
      /\ UNCHANGED <<pendingAcquires, inUseConnectionsCount, creatingConnections, flagVars, conn,
                     localVars>>
  BY Zenon, <1>1 DEF CleanupIdleConnections, StaleIdle, Retained
<1>3. idleConnections \in Seq(Conn) /\ NoRepeats(idleConnections)
  BY ZenonT(30) DEF PoolInv, TypeOK, Placed
<1>4. Entries(idleConnections) \subseteq Conn /\ S \subseteq Entries(idleConnections)
  <2>1. Entries(idleConnections) \subseteq Conn
    BY Zenon, <1>3, EntriesIn
  <2>2. S \subseteq Entries(idleConnections)
    BY Zenon, <1>1 DEF StaleIdle, Entries
  <2> QED BY Zenon, <2>1, <2>2
<1>5. /\ idleConnections' \in Seq(Conn) /\ NoRepeats(idleConnections')
      /\ Entries(idleConnections') = Entries(idleConnections) \ S /\ Len(f) \in Nat
  <2>1. Retained \in SUBSET (1..Len(idleConnections))
    BY DEF Retained
  <2>2. f \in Listings(Retained, Len(idleConnections))
    BY Zenon, <1>2
  <2>3. /\ Picked(idleConnections, f) \in Seq(Conn) /\ NoRepeats(Picked(idleConnections, f))
        /\ Entries(Picked(idleConnections, f)) =
              Entries(idleConnections) \ {idleConnections[i] :
                                              i \in (1..Len(idleConnections)) \ Retained}
        /\ Len(f) \in Nat
    BY <1>3, <2>1, <2>2, PickedEntries
  <2> QED BY Zenon, <1>1, <1>2, <2>3 DEF StaleIdle
<1>6. /\ conn' \in [Thread -> Conn \cup {NoConn}]
      /\ \A t \in Thread : conn'[t] = IF conn[t] \in S THEN NoConn ELSE conn[t]
  BY Zenon, <1>2, <1>4 DEF PoolInv, TypeOK, Placed
<1>7. UNCHANGED <<pendingAcquires, flagVars, made, closing>> /\ S \in SUBSET Conn
  BY Zenon, <1>2, <1>4 DEF localVars
<1>8. /\ Placed' /\ NoneLost' /\ state' \in StateType /\ fitness' \in FitnessType
      /\ connections' \subseteq Conn
  BY <1>2, <1>5, <1>6, <1>7, ForgottenPlaces
<1>9. Numbers'
  <2>1. Len(idleConnections) \in Nat
    BY <1>3, SeqType
  <2>2. n \in Int
    BY <1>2, <1>5, <2>1
  <2>3. currentConnections - n \in Int /\ idleConnectionsCount - n \in Int
    BY Integral, <2>2
  <2>4. currentConnections' \in 0..Mod32-1 /\ idleConnectionsCount' \in 0..Mod32-1
    BY Zenon, <1>2, <2>3, Wraps DEF Sub32
  <2> QED BY Zenon, <1>2, <2>4 DEF PoolInv, TypeOK, Numbers, localVars
<1>10. /\ "ensure" \in MaintenanceLabel /\ pc[Maintenance] \notin {"off", "exited"}
       /\ conn[Maintenance] = NoConn /\ conn' = [conn EXCEPT ![Maintenance] = NoConn]
  BY ZenonT(30), <1>2 DEF MaintenanceLabel, PoolInv, Carried, TypeOK, Thread
<1> QED BY ZenonT(30), <1>2, <1>5, <1>7, <1>8, <1>9, <1>10, MaintenanceStep

\* Steps of the maintenance thread that move no connection.
LEMMA MaintenanceMovesInv ==
  ASSUME PoolInv,
         \/ MaintenanceWakes \/ EnsureReads \/ EnsureCompares \/ EnsureCounts \/ EnsureCreateFails
         \/ EnsureCreated
  PROVE  PoolInv'
<1>1. /\ pc[Maintenance] \notin {"off", "exited"}
      /\ UNCHANGED <<poolVars, connVars, flagVars, conn, made, closing>>
  BY Zenon DEF MaintenanceWakes, EnsureReads, EnsureCompares, EnsureCounts, EnsureCreateFails,
         EnsureCreated, localVars, countVars
<1>2. Numbers'
  <2>1. CASE EnsureCounts \/ EnsureCreateFails \/ EnsureCreated
    <3>1. creatingConnections - 1 \in Int /\ creatingConnections + 1 \in Int
      BY Integral
    <3>2. creatingConnections' \in 0..Mod64-1
      BY <2>1, <3>1, Wraps DEF EnsureCounts, EnsureCreateFails, EnsureCreated
    <3> QED BY Zenon, <2>1, <3>2 DEF EnsureCounts, EnsureCreateFails, EnsureCreated, Numbers, PoolInv,
                              TypeOK, localVars
  <2>2. CASE MaintenanceWakes \/ EnsureReads
    BY ZenonT(30), <2>2 DEF MaintenanceWakes, EnsureReads, Numbers, PoolInv, TypeOK, localVars, countVars
  <2>3. CASE EnsureCompares
    <3>1. 0 \in 0..Mod32-1
      BY Widths
    <3> QED BY Zenon, <2>3, <3>1 DEF EnsureCompares, Numbers, PoolInv, TypeOK, countVars
  <2> QED BY <2>1, <2>2, <2>3
<1>3. \E label \in MaintenanceLabel :
         /\ Goto(Maintenance, label)
         /\ label \in {"created", "push"} <=> conn[Maintenance] # NoConn
  BY Zenon DEF PoolInv, Carried, MaintenanceLabel, MaintenanceWakes, EnsureReads, EnsureCompares,
         EnsureCounts, EnsureCreateFails, EnsureCreated
<1> QED BY ZenonT(30), <1>1, <1>2, <1>3, MaintenanceMoves

\* The maintenance thread creates a connection, and makes it idle.
LEMMA EnsureInv ==
  ASSUME PoolInv, EnsureCreates \/ EnsurePushes
  PROVE  PoolInv'
<1> USE PoolLimits
<1>1. CASE EnsureCreates
  <2>1. PICK c \in Conn : Connected(Maintenance, c)
    BY <1>1 DEF EnsureCreates
  <2>2. /\ conn[Maintenance] = NoConn /\ pc[Maintenance] \notin {"off", "exited"}
        /\ Maintenance \in Thread
    BY Zenon, <1>1 DEF PoolInv, Carried, EnsureCreates, Thread
  <2>3. /\ UNCHANGED <<pendingAcquires, flagVars, made, closing>>
        /\ conn' = [conn EXCEPT ![Maintenance] = c]
    BY Zenon, <1>1, <2>1 DEF EnsureCreates, localVars, Connected
  <2>4. /\ Placed' /\ NoneLost' /\ state' \in StateType /\ fitness' \in FitnessType
        /\ connections' \subseteq Conn /\ idleConnections' \in Seq(Conn)
        /\ currentConnections' \in 0..Mod32-1
    BY <2>1, <2>2, <2>3, ConnectedPlaces
  <2>5. Numbers'
    BY Zenon, <1>1, <2>4 DEF PoolInv, TypeOK, Numbers, EnsureCreates, localVars
  <2>6. "created" \in MaintenanceLabel /\ c # NoConn /\ Goto(Maintenance, "created")
    BY <1>1 DEF MaintenanceLabel, EnsureCreates
  <2> QED BY ZenonT(30), <2>2, <2>3, <2>4, <2>5, <2>6, MaintenanceStep
<1>2. CASE EnsurePushes
  <2>1. /\ conn[Maintenance] # NoConn /\ pc[Maintenance] \notin {"off", "exited"}
        /\ Maintenance \in Thread /\ PushIdle(Maintenance) /\ Goto(Maintenance, "ensure")
    BY ZenonT(30), <1>2 DEF PoolInv, Carried, EnsurePushes, Thread
  <2>2. /\ UNCHANGED <<pendingAcquires, flagVars, made, closing>> /\ closing = {}
        /\ conn' = [conn EXCEPT ![Maintenance] = NoConn]
    BY ZenonT(30), <1>2, <2>1 DEF EnsurePushes, localVars, PushIdle, PoolInv, Phases, Closing
  <2>3. /\ fitness' \in FitnessType
        /\ \A d \in Conn : fitness[d] = "gone" => fitness'[d] = "gone"
    BY ZenonT(30), <1>2 DEF EnsurePushes, PoolInv, TypeOK, FitnessType
  <2>4. /\ Placed' /\ NoneLost' /\ state' \in StateType
        /\ connections' \subseteq Conn /\ idleConnections' \in Seq(Conn)
        /\ idleConnectionsCount' \in 0..Mod32-1
    BY ZenonT(30), <2>1, <2>2, <2>3, PushIdlePlaces
  <2>5. Numbers'
    BY Zenon, <1>2, <2>4 DEF PoolInv, TypeOK, Numbers, EnsurePushes, localVars
  <2>6. "ensure" \in MaintenanceLabel
    BY DEF MaintenanceLabel
  <2> QED BY ZenonT(30), <2>1, <2>2, <2>3, <2>4, <2>5, <2>6, MaintenanceStep
<1> QED BY <1>1, <1>2

\* A step of the owner that moves no connection and no pending acquire.
LEMMA OwnerMoves ==
  ASSUME PoolInv, UNCHANGED <<poolVars, connVars, conn>>, Numbers', Phases', NobodyLeftPending',
         initialized' \in BOOLEAN, shutdown' \in BOOLEAN, pristine' \in BOOLEAN,
         made' \in 0..MinConnections, closing' = closing,
         DOMAIN pc' = Thread, \A a \in Caller : pc'[a] = pc[a],
         pc'[Owner] \in {"out", "create", "join", "zero in use", "zero creating"},
         pc[Owner] # "push",
         pc'[Maintenance] = pc[Maintenance] \/ (pc[Maintenance] \in {"off", "exited"}
                                                /\ pc'[Maintenance] \in {"off", "sleep"})
  PROVE  PoolInv'
<1> USE PoolLimits
<1>1. TypeOK'
  BY ZenonT(30) DEF PoolInv, TypeOK, Numbers, poolVars, connVars
<1>2. Carried'
  BY ZenonT(30) DEF PoolInv, TypeOK, Carried
<1>3. Placed' /\ NoneLost'
  BY ZenonT(30), SamePlaces DEF poolVars, connVars
<1> QED BY ZenonT(30), <1>1, <1>2, <1>3 DEF PoolInv

\* Steps of initialize and shutdown that move no connection.
LEMMA OwnerMovesInv ==
  ASSUME PoolInv,
         \/ Initialize \/ InitializeEnds \/ Shutdown
         \/ ShutdownZeroesCurrent \/ ShutdownZeroesInUse \/ ShutdownEnds
  PROVE  PoolInv'
<1> USE PoolLimits DEF Thread
<1> DEFINE Acts == \/ Initialize \/ InitializeEnds \/ Shutdown
                   \/ ShutdownZeroesCurrent \/ ShutdownZeroesInUse \/ ShutdownEnds
<1>1. UNCHANGED <<poolVars, connVars, conn>> /\ closing' = closing /\ pc[Owner] # "push"
  BY Zenon DEF Initialize, InitializeEnds, Shutdown, ShutdownZeroesCurrent, ShutdownZeroesInUse,
         ShutdownEnds, localVars
<1>2. Numbers'
  <2>1. 0 \in 0..Mod32-1 /\ 0 \in 0..Mod64-1
    BY Widths
  <2> QED BY ZenonT(30), <2>1 DEF Numbers, PoolInv, TypeOK, Initialize, InitializeEnds, Shutdown,
                 ShutdownZeroesCurrent, ShutdownZeroesInUse, ShutdownEnds, localVars, countVars
<1>3. /\ DOMAIN pc' = Thread /\ \A a \in Caller : pc'[a] = pc[a]
      /\ pc'[Owner] \in {"out", "create", "join", "zero in use", "zero creating"}
  BY ZenonT(30) DEF Goto, PoolInv, TypeOK, Initialize, InitializeEnds, Shutdown, ShutdownZeroesCurrent,
         ShutdownZeroesInUse, ShutdownEnds
<1>4. pc'[Maintenance] = pc[Maintenance] \/ (pc[Maintenance] \in {"off", "exited"}
                                             /\ pc'[Maintenance] \in {"off", "sleep"})
  BY Zenon DEF Goto, PoolInv, TypeOK, Phases, Closing, Initialize, InitializeEnds, Shutdown,
         ShutdownZeroesCurrent, ShutdownZeroesInUse, ShutdownEnds
<1>5. /\ initialized' \in BOOLEAN /\ shutdown' \in BOOLEAN /\ pristine' \in BOOLEAN
      /\ made' \in 0..MinConnections
  <2>1. /\ initialized \in BOOLEAN /\ shutdown \in BOOLEAN /\ pristine \in BOOLEAN
        /\ made \in 0..MinConnections
    BY Zenon DEF PoolInv, TypeOK
  <2>0. 0 \in 0..MinConnections
    OBVIOUS
  <2>2. initialized' \in BOOLEAN /\ shutdown' \in BOOLEAN /\ pristine' \in BOOLEAN
    BY ZenonT(30), <2>1 DEF Initialize, InitializeEnds, Shutdown, ShutdownZeroesCurrent,
         ShutdownZeroesInUse, ShutdownEnds, flagVars
  <2>3. made' \in 0..MinConnections
    BY Zenon, <2>0, <2>1 DEF Initialize, InitializeEnds, Shutdown, ShutdownZeroesCurrent,
         ShutdownZeroesInUse, ShutdownEnds, localVars
  <2> QED BY <2>2, <2>3
<1>6. Phases'
  <2>1. CASE Initialize
    BY ZenonT(30), <2>1 DEF Goto, PoolInv, TypeOK, Phases, Closing, Initialize
  <2>2. CASE InitializeEnds
    BY ZenonT(30), <2>2 DEF PoolInv, TypeOK, Phases, Closing, InitializeEnds, flagVars
  <2>3. CASE Shutdown
    BY ZenonT(30), <2>3 DEF Goto, PoolInv, TypeOK, Phases, Closing, Shutdown, localVars
  <2>4. CASE ShutdownZeroesCurrent \/ ShutdownZeroesInUse
    BY ZenonT(30), <2>4 DEF Goto, PoolInv, TypeOK, Phases, Closing, ShutdownZeroesCurrent, ShutdownZeroesInUse,
                flagVars, localVars
  <2>5. CASE ShutdownEnds
    BY Zenon, <2>5 DEF PoolInv, TypeOK, Phases, Closing, ShutdownEnds, localVars
  <2> QED BY <2>1, <2>2, <2>3, <2>4, <2>5
<1>7. NobodyLeftPending'
  <2>1. pendingAcquires' = pendingAcquires
    BY <1>1 DEF poolVars
  <2>2. CASE Initialize
    BY Zenon, <2>2 DEF NobodyLeftPending, Initialize
  <2>3. CASE InitializeEnds
    BY <2>3 DEF NobodyLeftPending, PoolInv, Phases, InitializeEnds, flagVars
  <2>4. CASE Shutdown
    BY ZenonT(30), <2>4 DEF NobodyLeftPending, PoolInv, TypeOK, Shutdown, Goto
  <2>5. CASE ShutdownZeroesCurrent \/ ShutdownZeroesInUse \/ ShutdownEnds
    BY Zenon, <2>1, <2>5 DEF NobodyLeftPending, PoolInv, Phases, Closing, ShutdownZeroesCurrent,
                      ShutdownZeroesInUse, ShutdownEnds, flagVars
  <2> QED BY <2>2, <2>3, <2>4, <2>5
<1> QED BY ZenonT(30), <1>1, <1>2, <1>3, <1>4, <1>5, <1>6, <1>7, OwnerMoves

\* initialize() creates a connection, and makes it idle.
LEMMA InitializeInv ==
  ASSUME PoolInv, InitializeCreates \/ InitializePushes
  PROVE  PoolInv'
<1> USE PoolLimits DEF Thread
<1>1. Owner \in Thread /\ pc[Owner] \in {"create", "push"} /\ closing' = closing /\ closing = {}
      /\ UNCHANGED <<flagVars, pendingAcquires>>
  BY Zenon DEF PoolInv, Phases, Closing, InitializeCreates, InitializePushes, localVars, Connected, PushIdle
<1>2. /\ Placed' /\ NoneLost' /\ state' \in StateType /\ fitness' \in FitnessType
      /\ connections' \subseteq Conn /\ idleConnections' \in Seq(Conn) /\ Numbers'
  <2>1. CASE InitializeCreates
    <3>1. PICK c \in Conn : Connected(Owner, c)
      BY <2>1 DEF InitializeCreates
    <3>2. conn[Owner] = NoConn
      BY ZenonT(30), <2>1 DEF PoolInv, Carried, InitializeCreates
    <3>3. /\ Placed' /\ NoneLost' /\ state' \in StateType /\ fitness' \in FitnessType
          /\ connections' \subseteq Conn /\ idleConnections' \in Seq(Conn)
          /\ currentConnections' \in 0..Mod32-1
      BY Zenon, <1>1, <3>1, <3>2, ConnectedPlaces
    <3> QED BY Zenon, <2>1, <3>3 DEF Numbers, PoolInv, TypeOK, InitializeCreates, localVars
  <2>2. CASE InitializePushes
    <3>1. conn[Owner] # NoConn /\ PushIdle(Owner)
      BY ZenonT(30), <2>2 DEF PoolInv, Carried, InitializePushes
    <3>2. /\ fitness' \in FitnessType
          /\ \A d \in Conn : fitness[d] = "gone" => fitness'[d] = "gone"
      BY ZenonT(30), <2>2 DEF InitializePushes, PoolInv, TypeOK, FitnessType
    <3>3. /\ Placed' /\ NoneLost' /\ state' \in StateType
          /\ connections' \subseteq Conn /\ idleConnections' \in Seq(Conn)
          /\ idleConnectionsCount' \in 0..Mod32-1
      BY Zenon, <1>1, <3>1, <3>2, PushIdlePlaces
    <3> QED BY ZenonT(30), <2>2, <3>2, <3>3 DEF Numbers, PoolInv, TypeOK, InitializePushes
  <2> QED BY <2>1, <2>2
<1>3. /\ \E label \in {"create", "push"} : pc' = [pc EXCEPT ![Owner] = label]
      /\ conn'[Owner] # NoConn <=> pc'[Owner] = "push"
      /\ conn' \in [Thread -> Conn \cup {NoConn}]
      /\ \A t \in Thread : t # Owner => conn'[t] = conn[t]
  <2>1. CASE InitializeCreates
    <3>1. PICK c \in Conn : Connected(Owner, c)
      BY <2>1 DEF InitializeCreates
    <3> QED BY ZenonT(30), <2>1, <3>1 DEF InitializeCreates, Goto, Connected, PoolInv, TypeOK
  <2>2. CASE InitializePushes
    BY ZenonT(30), <2>2 DEF InitializePushes, Goto, PushIdle, PoolInv, TypeOK
  <2> QED BY ZenonT(30), <2>1, <2>2
<1>4. /\ DOMAIN pc' = Thread /\ \A t \in Thread : t # Owner => pc'[t] = pc[t]
      /\ pc'[Owner] \in {"create", "push"}
  BY Zenon, <1>3 DEF PoolInv, TypeOK
<1>5. made \in Int /\ made' \in 0..MinConnections /\ (pc'[Owner] = "push" => made' < MinConnections)
  <2>1. made \in 0..MinConnections
    BY Zenon DEF PoolInv, TypeOK
  <2>2. CASE InitializeCreates
    <3>1. made' = made /\ made < MinConnections
      BY <2>2 DEF InitializeCreates, localVars
    <3> QED BY <2>1, <3>1
  <2>3. CASE InitializePushes
    <3>1. made' = made + 1 /\ made < MinConnections /\ pc'[Owner] = "create"
      BY Zenon, <2>3 DEF InitializePushes, PoolInv, Phases, Goto, TypeOK
    <3> QED BY <2>1, <3>1
  <2> QED BY <2>2, <2>3
<1>6. TypeOK'
  BY ZenonT(30), <1>1, <1>2, <1>3, <1>4, <1>5
     DEF PoolInv, TypeOK, Numbers, StateType, FitnessType, flagVars
<1>7. Phases' /\ NobodyLeftPending'
  BY ZenonT(30), <1>1, <1>4, <1>5 DEF PoolInv, TypeOK, Phases, Closing, NobodyLeftPending, flagVars
<1>8. Carried'
  BY Zenon, <1>3, <1>4 DEF PoolInv, Carried
<1> QED BY <1>2, <1>6, <1>7, <1>8 DEF PoolInv

\* shutdown() takes all connections and answers the pending acquires, and closes
\* the connections.
LEMMA ShutdownInv ==
  ASSUME PoolInv, ShutdownSwaps \/ ShutdownCloses
  PROVE  PoolInv'
<1> USE PoolLimits DEF Thread
<1>1. CASE ShutdownSwaps
  <2>1. /\ pc[Owner] = "join" /\ pc[Maintenance] \in {"off", "exited"} /\ closing' = connections
        /\ connections' = {} /\ idleConnections' = <<>> /\ pendingAcquires' = <<>>
        /\ UNCHANGED <<state, fitness, flagVars, conn, made>> /\ Numbers'
    BY ZenonT(30), <1>1 DEF ShutdownSwaps, connVars, Numbers, PoolInv, TypeOK, countVars
  <2>2. /\ DOMAIN pc' = Thread
        /\ \A a \in Caller : pc'[a] = IF pc[a] = "pending" THEN "out" ELSE pc[a]
        /\ pc'[Owner] = "close" /\ pc'[Maintenance] = pc[Maintenance]
    <3>1. pendingAcquires \in Seq(Caller) /\ Entries(pendingAcquires) \subseteq Caller
      BY Zenon, EntriesIn DEF PoolInv, TypeOK
    <3> QED BY ZenonT(30), <1>1, <3>1 DEF ShutdownSwaps, PoolInv, TypeOK
  <2>3. idleConnections' \in Seq(Conn) /\ pendingAcquires' \in Seq(Caller)
    BY <2>1, SeqEmpty
  <2>4. /\ Entries(idleConnections') = {} /\ Entries(pendingAcquires') = {}
        /\ NoRepeats(idleConnections') /\ NoRepeats(pendingAcquires')
    BY <2>1, EmptyEntries
  <2>5. TypeOK'
    BY ZenonT(30), <2>1, <2>2, <2>3, <2>4 DEF PoolInv, TypeOK, Numbers, flagVars
  <2>6. Phases' /\ NobodyLeftPending'
    BY ZenonT(30), <2>1, <2>2 DEF PoolInv, TypeOK, Phases, Closing, NobodyLeftPending, flagVars
  <2>7. Carried'
    BY ZenonT(30), <2>1, <2>2 DEF PoolInv, TypeOK, Carried, With, Without
  <2>8. closing = {}
    BY <2>1 DEF PoolInv, Phases
  <2>9. Placed'
    BY Zenon, <2>1, <2>4, <2>8 DEF PoolInv, Placed
  <2>10. NoneLost'
    BY <2>1, <2>4 DEF NoneLost
  <2> QED BY <2>5, <2>6, <2>7, <2>9, <2>10 DEF PoolInv
<1>2. CASE ShutdownCloses
  <2>1. /\ pc[Owner] = "close" /\ closing' = {} /\ UNCHANGED <<poolVars, flagVars, conn, made>>
        /\ state' = [c \in Conn |-> IF c \in closing THEN "Closed" ELSE state[c]]
        /\ fitness' = [c \in Conn |-> IF c \in closing THEN "gone" ELSE fitness[c]]
        /\ Goto(Owner, "zero current") /\ Numbers'
    BY ZenonT(30), <1>2 DEF ShutdownCloses, CloseAll, Numbers, PoolInv, TypeOK, countVars
  <2>2. /\ DOMAIN pc' = Thread /\ \A a \in Caller : pc'[a] = pc[a]
        /\ pc'[Owner] = "zero current" /\ pc'[Maintenance] = pc[Maintenance]
    BY ZenonT(30), <2>1 DEF Goto, PoolInv, TypeOK
  <2>3. TypeOK'
    BY ZenonT(30), <2>1, <2>2 DEF PoolInv, TypeOK, Numbers, flagVars, poolVars
  <2>4. Phases' /\ NobodyLeftPending'
    BY ZenonT(30), <2>1, <2>2 DEF PoolInv, TypeOK, Phases, Closing, NobodyLeftPending, flagVars, poolVars
  <2>5. Carried'
    BY ZenonT(30), <2>1, <2>2 DEF PoolInv, Carried
  <2>6. Entries(idleConnections) \subseteq Conn /\ \A t \in Thread : conn[t] \in Conn \cup {NoConn}
    BY ZenonT(30), EntriesIn DEF PoolInv, TypeOK
  <2>7. Placed'
    BY ZenonT(30), <2>1, <2>6 DEF PoolInv, Placed, poolVars
  <2>8. NoneLost'
    <3>1. \A c : Carriers(c)' = Carriers(c)
      BY Zenon, <2>1 DEF Carriers
    <3> QED BY Zenon, <2>1, <2>6, <3>1 DEF PoolInv, NoneLost, poolVars
  <2> QED BY <2>3, <2>4, <2>5, <2>7, <2>8 DEF PoolInv
<1> QED BY <1>1, <1>2

\* A client disconnects, and time passes.
LEMMA EnvironmentInv ==
  ASSUME PoolInv, NEW c \in Conn, PeerGoes(c) \/ IdleTimeoutPasses(c)
  PROVE  PoolInv'
<1>1. /\ UNCHANGED <<poolVars, state, countVars, flagVars, pc, conn, localVars>>
      /\ fitness' \in FitnessType /\ \A d \in Conn : fitness[d] = "gone" => fitness'[d] = "gone"
  BY Zenon DEF PeerGoes, IdleTimeoutPasses, PoolInv, TypeOK, FitnessType
<1>2. TypeOK'
  BY ZenonT(30), <1>1 DEF PoolInv, TypeOK, FitnessType, poolVars, countVars, flagVars, localVars
<1>3. Phases' /\ NobodyLeftPending' /\ Carried'
  BY ZenonT(30), <1>1 DEF PoolInv, Phases, NobodyLeftPending, Carried, poolVars, flagVars, localVars
<1>4. Placed' /\ NoneLost'
  BY Zenon, <1>1, SamePlaces DEF poolVars, localVars
<1> QED BY <1>2, <1>3, <1>4 DEF PoolInv

\* Initially.
LEMMA InitInv == Init => PoolInv
<1> SUFFICES ASSUME Init PROVE PoolInv
  OBVIOUS
<1> USE PoolLimits DEF Init, Thread
<1>1. 0 \in 0..Mod32-1 /\ 0 \in 0..Mod64-1 /\ 0 \in 0..MinConnections
  BY Widths
<1>2. Entries(<<>>) = {} /\ NoRepeats(<<>>)
  BY EmptyEntries
<1>3. TypeOK
  <2>1. idleConnections \in Seq(Conn) /\ pendingAcquires \in Seq(Caller)
    BY SeqEmpty
  <2>2. conn \in [Thread -> Conn \cup {NoConn}] /\ DOMAIN pc = Thread
    OBVIOUS
  <2>3. pc[Owner] = "out" /\ pc[Maintenance] = "off" /\ \A a \in Caller : pc[a] = "out"
    OBVIOUS
  <2>4. /\ state \in [Conn -> {"None", "Idle", "InUse", "Closed"}]
        /\ fitness \in [Conn -> {"fit", "expired", "gone"}]
        /\ reusable \in [Caller -> BOOLEAN] /\ wasInUse \in [Caller -> BOOLEAN]
    OBVIOUS
  <2> QED BY Zenon, <1>1, <1>2, <2>1, <2>2, <2>3, <2>4 DEF TypeOK
<1>4. Phases /\ Carried /\ NobodyLeftPending
  BY Zenon DEF Phases, Carried, NobodyLeftPending, Closing, With, Without
<1>5. Placed /\ NoneLost
  BY <1>2 DEF Placed, NoneLost
<1> QED BY <1>3, <1>4, <1>5 DEF PoolInv

\* Every step.
LEMMA NextInv == PoolInv /\ [Next]_vars => PoolInv'
<1> SUFFICES ASSUME PoolInv, [Next]_vars PROVE PoolInv'
  OBVIOUS
<1>1. CASE UNCHANGED vars
  <2> USE <1>1 DEF vars, poolVars, connVars, countVars, flagVars, localVars
  <2>1. TypeOK'
    BY ZenonT(30) DEF PoolInv, TypeOK
  <2>2. Phases' /\ Carried' /\ NobodyLeftPending'
    BY Zenon DEF PoolInv, Phases, Carried, NobodyLeftPending
  <2>3. Placed' /\ NoneLost'
    BY Zenon, SamePlaces
  <2> QED BY <2>1, <2>2, <2>3 DEF PoolInv
<1>2. ASSUME NEW a \in Caller, CallerStarts(a) \/ CallerSteps(a) \/ Release(a) PROVE PoolInv'
  <2>1. CASE AcquireAsync(a) \/ AcquireTry(a)
    BY <2>1, AcquireAsyncInv, AcquireTryInv
  <2>2. CASE \/ AcquireSync(a) \/ AcquireCheck(a) \/ AcquireCreateFails(a) \/ AcquireWakes(a)
             \/ Release(a) \/ ReleaseToClose(a) \/ Released(a)
    BY <2>2, CallerMovesInv
  <2>3. CASE AcquireCreates(a) \/ AcquireCreated(a)
    BY <2>3, AcquireCreateInv
  <2>4. CASE ReleaseToPending(a) \/ ReleaseToIdle(a) \/ ReleaseCloses(a)
    BY <2>4, ReleaseToPendingInv, ReleaseToIdleInv, ReleaseClosesInv
  <2> QED BY <1>2, <2>1, <2>2, <2>3, <2>4 DEF CallerStarts, CallerSteps
<1>3. CASE MaintenanceSteps
  BY <1>3, CleanupInv, MaintenanceMovesInv, EnsureInv DEF MaintenanceSteps
<1>4. CASE Initialize \/ Shutdown \/ OwnerSteps
  BY <1>4, OwnerMovesInv, InitializeInv, ShutdownInv DEF OwnerSteps
<1>5. ASSUME NEW c \in Conn, PeerGoes(c) \/ IdleTimeoutPasses(c) PROVE PoolInv'
  BY <1>5, EnvironmentInv
<1> QED BY <1>1, <1>2, <1>3, <1>4, <1>5 DEF Next

\* The invariant holds for any callers, limits and number of restarts.
THEOREM PoolInvariance == Spec => []PoolInv
BY InitInv, NextInv, PTL DEF Spec

\* Every connection and every pending acquire of the pool is in one place, where
\* somebody finds it, whatever acquire, acquireSync, release, the maintenance
\* thread, initialize() and shutdown() do meanwhile.
THEOREM EachInOnePlace == Spec => []OnePlace
BY PoolInvariance, InvOnePlace, PTL

-----------------------------------------------------------------------------
CONSTANTS App, Poller, Callback, MaxUdpCalls, MaxDatagrams
VARIABLES socket, at, wire, history

Udp == INSTANCE UdpSocket WITH u <- socket, h <- history

UdpLabel == {"idle", "check", "kernel", "insert", "failed", "remove", "handle", "recv", "callback"}

\* The registration while t is in a call, and when nobody is.
UdpRegistered(t) ==
    /\ at[t] \in {"check", "kernel", "failed"} => socket.receiving /\ ~socket.inMap /\ ~socket.inKernel
    /\ at[t] = "insert" => socket.receiving /\ ~socket.inMap /\ socket.inKernel
    /\ at[t] = "remove" => ~socket.receiving /\ socket.inMap /\ socket.inKernel
    /\ at[t] \notin {"handle", "recv", "callback"}

UdpInv ==
    /\ socket \in [bound : BOOLEAN, receiving : BOOLEAN, inMap : BOOLEAN, inKernel : BOOLEAN]
    /\ at \in [Udp!Caller \cup {Poller} -> UdpLabel]
    /\ history \in [calls : Nat, came : Nat, late : Nat]
    /\ \A t, v \in Udp!Caller : at[t] # "idle" /\ at[v] # "idle" => t = v
    /\ \A t \in Udp!Caller : UdpRegistered(t)
    /\ (\A t \in Udp!Caller : at[t] = "idle") => socket.receiving = socket.inMap /\ socket.inMap = socket.inKernel
    /\ socket.receiving \/ at[Poller] = "recv" => history.late = 0
    /\ history.late <= 1

\* A socket that was just made satisfies the invariant.
LEMMA UdpInitInv == Udp!UdpInit => UdpInv
BY DEF Udp!UdpInit, UdpInv, UdpRegistered, UdpLabel

\* What every call of the application begins with.
LEMMA UdpCallFacts ==
  ASSUME UdpInv, NEW t \in Udp!Caller, NEW late \in Nat, Udp!Call(t, late)
  PROVE  /\ history' \in [calls : Nat, came : Nat, late : Nat] /\ history'.late = late
         /\ \A v \in Udp!Caller : at[v] = "idle"
         /\ socket.receiving = socket.inMap /\ socket.inMap = socket.inKernel
<1>1. history' = [calls |-> history.calls + 1, came |-> history.came, late |-> late]
  BY Zenon DEF Udp!Call, UdpInv
<1> QED BY <1>1 DEF Udp!Call, UdpInv

\* The first step of a call keeps the invariant.
LEMMA UdpCallsInv ==
  ASSUME Poller \notin Udp!Caller, UdpInv, NEW t \in Udp!Caller,
         Udp!Bind(t) \/ Udp!StartReceive(t) \/ Udp!StopReceive(t)
  PROVE  UdpInv'
<1>1. history.late \in Nat /\ 0 \in Nat
  BY Zenon DEF UdpInv
<1>2. CASE Udp!Bind(t)
  <2>1. /\ history' \in [calls : Nat, came : Nat, late : Nat] /\ history'.late = history.late
        /\ \A v \in Udp!Caller : at[v] = "idle"
    BY <1>1, <1>2, UdpCallFacts DEF Udp!Bind
  <2>2. /\ socket' \in [bound : BOOLEAN, receiving : BOOLEAN, inMap : BOOLEAN, inKernel : BOOLEAN]
        /\ UNCHANGED <<at, socket.receiving, socket.inMap, socket.inKernel>>
    BY ZenonT(30), <1>2 DEF Udp!Bind, UdpInv
  <2> QED BY <2>1, <2>2 DEF UdpInv, UdpRegistered
<1>3. CASE Udp!StartReceive(t)
  <2> DEFINE late == IF socket.bound THEN 0 ELSE history.late
  <2>1. /\ history' \in [calls : Nat, came : Nat, late : Nat] /\ history'.late = late
        /\ \A v \in Udp!Caller : at[v] = "idle"
        /\ socket.receiving = socket.inMap /\ socket.inMap = socket.inKernel
    BY Zenon, <1>1, <1>3, UdpCallFacts DEF Udp!StartReceive
  <2>2. history'.late <= 1 /\ (history.late = 0 => history'.late = 0)
    BY <2>1 DEF UdpInv
  <2>3. CASE socket.bound /\ ~socket.receiving
    <3>1. socket' = [bound |-> TRUE, receiving |-> TRUE, inMap |-> FALSE, inKernel |-> FALSE]
      BY <1>3, <2>1, <2>3 DEF Udp!StartReceive, UdpInv
    <3>2. at' = [at EXCEPT ![t] = "check"] /\ history'.late = 0
      BY <1>3, <2>1, <2>3 DEF Udp!StartReceive, Udp!Goto
    <3> QED BY <2>1, <3>1, <3>2 DEF UdpInv, UdpRegistered, UdpLabel
  <2>4. CASE ~(socket.bound /\ ~socket.receiving)
    <3>1. UNCHANGED <<socket, at>>
      BY <1>3, <2>4 DEF Udp!StartReceive
    <3> QED BY Zenon, <2>1, <2>2, <3>1 DEF UdpInv, UdpRegistered
  <2> QED BY <2>3, <2>4
<1>4. CASE Udp!StopReceive(t)
  <2>1. /\ history' \in [calls : Nat, came : Nat, late : Nat] /\ history'.late = history.late
        /\ \A v \in Udp!Caller : at[v] = "idle"
        /\ socket.receiving = socket.inMap /\ socket.inMap = socket.inKernel
    BY <1>1, <1>4, UdpCallFacts DEF Udp!StopReceive
  <2>2. socket' = [bound |-> socket.bound, receiving |-> FALSE, inMap |-> socket.inMap, inKernel |-> socket.inKernel]
    BY Zenon, <1>4 DEF Udp!StopReceive, UdpInv
  <2>3. at' = IF socket.receiving THEN [at EXCEPT ![t] = "remove"] ELSE at
    BY <1>4 DEF Udp!StopReceive, Udp!Goto
  <2>4. socket.bound \in BOOLEAN /\ socket.inMap \in BOOLEAN /\ socket.inKernel \in BOOLEAN
    BY DEF UdpInv
  <2>5. CASE socket.receiving
    BY ZenonT(30), <2>1, <2>2, <2>3, <2>4, <2>5 DEF UdpInv, UdpRegistered, UdpLabel
  <2>6. CASE ~socket.receiving
    BY ZenonT(30), <2>1, <2>2, <2>3, <2>4, <2>6 DEF UdpInv, UdpRegistered, UdpLabel
  <2> QED BY <2>5, <2>6
<1> QED BY <1>2, <1>3, <1>4

\* The phases of add() and remove() keep the invariant.
LEMMA UdpPhasesInv ==
  ASSUME Poller \notin Udp!Caller, UdpInv, NEW t \in Udp!Caller,
         Udp!AddCheck(t) \/ Udp!AddKernel(t) \/ Udp!AddInsert(t) \/ Udp!AddFailed(t) \/ Udp!RemoveRegistration(t)
  PROVE  UdpInv'
<1> USE DEF UdpInv, UdpRegistered, UdpLabel, Udp!Goto
<1>1. CASE Udp!AddCheck(t)
  BY Zenon, <1>1 DEF Udp!AddCheck
<1>2. CASE Udp!AddKernel(t)
  <2>1. socket.receiving = TRUE /\ socket.inMap = FALSE /\ socket.inKernel = FALSE /\ socket.bound \in BOOLEAN
    BY <1>2 DEF Udp!AddKernel
  <2>2. CASE Udp!Goto(t, "failed") /\ UNCHANGED socket
    BY <1>2, <2>1, <2>2 DEF Udp!AddKernel
  <2>3. CASE Udp!Goto(t, "insert") /\ socket' = [socket EXCEPT !.inKernel = TRUE]
    <3>1. socket' = [bound |-> socket.bound, receiving |-> TRUE, inMap |-> FALSE, inKernel |-> TRUE]
      BY Zenon, <2>1, <2>3
    <3> QED BY Zenon, <1>2, <2>1, <2>3, <3>1 DEF Udp!AddKernel
  <2> QED BY <1>2, <2>2, <2>3 DEF Udp!AddKernel
<1>3. CASE Udp!AddInsert(t)
  <2>1. socket.receiving = TRUE /\ socket.inMap = FALSE /\ socket.inKernel = TRUE /\ socket.bound \in BOOLEAN
    BY <1>3 DEF Udp!AddInsert
  <2>2. socket' = [bound |-> socket.bound, receiving |-> TRUE, inMap |-> TRUE, inKernel |-> TRUE]
    BY <1>3, <2>1 DEF Udp!AddInsert
  <2> QED BY <1>3, <2>1, <2>2 DEF Udp!AddInsert
<1>4. CASE Udp!AddFailed(t)
  BY Zenon, <1>4 DEF Udp!AddFailed
<1>5. CASE Udp!RemoveRegistration(t)
  <2>1. socket.receiving = FALSE /\ socket.inMap = TRUE /\ socket.bound \in BOOLEAN
    BY <1>5 DEF Udp!RemoveRegistration
  <2>2. socket' = [bound |-> socket.bound, receiving |-> FALSE, inMap |-> FALSE, inKernel |-> FALSE]
    BY Zenon, <1>5, <2>1 DEF Udp!RemoveRegistration
  <2> QED BY ZenonT(30), <1>5, <2>1, <2>2 DEF Udp!RemoveRegistration
<1> QED BY ZenonT(30), <1>1, <1>2, <1>3, <1>4, <1>5

\* The poller's thread and the peers keep it.
LEMMA UdpPollerInv ==
  ASSUME Poller \notin Udp!Caller, UdpInv,
         Udp!DatagramArrives \/ Udp!PollEvent \/ Udp!HandlePollEvents \/ Udp!RecvFrom \/ Udp!CallbackReturns
  PROVE  UdpInv'
<1> USE DEF UdpInv, UdpRegistered, UdpLabel, Udp!Goto
<1>1. CASE Udp!DatagramArrives
  BY <1>1 DEF Udp!DatagramArrives
<1>2. CASE Udp!PollEvent
  BY ZenonT(30), <1>2 DEF Udp!PollEvent
<1>3. CASE Udp!HandlePollEvents
  BY ZenonT(30), <1>3 DEF Udp!HandlePollEvents
<1>4. CASE Udp!RecvFrom
  <2>1. history.late = 0 /\ UNCHANGED socket /\ history'.late \in {0, 1} /\ (socket.receiving => history'.late = 0)
        /\ history' \in [calls : Nat, came : Nat, late : Nat]
    BY <1>4 DEF Udp!RecvFrom
  <2>2. at' = [at EXCEPT ![Poller] = "callback"] \/ at' = [at EXCEPT ![Poller] = "idle"]
    BY <1>4 DEF Udp!RecvFrom
  <2> QED BY <2>1, <2>2
<1>5. CASE Udp!CallbackReturns
  BY ZenonT(30), <1>5 DEF Udp!CallbackReturns
<1> QED BY Zenon, <1>1, <1>2, <1>3, <1>4, <1>5

\* After stopReceive() the callback gets at most the datagram for which
\* receiving_ was tested before, and the registration with the poller is that
\* of isReceiving() when the calls have returned: for any application threads
\* and any number of calls and datagrams, the poller's thread running beside
\* calls that do not overlap.
THEOREM StoppedStaysStopped ==
  ASSUME Poller \notin Udp!Caller
  PROVE  Udp!UdpInit /\ [][Udp!UdpNext]_(Udp!udpVars) => []Udp!StopReceiveStops
<1>1. UdpInv /\ [Udp!UdpNext]_(Udp!udpVars) => UdpInv'
  <2> SUFFICES ASSUME UdpInv, [Udp!UdpNext]_(Udp!udpVars) PROVE UdpInv'
    BY ZenonT(30)
  <2>1. CASE UNCHANGED Udp!udpVars
    BY <2>1 DEF Udp!udpVars, UdpInv, UdpRegistered
  <2> QED BY <2>1, UdpCallsInv, UdpPhasesInv, UdpPollerInv DEF Udp!UdpNext
<1>2. UdpInv => Udp!StopReceiveStops
  BY DEF UdpInv, Udp!StopReceiveStops
<1> QED BY <1>1, <1>2, UdpInitInv, PTL
=============================================================================
