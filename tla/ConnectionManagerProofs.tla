---------------------- MODULE ConnectionManagerProofs ----------------------
(* Proofs, for any services, backends and limits, of ConnectionManager's   *)
(* safety.                                                                 *)
EXTENDS ConnectionManager, QueueFacts, FiniteSetTheorems

\* Induction over the naturals, for a set of them.
LEMMA NatSetInduction ==
  ASSUME NEW S \in SUBSET Nat, 0 \in S, \A n \in S : n + 1 \in S
  PROVE  S = Nat
<1> SUFFICES ASSUME S # Nat PROVE FALSE
  OBVIOUS
<1> DEFINE T == Nat \ S
           R == OpToRel(<, Nat)
<1>1. PICK n \in T : \A m \in T : ~(<<m, n>> \in R)
  <2>1. T \subseteq Nat /\ T # {} /\ IsWellFoundedOn(R, Nat)
    BY Zenon, NatLessThanWellFounded
  <2> HIDE DEF T, R
  <2> QED BY Zenon, <2>1, WFMin
<1>2. \A m \in T : ~(m < n)
  BY Zenon, <1>1 DEF OpToRel
<1>3. n # 0 /\ n - 1 \in Nat /\ (n - 1) + 1 = n
  OBVIOUS
<1>4. n - 1 \in T
  BY <1>3
<1> QED BY <1>2, <1>3, <1>4

\* One round of Erase's recursion.
EraseStep(q, gone, F, i) ==
    IF i = 0 THEN <<>> ELSE IF q[i] \in gone THEN F[i - 1] ELSE Append(F[i - 1], q[i])

\* The recursion of Erase is well defined.
LEMMA EraseRecursion ==
  ASSUME NEW q, NEW gone, Len(q) \in Nat
  PROVE  \E F : F = [i \in 0..Len(q) |-> EraseStep(q, gone, F, i)]
<1> DEFINE Rec(F, n) == F = [i \in 0..n |-> EraseStep(q, gone, F, i)]
           Good == {n \in Nat : \E F : Rec(F, n)}
<1>1. 0 \in Good
  <2> DEFINE F == [i \in 0..0 |-> <<>>]
  <2>1. Rec(F, 0)
    BY DEF EraseStep
  <2> HIDE DEF Rec
  <2> QED BY <2>1
<1>2. ASSUME NEW n \in Good PROVE n + 1 \in Good
  <2>1. PICK F : Rec(F, n)
    OBVIOUS
  <2> DEFINE G == [i \in 0..n+1 |-> IF i <= n THEN F[i] ELSE EraseStep(q, gone, F, n + 1)]
  <2>2. n \in Nat /\ \A i \in 0..n : F[i] = EraseStep(q, gone, F, i)
    BY <2>1
  <2>3. \A i \in 0..n : G[i] = F[i]
    BY <2>2
  <2>3a. G[n + 1] = EraseStep(q, gone, F, n + 1)
    BY <2>2
  <2>4. \A i \in 0..n+1 : G[i] = EraseStep(q, gone, G, i)
    <3> TAKE i \in 0..n+1
    <3>1. CASE i = 0
      BY <3>1, <2>2, <2>3 DEF EraseStep
    <3>2. CASE i # 0
      <4>1. i - 1 \in 0..n /\ G[i - 1] = F[i - 1]
        BY <3>2, <2>2, <2>3
      <4>2. EraseStep(q, gone, G, i) = EraseStep(q, gone, F, i)
        BY <3>2, <4>1 DEF EraseStep
      <4>3. CASE i <= n
        <5>1. i \in 0..n
          BY <4>3, <2>2
        <5> QED BY <5>1, <4>2, <2>2, <2>3
      <4>4. CASE i = n + 1
        BY <4>4, <4>2, <2>3a
      <4> QED BY <4>3, <4>4, <2>2
    <3> QED BY <3>1, <3>2
  <2>5. Rec(G, n + 1)
    <3>1. G = [i \in 0..n+1 |-> G[i]]
      OBVIOUS
    <3> HIDE DEF G
    <3> QED BY <3>1, <2>4
  <2> HIDE DEF Rec, G
  <2> QED BY <2>2, <2>5
<1>3. Good \subseteq Nat
  OBVIOUS
<1> HIDE DEF Good
<1>4. Good = Nat
  BY <1>1, <1>2, <1>3, NatSetInduction
<1> QED BY <1>4 DEF Good

\* What is left are the other elements, and none is repeated that was not before.
LEMMA EraseFacts ==
  ASSUME NEW S, NEW q \in Seq(S), NEW gone
  PROVE  /\ Erase(q, gone) \in Seq(S)
         /\ \A x : (\E i \in 1..Len(Erase(q, gone)) : Erase(q, gone)[i] = x)
               <=> x \notin gone /\ \E i \in 1..Len(q) : q[i] = x
         /\ (\A i, j \in 1..Len(q) : q[i] = q[j] => i = j) =>
               \A i, j \in 1..Len(Erase(q, gone)) : Erase(q, gone)[i] = Erase(q, gone)[j] => i = j
<1> DEFINE Rec(F) == F = [i \in 0..Len(q) |-> EraseStep(q, gone, F, i)]
           F == CHOOSE G : Rec(G)
           Inj(s) == \A i, j \in 1..Len(s) : s[i] = s[j] => i = j
           Sound(n) ==
               /\ F[n] \in Seq(S)
               /\ \A x : (\E i \in 1..Len(F[n]) : F[n][i] = x)
                     <=> x \notin gone /\ \E i \in 1..n : q[i] = x
               /\ Inj(q) => Inj(F[n])
           Good == {n \in Nat : n <= Len(q) => Sound(n)}
<1>1. Len(q) \in Nat /\ \A i \in 1..Len(q) : q[i] \in S
  BY SeqType
<1>2. Rec(F)
  <2>1. \E G : Rec(G)
    BY Zenon, <1>1, EraseRecursion
  <2> HIDE DEF Rec
  <2> QED BY <2>1
<1>3. Erase(q, gone) = F[Len(q)]
  BY DEF Erase, EraseStep
<1> HIDE DEF F
<1>4. \A i \in 0..Len(q) : F[i] = EraseStep(q, gone, F, i)
  BY <1>2
<1>5. 0 \in Good
  <2>0. F[0] = <<>>
    BY <1>1, <1>4 DEF EraseStep
  <2>1. F[0] \in Seq(S) /\ Len(F[0]) = 0
    BY <2>0
  <2>2. \A i : i \notin 1..0
    OBVIOUS
  <2>3. Sound(0)
    BY <2>1, <2>2
  <2> HIDE DEF Sound
  <2> QED BY <2>3
<1>6. ASSUME NEW n \in Good PROVE n + 1 \in Good
  <2> SUFFICES ASSUME n + 1 <= Len(q) PROVE Sound(n + 1)
    OBVIOUS
  <2>1. n \in Nat /\ n + 1 \in 1..Len(q) /\ n <= Len(q) /\ n + 1 # 0 /\ (n + 1) - 1 = n
    BY <1>1
  <2>2. Sound(n)
    BY <2>1
  <2>3. F[n + 1] = IF q[n + 1] \in gone THEN F[n] ELSE Append(F[n], q[n + 1])
    BY <1>4, <2>1 DEF EraseStep
  <2>4. \A i : i \in 1..n + 1 <=> i \in 1..n \/ i = n + 1
    BY <2>1
  <2>5. CASE q[n + 1] \in gone
    BY <2>2, <2>3, <2>4, <2>5
  <2>6. CASE q[n + 1] \notin gone
    <3> DEFINE s == F[n]
               t == F[n + 1]
               e == q[n + 1]
    <3>1. s \in Seq(S) /\ e \in S /\ Len(s) \in Nat
      BY <2>1, <2>2, <1>1, SeqType
    <3>2. /\ t \in Seq(S) /\ Len(t) = Len(s) + 1 /\ t[Len(s) + 1] = e
          /\ \A i \in 1..Len(s) : t[i] = s[i]
      BY <3>1, <2>3, <2>6, SeqAppend
    <3>3. \A x : (\E i \in 1..Len(s) : s[i] = x) <=> x \notin gone /\ \E i \in 1..n : q[i] = x
      BY <2>2
    <3>4. Inj(q) => Inj(s)
      BY <2>2
    <3> HIDE DEF s, t
    <3>5. \A i : i \in 1..Len(t) <=> i \in 1..Len(s) \/ i = Len(s) + 1
      BY <3>1, <3>2
    <3>6. \A x : (\E i \in 1..Len(t) : t[i] = x) <=> x \notin gone /\ \E i \in 1..n + 1 : q[i] = x
      <4> TAKE x
      <4>1. (\E i \in 1..Len(t) : t[i] = x) <=> (\E i \in 1..Len(s) : s[i] = x) \/ x = e
        BY Zenon, <3>2, <3>5
      <4>2. (\E i \in 1..n + 1 : q[i] = x) <=> (\E i \in 1..n : q[i] = x) \/ x = e
        BY <2>4
      <4> QED BY Zenon, <4>1, <4>2, <3>3, <2>6
    <3>7. ASSUME Inj(q) PROVE Inj(t)
      <4>1. \A i \in 1..Len(s) : s[i] # e
        <5> SUFFICES ASSUME NEW i \in 1..Len(s), s[i] = e PROVE FALSE
          OBVIOUS
        <5>1. PICK j \in 1..n : q[j] = e
          BY Zenon, <3>3
        <5>2. j \in 1..Len(q) /\ j # n + 1
          BY <2>1
        <5> QED BY <5>1, <5>2, <3>7, <2>1
      <4> QED BY <4>1, <3>2, <3>4, <3>5, <3>7
    <3> QED BY <3>2, <3>6, <3>7 DEF s, t
  <2> QED BY <2>5, <2>6
<1> HIDE DEF Sound
<1>7. Good = Nat
  <2>1. Good \subseteq Nat
    OBVIOUS
  <2> HIDE DEF Good
  <2> QED BY <2>1, <1>5, <1>6, NatSetInduction
<1>8. Sound(Len(q))
  BY <1>1, <1>7
<1> QED BY <1>3, <1>8 DEF Sound

\* Erasing.
LEMMA EraseEntries ==
  ASSUME NEW S, NEW q \in Seq(S), NEW gone
  PROVE  /\ Erase(q, gone) \in Seq(S) /\ Entries(Erase(q, gone)) = Entries(q) \ gone
         /\ NoRepeats(q) => NoRepeats(Erase(q, gone))
<1> DEFINE e == Erase(q, gone)
<1>1. /\ e \in Seq(S)
      /\ \A x : (\E i \in 1..Len(e) : e[i] = x) <=> x \notin gone /\ \E i \in 1..Len(q) : q[i] = x
      /\ NoRepeats(q) => NoRepeats(e)
  BY Zenon, EraseFacts DEF NoRepeats
<1> HIDE DEF e
<1>2. \A x : x \in Entries(e) <=> x \in Entries(q) /\ x \notin gone
  BY <1>1 DEF Entries
<1> QED BY <1>1, <1>2 DEF e

\* What removeConnectionLocked leaves, for a set of connections: their
\* services' counters are again the numbers of their connections.
LEMMA Removal ==
  ASSUME PoolOK, NEW gone \in SUBSET Ids
  PROVE  /\ IsFiniteSet(Ids \ gone)
         /\ Kept(gone) \in [Ids \ gone -> Connection]
         /\ \A id \in Ids \ gone : Kept(gone)[id] = connections[id]
         /\ KeptTotal(gone) \in [Service -> Nat]
         /\ \A s \in Service :
              /\ KeptTotal(gone)[s] = Cardinality(ConnectionsOf(s) \ gone)
              /\ KeptTotal(gone)[s] <= MaxPoolSize
<1>1. IsFiniteSet(Ids) /\ connections \in [Ids -> Connection]
  BY DEF PoolOK
<1>2. IsFiniteSet(Ids \ gone)
  BY <1>1, FS_Difference
<1>3. Kept(gone) \in [Ids \ gone -> Connection] /\ \A id \in Ids \ gone : Kept(gone)[id] = connections[id]
  BY <1>1 DEF Kept, Restrict
<1>4. ASSUME NEW s \in Service
      PROVE  /\ KeptTotal(gone)[s] = Cardinality(ConnectionsOf(s) \ gone)
             /\ KeptTotal(gone)[s] \in Nat
             /\ KeptTotal(gone)[s] <= MaxPoolSize
  <2> DEFINE removed == {id \in gone : connections[id].service = s}
  <2>1. IsFiniteSet(ConnectionsOf(s))
    BY <1>1, FS_Subset DEF ConnectionsOf
  <2>2. ConnectionsOf(s) \cap gone = removed /\ removed \subseteq ConnectionsOf(s)
    BY DEF ConnectionsOf
  <2>3. Cardinality(ConnectionsOf(s) \ gone) = Cardinality(ConnectionsOf(s)) - Cardinality(removed)
    BY Zenon, <2>1, <2>2, FS_Difference
  <2>4. Cardinality(removed) \in Nat /\ Cardinality(removed) <= Cardinality(ConnectionsOf(s))
    BY <2>1, <2>2, FS_Subset, FS_CardinalityType
  <2>5. /\ totalConnections[s] = Cardinality(ConnectionsOf(s)) /\ totalConnections[s] <= MaxPoolSize
        /\ totalConnections[s] \in Nat
    BY DEF PoolOK, PoolBounded
  <2>6. KeptTotal(gone)[s] = Monus(totalConnections[s], Cardinality(removed))
    BY DEF KeptTotal
  <2> HIDE DEF removed
  <2> QED BY <2>3, <2>4, <2>5, <2>6, Limits DEF Monus
<1>5. KeptTotal(gone) \in [Service -> Nat]
  BY Zenon, <1>4 DEF KeptTotal
<1> QED BY <1>2, <1>3, <1>4, <1>5

\* A removal keeps the pool's bookkeeping, whether or not connections that
\* stay are marked active.
LEMMA RemovalPool ==
  ASSUME PoolOK, NEW gone \in SUBSET Ids,
         Ids' = Ids \ gone, connections' \in [Ids' -> Connection],
         \A id \in Ids' : connections'[id].service = connections[id].service,
         totalConnections' = KeptTotal(gone), UNCHANGED nextConnectionId
  PROVE  PoolOK'
<1>1. IsFiniteSet(Ids') /\ totalConnections' \in [Service -> Nat]
  BY Zenon, Removal
<1>2. ASSUME NEW s \in Service
      PROVE  /\ totalConnections'[s] = Cardinality(ConnectionsOf(s)')
             /\ totalConnections'[s] <= MaxPoolSize
  <2>1. ConnectionsOf(s)' = ConnectionsOf(s) \ gone
    BY DEF ConnectionsOf
  <2>2. /\ KeptTotal(gone)[s] = Cardinality(ConnectionsOf(s) \ gone)
        /\ KeptTotal(gone)[s] <= MaxPoolSize
    BY Zenon, Removal
  <2> QED BY <2>1, <2>2
<1>3. PoolBounded'
  BY <1>2 DEF PoolBounded
<1> QED BY <1>1, <1>3 DEF PoolOK

\* So does whatever keeps the connections, their services and the counters.
LEMMA SamePool ==
  ASSUME PoolOK, Ids' = Ids, connections' \in [Ids' -> Connection],
         \A id \in Ids' : connections'[id].service = connections[id].service,
         UNCHANGED <<totalConnections, nextConnectionId>>
  PROVE  PoolOK'
<1>1. ASSUME NEW s \in Service PROVE ConnectionsOf(s)' = ConnectionsOf(s)
  BY DEF ConnectionsOf
<1>2. PoolBounded'
  BY <1>1 DEF PoolBounded, PoolOK
<1> QED BY <1>2 DEF PoolOK

\* removeConnectionLocked, in a loop over the connections of gone.
LEMMA RemoveConnectionsPool ==
  ASSUME PoolOK, NEW gone \in SUBSET Ids, connections' = Kept(gone),
         totalConnections' = KeptTotal(gone), UNCHANGED nextConnectionId
  PROVE  /\ PoolOK'
         /\ Ids' = Ids \ gone /\ \A id \in Ids' : connections'[id] = connections[id]
<1>1. Ids' = Ids \ gone /\ connections' \in [Ids' -> Connection]
  BY Zenon, Removal DEF Ids
<1>2. \A id \in Ids' : connections'[id] = connections[id]
  BY Zenon, <1>1, Removal
<1>3. PoolOK'
  BY <1>1, <1>2, RemovalPool
<1> QED BY <1>1, <1>2, <1>3

\* acquireConnection hands out an idle connection.
LEMMA AcquireIdlePool ==
  ASSUME PoolOK, NEW s \in Service, NEW k \in Nat, AcquireIdle(s, k)
  PROVE  /\ PoolOK' /\ Ids' \subseteq Ids
         /\ \A id \in Ids' : /\ connections'[id].service = connections[id].service
                             /\ connections'[id].backend = connections[id].backend
                             /\ connections[id].isActive => connections'[id].isActive
<1> DEFINE gone == Stale(s, k - 1)
           it == idleConnections[s][k]
<1>1. gone \in SUBSET Ids
  BY DEF Stale
<1>2. /\ connections' = [Kept(gone) EXCEPT ![it].isActive = TRUE]
      /\ totalConnections' = KeptTotal(gone) /\ UNCHANGED nextConnectionId
  BY DEF AcquireIdle
<1>3. /\ Kept(gone) \in [Ids \ gone -> Connection]
      /\ \A id \in Ids \ gone : Kept(gone)[id] = connections[id]
  BY <1>1, Removal
<1> HIDE DEF gone, it
<1>4. Ids' = Ids \ gone /\ connections' \in [Ids' -> Connection]
  BY Zenon, <1>2, <1>3 DEF Ids, Connection
<1>5. \A id \in Ids' : /\ connections'[id].service = connections[id].service
                       /\ connections'[id].backend = connections[id].backend
                       /\ connections[id].isActive => connections'[id].isActive
  BY <1>2, <1>3, <1>4 DEF Connection
<1>6. PoolOK'
  BY Zenon, <1>1, <1>2, <1>4, <1>5, RemovalPool
<1> QED BY <1>4, <1>5, <1>6

\* acquireConnection creates a connection or gives up.
LEMMA AcquireNewPool ==
  ASSUME PoolOK, healthy \in [Service -> SUBSET Backend], NEW s \in Service, AcquireNew(s)
  PROVE  /\ PoolOK'
         /\ \A id \in Ids' : \/ id \in Ids /\ connections'[id] = connections[id]
                             \/ connections'[id].isActive
<1> DEFINE gone == Stale(s, Len(idleConnections[s]))
<1>1. gone \in SUBSET Ids
  BY DEF Stale
<1>2. CASE /\ connections' = Kept(gone) /\ totalConnections' = KeptTotal(gone)
           /\ UNCHANGED nextConnectionId
  BY <1>1, <1>2, RemoveConnectionsPool
<1>3. ASSUME NEW b \in SelectBackend(s),
             KeptTotal(gone)[s] < MaxPoolSize,
             connections' = Created(Kept(gone), s, b),
             totalConnections' = [KeptTotal(gone) EXCEPT ![s] = @ + 1],
             nextConnectionId' = nextConnectionId + 1
      PROVE  /\ PoolOK'
             /\ \A id \in Ids' : \/ id \in Ids /\ connections'[id] = connections[id]
                                 \/ connections'[id].isActive
  <2> DEFINE new == nextConnectionId
  <2>1. /\ IsFiniteSet(Ids \ gone)
        /\ Kept(gone) \in [Ids \ gone -> Connection]
        /\ \A id \in Ids \ gone : Kept(gone)[id] = connections[id]
        /\ KeptTotal(gone) \in [Service -> Nat]
    BY Zenon, <1>1, Removal
  <2>2. b \in Backend /\ new \in Nat /\ new \notin Ids /\ \A id \in Ids : id \in Nat /\ id < new
    BY DEF SelectBackend, PoolOK
  <2> HIDE DEF gone
  <2>3. Ids' = (Ids \ gone) \cup {new} /\ connections' \in [Ids' -> Connection]
    BY <1>3, <2>1, <2>2 DEF Ids, Created, Connection
  <2>4. /\ connections'[new].service = s /\ connections'[new].isActive
        /\ \A id \in Ids \ gone : connections'[id] = connections[id]
    BY <1>3, <2>1, <2>2, <2>3 DEF Created
  <2>5. IsFiniteSet(Ids')
    BY <2>1, <2>3, FS_AddElement
  <2>6. ASSUME NEW t \in Service
        PROVE  /\ totalConnections'[t] = Cardinality(ConnectionsOf(t)')
               /\ totalConnections'[t] <= MaxPoolSize
    <3>1. /\ KeptTotal(gone)[t] = Cardinality(ConnectionsOf(t) \ gone)
          /\ KeptTotal(gone)[t] <= MaxPoolSize /\ KeptTotal(gone)[t] \in Nat
      BY Zenon, <1>1, Removal
    <3>2. CASE t = s
      <4>1. ConnectionsOf(s)' = (ConnectionsOf(s) \ gone) \cup {new}
        BY <2>3, <2>4 DEF ConnectionsOf
      <4>2. IsFiniteSet(ConnectionsOf(s) \ gone)
        BY <2>1, FS_Subset DEF ConnectionsOf
      <4>3. new \notin ConnectionsOf(s) \ gone
        BY <2>2 DEF ConnectionsOf
      <4>4. Cardinality(ConnectionsOf(s)') = Cardinality(ConnectionsOf(s) \ gone) + 1
        BY Zenon, <4>1, <4>2, <4>3, FS_AddElement
      <4>5. totalConnections'[s] = KeptTotal(gone)[s] + 1
        BY <1>3, <2>1
      <4> QED BY <1>3, <3>1, <3>2, <4>4, <4>5, Limits
    <3>3. CASE t # s
      <4>1. ConnectionsOf(t)' = ConnectionsOf(t) \ gone
        BY <2>2, <2>3, <2>4, <3>3 DEF ConnectionsOf
      <4>2. totalConnections'[t] = KeptTotal(gone)[t]
        BY <1>3, <2>1, <3>3
      <4> QED BY <3>1, <4>1, <4>2
    <3> QED BY <3>2, <3>3
  <2>7. PoolBounded'
    BY <2>6 DEF PoolBounded
  <2>8. totalConnections' \in [Service -> Nat]
    BY <1>3, <2>1
  <2>9. nextConnectionId' \in Nat /\ \A id \in Ids' : id \in Nat /\ id < nextConnectionId'
    BY <1>3, <2>2, <2>3
  <2>10. PoolOK'
    BY <2>3, <2>5, <2>7, <2>8, <2>9 DEF PoolOK
  <2> QED BY <2>3, <2>4, <2>10
<1> QED BY <1>2, <1>3 DEF AcquireNew

\* What the operations keep of the backends, the pool and the idle connections.
Sound ==
  /\ backends \in [Service -> SUBSET Backend] /\ healthy \in [Service -> SUBSET Backend]
  /\ PoolOK /\ IdleUsable

\* Operations that do not touch connections and make no backend unhealthy.
LEMMA SameConnections ==
  ASSUME Sound, UNCHANGED <<connections, totalConnections, nextConnectionId>>,
         backends' \in [Service -> SUBSET Backend], healthy' \in [Service -> SUBSET Backend],
         \A s \in Service : healthy[s] \subseteq healthy'[s]
  PROVE  Sound'
<1>1. Ids' = Ids /\ connections' \in [Ids' -> Connection] /\ connections \in [Ids -> Connection]
  BY DEF Ids, Sound, PoolOK
<1>2. PoolOK'
  BY <1>1, SamePool DEF Sound
<1>3. IdleUsable'
  BY Zenon, <1>1 DEF IdleUsable, Sound, Connection
<1> QED BY <1>2, <1>3 DEF Sound

\* Operations that remove connections, the idle ones of every backend they
\* make unhealthy among them.
LEMMA SweptConnections ==
  ASSUME Sound, NEW gone \in SUBSET Ids, connections' = Kept(gone),
         totalConnections' = KeptTotal(gone), UNCHANGED nextConnectionId,
         backends' \in [Service -> SUBSET Backend], healthy' \in [Service -> SUBSET Backend],
         \A s \in Service : \A b \in healthy[s] \ healthy'[s] : IdleTo(s, b) \subseteq gone
  PROVE  Sound'
<1>1. PoolOK' /\ Ids' = Ids \ gone /\ \A id \in Ids' : connections'[id] = connections[id]
  BY RemoveConnectionsPool DEF Sound
<1>2. ASSUME NEW id \in Ids', ~connections'[id].isActive
      PROVE  connections'[id].backend \in healthy'[connections'[id].service]
  <2> DEFINE s == connections[id].service
             b == connections[id].backend
  <2>1. id \in Ids /\ id \notin gone /\ connections'[id] = connections[id]
    BY <1>1
  <2>2. s \in Service /\ b \in healthy[s]
    BY <1>2, <2>1 DEF Sound, PoolOK, IdleUsable, Connection
  <2>3. id \in IdleTo(s, b)
    BY <1>2, <2>1 DEF IdleTo, ConnectionsTo
  <2> QED BY <2>1, <2>2, <2>3
<1>3. IdleUsable'
  BY <1>2 DEF IdleUsable
<1> QED BY <1>1, <1>3 DEF Sound

\* acquireConnection.
LEMMA AcquireSound ==
  ASSUME Sound, NEW s \in Service, Acquire(s)
  PROVE  Sound'
<1>1. UNCHANGED <<backends, healthy>>
  BY Zenon DEF Acquire, AcquireRefused, AcquireIdle, AcquireNew, Prepare
<1>2. CASE AcquireRefused(s)
  BY <1>1, <1>2, SameConnections DEF AcquireRefused, poolVars, Sound
<1>3. ASSUME NEW k \in 1..Len(idleConnections[s]), AcquireIdle(s, k) PROVE Sound'
  <2>1. k \in Nat
    OBVIOUS
  <2>2. /\ PoolOK' /\ Ids' \subseteq Ids
        /\ \A id \in Ids' : /\ connections'[id].service = connections[id].service
                            /\ connections'[id].backend = connections[id].backend
                            /\ connections[id].isActive => connections'[id].isActive
    BY <1>3, <2>1, AcquireIdlePool DEF Sound
  <2>3. IdleUsable'
    BY <1>1, <2>2 DEF IdleUsable, Sound
  <2> QED BY <1>1, <2>2, <2>3 DEF Sound
<1>4. CASE AcquireNew(s)
  <2>1. /\ PoolOK'
        /\ \A id \in Ids' : \/ id \in Ids /\ connections'[id] = connections[id]
                            \/ connections'[id].isActive
    BY <1>4, AcquireNewPool DEF Sound
  <2>2. IdleUsable'
    BY <1>1, <2>1 DEF IdleUsable, Sound
  <2> QED BY Zenon, <1>1, <2>1, <2>2 DEF Sound
<1> QED BY Zenon, <1>2, <1>3, <1>4 DEF Acquire

\* releaseConnection, which removes the connection of an unhealthy backend.
LEMMA ReleaseSound ==
  ASSUME Sound, NEW id \in Ids, Release(id)
  PROVE  Sound'
<1> DEFINE c == connections[id]
<1>1. UNCHANGED <<backends, healthy>>
  BY DEF Release
<1>2. CASE c.backend \in healthy[c.service]
  <2>1. /\ connections' = [connections EXCEPT ![id].isActive = FALSE]
        /\ UNCHANGED <<nextConnectionId, totalConnections>>
    BY <1>2 DEF Release
  <2>2. connections \in [Ids -> Connection] /\ id \in Ids
    BY DEF Sound, PoolOK
  <2>3. /\ Ids' = Ids /\ connections' \in [Ids' -> Connection]
        /\ \A i \in Ids' : /\ connections'[i].service = connections[i].service
                           /\ connections'[i].backend = connections[i].backend
                           /\ i # id => connections'[i].isActive = connections[i].isActive
    BY ZenonT(30), <2>1, <2>2 DEF Ids, Connection
  <2>4. PoolOK'
    BY <2>1, <2>3, SamePool DEF Sound
  <2>5. IdleUsable'
    BY <1>1, <1>2, <2>3 DEF IdleUsable, Sound
  <2> QED BY <1>1, <2>4, <2>5 DEF Sound
<1>3. CASE c.backend \notin healthy[c.service]
  BY <1>1, <1>3, SweptConnections DEF Release, RemoveConnections, Sound
<1> QED BY <1>2, <1>3

\* closeConnection.
LEMMA CloseSound ==
  ASSUME Sound, NEW id \in Ids, Close(id)
  PROVE  Sound'
BY SweptConnections DEF Close, RemoveConnections, Sound

\* addBackendServer and removeBackendServer.
LEMMA BackendsSound ==
  ASSUME Sound, NEW s \in Service, NEW b \in Backend,
         AddBackendServer(s, b) \/ RemoveBackendServer(s, b)
  PROVE  Sound'
<1>1. CASE AddBackendServer(s, b)
  BY Zenon, <1>1, SameConnections DEF AddBackendServer, Sound, poolVars
<1>2. CASE RemoveBackendServer(s, b)
  <2>1. IdleTo(s, b) \in SUBSET Ids
    BY DEF IdleTo, ConnectionsTo
  <2>2. /\ backends' \in [Service -> SUBSET Backend] /\ healthy' \in [Service -> SUBSET Backend]
        /\ \A t \in Service : \A c \in healthy[t] \ healthy'[t] : t = s /\ c = b
    BY <1>2 DEF RemoveBackendServer, Sound
  <2> QED BY <1>2, <2>1, <2>2, SweptConnections DEF RemoveBackendServer, RemoveConnections
<1> QED BY <1>1, <1>2

\* reportBackendStatus, for one service or for all.
LEMMA ReportSound ==
  ASSUME Sound, NEW S, NEW b \in Backend, ReportSuccess(S, b) \/ ReportFailure(S, b)
  PROVE  Sound'
<1>1. CASE ReportSuccess(S, b)
  BY Zenon, <1>1, SameConnections DEF ReportSuccess, Sound, poolVars
<1>2. CASE ReportFailure(S, b)
  <2> DEFINE count(s) == Saturated(failureCount[s][b] + 1, FailureThreshold)
             failed == {s \in {t \in S : b \in backends[t]} :
                            b \in healthy[s] /\ count(s) >= FailureThreshold}
             gone == UNION {IdleTo(s, b) : s \in failed}
  <2>1. gone \in SUBSET Ids
    BY Zenon DEF IdleTo, ConnectionsTo
  <2>2. /\ healthy' = [s \in Service |-> IF s \in failed THEN healthy[s] \ {b} ELSE healthy[s]]
        /\ connections' = Kept(gone) /\ totalConnections' = KeptTotal(gone)
        /\ UNCHANGED <<nextConnectionId, backends>>
    BY Zenon, <1>2 DEF ReportFailure, RemoveConnections
  <2> HIDE DEF failed
  <2>3. /\ healthy' \in [Service -> SUBSET Backend] /\ backends' \in [Service -> SUBSET Backend]
        /\ \A t \in Service : \A c \in healthy[t] \ healthy'[t] : t \in failed /\ c = b
    BY <2>2 DEF Sound
  <2>4. \A t \in Service : \A c \in healthy[t] \ healthy'[t] : IdleTo(t, c) \subseteq gone
    BY <2>3
  <2> HIDE DEF gone
  <2> QED BY <2>1, <2>2, <2>3, <2>4, SweptConnections
<1> QED BY Zenon, <1>1, <1>2

\* A round of the maintenance thread.
LEMMA MaintainSound ==
  ASSUME Sound, Maintain
  PROVE  Sound'
<1>1. Outlived \in SUBSET Ids
  BY DEF Outlived
<1>2. \A s \in Service : Well(s) \subseteq backends[s]
  BY DEF Well
<1>3. healthy' = [s \in Service |-> healthy[s] \cup Well(s)]
  BY Zenon DEF Maintain
<1>4. /\ backends' \in [Service -> SUBSET Backend] /\ healthy' \in [Service -> SUBSET Backend]
      /\ \A s \in Service : healthy[s] \subseteq healthy'[s]
  BY Zenon, <1>2, <1>3 DEF Maintain, Sound
<1>5. /\ connections' = Kept(Outlived) /\ totalConnections' = KeptTotal(Outlived)
      /\ UNCHANGED nextConnectionId
  BY DEF Maintain
<1> QED BY <1>1, <1>4, <1>5, SweptConnections

\* Nothing is registered and nothing is in the pool: at the beginning and
\* after cleanup().
Empty ==
  /\ connections = <<>> /\ nextConnectionId \in Nat
  /\ totalConnections = [s \in Service |-> 0]
  /\ backends = [s \in Service |-> {}] /\ healthy = [s \in Service |-> {}]

\* Where nothing is, all is sound.
LEMMA EmptySound == Empty => Sound
<1> SUFFICES ASSUME Empty PROVE Sound
  OBVIOUS
<1>1. Ids = {} /\ connections \in [Ids -> Connection]
  BY DEF Ids, Empty
<1>2. ASSUME NEW s \in Service
      PROVE  Cardinality(ConnectionsOf(s)) = 0
  <2>1. ConnectionsOf(s) = {}
    BY <1>1 DEF ConnectionsOf
  <2> QED BY <2>1, FS_EmptySet
<1>3. PoolBounded
  BY <1>2, Limits DEF PoolBounded, Empty
<1>4. PoolOK
  BY <1>1, <1>3, FS_EmptySet DEF PoolOK, Empty
<1>5. IdleUsable
  BY <1>1 DEF IdleUsable
<1> QED BY <1>4, <1>5 DEF Sound, Empty

\* The end of cleanup().
LEMMA CleanupSound ==
  ASSUME Sound, CleanupClears
  PROVE  Sound'
<1>1. Empty'
  BY DEF CleanupClears, Sound, PoolOK, Empty
<1> QED BY <1>1, EmptySound, PTL

\* Every step keeps the pool's bookkeeping and the idle connections usable.
LEMMA SoundStep ==
  ASSUME Sound, [Next]_vars
  PROVE  Sound'
<1> USE DEF backendVars, poolVars, lifeVars
<1>1. CASE \E s \in Service : SetLoadBalancingStrategy(s)
  BY Zenon, <1>1, SameConnections DEF SetLoadBalancingStrategy, Sound
<1>2. CASE \E S, success : ReportExecution(S, success)
  BY <1>2, SameConnections DEF ReportExecution, Sound
<1>3. CASE Client
  BY Zenon, <1>1, <1>2, <1>3, AcquireSound, ReleaseSound, CloseSound, BackendsSound, ReportSound DEF Client
<1>4. CASE Time
  BY <1>4, SameConnections DEF Time, IdleTimeoutPasses, RecoveryTimeoutPasses, Sound
<1>5. CASE Initialize \/ CleanupStops \/ ThreadExits
  BY <1>5, SameConnections DEF Initialize, CleanupStops, ThreadExits, Sound
<1>6. CASE UNCHANGED vars
  BY <1>6, SameConnections DEF vars, Sound
<1> QED BY Zenon, <1>3, <1>4, <1>5, <1>6, MaintainSound, CleanupSound DEF Next

-----------------------------------------------------------------------------
(* The books: the deques of idle connections and the backends' counts of   *)
(* connections in use.                                                     *)

IdleOf(s) == {id \in ConnectionsOf(s) : ~connections[id].isActive}

\* The deque of s holds the idle connections of s, each once.
Queued(s) ==
  /\ idleConnections[s] \in Seq(Nat)
  /\ Entries(idleConnections[s]) = IdleOf(s) /\ NoRepeats(idleConnections[s])

\* The count of b, which is 0 while b is not registered, is at most that of the
\* connections in use, and exact for a backend that was not forgotten.
Counted(s, b) ==
  /\ activeConnections[s][b] \in Nat
  /\ b \notin backends[s] => activeConnections[s][b] = 0
  /\ activeConnections[s][b] <= Cardinality(ActiveTo(s, b))
  /\ <<s, b>> \notin forgotten => activeConnections[s][b] = Cardinality(ActiveTo(s, b))

\* What makes BooksExact inductive.
Books ==
  /\ DOMAIN idleConnections = Service
  /\ activeConnections \in [Service -> [Backend -> Nat]]
  /\ \A s \in Service : healthy[s] \subseteq backends[s] /\ Queued(s)
  /\ \A s \in Service, b \in Backend : Counted(s, b)

\* BooksExact is part of it.
LEMMA BooksAreExact ==
  ASSUME Sound, Books
  PROVE  BooksExact
<1>1. IdleQueueExact
  BY DEF Books, IdleQueueExact, Queued, Entries, NoRepeats, IdleOf
<1>2. ActiveCountExact
  BY Zenon DEF Books, ActiveCountExact, Counted, Sound
<1> QED BY Zenon, <1>1, <1>2 DEF BooksExact

\* The connections in use on a backend are finitely many.
LEMMA ActiveFinite ==
  ASSUME PoolOK, NEW s, NEW b
  PROVE  IsFiniteSet(ActiveTo(s, b)) /\ Cardinality(ActiveTo(s, b)) \in Nat
<1>1. ActiveTo(s, b) \in SUBSET Ids
  BY DEF ActiveTo, ConnectionsTo
<1>2. IsFiniteSet(Ids)
  BY DEF PoolOK
<1> QED BY <1>1, <1>2, FS_Subset, FS_CardinalityType

\* Nothing is counted up or down, and no backend loses its count.
LEMMA SameCount ==
  ASSUME Books, NEW s \in Service, NEW b \in Backend,
         ActiveTo(s, b)' = ActiveTo(s, b), activeConnections'[s][b] = activeConnections[s][b],
         b \in backends[s] => b \in backends'[s], forgotten \subseteq forgotten'
  PROVE  Counted(s, b)'
BY Zenon DEF Books, Counted

\* One connection less is in use, on a backend that may have been removed.
LEMMA ReleasedCount ==
  ASSUME PoolOK, Books, NEW s \in Service, NEW b \in Backend, NEW id \in ActiveTo(s, b),
         ActiveTo(s, b)' = ActiveTo(s, b) \ {id},
         activeConnections' = Released(s, b), UNCHANGED <<backends, forgotten>>
  PROVE  Counted(s, b)'
<1>1. IsFiniteSet(ActiveTo(s, b)) /\ Cardinality(ActiveTo(s, b)) \in Nat
  BY ActiveFinite
<1>2. Cardinality(ActiveTo(s, b)') = Cardinality(ActiveTo(s, b)) - 1
  BY Zenon, <1>1, FS_RemoveElement
<1>3. Cardinality(ActiveTo(s, b)) # 0
  BY <1>1, FS_EmptySet
<1>4. activeConnections'[s][b] = IF b \in backends[s] THEN Monus(activeConnections[s][b], 1)
                                                      ELSE activeConnections[s][b]
  BY DEF Books, Released
<1> QED BY SMTT(30), <1>1, <1>2, <1>3, <1>4 DEF Counted, Books, Monus

\* One more is in use, on a registered backend.
LEMMA AcquiredCount ==
  ASSUME PoolOK, Books, NEW s \in Service, NEW b \in Backend, NEW id, id \notin ActiveTo(s, b),
         ActiveTo(s, b)' = ActiveTo(s, b) \cup {id}, b \in backends[s],
         activeConnections'[s][b] = activeConnections[s][b] + 1, UNCHANGED <<backends, forgotten>>
  PROVE  Counted(s, b)'
<1>1. IsFiniteSet(ActiveTo(s, b)) /\ Cardinality(ActiveTo(s, b)) \in Nat
  BY ActiveFinite
<1>2. Cardinality(ActiveTo(s, b)') = Cardinality(ActiveTo(s, b)) + 1
  BY Zenon, <1>1, FS_AddElement
<1> QED BY SMTT(30), <1>1, <1>2 DEF Counted, Books

\* A removal, seen from a deque.
LEMMA KeptQueue ==
  ASSUME Books, NEW gone, NEW s \in Service,
         idleConnections'[s] = Erase(idleConnections[s], gone), IdleOf(s)' = IdleOf(s) \ gone
  PROVE  Queued(s)'
<1>1. Queued(s)
  BY DEF Books
<1> DEFINE q == idleConnections[s]
<1>2. q \in Seq(Nat) /\ Entries(q) = IdleOf(s) /\ NoRepeats(q)
  BY <1>1 DEF Queued
<1> HIDE DEF q
<1>3. /\ Erase(q, gone) \in Seq(Nat) /\ Entries(Erase(q, gone)) = Entries(q) \ gone
      /\ NoRepeats(Erase(q, gone))
  BY <1>2, EraseEntries
<1> QED BY <1>2, <1>3 DEF Queued, q

\* The connections removeConnectionLocked leaves: what is idle and what is in use.
LEMMA KeptSets ==
  ASSUME PoolOK, NEW gone \in SUBSET Ids, connections' = Kept(gone)
  PROVE  /\ \A s : IdleOf(s)' = IdleOf(s) \ gone
         /\ \A s, b : ActiveTo(s, b)' = ActiveTo(s, b) \ gone
<1>1. Ids' = Ids \ gone /\ \A id \in Ids' : connections'[id] = connections[id]
  BY ZenonT(30), Removal DEF Ids
<1>2. ASSUME NEW s PROVE IdleOf(s)' = IdleOf(s) \ gone
  BY <1>1 DEF IdleOf, ConnectionsOf
<1>3. ASSUME NEW s, NEW b PROVE ActiveTo(s, b)' = ActiveTo(s, b) \ gone
  BY <1>1 DEF ActiveTo, IdleTo, ConnectionsTo
<1> QED BY <1>2, <1>3

\* Operations that remove idle connections only and count nothing.
LEMMA SweptBooks ==
  ASSUME PoolOK, Books, NEW gone \in SUBSET Ids, \A id \in gone : ~connections[id].isActive,
         connections' = Kept(gone), idleConnections' = KeptIdle(gone),
         \A s \in Service : healthy'[s] \subseteq backends'[s],
         UNCHANGED <<backends, activeConnections, forgotten>>
  PROVE  Books'
<1>1. ASSUME NEW s \in Service PROVE Queued(s)'
  <2>1. idleConnections'[s] = Erase(idleConnections[s], gone)
    BY DEF KeptIdle
  <2>2. IdleOf(s)' = IdleOf(s) \ gone
    BY KeptSets
  <2> QED BY <2>1, <2>2, KeptQueue
<1>2. ASSUME NEW s \in Service, NEW b \in Backend PROVE Counted(s, b)'
  <2>1. ActiveTo(s, b)' = ActiveTo(s, b) \ gone
    BY KeptSets
  <2>2. ActiveTo(s, b) \cap gone = {}
    BY DEF ActiveTo, IdleTo, ConnectionsTo
  <2>3. ActiveTo(s, b)' = ActiveTo(s, b)
    BY <2>1, <2>2
  <2> QED BY <2>3, SameCount
<1>3. DOMAIN idleConnections' = Service
  BY DEF KeptIdle
<1> QED BY Zenon, <1>1, <1>2, <1>3 DEF Books

\* Operations that leave the connections, the deques and the counts alone.
LEMMA SameBooks ==
  ASSUME Books, UNCHANGED <<connections, idleConnections, activeConnections, forgotten>>,
         \A s \in Service : backends[s] \subseteq backends'[s] /\ healthy'[s] \subseteq backends'[s]
  PROVE  Books'
<1>1. /\ \A s : IdleOf(s)' = IdleOf(s)
      /\ \A s, b : ActiveTo(s, b)' = ActiveTo(s, b)
  BY DEF IdleOf, ConnectionsOf, ActiveTo, IdleTo, ConnectionsTo, Ids
<1>2. ASSUME NEW s \in Service PROVE Queued(s)'
  BY Zenon, <1>1 DEF Books, Queued
<1>3. ASSUME NEW s \in Service, NEW b \in Backend PROVE Counted(s, b)'
  BY <1>1, SameCount
<1> QED BY <1>2, <1>3 DEF Books

\* The entries acquireConnection pops without using them are idle connections of
\* the service that have expired, so that removing them counts nothing down.
LEMMA PoppedExpired ==
  ASSUME Sound, Books, NEW s \in Service, NEW n \in 0..Len(idleConnections[s]),
         \A i \in 1..n : ~Usable(s, idleConnections[s][i])
  PROVE  /\ Stale(s, n) = Popped(s, n) /\ Popped(s, n) \subseteq IdleOf(s)
         /\ CountsAfter(s, n) = activeConnections[s]
<1>1. idleConnections[s] \in Seq(Nat) /\ Entries(idleConnections[s]) = IdleOf(s)
  BY DEF Books, Queued
<1>2. Popped(s, n) \subseteq Entries(idleConnections[s])
  BY <1>1, SeqType DEF Popped, Entries
<1>3. Stale(s, n) = Popped(s, n)
  BY Zenon, <1>1, <1>2 DEF Stale, IdleOf, ConnectionsOf
<1>4. \A id \in Popped(s, n) : id \in expired
  BY ZenonT(30), <1>1, <1>2 DEF Popped, Usable, IdleOf, ConnectionsOf, Sound, IdleUsable
<1>5. ASSUME NEW b \in Backend PROVE CountsAfter(s, n)[b] = activeConnections[s][b]
  <2>1. {id \in Stale(s, n) \ expired : connections[id].backend = b} = {}
    BY <1>3, <1>4
  <2>2. Cardinality({id \in Stale(s, n) \ expired : connections[id].backend = b}) = 0
    BY ZenonT(30), <2>1, FS_EmptySet
  <2>3. activeConnections[s][b] \in Nat
    BY DEF Books
  <2> QED BY <2>2, <2>3 DEF CountsAfter, Monus
<1>6. CountsAfter(s, n) = activeConnections[s]
  BY <1>5 DEF CountsAfter, Books
<1>7. Popped(s, n) \subseteq IdleOf(s)
  BY Zenon, <1>1, <1>2
<1> QED BY Zenon, <1>3, <1>6, <1>7

\* acquireConnection hands out the idle connection at place k of the deque.
LEMMA AcquireIdleBooks ==
  ASSUME Sound, Books, NEW s \in Service, NEW k \in 1..Len(idleConnections[s]), AcquireIdle(s, k)
  PROVE  Books'
<1> DEFINE q == idleConnections[s]
           gone == Stale(s, k - 1)
           it == q[k]
<1>1. q \in Seq(Nat) /\ Entries(q) = IdleOf(s) /\ NoRepeats(q) /\ Len(q) \in Nat
  BY SeqType DEF Books, Queued
<1>2. k - 1 \in 0..Len(q)
  BY <1>1
<1>3. /\ gone = Popped(s, k - 1) /\ gone \subseteq IdleOf(s)
      /\ CountsAfter(s, k - 1) = activeConnections[s]
  BY Zenon, <1>2, PoppedExpired DEF AcquireIdle
<1>4. it \in IdleOf(s) /\ it \notin gone
  <2>1. it \in Entries(q)
    BY <1>1 DEF Entries
  <2>2. \A i \in 1..k-1 : i \in 1..Len(q) /\ i # k
    BY <1>1
  <2>3. \A i \in 1..k-1 : q[i] # it
    BY <1>1, <2>2 DEF NoRepeats
  <2>4. it \notin Popped(s, k - 1)
    BY Zenon, <2>3 DEF Popped
  <2> QED BY Zenon, <1>1, <1>3, <2>1, <2>4
<1>5. /\ it \in Ids /\ connections[it].service = s /\ ~connections[it].isActive
      /\ gone \in SUBSET Ids /\ connections \in [Ids -> Connection]
  BY Zenon, <1>3, <1>4 DEF IdleOf, ConnectionsOf, Sound, PoolOK
<1>6. PICK b \in Backend :
          b = connections[it].backend /\ b \in healthy[s] /\ b \in backends[s]
  BY Zenon, <1>5 DEF Sound, IdleUsable, Books
<1>7. /\ connections' = [Kept(gone) EXCEPT ![it].isActive = TRUE]
      /\ idleConnections' = [KeptIdle(gone) EXCEPT ![s] = Erase(Rest(q, k), gone)]
      /\ activeConnections' = [activeConnections EXCEPT
            ![s] = [activeConnections[s] EXCEPT ![b] = @ + 1]]
      /\ UNCHANGED <<backends, healthy, forgotten>>
  BY ZenonT(30), <1>3, <1>6 DEF AcquireIdle, Prepare, Rest
<1>8. /\ Kept(gone) \in [Ids \ gone -> Connection]
      /\ \A id \in Ids \ gone : Kept(gone)[id] = connections[id]
  BY Zenon, <1>5, Removal DEF Sound
<1> HIDE DEF q, gone, it
<1>9. /\ Ids' = Ids \ gone
      /\ \A id \in Ids' : /\ connections'[id].service = connections[id].service
                          /\ connections'[id].backend = connections[id].backend
                          /\ connections'[id].isActive = (id = it \/ connections[id].isActive)
  BY ZenonT(30), <1>4, <1>5, <1>7, <1>8 DEF Ids, Connection
<1>10. ASSUME NEW t \in Service PROVE Queued(t)'
  <2>1. CASE t = s
    <3>1. /\ Rest(q, k) \in Seq(Nat) /\ NoRepeats(Rest(q, k))
          /\ Entries(Rest(q, k)) = Entries(q) \ {q[i] : i \in 1..k}
      <4>1. k \in 0..Len(q)
        BY <1>1 DEF q
      <4> QED BY Zenon, <1>1, <4>1, RestEntries
    <3>2. {q[i] : i \in 1..k} = gone \cup {it}
      <4>1. 1..k = (1..k - 1) \cup {k}
        BY <1>1 DEF q
      <4>2. {q[i] : i \in 1..k} = {q[i] : i \in 1..k - 1} \cup {q[k]}
        BY <4>1
      <4> QED BY <1>3, <4>2 DEF Popped, q, it
    <3>3. idleConnections'[s] = Erase(Rest(q, k), gone)
      BY <1>7 DEF KeptIdle
    <3>4. /\ Erase(Rest(q, k), gone) \in Seq(Nat) /\ NoRepeats(Erase(Rest(q, k), gone))
          /\ Entries(Erase(Rest(q, k), gone)) = Entries(Rest(q, k)) \ gone
      BY SMTT(30), <3>1, EraseEntries
    <3>5. IdleOf(s)' = IdleOf(s) \ (gone \cup {it})
      BY ZenonT(30), <1>4, <1>9 DEF IdleOf, ConnectionsOf
    <3>6. Entries(Erase(Rest(q, k), gone)) = IdleOf(s)'
      BY <1>1, <3>1, <3>2, <3>4, <3>5
    <3> QED BY <2>1, <3>3, <3>4, <3>6 DEF Queued
  <2>2. CASE t # s
    <3>1. idleConnections'[t] = Erase(idleConnections[t], gone)
      BY <1>7, <2>2 DEF KeptIdle
    <3>2. IdleOf(t)' = IdleOf(t) \ gone
      BY ZenonT(30), <1>5, <1>9, <2>2 DEF IdleOf, ConnectionsOf
    <3> QED BY Zenon, <3>1, <3>2, KeptQueue
  <2> QED BY <2>1, <2>2
<1>11. ASSUME NEW t \in Service, NEW c \in Backend PROVE Counted(t, c)'
  <2>1. gone \cap ActiveTo(t, c) = {} /\ it \notin ActiveTo(t, c)
    BY <1>3, <1>4 DEF ActiveTo, IdleTo, ConnectionsTo, IdleOf, ConnectionsOf
  <2>2. CASE t = s /\ c = b
    <3>1. ActiveTo(s, b)' = ActiveTo(s, b) \cup {it}
      BY Zenon, <1>4, <1>5, <1>6, <1>9, <2>1, <2>2 DEF ActiveTo, IdleTo, ConnectionsTo
    <3>2. activeConnections'[s][b] = activeConnections[s][b] + 1
      BY <1>6, <1>7 DEF Books
    <3>3. it \notin ActiveTo(s, b) /\ PoolOK
      BY <2>1, <2>2 DEF Sound
    <3>4. Counted(s, b)'
      BY ZenonT(30), <1>6, <1>7, <3>1, <3>2, <3>3, AcquiredCount
    <3> QED BY <2>2, <3>4
  <2>3. CASE ~(t = s /\ c = b)
    <3>1. ActiveTo(t, c)' = ActiveTo(t, c)
      BY ZenonT(30), <1>4, <1>5, <1>6, <1>9, <2>1, <2>3 DEF ActiveTo, IdleTo, ConnectionsTo
    <3>2. activeConnections'[t][c] = activeConnections[t][c]
      BY <1>6, <1>7, <2>3 DEF Books
    <3> QED BY <1>7, <3>1, <3>2, SameCount
  <2> QED BY <2>2, <2>3
<1>12. DOMAIN idleConnections' = Service /\ activeConnections' \in [Service -> [Backend -> Nat]]
  BY <1>6, <1>7 DEF Books, KeptIdle
<1>13. \A t \in Service : healthy'[t] \subseteq backends'[t]
  BY <1>7 DEF Books
<1> QED BY ZenonT(30), <1>10, <1>11, <1>12, <1>13 DEF Books

\* acquireConnection creates a connection or gives up; either way the deque
\* has been emptied.
LEMMA AcquireNewBooks ==
  ASSUME Sound, Books, NEW s \in Service, AcquireNew(s)
  PROVE  Books'
<1> DEFINE q == idleConnections[s]
           gone == Stale(s, Len(q))
           new == nextConnectionId
<1>1. q \in Seq(Nat) /\ Entries(q) = IdleOf(s) /\ NoRepeats(q) /\ Len(q) \in Nat
  BY Zenon, SeqType DEF Books, Queued
<1>2. /\ gone = Popped(s, Len(q)) /\ gone \subseteq IdleOf(s)
      /\ CountsAfter(s, Len(q)) = activeConnections[s]
  <2>1. \A i \in 1..Len(q) : ~Usable(s, q[i])
    BY Zenon DEF AcquireNew
  <2>2. Len(q) \in 0..Len(q)
    BY <1>1
  <2> QED BY Zenon, <2>1, <2>2, PoppedExpired
<1>3. gone = IdleOf(s)
  BY <1>1, <1>2 DEF Popped, Entries
<1>4. gone \in SUBSET Ids
  BY Zenon, <1>3 DEF IdleOf, ConnectionsOf
<1>5. /\ idleConnections' = [KeptIdle(gone) EXCEPT ![s] = <<>>]
      /\ UNCHANGED <<backends, healthy, forgotten>>
      /\ \/ connections' = Kept(gone) /\ activeConnections' = [activeConnections EXCEPT ![s] = activeConnections[s]]
         \/ \E b \in healthy[s] :
              /\ connections' = Created(Kept(gone), s, b)
              /\ activeConnections' = [activeConnections EXCEPT
                     ![s] = [activeConnections[s] EXCEPT ![b] = @ + 1]]
  BY Zenon, <1>2 DEF AcquireNew, Prepare, SelectBackend
<1>6. /\ Kept(gone) \in [Ids \ gone -> Connection]
      /\ \A id \in Ids \ gone : Kept(gone)[id] = connections[id]
  BY Zenon, <1>4, Removal DEF Sound
<1>6a. new \notin Ids
  BY DEF Sound, PoolOK
<1> HIDE DEF q, gone, new
<1>7. ASSUME \A t \in Service : IdleOf(t)' = IdleOf(t) \ gone,
             NEW t \in Service
      PROVE  Queued(t)'
  <2>1. CASE t = s
    <3>1. idleConnections'[s] = <<>>
      BY <1>5 DEF KeptIdle
    <3>2. IdleOf(s)' = {}
      BY <1>3, <1>7
    <3>3. <<>> \in Seq(Nat)
      OBVIOUS
    <3> QED BY <2>1, <3>1, <3>2, <3>3, EmptyEntries DEF Queued
  <2>2. CASE t # s
    <3>1. idleConnections'[t] = Erase(idleConnections[t], gone)
      BY <1>5, <2>2 DEF KeptIdle
    <3> QED BY <1>7, <3>1, KeptQueue
  <2> QED BY <2>1, <2>2
<1>8. \A t, c : gone \cap ActiveTo(t, c) = {}
  BY Zenon, <1>3 DEF ActiveTo, IdleTo, ConnectionsTo, IdleOf, ConnectionsOf
<1>9. DOMAIN idleConnections' = Service /\ \A t \in Service : healthy'[t] \subseteq backends'[t]
  BY Zenon, <1>5 DEF Books, KeptIdle
<1>10. CASE connections' = Kept(gone) /\ activeConnections' = [activeConnections EXCEPT ![s] = activeConnections[s]]
  <2>1. /\ \A t : IdleOf(t)' = IdleOf(t) \ gone
        /\ \A t, c : ActiveTo(t, c)' = ActiveTo(t, c) \ gone
    BY Zenon, <1>4, <1>10, KeptSets DEF Sound
  <2>2. activeConnections' = activeConnections
    BY Zenon, <1>10 DEF Books
  <2>3. ASSUME NEW t \in Service, NEW c \in Backend PROVE Counted(t, c)'
    <3>1. ActiveTo(t, c)' = ActiveTo(t, c)
      BY Zenon, <1>8, <2>1
    <3> QED BY <1>5, <2>2, <3>1, SameCount
  <2> QED BY Zenon, <1>7, <1>9, <2>1, <2>2, <2>3 DEF Books
<1>11. ASSUME NEW b \in healthy[s], connections' = Created(Kept(gone), s, b),
              activeConnections' = [activeConnections EXCEPT
                  ![s] = [activeConnections[s] EXCEPT ![b] = @ + 1]]
       PROVE  Books'
  <2>1. b \in Backend /\ b \in backends[s]
    BY DEF Books, Sound
  <2>2. Ids' = (Ids \ gone) \cup {new}
    BY <1>6, <1>11 DEF Ids, Created, new
  <2>3. /\ connections'[new] = [service |-> s, backend |-> b, isActive |-> TRUE]
        /\ \A id \in Ids \ gone : connections'[id] = connections[id]
    BY ZenonT(30), <1>6, <1>6a, <1>11 DEF Created, new
  <2>4. ASSUME NEW t \in Service PROVE IdleOf(t)' = IdleOf(t) \ gone
    BY SMTT(30), <1>6a, <2>2, <2>3 DEF IdleOf, ConnectionsOf
  <2>5. ASSUME NEW t \in Service, NEW c \in Backend PROVE Counted(t, c)'
    <3>1. CASE t = s /\ c = b
      <4>1. ActiveTo(s, b)' = ActiveTo(s, b) \cup {new}
        BY SMTT(30), <1>6a, <1>8, <2>2, <2>3 DEF ActiveTo, IdleTo, ConnectionsTo
      <4>2. activeConnections'[s][b] = activeConnections[s][b] + 1
        BY Zenon, <1>11, <2>1 DEF Books
      <4>3. new \notin ActiveTo(s, b)
        BY <1>6a DEF ActiveTo, ConnectionsTo
      <4> QED BY ZenonT(30), <1>5, <2>1, <3>1, <4>1, <4>2, <4>3, AcquiredCount DEF Sound
    <3>2. CASE ~(t = s /\ c = b)
      <4>1. ActiveTo(t, c)' = ActiveTo(t, c)
        BY SMTT(30), <1>6a, <1>8, <2>2, <2>3, <3>2 DEF ActiveTo, IdleTo, ConnectionsTo
      <4>2. activeConnections'[t][c] = activeConnections[t][c]
        BY Zenon, <1>11, <2>1, <3>2 DEF Books
      <4> QED BY ZenonT(30), <1>5, <4>1, <4>2, SameCount
    <3> QED BY Zenon, <3>1, <3>2
  <2>6. activeConnections' \in [Service -> [Backend -> Nat]]
    BY SMTT(30), <1>11, <2>1 DEF Books
  <2> QED BY ZenonT(30), <1>7, <1>9, <2>4, <2>5, <2>6 DEF Books
<1> QED BY Zenon, <1>5, <1>10, <1>11

\* What counting down leaves alone.
LEMMA ReleasedType ==
  ASSUME Books, NEW s \in Service, NEW b \in Backend
  PROVE  /\ Released(s, b) \in [Service -> [Backend -> Nat]]
         /\ \A t \in Service, c \in Backend :
               ~(t = s /\ c = b) => Released(s, b)[t][c] = activeConnections[t][c]
<1> DEFINE n == Monus(activeConnections[s][b], 1)
<1>1. activeConnections \in [Service -> [Backend -> Nat]] /\ n \in Nat
  BY DEF Books, Monus
<1>2. Released(s, b) = IF b \in backends[s] THEN [activeConnections EXCEPT ![s][b] = n]
                                            ELSE activeConnections
  BY <1>1 DEF Released
<1> HIDE DEF n
<1> QED BY <1>1, <1>2

\* closeConnection, and releaseConnection on an unhealthy backend: the
\* connection goes, and is counted down if it was in use.
LEMMA RemovedBooks ==
  ASSUME Sound, Books, NEW id \in Ids, connections' = Kept({id}), idleConnections' = KeptIdle({id}),
         activeConnections' = IF connections[id].isActive
                                THEN Released(connections[id].service, connections[id].backend)
                                ELSE activeConnections,
         UNCHANGED <<backends, healthy, forgotten>>
  PROVE  Books'
<1>1. CASE ~connections[id].isActive
  <2>1. PoolOK /\ {id} \in SUBSET Ids /\ \A i \in {id} : ~connections[i].isActive
    BY Zenon, <1>1 DEF Sound
  <2>2. \A s \in Service : healthy'[s] \subseteq backends'[s]
    BY Zenon DEF Books
  <2> QED BY Zenon, <1>1, <2>1, <2>2, SweptBooks
<1>2. CASE connections[id].isActive
  <2>1. PICK s \in Service, b \in Backend :
            connections[id].service = s /\ connections[id].backend = b
    BY DEF Sound, PoolOK, Connection
  <2>2. activeConnections' = Released(s, b) /\ id \in ActiveTo(s, b)
    BY <1>2, <2>1 DEF ActiveTo, IdleTo, ConnectionsTo
  <2>3. /\ \A t : IdleOf(t)' = IdleOf(t) \ {id}
        /\ \A t, c : ActiveTo(t, c)' = ActiveTo(t, c) \ {id}
    BY Zenon, KeptSets DEF Sound
  <2>4. ASSUME NEW t \in Service PROVE Queued(t)'
    <3>1. idleConnections'[t] = Erase(idleConnections[t], {id})
      BY DEF KeptIdle
    <3> QED BY ZenonT(30), <2>3, <3>1, KeptQueue
  <2>5. ASSUME NEW t \in Service, NEW c \in Backend PROVE Counted(t, c)'
    <3>1. CASE t = s /\ c = b
      BY <2>2, <2>3, <3>1, ReleasedCount DEF Sound
    <3>2. CASE ~(t = s /\ c = b)
      <4>1. ActiveTo(t, c)' = ActiveTo(t, c)
        <5>1. id \notin ActiveTo(t, c)
          BY Zenon, <2>1, <3>2 DEF ActiveTo, ConnectionsTo
        <5> QED BY <2>3, <5>1
      <4>2. activeConnections'[t][c] = activeConnections[t][c]
        BY <2>2, <3>2, ReleasedType
      <4> QED BY Zenon, <4>1, <4>2, SameCount
    <3> QED BY <3>1, <3>2
  <2>6. DOMAIN idleConnections' = Service /\ activeConnections' \in [Service -> [Backend -> Nat]]
    BY <2>2, ReleasedType DEF KeptIdle
  <2> QED BY Zenon, <2>4, <2>5, <2>6 DEF Books
<1> QED BY <1>1, <1>2

\* releaseConnection on a healthy backend: the connection goes to the back of
\* the deque.
LEMMA ReturnedBooks ==
  ASSUME Sound, Books, NEW id \in Ids, connections[id].isActive,
         connections' = [connections EXCEPT ![id].isActive = FALSE],
         idleConnections' = [idleConnections EXCEPT ![connections[id].service] = Append(@, id)],
         activeConnections' = Released(connections[id].service, connections[id].backend),
         UNCHANGED <<backends, healthy, forgotten>>
  PROVE  Books'
<1>1. PICK s \in Service, b \in Backend :
          connections[id].service = s /\ connections[id].backend = b
  BY DEF Sound, PoolOK, Connection
<1>2. connections \in [Ids -> Connection] /\ id \in Nat
  BY DEF Sound, PoolOK
<1>3. /\ Ids' = Ids
      /\ \A i \in Ids : /\ connections'[i].service = connections[i].service
                        /\ connections'[i].backend = connections[i].backend
                        /\ connections'[i].isActive = (i # id /\ connections[i].isActive)
  BY Zenon, <1>2 DEF Ids, Connection
<1>4. activeConnections' = Released(s, b) /\ id \in ActiveTo(s, b)
  BY <1>1 DEF ActiveTo, IdleTo, ConnectionsTo
<1>5. ASSUME NEW t \in Service PROVE Queued(t)'
  <2>1. CASE t = s
    <3> DEFINE q == idleConnections[s]
    <3>1. q \in Seq(Nat) /\ Entries(q) = IdleOf(s) /\ NoRepeats(q)
      BY DEF Books, Queued
    <3>2. id \notin Entries(q)
      BY <3>1 DEF IdleOf
    <3>3. idleConnections'[s] = Append(q, id)
      BY <1>1 DEF Books
    <3>4. IdleOf(s)' = IdleOf(s) \cup {id}
      BY Zenon, <1>1, <1>3 DEF IdleOf, ConnectionsOf
    <3> HIDE DEF q
    <3>5. /\ Append(q, id) \in Seq(Nat) /\ NoRepeats(Append(q, id))
          /\ Entries(Append(q, id)) = Entries(q) \cup {id}
      BY <1>2, <3>1, <3>2, AppendEntries
    <3> QED BY Zenon, <2>1, <3>1, <3>3, <3>4, <3>5 DEF Queued
  <2>2. CASE t # s
    <3>1. idleConnections'[t] = idleConnections[t]
      BY <1>1, <2>2 DEF Books
    <3>2. IdleOf(t)' = IdleOf(t)
      BY <1>1, <1>3, <2>2 DEF IdleOf, ConnectionsOf
    <3> QED BY Zenon, <3>1, <3>2 DEF Books, Queued
  <2> QED BY <2>1, <2>2
<1>6. ASSUME NEW t \in Service, NEW c \in Backend PROVE Counted(t, c)'
  <2>1. CASE t = s /\ c = b
    <3>1. ActiveTo(s, b)' = ActiveTo(s, b) \ {id}
      BY Zenon, <1>3 DEF ActiveTo, IdleTo, ConnectionsTo
    <3> QED BY Zenon, <1>4, <2>1, <3>1, ReleasedCount DEF Sound
  <2>2. CASE ~(t = s /\ c = b)
    <3>1. ActiveTo(t, c)' = ActiveTo(t, c)
      BY <1>1, <1>3, <2>2 DEF ActiveTo, IdleTo, ConnectionsTo
    <3>2. activeConnections'[t][c] = activeConnections[t][c]
      BY <1>4, <2>2, ReleasedType
    <3> QED BY <3>1, <3>2, SameCount
  <2> QED BY <2>1, <2>2
<1>7. DOMAIN idleConnections' = Service /\ activeConnections' \in [Service -> [Backend -> Nat]]
  BY <1>4, ReleasedType DEF Books
<1> QED BY <1>5, <1>6, <1>7 DEF Books

\* removeBackendServer: the count goes with the backend.  It is exact afterwards
\* unless connections to the backend are in use.
LEMMA RemoveBackendBooks ==
  ASSUME Sound, Books, NEW s \in Service, NEW b \in Backend, RemoveBackendServer(s, b)
  PROVE  Books'
<1>1. /\ connections' = Kept(IdleTo(s, b)) /\ idleConnections' = KeptIdle(IdleTo(s, b))
      /\ activeConnections' = [activeConnections EXCEPT ![s][b] = 0]
      /\ backends' = [backends EXCEPT ![s] = @ \ {b}] /\ healthy' = [healthy EXCEPT ![s] = @ \ {b}]
      /\ forgotten' = IF ConnectionsTo(s, b) = IdleTo(s, b)
                        THEN forgotten ELSE forgotten \cup {<<s, b>>}
  BY DEF RemoveBackendServer, RemoveConnections
<1>2. IdleTo(s, b) \in SUBSET Ids
  BY DEF IdleTo, ConnectionsTo
<1>3. /\ \A t : IdleOf(t)' = IdleOf(t) \ IdleTo(s, b)
      /\ \A t, c : ActiveTo(t, c)' = ActiveTo(t, c) \ IdleTo(s, b)
  BY <1>1, <1>2, KeptSets DEF Sound
<1>4. ASSUME NEW t, NEW c PROVE ActiveTo(t, c)' = ActiveTo(t, c)
  <2>1. ActiveTo(t, c) \cap IdleTo(s, b) = {}
    BY ZenonT(30) DEF ActiveTo, IdleTo, ConnectionsTo
  <2> QED BY <1>3, <2>1
<1>5. ASSUME NEW t \in Service PROVE Queued(t)'
  <2>1. idleConnections'[t] = Erase(idleConnections[t], IdleTo(s, b))
    BY <1>1 DEF KeptIdle
  <2> QED BY <1>3, <2>1, KeptQueue
<1>6. ASSUME NEW t \in Service, NEW c \in Backend PROVE Counted(t, c)'
  <2>1. CASE t = s /\ c = b
    <3>1. activeConnections'[s][b] = 0
      BY <1>1 DEF Books
    <3>2. Cardinality(ActiveTo(s, b)) \in Nat /\ IsFiniteSet(ActiveTo(s, b))
      BY ActiveFinite DEF Sound
    <3>3. ASSUME <<s, b>> \notin forgotten' PROVE Cardinality(ActiveTo(s, b)) = 0
      <4>1. ConnectionsTo(s, b) = IdleTo(s, b)
        BY <1>1, <3>3
      <4>2. ActiveTo(s, b) = {}
        BY Zenon, <4>1 DEF ActiveTo
      <4> QED BY <4>2, FS_EmptySet
    <3> QED BY SMTT(30), <1>4, <2>1, <3>1, <3>2, <3>3 DEF Counted
  <2>2. CASE ~(t = s /\ c = b)
    <3>1. activeConnections'[t][c] = activeConnections[t][c]
      BY <1>1, <2>2 DEF Books
    <3>2. c \in backends[t] => c \in backends'[t]
      BY <1>1, <2>2 DEF Sound
    <3>3. forgotten \subseteq forgotten'
      BY ZenonT(30), <1>1
    <3> QED BY ZenonT(30), <1>4, <3>1, <3>2, <3>3, SameCount
  <2> QED BY ZenonT(30), <2>1, <2>2
<1>7. DOMAIN idleConnections' = Service /\ activeConnections' \in [Service -> [Backend -> Nat]]
  BY <1>1 DEF KeptIdle, Books
<1>8. \A t \in Service : healthy'[t] \subseteq backends'[t]
  BY <1>1 DEF Sound, Books
<1> QED BY ZenonT(30), <1>5, <1>6, <1>7, <1>8 DEF Books

\* reportBackendStatus, for one service or for all.
LEMMA ReportBooks ==
  ASSUME Sound, Books, NEW S, NEW b \in Backend, ReportSuccess(S, b) \/ ReportFailure(S, b)
  PROVE  Books'
<1>1. CASE ReportSuccess(S, b)
  <2>1. \A s \in Service : backends[s] \subseteq backends'[s] /\ healthy'[s] \subseteq backends'[s]
    BY Zenon, <1>1 DEF ReportSuccess, Books
  <2> QED BY Zenon, <1>1, <2>1, SameBooks DEF ReportSuccess, poolVars
<1>2. CASE ReportFailure(S, b)
  <2> DEFINE count(s) == Saturated(failureCount[s][b] + 1, FailureThreshold)
             failed == {s \in {t \in S : b \in backends[t]} :
                            b \in healthy[s] /\ count(s) >= FailureThreshold}
             gone == UNION {IdleTo(s, b) : s \in failed}
  <2>1. gone \in SUBSET Ids /\ \A id \in gone : ~connections[id].isActive
    BY Zenon DEF IdleTo, ConnectionsTo
  <2>2. /\ healthy' = [s \in Service |-> IF s \in failed THEN healthy[s] \ {b} ELSE healthy[s]]
        /\ connections' = Kept(gone) /\ idleConnections' = KeptIdle(gone)
        /\ UNCHANGED <<backends, activeConnections, forgotten>>
    BY ZenonT(30), <1>2 DEF ReportFailure, RemoveConnections
  <2> HIDE DEF failed, gone
  <2>3. \A s \in Service : healthy'[s] \subseteq backends'[s]
    BY ZenonT(30), <2>2 DEF Books
  <2> QED BY Zenon, <2>1, <2>2, <2>3, SweptBooks DEF Sound
<1> QED BY Zenon, <1>1, <1>2

\* A round of the maintenance thread rebuilds the deques without what it removed.
LEMMA MaintainBooks ==
  ASSUME Sound, Books, Maintain
  PROVE  Books'
<1>1. Outlived \in SUBSET Ids /\ \A id \in Outlived : ~connections[id].isActive
  BY Zenon DEF Outlived
<1>2. /\ connections' = Kept(Outlived) /\ UNCHANGED <<backends, activeConnections, forgotten>>
      /\ \A s \in Service : healthy'[s] \subseteq backends'[s]
  BY ZenonT(30) DEF Maintain, Well, Books
<1>3. /\ \A s : IdleOf(s)' = IdleOf(s) \ Outlived
      /\ \A s, b : ActiveTo(s, b)' = ActiveTo(s, b) \ Outlived
  BY Zenon, <1>1, <1>2, KeptSets DEF Sound
<1>4. ASSUME NEW s \in Service PROVE Queued(s)'
  <2> DEFINE gone == {id \in Popped(s, Len(idleConnections[s])) :
                        id \notin Ids \ Outlived \/ connections[id].isActive}
  <2>1. Popped(s, Len(idleConnections[s])) = IdleOf(s)
    BY DEF Books, Queued, Popped, Entries
  <2>2. IdleOf(s) \ gone = IdleOf(s) \ Outlived
    BY Zenon, <2>1 DEF IdleOf, ConnectionsOf
  <2>3. idleConnections'[s] = Erase(idleConnections[s], gone)
    BY Zenon DEF Maintain
  <2> HIDE DEF gone
  <2> QED BY ZenonT(30), <1>3, <2>2, <2>3, KeptQueue
<1>5. ASSUME NEW s \in Service, NEW b \in Backend PROVE Counted(s, b)'
  <2>1. ActiveTo(s, b) \cap Outlived = {}
    BY <1>1 DEF ActiveTo, IdleTo, ConnectionsTo
  <2>2. ActiveTo(s, b)' = ActiveTo(s, b)
    BY Zenon, <1>3, <2>1
  <2> QED BY <1>2, <2>2, SameCount
<1>6. DOMAIN idleConnections' = Service
  BY Zenon DEF Maintain
<1> QED BY <1>2, <1>4, <1>5, <1>6 DEF Books

\* Nothing is idle and nothing in use.
Blank ==
  Empty /\ activeConnections = PerBackend(0) /\ idleConnections = [s \in Service |-> <<>>]

\* Where nothing is, the books are right.
LEMMA EmptyBooks == Blank => Books
<1> SUFFICES ASSUME Blank PROVE Books
  OBVIOUS
<1> USE DEF Blank
<1>1. Ids = {}
  BY DEF Ids, Empty
<1>2. ASSUME NEW s \in Service PROVE Queued(s)
  <2>1. IdleOf(s) = {}
    BY <1>1 DEF IdleOf, ConnectionsOf
  <2>2. idleConnections[s] = <<>> /\ <<>> \in Seq(Nat)
    OBVIOUS
  <2> QED BY <2>1, <2>2, EmptyEntries DEF Queued
<1>3. ASSUME NEW s \in Service, NEW b \in Backend PROVE Counted(s, b)
  <2>1. ActiveTo(s, b) = {}
    BY <1>1 DEF ActiveTo, ConnectionsTo
  <2>2. Cardinality(ActiveTo(s, b)) = 0
    BY <2>1, FS_EmptySet
  <2> QED BY SMTT(30), <2>2 DEF Counted, PerBackend
<1> QED BY <1>2, <1>3 DEF Books, PerBackend, Empty

\* The end of cleanup().
LEMMA CleanupBooks ==
  ASSUME Sound, CleanupClears
  PROVE  Books'
<1>1. Blank'
  BY DEF CleanupClears, Sound, PoolOK, Empty, PerBackend, Blank
<1> QED BY <1>1, EmptyBooks, PTL

\* Every step keeps the books.
LEMMA BooksStep ==
  ASSUME Sound, Books, [Next]_vars
  PROVE  Books'
<1> USE DEF backendVars, poolVars, lifeVars
<1>1. ASSUME UNCHANGED <<connections, idleConnections, activeConnections, forgotten, backends, healthy>>
      PROVE  Books'
  BY <1>1, SameBooks DEF Books
<1>2. ASSUME NEW s \in Service, Acquire(s) PROVE Books'
  <2>1. CASE AcquireRefused(s)
    BY <1>1, <2>1 DEF AcquireRefused, Prepare
  <2> QED BY Zenon, <1>2, <2>1, AcquireIdleBooks, AcquireNewBooks DEF Acquire
<1>3. ASSUME NEW id \in Ids, Release(id) PROVE Books'
  <2>1. CASE connections[id].backend \in healthy[connections[id].service]
    BY <1>3, <2>1, ReturnedBooks DEF Release
  <2>2. CASE connections[id].backend \notin healthy[connections[id].service]
    BY Zenon, <1>3, <2>2, RemovedBooks DEF Release, RemoveConnections
  <2> QED BY <2>1, <2>2
<1>4. ASSUME NEW id \in Ids, Close(id) PROVE Books'
  BY Zenon, <1>4, RemovedBooks DEF Close, RemoveConnections
<1>5. ASSUME NEW s \in Service, NEW b \in Backend, AddBackendServer(s, b) PROVE Books'
  <2>1. \A t \in Service : backends[t] \subseteq backends'[t] /\ healthy'[t] \subseteq backends'[t]
    BY Zenon, <1>5 DEF AddBackendServer, Books, Sound
  <2> QED BY Zenon, <1>5, <2>1, SameBooks DEF AddBackendServer
<1>6. CASE \/ \E s \in Service : SetLoadBalancingStrategy(s)
           \/ \E S, success : ReportExecution(S, success)
  BY Zenon, <1>1, <1>6 DEF SetLoadBalancingStrategy, ReportExecution
<1>7. CASE Client
  BY ZenonT(30), <1>2, <1>3, <1>4, <1>5, <1>6, <1>7, RemoveBackendBooks, ReportBooks DEF Client
<1>8. CASE Time \/ Initialize \/ CleanupStops \/ ThreadExits \/ UNCHANGED vars
  BY Zenon, <1>1, <1>8 DEF Time, IdleTimeoutPasses, RecoveryTimeoutPasses, Initialize, CleanupStops,
                    ThreadExits, vars
<1> QED BY ZenonT(30), <1>7, <1>8, MaintainBooks, CleanupBooks DEF Next

-----------------------------------------------------------------------------
\* The breaker of one service from one state to the next: as BreakerProtocol
\* says, n trials having been counted before and m after.
Change(c, n, d, m) ==
  \/ d = c /\ m = n
  \/ d.state = "Open"
  \/ c.state = "Open" /\ d.state = "HalfOpen" /\ d.successCount = 0 /\ m = 0
  \/ c.state = "HalfOpen" /\ d.state = "Closed" /\ m = HalfOpenAttempts
  \/ c.state = "HalfOpen" /\ d.state = "HalfOpen" /\ d.successCount = m /\ m < HalfOpenAttempts
  \/ c.state = "Closed" /\ d.state = "Closed"

\* applyExecutionResult.
LEMMA ExecutionChange ==
  ASSUME NEW c \in Breaker, NEW n \in 0..HalfOpenAttempts,
         c.state = "HalfOpen" => c.successCount = n /\ n < HalfOpenAttempts
  PROVE  /\ AfterSuccess(c) \in Breaker /\ AfterFailure(c) \in Breaker
         /\ Change(c, n, AfterFailure(c), n)
         /\ c.state # "HalfOpen" => Change(c, n, AfterSuccess(c), n)
         /\ c.state = "HalfOpen" =>
              Change(c, n, AfterSuccess(c), Saturated(n + 1, HalfOpenAttempts))
         /\ Saturated(n + 1, HalfOpenAttempts) \in 0..HalfOpenAttempts
<1> USE Limits
<1>1. AfterFailure(c) \in Breaker /\ Change(c, n, AfterFailure(c), n)
  BY DEF AfterFailure, Breaker, Saturated, Change
<1>2. AfterSuccess(c) \in Breaker
  <2>1. ClosedBreaker \in Breaker
    BY SMTT(30) DEF ClosedBreaker, Breaker
  <2> DEFINE k == Saturated(c.successCount + 1, HalfOpenAttempts)
  <2>2. k \in 0..HalfOpenAttempts
    BY DEF Saturated, Breaker
  <2>3. AfterSuccess(c) \in {ClosedBreaker, [c EXCEPT !.successCount = k],
                            [ClosedBreaker EXCEPT !.successCount = k]}
    BY DEF AfterSuccess
  <2> HIDE DEF k
  <2>4. [c EXCEPT !.successCount = k] \in Breaker
    BY <2>2 DEF Breaker
  <2>5. [ClosedBreaker EXCEPT !.successCount = k] \in Breaker
    BY <2>1, <2>2 DEF Breaker
  <2> QED BY Zenon, <2>1, <2>3, <2>4, <2>5
<1>3. ASSUME c.state = "HalfOpen"
      PROVE  Change(c, n, AfterSuccess(c), Saturated(n + 1, HalfOpenAttempts))
  BY <1>3 DEF AfterSuccess, Breaker, Saturated, ClosedBreaker, Change
<1>4. ASSUME c.state # "HalfOpen" PROVE Change(c, n, AfterSuccess(c), n)
  BY <1>4 DEF AfterSuccess, Breaker, Saturated, ClosedBreaker, Change
<1>5. Saturated(n + 1, HalfOpenAttempts) \in 0..HalfOpenAttempts
  BY DEF Saturated
<1> QED BY Zenon, <1>1, <1>2, <1>3, <1>4, <1>5

\* The recovery timeout has passed, in prepareCircuitBreakerLocked or in
\* performHealthCheckLocked.
LEMMA RecoveryChange ==
  ASSUME NEW c \in Breaker, NEW n \in 0..HalfOpenAttempts
  PROVE  /\ HalfOpened(c) \in Breaker
         /\ c.state = "Open" => Change(c, n, HalfOpened(c), 0)
         /\ Change(c, n, c, n)
         /\ 0 \in 0..HalfOpenAttempts
<1> USE Limits
<1>1. 0 \in 0..HalfOpenAttempts
  OBVIOUS
<1>2. c.failureCount \in 0..FailureThreshold
  BY DEF Breaker
<1>3. HalfOpened(c) \in Breaker
  BY Zenon, <1>1, <1>2 DEF Breaker, HalfOpened
<1> QED BY <1>1, <1>3 DEF Change, HalfOpened

\* Every step changes the breakers as BreakerProtocol says.
LEMMA BreakerStep ==
  ASSUME BreakerOK, [Next]_vars
  PROVE  /\ BreakerOK'
         /\ \/ CleanupClears
            \/ \A s \in Service : Change(breaker[s], trials[s], breaker'[s], trials'[s])
<1> USE DEF backendVars, poolVars, lifeVars
<1> DEFINE Changes == \A s \in Service : Change(breaker[s], trials[s], breaker'[s], trials'[s])
           Typed == breaker' \in [Service -> Breaker] /\ trials' \in [Service -> 0..HalfOpenAttempts]
<1>1. ASSUME Typed, Changes PROVE BreakerOK'
  BY SMTT(30), <1>1, Limits DEF Change, BreakerOK, Breaker
<1>2. ASSUME UNCHANGED <<breaker, trials>> PROVE Typed /\ Changes
  BY <1>2 DEF Change, BreakerOK
<1>3. ASSUME NEW s \in Service, Prepare(s) PROVE Typed /\ Changes
  <2>1. /\ \A t \in Service : breaker[t] \in Breaker /\ trials[t] \in 0..HalfOpenAttempts
        /\ DOMAIN breaker = Service /\ DOMAIN trials = Service
    BY DEF BreakerOK
  <2>2. /\ breaker' = [breaker EXCEPT ![s] = Prepared(s)]
        /\ trials' = IF Prepared(s) # breaker[s] THEN [trials EXCEPT ![s] = 0] ELSE trials
    BY Zenon, <1>3, <2>1 DEF Prepare
  <2>3. /\ Prepared(s) \in Breaker /\ 0 \in 0..HalfOpenAttempts
        /\ Prepared(s) # breaker[s] => Change(breaker[s], trials[s], Prepared(s), 0)
    BY Zenon, <2>1, RecoveryChange DEF Prepared
  <2>4. \A t \in Service : Change(breaker[t], trials[t], breaker[t], trials[t])
    BY DEF Change
  <2>5. Typed
    <3>1. breaker' \in [Service -> Breaker]
      BY <2>2, <2>3 DEF BreakerOK
    <3>2. trials' \in [Service -> 0..HalfOpenAttempts]
      BY Zenon, <2>2, <2>3 DEF BreakerOK
    <3> QED BY <3>1, <3>2
  <2>6. Changes
    BY Zenon, <2>1, <2>2, <2>3, <2>4
  <2> QED BY <2>5, <2>6
<1>4. ASSUME NEW S, NEW success, ReportExecution(S, success) PROVE Typed /\ Changes
  <2>1. ASSUME NEW s \in Service
        PROVE  /\ breaker'[s] \in Breaker /\ trials'[s] \in 0..HalfOpenAttempts
               /\ Change(breaker[s], trials[s], breaker'[s], trials'[s])
    <3> DEFINE c == breaker[s]
               n == trials[s]
    <3>1. /\ c \in Breaker /\ n \in 0..HalfOpenAttempts
          /\ c.state = "HalfOpen" => c.successCount = n /\ n < HalfOpenAttempts
      BY Zenon DEF BreakerOK
    <3>2. /\ breaker'[s] = IF s \notin S THEN c ELSE IF success THEN AfterSuccess(c)
                                                   ELSE AfterFailure(c)
          /\ trials'[s] = IF s \in S /\ success /\ c.state = "HalfOpen"
                            THEN Saturated(n + 1, HalfOpenAttempts) ELSE n
      BY Zenon, <1>4 DEF ReportExecution
    <3> HIDE DEF c, n
    <3>3. /\ AfterSuccess(c) \in Breaker /\ AfterFailure(c) \in Breaker
          /\ Change(c, n, AfterFailure(c), n)
          /\ c.state # "HalfOpen" => Change(c, n, AfterSuccess(c), n)
          /\ c.state = "HalfOpen" =>
               Change(c, n, AfterSuccess(c), Saturated(n + 1, HalfOpenAttempts))
          /\ Saturated(n + 1, HalfOpenAttempts) \in 0..HalfOpenAttempts
      BY <3>1, ExecutionChange
    <3>4. Change(c, n, c, n)
      BY Zenon DEF Change
    <3> QED BY Zenon, <3>1, <3>2, <3>3, <3>4 DEF c, n
  <2>2. /\ breaker' = [s \in Service |-> breaker'[s]] /\ trials' = [s \in Service |-> trials'[s]]
    BY Zenon, <1>4 DEF ReportExecution
  <2> QED BY Zenon, <2>1, <2>2
<1>5. ASSUME Client PROVE Typed /\ Changes
  <2>1. ASSUME NEW s \in Service, Acquire(s) PROVE Typed /\ Changes
    BY Zenon, <1>3, <2>1 DEF Acquire, AcquireRefused, AcquireIdle, AcquireNew
  <2>2. ASSUME \/ \E s \in Service : SetLoadBalancingStrategy(s)
               \/ \E id \in Ids : Release(id) \/ Close(id)
               \/ \E s \in Service, b \in Backend : AddBackendServer(s, b) \/ RemoveBackendServer(s, b)
               \/ \E S : \E b \in Backend : ReportSuccess(S, b) \/ ReportFailure(S, b)
        PROVE  UNCHANGED <<breaker, trials>>
    BY Zenon, <2>2 DEF SetLoadBalancingStrategy, Release, Close, AddBackendServer,
                RemoveBackendServer, ReportSuccess, ReportFailure
  <2> HIDE DEF Typed, Changes
  <2> QED BY ZenonT(30), <1>2, <1>4, <1>5, <2>1, <2>2 DEF Client
<1>6. ASSUME Maintain PROVE Typed /\ Changes
  <2>1. ASSUME NEW s \in Service
        PROVE  /\ breaker'[s] \in Breaker /\ trials'[s] \in 0..HalfOpenAttempts
               /\ Change(breaker[s], trials[s], breaker'[s], trials'[s])
    <3>1. breaker[s] \in Breaker /\ trials[s] \in 0..HalfOpenAttempts
      BY Zenon DEF BreakerOK
    <3>2. /\ breaker'[s] = IF Recovering(s) THEN HalfOpened(breaker[s]) ELSE breaker[s]
          /\ trials'[s] = IF Recovering(s) THEN 0 ELSE trials[s]
          /\ Recovering(s) => breaker[s].state = "Open"
      BY ZenonT(30), <1>6 DEF Maintain, Recovering
    <3> QED BY <3>1, <3>2, RecoveryChange
  <2>2. /\ breaker' = [s \in Service |-> breaker'[s]] /\ trials' = [s \in Service |-> trials'[s]]
    BY ZenonT(30), <1>6 DEF Maintain
  <2> QED BY <2>1, <2>2
<1>7. CASE CleanupClears
  BY SMTT(30), <1>7, Limits DEF CleanupClears, ClosedBreaker, BreakerOK, Breaker
<1>8. ASSUME Time \/ Initialize \/ CleanupStops \/ ThreadExits \/ UNCHANGED vars
      PROVE  Typed /\ Changes
  <2>1. UNCHANGED <<breaker, trials>>
    BY ZenonT(30), <1>8 DEF Time, IdleTimeoutPasses, RecoveryTimeoutPasses, Initialize, CleanupStops,
                ThreadExits, vars
  <2> QED BY Zenon, <1>2, <2>1
<1>9. CASE Typed /\ Changes
  BY Zenon, <1>1, <1>9
<1> HIDE DEF Typed, Changes
<1> QED BY ZenonT(30), <1>5, <1>6, <1>7, <1>8, <1>9 DEF Next

-----------------------------------------------------------------------------
\* A new manager satisfies the invariant.
LEMMA InitInv == Init => Inv
<1> SUFFICES ASSUME Init PROVE Inv
  OBVIOUS
<1>1. Sound
  BY Zenon, EmptySound DEF Init, Empty
<1>2. BreakerOK
  BY SMTT(30), Limits DEF Init, ClosedBreaker, BreakerOK, Breaker
<1> QED BY <1>1, <1>2 DEF Inv, Sound

\* Every step keeps the invariant.
LEMMA InvStep == Inv /\ [Next]_vars => Inv'
BY Zenon, SoundStep, BreakerStep DEF Inv, Sound

\* The inductive invariant holds in every reachable state.
THEOREM Invariance == Spec => []Inv
<1> QED BY InitInv, InvStep, PTL DEF Spec

\* No idle connection ever leads to an unhealthy or removed backend, for any
\* services, backends and limits.
THEOREM IdleStaysUsable == Spec => []IdleUsable
<1>1. Inv => IdleUsable
  BY Zenon DEF Inv
<1> QED BY <1>1, Invariance, PTL

\* The counter that limits the pool is exact, and the limit is kept.
THEOREM PoolStaysBounded == Spec => []PoolBounded
<1>1. Inv => PoolBounded
  BY DEF Inv, PoolOK
<1> QED BY <1>1, Invariance, PTL

\* What makes BooksExact inductive holds in every reachable state.
THEOREM BooksInvariance == Spec => []Books
<1>1. Init => Books
  BY EmptyBooks DEF Init, Empty, Blank
<1>2. Inv => Sound
  BY DEF Inv, Sound
<1>3. Sound /\ Books /\ [Next]_vars => Books'
  BY BooksStep
<1> QED BY <1>1, <1>2, <1>3, Invariance, PTL DEF Spec

\* The deques of idle connections and the counts of connections in use agree
\* with the connections there are, after any sequence of acquire, release,
\* close, expiry, failure and removal.
THEOREM BooksStayExact == Spec => []BooksExact
<1>1. Inv => Sound
  BY DEF Inv, Sound
<1>2. Sound /\ Books => BooksExact
  BY BooksAreExact
<1> QED BY <1>1, <1>2, Invariance, BooksInvariance, PTL

\* Breakers follow the protocol: closed only after enough successes since they
\* became half-open, whatever the callers and the maintenance thread do.
THEOREM BreakersFollowProtocol == Spec => BreakerProtocol
<1>1. Inv /\ [Next]_vars => [\A s \in Service : s \in services' /\ breaker'[s].state # breaker[s].state =>
          \/ breaker'[s].state = "Open"
          \/ breaker[s].state = "Open" /\ breaker'[s].state = "HalfOpen"
          \/ /\ breaker[s].state = "HalfOpen" /\ breaker'[s].state = "Closed"
             /\ trials'[s] = HalfOpenAttempts]_vars
  <2> SUFFICES ASSUME Inv, [Next]_vars, NEW s \in Service, s \in services',
                      breaker'[s].state # breaker[s].state
               PROVE  \/ breaker'[s].state = "Open"
                      \/ breaker[s].state = "Open" /\ breaker'[s].state = "HalfOpen"
                      \/ /\ breaker[s].state = "HalfOpen" /\ breaker'[s].state = "Closed"
                         /\ trials'[s] = HalfOpenAttempts
    BY Zenon
  <2>1. ~CleanupClears
    BY ZenonT(30) DEF CleanupClears
  <2>2. Change(breaker[s], trials[s], breaker'[s], trials'[s])
    BY ZenonT(30), <2>1, BreakerStep DEF Inv
  <2> QED BY Zenon, <2>2 DEF Change
<1> QED BY <1>1, Invariance, PTL DEF Spec, BreakerProtocol

-----------------------------------------------------------------------------
(* The limit of a half-open breaker.                                       *)

\* Backends are added one by one, and breakers that are not enabled stay closed.
Modest ==
  /\ \A s \in Service : IsFiniteSet(backends[s])
  /\ CircuitBreakerEnabled \/ \A s \in Service : breaker[s].state = "Closed"

\* Every step keeps that.
LEMMA ModestStep ==
  ASSUME Inv, Modest, [Next]_vars
  PROVE  Modest'
<1> USE DEF backendVars, poolVars, lifeVars
<1>1. backends \in [Service -> SUBSET Backend] /\ breaker \in [Service -> Breaker]
  BY Zenon DEF Inv, BreakerOK
<1>2. \A s \in Service : IsFiniteSet(backends'[s])
  <2>1. CASE UNCHANGED backends
    BY Zenon, <2>1 DEF Modest
  <2>2. ASSUME NEW s \in Service, NEW b \in Backend,
               backends' = [backends EXCEPT ![s] = @ \cup {b}]
        PROVE  \A t \in Service : IsFiniteSet(backends'[t])
    BY Zenon, <1>1, <2>2, FS_AddElement DEF Modest
  <2>3. ASSUME NEW s \in Service, NEW b \in Backend,
               backends' = [backends EXCEPT ![s] = @ \ {b}]
        PROVE  \A t \in Service : IsFiniteSet(backends'[t])
    BY <1>1, <2>3, FS_RemoveElement DEF Modest
  <2>4. CASE backends' = [s \in Service |-> {}]
    BY <2>4, FS_EmptySet
  <2>5. ASSUME Client
        PROVE  \/ UNCHANGED backends
               \/ \E s \in Service, b \in Backend :
                     \/ backends' = [backends EXCEPT ![s] = @ \cup {b}]
                     \/ backends' = [backends EXCEPT ![s] = @ \ {b}]
    BY ZenonT(30), <2>5 DEF Client, Acquire, AcquireRefused, AcquireIdle, AcquireNew, Prepare,
                SetLoadBalancingStrategy, Release, Close, AddBackendServer, RemoveBackendServer,
                ReportSuccess, ReportFailure, ReportExecution
  <2>6. \/ Client \/ UNCHANGED backends
        \/ backends' = [s \in Service |-> {}]
    BY Zenon DEF Next, Maintain, Time, IdleTimeoutPasses, RecoveryTimeoutPasses, Initialize,
           CleanupStops, ThreadExits, CleanupClears, vars
  <2> QED BY ZenonT(30), <2>1, <2>2, <2>3, <2>4, <2>5, <2>6
<1>3. ASSUME ~CircuitBreakerEnabled, NEW s \in Service PROVE breaker'[s].state = "Closed"
  <2>1. \A t \in Service : breaker[t].state = "Closed"
    BY <1>3 DEF Modest
  <2>2. ASSUME NEW t \in Service, Prepare(t) PROVE breaker' = breaker
    BY Zenon, <1>1, <1>3, <2>2 DEF Prepare, Prepared
  <2>3. ASSUME Client PROVE breaker' = breaker
    BY ZenonT(30), <1>3, <2>2, <2>3 DEF Client, Acquire, AcquireRefused, AcquireIdle, AcquireNew,
                SetLoadBalancingStrategy, Release, Close, AddBackendServer, RemoveBackendServer,
                ReportSuccess, ReportFailure, ReportExecution
  <2>4. ASSUME Maintain PROVE breaker'[s] = breaker[s]
    BY Zenon, <2>1, <2>4 DEF Maintain, Recovering
  <2>5. CASE CleanupClears
    BY Zenon, <2>5 DEF CleanupClears, ClosedBreaker
  <2>6. Client \/ Maintain \/ CleanupClears \/ breaker' = breaker
    BY Zenon DEF Next, Time, IdleTimeoutPasses, RecoveryTimeoutPasses, Initialize,
           CleanupStops, ThreadExits, vars
  <2> QED BY Zenon, <2>1, <2>3, <2>4, <2>5, <2>6
<1> QED BY Zenon, <1>2, <1>3 DEF Modest

\* The sum of the backends' counts covers the connections in use.
LEMMA InUseCounted ==
  ASSUME Sound, Books, Modest, NEW s \in Service
  PROVE  /\ IsFiniteSet(InUse(s)) /\ Cardinality(InUse(s)) \in Nat
         /\ ActiveCount(s) \in Nat /\ Cardinality(InUse(s)) <= ActiveCount(s)
<1> DEFINE n(b) == activeConnections[s][b]
           Slots == UNION {{b} \X (1..n(b)) : b \in backends[s]}
<1>1. backends[s] \subseteq Backend /\ \A b \in backends[s] : n(b) \in Nat
  BY DEF Sound, Books
<1>2. IsFiniteSet(Slots)
  <2>1. ASSUME NEW b \in backends[s] PROVE IsFiniteSet({b} \X (1..n(b)))
    <3>1. n(b) \in Int /\ 1 \in Int
      BY <1>1
    <3> HIDE DEF n
    <3>2. IsFiniteSet(1..n(b)) /\ IsFiniteSet({b})
      BY Zenon, <3>1, FS_Interval, FS_Singleton
    <3> QED BY Zenon, <3>2, FS_Product
  <2>2. IsFiniteSet({{b} \X (1..n(b)) : b \in backends[s]})
    <3>1. IsFiniteSet(backends[s])
      BY DEF Modest
    <3> HIDE DEF n
    <3> DEFINE f == [b \in backends[s] |-> {b} \X (1..n(b))]
               T == {{b} \X (1..n(b)) : b \in backends[s]}
    <3>2. f \in Surjection(backends[s], T)
      BY Zenon DEF Surjection
    <3> QED BY <3>1, <3>2, FS_Surjection
  <2> QED BY Zenon, <2>1, <2>2, FS_UNION
<1>3. ASSUME NEW b \in backends[s], <<s, b>> \notin forgotten
      PROVE  \E g \in Injection(ActiveTo(s, b), 1..n(b)) : TRUE
  <2>1. n(b) = Cardinality(ActiveTo(s, b))
    BY <1>1, <1>3 DEF Books, Counted
  <2>2. IsFiniteSet(ActiveTo(s, b))
    BY ActiveFinite DEF Sound
  <2>3. IsFiniteSet(1..n(b)) /\ Cardinality(1..n(b)) = n(b)
    <3>1. n(b) \in Nat
      BY Zenon, <2>1, <2>2, FS_CardinalityType
    <3>2. ASSUME NEW k \in Nat PROVE IsFiniteSet(1..k) /\ Cardinality(1..k) = k
      <4>1. k \in Int /\ 1 \in Int
        OBVIOUS
      <4>2. IsFiniteSet(1..k) /\ Cardinality(1..k) = IF 1 > k THEN 0 ELSE k - 1 + 1
        BY Zenon, <4>1, FS_Interval
      <4> QED BY SMTT(30), <4>2
    <3> QED BY Zenon, <3>1, <3>2
  <2>4. ExistsBijection(ActiveTo(s, b), 1..n(b))
    BY Zenon, <2>1, <2>2, <2>3, FS_SameCardinalityBij
  <2> QED BY <2>4 DEF ExistsBijection, Bijection
<1> DEFINE g == [b \in backends[s] |-> CHOOSE h \in Injection(ActiveTo(s, b), 1..n(b)) : TRUE]
           B(id) == connections[id].backend
           f == [id \in InUse(s) |-> <<B(id), g[B(id)][id]>>]
<1>4. ASSUME NEW b \in backends[s], <<s, b>> \notin forgotten
      PROVE  g[b] \in Injection(ActiveTo(s, b), 1..n(b))
  <2>1. g[b] = CHOOSE h \in Injection(ActiveTo(s, b), 1..n(b)) : TRUE
    BY Zenon
  <2> HIDE DEF g, n
  <2> QED BY Zenon, <1>3, <1>4, <2>1
<1> HIDE DEF n, g
<1>5. ASSUME NEW id \in InUse(s)
      PROVE  /\ id \in ActiveTo(s, B(id)) /\ B(id) \in backends[s] /\ <<s, B(id)>> \notin forgotten
             /\ g[B(id)][id] \in 1..n(B(id))
  <2>1. id \in ActiveTo(s, B(id)) /\ B(id) \in backends[s] /\ <<s, B(id)>> \notin forgotten
    BY Zenon DEF InUse, ActiveTo, ConnectionsTo
  <2> HIDE DEF B
  <2> QED BY Zenon, <1>4, <2>1 DEF Injection
<1>6. f \in Injection(InUse(s), Slots)
  <2>1. ASSUME NEW id \in InUse(s)
        PROVE  f[id] = <<B(id), g[B(id)][id]>> /\ f[id] \in Slots
    <3>1. f[id] = <<B(id), g[B(id)][id]>>
      BY Zenon
    <3>2. B(id) \in backends[s] /\ g[B(id)][id] \in 1..n(B(id))
      BY ZenonT(30), <1>5
    <3> HIDE DEF B, f
    <3> QED BY SMTT(30), <3>1, <3>2
  <2>2. ASSUME NEW i \in InUse(s), NEW j \in InUse(s), f[i] = f[j] PROVE i = j
    <3>1. B(i) = B(j) /\ g[B(i)][i] = g[B(i)][j]
      BY ZenonT(30), <2>1, <2>2
    <3>2. g[B(i)] \in Injection(ActiveTo(s, B(i)), 1..n(B(i)))
      BY Zenon, <1>4, <1>5
    <3>3. i \in ActiveTo(s, B(i)) /\ j \in ActiveTo(s, B(i))
      BY Zenon, <1>5, <3>1
    <3> HIDE DEF B
    <3> QED BY <3>1, <3>2, <3>3 DEF Injection, IsInjective
  <2> HIDE DEF Slots, B
  <2> QED BY <2>1, <2>2 DEF Injection, IsInjective
<1> HIDE DEF f
<1>7. Cardinality(Slots) \in Nat
  BY <1>2, FS_CardinalityType
<1>8. ActiveCount(s) = Cardinality(Slots)
  BY DEF ActiveCount, n
<1> HIDE DEF Slots
<1> QED BY <1>2, <1>6, <1>7, <1>8, FS_Injection, FS_CardinalityType

\* Operations that take no connection into use and register no backend.
LEMMA FewerInUse ==
  ASSUME NEW t, \A c : ActiveTo(t, c)' \subseteq ActiveTo(t, c),
         backends'[t] \subseteq backends[t], forgotten \subseteq forgotten'
  PROVE  InUse(t)' \subseteq InUse(t)
BY Zenon DEF InUse

\* acquireConnection takes one connection of the service into use at most, and
\* none when the breaker does not admit it.
LEMMA AcquireInUse ==
  ASSUME Sound, Books, NEW s \in Service, Acquire(s)
  PROVE  /\ \A t \in Service \ {s} : InUse(t)' \subseteq InUse(t)
         /\ \/ InUse(s)' \subseteq InUse(s)
            \/ Admits(s) /\ \E x : InUse(s)' \subseteq InUse(s) \cup {x}
<1>1. UNCHANGED <<backends, forgotten>>
  BY Zenon DEF Acquire, AcquireRefused, AcquireIdle, AcquireNew, Prepare
<1>2. ASSUME NEW x,
             \A id \in Ids' : connections'[id].isActive =>
                \/ id \in Ids /\ connections'[id] = connections[id]
                \/ id = x /\ connections'[id].service = s
      PROVE  /\ \A t \in Service \ {s} : InUse(t)' \subseteq InUse(t)
             /\ InUse(s)' \subseteq InUse(s) \cup {x}
  <2>1. \A c : ActiveTo(s, c)' \subseteq ActiveTo(s, c) \cup {x}
    BY Zenon, <1>2 DEF ActiveTo, IdleTo, ConnectionsTo
  <2>2. InUse(s)' \subseteq InUse(s) \cup {x}
    BY SMTT(30), <1>1, <2>1 DEF InUse
  <2>3. \A t \in Service \ {s} : \A c : ActiveTo(t, c)' \subseteq ActiveTo(t, c)
    BY Zenon, <1>2 DEF ActiveTo, IdleTo, ConnectionsTo
  <2> QED BY Zenon, <1>1, <2>2, <2>3, FewerInUse
<1>3. CASE AcquireRefused(s)
  <2>1. UNCHANGED connections
    BY <1>3 DEF AcquireRefused, poolVars
  <2>2. \A t, c : ActiveTo(t, c)' = ActiveTo(t, c)
    BY <2>1 DEF ActiveTo, IdleTo, ConnectionsTo, Ids
  <2> QED BY Zenon, <1>1, <2>2, FewerInUse
<1>4. ASSUME NEW k \in 1..Len(idleConnections[s]), AcquireIdle(s, k)
      PROVE  /\ \A t \in Service \ {s} : InUse(t)' \subseteq InUse(t)
             /\ Admits(s) /\ \E x : InUse(s)' \subseteq InUse(s) \cup {x}
  <2> DEFINE gone == Stale(s, k - 1)
             it == idleConnections[s][k]
  <2>1. gone \in SUBSET Ids /\ it \in IdleOf(s)
    BY DEF Stale, Books, Queued, Entries
  <2>2. connections' = [Kept(gone) EXCEPT ![it].isActive = TRUE] /\ Admits(s)
    BY Zenon, <1>4 DEF AcquireIdle
  <2>3. /\ Kept(gone) \in [Ids \ gone -> Connection]
        /\ \A id \in Ids \ gone : Kept(gone)[id] = connections[id]
    BY Zenon, <2>1, Removal DEF Sound
  <2> HIDE DEF gone, it
  <2>4. Ids' = Ids \ gone /\ \A id \in Ids' : id # it => connections'[id] = connections[id]
    BY <2>2, <2>3 DEF Ids
  <2>5. ASSUME it \in Ids' PROVE connections'[it].service = s
    BY <2>1, <2>2, <2>3, <2>4, <2>5 DEF Connection, IdleOf, ConnectionsOf
  <2>6. \A id \in Ids' : connections'[id].isActive =>
          \/ id \in Ids /\ connections'[id] = connections[id]
          \/ id = it /\ connections'[id].service = s
    BY <2>4, <2>5
  <2>7. PICK x : x = it
    BY Zenon
  <2>8. /\ \A t \in Service \ {s} : InUse(t)' \subseteq InUse(t)
        /\ InUse(s)' \subseteq InUse(s) \cup {x}
    BY SMTT(30), <1>2, <2>6, <2>7
  <2> QED BY ZenonT(30), <2>2, <2>8
<1>5. ASSUME AcquireNew(s)
      PROVE  /\ \A t \in Service \ {s} : InUse(t)' \subseteq InUse(t)
             /\ Admits(s) /\ \E x : InUse(s)' \subseteq InUse(s) \cup {x}
  <2> DEFINE gone == Stale(s, Len(idleConnections[s]))
             new == nextConnectionId
  <2>1. gone \in SUBSET Ids
    BY Zenon DEF Stale
  <2>2. /\ Admits(s)
        /\ \/ connections' = Kept(gone)
           \/ \E b \in SelectBackend(s) : connections' = Created(Kept(gone), s, b)
    BY ZenonT(30), <1>5 DEF AcquireNew
  <2>3. /\ Kept(gone) \in [Ids \ gone -> Connection]
        /\ \A id \in Ids \ gone : Kept(gone)[id] = connections[id]
    BY ZenonT(30), <2>1, Removal DEF Sound
  <2> HIDE DEF gone
  <2>4. \A id \in Ids' : \/ id \in Ids /\ connections'[id] = connections[id]
                         \/ id = new /\ connections'[id].service = s
    BY SMTT(30), <2>2, <2>3 DEF Ids, Created
  <2>5. PICK x : x = new
    BY Zenon
  <2>6. /\ \A t \in Service \ {s} : InUse(t)' \subseteq InUse(t)
        /\ InUse(s)' \subseteq InUse(s) \cup {x}
    BY SMTT(30), <1>2, <2>4, <2>5
  <2> QED BY Zenon, <2>2, <2>6
<1> QED BY Zenon, <1>3, <1>4, <1>5 DEF Acquire

\* addBackendServer: a backend that was not registered has nothing in use,
\* unless it was removed with connections in use.
LEMMA AddInUse ==
  ASSUME Sound, Books, NEW s \in Service, NEW b \in Backend, AddBackendServer(s, b), NEW t \in Service
  PROVE  InUse(t)' \subseteq InUse(t)
<1>1. UNCHANGED <<connections, forgotten>> /\ backends'[t] \subseteq backends[t] \cup {b}
  BY DEF AddBackendServer, poolVars, Sound
<1>2. \A c : ActiveTo(t, c)' = ActiveTo(t, c)
  BY <1>1 DEF ActiveTo, IdleTo, ConnectionsTo, Ids
<1>3. ASSUME b \notin backends[t], <<t, b>> \notin forgotten PROVE ActiveTo(t, b) = {}
  <2>1. Cardinality(ActiveTo(t, b)) = 0
    BY <1>3 DEF Books, Counted
  <2>2. IsFiniteSet(ActiveTo(t, b))
    BY ActiveFinite DEF Sound
  <2> QED BY Zenon, <2>1, <2>2, FS_EmptySet
<1> QED BY Zenon, <1>1, <1>2, <1>3 DEF InUse

\* No other operation takes a connection into use.
LEMMA InUseStep ==
  ASSUME Sound, Books, [Next]_vars, NEW t \in Service
  PROVE  \/ InUse(t)' \subseteq InUse(t)
         \/ Acquire(t) /\ Admits(t) /\ \E x : InUse(t)' \subseteq InUse(t) \cup {x}
<1> USE DEF backendVars, poolVars, lifeVars
<1> DEFINE Fewer == InUse(t)' \subseteq InUse(t)
<1>1. ASSUME NEW gone \in SUBSET Ids, connections' = Kept(gone),
             backends'[t] \subseteq backends[t], forgotten \subseteq forgotten'
      PROVE  Fewer
  <2>1. \A b : ActiveTo(t, b)' = ActiveTo(t, b) \ gone
    BY <1>1, KeptSets DEF Sound
  <2>2. \A b : ActiveTo(t, b)' \subseteq ActiveTo(t, b)
    BY Zenon, <2>1
  <2> QED BY ZenonT(30), <1>1, <2>2, FewerInUse
<1>2. ASSUME UNCHANGED <<connections, backends, forgotten>> PROVE Fewer
  <2>1. \A c : ActiveTo(t, c)' = ActiveTo(t, c)
    BY <1>2 DEF ActiveTo, IdleTo, ConnectionsTo, Ids
  <2> QED BY Zenon, <1>2, <2>1, FewerInUse
<1>3. ASSUME NEW id \in Ids, Release(id) \/ Close(id) PROVE Fewer
  <2>1. CASE connections' = Kept({id})
    BY Zenon, <1>1, <1>3, <2>1 DEF Release, Close
  <2>2. CASE connections' = [connections EXCEPT ![id].isActive = FALSE]
    <3>1. connections \in [Ids -> Connection]
      BY DEF Sound, PoolOK
    <3>2. /\ Ids' = Ids
          /\ \A i \in Ids : /\ connections'[i].service = connections[i].service
                            /\ connections'[i].backend = connections[i].backend
                            /\ connections'[i].isActive => connections[i].isActive
      BY Zenon, <2>2, <3>1 DEF Ids, Connection
    <3>3. \A c : ActiveTo(t, c)' \subseteq ActiveTo(t, c)
      BY Zenon, <3>2 DEF ActiveTo, IdleTo, ConnectionsTo
    <3> QED BY ZenonT(30), <1>3, <3>3, FewerInUse DEF Release, Close
  <2> QED BY Zenon, <1>3, <2>1, <2>2 DEF Release, Close, RemoveConnections
<1>4. ASSUME NEW s \in Service, NEW b \in Backend, RemoveBackendServer(s, b) PROVE Fewer
  <2>1. IdleTo(s, b) \in SUBSET Ids
    BY Zenon DEF IdleTo, ConnectionsTo
  <2>2. backends'[t] \subseteq backends[t] /\ forgotten \subseteq forgotten'
    BY Zenon, <1>4 DEF RemoveBackendServer, Sound
  <2> QED BY Zenon, <1>1, <1>4, <2>1, <2>2 DEF RemoveBackendServer, RemoveConnections
<1>5. ASSUME NEW S, NEW b \in Backend, ReportFailure(S, b) PROVE Fewer
  <2>1. PICK T : connections' = Kept(UNION {IdleTo(s, b) : s \in T})
    BY Zenon, <1>5 DEF ReportFailure, RemoveConnections
  <2>2. UNION {IdleTo(s, b) : s \in T} \in SUBSET Ids
    BY Zenon DEF IdleTo, ConnectionsTo
  <2> QED BY ZenonT(30), <1>1, <1>5, <2>1, <2>2 DEF ReportFailure
<1>6. ASSUME \/ \E s \in Service : SetLoadBalancingStrategy(s)
             \/ \E S, b : ReportSuccess(S, b)
             \/ \E S, success : ReportExecution(S, success)
             \/ Time \/ Initialize \/ CleanupStops \/ ThreadExits \/ UNCHANGED vars
      PROVE  Fewer
  BY ZenonT(30), <1>2, <1>6 DEF SetLoadBalancingStrategy, ReportSuccess, ReportExecution, Time,
        IdleTimeoutPasses, RecoveryTimeoutPasses, Initialize, CleanupStops, ThreadExits, vars
<1>7. ASSUME Maintain PROVE Fewer
  BY ZenonT(30), <1>1, <1>7 DEF Maintain, Outlived
<1>8. ASSUME CleanupClears PROVE Fewer
  BY Zenon, <1>8 DEF CleanupClears, InUse
<1>9. ASSUME NEW s \in Service, NEW b \in Backend, AddBackendServer(s, b) PROVE Fewer
  BY Zenon, <1>9, AddInUse
<1>10. ASSUME NEW s \in Service, Acquire(s)
       PROVE  Fewer \/ (Acquire(t) /\ Admits(t) /\ \E x : InUse(t)' \subseteq InUse(t) \cup {x})
  BY Zenon, <1>10, AcquireInUse
<1> HIDE DEF Fewer
<1>11. CASE Client
  BY ZenonT(30), <1>3, <1>4, <1>5, <1>6, <1>9, <1>10, <1>11 DEF Client, Fewer
<1> QED BY Zenon, <1>6, <1>7, <1>8, <1>11 DEF Next, Fewer

\* A half-open breaker lets no more connections be in use than it is to try,
\* whoever acquires, releases, closes or reports in between.
THEOREM HalfOpenStaysBounded == Spec => HalfOpenBounded
<1>1. ASSUME Inv, Books, Modest, [Next]_vars, NEW s \in Service,
             breaker'[s].state = "HalfOpen", ~(InUse(s)' \subseteq InUse(s))
      PROVE  Cardinality(InUse(s)') <= HalfOpenAttempts
  <2>1. Sound
    BY ZenonT(30), <1>1 DEF Inv, Sound
  <2>2. Acquire(s) /\ Admits(s) /\ \E x : InUse(s)' \subseteq InUse(s) \cup {x}
    BY Zenon, <1>1, <2>1, InUseStep
  <2>3. breaker'[s] = Prepared(s)
    BY ZenonT(30), <1>1, <2>2 DEF Acquire, AcquireRefused, AcquireIdle, AcquireNew, Prepare, Inv, BreakerOK
  <2>4. ActiveCount(s) < HalfOpenAttempts
    BY Zenon, <1>1, <2>2, <2>3 DEF Modest, Prepared, Admits
  <2>5. PICK x : InUse(s)' \subseteq InUse(s) \cup {x}
    BY Zenon, <2>2
  <2>6. /\ IsFiniteSet(InUse(s)) /\ Cardinality(InUse(s)) \in Nat
        /\ ActiveCount(s) \in Nat /\ Cardinality(InUse(s)) <= ActiveCount(s)
    BY Zenon, <1>1, <2>1, InUseCounted
  <2>7. /\ IsFiniteSet(InUse(s) \cup {x})
        /\ Cardinality(InUse(s) \cup {x}) <= Cardinality(InUse(s)) + 1
        /\ Cardinality(InUse(s) \cup {x}) \in Nat
    <3> DEFINE U == InUse(s)
    <3> HIDE DEF U
    <3>1. IsFiniteSet(U) /\ Cardinality(U) \in Nat
      BY <2>6 DEF U
    <3>2. /\ IsFiniteSet(U \cup {x})
          /\ Cardinality(U \cup {x}) = IF x \in U THEN Cardinality(U) ELSE Cardinality(U) + 1
      BY Zenon, <3>1, FS_AddElement
    <3> QED BY <3>1, <3>2 DEF U
  <2>8. Cardinality(InUse(s)') <= Cardinality(InUse(s) \cup {x}) /\ IsFiniteSet(InUse(s)')
    BY Zenon, <2>5, <2>7, FS_Subset
  <2>9. Cardinality(InUse(s)') \in Nat
    BY Zenon, <2>8, FS_CardinalityType
  <2> QED BY SMTT(30), <2>4, <2>6, <2>7, <2>8, <2>9, Limits
<1>2. Inv /\ Books /\ Modest /\ [Next]_vars =>
        [\A s \in Service : breaker'[s].state = "HalfOpen" /\ ~(InUse(s)' \subseteq InUse(s))
             => Cardinality(InUse(s)') <= HalfOpenAttempts]_vars
  BY Zenon, <1>1
<1>3. Init => Modest
  BY SMTT(30), FS_EmptySet DEF Init, Modest, ClosedBreaker
<1>4. Inv /\ Modest /\ [Next]_vars => Modest'
  BY ModestStep
<1> QED BY <1>2, <1>3, <1>4, Invariance, BooksInvariance, PTL DEF Spec, HalfOpenBounded
=============================================================================
