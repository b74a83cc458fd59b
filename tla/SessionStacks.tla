--------------------------- MODULE SessionStacks ----------------------------
(* ClientSession, for any number of threads and sends: its inductive       *)
(* invariant, what the steps of the threads do to their stacks, and the    *)
(* steps that do not write, from start() to close().                       *)
EXTENDS ClientSession, TLAPS

-----------------------------------------------------------------------------
(* Stacks.                                                                 *)

\* The points of runQueuedFlush() and drainSendQueue(): who is there writes the queue.
Baton == {"flush", "drain", "writeItem", "wrote", "pop", "drained", "stopFlush"}

\* The points of start() up to markReady(), which TLS may delay, and what may come first.
Token == {"start", "run", "initializeTls", "markReady"}
Leads == {"handshaken", "armConnection"}

\* Points of the poller thread.
OfPoller == Token \cup {"read", "write", "handshake", "firstHandshake"}

\* Points that only some steps may add.
Marked == Baton \cup Token \cup {"unready", "clear", "abort", "clearAgain", "pushOne", "pushTwo"}

Ordinary ==
    {"connected", "user", "data", "receive", "close", "closed", "releaseTls", "closeSocket", "closeAgain",
     "armWrite", "stopWrite", "blocked", "connectionTimer", "readTimer", "writeTimer", "unlock"}

Point == Marked \cup OfPoller \cup Leads \cup Ordinary

Stacks == [Thread -> Seq(Point)]

Within(points, S) == \E i \in 1..Len(points) : points[i] \in S
SomeIn(st, S) == \E t \in Thread : Within(st[t], S)
OnceIn(st, S) ==
    \A t, u \in Thread : \A i \in 1..Len(st[t]), j \in 1..Len(st[u]) :
        st[t][i] \in S /\ st[u][j] \in S => t = u /\ i = j

\* What t has to do is points, but for the first n, and then what it had to do below
\* the top of its stack; what is left out are ends of guards.
Moved(st, after, t, points) ==
    /\ st \in Stacks /\ after \in Stacks /\ t \in Thread /\ points \in Seq(Point)
    /\ \A u \in Thread : u # t => after[u] = st[u]
    /\ \E n \in Nat : \A i \in 1..Len(after[t]) :
           \/ i + n \in 1..Len(points) /\ after[t][i] = points[i + n]
           \/ /\ i + n > Len(points) /\ i + n - Len(points) + 1 \in 2..Len(st[t])
              /\ after[t][i] = st[t][i + n - Len(points) + 1]
    /\ \A i \in 1..Len(points) : points[i] # "unlock" => Within(after[t], {points[i]})
    /\ \A i \in 2..Len(st[t]) : st[t][i] # "unlock" => Within(after[t], {st[t][i]})

\* What a concatenation has at each index.
LEMMA Concatenated ==
  ASSUME NEW S, NEW a \in Seq(S), NEW b \in Seq(S)
  PROVE  /\ a \o b \in Seq(S) /\ Len(a \o b) = Len(a) + Len(b)
         /\ \A k \in 1..Len(a) + Len(b) : (a \o b)[k] = IF k <= Len(a) THEN a[k] ELSE b[k - Len(a)]
OBVIOUS

\* A thread goes on from its point.
LEMMA GotoMoves ==
  ASSUME stack \in Stacks, NEW t \in Thread, stack[t] # <<>>, NEW points \in Seq(Point),
         Goto(t, points)
  PROVE  /\ Moved(stack, stack', t, points)
         /\ points # <<>> /\ points[1] # "unlock" => stack'[t] # <<>> /\ Head(stack'[t]) = points[1]
<1> DEFINE rest == points \o Tail(stack[t])
<1>1. stack[t] \in Seq(Point) /\ Tail(stack[t]) \in Seq(Point) /\ Len(stack[t]) \in Nat \ {0}
      /\ Len(Tail(stack[t])) = Len(stack[t]) - 1
      /\ \A i \in 1..Len(stack[t]) - 1 : Tail(stack[t])[i] = stack[t][i + 1]
  BY DEF Stacks
<1>2. rest \in Seq(Point) /\ Len(points) \in Nat /\ Len(rest) = Len(points) + Len(stack[t]) - 1
      /\ \A i \in 1..Len(rest) : rest[i] = IF i <= Len(points) THEN points[i]
                                           ELSE stack[t][i - Len(points) + 1]
  BY <1>1
<1>3. PICK n \in 0..Len(rest) :
         /\ \A i \in 1..n : rest[i] = "unlock"
         /\ n < Len(rest) => rest[n + 1] # "unlock"
         /\ stack' = [stack EXCEPT ![t] = SubSeq(rest, n + 1, Len(rest))]
  BY Zenon DEF Goto
<1> HIDE DEF rest
<1>4. /\ SubSeq(rest, n + 1, Len(rest)) \in Seq(Point)
      /\ Len(SubSeq(rest, n + 1, Len(rest))) = Len(rest) - n
      /\ \A i \in 1..Len(rest) - n : SubSeq(rest, n + 1, Len(rest))[i] = rest[i + n]
  BY <1>2, <1>3
<1>5. /\ stack' \in Stacks /\ stack'[t] = SubSeq(rest, n + 1, Len(rest))
      /\ \A u \in Thread : u # t => stack'[u] = stack[u]
  BY <1>3, <1>4 DEF Stacks
<1>6. \A i \in 1..Len(stack'[t]) :
           \/ i + n \in 1..Len(points) /\ stack'[t][i] = points[i + n]
           \/ /\ i + n > Len(points) /\ i + n - Len(points) + 1 \in 2..Len(stack[t])
              /\ stack'[t][i] = stack[t][i + n - Len(points) + 1]
  <2> SUFFICES ASSUME NEW i \in 1..Len(stack'[t])
               PROVE  \/ i + n \in 1..Len(points) /\ stack'[t][i] = points[i + n]
                      \/ /\ i + n > Len(points) /\ i + n - Len(points) + 1 \in 2..Len(stack[t])
                         /\ stack'[t][i] = stack[t][i + n - Len(points) + 1]
    BY Zenon
  <2>1. i \in 1..Len(rest) - n /\ i + n \in 1..Len(rest) /\ i + n \in Nat
    BY <1>2, <1>3, <1>4, <1>5
  <2>2. stack'[t][i] = rest[i + n]
    BY Zenon, <1>4, <1>5, <2>1
  <2>3. CASE i + n <= Len(points)
    <3>1. i + n \in 1..Len(points)
      BY <1>2, <2>1, <2>3
    <3> QED BY Zenon, <1>2, <2>1, <2>2, <2>3, <3>1
  <2>4. CASE ~(i + n <= Len(points))
    <3>0. Len(points) \in Nat /\ Len(stack[t]) \in Nat /\ Len(rest) = Len(points) + Len(stack[t]) - 1
      BY Zenon, <1>1, <1>2
    <3>1. i + n > Len(points) /\ i + n - Len(points) + 1 \in 2..Len(stack[t])
      BY <2>1, <2>4, <3>0
    <3> QED BY <1>2, <2>1, <2>2, <2>4, <3>1
  <2> QED BY <2>3, <2>4
<1>9. ASSUME NEW m \in 1..Len(rest), rest[m] # "unlock" PROVE Within(stack'[t], {rest[m]})
  <2>1. m > n
    BY <1>3, <1>9
  <2>2. m - n \in 1..Len(rest) - n /\ (m - n) + n = m
    BY <1>2, <1>3, <2>1
  <2> QED BY Zenon, <1>4, <1>5, <2>2 DEF Within
<1>10. ASSUME NEW i \in 1..Len(points), points[i] # "unlock" PROVE Within(stack'[t], {points[i]})
  <2>1. i \in 1..Len(rest) /\ i <= Len(points)
    BY <1>1, <1>2
  <2>2. rest[i] = points[i]
    BY Zenon, <1>2, <2>1
  <2> QED BY Zenon, <1>9, <1>10, <2>1, <2>2
<1>11. ASSUME NEW i \in 2..Len(stack[t]), stack[t][i] # "unlock" PROVE Within(stack'[t], {stack[t][i]})
  <2> DEFINE m == i - 1 + Len(points)
  <2>1. m \in 1..Len(rest) /\ ~(m <= Len(points)) /\ m - Len(points) + 1 = i
    BY <1>1, <1>2
  <2>2. rest[m] = stack[t][i]
    BY <1>2, <2>1
  <2> QED BY Zenon, <1>9, <1>11, <2>1, <2>2
<1>7. Moved(stack, stack', t, points)
  <2>1. n \in Nat
    BY <1>2, <1>3
  <2> QED BY <1>5, <1>6, <1>10, <1>11, <2>1, Zenon DEF Moved
<1>8. ASSUME points # <<>>, points[1] # "unlock" PROVE stack'[t] # <<>> /\ Head(stack'[t]) = points[1]
  <2>0. Len(points) >= 1
    BY <1>8
  <2>1. rest[1] = points[1] /\ n = 0
    BY <1>1, <1>2, <1>3, <1>8, <2>0
  <2>2. Len(rest) >= 1 /\ 1 \in 1..Len(rest)
    BY <1>1, <1>2, <2>0
  <2>3. stack'[t] \in Seq(Point) /\ Len(stack'[t]) = Len(rest) /\ stack'[t][1] = rest[1]
    BY <1>2, <1>4, <1>5, <2>1, <2>2
  <2> QED BY <1>2, <2>1, <2>2, <2>3
<1> QED BY <1>7, <1>8

\* A thread that had nothing to do begins.
LEMMA BeginMoves ==
  ASSUME stack \in Stacks, NEW t \in Thread, stack[t] = <<>>, NEW points \in Seq(Point),
         stack' = [stack EXCEPT ![t] = points]
  PROVE  Moved(stack, stack', t, points)
<1>1. /\ stack' \in Stacks /\ stack'[t] = points /\ \A u \in Thread : u # t => stack'[u] = stack[u]
  BY DEF Stacks
<1>2. \A i \in 1..Len(stack'[t]) : i + 0 \in 1..Len(points) /\ stack'[t][i] = points[i + 0]
  BY <1>1
<1>3. \A i \in 1..Len(points) : Within(stack'[t], {points[i]})
  BY <1>1 DEF Within
<1>4. \A i \in 2..Len(stack[t]) : FALSE
  OBVIOUS
<1> QED BY <1>1, <1>2, <1>3, <1>4 DEF Moved

\* Every point on a stack was there before, or is one of the new ones.
LEMMA MovedWithin ==
  ASSUME NEW st, NEW after, NEW t, NEW points, Moved(st, after, t, points), NEW S
  PROVE  /\ \A u \in Thread : Within(after[u], S) => Within(st[u], S) \/ (u = t /\ Within(points, S))
         /\ SomeIn(after, S) => SomeIn(st, S) \/ Within(points, S)
<1>1. ASSUME NEW u \in Thread, Within(after[u], S)
      PROVE  Within(st[u], S) \/ (u = t /\ Within(points, S))
  <2>1. CASE u # t
    BY <1>1, <2>1 DEF Moved
  <2>2. CASE u = t
    <3>1. PICK i \in 1..Len(after[t]) : after[t][i] \in S
      BY <1>1, <2>2 DEF Within
    <3>2. PICK n \in Nat :
             \/ i + n \in 1..Len(points) /\ after[t][i] = points[i + n]
             \/ /\ i + n > Len(points) /\ i + n - Len(points) + 1 \in 2..Len(st[t])
                /\ after[t][i] = st[t][i + n - Len(points) + 1]
      BY DEF Moved
    <3>3. Len(st[t]) \in Nat /\ Len(points) \in Nat /\ t \in Thread
      BY DEF Moved, Stacks
    <3>4. \A m \in 2..Len(st[t]) : m \in 1..Len(st[t])
      BY <3>3
    <3> QED BY Zenon, <2>2, <3>1, <3>2, <3>4 DEF Within
  <2> QED BY <2>1, <2>2
<1> QED BY <1>1 DEF SomeIn, Moved

\* What is on a stack below its top stays, unless it is the end of a guard.
LEMMA MovedStays ==
  ASSUME NEW st, NEW after, NEW t, NEW points, Moved(st, after, t, points), NEW S, "unlock" \notin S,
         SomeIn(st, S), st[t] # <<>> => Head(st[t]) \notin S
  PROVE  SomeIn(after, S)
<1>0. PICK u \in Thread : Within(st[u], S)
  BY DEF SomeIn
<1>1. PICK i \in 1..Len(st[u]) : st[u][i] \in S
  BY <1>0 DEF Within
<1>2. CASE u # t
  BY <1>1, <1>2 DEF Moved, SomeIn, Within
<1>3. CASE u = t
  <2>1. st[t] \in Seq(Point) /\ Len(st[t]) \in Nat
    BY DEF Moved, Stacks
  <2>2. i # 1
    BY <1>1, <1>3, <2>1
  <2>3. i \in 2..Len(st[t]) /\ st[t][i] # "unlock"
    BY <1>1, <1>3, <2>1, <2>2
  <2>4. Within(after[t], {st[t][i]})
    BY <2>3 DEF Moved
  <2> QED BY <1>1, <1>3, <2>4 DEF SomeIn, Within
<1> QED BY <1>2, <1>3

\* A new point is there.
LEMMA MovedTo ==
  ASSUME NEW st, NEW after, NEW t, NEW points, Moved(st, after, t, points), NEW S, "unlock" \notin S,
         Within(points, S)
  PROVE  SomeIn(after, S)
<1>1. PICK i \in 1..Len(points) : points[i] \in S
  BY DEF Within
<1>2. Within(after[t], {points[i]}) /\ t \in Thread
  BY <1>1 DEF Moved
<1> QED BY <1>1, <1>2 DEF SomeIn, Within

\* If there is at most one of the points S there still is if the new points have none,
\* or one that takes the place of the one on top or of none.
LEMMA MovedOnce ==
  ASSUME NEW st, NEW after, NEW t, NEW points, Moved(st, after, t, points), NEW S,
         OnceIn(st, S),
         \A i, j \in 1..Len(points) : points[i] \in S /\ points[j] \in S => i = j,
         Within(points, S) => ~SomeIn(st, S) \/ (st[t] # <<>> /\ Head(st[t]) \in S)
  PROVE  OnceIn(after, S)
<1>1. Len(st[t]) \in Nat /\ Len(points) \in Nat /\ t \in Thread /\ Len(after[t]) \in Nat
      /\ st[t] \in Seq(Point)
  BY DEF Moved, Stacks
<1>2. PICK n \in Nat : \A i \in 1..Len(after[t]) :
           \/ i + n \in 1..Len(points) /\ after[t][i] = points[i + n]
           \/ /\ i + n > Len(points) /\ i + n - Len(points) + 1 \in 2..Len(st[t])
              /\ after[t][i] = st[t][i + n - Len(points) + 1]
  BY Zenon DEF Moved
<1>3. ASSUME Within(points, S), NEW u \in Thread, NEW m \in 1..Len(st[u]), st[u][m] \in S
      PROVE  u = t /\ m = 1
  <2>1. SomeIn(st, S)
    BY <1>3 DEF SomeIn, Within
  <2>2. st[t] # <<>> /\ Head(st[t]) \in S
    BY <1>3, <2>1
  <2>3. 1 \in 1..Len(st[t]) /\ st[t][1] \in S
    BY <1>1, <2>2
  <2> QED BY <1>1, <1>3, <2>3 DEF OnceIn
<1>4. ASSUME NEW i \in 1..Len(after[t]), NEW j \in 1..Len(after[t]),
             after[t][i] \in S, after[t][j] \in S
      PROVE  i = j
  <2>1. CASE i + n \in 1..Len(points) /\ after[t][i] = points[i + n]
    <3>1. Within(points, S)
      BY <1>4, <2>1 DEF Within
    <3>3. \A m \in 2..Len(st[t]) : m \in 1..Len(st[t]) /\ m # 1
      BY <1>1
    <3>4. \A m \in 2..Len(st[t]) : st[t][m] \notin S
      BY <1>1, <1>3, <3>1, <3>3
    <3>2. j + n \in 1..Len(points) /\ after[t][j] = points[j + n]
      BY Zenon, <1>2, <1>4, <3>4
    <3> QED BY <1>1, <1>2, <1>4, <2>1, <3>2
  <2>2. CASE /\ i + n > Len(points) /\ i + n - Len(points) + 1 \in 2..Len(st[t])
             /\ after[t][i] = st[t][i + n - Len(points) + 1]
    <3>1. ~Within(points, S)
      BY <1>1, <1>3, <1>4, <2>2
    <3>2. /\ j + n > Len(points) /\ j + n - Len(points) + 1 \in 2..Len(st[t])
          /\ after[t][j] = st[t][j + n - Len(points) + 1]
      BY <1>2, <1>4, <3>1 DEF Within
    <3>4. \A m \in 2..Len(st[t]) : m \in 1..Len(st[t])
      BY <1>1
    <3>3. i + n - Len(points) + 1 = j + n - Len(points) + 1
      <4> DEFINE a == i + n - Len(points) + 1
                 b == j + n - Len(points) + 1
      <4>1. a \in 1..Len(st[t]) /\ b \in 1..Len(st[t]) /\ st[t][a] \in S /\ st[t][b] \in S
        BY Zenon, <1>4, <2>2, <3>2, <3>4
      <4> HIDE DEF a, b
      <4>2. a = b
        BY <1>1, <4>1 DEF OnceIn
      <4> QED BY <4>2 DEF a, b
    <3> QED BY <1>1, <1>2, <3>3
  <2> QED BY <1>2, <2>1, <2>2
<1>5. ASSUME NEW u \in Thread, NEW v \in Thread, NEW i \in 1..Len(after[u]), NEW j \in 1..Len(after[v]),
             after[u][i] \in S, after[v][j] \in S, u # v
      PROVE  FALSE
  <2>1. ASSUME NEW w \in Thread, w # t, NEW k \in 1..Len(after[w]), NEW m \in 1..Len(after[t]),
               after[w][k] \in S, after[t][m] \in S
        PROVE  FALSE
    <3>1. k \in 1..Len(st[w]) /\ st[w][k] \in S
      BY <2>1 DEF Moved
    <3>2. ~Within(points, S)
      BY <1>3, <2>1, <3>1
    <3>4. m + n - Len(points) + 1 \in 2..Len(st[t]) /\ st[t][m + n - Len(points) + 1] \in S
      BY Zenon, <1>2, <2>1, <3>2 DEF Within
    <3>3. m + n - Len(points) + 1 \in 1..Len(st[t]) /\ st[t][m + n - Len(points) + 1] \in S
      BY <1>1, <3>4
    <3> QED BY <1>1, <2>1, <3>1, <3>3 DEF OnceIn
  <2>2. u = t \/ v = t
    BY Zenon, <1>5 DEF Moved, OnceIn
  <2> QED BY <1>1, <1>5, <2>1, <2>2
<1> QED BY <1>1, <1>4, <1>5, SMTT(30) DEF OnceIn, Moved

\* The only one goes when its thread goes on to other points.
LEMMA MovedNone ==
  ASSUME NEW st, NEW after, NEW t, NEW points, Moved(st, after, t, points), NEW S,
         OnceIn(st, S), st[t] # <<>>, Head(st[t]) \in S, ~Within(points, S)
  PROVE  ~SomeIn(after, S)
<1> SUFFICES ASSUME NEW u \in Thread, NEW i \in 1..Len(after[u]), after[u][i] \in S PROVE FALSE
  BY DEF SomeIn, Within
<1>1. Len(st[t]) \in Nat /\ Len(points) \in Nat /\ t \in Thread /\ st[t] \in Seq(Point)
  BY DEF Moved, Stacks
<1>2. 1 \in 1..Len(st[t]) /\ st[t][1] \in S
  BY <1>1
<1>3. u = t
  BY <1>1, <1>2 DEF OnceIn, Moved
<1>4. PICK n \in Nat :
           \/ i + n \in 1..Len(points) /\ after[t][i] = points[i + n]
           \/ /\ i + n > Len(points) /\ i + n - Len(points) + 1 \in 2..Len(st[t])
              /\ after[t][i] = st[t][i + n - Len(points) + 1]
  BY <1>3 DEF Moved
<1>5. /\ i + n - Len(points) + 1 \in 2..Len(st[t]) /\ st[t][i + n - Len(points) + 1] \in S
  BY <1>3, <1>4 DEF Within
<1> QED BY <1>1, <1>2, <1>5 DEF OnceIn

-----------------------------------------------------------------------------
(* The invariant.                                                          *)

Started(st) == ~SomeIn(st, {"start", "run"})
NotReadyYet(st, tls) == SomeIn(st, Token) \/ tls = "Handshaking"

TokenFirst(st) ==
    \A t \in Thread : \A i \in 1..Len(st[t]) : st[t][i] \in Token =>
        \A j \in 1..i - 1 : st[t][j] \in Leads

Typed ==
    /\ stack \in Stacks /\ socket \in {"open", "closed"}
    /\ sent \in Nat /\ promised \in 0..sent
    /\ offset \in Seq(Nat) /\ Len(offset) = sent /\ wire \in Seq(Nat)
    /\ sendQueue \in Seq(1..sent) /\ current \in [Thread -> 0..sent]

\* start() happens once, before anything is sent, and close() after it for good.
Starting ==
    /\ OnceIn(stack, Token) /\ TokenFirst(stack)
    /\ \A t \in Thread : t # Poller => ~Within(stack[t], OfPoller)
    /\ SomeIn(stack, Token) => tlsState # "Handshaking"
    /\ running \/ SomeIn(stack, {"unready", "clear", "abort"}) => Started(stack)
    /\ SomeIn(stack, {"unready", "clear"}) => ~running
    /\ SomeIn(stack, {"clear"}) => ~ready \/ ~SomeIn(stack, Baton)
    /\ SomeIn(stack, {"clearAgain"}) => socket = "closed"
    /\ NotReadyYet(stack, tlsState) =>
         ~ready /\ sent = 0 /\ wire = <<>> /\ ~SomeIn(stack, {"pushOne", "pushTwo"} \cup Baton)

\* The entries that the socket has taken whole.
done == sent - Len(sendQueue)

\* The queue has the sends that are left, in their order, of which only the first may be
\* sent in part, and that is where the thread that writes is.
Healthy ==
    /\ Len(sendQueue) <= sent
    /\ \A k \in 1..Len(sendQueue) : sendQueue[k] = done + k
    /\ Len(wire) = done * ItemSize + (IF sendQueue = <<>> THEN 0 ELSE offset[done + 1])
    /\ \A k \in 2..Len(sendQueue) : offset[done + k] = 0
    /\ \A t \in Thread : Within(stack[t], {"writeItem", "wrote", "pop"}) =>
           sendQueue # <<>> /\ current[t] = done + 1
    /\ sendQueue # <<>> => /\ offset[done + 1] <= ItemSize
                           /\ offset[done + 1] = ItemSize => SomeIn(stack, {"wrote", "pop"})

\* Or close() has cleared it, and nobody writes what is pushed later.
Dead ==
    /\ Started(stack) /\ ~running
    /\ ~ready \/ ~SomeIn(stack, Baton)
    /\ \A t \in Thread : Within(stack[t], {"writeItem"}) => current[t] \notin Entries(sendQueue)

Writing ==
    socket = "open" =>
        /\ OnceIn(stack, Baton)
        /\ running /\ SomeIn(stack, Baton) => flushRunning
        /\ Healthy \/ Dead

InOrder(w) == \A i \in 1..Len(w) : w[i] \in {(i - 1) \div ItemSize + 1, NoItem}

Wires ==
    /\ InOrder(wire)
    /\ NoItem \in Entries(wire) => Started(stack) /\ ~running

SessionInv == Typed /\ Starting /\ Writing /\ Wires

-----------------------------------------------------------------------------
(* Starting.                                                               *)

\* A larger set of points is met more easily.
LEMMA WithinMore ==
  /\ \A p, S, T : S \subseteq T /\ Within(p, S) => Within(p, T)
  /\ \A st, S, T : S \subseteq T /\ SomeIn(st, S) => SomeIn(st, T)
  /\ \A st, S, T : SomeIn(st, S \cup T) <=> SomeIn(st, S) \/ SomeIn(st, T)
BY DEF Within, SomeIn

\* start() goes on as it should if new points of it come in their order.
LEMMA MovedFirst ==
  ASSUME NEW st, NEW after, NEW t, NEW points, Moved(st, after, t, points), TokenFirst(st),
         points = <<>> \/ st[t] = <<>> \/ Head(st[t]) \notin Leads,
         \A i \in 1..Len(points) : points[i] \in Token => \A j \in 1..i - 1 : points[j] \in Leads
  PROVE  TokenFirst(after)
<1> SUFFICES ASSUME NEW u \in Thread, NEW i \in 1..Len(after[u]), after[u][i] \in Token,
                    NEW j \in 1..i - 1
             PROVE  after[u][j] \in Leads
  BY DEF TokenFirst
<1>1. Len(st[t]) \in Nat /\ Len(points) \in Nat /\ t \in Thread /\ Len(after[t]) \in Nat
      /\ st[t] \in Seq(Point)
  BY DEF Moved, Stacks
<1>2. CASE u # t
  BY <1>2 DEF Moved, TokenFirst
<1>3. CASE u = t
  <2>1. PICK n \in Nat : \A k \in 1..Len(after[t]) :
           \/ k + n \in 1..Len(points) /\ after[t][k] = points[k + n]
           \/ /\ k + n > Len(points) /\ k + n - Len(points) + 1 \in 2..Len(st[t])
              /\ after[t][k] = st[t][k + n - Len(points) + 1]
    BY Zenon DEF Moved
  <2>2. j \in 1..Len(after[t]) /\ j + n < i + n /\ i \in 1..Len(after[t])
    BY <1>1, <1>3, <2>1
  <2>3. CASE i + n \in 1..Len(points) /\ after[t][i] = points[i + n]
    <3>1. j + n \in 1..(i + n) - 1 /\ ~(j + n > Len(points))
      BY <1>1, <2>1, <2>2, <2>3
    <3>2. after[t][j] = points[j + n]
      BY Zenon, <2>1, <2>2, <3>1
    <3> QED BY Zenon, <1>3, <2>3, <3>1, <3>2
  <2>4. CASE /\ i + n > Len(points) /\ i + n - Len(points) + 1 \in 2..Len(st[t])
             /\ after[t][i] = st[t][i + n - Len(points) + 1]
    <3> DEFINE m == i + n - Len(points) + 1
    <3>0. m \in 2..Len(st[t]) /\ st[t][m] \in Token
      BY Zenon, <1>3, <2>4
    <3>1. m \in 2..Len(st[t]) /\ m \in 1..Len(st[t]) /\ 1 \in 1..m - 1 /\ st[t][m] \in Token
      <4> HIDE DEF m
      <4> QED BY <1>1, <3>0
    <3>2. \A k \in 1..m - 1 : st[t][k] \in Leads
      BY Zenon, <1>1, <3>1 DEF TokenFirst
    <3>3. points = <<>>
      <4>1. st[t] # <<>> /\ Head(st[t]) = st[t][1]
        BY <1>1, <3>1
      <4> QED BY Zenon, <3>1, <3>2, <4>1
    <3>4. j + n + 1 \in 1..m - 1 /\ Len(points) = 0
      BY <1>1, <2>1, <2>2, <3>3
    <3>5. after[t][j] = st[t][j + n + 1]
      BY <2>1, <2>2, <3>4
    <3> QED BY <1>3, <3>2, <3>4, <3>5
  <2> QED BY <2>1, <2>2, <2>3, <2>4
<1> QED BY <1>2, <1>3

\* Steps of start() apart, a step leaves this in order if it closes as it should and
\* nothing is pushed or written before the session is ready.
LEMMA StartingKept ==
  ASSUME Starting, NEW t, NEW points, Moved(stack, stack', t, points),
         ~Within(points, Token), t = Poller \/ ~Within(points, OfPoller),
         points = <<>> \/ stack[t] = <<>> \/ Head(stack[t]) \notin Leads,
         running' => running, ready' => ready, socket = "closed" => socket' = "closed",
         tlsState' = "Handshaking" => tlsState = "Handshaking",
         Within(points, {"unready", "clear", "abort"}) => Started(stack),
         Within(points, {"unready", "clear"}) => ~running',
         Within(points, {"clear"}) => ~ready',
         Within(points, {"clearAgain"}) => socket' = "closed",
         NotReadyYet(stack, tlsState) =>
             sent' = 0 /\ wire' = <<>> /\ ~Within(points, {"pushOne", "pushTwo"} \cup Baton),
         Within(points, Baton) => SomeIn(stack, Baton) \/ (running /\ ~Within(points, {"clear"}))
  PROVE  Starting'
<1>1. ~Within(points, {"start", "run"})
  BY Zenon DEF Within, Token
<1>2. /\ SomeIn(stack', Token) => SomeIn(stack, Token)
      /\ SomeIn(stack', {"start", "run"}) => SomeIn(stack, {"start", "run"})
      /\ SomeIn(stack', {"unready", "clear", "abort"}) =>
           SomeIn(stack, {"unready", "clear", "abort"}) \/ Within(points, {"unready", "clear", "abort"})
      /\ SomeIn(stack', {"unready", "clear"}) =>
           SomeIn(stack, {"unready", "clear"}) \/ Within(points, {"unready", "clear"})
      /\ SomeIn(stack', {"clear"}) => SomeIn(stack, {"clear"}) \/ Within(points, {"clear"})
      /\ SomeIn(stack', {"clearAgain"}) => SomeIn(stack, {"clearAgain"}) \/ Within(points, {"clearAgain"})
  BY <1>1, MovedWithin
<1>3. /\ SomeIn(stack', Baton) => SomeIn(stack, Baton) \/ Within(points, Baton)
      /\ SomeIn(stack', {"pushOne", "pushTwo"} \cup Baton) =>
           SomeIn(stack, {"pushOne", "pushTwo"} \cup Baton) \/ Within(points, {"pushOne", "pushTwo"} \cup Baton)
      /\ \A u \in Thread : Within(stack'[u], OfPoller) =>
             Within(stack[u], OfPoller) \/ (u = t /\ Within(points, OfPoller))
  BY MovedWithin
<1>4. OnceIn(stack', Token)
  <2>1. \A i, j \in 1..Len(points) : points[i] \in Token /\ points[j] \in Token => i = j
    BY Zenon DEF Within
  <2> QED BY Zenon, <2>1, MovedOnce DEF Starting
<1>5. TokenFirst(stack')
  <2>1. \A i \in 1..Len(points) : points[i] \notin Token
    BY Zenon DEF Within
  <2> QED BY Zenon, <2>1, MovedFirst DEF Starting
<1>6. SomeIn(stack, {"clear"}) => SomeIn(stack, {"unready", "clear"})
  BY WithinMore
<1> QED BY Zenon, <1>2, <1>3, <1>4, <1>5, <1>6 DEF Starting, Started, NotReadyYet

-----------------------------------------------------------------------------
(* Writing.                                                                *)

\* Which of a few points are in a set.
LEMMA WithinFew ==
  /\ <<>> \in Seq(Point)
  /\ \A a \in Point : <<a>> \in Seq(Point)
  /\ \A a, b \in Point : <<a, b>> \in Seq(Point)
  /\ \A a, b, c \in Point : <<a, b, c>> \in Seq(Point)
  /\ \A S : ~Within(<<>>, S)
  /\ \A a, S : Within(<<a>>, S) <=> a \in S
  /\ \A a, b, S : Within(<<a, b>>, S) <=> a \in S \/ b \in S
BY DEF Within

\* Ordinary points are neither marked nor the poller's.
LEMMA OrdinaryFew ==
  /\ \A a \in Ordinary : a \in Point /\ a \notin Marked /\ a \notin OfPoller
  /\ \A a, b \in Ordinary : \A p \in {<<>>, <<a>>, <<a, b>>} :
        p \in Seq(Point) /\ ~Within(p, Marked) /\ ~Within(p, OfPoller)
<1>1. \A a \in Ordinary : a \in Point /\ a \notin Marked /\ a \notin OfPoller
  BY DEF Ordinary, Point, Marked, OfPoller, Baton, Token
<1> QED BY <1>1, WithinFew

\* What is on top is there.
LEMMA TopIn ==
  ASSUME stack \in Stacks, NEW t \in Thread, stack[t] # <<>>, NEW S, Head(stack[t]) \in S
  PROVE  Within(stack[t], S) /\ SomeIn(stack, S)
<1>1. stack[t] \in Seq(Point) /\ 1 \in 1..Len(stack[t]) /\ stack[t][1] = Head(stack[t])
  BY DEF Stacks
<1> QED BY <1>1 DEF Within, SomeIn

\* A step that neither writes nor pushes, nor clears the queue.
LEMMA WritingKept ==
  ASSUME SessionInv, NEW t, NEW points, Moved(stack, stack', t, points),
         stack[t] = <<>> \/ Head(stack[t]) \notin Baton,
         ~Within(points, {"writeItem", "wrote", "pop"}),
         \A i, j \in 1..Len(points) : points[i] \in Baton /\ points[j] \in Baton => i = j,
         socket = "open" /\ Within(points, Baton) => running /\ ~SomeIn(stack, Baton),
         socket = "open" /\ running' /\ (SomeIn(stack, Baton) \/ Within(points, Baton)) => flushRunning',
         SomeIn(stack, {"start", "run"}) \/ ((running' => running) /\ ~Within(points, {"start", "run"})),
         ready' => ready \/ ~SomeIn(stack, Baton), socket = "closed" => socket' = "closed",
         socket' \in {"open", "closed"},
         promised' \in 0..sent, UNCHANGED <<sendQueue, offset, current, sent, wire>>
  PROVE  Typed' /\ Writing' /\ Wires'
<1>1. Typed'
  BY DEF SessionInv, Typed, Moved
<1>2. /\ SomeIn(stack', Baton) => SomeIn(stack, Baton) \/ Within(points, Baton)
      /\ SomeIn(stack', {"start", "run"}) => SomeIn(stack, {"start", "run"}) \/ Within(points, {"start", "run"})
  BY Zenon, MovedWithin
<1>3. SomeIn(stack, {"start", "run"}) => NotReadyYet(stack, tlsState)
  BY WithinMore DEF NotReadyYet, Token
<1>4. Wires'
  <2>1. CASE SomeIn(stack, {"start", "run"})
    BY SMTT(30), <1>3, <2>1 DEF SessionInv, Wires, Starting, Entries
  <2>2. CASE ~SomeIn(stack, {"start", "run"})
    BY Zenon, <1>2, <2>2 DEF SessionInv, Wires, Started
  <2> QED BY <2>1, <2>2
<1>5. ASSUME socket' = "open" PROVE OnceIn(stack', Baton) /\ (running' /\ SomeIn(stack', Baton) => flushRunning')
  <2>1. socket = "open"
    BY <1>5 DEF SessionInv, Typed
  <2>2. OnceIn(stack', Baton)
    BY Zenon, <2>1, MovedOnce DEF SessionInv, Writing
  <2> QED BY Zenon, <1>2, <2>1, <2>2
<1>6. ASSUME NEW S, S \subseteq {"writeItem", "wrote", "pop"}, NEW u \in Thread, Within(stack'[u], S)
      PROVE  Within(stack[u], S)
  <2>1. ~Within(points, S)
    BY Zenon, <1>6, WithinMore
  <2> QED BY Zenon, <1>6, <2>1, MovedWithin
<1>7. ASSUME socket' = "open", Healthy PROVE Healthy'
  <2>1. SomeIn(stack, {"wrote", "pop"}) => SomeIn(stack', {"wrote", "pop"})
    BY Zenon, MovedStays DEF Baton
  <2>2. \A u \in Thread : Within(stack'[u], {"writeItem", "wrote", "pop"}) =>
            Within(stack[u], {"writeItem", "wrote", "pop"})
    BY Zenon, <1>6
  <2> QED BY <1>7, <2>1, <2>2 DEF Healthy, done
<1>8. ASSUME socket' = "open", Dead PROVE Dead'
  <2>1. socket = "open" /\ ~SomeIn(stack, {"start", "run"}) /\ ~running
    BY Zenon, <1>8 DEF SessionInv, Typed, Dead, Started
  <2>2. \A u \in Thread : Within(stack'[u], {"writeItem"}) => Within(stack[u], {"writeItem"})
    BY Zenon, <1>6
  <2> QED BY Zenon, <1>2, <1>8, <2>1, <2>2 DEF Dead, Started
<1>9. socket' = "open" => Healthy \/ Dead
  BY Zenon DEF SessionInv, Typed, Writing
<1> QED BY Zenon, <1>1, <1>4, <1>5, <1>7, <1>8, <1>9 DEF Writing

-----------------------------------------------------------------------------
(* The steps that do not touch the queue.                                  *)

\* A step that adds no point of Marked, takes no part in the flush and leaves the queue
\* alone keeps the invariant.
LEMMA QuietStep ==
  ASSUME SessionInv, NEW t, NEW points, Moved(stack, stack', t, points),
         ~Within(points, Marked), t = Poller \/ ~Within(points, OfPoller),
         points = <<>> \/ stack[t] = <<>> \/ Head(stack[t]) \notin Leads,
         stack[t] = <<>> \/ Head(stack[t]) \notin Baton,
         running' => running, ready' => ready, socket = "closed" => socket' = "closed",
         socket' \in {"open", "closed"}, tlsState' = "Handshaking" => tlsState = "Handshaking",
         promised' \in 0..sent, UNCHANGED <<flushRunning, sendQueue, offset, current, sent, wire>>
  PROVE  SessionInv'
<1>1. /\ ~Within(points, Token) /\ ~Within(points, Baton) /\ ~Within(points, {"start", "run"})
      /\ ~Within(points, {"unready", "clear", "abort"}) /\ ~Within(points, {"unready", "clear"})
      /\ ~Within(points, {"clear"}) /\ ~Within(points, {"clearAgain"})
      /\ ~Within(points, {"pushOne", "pushTwo"} \cup Baton) /\ ~Within(points, {"writeItem", "wrote", "pop"})
  BY DEF Within, Marked, Token, Baton
<1>2. \A i, j \in 1..Len(points) : points[i] \in Baton /\ points[j] \in Baton => i = j
  BY <1>1 DEF Within
<1>3. socket = "open" /\ running' /\ SomeIn(stack, Baton) => flushRunning'
  BY DEF SessionInv, Writing
<1>4. NotReadyYet(stack, tlsState) => sent' = 0 /\ wire' = <<>>
  BY Zenon DEF SessionInv, Starting
<1>5. Starting'
  BY Zenon, <1>1, <1>4, StartingKept DEF SessionInv
<1>6. Typed' /\ Writing' /\ Wires'
  BY Zenon, <1>1, <1>2, <1>3, WritingKept
<1> QED BY Zenon, <1>5, <1>6 DEF SessionInv

\* A user's call from outside, or from within a callback, is a move of the caller's stack.
LEMMA CallsMove ==
  ASSUME stack \in Stacks, NEW t \in Thread, NEW points \in Seq(Point), Calls(t, points)
  PROVE  Moved(stack, stack', t, points) /\ (stack[t] = <<>> \/ Head(stack[t]) \in {"user", "data"})
BY GotoMoves, BeginMoves DEF Calls, InCallback, At

\* A thread goes on to points that are nothing special.
LEMMA QuietGoto ==
  ASSUME SessionInv, NEW t \in Thread, NEW points \in Seq(Point), stack[t] # <<>>, Goto(t, points),
         ~Within(points, Marked), t = Poller \/ ~Within(points, OfPoller),
         points = <<>> \/ Head(stack[t]) \notin Leads, Head(stack[t]) \notin Baton,
         UNCHANGED <<running, ready, flushRunning, sendQueue, offset, current, sent, wire, promised>>,
         socket' = socket \/ socket' = "closed", tlsState' = tlsState \/ tlsState' = "Disabled"
  PROVE  SessionInv'
<1>1. Moved(stack, stack', t, points)
  BY GotoMoves DEF SessionInv, Typed
<1>2. promised' \in 0..sent /\ socket \in {"open", "closed"}
  BY DEF SessionInv, Typed
<1> QED BY <1>1, <1>2, QuietStep

\* An application's call.
LEMMA QuietCall ==
  ASSUME SessionInv, NEW t \in Thread, NEW points \in Seq(Point), Calls(t, points),
         ~Within(points, Marked), ~Within(points, OfPoller),
         UNCHANGED <<running, ready, socket, tlsState, flushRunning, sendQueue, offset, current, sent, wire>>,
         promised' \in {promised, sent}
  PROVE  SessionInv'
<1>1. Moved(stack, stack', t, points) /\ (stack[t] = <<>> \/ Head(stack[t]) \notin Leads \cup Baton)
  BY ZenonT(30), CallsMove DEF SessionInv, Typed, Leads, Baton
<1>2. promised' \in 0..sent /\ socket \in {"open", "closed"}
  BY DEF SessionInv, Typed
<1> QED BY <1>1, <1>2, QuietStep

\* The timers' arming, the handshake's rounds, the end of close() and the receives of
\* handleRead() keep the invariant.
LEMMA QuietSteps ==
  ASSUME SessionInv, NEW t \in Thread,
         \/ ArmConnectionTimer(t) \/ CallConnected(t) \/ Handshaken(t)
         \/ \E point \in {"firstHandshake", "handshake"} : HandshakeWaits(t, point) \/ HandshakeIsOver(t, point)
         \/ HandshakeFails(t, "handshake", "close")
         \/ ReleaseTls(t) \/ CloseSocket(t) \/ CallClosed(t)
         \/ NothingToCall(t) \/ ArmWriteTimer(t) \/ StopWriteTimer(t) \/ Blocked(t)
         \/ ReceiveEnds(t) \/ ReceiveData(t) \/ ReceiveWouldBlock(t) \/ ReceiveFails(t)
         \/ TimerSteps(t)
  PROVE  SessionInv'
<1> USE DEF lifeVars, queueVars, historyVars
<1>1. CASE /\ \/ ArmConnectionTimer(t) \/ Handshaken(t) \/ CloseSocket(t) \/ CallClosed(t) \/ NothingToCall(t)
              \/ ArmWriteTimer(t) \/ StopWriteTimer(t) \/ Blocked(t) \/ ReceiveEnds(t) \/ ReceiveWouldBlock(t)
              \/ \E point \in {"firstHandshake", "handshake"} : HandshakeWaits(t, point) \/ HandshakeIsOver(t, point)
  <2>1. stack[t] # <<>> /\ Goto(t, <<>>) /\ Head(stack[t]) \notin Baton
    BY ZenonT(30), <1>1 DEF ArmConnectionTimer, Handshaken, CloseSocket, CallClosed, NothingToCall, InCallback,
        ArmWriteTimer, StopWriteTimer, Blocked, ReceiveEnds, ReceiveWouldBlock, HandshakeWaits,
        HandshakeIsOver, Handshakes, At, Return, Baton
  <2>2. /\ UNCHANGED <<running, ready, flushRunning, sendQueue, offset, current, sent, wire, promised>>
        /\ socket' = socket \/ socket' = "closed"
        /\ tlsState' = tlsState
    BY ZenonT(30), <1>1 DEF ArmConnectionTimer, Handshaken, CloseSocket, CallClosed, NothingToCall,
        ArmWriteTimer, StopWriteTimer, Blocked, ReceiveEnds, ReceiveWouldBlock, HandshakeWaits,
        HandshakeIsOver
  <2> QED BY Zenon, <2>1, <2>2, WithinFew, QuietGoto
<1>2. ASSUME NEW point \in Ordinary, stack[t] # <<>>, Goto(t, <<point>>),
             Head(stack[t]) \notin Leads \cup Baton,
             UNCHANGED <<running, ready, socket, flushRunning, sendQueue, offset, current, sent, wire, promised>>,
             tlsState' = tlsState \/ tlsState' = "Disabled"
      PROVE  SessionInv'
  BY ZenonT(30), <1>2, OrdinaryFew, QuietGoto
<1>3. CASE CallConnected(t)
  BY ZenonT(30), <1>2, <1>3 DEF CallConnected, At, Leads, Baton, Ordinary
<1>4. CASE HandshakeFails(t, "handshake", "close")
  BY ZenonT(30), <1>2, <1>4 DEF HandshakeFails, Handshakes, At, Leads, Baton, Ordinary
<1>5. CASE ReleaseTls(t)
  BY ZenonT(30), <1>2, <1>5 DEF ReleaseTls, At, Leads, Baton, Ordinary
<1>6. CASE ReceiveFails(t)
  BY ZenonT(30), <1>2, <1>6 DEF ReceiveFails, At, Leads, Baton, Ordinary
<1>7. CASE ReceiveData(t)
  <2>1. /\ stack[t] # <<>> /\ Head(stack[t]) \notin Leads \cup Baton
        /\ Goto(t, <<"data">>) \/ Goto(t, <<"data", "receive">>)
        /\ UNCHANGED <<running, ready, socket, tlsState, flushRunning, sendQueue, offset, current, sent, wire, promised>>
    BY Zenon, <1>7 DEF ReceiveData, At, Leads, Baton
  <2>2. "data" \in Ordinary /\ "receive" \in Ordinary
    BY DEF Ordinary
  <2> QED BY ZenonT(30), <2>1, <2>2, OrdinaryFew, QuietGoto
<1>8. CASE TimerSteps(t)
  <2>1. /\ stack[t] # <<>> /\ Head(stack[t]) \notin Leads \cup Baton
        /\ Goto(t, <<>>) \/ Goto(t, <<"close">>)
        /\ UNCHANGED <<running, ready, socket, tlsState, flushRunning, sendQueue, offset, current, sent, wire, promised>>
    BY Zenon, <1>8 DEF TimerSteps, TimerCallback, At, Leads, Baton
  <2>2. "close" \in Ordinary
    BY DEF Ordinary
  <2> QED BY ZenonT(30), <2>1, <2>2, OrdinaryFew, QuietGoto
<1> QED BY <1>1, <1>3, <1>4, <1>5, <1>6, <1>7, <1>8

\* closeAfterPendingWrites(), close() and new timeouts, called by any thread, keep it.
LEMMA QuietCalls ==
  ASSUME SessionInv, NEW t \in Thread, CloseAfterPendingWrites(t) \/ CallClose(t) \/ UpdateTimeouts(t)
  PROVE  SessionInv'
<1> USE DEF lifeVars, queueVars, historyVars
<1>1. PICK points \in {<<>>, <<"close">>, <<"armWrite">>, <<"stopWrite">>} : Calls(t, points)
  BY DEF CloseAfterPendingWrites, CallClose, UpdateTimeouts
<1>2. /\ UNCHANGED <<running, ready, socket, tlsState, flushRunning, sendQueue, offset, current, sent, wire>>
      /\ promised' \in {promised, sent}
  BY DEF CloseAfterPendingWrites, CallClose, UpdateTimeouts
<1>3. "close" \in Ordinary /\ "armWrite" \in Ordinary /\ "stopWrite" \in Ordinary
  BY DEF Ordinary
<1> QED BY Zenon, <1>1, <1>2, <1>3, OrdinaryFew, QuietCall

\* So does a timer that fires on a worker.
LEMMA TimerFiresStep ==
  ASSUME SessionInv, NEW w \in Worker, NEW timer \in {"connection", "read", "write"}, TimerFires(w, timer)
  PROVE  SessionInv'
<1>0. Callback[timer] \in {"connectionTimer", "readTimer", "writeTimer"}
  BY DEF Callback
<1>1. PICK point \in {"connectionTimer", "readTimer", "writeTimer"} :
         stack[w] = <<>> /\ stack' = [stack EXCEPT ![w] = <<point>>]
  BY <1>0, Zenon DEF TimerFires
<1>2. point \in Ordinary /\ w \in Thread
  BY DEF Ordinary, Thread
<1>3. <<point>> \in Seq(Point) /\ ~Within(<<point>>, Marked) /\ ~Within(<<point>>, OfPoller)
  BY Zenon, <1>2, OrdinaryFew
<1>4. Moved(stack, stack', w, <<point>>)
  BY Zenon, <1>1, <1>2, <1>3, BeginMoves DEF SessionInv, Typed
<1>5. /\ UNCHANGED <<running, ready, socket, tlsState, flushRunning, sendQueue, offset, current, sent, wire>>
      /\ promised' \in 0..sent /\ socket \in {"open", "closed"}
  BY DEF TimerFires, lifeVars, queueVars, historyVars, SessionInv, Typed
<1> QED BY Zenon, <1>1, <1>3, <1>4, <1>5, QuietStep

\* Events are reported to the poller thread.
LEMMA PollEventsStep ==
  ASSUME SessionInv, NEW t \in Thread, PollEvents(t)
  PROVE  SessionInv'
<1>1. PICK report \in {<<"read">>, <<"write">>, <<"close">>, <<"read", "write">>,
                       <<"read", "close">>, <<"write", "close">>, <<"read", "write", "close">>} :
         stack' = [stack EXCEPT ![t] = report]
  BY Zenon DEF PollEvents
<1>2. t = Poller /\ stack[t] = <<>>
  BY DEF PollEvents
<1>3. /\ "read" \in Point /\ "write" \in Point /\ "close" \in Point
      /\ "read" \notin Marked /\ "write" \notin Marked /\ "close" \notin Marked
  BY DEF Point, Marked, OfPoller, Ordinary, Baton, Token
<1>4. report \in Seq(Point)
  <2>1. /\ <<"read">> \in Seq(Point) /\ <<"write">> \in Seq(Point) /\ <<"close">> \in Seq(Point)
        /\ <<"read", "write">> \in Seq(Point) /\ <<"read", "close">> \in Seq(Point)
        /\ <<"write", "close">> \in Seq(Point) /\ <<"read", "write", "close">> \in Seq(Point)
    BY <1>3, WithinFew
  <2> QED BY <1>1, <2>1, Zenon
<1>5. \A i \in 1..Len(report) : report[i] \in {"read", "write", "close"}
  BY <1>1
<1>6. ~Within(report, Marked)
  BY <1>3, <1>5 DEF Within
<1>7. Moved(stack, stack', t, report)
  BY Zenon, <1>1, <1>2, <1>4, BeginMoves DEF SessionInv, Typed
<1>8. /\ UNCHANGED <<running, ready, socket, tlsState, flushRunning, sendQueue, offset, current, sent, wire>>
      /\ promised' \in 0..sent /\ socket \in {"open", "closed"}
  BY DEF PollEvents, lifeVars, queueVars, historyVars, SessionInv, Typed
<1> QED BY Zenon, <1>2, <1>6, <1>7, <1>8, QuietStep

\* A point of the poller thread on top is on top of its stack.
LEMMA PollerTop ==
  ASSUME SessionInv, NEW t \in Thread, stack[t] # <<>>, Head(stack[t]) \in OfPoller
  PROVE  t = Poller
BY Zenon, TopIn DEF SessionInv, Typed, Starting

\* So does handleRead(), whichever of its early returns it takes.
LEMMA HandleReadStep ==
  ASSUME SessionInv, NEW t \in Thread, HandleRead(t)
  PROVE  SessionInv'
<1>1. PICK points \in {<<"unlock">>, <<"handshake", "unlock">>, <<"receive", "unlock">>} : Goto(t, points)
  BY DEF HandleRead
<1>2. stack[t] # <<>> /\ Head(stack[t]) = "read"
  BY DEF HandleRead, At
<1>3. Head(stack[t]) \in OfPoller /\ Head(stack[t]) \notin Leads /\ Head(stack[t]) \notin Baton
  BY <1>2 DEF OfPoller, Leads, Baton
<1>4. /\ "handshake" \in Point /\ "unlock" \in Point /\ "receive" \in Point
      /\ "handshake" \notin Marked /\ "unlock" \notin Marked /\ "receive" \notin Marked
  BY DEF Point, Marked, OfPoller, Ordinary, Baton, Token
<1>5. points \in Seq(Point) /\ ~Within(points, Marked)
  <2>1. /\ <<"unlock">> \in Seq(Point) /\ ~Within(<<"unlock">>, Marked)
        /\ <<"handshake", "unlock">> \in Seq(Point) /\ ~Within(<<"handshake", "unlock">>, Marked)
        /\ <<"receive", "unlock">> \in Seq(Point) /\ ~Within(<<"receive", "unlock">>, Marked)
    BY <1>4, WithinFew
  <2> QED BY <1>1, <2>1, Zenon
<1>6. UNCHANGED <<running, ready, socket, tlsState, flushRunning, sendQueue, offset, current, sent, wire, promised>>
  BY DEF HandleRead, lifeVars, queueVars, historyVars
<1> QED BY Zenon, <1>1, <1>2, <1>3, <1>5, <1>6, PollerTop, QuietGoto

-----------------------------------------------------------------------------
(* The steps of close(), but for clearing the queue, and send().           *)

Closing == {"unready", "clear", "abort", "clearAgain", "pushOne", "pushTwo"}

\* A step to one of Closing keeps the invariant, when what that point stands for has
\* been done: running_ cleared before unready, ready_ before clear, the socket closed before clearAgain.
LEMMA MarkedStep ==
  ASSUME SessionInv, NEW t, NEW a \in Closing, NEW b \in Ordinary, NEW points \in {<<a>>, <<a, b>>},
         Moved(stack, stack', t, points), stack[t] = <<>> \/ Head(stack[t]) \notin Leads \cup Baton,
         running' => running, ready' => ready, socket = "closed" => socket' = "closed",
         socket' \in {"open", "closed"}, tlsState' = "Handshaking" => tlsState = "Handshaking",
         promised' = promised, UNCHANGED <<flushRunning, sendQueue, offset, current, sent, wire>>,
         a \in {"unready", "clear", "abort"} => Started(stack), a \in {"unready", "clear"} => ~running',
         a = "clear" => ~ready', a = "clearAgain" => socket' = "closed",
         a \in {"pushOne", "pushTwo"} => ~NotReadyYet(stack, tlsState)
  PROVE  SessionInv'
<1>1. \A c \in {a, b} : c \notin Token /\ c \notin OfPoller /\ c \notin Baton /\ c \notin {"start", "run"}
                         /\ c \notin {"writeItem", "wrote", "pop"}
  BY DEF Closing, Ordinary, Token, OfPoller, Baton
<1>2. b \notin Closing
  BY DEF Closing, Ordinary
<1>3. /\ ~Within(points, Token) /\ ~Within(points, OfPoller) /\ ~Within(points, Baton)
      /\ ~Within(points, {"start", "run"}) /\ ~Within(points, {"writeItem", "wrote", "pop"})
  BY <1>1, WithinFew
<1>4. \A S : S \subseteq Closing /\ Within(points, S) => a \in S
  BY <1>2, WithinFew
<1>5. /\ Within(points, {"unready", "clear", "abort"}) => a \in {"unready", "clear", "abort"}
      /\ Within(points, {"unready", "clear"}) => a \in {"unready", "clear"}
      /\ Within(points, {"clear"}) => a \in {"clear"}
      /\ Within(points, {"clearAgain"}) => a \in {"clearAgain"}
      /\ Within(points, {"pushOne", "pushTwo"}) => a \in {"pushOne", "pushTwo"}
  BY <1>4 DEF Closing
<1>6. Within(points, {"pushOne", "pushTwo"} \cup Baton) => a \in {"pushOne", "pushTwo"}
  BY <1>3, <1>5 DEF Within
<1>7. NotReadyYet(stack, tlsState) => sent' = 0 /\ wire' = <<>>
  BY Zenon DEF SessionInv, Starting
<1>8. Starting'
  BY ZenonT(30), <1>3, <1>5, <1>6, <1>7, StartingKept DEF SessionInv
<1>9. \A i, j \in 1..Len(points) : points[i] \in Baton /\ points[j] \in Baton => i = j
  BY Zenon, <1>3 DEF Within
<1>10. socket = "open" /\ running' /\ SomeIn(stack, Baton) => flushRunning'
  BY Zenon DEF SessionInv, Writing
<1>11. promised' \in 0..sent
  BY DEF SessionInv, Typed
<1>12. Typed' /\ Writing' /\ Wires'
  BY ZenonT(30), <1>3, <1>9, <1>10, <1>11, WritingKept
<1> QED BY <1>8, <1>12 DEF SessionInv

\* As MarkedStep, for a thread that goes on from its point.
LEMMA MarkedGoto ==
  ASSUME SessionInv, NEW t \in Thread, NEW a \in Closing, NEW b \in Ordinary, NEW points \in {<<a>>, <<a, b>>},
         stack[t] # <<>>, Goto(t, points), Head(stack[t]) \notin Leads \cup Baton,
         running' => running, ready' => ready, socket' = socket \/ socket' = "closed",
         tlsState' = tlsState \/ tlsState' = "Disabled",
         UNCHANGED <<promised, flushRunning, sendQueue, offset, current, sent, wire>>,
         a \in {"unready", "clear", "abort"} => Started(stack), a \in {"unready", "clear"} => ~running',
         a = "clear" => ~ready', a = "clearAgain" => socket' = "closed",
         a \in {"pushOne", "pushTwo"} => ~NotReadyYet(stack, tlsState)
  PROVE  SessionInv'
<1>1. a \in Point /\ b \in Point
  BY Zenon, OrdinaryFew DEF Point, Marked, Closing
<1>2. points \in Seq(Point)
  BY Zenon, <1>1, WithinFew
<1>3. Moved(stack, stack', t, points)
  BY Zenon, <1>2, GotoMoves DEF SessionInv, Typed
<1>4. socket \in {"open", "closed"}
  BY Zenon DEF SessionInv, Typed
<1> QED BY Zenon, <1>3, <1>4, MarkedStep

\* A session of which start() has not run is not being closed.
LEMMA HasStarted ==
  ASSUME SessionInv
  PROVE  /\ running \/ tlsState = "Handshaking" => Started(stack)
         /\ \A t \in Thread : stack[t] # <<>> =>
               /\ Head(stack[t]) \in {"unready", "clear", "abort"} => Started(stack)
               /\ Head(stack[t]) \in {"unready", "clear"} => ~running
<1>1. SomeIn(stack, {"start", "run"}) => SomeIn(stack, Token)
  BY WithinMore DEF Token
<1> QED BY Zenon, <1>1, TopIn DEF SessionInv, Typed, Starting, Started

\* The first half of close(), and the abort of a start(), keep the invariant.
LEMMA ClosingSteps ==
  ASSUME SessionInv, NEW t \in Thread,
         \/ Close(t) \/ CloseUnreadies(t) \/ CloseAgain(t) \/ AbortStartup(t)
         \/ HandshakeFails(t, "firstHandshake", "abort")
  PROVE  SessionInv'
<1> USE DEF lifeVars, queueVars, historyVars
<1>0. /\ "unlock" \in Ordinary /\ "closed" \in Ordinary /\ "closeAgain" \in Ordinary
      /\ "unready" \in Closing /\ "clear" \in Closing /\ "abort" \in Closing /\ "clearAgain" \in Closing
  BY DEF Ordinary, Closing
<1>1. CASE Close(t) /\ running
  <2>1. Goto(t, <<"unready", "unlock">>) /\ stack[t] # <<>> /\ Head(stack[t]) \notin Leads \cup Baton
    BY Zenon, <1>1 DEF Close, At, Leads, Baton
  <2>2. ~running' /\ UNCHANGED <<ready, socket, tlsState, promised, flushRunning, sendQueue, offset, current, sent, wire>>
    BY <1>1 DEF Close
  <2> QED BY Zenon, <1>0, <1>1, <2>1, <2>2, HasStarted, MarkedGoto
<1>2. CASE Close(t) /\ ~running
  <2>1. /\ Goto(t, <<"closeAgain", "unlock">>) /\ stack[t] # <<>>
        /\ Head(stack[t]) \notin Leads /\ Head(stack[t]) \notin Baton
    BY Zenon, <1>2 DEF Close, At, Leads, Baton
  <2>2. ~running' /\ UNCHANGED <<ready, socket, tlsState, promised, flushRunning, sendQueue, offset, current, sent, wire>>
    BY <1>2 DEF Close
  <2>3. <<"closeAgain", "unlock">> \in Seq(Point) /\ ~Within(<<"closeAgain", "unlock">>, Marked)
        /\ ~Within(<<"closeAgain", "unlock">>, OfPoller)
    BY Zenon, <1>0, OrdinaryFew
  <2>4. Moved(stack, stack', t, <<"closeAgain", "unlock">>) /\ socket \in {"open", "closed"} /\ promised \in 0..sent
    BY Zenon, <2>1, <2>3, GotoMoves DEF SessionInv, Typed
  <2> QED BY Zenon, <2>1, <2>2, <2>3, <2>4, QuietStep
<1>3. CASE CloseUnreadies(t)
  <2>1. Goto(t, <<"clear", "closed">>) /\ stack[t] # <<>> /\ Head(stack[t]) \notin Leads \cup Baton
        /\ Head(stack[t]) = "unready"
    BY Zenon, <1>3 DEF CloseUnreadies, At, Leads, Baton
  <2>2. ~ready' /\ UNCHANGED <<running, socket, tlsState, promised, flushRunning, sendQueue, offset, current, sent, wire>>
    BY <1>3 DEF CloseUnreadies
  <2>3. Started(stack) /\ ~running
    BY Zenon, <2>1, HasStarted
  <2> QED BY ZenonT(30), <1>0, <2>1, <2>2, <2>3, MarkedGoto
<1>4. CASE CloseAgain(t)
  <2>1. Goto(t, <<"clearAgain">>) /\ stack[t] # <<>> /\ Head(stack[t]) \notin Leads \cup Baton
    BY Zenon, <1>4 DEF CloseAgain, At, Leads, Baton
  <2>2. /\ UNCHANGED <<running, ready, promised, flushRunning, sendQueue, offset, current, sent, wire>>
        /\ socket' = "closed" /\ tlsState' = "Disabled"
    BY <1>4 DEF CloseAgain
  <2> QED BY ZenonT(30), <1>0, <2>1, <2>2, MarkedGoto
<1>5. CASE AbortStartup(t)
  <2>1. Goto(t, <<"clear", "unlock">>) /\ stack[t] # <<>> /\ Head(stack[t]) \notin Leads \cup Baton
        /\ Head(stack[t]) = "abort"
    BY Zenon, <1>5 DEF AbortStartup, At, Leads, Baton
  <2>2. ~ready' /\ ~running' /\ UNCHANGED <<socket, tlsState, promised, flushRunning, sendQueue, offset, current, sent, wire>>
    BY <1>5 DEF AbortStartup
  <2>3. Started(stack)
    BY Zenon, <2>1, HasStarted
  <2> QED BY ZenonT(30), <1>0, <2>1, <2>2, <2>3, MarkedGoto
<1>6. CASE HandshakeFails(t, "firstHandshake", "abort")
  <2>1. Goto(t, <<"abort">>) /\ stack[t] # <<>> /\ Head(stack[t]) \notin Leads \cup Baton
    BY Zenon, <1>6 DEF HandshakeFails, Handshakes, At, Leads, Baton
  <2>2. UNCHANGED <<running, ready, socket, tlsState, promised, flushRunning, sendQueue, offset, current, sent, wire>>
    BY <1>6 DEF HandshakeFails
  <2>3. Started(stack)
    BY Zenon, <1>6, HasStarted DEF HandshakeFails, Handshakes
  <2> QED BY Zenon, <1>0, <2>1, <2>2, <2>3, MarkedGoto
<1> QED BY <1>1, <1>2, <1>3, <1>4, <1>5, <1>6

\* send() called by any thread, up to the push under its lock, keeps the invariant.
LEMMA SendStep ==
  ASSUME SessionInv, NEW t \in Thread, Send(t)
  PROVE  SessionInv'
<1>1. PICK a \in {"pushOne", "pushTwo"} : Calls(t, <<a>>)
  BY DEF Send
<1>2. a \in Point /\ a \in Closing
  BY DEF Point, Marked, Closing
<1>3. <<a>> \in Seq(Point)
  BY <1>2, WithinFew
<1>4. Moved(stack, stack', t, <<a>>) /\ (stack[t] = <<>> \/ Head(stack[t]) \notin Leads \cup Baton)
  BY ZenonT(30), <1>1, <1>3, CallsMove DEF SessionInv, Typed, Leads, Baton
<1>5. /\ UNCHANGED <<running, ready, socket, tlsState, promised, flushRunning, sendQueue, offset, current, sent, wire>>
      /\ socket \in {"open", "closed"} /\ ~NotReadyYet(stack, tlsState)
  BY DEF Send, lifeVars, queueVars, historyVars, SessionInv, Typed, Starting
<1>6. "unlock" \in Ordinary /\ a \notin {"unready", "clear", "abort"} /\ a # "clearAgain"
  BY <1>1 DEF Ordinary
<1> QED BY Zenon, <1>1, <1>2, <1>4, <1>5, <1>6, MarkedStep

-----------------------------------------------------------------------------
(* The steps of start().                                                   *)

\* A step of start() keeps the invariant: the one token of a start moves on, and nothing
\* is ready before it is spent.
LEMMA StartStep ==
  ASSUME SessionInv, NEW points, Moved(stack, stack', Poller, points),
         NotReadyYet(stack, tlsState), stack[Poller] # <<>>,
         Head(stack[Poller]) \notin Leads, Head(stack[Poller]) \notin Baton,
         Within(points, Token) => ~SomeIn(stack, Token) \/ Head(stack[Poller]) \in Token,
         \A i, j \in 1..Len(points) : points[i] \in Token /\ points[j] \in Token => i = j,
         \A i \in 1..Len(points) : points[i] \in Token => \A j \in 1..i - 1 : points[j] \in Leads,
         ~Within(points, Baton \cup {"unready", "clear", "clearAgain", "pushOne", "pushTwo"}),
         running' \/ Within(points, {"abort"}) => Started(stack'),
         SomeIn(stack, {"unready", "clear", "abort"}) => Started(stack'),
         SomeIn(stack, {"unready", "clear"}) => ~running',
         NotReadyYet(stack', tlsState') => ~ready', SomeIn(stack', Token) => tlsState' # "Handshaking",
         SomeIn(stack, {"start", "run"}) \/ ((running' => running) /\ ~Within(points, {"start", "run"})),
         socket' = socket \/ socket' = "closed",
         UNCHANGED <<flushRunning, sendQueue, offset, current, sent, wire, promised>>
  PROVE  SessionInv'
<1>1. /\ ~Within(points, Baton) /\ ~Within(points, {"unready", "clear"}) /\ ~Within(points, {"clear"})
      /\ ~Within(points, {"clearAgain"}) /\ ~Within(points, {"pushOne", "pushTwo"} \cup Baton)
      /\ ~Within(points, {"writeItem", "wrote", "pop"})
      /\ Within(points, {"unready", "clear", "abort"}) => Within(points, {"abort"})
  BY Zenon DEF Within, Baton
<1>2. ~ready /\ sent = 0 /\ wire = <<>> /\ ~SomeIn(stack, {"pushOne", "pushTwo"} \cup Baton) /\ ~SomeIn(stack, Baton)
  BY ZenonT(30), WithinMore DEF SessionInv, Starting
<1>3. /\ SomeIn(stack', {"unready", "clear", "abort"}) =>
           SomeIn(stack, {"unready", "clear", "abort"}) \/ Within(points, {"abort"})
      /\ SomeIn(stack', {"unready", "clear"}) => SomeIn(stack, {"unready", "clear"})
      /\ SomeIn(stack', {"clearAgain"}) => SomeIn(stack, {"clearAgain"})
      /\ ~SomeIn(stack', Baton) /\ ~SomeIn(stack', {"pushOne", "pushTwo"} \cup Baton)
      /\ \A u \in Thread : u # Poller /\ Within(stack'[u], OfPoller) => Within(stack[u], OfPoller)
  <2>0. ASSUME NEW S
        PROVE  /\ SomeIn(stack', S) => SomeIn(stack, S) \/ Within(points, S)
               /\ \A u \in Thread : u # Poller /\ Within(stack'[u], S) => Within(stack[u], S)
    BY Zenon, MovedWithin
  <2>1. SomeIn(stack', {"unready", "clear", "abort"}) =>
           SomeIn(stack, {"unready", "clear", "abort"}) \/ Within(points, {"abort"})
    BY Zenon, <1>1, <2>0
  <2>2. /\ SomeIn(stack', {"unready", "clear"}) => SomeIn(stack, {"unready", "clear"})
        /\ SomeIn(stack', {"clearAgain"}) => SomeIn(stack, {"clearAgain"})
    BY Zenon, <1>1, <2>0
  <2>3. ~SomeIn(stack', Baton)
    BY Zenon, <1>1, <1>2, <2>0
  <2>4. ~SomeIn(stack', {"pushOne", "pushTwo"} \cup Baton)
    BY Zenon, <1>1, <1>2, <2>0
  <2>5. \A u \in Thread : u # Poller /\ Within(stack'[u], OfPoller) => Within(stack[u], OfPoller)
    BY Zenon, <1>1, <2>0
  <2> QED BY Zenon, <2>1, <2>2, <2>3, <2>4, <2>5
<1>4. OnceIn(stack', Token)
  BY Zenon, MovedOnce DEF SessionInv, Starting
<1>5. TokenFirst(stack')
  BY ZenonT(30), MovedFirst DEF SessionInv, Starting
<1>6. Starting'
  BY ZenonT(30), <1>2, <1>3, <1>4, <1>5 DEF SessionInv, Typed, Starting
<1>7. \A i, j \in 1..Len(points) : points[i] \in Baton /\ points[j] \in Baton => i = j
  BY ZenonT(30), <1>1 DEF Within
<1>8. promised' \in 0..sent /\ socket \in {"open", "closed"} /\ socket' \in {"open", "closed"}
  BY Zenon DEF SessionInv, Typed
<1>9. Typed' /\ Writing' /\ Wires'
  BY ZenonT(30), <1>1, <1>2, <1>7, <1>8, WritingKept
<1> QED BY Zenon, <1>6, <1>9 DEF SessionInv

\* The point of start() on top is the only one.
LEMMA TokenTop ==
  ASSUME SessionInv, NEW t \in Thread, stack[t] # <<>>, Head(stack[t]) \in Token
  PROVE  /\ t = Poller /\ NotReadyYet(stack, tlsState) /\ SomeIn(stack, Token)
         /\ Head(stack[t]) \notin Leads /\ Head(stack[t]) \notin Baton
         /\ Head(stack[t]) \in {"start", "run"} =>
              /\ SomeIn(stack, {"start", "run"}) /\ ~running
              /\ ~SomeIn(stack, {"unready", "clear", "abort"}) /\ ~SomeIn(stack, {"unready", "clear"})
         /\ \A points : Moved(stack, stack', t, points) =>
              /\ ~Within(points, Token) => ~SomeIn(stack', Token) /\ Started(stack')
              /\ Head(stack[t]) = "run" /\ ~Within(points, {"start", "run"}) => Started(stack')
<1>1. Head(stack[t]) \in OfPoller /\ Head(stack[t]) \notin Leads /\ Head(stack[t]) \notin Baton
  BY DEF Token, OfPoller, Leads, Baton
<1>2. t = Poller /\ SomeIn(stack, Token)
  BY ZenonT(30), <1>1, PollerTop, TopIn DEF SessionInv, Typed
<1>3. ASSUME Head(stack[t]) \in {"start", "run"}
      PROVE  /\ SomeIn(stack, {"start", "run"}) /\ ~running
             /\ ~SomeIn(stack, {"unready", "clear", "abort"}) /\ ~SomeIn(stack, {"unready", "clear"})
  <2>1. SomeIn(stack, {"start", "run"})
    BY <1>3, TopIn DEF SessionInv, Typed
  <2>2. SomeIn(stack, {"unready", "clear"}) => SomeIn(stack, {"unready", "clear", "abort"})
    BY WithinMore
  <2> QED BY Zenon, <2>1, <2>2 DEF SessionInv, Starting, Started
<1>4. ASSUME NEW points, Moved(stack, stack', t, points), ~Within(points, Token)
      PROVE  ~SomeIn(stack', Token) /\ Started(stack')
  <2>1. ~SomeIn(stack', Token)
    BY Zenon, <1>4, MovedNone DEF SessionInv, Starting
  <2> QED BY <2>1, WithinMore DEF Started, Token
<1>5. ASSUME NEW points, Moved(stack, stack', t, points), Head(stack[t]) = "run", ~Within(points, {"start", "run"})
      PROVE  Started(stack')
  <2>1. OnceIn(stack, {"start", "run"})
    BY SMTT(30) DEF SessionInv, Starting, OnceIn, Token
  <2> QED BY ZenonT(30), <1>5, <2>1, MovedNone DEF Started
<1> QED BY Zenon, <1>1, <1>2, <1>3, <1>4, <1>5 DEF NotReadyYet

\* What start() adds: at most one point of its own, and that last.
OneToken(points) ==
    /\ points \in Seq(Point)
    /\ \A i, j \in 1..Len(points) : points[i] \in Token /\ points[j] \in Token => i = j
    /\ \A i \in 1..Len(points) : points[i] \in Token => \A j \in 1..i - 1 : points[j] \in Leads
    /\ ~Within(points, Baton \cup {"unready", "clear", "clearAgain", "pushOne", "pushTwo"})

\* The points that the steps of start() add hold one token at most, behind none but Leads.
LEMMA OneTokenFew ==
  /\ OneToken(<<>>) /\ ~Within(<<>>, Token)
  /\ OneToken(<<"run">>) /\ ~Within(<<"run">>, {"abort"})
  /\ OneToken(<<"firstHandshake">>) /\ ~Within(<<"firstHandshake">>, Token)
  /\ OneToken(<<"abort">>) /\ ~Within(<<"abort">>, Token)
  /\ OneToken(<<"connected">>) /\ ~Within(<<"connected">>, Token)
  /\ \A a \in Leads, b \in {"initializeTls", "markReady"} :
        OneToken(<<a, b>>) /\ ~Within(<<a, b>>, {"start", "run"}) /\ ~Within(<<a, b>>, {"abort"})
<1> DEFINE Bad == Baton \cup {"unready", "clear", "clearAgain", "pushOne", "pushTwo"}
<1>1. \A a \in {"run", "firstHandshake", "abort", "connected"} : a \in Point /\ a \notin Bad
  BY DEF Point, Marked, OfPoller, Ordinary, Baton, Token
<1>2. ASSUME NEW a \in {"run", "firstHandshake", "abort", "connected"} PROVE OneToken(<<a>>)
  BY <1>1, WithinFew DEF OneToken
<1>3. "firstHandshake" \notin Token /\ "abort" \notin Token /\ "connected" \notin Token
  BY DEF Token
<1>4. OneToken(<<>>)
  BY WithinFew DEF OneToken
<1>5. ASSUME NEW a \in Leads, NEW b \in {"initializeTls", "markReady"}
      PROVE  OneToken(<<a, b>>) /\ ~Within(<<a, b>>, {"start", "run"}) /\ ~Within(<<a, b>>, {"abort"})
  <2>1. a \in Point /\ b \in Point /\ a \notin Token
    BY DEF Point, Marked, Token, Leads
  <2>2. a \notin Bad /\ b \notin Bad
    BY DEF Leads, Baton
  <2>3. a \notin {"start", "run", "abort"} /\ b \notin {"start", "run", "abort"}
    BY DEF Leads
  <2>4. /\ Len(<<a, b>>) = 2 /\ <<a, b>>[1] = a /\ <<a, b>>[2] = b
    OBVIOUS
  <2>5. \A i \in 1..Len(<<a, b>>) : <<a, b>>[i] \in Token => i = 2
    BY <2>1, <2>4
  <2>6. \A j \in 1..2 - 1 : <<a, b>>[j] \in Leads
    BY <2>4
  <2>7. <<a, b>> \in Seq(Point) /\ ~Within(<<a, b>>, Bad)
    BY <2>1, <2>2, WithinFew
  <2> QED BY <2>3, <2>5, <2>6, <2>7, WithinFew DEF OneToken
<1> QED BY <1>2, <1>3, <1>4, <1>5, WithinFew

\* The registration with the poller and the setting of running_ keep the invariant.
LEMMA StartSteps1 ==
  ASSUME SessionInv, NEW t \in Thread, StartRegisters(t) \/ StartRuns(t)
  PROVE  SessionInv'
<1> USE DEF lifeVars, queueVars, historyVars
<1>1. stack[t] # <<>> /\ Head(stack[t]) \in {"start", "run"} /\ Head(stack[t]) \in Token
  BY Zenon DEF StartRegisters, StartRuns, At, Token
<1>2. /\ t = Poller /\ NotReadyYet(stack, tlsState) /\ SomeIn(stack, Token)
      /\ Head(stack[t]) \notin Leads /\ Head(stack[t]) \notin Baton
      /\ SomeIn(stack, {"start", "run"}) /\ ~running
      /\ ~SomeIn(stack, {"unready", "clear", "abort"}) /\ ~SomeIn(stack, {"unready", "clear"})
  BY Zenon, <1>1, TokenTop
<1>3. tlsState # "Handshaking" /\ ~ready /\ stack \in Stacks
  BY <1>2 DEF SessionInv, Typed, Starting
<1>4. UNCHANGED <<ready, tlsState, flushRunning, sendQueue, offset, current, sent, wire, promised>>
  BY DEF StartRegisters, StartRuns
<1>5. socket' = socket \/ socket' = "closed"
  BY DEF StartRegisters, StartRuns
<1>6. CASE StartRegisters(t)
  <2>1. PICK points \in {<<>>, <<"run">>} : Goto(t, points)
    BY <1>6 DEF StartRegisters, Return
  <2>2. OneToken(points) /\ ~Within(points, {"abort"})
    BY <2>1, OneTokenFew, WithinFew
  <2>3. Moved(stack, stack', t, points)
    BY Zenon, <1>1, <1>3, <2>1, <2>2, GotoMoves DEF OneToken
  <2>4. ~running'
    BY Zenon, <1>2, <1>6 DEF StartRegisters
  <2> QED BY ZenonT(30), <1>1, <1>2, <1>3, <1>4, <1>5, <2>2, <2>3, <2>4, StartStep DEF OneToken
<1>7. CASE StartRuns(t)
  <2>1. PICK b \in {"initializeTls", "markReady"} : Goto(t, <<"armConnection", b>>)
    BY <1>7 DEF StartRuns
  <2>2. OneToken(<<"armConnection", b>>) /\ ~Within(<<"armConnection", b>>, {"start", "run"})
        /\ ~Within(<<"armConnection", b>>, {"abort"})
    BY Zenon, <2>1, OneTokenFew DEF Leads
  <2>3. Moved(stack, stack', t, <<"armConnection", b>>)
    BY Zenon, <1>1, <1>3, <2>1, <2>2, GotoMoves DEF OneToken
  <2>4. Started(stack')
    BY Zenon, <1>1, <1>7, <2>2, <2>3, TokenTop DEF StartRuns, At
  <2> QED BY Zenon, <1>1, <1>2, <1>3, <1>4, <1>5, <2>2, <2>3, <2>4, StartStep DEF OneToken
<1> QED BY <1>6, <1>7

\* The TLS initialisation and the setting of ready_ keep it.
LEMMA StartSteps2 ==
  ASSUME SessionInv, NEW t \in Thread, InitializeTls(t) \/ MarkReady(t)
  PROVE  SessionInv'
<1> USE DEF lifeVars, queueVars, historyVars
<1>1. stack[t] # <<>> /\ Head(stack[t]) \in Token
  BY ZenonT(30) DEF InitializeTls, MarkReady, At, Token
<1>2. /\ t = Poller /\ NotReadyYet(stack, tlsState) /\ SomeIn(stack, Token)
      /\ Head(stack[t]) \notin Leads /\ Head(stack[t]) \notin Baton
  BY Zenon, <1>1, TokenTop
<1>3. tlsState # "Handshaking" /\ ~ready /\ stack \in Stacks /\ (SomeIn(stack, {"unready", "clear"}) => ~running)
  BY <1>2 DEF SessionInv, Typed, Starting
<1>4. UNCHANGED <<running, socket, flushRunning, sendQueue, offset, current, sent, wire, promised>>
  BY DEF InitializeTls, MarkReady
<1>5. PICK points \in {<<"firstHandshake">>, <<"abort">>, <<>>, <<"connected">>} : Goto(t, points)
  BY DEF InitializeTls, MarkReady, Return
<1>6. OneToken(points) /\ ~Within(points, Token)
  BY <1>5, OneTokenFew
<1>7. Moved(stack, stack', t, points)
  BY Zenon, <1>1, <1>3, <1>5, <1>6, GotoMoves DEF OneToken
<1>8. ~SomeIn(stack', Token) /\ Started(stack')
  BY Zenon, <1>1, <1>6, <1>7, TokenTop
<1>9. NotReadyYet(stack', tlsState') => ~ready'
  BY Zenon, <1>3, <1>8 DEF InitializeTls, MarkReady, NotReadyYet
<1>10. ~Within(points, {"start", "run"})
  BY <1>6, WithinMore DEF Token
<1> QED BY ZenonT(30), <1>1, <1>2, <1>3, <1>4, <1>6, <1>7, <1>8, <1>9, <1>10, StartStep DEF OneToken

\* So does the round that completes the handshake: it makes the one token, markReady.
LEMMA HandshakeCompletesStep ==
  ASSUME SessionInv, NEW t \in Thread, NEW point \in {"firstHandshake", "handshake"}, HandshakeCompletes(t, point)
  PROVE  SessionInv'
<1>1. stack[t] # <<>> /\ Head(stack[t]) = point /\ tlsState = "Handshaking"
  BY Zenon DEF HandshakeCompletes, Handshakes, At
<1>2. Head(stack[t]) \in OfPoller /\ Head(stack[t]) \notin Leads /\ Head(stack[t]) \notin Baton
  BY <1>1 DEF OfPoller, Leads, Baton
<1>3. t = Poller /\ NotReadyYet(stack, tlsState) /\ ~SomeIn(stack, Token) /\ stack \in Stacks /\ ~ready
  BY Zenon, <1>1, <1>2, PollerTop DEF NotReadyYet, SessionInv, Typed, Starting
<1>4. /\ UNCHANGED <<running, ready, socket, flushRunning, sendQueue, offset, current, sent, wire, promised>>
      /\ tlsState' = "Ready"
  BY DEF HandshakeCompletes, queueVars, historyVars
<1>5. OneToken(<<"handshaken", "markReady">>) /\ ~Within(<<"handshaken", "markReady">>, {"start", "run"})
      /\ ~Within(<<"handshaken", "markReady">>, {"abort"})
  BY OneTokenFew DEF Leads
<1>6. Moved(stack, stack', t, <<"handshaken", "markReady">>)
  BY Zenon, <1>1, <1>3, <1>5, GotoMoves DEF OneToken, HandshakeCompletes
<1>7. ~SomeIn(stack, {"start", "run"})
  BY SMTT(30), <1>3, WithinMore DEF Token
<1>8. Started(stack')
  BY <1>5, <1>6, <1>7, MovedWithin DEF Started
<1>9. SomeIn(stack, {"unready", "clear"}) => ~running
  BY DEF SessionInv, Starting
<1> QED BY ZenonT(30), <1>1, <1>2, <1>3, <1>4, <1>5, <1>6, <1>8, <1>9, StartStep DEF OneToken
=============================================================================
