--------------------------- MODULE SessionProofs ----------------------------
(* ClientSession, for any number of threads and sends: the peer gets the   *)
(* sends in the order in which they were accepted, each once and whole.    *)
EXTENDS SessionStacks

-----------------------------------------------------------------------------
(* close() clears the queue; handleWrite() and send() begin to flush.      *)

\* The clearing of the queue by close(), and again after the socket is closed, keeps the
\* invariant, though a flush of another thread may be in the middle of an item of it.
LEMMA ClearSteps ==
  ASSUME SessionInv, NEW t \in Thread, CloseClears(t) \/ CloseAgainClears(t)
  PROVE  SessionInv'
<1> DEFINE points == IF Head(stack[t]) = "clear" THEN <<"releaseTls">> ELSE <<>>
<1>1. /\ stack[t] # <<>> /\ Goto(t, points) /\ stack \in Stacks
      /\ Head(stack[t]) \in {"clear", "clearAgain"} /\ Head(stack[t]) \notin Leads /\ Head(stack[t]) \notin Baton
  BY DEF CloseClears, CloseAgainClears, At, Return, SessionInv, Typed, Leads, Baton
<1>2. points \in Seq(Point) /\ ~Within(points, Marked) /\ ~Within(points, OfPoller)
  <2>1. "releaseTls" \in Ordinary
    BY DEF Ordinary
  <2> QED BY Zenon, <2>1, OrdinaryFew
<1> HIDE DEF points
<1>3. Moved(stack, stack', t, points)
  BY <1>1, <1>2, GotoMoves
<1>4. /\ UNCHANGED <<running, socket, tlsState, offset, current, sent, wire, promised>>
      /\ ready' => ready
      /\ sendQueue' = <<>> /\ ~flushRunning'
  BY DEF CloseClears, CloseAgainClears, ClearQueuesAndWaits, lifeVars, historyVars
<1>5. /\ ~Within(points, Token) /\ ~Within(points, Baton) /\ ~Within(points, {"start", "run"})
      /\ ~Within(points, {"unready", "clear", "abort"}) /\ ~Within(points, {"unready", "clear"})
      /\ ~Within(points, {"clear"}) /\ ~Within(points, {"clearAgain"})
      /\ ~Within(points, {"pushOne", "pushTwo"} \cup Baton)
  BY <1>2 DEF Within, Marked, Token, Baton
<1>6. NotReadyYet(stack, tlsState) => sent' = 0 /\ wire' = <<>>
  BY <1>4 DEF SessionInv, Starting
<1>7. Starting'
  BY ZenonT(30), <1>1, <1>2, <1>3, <1>4, <1>5, <1>6, StartingKept DEF SessionInv
<1>8. Typed'
  BY <1>3, <1>4 DEF SessionInv, Typed, Moved
<1>9. /\ SomeIn(stack', {"start", "run"}) => SomeIn(stack, {"start", "run"})
      /\ SomeIn(stack', Baton) => SomeIn(stack, Baton)
  BY Zenon, <1>3, <1>5, MovedWithin
<1>10. Wires'
  BY <1>4, <1>9 DEF SessionInv, Wires, Started
<1>11. ASSUME socket' = "open"
       PROVE  OnceIn(stack', Baton) /\ ~running' /\ Dead'
  <2>1. socket = "open"
    BY <1>4, <1>11
  <2>2. Head(stack[t]) = "clear"
    BY Zenon, <1>1, <2>1, TopIn DEF SessionInv, Starting
  <2>3. SomeIn(stack, {"clear"})
    BY <1>1, <2>2, TopIn
  <2>4. Started(stack) /\ ~running
    BY <1>1, <2>2, HasStarted
  <2>5. ~ready \/ ~SomeIn(stack, Baton)
    BY <2>3 DEF SessionInv, Starting
  <2>6. \A i, j \in 1..Len(points) : points[i] \in Baton /\ points[j] \in Baton => i = j
    BY <1>5 DEF Within
  <2>7. OnceIn(stack', Baton)
    BY <1>3, <1>5, <2>1, <2>6, MovedOnce DEF SessionInv, Writing
  <2>8. Entries(sendQueue') = {}
    BY <1>4 DEF Entries
  <2> QED BY <1>4, <1>9, <2>4, <2>5, <2>7, <2>8 DEF Dead, Started
<1>12. Writing'
  BY <1>11 DEF Writing
<1> QED BY <1>7, <1>8, <1>10, <1>12 DEF SessionInv

\* Below a point of the poller's callback there is none of start().
LEMMA NoTokenBelow ==
  ASSUME SessionInv, stack[Poller] # <<>>, Head(stack[Poller]) \notin Leads \cup Token
  PROVE  ~SomeIn(stack, Token)
<1>1. Poller \in Thread /\ stack[Poller] \in Seq(Point) /\ Head(stack[Poller]) = stack[Poller][1]
  BY DEF Thread, SessionInv, Typed, Stacks
<1>2. ~Within(stack[Poller], Token)
  <2> SUFFICES ASSUME NEW i \in 1..Len(stack[Poller]), stack[Poller][i] \in Token PROVE FALSE
    BY DEF Within
  <2>1. i # 1
    BY <1>1
  <2>2. 1 \in 1..i - 1
    BY <1>1, <2>1
  <2> QED BY <1>1, <2>2 DEF SessionInv, Starting, TokenFirst
<1>3. \A t \in Thread : t # Poller => ~Within(stack[t], Token)
  BY WithinMore DEF SessionInv, Starting, OfPoller
<1> QED BY <1>2, <1>3 DEF SomeIn

\* handleWrite(), which takes the flush if no thread has it, keeps the invariant.
LEMMA HandleWriteStep ==
  ASSUME SessionInv, NEW t \in Thread, HandleWrite(t)
  PROVE  SessionInv'
<1> USE DEF lifeVars, historyVars
<1>1. stack[t] # <<>> /\ Head(stack[t]) = "write" /\ stack \in Stacks
  BY Zenon DEF HandleWrite, At, SessionInv, Typed
<1>2. /\ Head(stack[t]) \in OfPoller /\ Head(stack[t]) \notin Leads /\ Head(stack[t]) \notin Baton
      /\ Head(stack[t]) \notin Leads \cup Token
  BY <1>1 DEF OfPoller, Leads, Baton, Token
<1>3. t = Poller /\ ~SomeIn(stack, Token)
  BY Zenon, <1>1, <1>2, PollerTop, NoTokenBelow
<1>4. UNCHANGED <<running, ready, socket, tlsState, sendQueue, offset, current, sent, wire, promised>>
  BY DEF HandleWrite
<1>5. CASE ~running \/ tlsState = "Handshaking"
  <2>1. PICK points \in {<<"handshake", "unlock">>, <<"unlock">>} : Goto(t, points)
    BY <1>5 DEF HandleWrite
  <2>2. flushRunning' = flushRunning
    BY <1>5 DEF HandleWrite
  <2>3. "handshake" \in Point /\ "unlock" \in Point /\ "handshake" \notin Marked /\ "unlock" \notin Marked
    BY DEF Point, Marked, OfPoller, Ordinary, Baton, Token
  <2>4. points \in Seq(Point) /\ ~Within(points, Marked)
    <3>1. /\ <<"unlock">> \in Seq(Point) /\ ~Within(<<"unlock">>, Marked)
          /\ <<"handshake", "unlock">> \in Seq(Point) /\ ~Within(<<"handshake", "unlock">>, Marked)
      BY <2>3, WithinFew
    <3> QED BY <2>1, <3>1, Zenon
  <2> QED BY <1>1, <1>2, <1>3, <1>4, <2>1, <2>2, <2>4, QuietGoto
<1>6. CASE ~(~running \/ tlsState = "Handshaking")
  <2>1. flushRunning' /\ running
    BY Zenon, <1>6 DEF HandleWrite, MarkFlushScheduledLocked
  <2>2. PICK points \in {<<"flush", "unlock">>, <<"unlock">>} :
            Goto(t, points) /\ (points = <<"flush", "unlock">> => ~flushRunning)
    BY <1>6 DEF HandleWrite, FlushScheduled
  <2>3. "flush" \in Point /\ "unlock" \in Point
    BY DEF Point, Marked, Ordinary, Baton
  <2>4. \A a \in {"flush", "unlock"} :
           /\ a \notin Token /\ a \notin OfPoller /\ a \notin {"start", "run"}
           /\ a \notin {"unready", "clear", "abort"} /\ a \notin {"unready", "clear"}
           /\ a \notin {"clear"} /\ a \notin {"clearAgain"} /\ a \notin {"writeItem", "wrote", "pop"}
    BY DEF Token, OfPoller
  <2>5. points \in Seq(Point)
    BY ZenonT(30), <2>2, <2>3, WithinFew
  <2>6. \A i \in 1..Len(points) : points[i] \in {"flush", "unlock"}
    BY <2>2
  <2>7. /\ ~Within(points, Token) /\ ~Within(points, OfPoller) /\ ~Within(points, {"start", "run"})
        /\ ~Within(points, {"unready", "clear", "abort"}) /\ ~Within(points, {"unready", "clear"})
        /\ ~Within(points, {"clear"}) /\ ~Within(points, {"clearAgain"})
        /\ ~Within(points, {"writeItem", "wrote", "pop"})
    BY <2>4, <2>6 DEF Within
  <2>8. "unlock" \notin Baton
    BY DEF Baton
  <2>9. \A i, j \in 1..Len(points) : points[i] \in Baton /\ points[j] \in Baton => i = j
    BY <2>2, <2>8
  <2>10. Within(points, Baton) => ~flushRunning
    BY <2>2, <2>8, WithinFew
  <2>11. Moved(stack, stack', t, points)
    BY <1>1, <2>2, <2>5, GotoMoves
  <2>12. ~NotReadyYet(stack, tlsState)
    BY <1>3, <1>6 DEF NotReadyYet
  <2>13. Starting'
    BY Zenon, <1>2, <1>3, <1>4, <2>1, <2>7, <2>11, <2>12, StartingKept DEF SessionInv
  <2>14. socket = "open" /\ Within(points, Baton) => running /\ ~SomeIn(stack, Baton)
    BY <2>1, <2>10 DEF SessionInv, Writing
  <2>15. promised' \in 0..sent /\ socket' \in {"open", "closed"}
    BY <1>4 DEF SessionInv, Typed
  <2>16. Typed' /\ Writing' /\ Wires'
    BY Zenon, <1>2, <1>4, <2>1, <2>7, <2>9, <2>11, <2>14, <2>15, WritingKept
  <2> QED BY <2>13, <2>16 DEF SessionInv
<1> QED BY <1>5, <1>6

\* The queue and the offsets with n more sends.
LEMMA Pushed ==
  ASSUME Typed, NEW n \in {1, 2}, sendQueue' = sendQueue \o [i \in 1..n |-> sent + i],
         offset' = offset \o [i \in 1..n |-> 0], sent' = sent + n
  PROVE  /\ sendQueue' \in Seq(1..sent') /\ Len(sendQueue') = Len(sendQueue) + n
         /\ \A k \in 1..Len(sendQueue') :
               sendQueue'[k] = IF k <= Len(sendQueue) THEN sendQueue[k] ELSE sent + (k - Len(sendQueue))
         /\ offset' \in Seq(Nat) /\ Len(offset') = sent'
         /\ \A k \in 1..sent' : offset'[k] = IF k <= sent THEN offset[k] ELSE 0
<1> DEFINE new == [i \in 1..n |-> sent + i]
           zeros == [i \in 1..n |-> 0]
<1>1. /\ sendQueue \in Seq(1..sent) /\ sent \in Nat /\ Len(sendQueue) \in Nat
      /\ offset \in Seq(Nat) /\ Len(offset) = sent
  BY DEF Typed
<1>2. new \in Seq(1..sent + n) /\ Len(new) = n /\ zeros \in Seq(Nat) /\ Len(zeros) = n
  BY <1>1
<1>3. \A i \in 1..n : new[i] = sent + i /\ zeros[i] = 0
  BY <1>1
<1>4. sendQueue \in Seq(1..sent + n)
  BY <1>1
<1> HIDE DEF new, zeros
<1>5. sendQueue \o new \in Seq(1..sent + n) /\ Len(sendQueue \o new) = Len(sendQueue) + n
  BY <1>2, <1>4, Concatenated
<1>6. \A k \in 1..Len(sendQueue) + n :
         (sendQueue \o new)[k] = IF k <= Len(sendQueue) THEN sendQueue[k] ELSE new[k - Len(sendQueue)]
  <2>1. \A k \in 1..Len(sendQueue) + Len(new) :
           (sendQueue \o new)[k] = IF k <= Len(sendQueue) THEN sendQueue[k] ELSE new[k - Len(sendQueue)]
    BY Zenon, <1>2, <1>4, Concatenated
  <2> QED BY Zenon, <1>2, <2>1
<1>7. offset \o zeros \in Seq(Nat) /\ Len(offset \o zeros) = sent + n
  BY <1>1, <1>2, Concatenated
<1>8. \A k \in 1..sent + n : (offset \o zeros)[k] = IF k <= sent THEN offset[k] ELSE zeros[k - sent]
  <2>1. \A k \in 1..Len(offset) + Len(zeros) :
           (offset \o zeros)[k] = IF k <= Len(offset) THEN offset[k] ELSE zeros[k - Len(offset)]
    BY Zenon, <1>1, <1>2, Concatenated
  <2> QED BY Zenon, <1>1, <1>2, <2>1
<1>9. \A k \in 1..Len(sendQueue) + n : ~(k <= Len(sendQueue)) => new[k - Len(sendQueue)] = sent + (k - Len(sendQueue))
  BY <1>1, <1>3
<1>10. \A k \in 1..sent + n : ~(k <= sent) => zeros[k - sent] = 0
  BY <1>1, <1>3
<1>11. sendQueue' = sendQueue \o new /\ offset' = offset \o zeros
  BY DEF new, zeros
<1> QED BY Zenon, <1>5, <1>6, <1>7, <1>8, <1>9, <1>10, <1>11

\* send() pushes its items behind those of the queue, and takes the flush if no thread has it.
LEMMA PushStep ==
  ASSUME SessionInv, NEW t \in Thread, NEW point \in {"pushOne", "pushTwo"}, NEW n \in {1, 2}, Push(t, point, n)
  PROVE  SessionInv'
<1>1. /\ stack[t] # <<>> /\ stack \in Stacks /\ Head(stack[t]) \in {"pushOne", "pushTwo"}
      /\ Head(stack[t]) \notin Leads /\ Head(stack[t]) \notin Baton
  BY Zenon DEF Push, At, SessionInv, Typed, Leads, Baton
<1>2. /\ UNCHANGED <<running, ready, socket, tlsState, current, wire, promised>>
      /\ sendQueue' = sendQueue \o [i \in 1..n |-> sent + i]
      /\ offset' = offset \o [i \in 1..n |-> 0] /\ sent' = sent + n
      /\ running => flushRunning'
      /\ flushRunning => flushRunning'
  BY Zenon DEF Push, MarkFlushScheduledLocked, lifeVars
<1>3. PICK points \in {<<"armWrite", "flush">>, <<"armWrite">>} :
         Goto(t, points) /\ (points = <<"armWrite", "flush">> => running /\ ~flushRunning)
  BY DEF Push, FlushScheduled
<1>4. "armWrite" \in Point /\ "flush" \in Point
  BY DEF Point, Marked, Ordinary, Baton
<1>5. points \in Seq(Point)
  BY ZenonT(30), <1>3, <1>4, WithinFew
<1>6. Moved(stack, stack', t, points)
  BY <1>1, <1>3, <1>5, GotoMoves
<1>7. \A i \in 1..Len(points) : points[i] \in {"armWrite", "flush"}
  BY <1>3
<1>8. \A a \in {"armWrite", "flush"} :
         /\ a \notin Token /\ a \notin OfPoller /\ a \notin {"start", "run"}
         /\ a \notin {"unready", "clear", "abort"} /\ a \notin {"unready", "clear"}
         /\ a \notin {"clear"} /\ a \notin {"clearAgain"} /\ a \notin {"writeItem", "wrote", "pop"}
  BY DEF Token, OfPoller
<1>9. /\ ~Within(points, Token) /\ ~Within(points, OfPoller) /\ ~Within(points, {"start", "run"})
      /\ ~Within(points, {"unready", "clear", "abort"}) /\ ~Within(points, {"unready", "clear"})
      /\ ~Within(points, {"clear"}) /\ ~Within(points, {"clearAgain"})
      /\ ~Within(points, {"writeItem", "wrote", "pop"})
  BY Zenon, <1>7, <1>8 DEF Within
<1>10. "armWrite" \notin Baton
  BY DEF Baton
<1>11. \A i, j \in 1..Len(points) : points[i] \in Baton /\ points[j] \in Baton => i = j
  BY <1>3, <1>10
<1>12. Within(points, Baton) => running /\ ~flushRunning
  BY <1>3, <1>10, WithinFew
<1>13. ~NotReadyYet(stack, tlsState)
  BY ZenonT(30), <1>1, TopIn, WithinMore DEF SessionInv, Starting
<1>14. Starting'
  BY Zenon, <1>1, <1>2, <1>6, <1>9, <1>12, <1>13, StartingKept DEF SessionInv
<1>15. Typed
  BY DEF SessionInv
<1>16. /\ sendQueue' \in Seq(1..sent') /\ Len(sendQueue') = Len(sendQueue) + n
       /\ \A k \in 1..Len(sendQueue') :
             sendQueue'[k] = IF k <= Len(sendQueue) THEN sendQueue[k] ELSE sent + (k - Len(sendQueue))
       /\ offset' \in Seq(Nat) /\ Len(offset') = sent'
       /\ \A k \in 1..sent' : offset'[k] = IF k <= sent THEN offset[k] ELSE 0
  BY Zenon, <1>2, <1>15, Pushed
<1>17. Typed'
  <2>1. current' \in [Thread -> 0..sent'] /\ sent' \in Nat /\ promised' \in 0..sent'
    BY <1>2, <1>15 DEF Typed
  <2> QED BY Zenon, <1>2, <1>6, <1>15, <1>16, <2>1 DEF Typed, Moved
<1>18. /\ SomeIn(stack', {"start", "run"}) => SomeIn(stack, {"start", "run"})
       /\ SomeIn(stack', Baton) => SomeIn(stack, Baton) \/ Within(points, Baton)
       /\ \A u \in Thread : Within(stack'[u], {"writeItem", "wrote", "pop"}) => Within(stack[u], {"writeItem", "wrote", "pop"})
  BY <1>6, <1>9, MovedWithin
<1>19. Wires'
  BY Zenon, <1>2, <1>18 DEF SessionInv, Wires, Started
<1>20. ASSUME socket' = "open" PROVE OnceIn(stack', Baton) /\ (running' /\ SomeIn(stack', Baton) => flushRunning')
  <2>1. Within(points, Baton) => ~SomeIn(stack, Baton)
    BY <1>2, <1>12, <1>20 DEF SessionInv, Writing
  <2>2. OnceIn(stack', Baton)
    BY <1>2, <1>6, <1>11, <1>20, <2>1, MovedOnce DEF SessionInv, Writing
  <2> QED BY <1>2, <2>2
<1>21. ASSUME Healthy PROVE Healthy'
  <2>1. done \in Nat /\ done' = done /\ sent = done + Len(sendQueue) /\ Len(sendQueue) \in Nat /\ sent \in Nat
    BY <1>2, <1>15, <1>16, <1>21 DEF Typed, Healthy, done
  <2>2. sendQueue' # <<>> /\ Len(sendQueue') <= sent' /\ sent' = done + Len(sendQueue')
    <3>1. Len(sendQueue') > 0 /\ Len(sendQueue') <= sent' /\ sent' = done + Len(sendQueue')
      BY <1>2, <1>16, <2>1
    <3> QED BY <3>1
  <2>3. \A k \in 1..Len(sendQueue') : sendQueue'[k] = done + k
    <3> SUFFICES ASSUME NEW k \in 1..Len(sendQueue') PROVE sendQueue'[k] = done + k
      OBVIOUS
    <3>1. CASE k <= Len(sendQueue)
      <4>1. k \in 1..Len(sendQueue)
        BY <1>16, <2>1, <3>1
      <4> QED BY ZenonT(30), <1>16, <1>21, <3>1, <4>1 DEF Healthy
    <3>2. CASE ~(k <= Len(sendQueue))
      <4>1. sendQueue'[k] = sent + (k - Len(sendQueue))
        BY <1>16, <3>2
      <4> QED BY <1>16, <2>1, <4>1
    <3> QED BY <3>1, <3>2
  <2>4. \A k \in 2..Len(sendQueue') : offset'[done + k] = 0
    <3> SUFFICES ASSUME NEW k \in 2..Len(sendQueue') PROVE offset'[done + k] = 0
      OBVIOUS
    <3>1. done + k \in 1..sent' /\ (done + k <= sent => k \in 2..Len(sendQueue))
      BY <1>2, <1>16, <2>1
    <3> QED BY Zenon, <1>16, <1>21, <3>1 DEF Healthy
  <2>5. offset'[done + 1] = IF sendQueue = <<>> THEN 0 ELSE offset[done + 1]
    <3>2. sendQueue # <<>> <=> Len(sendQueue) >= 1
      BY <1>15 DEF Typed
    <3>1. done + 1 \in 1..sent' /\ (done + 1 <= sent <=> sendQueue # <<>>)
      BY <1>2, <2>1, <3>2
    <3> QED BY <1>16, <3>1
  <2>6. Len(wire') = done * ItemSize + offset'[done + 1]
    BY Zenon, <1>2, <1>21, <2>5 DEF Healthy
  <2>7. SomeIn(stack, {"wrote", "pop"}) => SomeIn(stack', {"wrote", "pop"})
    BY <1>1, <1>6, MovedStays DEF Baton
  <2>8. offset'[done + 1] <= ItemSize /\ (offset'[done + 1] = ItemSize => SomeIn(stack', {"wrote", "pop"}))
    <3>1. CASE sendQueue = <<>>
      <4>1. ItemSize \in Nat \ {0}
        BY SessionConstants
      <4>2. offset'[done + 1] = 0
        BY <2>5, <3>1
      <4> QED BY <4>1, <4>2
    <3>2. CASE sendQueue # <<>>
      BY ZenonT(30), <1>21, <2>5, <2>7, <3>2 DEF Healthy
    <3> QED BY <3>1, <3>2
  <2>9. \A u \in Thread : Within(stack'[u], {"writeItem", "wrote", "pop"}) => current'[u] = done + 1
    BY Zenon, <1>2, <1>18, <1>21 DEF Healthy
  <2>10. done = sent' - Len(sendQueue')
    BY <2>1 DEF done
  <2> HIDE DEF done
  <2> QED BY ZenonT(30), <2>1, <2>2, <2>3, <2>4, <2>6, <2>8, <2>9 DEF Healthy
<1>22. ASSUME socket' = "open", Dead PROVE Dead'
  <2>1. ~Within(points, Baton)
    BY <1>12, <1>22 DEF Dead
  <2>2. \A u \in Thread : Within(stack'[u], {"writeItem"}) => Within(stack[u], {"writeItem"})
    <3>1. ~Within(points, {"writeItem"})
      BY <1>9, WithinMore
    <3>2. ASSUME NEW S
          PROVE  \A u \in Thread : Within(stack'[u], S) => Within(stack[u], S) \/ Within(points, S)
      BY Zenon, <1>6, MovedWithin
    <3> QED BY Zenon, <3>1, <3>2
  <2>3. \A u \in Thread : current[u] \notin Entries(sendQueue) => current[u] \notin Entries(sendQueue')
    <3> SUFFICES ASSUME NEW u \in Thread, NEW k \in 1..Len(sendQueue'), current[u] = sendQueue'[k]
                 PROVE  current[u] \in Entries(sendQueue)
      BY DEF Entries
    <3>1. current[u] <= sent /\ Len(sendQueue) \in Nat /\ sent \in Nat
      BY <1>15 DEF Typed
    <3>2. k \in 1..Len(sendQueue) /\ sendQueue'[k] = sendQueue[k]
      BY SMTT(30), <1>16, <3>1
    <3> QED BY <3>2 DEF Entries
  <2> QED BY Zenon, <1>2, <1>18, <1>22, <2>1, <2>2, <2>3 DEF Dead, Started
<1>23. Writing'
  BY <1>2, <1>20, <1>21, <1>22 DEF SessionInv, Writing
<1> QED BY <1>14, <1>17, <1>19, <1>23 DEF SessionInv

-----------------------------------------------------------------------------
(* The steps of the thread that writes.                                    *)

\* It alone is where the queue is written, before its step and after it.
LEMMA FlushAlone ==
  ASSUME Typed, OnceIn(stack, Baton), NEW t \in Thread, stack[t] # <<>>, Head(stack[t]) \in Baton,
         NEW points, Moved(stack, stack', t, points), NEW S, S \subseteq Baton
  PROVE  /\ \A u \in Thread : Within(stack[u], S) => u = t /\ Head(stack[t]) \in S
         /\ \A u \in Thread : Within(stack'[u], S) => u = t /\ Within(points, S)
         /\ SomeIn(stack, S) => Head(stack[t]) \in S
<1>1. stack[t] \in Seq(Point) /\ Len(stack[t]) \in Nat /\ 1 \in 1..Len(stack[t]) /\ stack[t][1] = Head(stack[t])
  BY DEF Typed, Stacks
<1>2. ASSUME NEW u \in Thread, NEW i \in 1..Len(stack[u]), stack[u][i] \in Baton
      PROVE  u = t /\ i = 1
  BY <1>1, <1>2 DEF OnceIn
<1>3. \A u \in Thread : Within(stack[u], S) => u = t /\ Head(stack[t]) \in S
  BY <1>1, <1>2 DEF Within
<1>4. ASSUME NEW u \in Thread, Within(stack'[u], S) PROVE u = t /\ Within(points, S)
  <2>1. u = t
    BY ZenonT(30), <1>3, <1>4 DEF Moved
  <2>2. PICK i \in 1..Len(stack'[t]) : stack'[t][i] \in S
    BY <1>4, <2>1 DEF Within
  <2>3. PICK n \in Nat :
           \/ i + n \in 1..Len(points) /\ stack'[t][i] = points[i + n]
           \/ /\ i + n > Len(points) /\ i + n - Len(points) + 1 \in 2..Len(stack[t])
              /\ stack'[t][i] = stack[t][i + n - Len(points) + 1]
    BY Zenon DEF Moved
  <2>4. \A m \in 2..Len(stack[t]) : m \in 1..Len(stack[t]) /\ m # 1
    BY <1>1
  <2>5. \A m \in 2..Len(stack[t]) : stack[t][m] \notin S
    BY <1>2, <2>4
  <2> QED BY <2>1, <2>2, <2>3, <2>5 DEF Within
<1> QED BY Zenon, <1>3, <1>4 DEF SomeIn

\* A step of it leaves the session in order if it keeps the queue so.
LEMMA FlushStep ==
  ASSUME SessionInv, NEW t \in Thread, stack[t] # <<>>, Head(stack[t]) \in Baton,
         NEW points, Moved(stack, stack', t, points),
         \A i \in 1..Len(points) : points[i] \in Baton \cup Ordinary,
         \A i, j \in 1..Len(points) : points[i] \in Baton /\ points[j] \in Baton => i = j,
         UNCHANGED <<running, ready, socket, tlsState>>, Typed',
         wire' = wire \/ (InOrder(wire') /\ (NoItem \in Entries(wire') => ~running)),
         socket = "open" /\ running /\ Within(points, Baton) => flushRunning',
         Within(points, {"writeItem"}) => ready,
         socket = "open" /\ OnceIn(stack, Baton) /\ Healthy => Healthy'
  PROVE  SessionInv'
<1>1. SomeIn(stack, Baton) /\ ~NotReadyYet(stack, tlsState)
  <2>1. SomeIn(stack, Baton)
    BY ZenonT(30), TopIn DEF SessionInv, Typed
  <2> QED BY ZenonT(30), <2>1, WithinMore DEF SessionInv, Starting
<1>2. \A a \in Baton \cup Ordinary :
         /\ a \notin Token /\ a \notin OfPoller /\ a \notin {"start", "run"}
         /\ a \notin {"unready", "clear", "abort"} /\ a \notin {"unready", "clear"}
         /\ a \notin {"clear"} /\ a \notin {"clearAgain"}
  BY DEF Baton, Ordinary, Token, OfPoller
<1>3. /\ ~Within(points, Token) /\ ~Within(points, OfPoller) /\ ~Within(points, {"start", "run"})
      /\ ~Within(points, {"unready", "clear", "abort"}) /\ ~Within(points, {"unready", "clear"})
      /\ ~Within(points, {"clear"}) /\ ~Within(points, {"clearAgain"})
  BY ZenonT(30), <1>2 DEF Within
<1>4. Head(stack[t]) \notin Leads
  BY DEF Baton, Leads
<1>5. Starting'
  BY ZenonT(30), <1>1, <1>3, <1>4, StartingKept DEF SessionInv
<1>6. Wires'
  <2>1. SomeIn(stack', {"start", "run"}) => SomeIn(stack, {"start", "run"})
    BY ZenonT(30), <1>3, MovedWithin
  <2>2. Started(stack')
    BY <1>1, <2>1, WithinMore DEF NotReadyYet, Started, Token
  <2>3. CASE wire' = wire
    BY Zenon, <2>2, <2>3 DEF SessionInv, Wires
  <2>4. CASE InOrder(wire') /\ (NoItem \in Entries(wire') => ~running)
    BY ZenonT(30), <2>2, <2>4 DEF Wires
  <2> QED BY ZenonT(30), <2>3, <2>4
<1>7. ASSUME socket' = "open" PROVE OnceIn(stack', Baton) /\ (running' /\ SomeIn(stack', Baton) => flushRunning')
  <2>1. OnceIn(stack, Baton) /\ Typed
    BY ZenonT(30), <1>7 DEF SessionInv, Writing
  <2>2. OnceIn(stack', Baton)
    BY ZenonT(30), <2>1, MovedOnce
  <2>3. SomeIn(stack', Baton) => Within(points, Baton)
    BY ZenonT(30), <2>1, FlushAlone DEF SomeIn
  <2> QED BY ZenonT(30), <1>7, <2>2, <2>3
<1>8. ASSUME socket' = "open", Dead PROVE Dead'
  <2>1. OnceIn(stack, Baton) /\ Typed
    BY ZenonT(30), <1>8 DEF SessionInv, Writing
  <2>2. ~ready /\ ~Within(points, {"writeItem"})
    BY ZenonT(30), <1>1, <1>8 DEF Dead
  <2>3. \A u \in Thread : ~Within(stack'[u], {"writeItem"})
    BY ZenonT(30), <2>1, <2>2, FlushAlone DEF Baton
  <2>4. SomeIn(stack', {"start", "run"}) => SomeIn(stack, {"start", "run"})
    BY Zenon, <1>3, MovedWithin
  <2> QED BY ZenonT(30), <1>8, <2>2, <2>3, <2>4 DEF Dead, Started
<1>9. Writing'
  BY ZenonT(30), <1>7, <1>8 DEF SessionInv, Writing
<1> QED BY ZenonT(30), <1>5, <1>6, <1>9 DEF SessionInv

\* The queue stays as it should be if it is left alone, and the first entry was not
\* completed just now.
LEMMA FlushLeaves ==
  ASSUME Typed, Healthy, OnceIn(stack, Baton), NEW t \in Thread, stack[t] # <<>>,
         Head(stack[t]) \in Baton \ {"wrote", "pop"},
         NEW points, Moved(stack, stack', t, points), UNCHANGED <<sendQueue, offset, sent, wire>>,
         Within(points, {"writeItem", "wrote", "pop"}) => sendQueue # <<>> /\ current'[t] = done + 1
  PROVE  Healthy'
<1>1. \A u \in Thread : Within(stack'[u], {"writeItem", "wrote", "pop"}) =>
           u = t /\ Within(points, {"writeItem", "wrote", "pop"})
  BY ZenonT(30), FlushAlone DEF Baton
<1>2. ~SomeIn(stack, {"wrote", "pop"})
  BY Zenon, FlushAlone DEF Baton
<1>3. done' = done
  BY DEF done
<1> QED BY ZenonT(30), <1>1, <1>2, <1>3 DEF Healthy

\* The points that a step adds: one of Baton, if any, and something ordinary first.
Ends(a, b) == {<<>>, <<b>>, <<a, b>>}

\* What such points are within.
LEMMA FlushFew ==
  ASSUME NEW a \in Ordinary, NEW b \in Baton, NEW points \in Ends(a, b)
  PROVE  /\ points \in Seq(Point)
         /\ \A i \in 1..Len(points) : points[i] \in Baton \cup Ordinary
         /\ \A i, j \in 1..Len(points) : points[i] \in Baton /\ points[j] \in Baton => i = j
         /\ \A S : S \subseteq Baton /\ Within(points, S) => points # <<>> /\ b \in S
<1>1. a \in Point /\ b \in Point /\ a \notin Baton
  BY OrdinaryFew DEF Point, Marked
<1>2. CASE points = <<>>
  BY <1>2, WithinFew
<1>3. CASE points = <<b>>
  BY <1>1, <1>3, WithinFew
<1>4. CASE points = <<a, b>>
  <2>1. points \in Seq(Point) /\ Len(points) = 2 /\ points[1] = a /\ points[2] = b
    BY <1>1, <1>4, WithinFew
  <2> QED BY <1>1, <1>4, <2>1, WithinFew
<1> QED BY <1>2, <1>3, <1>4 DEF Ends

\* A step of the flushing thread keeps the invariant, if it keeps the queue Healthy.
LEMMA FlushGoto ==
  ASSUME SessionInv, NEW t \in Thread, stack[t] # <<>>, Head(stack[t]) \in Baton,
         NEW a \in Ordinary, NEW b \in Baton, NEW points \in Ends(a, b), Goto(t, points),
         UNCHANGED <<running, ready, socket, tlsState, sent, promised>>,
         offset' \in Seq(Nat), Len(offset') = sent, wire' \in Seq(Nat),
         sendQueue' \in Seq(1..sent), current' \in [Thread -> 0..sent],
         wire' = wire \/ (InOrder(wire') /\ (NoItem \in Entries(wire') => ~running)),
         points # <<>> => flushRunning' = flushRunning,
         points # <<>> /\ b = "writeItem" => ready,
         socket = "open" /\ OnceIn(stack, Baton) /\ Healthy /\ Moved(stack, stack', t, points) => Healthy'
  PROVE  SessionInv'
<1>2. points \in Seq(Point)
  BY ZenonT(30), FlushFew
<1>3. stack \in Stacks /\ Moved(stack, stack', t, points)
  BY ZenonT(30), <1>2, GotoMoves DEF SessionInv, Typed
<1>4. \A i \in 1..Len(points) : points[i] \in Baton \cup Ordinary
  BY ZenonT(30), FlushFew
<1>5. \A i, j \in 1..Len(points) : points[i] \in Baton /\ points[j] \in Baton => i = j
  BY ZenonT(30), FlushFew
<1>6. (Within(points, Baton) => points # <<>>) /\ (Within(points, {"writeItem"}) => points # <<>> /\ b = "writeItem")
  <2>1. {"writeItem"} \subseteq Baton
    BY DEF Baton
  <2> QED BY <2>1, FlushFew
<1>7. Typed'
  BY Zenon, <1>3 DEF SessionInv, Typed, Moved
<1>8. socket = "open" /\ running /\ Within(points, Baton) => flushRunning'
  <2>1. SomeIn(stack, Baton)
    BY ZenonT(30), <1>3, TopIn
  <2> QED BY ZenonT(30), <1>6, <2>1 DEF SessionInv, Writing
<1> QED BY ZenonT(30), <1>3, <1>4, <1>5, <1>6, <1>7, <1>8, FlushStep

\* Steps that leave the queue alone.
LEMMA FlushGotoLeaves ==
  ASSUME SessionInv, NEW t \in Thread, stack[t] # <<>>, Head(stack[t]) \in Baton \ {"wrote", "pop"},
         NEW a \in Ordinary, NEW b \in Baton \ {"writeItem", "wrote", "pop"},
         NEW points \in Ends(a, b), Goto(t, points),
         UNCHANGED <<running, ready, socket, tlsState, sendQueue, offset, sent, wire, promised>>,
         current' \in [Thread -> 0..sent],
         points # <<>> => flushRunning' = flushRunning
  PROVE  SessionInv'
<1>1. {"writeItem", "wrote", "pop"} \subseteq Baton
  BY ZenonT(30) DEF Baton
<1>2. ~Within(points, {"writeItem", "wrote", "pop"})
  BY <1>1, FlushFew
<1>3. Typed /\ offset \in Seq(Nat) /\ Len(offset) = sent /\ wire \in Seq(Nat) /\ sendQueue \in Seq(1..sent)
  BY Zenon DEF SessionInv, Typed
<1>4. OnceIn(stack, Baton) /\ Healthy /\ Moved(stack, stack', t, points) => Healthy'
  BY ZenonT(30), <1>2, <1>3, FlushLeaves
<1> QED BY ZenonT(30), <1>3, <1>4, FlushGoto

\* The steps that leave the queue as it is, whether they go on or give the flush up.
LEMMA LeavingSteps ==
  ASSUME SessionInv, NEW t \in Thread,
         \/ Flush(t) \/ WriteWouldBlock(t) \/ WriteFails(t) \/ Drained(t) \/ StopFlush(t)
  PROVE  SessionInv'
<1> USE DEF lifeVars, queueVars, historyVars
<1>1. /\ stack[t] # <<>> /\ Head(stack[t]) \in Baton \ {"wrote", "pop"}
      /\ UNCHANGED <<running, ready, socket, tlsState, sendQueue, offset, sent, wire, promised>>
  BY Zenon DEF Flush, WriteWouldBlock, WriteFails, Drained, StopFlush, At, Baton
<1>2. current' \in [Thread -> 0..sent]
  <2>1. current \in [Thread -> 0..sent] /\ sent \in Nat
    BY DEF SessionInv, Typed
  <2> QED BY <2>1 DEF Flush, WriteWouldBlock, WriteFails, Drained, StopFlush, NoItem
<1>3. \A b \in {"drain", "stopFlush", "flush"} : b \in Baton \ {"writeItem", "wrote", "pop"}
  BY DEF Baton
<1>4. "close" \in Ordinary /\ "blocked" \in Ordinary
  BY Zenon DEF Ordinary
<1>5. PICK points \in {<<>>, <<"drain">>, <<"blocked", "stopFlush">>, <<"close", "stopFlush">>, <<"flush">>} :
         Goto(t, points) /\ (points # <<>> => flushRunning' = flushRunning)
  BY DEF Flush, WriteWouldBlock, WriteFails, Drained, StopFlush, Return
<1>6. PICK a \in Ordinary, b \in {"drain", "stopFlush", "flush"} : points \in Ends(a, b)
  BY <1>4, <1>5 DEF Ends
<1> QED BY ZenonT(30), <1>1, <1>2, <1>3, <1>5, <1>6, FlushGotoLeaves

\* The next item is taken up: the queue's first.
LEMMA DrainStep ==
  ASSUME SessionInv, NEW t \in Thread, Drain(t)
  PROVE  SessionInv'
<1> USE DEF lifeVars, historyVars
<1>1. /\ stack[t] # <<>> /\ Head(stack[t]) \in Baton \ {"wrote", "pop"} /\ Head(stack[t]) \in Baton
      /\ UNCHANGED <<running, ready, socket, tlsState, sendQueue, flushRunning, offset, sent, wire, promised>>
  BY Zenon DEF Drain, At, Baton
<1>2. /\ Typed /\ current \in [Thread -> 0..sent] /\ sendQueue \in Seq(1..sent)
      /\ offset \in Seq(Nat) /\ Len(offset) = sent /\ wire \in Seq(Nat) /\ sent \in Nat
  BY DEF SessionInv, Typed
<1>3. /\ "stopFlush" \in Baton \ {"writeItem", "wrote", "pop"} /\ "drained" \in Baton \ {"writeItem", "wrote", "pop"}
      /\ "writeItem" \in Baton /\ "close" \in Ordinary
  BY DEF Baton, Ordinary
<1>4. CASE ~ready \/ sendQueue = <<>>
  <2>1. current' = current
    BY <1>4 DEF Drain
  <2>2. PICK b \in {"stopFlush", "drained"} : Goto(t, <<b>>) \/ Goto(t, <<"close", b>>)
    BY <1>4 DEF Drain, Emptied
  <2>3. <<b>> \in Ends("close", b) /\ <<"close", b>> \in Ends("close", b)
    BY DEF Ends
  <2> QED BY Zenon, <1>1, <1>2, <1>3, <2>1, <2>2, <2>3, FlushGotoLeaves
<1>5. CASE ready /\ sendQueue # <<>>
  <2>1. Goto(t, <<"writeItem">>) /\ current' = [current EXCEPT ![t] = Head(sendQueue)]
    BY <1>5 DEF Drain
  <2>2. Head(sendQueue) = sendQueue[1] /\ 1 \in 1..Len(sendQueue) /\ sendQueue[1] \in 0..sent
    BY <1>2, <1>5
  <2>3. current' \in [Thread -> 0..sent] /\ current'[t] = sendQueue[1]
    BY SMTT(30), <1>2, <2>1, <2>2
  <2>4. Healthy => current'[t] = done + 1
    BY <2>2, <2>3 DEF Healthy
  <2>5. OnceIn(stack, Baton) /\ Healthy /\ Moved(stack, stack', t, <<"writeItem">>) => Healthy'
    BY Zenon, <1>1, <1>2, <1>5, <2>4, FlushLeaves
  <2>6. <<"writeItem">> \in Ends("close", "writeItem")
    BY DEF Ends
  <2> QED BY ZenonT(30), <1>1, <1>2, <1>3, <1>5, <2>1, <2>3, <2>5, <2>6, FlushGoto
<1> QED BY <1>4, <1>5

\* The index of the entry whose piece comes next.
LEMMA PieceIndex ==
  ASSUME NEW q \in Nat, NEW o \in Nat, o < ItemSize
  PROVE  (q * ItemSize + o) \div ItemSize = q
<1>1. ItemSize \in Nat \ {0}
  BY SessionConstants
<1>2. o \in 0..ItemSize - 1
  BY <1>1
<1> QED BY <1>1, <1>2

\* The thread that writes an entry has the first one, if close() has not cleared the queue.
LEMMA WritesFirst ==
  ASSUME Typed, Healthy, NEW t \in Thread, stack[t] # <<>>, Head(stack[t]) \in {"writeItem", "wrote", "pop"}
  PROVE  /\ sendQueue # <<>> /\ current[t] = done + 1 /\ current[t] = sendQueue[1] /\ ~Dangling(t)
         /\ done \in Nat /\ Len(sendQueue) \in Nat /\ Len(sendQueue) >= 1 /\ sent = done + Len(sendQueue)
         /\ done + 1 \in 1..sent
<1>1. sendQueue # <<>> /\ current[t] = done + 1
  BY Zenon, TopIn DEF Typed, Healthy
<1>2. Len(sendQueue) \in Nat /\ Len(sendQueue) >= 1 /\ sent \in Nat
  BY <1>1 DEF Typed
<1>3. done \in Nat /\ sent = done + Len(sendQueue)
  BY <1>2 DEF Healthy, done
<1>4. 1 \in 1..Len(sendQueue)
  BY <1>2
<1>5. sendQueue[1] = done + 1
  BY <1>4 DEF Healthy
<1> QED BY <1>1, <1>2, <1>3, <1>4, <1>5 DEF Dangling, Entries

\* The socket takes a part of the item, in order.
LEMMA WriteItemStep ==
  ASSUME SessionInv, NEW t \in Thread, WriteItem(t)
  PROVE  SessionInv'
<1> USE DEF lifeVars, queueVars
<1>1. /\ stack[t] # <<>> /\ Head(stack[t]) = "writeItem" /\ Head(stack[t]) \in Baton
      /\ socket = "open" /\ ~Dangling(t)
      /\ wire' = Append(wire, current[t]) /\ offset' = [offset EXCEPT ![current[t]] = @ + 1]
      /\ Goto(t, <<"wrote">>)
      /\ UNCHANGED <<running, ready, socket, tlsState, sendQueue, flushRunning, current, sent, promised>>
  BY ZenonT(30) DEF WriteItem, At, Baton
<1>2. /\ Typed /\ current \in [Thread -> 0..sent] /\ sendQueue \in Seq(1..sent)
      /\ offset \in Seq(Nat) /\ Len(offset) = sent /\ wire \in Seq(Nat) /\ sent \in Nat
      /\ OnceIn(stack, Baton)
  BY ZenonT(30), <1>1 DEF SessionInv, Typed, Writing
<1>3. Healthy
  <2>1. Within(stack[t], {"writeItem"})
    BY ZenonT(30), <1>1, <1>2, TopIn DEF Typed
  <2> QED BY ZenonT(30), <1>1, <2>1 DEF SessionInv, Writing, Dead, Dangling
<1>4. /\ sendQueue # <<>> /\ current[t] = done + 1 /\ done \in Nat /\ done + 1 \in 1..sent
      /\ Len(sendQueue) \in Nat /\ sent = done + Len(sendQueue)
  BY Zenon, <1>1, <1>2, <1>3, WritesFirst
<1>5. offset[done + 1] \in Nat /\ offset[done + 1] < ItemSize
  <2>1. ~SomeIn(stack, {"wrote", "pop"})
    <3>1. {"wrote", "pop"} \subseteq Baton /\ "writeItem" \notin {"wrote", "pop"} /\ "wrote" \in Point
      BY DEF Baton, Point, Marked
    <3>2. Moved(stack, stack', t, <<"wrote">>)
      BY Zenon, <1>1, <1>2, <3>1, WithinFew, GotoMoves DEF Typed
    <3> QED BY Zenon, <1>1, <1>2, <3>1, <3>2, FlushAlone
  <2>2. offset[done + 1] \in Nat /\ ItemSize \in Nat
    BY <1>2, <1>4, SessionConstants
  <2>3. offset[done + 1] <= ItemSize /\ offset[done + 1] # ItemSize
    BY <1>3, <1>4, <2>1 DEF Healthy
  <2> QED BY <2>2, <2>3
<1>6. Len(wire) = done * ItemSize + offset[done + 1]
  BY <1>3, <1>4 DEF Healthy
<1>7. /\ wire' \in Seq(Nat) /\ Len(wire') = Len(wire) + 1 /\ wire'[Len(wire) + 1] = current[t]
      /\ \A i \in 1..Len(wire) : wire'[i] = wire[i]
  BY <1>1, <1>2, <1>4
<1>8. InOrder(wire')
  <2> SUFFICES ASSUME NEW i \in 1..Len(wire') PROVE wire'[i] \in {(i - 1) \div ItemSize + 1, NoItem}
    BY DEF InOrder
  <2>0. Len(wire) \in Nat
    BY <1>2
  <2>1. CASE i = Len(wire) + 1
    <3>1. i - 1 = done * ItemSize + offset[done + 1]
      BY <1>6, <2>0, <2>1
    <3>2. (i - 1) \div ItemSize = done
      BY <1>4, <1>5, <3>1, PieceIndex
    <3> QED BY <1>4, <1>7, <2>1, <3>2
  <2>2. CASE i # Len(wire) + 1
    <3>1. i \in 1..Len(wire)
      BY <1>7, <2>0, <2>2
    <3> QED BY Zenon, <1>7, <3>1 DEF SessionInv, Wires, InOrder
  <2> QED BY <2>1, <2>2
<1>9. NoItem \in Entries(wire') => ~running
  <2>1. ASSUME NEW i \in 1..Len(wire'), wire'[i] = NoItem PROVE ~running
    <3>0. Len(wire) \in Nat
      BY <1>2
    <3>1. i # Len(wire) + 1
      BY <1>4, <1>7, <2>1 DEF NoItem
    <3>2. i \in 1..Len(wire)
      BY <1>7, <3>0, <3>1
    <3> QED BY <1>7, <2>1, <3>2 DEF SessionInv, Wires, Entries
  <2> QED BY <2>1 DEF Entries
<1>10. /\ offset' \in Seq(Nat) /\ Len(offset') = sent /\ offset'[done + 1] = offset[done + 1] + 1
       /\ \A k \in 1..sent : k # done + 1 => offset'[k] = offset[k]
  <2> DEFINE d == done + 1
  <2>1. d \in 1..sent /\ offset' = [offset EXCEPT ![d] = offset[d] + 1] /\ offset[d] + 1 \in Nat
    BY <1>1, <1>4, <1>5
  <2> HIDE DEF d
  <2>2. /\ offset' \in Seq(Nat) /\ Len(offset') = sent /\ offset'[d] = offset[d] + 1
        /\ \A k \in 1..sent : k # d => offset'[k] = offset[k]
    BY <1>2, <2>1
  <2> QED BY Zenon, <2>2 DEF d
<1>11. ASSUME Moved(stack, stack', t, <<"wrote">>) PROVE Healthy'
  <2>1. SomeIn(stack', {"wrote", "pop"})
    BY <1>11, WithinFew, MovedTo
  <2>2. \A u \in Thread : Within(stack'[u], {"writeItem", "wrote", "pop"}) => u = t
    BY ZenonT(30), <1>1, <1>2, <1>11, FlushAlone DEF Baton
  <2>3. done' = done
    BY Zenon, <1>1 DEF done
  <2>4. offset'[done + 1] <= ItemSize
    <3>1. ItemSize \in Nat
      BY SessionConstants
    <3> QED BY <1>5, <1>10, <3>1
  <2>5. Len(wire') = done * ItemSize + offset'[done + 1]
    <3>1. done * ItemSize \in Nat
      BY <1>4, SessionConstants
    <3> QED BY <1>5, <1>6, <1>7, <1>10, <3>1
  <2>6. \A k \in 2..Len(sendQueue) : offset'[done + k] = 0
    <3> SUFFICES ASSUME NEW k \in 2..Len(sendQueue) PROVE offset'[done + k] = 0
      OBVIOUS
    <3>1. done + k \in 1..sent /\ done + k # done + 1
      BY <1>4
    <3> QED BY Zenon, <1>3, <1>10, <3>1 DEF Healthy
  <2> QED BY ZenonT(30), <1>1, <1>3, <1>4, <2>1, <2>2, <2>3, <2>4, <2>5, <2>6 DEF Healthy
<1>12. "wrote" \in Baton /\ "close" \in Ordinary /\ <<"wrote">> \in Ends("close", "wrote") /\ "wrote" # "writeItem"
  BY DEF Baton, Ordinary, Ends
<1> QED BY ZenonT(30), <1>1, <1>2, <1>7, <1>8, <1>9, <1>10, <1>11, <1>12, FlushGoto

\* After close() has cleared the queue, what is written is no longer an item of it.
LEMMA WriteDanglingStep ==
  ASSUME SessionInv, NEW t \in Thread, WriteDangling(t)
  PROVE  SessionInv'
<1> USE DEF lifeVars, queueVars
<1>1. /\ stack[t] # <<>> /\ Head(stack[t]) = "writeItem" /\ Head(stack[t]) \in Baton /\ Dangling(t)
      /\ wire' = wire \/ (socket = "open" /\ wire' = Append(wire, NoItem))
      /\ UNCHANGED <<running, ready, socket, tlsState, sendQueue, flushRunning, offset, current, sent, promised>>
  BY Zenon DEF WriteDangling, At, Baton
<1>2. /\ Typed /\ current \in [Thread -> 0..sent] /\ sendQueue \in Seq(1..sent)
      /\ offset \in Seq(Nat) /\ Len(offset) = sent /\ wire \in Seq(Nat)
  BY DEF SessionInv, Typed
<1>3. PICK b \in {"wrote", "pop"} : Goto(t, <<b>>)
  BY DEF WriteDangling
<1>4. b \in Baton /\ "close" \in Ordinary /\ <<b>> \in Ends("close", b) /\ b # "writeItem"
  BY DEF Baton, Ordinary, Ends
<1>5. ~Healthy
  BY SMTT(30), <1>1, <1>2, WritesFirst
<1>6. ASSUME wire' # wire PROVE InOrder(wire') /\ ~running
  <2>1. ~running
    BY Zenon, <1>1, <1>5, <1>6 DEF SessionInv, Writing, Dead
  <2>2. /\ Len(wire') = Len(wire) + 1 /\ wire'[Len(wire) + 1] = NoItem /\ Len(wire) \in Nat
        /\ \A i \in 1..Len(wire) : wire'[i] = wire[i]
    <3>1. wire' = Append(wire, NoItem)
      BY Zenon, <1>1, <1>6
    <3> QED BY <1>2, <3>1 DEF NoItem
  <2>3. \A i \in 1..Len(wire') : i = Len(wire) + 1 \/ i \in 1..Len(wire)
    BY <2>2
  <2> QED BY <2>1, <2>2, <2>3 DEF SessionInv, Wires, InOrder
<1>7. wire' \in Seq(Nat)
  <2>1. Append(wire, NoItem) \in Seq(Nat)
    BY <1>2 DEF NoItem
  <2> QED BY ZenonT(30), <1>1, <1>2, <2>1
<1> QED BY ZenonT(30), <1>1, <1>2, <1>3, <1>4, <1>5, <1>6, <1>7, FlushGoto

\* After the write: the interest, the timer; the queue stays as it is.
LEMMA WroteStep ==
  ASSUME SessionInv, NEW t \in Thread, Wrote(t)
  PROVE  SessionInv'
<1> USE DEF lifeVars, queueVars, historyVars
<1>1. /\ stack[t] # <<>> /\ Head(stack[t]) = "wrote" /\ Head(stack[t]) \in Baton /\ Goto(t, <<"pop">>)
      /\ UNCHANGED <<running, ready, socket, tlsState, sendQueue, flushRunning, offset, current, sent, wire, promised>>
  BY ZenonT(30) DEF Wrote, At, Baton
<1>2. /\ Typed /\ current \in [Thread -> 0..sent] /\ sendQueue \in Seq(1..sent)
      /\ offset \in Seq(Nat) /\ Len(offset) = sent /\ wire \in Seq(Nat)
  BY DEF SessionInv, Typed
<1>3. ASSUME OnceIn(stack, Baton), Healthy, Moved(stack, stack', t, <<"pop">>) PROVE Healthy'
  <2>1. SomeIn(stack', {"wrote", "pop"})
    BY <1>3, WithinFew, MovedTo
  <2>2. \A u \in Thread : Within(stack'[u], {"writeItem", "wrote", "pop"}) => u = t
    BY ZenonT(30), <1>1, <1>2, <1>3, FlushAlone DEF Baton
  <2>3. sendQueue # <<>> /\ current[t] = done + 1
    BY ZenonT(30), <1>1, <1>2, <1>3, WritesFirst
  <2>4. done' = done
    BY Zenon, <1>1 DEF done
  <2> QED BY ZenonT(30), <1>1, <1>3, <2>1, <2>2, <2>3, <2>4 DEF Healthy
<1>4. "pop" \in Baton /\ "close" \in Ordinary /\ <<"pop">> \in Ends("close", "pop") /\ "pop" # "writeItem"
  BY DEF Baton, Ordinary, Ends
<1> QED BY Zenon, <1>1, <1>2, <1>3, <1>4, FlushGoto

\* The item leaves the queue once it is whole; an emptied queue may close the session.
LEMMA PopStep ==
  ASSUME SessionInv, NEW t \in Thread, Pop(t)
  PROVE  SessionInv'
<1> USE DEF lifeVars, historyVars
<1>1. /\ stack[t] # <<>> /\ Head(stack[t]) = "pop" /\ Head(stack[t]) \in Baton
      /\ UNCHANGED <<running, ready, socket, tlsState, flushRunning, offset, sent, wire, promised>>
      /\ current' = [current EXCEPT ![t] = NoItem]
  BY Zenon DEF Pop, At, Baton
<1>2. /\ Typed /\ current \in [Thread -> 0..sent] /\ sendQueue \in Seq(1..sent) /\ sent \in Nat
      /\ offset \in Seq(Nat) /\ Len(offset) = sent /\ wire \in Seq(Nat)
  BY DEF SessionInv, Typed
<1>3. current' \in [Thread -> 0..sent]
  BY <1>1, <1>2 DEF NoItem
<1>4. sendQueue' = sendQueue \/ (sendQueue # <<>> /\ sendQueue' = Tail(sendQueue))
  <2>1. ~Dangling(t) => sendQueue # <<>>
    BY DEF Dangling, Entries
  <2> QED BY Zenon, <2>1 DEF Pop
<1>5. sendQueue' \in Seq(1..sent)
  <2>1. sendQueue # <<>> => Tail(sendQueue) \in Seq(1..sent)
    BY <1>2
  <2> QED BY Zenon, <1>2, <1>4, <2>1
<1>6. PICK points \in {<<"drain">>, <<"close", "stopFlush">>} : Goto(t, points)
  <2>1. Goto(t, <<"drain">>) \/ Goto(t, <<"close", "stopFlush">>)
    BY Zenon DEF Pop, Emptied
  <2> QED BY <2>1
<1>7. PICK b \in {"drain", "stopFlush"} : points \in Ends("close", b)
  BY <1>6 DEF Ends
<1>8. b \in Baton /\ "close" \in Ordinary /\ b # "writeItem"
  BY DEF Baton, Ordinary
<1>9. ASSUME OnceIn(stack, Baton), Healthy, Moved(stack, stack', t, points) PROVE Healthy'
  <2>1. \A u \in Thread : ~Within(stack'[u], {"writeItem", "wrote", "pop"})
    <3>1. {"writeItem", "wrote", "pop"} \subseteq Baton /\ b \notin {"writeItem", "wrote", "pop"}
      BY DEF Baton
    <3>2. ~Within(points, {"writeItem", "wrote", "pop"})
      BY <1>7, <1>8, <3>1, FlushFew
    <3>3. ASSUME NEW S, S \subseteq Baton
          PROVE  \A u \in Thread : Within(stack'[u], S) => Within(points, S)
      BY Zenon, <1>1, <1>2, <1>9, <3>3, FlushAlone
    <3> QED BY Zenon, <3>1, <3>2, <3>3
  <2>2. /\ sendQueue # <<>> /\ current[t] = done + 1 /\ current[t] = sendQueue[1] /\ ~Dangling(t)
        /\ done \in Nat /\ Len(sendQueue) \in Nat /\ Len(sendQueue) >= 1 /\ sent = done + Len(sendQueue)
        /\ done + 1 \in 1..sent
    BY Zenon, <1>1, <1>2, <1>9, WritesFirst
  <2>3. offset[done + 1] \in Nat /\ ItemSize \in Nat \ {0} /\ Head(sendQueue) = sendQueue[1]
    BY <1>2, <2>2, SessionConstants
  <2>4. offset[done + 1] <= ItemSize /\ Len(wire) = done * ItemSize + offset[done + 1]
    BY ZenonT(30), <1>9, <2>2 DEF Healthy
  <2>5. CASE offset[done + 1] # ItemSize
    <3>1. sendQueue' = sendQueue
      BY Zenon, <2>2, <2>5 DEF Pop
    <3>2. done' = done
      BY <1>1, <3>1 DEF done
    <3> QED BY ZenonT(30), <1>1, <1>9, <2>1, <2>5, <3>1, <3>2 DEF Healthy
  <2>6. CASE offset[done + 1] = ItemSize
    <3>1. sendQueue' = Tail(sendQueue)
      BY Zenon, <2>2, <2>3, <2>6 DEF Pop
    <3>2. /\ Len(sendQueue') = Len(sendQueue) - 1
          /\ \A k \in 1..Len(sendQueue) - 1 : sendQueue'[k] = sendQueue[k + 1]
      BY SMTT(30), <1>2, <2>2, <3>1
    <3>3. done' = done + 1
      BY SMTT(30), <1>1, <1>2, <2>2, <3>2 DEF done
    <3>4. Len(sendQueue') <= sent'
      BY SMTT(30), <1>1, <2>2, <3>2
    <3>5. \A k \in 1..Len(sendQueue') : sendQueue'[k] = done + 1 + k
      <4> SUFFICES ASSUME NEW k \in 1..Len(sendQueue') PROVE sendQueue'[k] = done + 1 + k
        OBVIOUS
      <4>1. k \in 1..Len(sendQueue) - 1 /\ k + 1 \in 1..Len(sendQueue)
        BY <2>2, <3>2
      <4>2. sendQueue[k + 1] = done + (k + 1)
        BY Zenon, <1>9, <4>1 DEF Healthy
      <4> QED BY <2>2, <3>2, <4>1, <4>2
    <3>6. \A k \in 1..Len(sendQueue') : offset[done + 1 + k] = 0
      <4> SUFFICES ASSUME NEW k \in 1..Len(sendQueue') PROVE offset[done + 1 + k] = 0
        OBVIOUS
      <4>1. k + 1 \in 2..Len(sendQueue) /\ done + 1 + k = done + (k + 1)
        BY <2>2, <3>2
      <4> QED BY Zenon, <1>9, <4>1 DEF Healthy
    <3>7. \A k \in 2..Len(sendQueue') : offset[done + 1 + k] = 0
      <4>1. Len(sendQueue') \in Nat
        BY <2>2, <3>2
      <4>2. \A k \in 2..Len(sendQueue') : k \in 1..Len(sendQueue')
        BY <4>1
      <4> QED BY <3>6, <4>2
    <3>8. sendQueue' # <<>> => offset[done + 1 + 1] = 0
      <4>1. sendQueue' # <<>> => 1 \in 1..Len(sendQueue')
        BY <1>5
      <4> QED BY <3>6, <4>1
    <3>9. Len(wire) = (done + 1) * ItemSize
      BY SMTT(30), <2>2, <2>3, <2>4, <2>6
    <3>10. Len(wire') = (done + 1) * ItemSize + (IF sendQueue' = <<>> THEN 0 ELSE offset'[done + 1 + 1])
      <4>1. (done + 1) * ItemSize \in Nat
        BY <2>2, <2>3
      <4> QED BY <1>1, <3>8, <3>9, <4>1
    <3>11. sendQueue' # <<>> => offset'[done + 1 + 1] <= ItemSize /\ offset'[done + 1 + 1] # ItemSize
      BY <1>1, <2>3, <3>8
    <3> QED BY ZenonT(30), <1>1, <2>1, <3>3, <3>4, <3>5, <3>7, <3>10, <3>11 DEF Healthy
  <2> QED BY <2>5, <2>6
<1> QED BY ZenonT(30), <1>1, <1>2, <1>3, <1>5, <1>6, <1>7, <1>8, <1>9, FlushGoto

-----------------------------------------------------------------------------
(* What follows.                                                           *)

\* A session begins with the invariant: only start() is under way.
LEMMA SessionInit == Init => SessionInv
<1> SUFFICES ASSUME Init PROVE SessionInv
  OBVIOUS
<1>1. "start" \in Point /\ "start" \in Token
  BY DEF Point, Marked, Token
<1>2. <<"start">> \in Seq(Point) /\ <<>> \in Seq(Point)
  BY <1>1, WithinFew
<1>3. stack \in Stacks
  BY <1>2 DEF Init, Stacks
<1>4. \A t \in Thread : stack[t] = IF t = Poller THEN <<"start">> ELSE <<>>
  BY DEF Init
<1>5. ASSUME NEW t \in Thread, NEW i \in 1..Len(stack[t])
      PROVE  t = Poller /\ i = 1 /\ stack[t][i] = "start"
  <2>1. CASE t = Poller
    <3>1. stack[t] = <<"start">>
      BY <1>4, <2>1
    <3>2. Len(stack[t]) = 1 /\ stack[t][1] = "start"
      BY <3>1
    <3> QED BY <2>1, <3>2
  <2>2. CASE t # Poller
    <3>1. stack[t] = <<>>
      BY <1>4, <2>2
    <3>2. Len(stack[t]) = 0
      BY <3>1
    <3> QED BY <3>2
  <2> QED BY <2>1, <2>2
<1>6. Typed
  BY <1>3 DEF Init, Typed, NoItem
<1>7. OnceIn(stack, Token) /\ TokenFirst(stack) /\ OnceIn(stack, Baton)
  BY <1>5 DEF OnceIn, TokenFirst
<1>8. \A S : "start" \notin S => ~SomeIn(stack, S) /\ \A t \in Thread : ~Within(stack[t], S)
  BY <1>5 DEF SomeIn, Within
<1>9. \A t \in Thread : t # Poller => ~Within(stack[t], OfPoller)
  BY <1>5 DEF Within
<1>10. "start" \notin Baton /\ "start" \notin {"pushOne", "pushTwo"} \cup Baton
  BY DEF Baton
<1>11. Starting
  BY ZenonT(30), <1>7, <1>8, <1>9, <1>10 DEF Init, Starting
<1>12. Healthy
  <2>1. Len(sendQueue) = 0 /\ sent = 0 /\ Len(wire) = 0 /\ sendQueue = <<>> /\ ItemSize \in Nat
    BY SessionConstants DEF Init
  <2>2. done = 0
    BY <2>1 DEF done
  <2>3. \A t \in Thread : ~Within(stack[t], {"writeItem", "wrote", "pop"})
    BY <1>8
  <2>4. 0 * ItemSize = 0
    BY <2>1
  <2> QED BY <2>1, <2>2, <2>3, <2>4 DEF Healthy
<1>13. Writing
  BY <1>7, <1>8, <1>10, <1>12 DEF Init, Writing
<1>14. Wires
  BY DEF Init, Wires, InOrder, Entries
<1> QED BY <1>6, <1>11, <1>13, <1>14 DEF SessionInv

\* Every step of every thread keeps it.
LEMMA SessionStep ==
  ASSUME SessionInv, Next
  PROVE  SessionInv'
<1>1. ASSUME NEW t \in Thread, StartSteps(t) PROVE SessionInv'
  <2>1. CASE StartRegisters(t) \/ StartRuns(t)
    BY <2>1, StartSteps1
  <2>2. CASE InitializeTls(t) \/ MarkReady(t)
    BY <2>2, StartSteps2
  <2>3. CASE AbortStartup(t)
    BY <2>3, ClosingSteps
  <2>4. CASE Handshaken(t) \/ CallConnected(t)
    BY <2>4, QuietSteps
  <2>5. CASE DriveTlsHandshake(t, "firstHandshake", "abort")
    BY SMTT(30), <2>5, HandshakeCompletesStep, QuietSteps, ClosingSteps DEF DriveTlsHandshake
  <2>6. CASE DriveTlsHandshake(t, "handshake", "close")
    BY SMTT(30), <2>6, HandshakeCompletesStep, QuietSteps DEF DriveTlsHandshake
  <2> QED BY SMTT(30), <1>1, <2>1, <2>2, <2>3, <2>4, <2>5, <2>6 DEF StartSteps
<1>2. ASSUME NEW t \in Thread, EventSteps(t) \/ TimerSteps(t) PROVE SessionInv'
  BY SMTT(30), <1>2, HandleReadStep, HandleWriteStep, QuietSteps DEF EventSteps
<1>3. ASSUME NEW t \in Thread, CloseSteps(t) PROVE SessionInv'
  BY SMTT(30), <1>3, ClosingSteps, ClearSteps, QuietSteps DEF CloseSteps
<1>4. ASSUME NEW t \in Thread, FlushSteps(t) PROVE SessionInv'
  BY SMTT(30), <1>4, LeavingSteps, DrainStep, WriteItemStep, WriteDanglingStep, WroteStep,
     PopStep, QuietSteps DEF FlushSteps
<1>5. ASSUME NEW t \in Thread, ThreadSteps(t) PROVE SessionInv'
  BY SMTT(30), <1>1, <1>2, <1>3, <1>4, <1>5, PushStep, QuietSteps DEF ThreadSteps
<1>6. ASSUME NEW t \in Thread, UserCalls(t) PROVE SessionInv'
  BY <1>6, SendStep, QuietCalls DEF UserCalls
<1> QED BY SMTT(30), <1>5, <1>6, PollEventsStep, TimerFiresStep DEF Next

\* So does a step that changes nothing of the session.
LEMMA SessionStutters ==
  ASSUME SessionInv, UNCHANGED vars
  PROVE  SessionInv'
<1>1. /\ running' = running /\ ready' = ready /\ socket' = socket /\ tlsState' = tlsState
      /\ sendQueue' = sendQueue /\ flushRunning' = flushRunning /\ offset' = offset /\ stack' = stack
      /\ current' = current /\ sent' = sent /\ wire' = wire /\ promised' = promised
  BY DEF vars, lifeVars, queueVars, threadVars, historyVars
<1>2. Typed' /\ Starting' /\ Wires'
  BY Zenon, <1>1 DEF SessionInv, Typed, Starting, Wires
<1>3. (Healthy => Healthy') /\ (Dead => Dead')
  BY Zenon, <1>1 DEF Healthy, Dead, done
<1>4. Writing'
  BY <1>1, <1>3 DEF SessionInv, Writing
<1> QED BY <1>2, <1>4 DEF SessionInv

\* The inductive invariant of a session, for any number of threads and sends: one thread
\* flushes at a time, nothing is flushed before start() is over, and while close() has not
\* begun the queue is what was sent and is not on the wire.
THEOREM SessionInvariance == Spec => []SessionInv
<1>1. SessionInv /\ [Next]_vars => SessionInv'
  BY SessionStep, SessionStutters
<1> QED BY <1>1, SessionInit, PTL DEF Spec

\* For any number of threads and sends, of any size: what the socket of a session takes
\* are the sends in the order in which send() accepted them, each once and whole, though
\* every sender writes the queue itself; anything else only after close() has begun.
THEOREM SessionKeepsOrder == Spec => []WireInOrder
<1>1. SessionInv => WireInOrder
  BY DEF SessionInv, Wires, InOrder, WireInOrder
<1> QED BY <1>1, SessionInvariance, PTL

\* A step changes the stack of the thread that takes it only, and from its point.
LEMMA OwnStack ==
  ASSUME SessionInv, Next, NEW t \in Thread, At(t, "drain") \/ At(t, "pop"), stack'[t] # stack[t]
  PROVE  Drain(t) \/ Pop(t)
<1>0. stack \in Stacks /\ stack[t] # <<>> /\ Head(stack[t]) \in {"drain", "pop"}
  BY DEF SessionInv, Typed, At
<1>1. \A u \in Thread : \A points : Goto(u, points) => u = t
  BY <1>0 DEF Goto, Stacks
<1>2. \A u \in Thread : \A points : stack' = [stack EXCEPT ![u] = points] => u = t
  BY <1>0 DEF Stacks
<1>3. \A u \in Thread : \A points : ~Calls(u, points)
  BY <1>0, <1>1, <1>2 DEF Calls, InCallback, At
<1>4. \A u \in Thread : ~UserCalls(u)
  BY Zenon, <1>3 DEF UserCalls, Send, CloseAfterPendingWrites, CallClose, UpdateTimeouts
<1>5. \A u \in Thread : ~PollEvents(u)
  BY <1>0, <1>2 DEF PollEvents
<1>6. \A w \in Worker, timer \in {"connection", "read", "write"} : ~TimerFires(w, timer)
  BY <1>0, <1>2 DEF TimerFires, Thread
<1>7. PICK u \in Thread : ThreadSteps(u)
  BY <1>4, <1>5, <1>6 DEF Next
<1>8. ~StartSteps(u)
  BY ZenonT(30), <1>0, <1>1 DEF StartSteps, StartRegisters, StartRuns, InitializeTls, AbortStartup, DriveTlsHandshake,
     HandshakeCompletes, HandshakeWaits, HandshakeFails, HandshakeIsOver, Handshakes, Handshaken, MarkReady,
     CallConnected, Return, At
<1>9. ~EventSteps(u) /\ ~TimerSteps(u)
  BY ZenonT(30), <1>0, <1>1 DEF EventSteps, HandleRead, ReceiveEnds, ReceiveData, ReceiveWouldBlock, ReceiveFails,
     HandleWrite, TimerSteps, TimerCallback, Return, At
<1>10. ~CloseSteps(u)
  BY ZenonT(30), <1>0, <1>1 DEF CloseSteps, Close, CloseUnreadies, CloseClears, ReleaseTls, CloseSocket, CallClosed,
     CloseAgain, CloseAgainClears, Return, At
<1>11. FlushSteps(u) => Drain(t) \/ Pop(t)
  BY ZenonT(30), <1>0, <1>1 DEF FlushSteps, Flush, Drain, WriteItem, WriteDangling, WriteWouldBlock, WriteFails, Blocked,
     Wrote, Pop, Emptied, Drained, StopFlush, Return, At
<1>12. /\ ~Push(u, "pushOne", 1) /\ ~Push(u, "pushTwo", 2) /\ ~ArmConnectionTimer(u) /\ ~ArmWriteTimer(u)
       /\ ~StopWriteTimer(u) /\ ~NothingToCall(u)
  BY Zenon, <1>0, <1>1 DEF Push, ArmConnectionTimer, ArmWriteTimer, StopWriteTimer, NothingToCall, InCallback, Return, At
<1> QED BY Zenon, <1>7, <1>8, <1>9, <1>10, <1>11, <1>12 DEF ThreadSteps

\* For any number of threads and sends: closeAfterPendingWrites() closes the session when
\* the socket has taken every send that was accepted before it was called.
THEOREM ClosesFlushed == Spec => ClosesWhenFlushed
<1> DEFINE Flushed == \A t \in Thread :
               running /\ socket = "open" /\ (At(t, "drain") \/ At(t, "pop")) /\ At(t, "close")'
                   => Len(wire) >= promised * ItemSize
<1>1. ASSUME SessionInv, SessionInv', [Next]_vars PROVE Flushed
  <2> SUFFICES ASSUME NEW t \in Thread, running, socket = "open", At(t, "drain") \/ At(t, "pop"), At(t, "close")'
               PROVE  Len(wire) >= promised * ItemSize
    OBVIOUS
  <2>1. stack'[t] # stack[t]
    BY DEF At
  <2>2. Next
    BY <1>1, <2>1 DEF vars, threadVars
  <2>3. Drain(t) \/ Pop(t)
    BY ZenonT(30), <1>1, <2>1, <2>2, OwnStack
  <2>4. UNCHANGED <<running, socket, wire, sent, promised>>
    BY ZenonT(30), <2>3 DEF Drain, Pop, lifeVars, historyVars
  <2>5. stack \in Stacks /\ stack[t] # <<>> /\ stack'[t] # <<>> /\ Head(stack'[t]) = "close"
    BY Zenon, <1>1 DEF SessionInv, Typed, At
  <2>6. ASSUME NEW a \in {"stopFlush", "drained", "writeItem", "drain"}, Goto(t, <<a>>) PROVE FALSE
    <3>1. a \in Point /\ a # "unlock" /\ a # "close"
      BY DEF Point, Marked, Baton
    <3>2. <<a>> \in Seq(Point) /\ <<a>> # <<>> /\ <<a>>[1] = a
      BY <3>1, WithinFew
    <3>3. Head(stack'[t]) = a
      BY ZenonT(30), <2>5, <2>6, <3>1, <3>2, GotoMoves
    <3> QED BY <2>5, <3>1, <3>3
  <2>7. sendQueue' = <<>>
    <3>1. CASE Drain(t)
      BY <2>6, <3>1 DEF Drain
    <3>2. CASE Pop(t)
      BY Zenon, <2>6, <3>2 DEF Pop
    <3> QED BY SMTT(30), <2>3, <3>1, <3>2
  <2>8. Healthy'
    BY ZenonT(30), <1>1, <2>4 DEF SessionInv, Writing, Dead
  <2>9. Len(wire') = done' * ItemSize + 0 /\ done' = sent' - Len(sendQueue')
    BY Zenon, <2>7, <2>8 DEF Healthy, done
  <2>10. sent \in Nat /\ promised \in 0..sent /\ ItemSize \in Nat
    BY <1>1, SessionConstants DEF SessionInv, Typed
  <2>11. Len(wire) = sent * ItemSize
    <3>1. done' = sent
      BY <2>4, <2>7, <2>9, <2>10
    <3>2. sent * ItemSize \in Nat
      BY <2>10
    <3> QED BY <2>4, <2>9, <3>1, <3>2
  <2>12. sent * ItemSize >= promised * ItemSize
    <3>1. PICK more \in Nat : sent = promised + more
      BY <2>10
    <3>2. sent * ItemSize = promised * ItemSize + more * ItemSize /\ more * ItemSize \in Nat /\ promised * ItemSize \in Nat
      BY <2>10, <3>1
    <3> QED BY <3>2
  <2> QED BY <2>11, <2>12
<1>2. Spec => [][Flushed]_vars
  <2>1. SessionInv /\ SessionInv' /\ [Next]_vars => [Flushed]_vars
    BY <1>1
  <2> QED BY <2>1, SessionInvariance, PTL DEF Spec
<1> QED BY <1>2 DEF ClosesWhenFlushed
=============================================================================
