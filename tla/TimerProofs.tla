---------------------------- MODULE TimerProofs -----------------------------
(* TimerManager, for every number of threads, timers and calls of stop():  *)
(* its invariant, and that it implements TimerService.  Its users, a Timer *)
(* object and the ConnectionTimeoutManager, on any TimerService.           *)
EXTENDS TimerUsers, SequenceTheorems, TLAPS

Members(s) == {s[i] : i \in 1..Len(s)}
Distinct(s) == \A i, j \in 1..Len(s) : s[i] = s[j] => i = j

\* Appending an element adds it to the members.
LEMMA MembersAppend ==
  ASSUME NEW S, NEW s \in Seq(S), NEW e \in S
  PROVE  /\ Append(s, e) \in Seq(S)
         /\ Members(Append(s, e)) = Members(s) \cup {e}
         /\ Distinct(s) /\ e \notin Members(s) => Distinct(Append(s, e))
<1>1. /\ Append(s, e) \in Seq(S) /\ Len(s) \in Nat
      /\ Len(Append(s, e)) = Len(s) + 1
      /\ \A i \in 1..Len(s) : Append(s, e)[i] = s[i]
      /\ Append(s, e)[Len(s) + 1] = e
  BY AppendProperties, LenProperties
<1> QED BY <1>1 DEF Members, Distinct

\* Dropping the head of a sequence without duplicates removes it from the
\* members.
LEMMA MembersTail ==
  ASSUME NEW S, NEW s \in Seq(S), s # <<>>
  PROVE  /\ Tail(s) \in Seq(S) /\ Head(s) \in S /\ Head(s) \in Members(s)
         /\ Distinct(s) => Distinct(Tail(s)) /\ Members(Tail(s)) = Members(s) \ {Head(s)}
<1>1. /\ Tail(s) \in Seq(S) /\ Len(s) \in Nat \ {0}
      /\ Len(Tail(s)) = Len(s) - 1
      /\ \A i \in 1..Len(s) - 1 : Tail(s)[i] = s[i + 1]
      /\ Head(s) = s[1] /\ s[1] \in S
  BY HeadTailProperties, EmptySeq, LenProperties
<1>2. Head(s) \in Members(s)
  BY <1>1 DEF Members
<1>3. ASSUME Distinct(s) PROVE Distinct(Tail(s))
  BY <1>1, <1>3 DEF Distinct
<1>4. ASSUME Distinct(s) PROVE Members(Tail(s)) = Members(s) \ {Head(s)}
  <2>1. ASSUME NEW i \in 1..Len(s) - 1 PROVE s[i + 1] \in Members(s) \ {Head(s)}
    BY <1>1, <1>4, <2>1 DEF Members, Distinct
  <2>2. ASSUME NEW j \in 1..Len(s), s[j] # Head(s) PROVE s[j] \in Members(Tail(s))
    <3>1. j # 1 /\ j - 1 \in 1..Len(Tail(s)) /\ Tail(s)[j - 1] = s[j]
      BY <1>1, <2>2
    <3> QED BY <3>1 DEF Members
  <2>3. ASSUME NEW x \in Members(Tail(s)) PROVE x \in Members(s) \ {Head(s)}
    <3>1. PICK i \in 1..Len(Tail(s)) : x = Tail(s)[i]
      BY <2>3 DEF Members
    <3>2. i \in 1..Len(s) - 1 /\ x = s[i + 1]
      BY <1>1, <3>1
    <3> QED BY <3>2, <2>1
  <2>4. ASSUME NEW x \in Members(s) \ {Head(s)} PROVE x \in Members(Tail(s))
    BY <2>2, <2>4 DEF Members
  <2> QED BY <2>3, <2>4
<1> QED BY <1>1, <1>2, <1>3, <1>4

\* The empty sequence has no members.
LEMMA MembersEmpty == Members(<<>>) = {} /\ Distinct(<<>>)
BY DEF Members, Distinct

-----------------------------------------------------------------------------
(* The invariant, in terms of the members of due.                          *)

Heap == waiting \cup Members(due)

Containers ==
    /\ active = Heap \ cancelled
    /\ Distinct(due) /\ Members(due) \cap waiting = {} /\ entry \notin Heap
    /\ CancelledIsSilent

Names ==
    /\ Heap \cup cancelled \cup fired \cup ({entry} \ {NoTimer}) \subseteq used
    /\ \A c \in Client : adding[c] # NoTimer =>
           adding[c] \in used \ (Heap \cup cancelled \cup fired \cup {entry})
    /\ \A c, d \in Client : adding[c] = adding[d] /\ adding[c] # NoTimer => c = d
    /\ \A t \in fired \ Repeating : t \notin Heap /\ (t = entry => worker = "callback")
    /\ worker \in {"callback", "rearm"} => entry \in fired

Form == TypeOK /\ Containers /\ Names /\ Threads

\* Inv in these terms.
LEMMA InvIsForm == Inv <=> Form
<1>1. InHeap = Heap
  BY DEF InHeap, Heap, Members
<1>2. InOnePlace <=> Distinct(due) /\ Members(due) \cap waiting = {} /\ entry \notin Heap
  BY <1>1 DEF InOnePlace, Distinct, Members
<1> QED BY <1>1, <1>2 DEF Inv, Form, Containers, Names, ActiveExact, Identifiers

\* Initially.
LEMMA InitForm == Init => Form
<1> SUFFICES ASSUME Init PROVE Form
  OBVIOUS
<1>1. due = <<>> /\ waiting = {} /\ Members(due) = {} /\ Distinct(due)
  BY MembersEmpty DEF Init
<1>2. TypeOK
  <2>1. due \in Seq(Timer)
    BY <1>1
  <2>2. adding \in [Client -> Timer \cup {NoTimer}]
    BY DEF Init
  <2>3. stops \in 0..MaxStops
    BY Timers DEF Init
  <2>6. running \in BOOLEAN
    BY Zenon DEF Init
  <2>4. /\ worker \in {"none", "scan", "sleeps", "dozes", "asleep", "dozing", "popped", "callback",
                        "rearm", "exited"}
        /\ owner \in {"out", "join", "clear"}
        /\ entry \in Timer \cup {NoTimer}
        /\ entry # NoTimer <=> worker \in {"popped", "callback", "rearm"}
    BY DEF Init
  <2>5. waiting \subseteq Timer /\ active \subseteq Timer /\ cancelled \subseteq Timer
        /\ used \subseteq Timer /\ fired \subseteq Timer
    BY DEF Init
  <2> QED BY <2>1, <2>2, <2>3, <2>4, <2>5, <2>6 DEF TypeOK
<1>3. Containers /\ Names /\ Threads
  BY <1>1 DEF Init, Containers, Names, Threads, Heap, CancelledIsSilent, StoppedIsSilent
<1> QED BY <1>2, <1>3 DEF Form

\* Clients keep it.
LEMMA ScheduleKeeps ==
  ASSUME Form, NEW c \in Client, NEW t \in Timer, Schedule(c, t)
  PROVE  Form'
<1> USE Timers DEF Form, Schedule, heapVars
<1>1. Heap' = Heap
  BY DEF Heap
<1>0. ~running => worker = "none" /\ entry = NoTimer
  BY DEF TypeOK, Threads, StoppedIsSilent
<1>2. TypeOK'
  BY <1>0 DEF TypeOK
<1>3. Containers'
  BY <1>1 DEF Containers, CancelledIsSilent, TypeOK
<1>4. Names'
  <2>1. Heap \cup cancelled \cup fired \cup ({entry} \ {NoTimer}) \subseteq used'
    BY DEF Names
  <2>2. ASSUME NEW d \in Client, adding'[d] # NoTimer
        PROVE  adding'[d] \in used' \ (Heap \cup cancelled \cup fired \cup {entry})
    BY <2>2 DEF Names, TypeOK
  <2>3. ASSUME NEW d \in Client, NEW e \in Client, adding'[d] = adding'[e], adding'[d] # NoTimer
        PROVE  d = e
    BY <2>3 DEF Names, TypeOK
  <2>4. ASSUME NEW u \in fired \ Repeating
        PROVE  u \notin Heap /\ (u = entry => worker' = "callback")
    BY <1>0 DEF Names, TypeOK
  <2>5. worker' \in {"callback", "rearm"} => entry \in fired
    BY <1>0 DEF Names
  <2> QED BY <1>1, <2>1, <2>2, <2>3, <2>4, <2>5 DEF Names
<1>5. Threads'
  BY DEF Threads, StoppedIsSilent, TypeOK
<1> QED BY <1>2, <1>3, <1>4, <1>5

\* schedule() inserts the timer that it was given.
LEMMA InsertKeeps ==
  ASSUME Form, NEW c \in Client, ScheduleInserts(c)
  PROVE  Form'
<1> USE Timers DEF Form, ScheduleInserts, WorkerNotified
<1>0. adding[c] \in Timer
  BY DEF TypeOK
<1>1. Heap' = Heap \cup {adding[c]} /\ Members(due)' = Members(due)
  BY DEF Heap
<1>2. TypeOK'
  BY <1>0 DEF TypeOK
<1>3. Containers'
  BY <1>0, <1>1 DEF Containers, CancelledIsSilent, Names, Heap, TypeOK
<1>4. Names'
  BY <1>0, <1>1 DEF Names, TypeOK
<1>5. Threads'
  BY DEF Threads, StoppedIsSilent, TypeOK
<1> QED BY <1>2, <1>3, <1>4, <1>5

\* cancel() marks the timer and leaves its entry in the heap.
LEMMA CancelKeeps ==
  ASSUME Form, NEW t \in Timer, CancelTimer(t)
  PROVE  Form'
<1> USE Timers DEF Form, CancelTimer, WorkerNotified
<1>1. Heap' = Heap /\ Members(due)' = Members(due) /\ t \in Heap
  BY DEF Heap, Containers
<1>2. TypeOK'
  BY DEF TypeOK
<1>3. Containers'
  BY <1>1 DEF Containers, CancelledIsSilent, TypeOK
<1>4. Names'
  BY <1>1 DEF Names, TypeOK
<1>5. Threads'
  BY DEF Threads, StoppedIsSilent, TypeOK
<1> QED BY <1>2, <1>3, <1>4, <1>5

\* So does time.
LEMMA ExpiresKeeps ==
  ASSUME Form, NEW t \in Timer, Expires(t)
  PROVE  Form'
<1> USE Timers DEF Form, Expires
<1>1. /\ due' \in Seq(Timer) /\ Members(due') = Members(due) \cup {t} /\ Distinct(due')
      /\ t \in waiting
  BY MembersAppend DEF TypeOK, Containers
<1>2. Heap' = Heap
  BY <1>1 DEF Heap
<1>3. TypeOK'
  BY <1>1 DEF TypeOK
<1>4. Containers'
  BY <1>1, <1>2 DEF Containers, CancelledIsSilent
<1>5. Names'
  BY <1>2 DEF Names
<1>6. Threads'
  BY DEF Threads, StoppedIsSilent
<1> QED BY <1>3, <1>4, <1>5, <1>6

\* The worker's steps keep it.
LEMMA PopFacts ==
  ASSUME Form, NEW t \in Timer, IsTop(t), Popped(t)
  PROVE  /\ due' \in Seq(Timer) /\ waiting' \subseteq Timer
         /\ Heap' = Heap \ {t} /\ t \in Heap
         /\ Distinct(due') /\ Members(due') \cap waiting' = {}
<1> USE DEF Form, Popped, IsTop, Heap
<1>1. CASE due # <<>>
  <2>1. /\ t = Head(due) /\ due' = Tail(due) /\ due \in Seq(Timer)
        /\ Distinct(due) /\ Members(due) \cap waiting = {}
    BY <1>1 DEF TypeOK, Containers
  <2>2. /\ due' \in Seq(Timer) /\ Head(due) \in Members(due)
        /\ Distinct(due') /\ Members(due') = Members(due) \ {t}
    BY <1>1, <2>1, MembersTail
  <2> QED BY <2>1, <2>2 DEF TypeOK
<1>2. CASE due = <<>>
  <2>1. t \in waiting /\ due' = due /\ Members(due) = {}
    BY <1>2, MembersEmpty
  <2> QED BY <2>1 DEF TypeOK, Containers
<1> QED BY <1>1, <1>2

\* The worker drops a cancelled entry from the top of the heap.
LEMMA DropKeeps ==
  ASSUME Form, NEW t \in Timer, WorkerDropsCancelled(t)
  PROVE  Form'
<1> USE DEF Form, WorkerDropsCancelled
<1>1. /\ due' \in Seq(Timer) /\ waiting' \subseteq Timer
      /\ Heap' = Heap \ {t} /\ t \in Heap
      /\ Distinct(due') /\ Members(due') \cap waiting' = {}
  BY PopFacts
<1>2. TypeOK'
  BY <1>1 DEF TypeOK
<1>3. Containers'
  BY <1>1 DEF Containers, CancelledIsSilent
<1>4. Names'
  BY <1>1 DEF Names
<1>5. Threads'
  BY DEF Threads, StoppedIsSilent
<1> QED BY <1>2, <1>3, <1>4, <1>5

\* The worker takes the entry that is due off the heap.
LEMMA PopKeeps ==
  ASSUME Form, NEW t \in Timer, WorkerPops(t)
  PROVE  Form'
<1> USE Timers DEF Form, WorkerPops
<1>1. /\ due' \in Seq(Timer) /\ waiting' \subseteq Timer
      /\ Heap' = Heap \ {t} /\ t \in Heap
      /\ Distinct(due') /\ Members(due') \cap waiting' = {}
  BY PopFacts DEF IsTop
<1>2. TypeOK'
  BY <1>1 DEF TypeOK
<1>3. Containers'
  BY <1>1 DEF Containers, CancelledIsSilent
<1>4. Names'
  BY <1>1 DEF Names, TypeOK
<1>5. Threads'
  BY DEF Threads, StoppedIsSilent
<1> QED BY <1>2, <1>3, <1>4, <1>5

\* Steps that leave the heap alone and end or go on where they are.
LEMMA QuietKeeps ==
  ASSUME Form, WorkerExits \/ WorkerDecidesToSleep \/ WorkerSleeps \/ WorkerWakes
  PROVE  Form'
<1> USE Timers DEF Form, WorkerExits, WorkerDecidesToSleep, WorkerSleeps, WorkerWakes, Locked,
                   heapVars
<1>1. /\ UNCHANGED <<running, owner, waiting, due, active, cancelled, entry, adding, used, fired,
                     stops>>
      /\ worker \in {"scan", "sleeps", "dozes", "dozing"}
      /\ worker' \in {"scan", "exited", "sleeps", "dozes", "asleep", "dozing"}
      /\ worker' = "exited" => ~running
  OBVIOUS
<1>2. Heap' = Heap
  BY <1>1 DEF Heap
<1>3. TypeOK'
  BY <1>1 DEF TypeOK
<1>4. Containers'
  BY <1>1, <1>2 DEF Containers, CancelledIsSilent
<1>5. Names'
  <2>1. entry = NoTimer
    BY <1>1 DEF TypeOK
  <2>2. \A t \in fired : t # entry
    BY <2>1 DEF TypeOK
  <2> QED BY <1>1, <1>2, <2>2 DEF Names
<1>6. Threads'
  BY <1>1 DEF Threads, StoppedIsSilent
<1> QED BY <1>3, <1>4, <1>5, <1>6

\* The worker runs the callback outside the lock.
LEMMA CallKeeps ==
  ASSUME Form, WorkerCalls \/ CallbackReturns
  PROVE  Form'
<1> USE Timers DEF Form, heapVars
<1>1. Heap' = Heap /\ entry \in Timer
  BY DEF Heap, WorkerCalls, CallbackReturns, TypeOK
<1>2. TypeOK'
  BY <1>1 DEF TypeOK, WorkerCalls, CallbackReturns
<1>3. Containers'
  BY <1>1 DEF Containers, CancelledIsSilent, WorkerCalls, CallbackReturns, TypeOK, Names
<1>4. Names'
  <2>1. CASE WorkerCalls
    BY <1>1, <2>1 DEF Names, WorkerCalls, TypeOK, Containers
  <2>2. CASE CallbackReturns
    BY <1>1, <2>2 DEF Names, CallbackReturns, TypeOK
  <2> QED BY <2>1, <2>2
<1>5. Threads'
  BY DEF Threads, StoppedIsSilent, WorkerCalls, CallbackReturns
<1> QED BY <1>2, <1>3, <1>4, <1>5

\* A repeating timer goes back into the heap, unless it was cancelled meanwhile.
LEMMA RearmKeeps ==
  ASSUME Form, WorkerRearms
  PROVE  Form'
<1> USE Timers DEF Form, WorkerRearms
<1>1. entry \in Timer /\ entry \in used /\ entry \notin Heap /\ entry \notin cancelled
  BY DEF TypeOK, Names, Containers, CancelledIsSilent
<1>2. /\ Members(due)' = Members(due) /\ UNCHANGED due
      /\ \/ waiting' = waiting /\ active' = active /\ Heap' = Heap
         \/ waiting' = waiting \cup {entry} /\ active' = active \cup {entry}
            /\ Heap' = Heap \cup {entry}
  BY DEF Heap
<1>3. TypeOK'
  BY <1>1, <1>2 DEF TypeOK
<1>4. Containers'
  BY <1>1, <1>2 DEF Containers, CancelledIsSilent, TypeOK, Heap
<1>5. Names'
  BY <1>1, <1>2 DEF Names, TypeOK
<1>6. Threads'
  BY DEF Threads, StoppedIsSilent
<1> QED BY <1>3, <1>4, <1>5, <1>6

\* stop() keeps it.
LEMMA StopKeeps ==
  ASSUME Form, Stop \/ StopJoins
  PROVE  Form'
<1> USE Timers DEF Form, Stop, StopJoins, WorkerNotified, heapVars
<1>1. Heap' = Heap
  BY DEF Heap
<1>2. TypeOK'
  <2>1. stops' \in 0..MaxStops
    BY DEF TypeOK
  <2>2. running' \in BOOLEAN
    BY Zenon DEF TypeOK
  <2> QED BY <2>1, <2>2 DEF TypeOK
<1>3. Containers'
  BY <1>1 DEF Containers, CancelledIsSilent
<1>4. Names'
  BY <1>1 DEF Names, TypeOK
<1>5. Threads'
  BY DEF Threads, StoppedIsSilent
<1> QED BY <1>2, <1>3, <1>4, <1>5

\* stop() clears the heap once the worker has been joined.
LEMMA ClearKeeps ==
  ASSUME Form, StopClears
  PROVE  Form'
<1> USE Timers DEF Form, StopClears
<1>1. due' = <<>> /\ Heap' = {} /\ Members(due') = {} /\ Distinct(due') /\ due' \in Seq(Timer)
  BY MembersEmpty DEF Heap
<1>2. worker = "none" /\ entry = NoTimer /\ ~running
  BY DEF Threads, TypeOK
<1>3. TypeOK'
  BY <1>1 DEF TypeOK
<1>4. Containers'
  BY <1>1, <1>2 DEF Containers, CancelledIsSilent
<1>5. Names'
  BY <1>1, <1>2 DEF Names, TypeOK, Containers
<1>6. Threads'
  BY <1>2 DEF Threads, StoppedIsSilent
<1> QED BY <1>3, <1>4, <1>5, <1>6

-----------------------------------------------------------------------------
(* The theorems.                                                           *)

\* Every step of the manager and of its users keeps the invariant.
LEMMA FormStep == Form /\ [Next]_vars => Form'
<1> SUFFICES ASSUME Form, [Next]_vars PROVE Form'
  OBVIOUS
<1>1. ASSUME NEW c \in Client, ScheduleInserts(c) PROVE Form'
  BY <1>1, InsertKeeps
<1>2. ASSUME NEW c \in Client, NEW t \in Timer, Schedule(c, t) PROVE Form'
  BY <1>2, ScheduleKeeps
<1>3. ASSUME NEW t \in Timer, CancelTimer(t) PROVE Form'
  BY <1>3, CancelKeeps
<1>4. ASSUME NEW t \in Timer, Expires(t) PROVE Form'
  BY <1>4, ExpiresKeeps
<1>5. ASSUME WorkerSteps PROVE Form'
  <2>1. ASSUME NEW t \in Timer, WorkerDropsCancelled(t) \/ WorkerPops(t) PROVE Form'
    BY <2>1, DropKeeps, PopKeeps
  <2> QED BY <1>5, <2>1, QuietKeeps, CallKeeps, RearmKeeps DEF WorkerSteps
<1>6. ASSUME Stop \/ StopSteps PROVE Form'
  BY Zenon, <1>6, StopKeeps, ClearKeeps DEF StopSteps
<1>7. ASSUME UNCHANGED vars PROVE Form'
  BY <1>7 DEF Form, vars, heapVars, TypeOK, Containers, Names, Threads, Heap, CancelledIsSilent,
              StoppedIsSilent
<1> QED BY <1>1, <1>2, <1>3, <1>4, <1>5, <1>6, <1>7 DEF Next

\* The inductive invariant holds in every reachable state.
THEOREM Invariance == Spec => []Inv
<1>1. Spec => []Form
  BY InitForm, FormStep, PTL DEF Spec
<1> QED BY <1>1, InvIsForm, PTL

\* cancelTimer() and getActiveTimerCount() see the timers that are in the heap
\* and not cancelled, for any number of timers and threads.
THEOREM ContainersAgree == Spec => []ActiveExact
<1>1. Inv => ActiveExact
  BY DEF Inv
<1> QED BY <1>1, Invariance, PTL

\* The callback of a cancelled timer is not called any more.
THEOREM CancelledStaysSilent == Spec => []CancelledIsSilent
<1>1. Inv => CancelledIsSilent
  BY DEF Inv
<1> QED BY <1>1, Invariance, PTL

\* No callback runs after stop() has returned.
THEOREM StoppedStaysSilent == Spec => []StoppedIsSilent
<1>1. Inv => StoppedIsSilent
  BY DEF Inv, Threads
<1> QED BY <1>1, Invariance, PTL

\* The callback of addTimer() is called at most once.
THEOREM OneShotsFireOnce == Spec => OneShotOnce
<1>1. Form /\ [Next]_vars => [worker = "popped" /\ worker' = "callback" /\ entry \notin Repeating
                                => entry \notin fired]_vars
  BY DEF Form, Names
<1>2. Spec => []Form
  BY InvIsForm, Invariance, PTL
<1> QED BY <1>1, <1>2, PTL DEF Spec, OneShotOnce

-----------------------------------------------------------------------------
(* TimerManager implements TimerService.                                   *)

\* Every step is a step of TimerService, or changes nothing there.
LEMMA ServiceStep == Form /\ [Next]_vars => [Service!Next]_(Service!vars)
<1> SUFFICES ASSUME Form, [Next]_vars PROVE [Service!Next]_(Service!vars)
  OBVIOUS
<1> USE DEF Service!Next, Service!vars
<1>1. ASSUME NEW c \in Client, ScheduleInserts(c) PROVE Service!Arm(adding[c]) /\ adding[c] \in Timer
  BY <1>1 DEF Form, ScheduleInserts, WorkerNotified, Service!Arm, Names, Containers, TypeOK
<1>2. ASSUME NEW c \in Client, NEW t \in Timer, Schedule(c, t) PROVE UNCHANGED Service!vars
  BY <1>2 DEF Form, Schedule, heapVars, Threads, StoppedIsSilent
<1>3. ASSUME NEW t \in Timer, CancelTimer(t) PROVE Service!Cancel(t)
  BY <1>3 DEF CancelTimer, WorkerNotified, Service!Cancel
<1>4. ASSUME NEW t \in Timer, Expires(t) PROVE UNCHANGED Service!vars
  BY <1>4 DEF Expires
<1>5. ASSUME NEW t \in Timer, WorkerPops(t) PROVE Service!Fire(t)
  BY <1>5 DEF Form, WorkerPops, Service!Fire, Containers, Heap, TypeOK, Members
<1>6. ASSUME WorkerCalls PROVE UNCHANGED Service!vars \/ Service!Done(entry)
  BY <1>6 DEF WorkerCalls, heapVars, Service!Done
<1>7. ASSUME CallbackReturns PROVE UNCHANGED Service!vars \/ Service!Done(entry)
  BY <1>7 DEF CallbackReturns, heapVars, Service!Done
<1>8. ASSUME WorkerRearms PROVE Service!Rearm(entry) \/ Service!Done(entry)
  BY <1>8 DEF WorkerRearms, Form, Names, Service!Rearm, Service!Done
<1>9. ASSUME NEW t \in Timer, WorkerDropsCancelled(t) PROVE UNCHANGED Service!vars
  BY <1>9 DEF WorkerDropsCancelled
<1>10. ASSUME WorkerExits \/ WorkerDecidesToSleep \/ WorkerSleeps \/ WorkerWakes
       PROVE  UNCHANGED Service!vars
  BY <1>10 DEF WorkerExits, WorkerDecidesToSleep, WorkerSleeps, WorkerWakes, Locked, heapVars
<1>11. ASSUME Stop \/ StopJoins PROVE UNCHANGED Service!vars
  BY <1>11 DEF Stop, StopJoins, WorkerNotified, heapVars
<1>12. ASSUME StopClears PROVE Service!Clear
  BY <1>12 DEF Form, Threads, StopClears, Service!Clear
<1>13. ASSUME UNCHANGED vars PROVE UNCHANGED Service!vars
  BY <1>13 DEF vars, heapVars
<1>14. WorkerCalls \/ CallbackReturns \/ WorkerRearms => entry \in Timer
  BY DEF WorkerCalls, CallbackReturns, WorkerRearms, Form, TypeOK
<1>15. ASSUME WorkerSteps PROVE [Service!Next]_(Service!vars)
  <2>1. ASSUME WorkerCalls \/ CallbackReturns \/ WorkerRearms PROVE [Service!Next]_(Service!vars)
    BY <2>1, <1>6, <1>7, <1>8, <1>14
  <2>2. ASSUME NEW t \in Timer, WorkerDropsCancelled(t) \/ WorkerPops(t)
        PROVE  [Service!Next]_(Service!vars)
    BY <2>2, <1>5, <1>9
  <2> QED BY <1>10, <1>15, <2>1, <2>2 DEF WorkerSteps
<1>16. ASSUME Stop \/ StopSteps PROVE [Service!Next]_(Service!vars)
  BY <1>11, <1>12, <1>16 DEF StopSteps
<1>17. ASSUME NEW c \in Client, ScheduleInserts(c) \/ \E t \in Timer : Schedule(c, t)
       PROVE  [Service!Next]_(Service!vars)
  BY <1>1, <1>2, <1>17
<1>18. ASSUME NEW t \in Timer, CancelTimer(t) \/ Expires(t) PROVE [Service!Next]_(Service!vars)
  BY <1>3, <1>4, <1>18
<1> QED BY <1>13, <1>15, <1>16, <1>17, <1>18 DEF Next

\* TimerManager implements TimerService: what its users can rely on does not
\* depend on threads, sleeping, the heap or when stop() is called.
THEOREM Refinement == Spec => ImplementsTimerService
<1>1. Init => Service!Init
  BY Zenon DEF Init, Service!Init
<1>2. Spec => []Form
  BY InvIsForm, Invariance, PTL
<1> QED BY <1>1, <1>2, ServiceStep, PTL DEF Spec, ImplementsTimerService, Service!Spec

-----------------------------------------------------------------------------
(* Repeating timers can be cancelled.                                      *)

\* Before the first stop() the worker has no reason to drop a timer.
NeverStopped ==
    /\ owner # "out" => stops > 0
    /\ stops = 0 /\ worker # "none" => running
    /\ RepeatingCancellable

\* Every step keeps that.
LEMMA NeverStoppedStep == Form /\ NeverStopped /\ [Next]_vars => NeverStopped'
<1> SUFFICES ASSUME Form, NeverStopped, [Next]_vars PROVE NeverStopped'
  OBVIOUS
<1> USE DEF NeverStopped, RepeatingCancellable, heapVars, WorkerNotified
<1>0. stops \in Nat /\ adding \in [Client -> Timer \cup {NoTimer}]
  BY Timers DEF Form, TypeOK
<1>1. ASSUME NEW c \in Client, ScheduleInserts(c) PROVE NeverStopped'
  BY <1>0, <1>1 DEF ScheduleInserts
<1>2. ASSUME NEW c \in Client, NEW t \in Timer, Schedule(c, t) PROVE NeverStopped'
  <2>1. ASSUME NEW d \in Client, adding[d] # NoTimer PROVE adding'[d] = adding[d]
    BY <1>0, <1>2, <2>1 DEF Schedule
  <2>2. adding'[c] = t /\ used' = used \cup {t} /\ NoTimer \notin Repeating
    BY Zenon, <1>0, <1>2, Timers DEF Schedule
  <2> QED BY <1>2, <2>1, <2>2 DEF Schedule
<1>3. ASSUME NEW t \in Timer, CancelTimer(t) PROVE NeverStopped'
  BY <1>3 DEF CancelTimer
<1>4. ASSUME NEW t \in Timer, Expires(t) PROVE NeverStopped'
  BY Zenon, <1>4 DEF Expires
<1>5. ASSUME NEW t \in Timer, WorkerDropsCancelled(t) \/ WorkerPops(t) PROVE NeverStopped'
  <2>1. CASE WorkerDropsCancelled(t)
    BY Zenon, <2>1 DEF WorkerDropsCancelled
  <2>2. CASE WorkerPops(t)
    <3>1. entry = NoTimer /\ NoTimer \notin Repeating
      BY Zenon, <2>2, Timers DEF WorkerPops, Form, TypeOK
    <3> QED BY Zenon, <2>2, <3>1 DEF WorkerPops
  <2> QED BY Zenon, <1>5, <2>1, <2>2
<1>6. ASSUME WorkerExits \/ WorkerDecidesToSleep \/ WorkerSleeps \/ WorkerWakes PROVE NeverStopped'
  BY <1>6 DEF WorkerExits, WorkerDecidesToSleep, WorkerSleeps, WorkerWakes, Locked
<1>7. ASSUME WorkerCalls PROVE NeverStopped'
  BY <1>7 DEF WorkerCalls
<1>8. ASSUME CallbackReturns PROVE NeverStopped'
  BY <1>8 DEF CallbackReturns
<1>9. ASSUME WorkerRearms PROVE NeverStopped'
  BY Zenon, <1>9 DEF WorkerRearms
<1>10. ASSUME Stop \/ StopSteps PROVE NeverStopped'
  BY <1>0, <1>10 DEF Stop, StopSteps, StopJoins, StopClears
<1>11. ASSUME UNCHANGED vars PROVE NeverStopped'
  BY <1>11 DEF vars
<1> QED BY Zenon, <1>1, <1>2, <1>3, <1>4, <1>5, <1>6, <1>7, <1>8, <1>9, <1>10, <1>11 DEF Next, WorkerSteps

\* cancelTimer() finds every repeating timer that was added and not cancelled, until
\* the manager is stopped.
THEOREM RepeatingStayCancellable == Spec => []RepeatingCancellable
<1>1. Init => NeverStopped
  BY DEF Init, NeverStopped, RepeatingCancellable
<1>2. NeverStopped => RepeatingCancellable
  BY DEF NeverStopped
<1>3. Spec => []Form
  BY InvIsForm, Invariance, PTL
<1> QED BY <1>1, <1>2, <1>3, NeverStoppedStep, PTL DEF Spec

-----------------------------------------------------------------------------
(* A Timer object.                                                         *)

\* Every step of the owner, the timer thread and the workers keeps its invariant.
LEMMA ObjectStep == Object!ObjectInv /\ [Object!ObjectNext]_(Object!allVars) => Object!ObjectInv'
<1> SUFFICES ASSUME Object!ObjectInv, [Object!ObjectNext]_(Object!allVars) PROVE Object!ObjectInv'
  OBVIOUS
<1> USE Timers DEF Object!ObjectInv, Object!Fresh, Object!RunningUntilCalled, Object!OneArmed,
        Object!vars, Object!objectVars
<1>1. ASSUME NEW next, Object!StopToken(next), next \in {"cancel", "restart"}
      PROVE  Object!ObjectInv'
  BY Zenon, <1>1 DEF Object!StopToken
<1>2. ASSUME Object!StopCancels PROVE Object!ObjectInv'
  BY <1>2 DEF Object!StopCancels, Object!Cancel
<1>3. ASSUME NEW t \in Timer, Object!Start(t) PROVE Object!ObjectInv'
  BY <1>3 DEF Object!Start, Object!Arm
<1>4. ASSUME NEW t \in Timer, Object!TimerFires(t) PROVE Object!ObjectInv'
  BY Zenon, <1>4 DEF Object!TimerFires, Object!Fire
<1>5. ASSUME NEW t \in Timer, Object!Invoke(t) PROVE Object!ObjectInv'
  BY Zenon, <1>5 DEF Object!Invoke
<1>6. ASSUME NEW t \in Timer, Object!TimerDone(t) PROVE Object!ObjectInv'
  BY <1>6 DEF Object!TimerDone, Object!Rearm, Object!Done
<1>7. ASSUME NEW w \in Worker, NEW t \in Timer, Object!RunTask(w, t) PROVE Object!ObjectInv'
  BY <1>7 DEF Object!RunTask
<1>8. ASSUME NEW w \in Worker, Object!CallbackEnds(w) PROVE Object!ObjectInv'
  BY Zenon, <1>8 DEF Object!CallbackEnds
<1>9. ASSUME UNCHANGED Object!allVars PROVE Object!ObjectInv'
  BY <1>9 DEF Object!allVars
<1> HIDE DEF Object!ObjectInv
<1> QED BY Zenon, <1>1, <1>2, <1>3, <1>4, <1>5, <1>6, <1>7, <1>8, <1>9
        DEF Object!ObjectNext, Object!OwnerGoesOn, Object!TimerThread, Object!WorkerThread

\* The invariant of a Timer object holds whatever its owner, the timer thread and any
\* number of IoService threads do.
LEMMA ObjectInvariance == Object!ObjectSpec => []Object!ObjectInv
<1>1. Object!ObjectInit => Object!ObjectInv
  BY Timers DEF Object!ObjectInit, Object!Init, Object!ObjectInv, Object!Fresh,
     Object!RunningUntilCalled, Object!OneArmed
<1> QED BY <1>1, ObjectStep, PTL DEF Object!ObjectSpec

\* Only the last start() calls back, and only while no stop() has begun, whatever tasks
\* of earlier starts the IoService threads still take.
THEOREM LastStartOnly == Object!ObjectSpec => OnlyTheLastStart
<1> DEFINE A == \A w \in Worker : calling'[w] # calling[w] /\ calling'[w] # NoTimer
                  => calling'[w] = timerId /\ holder = "out"
<1>1. ASSUME Object!ObjectInv, [Object!ObjectNext]_(Object!allVars) PROVE [A]_(Object!allVars)
  <2> SUFFICES ASSUME NEW v \in Worker, calling'[v] # calling[v], calling'[v] # NoTimer
               PROVE  calling'[v] = timerId /\ holder = "out"
    OBVIOUS
  <2>0. calling \in [Worker -> Timer \cup {NoTimer}]
    BY Zenon, <1>1 DEF Object!ObjectInv
  <2>1. PICK w \in Worker : Object!WorkerThread(w)
    BY <1>1 DEF Object!ObjectNext, Object!StopToken, Object!OwnerGoesOn, Object!StopCancels,
       Object!Start, Object!TimerThread, Object!TimerFires, Object!Invoke, Object!TimerDone,
       Object!allVars
  <2>2. PICK t \in Timer : Object!RunTask(w, t)
    BY <2>0, <2>1 DEF Object!WorkerThread, Object!CallbackEnds
  <2>3. calling' = [calling EXCEPT ![w] = t] /\ tokenOf[t] \in live
    BY <2>2 DEF Object!RunTask
  <2> QED BY Zenon, <1>1, <2>0, <2>3, Timers DEF Object!ObjectInv
<1> QED BY <1>1, ObjectInvariance, PTL DEF Object!ObjectSpec, OnlyTheLastStart, Object!OnlyTheLastStart

-----------------------------------------------------------------------------
(* The ConnectionTimeoutManager, and all three.                            *)

\* Every step of its callers and of the timer thread keeps its invariant.
LEMMA TimeoutsStep ==
  Timeouts!TimeoutsInv /\ [Timeouts!TimeoutsNext]_(Timeouts!allVars) => Timeouts!TimeoutsInv'
<1> SUFFICES ASSUME Timeouts!TimeoutsInv, [Timeouts!TimeoutsNext]_(Timeouts!allVars)
             PROVE  Timeouts!TimeoutsInv'
  OBVIOUS
<1> USE Timers, Connections DEF Timeouts!TimeoutsInv, Timeouts!OneTimerEach, Timeouts!vars,
        Timeouts!Fresh, Timeouts!CancelTimer, Timeouts!Cancel
<1>1. ASSUME NEW c \in Conn, Timeouts!Replace(c) PROVE Timeouts!TimeoutsInv'
  BY <1>1 DEF Timeouts!Replace
<1>2. ASSUME NEW c \in Conn, Timeouts!RemoveConnection(c) PROVE Timeouts!TimeoutsInv'
  BY <1>2 DEF Timeouts!RemoveConnection
<1>3. ASSUME NEW t \in Timer, Timeouts!Add(t) PROVE Timeouts!TimeoutsInv'
  BY <1>3 DEF Timeouts!Add, Timeouts!Arm
<1>4. ASSUME NEW t \in Timer, Timeouts!TimerFires(t) PROVE Timeouts!TimeoutsInv'
  BY <1>4 DEF Timeouts!TimerFires, Timeouts!Fire
<1>5. ASSUME NEW t \in Timer, Timeouts!TimesOut(t) PROVE Timeouts!TimeoutsInv'
  BY <1>5 DEF Timeouts!TimesOut, Timeouts!Done
<1>6. ASSUME UNCHANGED Timeouts!allVars PROVE Timeouts!TimeoutsInv'
  BY <1>6 DEF Timeouts!allVars
<1> HIDE DEF Timeouts!TimeoutsInv
<1> QED BY Zenon, <1>1, <1>2, <1>3, <1>4, <1>5, <1>6 DEF Timeouts!TimeoutsNext, Timeouts!Adding

\* Cancelling finds what it should, a Timer and a connection have one timer armed, the
\* one that stopping or refreshing cancels, and isRunning() tells the truth, for any
\* number of threads, timers, starts and connections.
THEOREM TimersStayExact == UsersSpec => []TimersExact
<1>1. Timeouts!TimeoutsInit => Timeouts!TimeoutsInv
  BY DEF Timeouts!TimeoutsInit, Timeouts!Init, Timeouts!TimeoutsInv, Timeouts!OneTimerEach
<1>2. Timeouts!TimeoutsSpec => []Timeouts!TimeoutsInv
  BY <1>1, TimeoutsStep, PTL DEF Timeouts!TimeoutsSpec
<1>3. RepeatingCancellable /\ Object!ObjectInv /\ Timeouts!TimeoutsInv => TimersExact
  BY DEF TimersExact, Object!ObjectInv, Timeouts!TimeoutsInv
<1> QED BY <1>2, <1>3, RepeatingStayCancellable, ObjectInvariance, PTL DEF UsersSpec
=============================================================================
