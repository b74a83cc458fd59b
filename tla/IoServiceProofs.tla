-------------------------- MODULE IoServiceProofs --------------------------
(* Proofs, for any number of threads and tasks, of IoService's safety. *)
EXTENDS IoService, QueueFacts

USE DEF postVars, wakeVars, pollVars, shareVars, workVars, ownVars

\* What std::min returns in drainUpTo and takeSharedTasks.
LEMMA NatSmaller ==
  ASSUME NEW a \in Nat, NEW b \in Nat
  PROVE  /\ Smaller(a, b) \in Nat /\ Smaller(a, b) <= a /\ Smaller(a, b) <= b
         /\ a > 0 /\ b > 0 => Smaller(a, b) > 0
BY DEF Smaller

\* Types of the queues and what is left of them.
LEMMA QueueTypes ==
  ASSUME Inv
  PROVE  /\ Unread = Rest(sharedTasks, sharedReadIdx)
         /\ sharedReadIdx \in 0..Len(sharedTasks)
         /\ Unread \in Seq(Task)
         /\ Len(Unread) = Len(sharedTasks) - sharedReadIdx /\ Len(Unread) \in Nat
         /\ Len(sharedTasks) \in Nat /\ Len(local) \in Nat /\ Len(mailbox) \in Nat
<1>1. sharedTasks \in Seq(Task) /\ local \in Seq(Task) /\ mailbox \in Seq(Task)
  BY DEF Inv, TypeOK, QueuesOK
<1>2. Len(sharedTasks) \in Nat /\ Len(local) \in Nat /\ Len(mailbox) \in Nat
  BY <1>1, SeqType
<1>3. sharedReadIdx \in 0..Len(sharedTasks)
  BY <1>2 DEF Inv, TypeOK, QueuesOK
<1>4. Unread = Rest(sharedTasks, sharedReadIdx)
  BY DEF Unread, Rest
<1>5. Unread \in Seq(Task) /\ Len(Unread) = Len(sharedTasks) - sharedReadIdx
  BY <1>1, <1>3, <1>4, RestType
<1> QED BY <1>2, <1>3, <1>4, <1>5

\* A service that was never started satisfies the invariant.
LEMMA InitInv == Init => Inv
<1> SUFFICES ASSUME Init PROVE Inv
  OBVIOUS
<1>1. TypeOK
  <2>1. ControlOK
    BY Distinct DEF Init, ControlOK, Thread, PosterLabel, PollerLabel, WorkerLabel, OwnerLabel
  <2>2. QueuesOK
    BY PosNat DEF Init, QueuesOK
  <2>3. FlagsOK
    BY Zenon DEF Init, FlagsOK
  <2>4. CountersOK
    BY PosNat DEF Init, CountersOK
  <2> QED BY <2>1, <2>2, <2>3, <2>4 DEF TypeOK
<1>2. Unread = <<>> /\ Len(Unread) = 0
  BY SeqCutNone DEF Init, Unread
<1>3. HandOverInOrder
  BY <1>2 DEF Init, HandOverInOrder
<1>4. AvailableCountExact
  BY <1>2, PosNat, Distinct DEF Init, AvailableCountExact, Thread
<1> QED BY <1>1, <1>3, <1>4, Distinct DEF Init, Inv, Thread

\* A thread that moves to one of its own labels keeps the control well typed.
LEMMA GotoOK ==
  ASSUME ControlOK, NEW t, NEW l, Goto(t, l),
         \/ t \in Poster /\ l \in PosterLabel
         \/ t \in Worker /\ l \in WorkerLabel
         \/ t = Poller /\ l \in PollerLabel
         \/ t = Owner /\ l \in OwnerLabel
  PROVE  ControlOK'
BY Distinct DEF ControlOK, Goto, Thread

\* So does a step in which no thread moves.
LEMMA SameControl == ControlOK /\ UNCHANGED pc => ControlOK'
BY DEF ControlOK

\* Every label a thread moves to is one of its labels.
LEMMA ControlStep == Inv /\ [Next]_vars => ControlOK'
<1> SUFFICES ASSUME Inv, [Next]_vars PROVE ControlOK'
  OBVIOUS
<1>0. ControlOK
  BY DEF Inv, TypeOK
<1>1. ASSUME NEW p \in Poster, PushExchange(p) \/ PosterStep(p) PROVE ControlOK'
  <2>1. PICK l \in PosterLabel : Goto(p, l)
    BY <1>1, Distinct DEF PushExchange, PosterStep, PushLink, PostCount, PostStarted, Wakeup,
                          WakeFd, WakeCas, WakeWrite, Return, PosterLabel
  <2> QED BY Zenon, <1>0, <2>1, GotoOK
<1>2. CASE PollerStep \/ PollEvents \/ FlushBuffer
  <2>1. CASE FlushBuffer
    BY <1>0, <2>1, SameControl DEF FlushBuffer
  <2>2. CASE DrainUpTo
    <3>1. PICK l \in PollerLabel : Goto(Poller, l)
      BY ZenonT(30), <2>2 DEF DrainUpTo, AfterDrain, PollerLabel
    <3> QED BY <1>0, <3>1, GotoOK
  <2>3. CASE ~(FlushBuffer \/ DrainUpTo)
    <3>1. PICK l \in PollerLabel : Goto(Poller, l)
      BY <1>2, <2>3 DEF PollerStep, LoopTest, AppendShared, CountAvailable, NotifyWorkers,
         DecideTimeout, PollWoken, PollTimeout, ClearPending, PollEvents, AfterDrain, PollerLabel
    <3> QED BY <1>0, <3>1, GotoOK
  <2> QED BY <2>1, <2>2, <2>3
<1>3. ASSUME NEW w \in Worker, WorkerStep(w) \/ SpuriousWake(w) PROVE ControlOK'
  <2>1. CASE RunTask(w) \/ SpuriousWake(w)
    BY <1>0, <2>1, SameControl DEF RunTask, SpuriousWake
  <2>2. CASE TakeShared(w)
    <3>1. PICK l \in WorkerLabel : Goto(w, l)
      BY Zenon, <2>2 DEF TakeShared, WorkerLabel
    <3> QED BY <1>0, <3>1, GotoOK
  <2>3. CASE ~(RunTask(w) \/ SpuriousWake(w) \/ TakeShared(w))
    <3>1. PICK l \in WorkerLabel : Goto(w, l)
      BY <1>3, <2>3 DEF WorkerStep, BatchDone, TestRunning, LockMutex, PredTasks, PredRunning,
                        WaitOnCond, WorkerLabel
    <3> QED BY <1>0, <3>1, GotoOK
  <2> QED BY ZenonT(30), <2>1, <2>2, <2>3
<1>4. ASSUME NEW ws \in SUBSET Worker, NEW p \in BOOLEAN, Start(ws, p) PROVE ControlOK'
  <2> USE <1>0, Distinct DEF ControlOK, Thread, PosterLabel, PollerLabel, WorkerLabel, OwnerLabel
  <2>1. CASE p
    BY <1>4, <2>1 DEF Start
  <2>2. CASE ~p
    BY <1>4, <2>2 DEF Start
  <2> QED BY Zenon, <2>1, <2>2
<1>5. ASSUME NEW call \in OwnerCalls, Stop(call) PROVE ControlOK'
  BY <1>0, <1>5, GotoOK DEF Stop, OwnerLabel
<1>6. CASE OwnerStep
  <2>1. CASE JoinThreads
    BY <1>0, <2>1, Distinct DEF JoinThreads, ControlOK, Thread, PosterLabel, PollerLabel,
                                WorkerLabel, OwnerLabel
  <2>2. CASE ~JoinThreads
    <3>1. PICK l \in OwnerLabel : Goto(Owner, l)
      BY <1>6, <2>2 DEF OwnerStep, Rollback, NotifyAll, Wakeup, WakeFd, WakeCas, WakeWrite,
                        Return, OwnerLabel
    <3> QED BY Zenon, <1>0, <3>1, GotoOK
  <2> QED BY <2>1, <2>2
<1>7. CASE UNCHANGED vars
  BY Zenon, <1>0, <1>7, SameControl DEF vars
<1> QED BY Zenon, <1>1, <1>2, <1>3, <1>4, <1>5, <1>6, <1>7 DEF Next

\* The flags stay Boolean, the mutex and the wait set hold workers only.
LEMMA FlagsStep == Inv /\ [Next]_vars => FlagsOK'
<1> SUFFICES ASSUME Inv, [Next]_vars PROVE FlagsOK'
  OBVIOUS
<1>0. FlagsOK
  BY DEF Inv, TypeOK
<1>1. ASSUME NEW t, Wakeup(t) PROVE FlagsOK'
  <2>1. CASE WakeFd(t)
    BY <1>0, <2>1, Zenon DEF FlagsOK, WakeFd
  <2>2. CASE WakeCas(t)
    BY <1>0, <2>2, Zenon DEF FlagsOK, WakeCas
  <2>3. CASE WakeWrite(t)
    BY <1>0, <2>3, Zenon DEF FlagsOK, WakeWrite
  <2> QED BY <1>1, <2>1, <2>2, <2>3 DEF Wakeup
<1>2. ASSUME NEW p \in Poster, PushExchange(p) \/ PosterStep(p) PROVE FlagsOK'
  <2>1. CASE PushExchange(p)
    BY <1>0, <2>1, Zenon DEF FlagsOK, PushExchange
  <2>2. CASE PushLink(p)
    BY <1>0, <2>2, Zenon DEF FlagsOK, PushLink
  <2>3. CASE PostCount(p)
    BY <1>0, <2>3, Zenon DEF FlagsOK, PostCount
  <2>4. CASE PostStarted(p)
    BY <1>0, <2>4, ZenonT(30) DEF FlagsOK, PostStarted
  <2> QED BY <1>1, <1>2, <2>1, <2>2, <2>3, <2>4 DEF PosterStep
<1>3. CASE PollerStep \/ PollEvents \/ FlushBuffer
  <2>1. CASE LoopTest
    BY <1>0, <2>1, Zenon DEF FlagsOK, LoopTest
  <2>2. CASE DrainUpTo
    BY <1>0, <2>2, Zenon DEF FlagsOK, DrainUpTo
  <2>3. CASE AppendShared
    BY <1>0, <2>3, Zenon DEF FlagsOK, AppendShared
  <2>4. CASE CountAvailable
    BY <1>0, <2>4, Zenon DEF FlagsOK, CountAvailable
  <2>5. CASE NotifyWorkers
    <3>1. asleep' \subseteq Worker
      BY <1>0, <2>5, Zenon DEF FlagsOK, NotifyWorkers
    <3> QED BY <1>0, <2>5, <3>1, Zenon DEF FlagsOK, NotifyWorkers
  <2>6. CASE DecideTimeout
    BY <1>0, <2>6, Zenon DEF FlagsOK, DecideTimeout
  <2>7. CASE PollWoken
    BY <1>0, <2>7, Zenon DEF FlagsOK, PollWoken
  <2>8. CASE PollTimeout
    BY <1>0, <2>8, Zenon DEF FlagsOK, PollTimeout
  <2>9. CASE ClearPending
    BY <1>0, <2>9, ZenonT(30) DEF FlagsOK, ClearPending
  <2>10. CASE PollEvents
    BY <1>0, <2>10, Zenon DEF FlagsOK, PollEvents
  <2>11. CASE FlushBuffer
    BY <1>0, <2>11, Zenon DEF FlagsOK, FlushBuffer
  <2> QED BY Zenon, <1>3, <2>1, <2>2, <2>3, <2>4, <2>5, <2>6, <2>7, <2>8, <2>9, <2>10, <2>11
          DEF PollerStep
<1>4. ASSUME NEW w \in Worker, WorkerStep(w) \/ SpuriousWake(w) PROVE FlagsOK'
  <2>1. CASE TakeShared(w)
    BY <1>0, <2>1, Zenon DEF FlagsOK, TakeShared
  <2>2. CASE RunTask(w)
    BY <1>0, <2>2, Zenon DEF FlagsOK, RunTask
  <2>3. CASE BatchDone(w)
    BY <1>0, <2>3, Zenon DEF FlagsOK, BatchDone
  <2>4. CASE TestRunning(w)
    BY <1>0, <2>4, Zenon DEF FlagsOK, TestRunning
  <2>5. CASE LockMutex(w)
    BY <1>0, <2>5, Zenon DEF FlagsOK, LockMutex
  <2>6. CASE PredTasks(w)
    BY <1>0, <2>6, Zenon DEF FlagsOK, PredTasks
  <2>7. CASE PredRunning(w)
    BY <1>0, <2>7, Zenon DEF FlagsOK, PredRunning
  <2>8. CASE WaitOnCond(w)
    BY <1>0, <2>8, Zenon DEF FlagsOK, WaitOnCond
  <2>9. CASE SpuriousWake(w)
    BY <1>0, <2>9, Zenon DEF FlagsOK, SpuriousWake
  <2> QED BY <1>4, <2>1, <2>2, <2>3, <2>4, <2>5, <2>6, <2>7, <2>8, <2>9 DEF WorkerStep
<1>5. ASSUME NEW ws \in SUBSET Worker, NEW p \in BOOLEAN, Start(ws, p) PROVE FlagsOK'
  BY <1>0, <1>5, Zenon DEF FlagsOK, Start
<1>6. ASSUME NEW call \in OwnerCalls, Stop(call) PROVE FlagsOK'
  BY <1>0, <1>6, PosNat, Zenon DEF FlagsOK, Stop
<1>7. CASE OwnerStep
  <2>1. CASE Rollback
    BY <1>0, <2>1, Zenon DEF FlagsOK, Rollback
  <2>2. CASE NotifyAll
    BY <1>0, <2>2, Zenon DEF FlagsOK, NotifyAll
  <2>3. CASE JoinThreads
    BY <1>0, <2>3, Zenon DEF FlagsOK, JoinThreads
  <2> QED BY <1>1, <1>7, <2>1, <2>2, <2>3 DEF OwnerStep
<1>8. CASE UNCHANGED vars
  BY <1>0, <1>8, ZenonT(30) DEF FlagsOK, vars
<1> QED BY Zenon, <1>2, <1>3, <1>4, <1>5, <1>6, <1>7, <1>8 DEF Next

\* The counters stay within the width of size_t and within their bounds.
LEMMA CountersStep == Inv /\ [Next]_vars => CountersOK'
<1> SUFFICES ASSUME Inv, [Next]_vars PROVE CountersOK'
  OBVIOUS
<1>0. CountersOK /\ drained \in Nat /\ SizeMod \in Nat \ {0} /\ MaxSpin \in Nat /\ MaxStarts \in Nat
  BY PosNat DEF Inv, TypeOK, QueuesOK
<1>1. ASSUME NEW n \in Int PROVE n % SizeMod \in 0..SizeMod - 1
  BY ZenonT(30), <1>0, ModType
<1>2. CASE \E p \in Poster : PushExchange(p) \/ PosterStep(p)
  <2>1. (pendingCount + 1) % SizeMod \in 0..SizeMod - 1
    BY <1>0, <1>1 DEF CountersOK
  <2> QED BY <1>0, <1>2, <2>1 DEF CountersOK, PushExchange, PosterStep, PushLink, PostCount,
              PostStarted, Wakeup, WakeFd, WakeCas, WakeWrite
<1>3. CASE PollerStep \/ PollEvents \/ FlushBuffer
  <2>1. (availableTaskCount + drained) % SizeMod \in 0..SizeMod - 1
    BY <1>0, <1>1 DEF CountersOK
  <2>2. CASE DrainUpTo \/ NotifyWorkers
    BY Zenon, <1>0, <2>2 DEF CountersOK, DrainUpTo, NotifyWorkers
  <2>3. CASE CountAvailable
    BY <1>0, <2>1, <2>3 DEF CountersOK, CountAvailable
  <2>4. CASE DecideTimeout
    BY <1>0, <2>4 DEF CountersOK, DecideTimeout, Smaller
  <2>5. CASE LoopTest \/ AppendShared \/ PollWoken \/ PollTimeout \/ ClearPending \/ PollEvents
             \/ FlushBuffer
    BY SMTT(30), <1>0, <2>5 DEF CountersOK, LoopTest, AppendShared, PollWoken, PollTimeout, ClearPending,
                      PollEvents, FlushBuffer
  <2> QED BY <1>3, <2>2, <2>3, <2>4, <2>5 DEF PollerStep
<1>4. ASSUME NEW w \in Worker, WorkerStep(w) \/ SpuriousWake(w) PROVE CountersOK'
  <2>1. CASE TakeShared(w)
    <3>0. Len(Unread) \in Nat /\ Budget \in Nat
      BY QueueTypes, PosNat
    <3>1. Smaller(Len(Unread), Budget) \in Nat
      BY Zenon, <3>0, NatSmaller
    <3>a. availableTaskCount - Smaller(Len(Unread), Budget) \in Int
      BY <1>0, <3>1 DEF CountersOK
    <3>2. (availableTaskCount - Smaller(Len(Unread), Budget)) % SizeMod \in 0..SizeMod - 1
      BY <1>1, <3>a
    <3> QED BY <1>0, <2>1, <3>2 DEF CountersOK, TakeShared
  <2>2. CASE BatchDone(w)
    <3>1. Len(batch[w]) \in Nat
      BY SeqType DEF Inv, TypeOK, QueuesOK
    <3>a. pendingCount - Len(batch[w]) \in Int
      BY <1>0, <3>1 DEF CountersOK
    <3>2. (pendingCount - Len(batch[w])) % SizeMod \in 0..SizeMod - 1
      BY Zenon, <1>1, <3>a
    <3> QED BY Zenon, <1>0, <2>2, <3>2 DEF CountersOK, BatchDone
  <2>3. CASE ~(TakeShared(w) \/ BatchDone(w))
    BY Zenon, <1>0, <1>4, <2>3 DEF CountersOK, WorkerStep, RunTask, TestRunning, LockMutex, PredTasks,
       PredRunning, WaitOnCond, SpuriousWake
  <2> QED BY <2>1, <2>2, <2>3
<1>5. ASSUME NEW ws \in SUBSET Worker, NEW p \in BOOLEAN, Start(ws, p) PROVE CountersOK'
  BY <1>0, <1>5 DEF CountersOK, Start
<1>6. ASSUME NEW call \in OwnerCalls, Stop(call) PROVE CountersOK'
  BY ZenonT(30), <1>0, <1>6 DEF CountersOK, Stop
<1>7. CASE OwnerStep
  BY <1>0, <1>7 DEF CountersOK, OwnerStep, Rollback, NotifyAll, Wakeup, WakeFd, WakeCas,
     WakeWrite, JoinThreads
<1>8. CASE UNCHANGED vars
  BY <1>0, <1>8 DEF CountersOK, vars
<1> QED BY Zenon, <1>2, <1>3, <1>4, <1>5, <1>6, <1>7, <1>8 DEF Next

\* Only a few actions touch the queues and the histories.
QueueVars == <<posted, mailbox, linked, local, drained, sharedTasks, sharedReadIdx,
               batch, ran, order, taken, runs>>

\* All other steps leave them alone.
LEMMA QueueFrame ==
  ASSUME [Next]_vars
  PROVE  \/ \E p \in Poster : PushExchange(p) \/ PushLink(p)
         \/ DrainUpTo \/ AppendShared \/ NotifyWorkers
         \/ \E w \in Worker : TakeShared(w) \/ RunTask(w) \/ BatchDone(w)
         \/ UNCHANGED QueueVars
<1> USE DEF QueueVars
<1>1. ASSUME NEW t, Wakeup(t) PROVE UNCHANGED QueueVars
  BY <1>1 DEF Wakeup, WakeFd, WakeCas, WakeWrite
<1>2. ASSUME NEW p \in Poster, PosterStep(p) PROVE PushLink(p) \/ UNCHANGED QueueVars
  BY Zenon, <1>1, <1>2 DEF PosterStep, PostCount, PostStarted
<1>3. CASE PollerStep \/ PollEvents \/ FlushBuffer
  BY ZenonT(30), <1>3 DEF PollerStep, LoopTest, CountAvailable, DecideTimeout, PollWoken, PollTimeout,
              ClearPending, PollEvents, FlushBuffer
<1>4. ASSUME NEW w \in Worker, WorkerStep(w) \/ SpuriousWake(w)
      PROVE  TakeShared(w) \/ RunTask(w) \/ BatchDone(w) \/ UNCHANGED QueueVars
  BY <1>4 DEF WorkerStep, TestRunning, LockMutex, PredTasks, PredRunning, WaitOnCond,
              SpuriousWake
<1>5. ASSUME NEW ws \in SUBSET Worker, NEW p \in BOOLEAN, Start(ws, p) PROVE UNCHANGED QueueVars
  BY <1>5 DEF Start
<1>6. ASSUME NEW call \in OwnerCalls, Stop(call) PROVE UNCHANGED QueueVars
  BY <1>6 DEF Stop
<1>7. CASE OwnerStep
  BY <1>1, <1>7 DEF OwnerStep, Rollback, NotifyAll, JoinThreads
<1>8. CASE UNCHANGED vars
  BY <1>8 DEF vars
<1> HIDE DEF QueueVars
<1> QED BY Zenon, <1>2, <1>3, <1>4, <1>5, <1>6, <1>7, <1>8 DEF Next

\* push(): the new task goes to the end of the mailbox and of the order.
LEMMA PushInOrder ==
  ASSUME Inv, NEW p \in Poster, PushExchange(p)
  PROVE  /\ <<p, posted[p] + 1>> \in Task
         /\ QueuesOK' /\ HandOverInOrder' /\ UNCHANGED <<Unread, local, taken>>
<1> DEFINE task == <<p, posted[p] + 1>>
<1>1. task \in Task
  <2>1. posted[p] + 1 \in 1..MaxPosts
    BY SMTT(30), PosNat DEF PushExchange, Inv, TypeOK, QueuesOK
  <2> QED BY <2>1, Zenon DEF Task
<1> HIDE DEF task
<1>2. /\ mailbox' = Append(mailbox, task) /\ order' = Append(order, task)
      /\ posted' = [posted EXCEPT ![p] = @ + 1]
      /\ UNCHANGED <<linked, local, drained, sharedTasks, sharedReadIdx, batch, ran, taken, runs>>
      /\ posted[p] < MaxPosts
  BY ZenonT(30) DEF PushExchange, task
<1>3. /\ mailbox \in Seq(Task) /\ order \in Seq(Task) /\ taken \in Seq(Task)
      /\ local \in Seq(Task) /\ Unread \in Seq(Task)
  BY ZenonT(30), QueueTypes DEF Inv, TypeOK, QueuesOK
<1>4. QueuesOK'
  <2>1. mailbox' \in Seq(Task) /\ order' \in Seq(Task)
    BY <1>1, <1>2, <1>3, SeqAppend
  <2>2. posted' \in [Poster -> 0..MaxPosts]
    <3>1. posted \in [Poster -> 0..MaxPosts] /\ MaxPosts \in Nat
      BY PosNat DEF Inv, TypeOK, QueuesOK
    <3> QED BY <1>2, <3>1
  <2> QED BY ZenonT(30), <1>2, <2>1, <2>2 DEF Inv, TypeOK, QueuesOK
<1>5. UNCHANGED Unread
  BY <1>2 DEF Unread
<1>6. HandOverInOrder'
  <2>1. taken \o Unread \o local \in Seq(Task)
    BY <1>3, SeqConcat
  <2>2. (taken \o Unread \o local) \o Append(mailbox, task)
          = Append((taken \o Unread \o local) \o mailbox, task)
    BY SMTT(30), <1>1, <1>3, <2>1, AppendToConcat
  <2> QED BY <1>2, <1>5, <2>2 DEF Inv, HandOverInOrder
<1> QED BY <1>1, <1>2, <1>4, <1>5, <1>6 DEF task

\* drainUpTo(): a prefix of the mailbox moves to the empty local vector.
LEMMA DrainInOrder ==
  ASSUME Inv, DrainUpTo
  PROVE  /\ QueuesOK' /\ HandOverInOrder'
         /\ local' \o mailbox' = local \o mailbox
         /\ UNCHANGED <<Unread, taken, order, posted, sharedTasks, sharedReadIdx, batch, ran,
                        runs, drained>>
         /\ pc'[Poller] # "append" => local' = <<>>
<1>0. /\ mailbox \in Seq(Task) /\ taken \in Seq(Task) /\ Unread \in Seq(Task)
      /\ Len(mailbox) \in Nat /\ Budget \in Nat
  BY Zenon, QueueTypes, PosNat DEF Inv, TypeOK, QueuesOK
<1>1. PICK n \in 0..Smaller(Budget, Len(mailbox)) :
        /\ local' = SubSeq(mailbox, 1, n)
        /\ mailbox' = SubSeq(mailbox, n + 1, Len(mailbox))
        /\ linked' = linked \ {mailbox[i] : i \in 1..n}
        /\ pc' = [pc EXCEPT ![Poller] = IF n = 0 THEN AfterDrain ELSE "append"]
  BY Zenon DEF DrainUpTo, Goto
<1>2. UNCHANGED <<taken, order, posted, sharedTasks, sharedReadIdx, batch, ran, runs, drained>>
  BY DEF DrainUpTo
<1>3. n \in 0..Len(mailbox)
  <2>1. Smaller(Budget, Len(mailbox)) \in Nat /\ Smaller(Budget, Len(mailbox)) <= Len(mailbox)
    BY <1>0, NatSmaller
  <2> QED BY <1>0, <1>1, <2>1
<1>4. /\ local' \in Seq(Task) /\ mailbox' \in Seq(Task) /\ Len(local') = n
      /\ local' \o mailbox' = mailbox
  BY Zenon, <1>0, <1>1, <1>3, PrefixType, RestType, PrefixRest DEF Rest
<1>5. QueuesOK'
  BY Zenon, <1>1, <1>2, <1>4 DEF Inv, TypeOK, QueuesOK
<1>6. UNCHANGED Unread
  BY Zenon, <1>2 DEF Unread
<1>7. local = <<>>
  BY DEF Inv, DrainUpTo
<1>8. HandOverInOrder'
  <2>1. taken \o Unread \in Seq(Task)
    BY <1>0, SeqConcat
  <2>2. (taken \o Unread) \o <<>> = taken \o Unread
    BY <2>1, SeqConcatEmpty
  <2>3. ((taken \o Unread) \o local') \o mailbox' = (taken \o Unread) \o mailbox
    <3> DEFINE tu == taken \o Unread
    <3>1. tu \in Seq(Task) /\ local' \in Seq(Task) /\ mailbox' \in Seq(Task)
      BY <1>4, <2>1
    <3> HIDE DEF tu
    <3>2. (tu \o local') \o mailbox' = tu \o (local' \o mailbox')
      BY SMTT(30), <3>1, Assoc
    <3> QED BY <1>4, <3>2 DEF tu
  <2> QED BY <1>2, <1>6, <1>7, <2>2, <2>3 DEF Inv, HandOverInOrder
<1>9. pc'[Poller] # "append" => local' = <<>>
  <2>1. Poller \in DOMAIN pc
    BY DEF Inv, TypeOK, ControlOK, Thread
  <2>2. n # 0 => pc'[Poller] = "append"
    BY <1>1, <2>1
  <2>3. n = 0 => local' = <<>>
    BY <1>1, SeqCutNone
  <2> QED BY <2>2, <2>3
<1>10. local \o mailbox = mailbox
  BY <1>0, <1>7, SeqConcatEmpty
<1> QED BY <1>2, <1>4, <1>5, <1>6, <1>8, <1>9, <1>10

\* The poller's append: the local vector moves to the end of sharedTasks.
LEMMA AppendInOrder ==
  ASSUME Inv, AppendShared
  PROVE  /\ QueuesOK' /\ HandOverInOrder'
         /\ Unread' = Unread \o local /\ local' = <<>> /\ drained' = Len(local)
         /\ Len(Unread') = Len(Unread) + Len(local)
         /\ sharedReadIdx' <= Len(sharedTasks')
         /\ UNCHANGED <<mailbox, taken, order, posted, batch, ran, runs>>
<1>0. /\ mailbox \in Seq(Task) /\ taken \in Seq(Task) /\ Unread \in Seq(Task)
      /\ local \in Seq(Task) /\ sharedTasks \in Seq(Task)
      /\ sharedReadIdx \in 0..Len(sharedTasks) /\ Unread = Rest(sharedTasks, sharedReadIdx)
      /\ Len(sharedTasks) \in Nat /\ Len(local) \in Nat
  BY QueueTypes DEF Inv, TypeOK, QueuesOK
<1>1. /\ sharedTasks' = sharedTasks \o local /\ drained' = Len(local) /\ local' = <<>>
      /\ UNCHANGED <<mailbox, linked, taken, order, posted, sharedReadIdx, batch, ran, runs>>
  BY DEF AppendShared
<1>2. sharedTasks' \in Seq(Task) /\ Len(sharedTasks') = Len(sharedTasks) + Len(local)
  BY <1>0, <1>1, SeqConcat
<1>3. QueuesOK'
  <2>1. QueuesOK /\ <<>> \in Seq(Task)
    BY DEF Inv, TypeOK
  <2>2. sharedTasks' \in Seq(Task) /\ drained' \in Nat /\ local' = <<>>
    BY <1>0, <1>1, <1>2
  <2> QED BY <1>1, <2>1, <2>2 DEF QueuesOK
<1>4. Unread' = Unread \o local
  <2>1. Unread' = Rest(sharedTasks \o local, sharedReadIdx)
    BY <1>1 DEF Unread, Rest
  <2> QED BY Zenon, <1>0, <2>1, RestOfConcat
<1>5. Len(Unread') = Len(Unread) + Len(local)
  BY <1>0, <1>4, SeqConcat
<1>6. HandOverInOrder'
  <2>1. taken \o (Unread \o local) = (taken \o Unread) \o local
    <3>1. taken \in Seq(Task) /\ Unread \in Seq(Task) /\ local \in Seq(Task)
      BY <1>0
    <3> QED BY SMTT(30), <3>1, Assoc
  <2>2. (taken \o Unread) \o local \in Seq(Task)
    BY <1>0, SeqConcat
  <2>3. ((taken \o Unread) \o local) \o <<>> = (taken \o Unread) \o local
    BY <2>2, SeqConcatEmpty
  <2> QED BY <1>1, <1>4, <2>1, <2>3 DEF Inv, HandOverInOrder
<1> QED BY <1>0, <1>1, <1>2, <1>3, <1>4, <1>5, <1>6

\* takeSharedTasks(): a prefix of the unread tasks becomes the batch, with
\* or without the compaction of the vector.
LEMMA TakeInOrder ==
  ASSUME Inv, NEW w \in Worker, TakeShared(w)
  PROVE  /\ QueuesOK' /\ HandOverInOrder'
         /\ sharedReadIdx' <= Len(sharedTasks')
         /\ batch[w] = <<>> /\ ran[w] = 0
         /\ \E n \in 0..Budget :
              /\ n <= Len(Unread)
              /\ batch' = [batch EXCEPT ![w] = SubSeq(Unread, 1, n)]
              /\ Unread' = Rest(Unread, n) /\ Len(Unread') = Len(Unread) - n
              /\ availableTaskCount' = (availableTaskCount - n) % SizeMod
              /\ n = 0 => pc'[w] \notin {"exec", "lastExec"}
              /\ pc'[w] \notin {"exec", "lastExec"} => n = 0
         /\ UNCHANGED <<mailbox, local, drained, order, posted, ran, runs>>
<1> DEFINE n == Smaller(Len(Unread), Budget)
<1> DEFINE idx == sharedReadIdx + n
<1>0. /\ mailbox \in Seq(Task) /\ taken \in Seq(Task) /\ Unread \in Seq(Task)
      /\ local \in Seq(Task) /\ sharedTasks \in Seq(Task)
      /\ sharedReadIdx \in 0..Len(sharedTasks) /\ Unread = Rest(sharedTasks, sharedReadIdx)
      /\ Len(sharedTasks) \in Nat /\ Len(Unread) \in Nat
      /\ Len(Unread) = Len(sharedTasks) - sharedReadIdx /\ Budget \in Nat \ {0}
      /\ w \in DOMAIN batch /\ w \in DOMAIN pc
  BY Zenon, QueueTypes, PosNat DEF Inv, TypeOK, QueuesOK, ControlOK, Thread
<1>1. /\ n \in Nat /\ n <= Len(Unread) /\ n <= Budget
  BY Zenon, <1>0, NatSmaller
<1>2. /\ batch' = [batch EXCEPT ![w] = SubSeq(Unread, 1, n)]
      /\ taken' = taken \o SubSeq(Unread, 1, n)
      /\ \/ /\ sharedTasks' = SubSeq(sharedTasks, idx + 1, Len(sharedTasks))
            /\ sharedReadIdx' = 0
         \/ sharedReadIdx' = idx /\ sharedTasks' = sharedTasks
      /\ availableTaskCount' = (availableTaskCount - n) % SizeMod
      /\ UNCHANGED <<mailbox, linked, local, drained, order, posted, ran, runs>>
  BY DEF TakeShared
<1>3. /\ n = 0 => pc'[w] \notin {"exec", "lastExec"}
      /\ pc'[w] \notin {"exec", "lastExec"} => n = 0
  BY <1>0, <1>1 DEF TakeShared, Goto
<1> HIDE DEF n
<1>4. /\ SubSeq(Unread, 1, n) \in Seq(Task) /\ Rest(Unread, n) \in Seq(Task)
      /\ Len(Rest(Unread, n)) = Len(Unread) - n
      /\ SubSeq(Unread, 1, n) \o Rest(Unread, n) = Unread
  <2>1. n \in 0..Len(Unread)
    BY <1>0, <1>1
  <2> QED BY ZenonT(30), <1>0, <2>1, PrefixType, RestType, PrefixRest
<1>5. /\ Unread' = Rest(Unread, n) /\ sharedTasks' \in Seq(Task)
      /\ sharedReadIdx' \in Nat /\ sharedReadIdx' <= Len(sharedTasks')
  <2>0. idx \in Nat /\ idx \in 0..Len(sharedTasks) /\ sharedReadIdx + n <= Len(sharedTasks)
    BY <1>0, <1>1
  <2>1. Rest(Unread, n) = Rest(sharedTasks, idx)
    BY <1>0, <1>1, <2>0, RestOfRest
  <2>2. Unread' = Rest(sharedTasks', sharedReadIdx')
    BY DEF Unread, Rest
  <2>3. CASE sharedTasks' = SubSeq(sharedTasks, idx + 1, Len(sharedTasks)) /\ sharedReadIdx' = 0
    <3>1. sharedTasks' = Rest(sharedTasks, idx)
      BY <2>3 DEF Rest
    <3>2. sharedTasks' \in Seq(Task) /\ Len(sharedTasks') \in Nat
      BY <1>0, <2>0, <3>1, RestType, SeqType
    <3>3. idx + 0 = idx /\ idx + 0 <= Len(sharedTasks)
      BY <1>0, <2>0
    <3>4. Rest(Rest(sharedTasks, idx), 0) = Rest(sharedTasks, idx + 0)
      BY <1>0, <2>0, <3>3, RestOfRest
    <3>5. Unread' = Rest(Rest(sharedTasks, idx), 0)
      BY ZenonT(30), <2>2, <2>3, <3>1
    <3>6. Rest(sharedTasks, idx + 0) = Rest(sharedTasks, idx)
      BY <3>3
    <3>7. Unread' = Rest(Unread, n)
      BY <2>1, <3>4, <3>5, <3>6, Zenon
    <3>8. sharedReadIdx' \in Nat /\ sharedReadIdx' <= Len(sharedTasks')
      BY <2>3, <3>2
    <3> QED BY <3>2, <3>7, <3>8
  <2>4. CASE sharedReadIdx' = idx /\ sharedTasks' = sharedTasks
    BY <1>0, <2>0, <2>1, <2>2, <2>4
  <2> QED BY <1>2, <2>3, <2>4
<1>6. taken' \in Seq(Task)
  BY <1>0, <1>2, <1>4, SeqConcat
<1>7. QueuesOK'
  BY ZenonT(30), <1>2, <1>4, <1>5, <1>6 DEF Inv, TypeOK, QueuesOK
<1>8. HandOverInOrder'
  <2> DEFINE pre == SubSeq(Unread, 1, n)
  <2> DEFINE rest == Rest(Unread, n)
  <2>1. taken \in Seq(Task) /\ pre \in Seq(Task) /\ rest \in Seq(Task) /\ pre \o rest = Unread
    BY Zenon, <1>0, <1>4
  <2>2. taken' = taken \o pre /\ Unread' = rest
    BY <1>2, <1>5
  <2> HIDE DEF pre, rest
  <2>3. (taken \o pre) \o rest = taken \o (pre \o rest)
    <3>1. taken \in Seq(Task) /\ pre \in Seq(Task) /\ rest \in Seq(Task)
      BY <2>1
    <3> QED BY <3>1, Assoc
  <2>4. taken' \o Unread' = taken \o Unread
    BY <2>1, <2>2, <2>3
  <2> QED BY ZenonT(30), <1>2, <2>4 DEF Inv, HandOverInOrder
<1>9. batch[w] = <<>> /\ ran[w] = 0
  BY Zenon DEF TakeShared, Inv
<1>10. n \in 0..Budget
  BY <1>0, <1>1
<1>11. Len(Unread') = Len(Unread) - n
  BY <1>4, <1>5
<1>12. \E k \in 0..Budget :
         /\ k <= Len(Unread)
         /\ batch' = [batch EXCEPT ![w] = SubSeq(Unread, 1, k)]
         /\ Unread' = Rest(Unread, k) /\ Len(Unread') = Len(Unread) - k
         /\ availableTaskCount' = (availableTaskCount - k) % SizeMod
         /\ k = 0 => pc'[w] \notin {"exec", "lastExec"}
         /\ pc'[w] \notin {"exec", "lastExec"} => k = 0
  <2> n \in 0..Budget
    BY Zenon, <1>10
  <2> WITNESS n \in 0..Budget
  <2> QED BY <1>1, <1>2, <1>3, <1>5, <1>11
<1> QED BY Zenon, <1>2, <1>5, <1>7, <1>8, <1>9, <1>12

\* executeTasks(): the task that runs next is a task of the batch.
LEMMA RunInOrder ==
  ASSUME Inv, NEW w \in Worker, RunTask(w)
  PROVE  /\ QueuesOK' /\ ran[w] + 1 \in 1..Len(batch[w])
         /\ ran' = [ran EXCEPT ![w] = @ + 1]
         /\ UNCHANGED <<pc, posted, mailbox, linked, local, drained, sharedTasks,
                        sharedReadIdx, batch, order, taken>>
<1>1. /\ batch[w] \in Seq(Task) /\ ran[w] \in Nat /\ ran \in [Worker -> Nat]
      /\ runs \in [Task -> Nat]
  BY DEF Inv, TypeOK, QueuesOK
<1>2. /\ ran[w] < Len(batch[w]) /\ ran' = [ran EXCEPT ![w] = @ + 1]
      /\ runs' = [runs EXCEPT ![batch[w][ran[w] + 1]] = @ + 1]
      /\ UNCHANGED <<pc, posted, mailbox, linked, local, drained, sharedTasks,
                     sharedReadIdx, batch, order, taken>>
  BY Zenon DEF RunTask
<1>3. Len(batch[w]) \in Nat
  BY <1>1, SeqType
<1>4. ran[w] + 1 \in 1..Len(batch[w])
  <2>1. ran[w] \in Nat /\ ran[w] < Len(batch[w])
    BY Zenon, <1>1, <1>2
  <2> QED BY <1>3, <2>1
<1> DEFINE next == batch[w][ran[w] + 1]
<1>5. next \in Task /\ runs' = [runs EXCEPT ![next] = @ + 1]
  BY <1>1, <1>2, <1>4, SeqType
<1> HIDE DEF next
<1>6. runs' \in [Task -> Nat] /\ ran' \in [Worker -> Nat]
  <2>1. runs \in [Task -> Nat] /\ ran \in [Worker -> Nat] /\ ran' = [ran EXCEPT ![w] = @ + 1]
    BY Zenon, <1>1, <1>2
  <2> QED BY <1>5, <2>1
<1>7. QueuesOK
  BY DEF Inv, TypeOK
<1> QED BY Zenon, <1>2, <1>4, <1>6, <1>7 DEF QueuesOK

\* Every step keeps the queues well typed, the read index inside sharedTasks
\* and the hand-over in order.
LEMMA QueuesStep ==
  Inv /\ [Next]_vars => QueuesOK' /\ HandOverInOrder' /\ sharedReadIdx' <= Len(sharedTasks')
<1> SUFFICES ASSUME Inv, [Next]_vars
             PROVE  QueuesOK' /\ HandOverInOrder' /\ sharedReadIdx' <= Len(sharedTasks')
  OBVIOUS
<1>0. QueuesOK /\ HandOverInOrder /\ sharedReadIdx <= Len(sharedTasks)
  BY DEF Inv, TypeOK
<1>1. ASSUME NEW p \in Poster, PushExchange(p)
      PROVE  QueuesOK' /\ HandOverInOrder' /\ sharedReadIdx' <= Len(sharedTasks')
  BY ZenonT(30), <1>0, <1>1, PushInOrder DEF PushExchange
<1>2. ASSUME NEW p \in Poster, PushLink(p)
      PROVE  QueuesOK' /\ HandOverInOrder' /\ sharedReadIdx' <= Len(sharedTasks')
  <2>1. posted[p] \in 1..MaxPosts
    <3>1. posted[p] > 0 /\ posted[p] \in 0..MaxPosts /\ MaxPosts \in Nat
      BY <1>0, <1>2, PosNat DEF PushLink, Inv, QueuesOK
    <3> QED BY <3>1
  <2>2. <<p, posted[p]>> \in Task
    BY <2>1, Zenon DEF Task
  <2>3. linked' \subseteq Task
    BY Zenon, <1>0, <1>2, <2>2 DEF PushLink, QueuesOK
  <2> QED BY Zenon, <1>0, <1>2, <2>3 DEF PushLink, QueuesOK, HandOverInOrder, Unread
<1>3. CASE DrainUpTo
  BY <1>0, <1>3, DrainInOrder
<1>4. CASE AppendShared
  BY <1>4, AppendInOrder
<1>5. CASE NotifyWorkers
  <2>1. /\ drained' = 0
        /\ UNCHANGED <<posted, mailbox, linked, local, sharedTasks, sharedReadIdx, batch, ran,
                       order, taken, runs>>
    BY <1>5 DEF NotifyWorkers
  <2> QED BY Zenon, <1>0, <2>1 DEF QueuesOK, HandOverInOrder, Unread
<1>6. ASSUME NEW w \in Worker, TakeShared(w)
      PROVE  QueuesOK' /\ HandOverInOrder' /\ sharedReadIdx' <= Len(sharedTasks')
  BY <1>6, TakeInOrder
<1>7. ASSUME NEW w \in Worker, RunTask(w)
      PROVE  QueuesOK' /\ HandOverInOrder' /\ sharedReadIdx' <= Len(sharedTasks')
  BY Zenon, <1>0, <1>7, RunInOrder DEF HandOverInOrder, Unread
<1>8. ASSUME NEW w \in Worker, BatchDone(w)
      PROVE  QueuesOK' /\ HandOverInOrder' /\ sharedReadIdx' <= Len(sharedTasks')
  <2>1. /\ batch' = [batch EXCEPT ![w] = <<>>] /\ ran' = [ran EXCEPT ![w] = 0]
        /\ UNCHANGED <<posted, mailbox, linked, local, drained, sharedTasks, sharedReadIdx,
                       order, taken, runs>>
    BY <1>8 DEF BatchDone
  <2>2. batch' \in [Worker -> Seq(Task)] /\ ran' \in [Worker -> Nat]
    BY <1>0, <2>1 DEF QueuesOK
  <2> QED BY Zenon, <1>0, <2>1, <2>2 DEF QueuesOK, HandOverInOrder, Unread
<1>9. CASE UNCHANGED QueueVars
  BY <1>0, <1>9 DEF QueueVars, QueuesOK, HandOverInOrder, Unread
<1> QED BY <1>1, <1>2, <1>3, <1>4, <1>5, <1>6, <1>7, <1>8, <1>9, QueueFrame

\* Only three actions change the count, the unread tasks or the window in
\* which the poller has appended tasks it has not counted yet.
LEMMA CountFrame ==
  ASSUME Inv, [Next]_vars
  PROVE  \/ AppendShared \/ CountAvailable \/ \E w \in Worker : TakeShared(w)
         \/ /\ UNCHANGED <<availableTaskCount, sharedTasks, sharedReadIdx>>
            /\ pc'[Poller] = "count" <=> pc[Poller] = "count"
            /\ pc[Poller] = "count" => drained' = drained
<1> DEFINE Same == /\ UNCHANGED <<availableTaskCount, sharedTasks, sharedReadIdx>>
                   /\ pc'[Poller] = "count" <=> pc[Poller] = "count"
                   /\ pc[Poller] = "count" => drained' = drained
<1> SUFFICES AppendShared \/ CountAvailable \/ (\E w \in Worker : TakeShared(w)) \/ Same
  BY Zenon
<1>0. /\ Poller \in Thread /\ Owner \in Thread
      /\ pc \in [Thread -> PosterLabel \cup PollerLabel \cup WorkerLabel \cup OwnerLabel]
  BY Zenon DEF Thread, Inv, TypeOK, ControlOK
<1>1. ASSUME NEW t, t # Poller, Wakeup(t) PROVE Same
  BY ZenonT(30), <1>0, <1>1 DEF Wakeup, WakeFd, WakeCas, WakeWrite, Goto
<1>2. ASSUME NEW p \in Poster, PushExchange(p) \/ PosterStep(p) PROVE Same
  <2>1. p # Poller
    BY Distinct
  <2> QED BY <1>0, <1>1, <1>2, <2>1 DEF PushExchange, PosterStep, PushLink, PostCount,
              PostStarted, Goto
<1>3. CASE PollerStep \/ PollEvents \/ FlushBuffer
  <2>1. CASE DrainUpTo
    BY Zenon, <1>0, <2>1 DEF DrainUpTo, Goto, AfterDrain
  <2>2. CASE NotifyWorkers
    BY <1>0, <2>2 DEF NotifyWorkers, Goto, AfterDrain
  <2>3. CASE LoopTest \/ DecideTimeout \/ PollWoken \/ PollTimeout \/ ClearPending \/ PollEvents
             \/ FlushBuffer
    BY ZenonT(30), <1>0, <2>3 DEF LoopTest, DecideTimeout, PollWoken, PollTimeout, ClearPending, PollEvents,
                      FlushBuffer, Goto
  <2> QED BY ZenonT(30), <1>3, <2>1, <2>2, <2>3 DEF PollerStep
<1>4. ASSUME NEW w \in Worker, WorkerStep(w) \/ SpuriousWake(w)
      PROVE  TakeShared(w) \/ Same
  <2>1. w # Poller
    BY Distinct
  <2> QED BY Zenon, <1>0, <1>4, <2>1 DEF WorkerStep, RunTask, BatchDone, TestRunning, LockMutex,
             PredTasks, PredRunning, WaitOnCond, SpuriousWake, Goto
<1>5. ASSUME NEW ws \in SUBSET Worker, NEW p \in BOOLEAN, Start(ws, p) PROVE Same
  BY Zenon, <1>0, <1>5 DEF Start, Inv
<1>6. ASSUME NEW call \in OwnerCalls, Stop(call) PROVE Same
  BY ZenonT(30), <1>0, <1>6, Distinct DEF Stop, Goto
<1>7. CASE OwnerStep
  <2>1. CASE JoinThreads
    BY <1>0, <2>1 DEF JoinThreads
  <2> QED BY <1>0, <1>1, <1>7, <2>1, Distinct DEF OwnerStep, Rollback, NotifyAll, Goto
<1>8. CASE UNCHANGED vars
  BY <1>8 DEF vars
<1> HIDE DEF Same
<1> QED BY Zenon, <1>2, <1>3, <1>4, <1>5, <1>6, <1>7, <1>8 DEF Next

\* availableTaskCount is the number of unread tasks, less those the poller has
\* appended and not counted yet, modulo the width of size_t.
LEMMA CountStep == Inv /\ [Next]_vars => AvailableCountExact'
<1> SUFFICES ASSUME Inv, [Next]_vars PROVE AvailableCountExact'
  OBVIOUS
<1> DEFINE uncounted == IF pc[Poller] = "count" THEN drained ELSE 0
<1>0. /\ Len(Unread) \in Nat /\ uncounted \in Nat /\ drained \in Nat /\ Len(local) \in Nat
      /\ SizeMod \in Nat \ {0}
      /\ availableTaskCount = (Len(Unread) - uncounted) % SizeMod
      /\ Poller \in DOMAIN pc
  <2>1. drained \in Nat
    BY Zenon DEF Inv, TypeOK, QueuesOK
  <2>2. AvailableCountExact /\ Poller \in DOMAIN pc
    BY Zenon DEF Inv, TypeOK, ControlOK, Thread
  <2> QED BY <2>1, <2>2, QueueTypes, PosNat DEF AvailableCountExact
<1>1. CASE AppendShared
  <2>1. /\ pc[Poller] = "append" /\ pc'[Poller] = "count" /\ drained' = Len(local)
        /\ Len(Unread') = Len(Unread) + Len(local) /\ availableTaskCount' = availableTaskCount
    BY <1>0, <1>1, AppendInOrder DEF AppendShared, Goto
  <2>2. Len(Unread') - drained' = Len(Unread) - uncounted
    BY SMTT(30), <1>0, <2>1
  <2> QED BY Zenon, <1>0, <2>1, <2>2 DEF AvailableCountExact
<1>2. CASE CountAvailable
  <2>1. /\ pc[Poller] = "count" /\ pc'[Poller] = "notify" /\ Unread' = Unread
        /\ availableTaskCount' = (availableTaskCount + drained) % SizeMod
    BY Zenon, <1>0, <1>2 DEF CountAvailable, Goto, Unread
  <2>2. availableTaskCount = (Len(Unread) - drained) % SizeMod
    BY <1>0, <2>1
  <2> DEFINE a == Len(Unread) - drained
  <2>3. a \in Int /\ drained \in Int
    BY <1>0
  <2> HIDE DEF a
  <2>4. ((a % SizeMod) + drained) % SizeMod = (a + drained) % SizeMod
    BY ZenonT(30), <1>0, <2>3, ModAdd
  <2>5. a + drained = Len(Unread) - 0
    BY <1>0 DEF a
  <2>6. availableTaskCount' = (Len(Unread) - 0) % SizeMod
    BY <2>1, <2>2, <2>4, <2>5 DEF a
  <2> QED BY <2>1, <2>6 DEF AvailableCountExact
<1>3. ASSUME NEW w \in Worker, TakeShared(w) PROVE AvailableCountExact'
  <2>1. PICK n \in 0..Budget :
              /\ Len(Unread') = Len(Unread) - n
              /\ availableTaskCount' = (availableTaskCount - n) % SizeMod
    BY Zenon, <1>3, TakeInOrder
  <2>2. pc'[Poller] = pc[Poller] /\ drained' = drained
    BY <1>0, <1>3, Distinct DEF TakeShared, Goto
  <2> DEFINE a == Len(Unread) - uncounted
  <2>3. a \in Int /\ -n \in Int /\ n \in Int
    BY <1>0, PosNat
  <2> HIDE DEF a
  <2>4. ((a % SizeMod) + (-n)) % SizeMod = (a + (-n)) % SizeMod
    BY Zenon, <1>0, <2>3, ModAdd
  <2>5. availableTaskCount = a % SizeMod
    BY <1>0 DEF a
  <2>6. a % SizeMod \in Int
    BY <1>0, <2>3, ModType
  <2>7. availableTaskCount - n = (a % SizeMod) + (-n)
    BY <2>3, <2>5, <2>6
  <2>8. a + (-n) = Len(Unread') - uncounted
    BY <1>0, <2>1, <2>3 DEF a
  <2>9. availableTaskCount' = (Len(Unread') - uncounted) % SizeMod
    BY <2>1, <2>4, <2>7, <2>8
  <2> QED BY <2>2, <2>9 DEF AvailableCountExact
<1>4. CASE /\ UNCHANGED <<availableTaskCount, sharedTasks, sharedReadIdx>>
           /\ pc'[Poller] = "count" <=> pc[Poller] = "count"
           /\ pc[Poller] = "count" => drained' = drained
  <2>1. Unread' = Unread
    BY <1>4 DEF Unread
  <2> QED BY Zenon, <1>0, <1>4, <2>1 DEF AvailableCountExact
<1> QED BY <1>1, <1>2, <1>3, <1>4, CountFrame

\* No thread of an earlier start() is left when a new one may begin.
LEMMA LifecycleStep ==
  ASSUME Inv, [Next]_vars
  PROVE  /\ pc'[Owner] = "rollback" => op' = "rollback"
         /\ op' = "none" /\ pc'[Owner] # "idle" => started'
         /\ pc'[Owner] = "idle" /\ ~started' => \A t \in Worker \cup {Poller} : pc'[t] = "off"
<1> DEFINE Goal == /\ pc'[Owner] = "rollback" => op' = "rollback"
                   /\ op' = "none" /\ pc'[Owner] # "idle" => started'
                   /\ pc'[Owner] = "idle" /\ ~started' =>
                        \A t \in Worker \cup {Poller} : pc'[t] = "off"
<1> SUFFICES Goal
  BY ZenonT(30)
<1>0. /\ DOMAIN pc = Thread /\ op \in {"none", "join", "rollback"}
      /\ pc[Owner] = "rollback" => op = "rollback"
      /\ op = "none" /\ pc[Owner] # "idle" => started
      /\ pc[Owner] = "idle" /\ ~started => \A t \in Worker \cup {Poller} : pc[t] = "off"
  BY DEF Inv, TypeOK, ControlOK, FlagsOK
<1> USE <1>0, Distinct DEF Thread, Goto
<1>1. ASSUME NEW p \in Poster, PushExchange(p) \/ PosterStep(p) PROVE Goal
  BY ZenonT(30), <1>1 DEF PushExchange, PosterStep, PushLink, PostCount, PostStarted, Wakeup, WakeFd,
              WakeCas, WakeWrite
<1>2. CASE PollerStep \/ PollEvents \/ FlushBuffer
  <2>1. CASE DrainUpTo
    BY Zenon, <2>1 DEF DrainUpTo
  <2>2. CASE NotifyWorkers
    BY <2>2 DEF NotifyWorkers
  <2>3. CASE ~(DrainUpTo \/ NotifyWorkers)
    BY ZenonT(30), <1>2, <2>3 DEF PollerStep, LoopTest, AppendShared, CountAvailable, DecideTimeout,
       PollWoken, PollTimeout, ClearPending, PollEvents, FlushBuffer
  <2> QED BY Zenon, <2>1, <2>2, <2>3
<1>3. ASSUME NEW w \in Worker, WorkerStep(w) \/ SpuriousWake(w) PROVE Goal
  <2>1. CASE TakeShared(w)
    <3>1. PICK l : pc' = [pc EXCEPT ![w] = l]
      BY Zenon, <2>1 DEF TakeShared
    <3> QED BY Zenon, <2>1, <3>1 DEF TakeShared
  <2>2. CASE ~TakeShared(w)
    BY ZenonT(30), <1>3, <2>2 DEF WorkerStep, RunTask, BatchDone, TestRunning, LockMutex, PredTasks,
                  PredRunning, WaitOnCond, SpuriousWake
  <2> QED BY <2>1, <2>2
<1>4. ASSUME NEW ws \in SUBSET Worker, NEW p \in BOOLEAN, Start(ws, p) PROVE Goal
  BY Zenon, <1>4 DEF Start
<1>5. ASSUME NEW call \in OwnerCalls, Stop(call) PROVE Goal
  BY Zenon, <1>5 DEF Stop
<1>6. CASE OwnerStep
  <2>1. CASE JoinThreads
    BY Zenon, <2>1 DEF JoinThreads
  <2>2. CASE Rollback \/ NotifyAll
    BY Zenon, <2>2 DEF Rollback, NotifyAll
  <2>3. CASE Wakeup(Owner)
    BY Zenon, <2>3 DEF Wakeup, WakeFd, WakeCas, WakeWrite, Return
  <2> QED BY ZenonT(30), <1>6, <2>1, <2>2, <2>3 DEF OwnerStep
<1>7. CASE UNCHANGED vars
  BY ZenonT(30), <1>7 DEF vars
<1> HIDE DEF Goal
<1> QED BY ZenonT(30), <1>1, <1>2, <1>3, <1>4, <1>5, <1>6, <1>7 DEF Next

\* Outside drainMailbox's append the poller's local vector is empty.
LEMMA LocalStep == Inv /\ [Next]_vars => (pc'[Poller] # "append" => local' = <<>>)
<1> SUFFICES ASSUME Inv, [Next]_vars PROVE pc'[Poller] # "append" => local' = <<>>
  BY Zenon
<1>0. /\ DOMAIN pc = Thread /\ mailbox \in Seq(Task)
      /\ pc[Poller] # "append" => local = <<>>
      /\ pc[Owner] = "idle" /\ ~started => pc[Poller] = "off"
  BY Zenon DEF Inv, TypeOK, ControlOK, QueuesOK
<1> USE <1>0, Distinct DEF Thread, Goto
<1>1. ASSUME NEW p \in Poster, PushExchange(p) \/ PosterStep(p)
      PROVE  pc'[Poller] # "append" => local' = <<>>
  BY Zenon, <1>1 DEF PushExchange, PosterStep, PushLink, PostCount, PostStarted, Wakeup, WakeFd,
              WakeCas, WakeWrite
<1>2. CASE PollerStep \/ PollEvents \/ FlushBuffer
  <2>1. CASE DrainUpTo
    <3>1. PICK n \in 0..Smaller(Budget, Len(mailbox)) :
            local' = SubSeq(mailbox, 1, n) /\ Goto(Poller, IF n = 0 THEN AfterDrain ELSE "append")
      BY Zenon, <2>1 DEF DrainUpTo
    <3>2. n = 0 => local' = <<>>
      BY <3>1, SeqCutNone
    <3> QED BY <3>1, <3>2
  <2>2. CASE NotifyWorkers
    BY <2>2 DEF NotifyWorkers
  <2>3. CASE ~(DrainUpTo \/ NotifyWorkers)
    BY Zenon, <1>2, <2>3 DEF PollerStep, LoopTest, AppendShared, CountAvailable, DecideTimeout,
       PollWoken, PollTimeout, ClearPending, PollEvents, FlushBuffer
  <2> QED BY <2>1, <2>2, <2>3
<1>3. ASSUME NEW w \in Worker, WorkerStep(w) \/ SpuriousWake(w)
      PROVE  pc'[Poller] # "append" => local' = <<>>
  <2>1. UNCHANGED local /\ pc'[Poller] = pc[Poller]
    BY Zenon, <1>3 DEF WorkerStep, TakeShared, RunTask, BatchDone, TestRunning, LockMutex, PredTasks,
                PredRunning, WaitOnCond, SpuriousWake
  <2> QED BY <2>1
<1>4. ASSUME NEW ws \in SUBSET Worker, NEW p \in BOOLEAN, Start(ws, p)
      PROVE  pc'[Poller] # "append" => local' = <<>>
  BY <1>4 DEF Start
<1>5. ASSUME NEW call \in OwnerCalls, Stop(call) PROVE pc'[Poller] # "append" => local' = <<>>
  BY <1>5 DEF Stop
<1>6. CASE OwnerStep
  BY Zenon, <1>6 DEF OwnerStep, JoinThreads, Rollback, NotifyAll, Wakeup, WakeFd, WakeCas, WakeWrite
<1>7. CASE UNCHANGED vars
  BY <1>7 DEF vars
<1> QED BY Zenon, <1>1, <1>2, <1>3, <1>4, <1>5, <1>6, <1>7 DEF Next

\* A poster inside push() has posted, and no task beyond its last one has
\* entered the mailbox.
LEMMA PostedStep ==
  ASSUME Inv, [Next]_vars
  PROVE  /\ \A p \in Poster : pc'[p] = "link" => posted'[p] > 0
         /\ \A i \in 1..Len(order') : order'[i][2] <= posted'[order'[i][1]]
<1>0. /\ DOMAIN pc = Thread /\ posted \in [Poster -> 0..MaxPosts] /\ MaxPosts \in Nat
      /\ order \in Seq(Task) /\ Len(order) \in Nat
      /\ \A p \in Poster : pc[p] = "link" => posted[p] > 0
      /\ \A i \in 1..Len(order) : order[i][2] <= posted[order[i][1]]
  BY PosNat, SeqType DEF Inv, TypeOK, ControlOK, QueuesOK
<1>1. ASSUME NEW q \in Poster, PushExchange(q)
      PROVE  /\ \A p \in Poster : pc'[p] = "link" => posted'[p] > 0
             /\ \A i \in 1..Len(order') : order'[i][2] <= posted'[order'[i][1]]
  <2> DEFINE task == <<q, posted[q] + 1>>
  <2>1. /\ order' = Append(order, task) /\ posted' = [posted EXCEPT ![q] = @ + 1]
        /\ pc' = [pc EXCEPT ![q] = "link"]
    BY Zenon, <1>1 DEF PushExchange, Goto
  <2>2. \A p \in Poster : posted[p] \in Nat /\ posted'[p] \in Nat /\ posted[p] <= posted'[p]
    BY SMTT(30), <1>0, <2>1
  <2>3. posted'[q] = posted[q] + 1 /\ posted'[q] > 0
    BY <1>0, <2>1
  <2>4. task[1] = q /\ task[2] = posted[q] + 1
    OBVIOUS
  <2>5. task \in Task
    BY Zenon, <1>1, PushInOrder
  <2> HIDE DEF task
  <2>6. ASSUME NEW i \in 1..Len(order') PROVE order'[i][2] <= posted'[order'[i][1]]
    <3>1. Len(order') = Len(order) + 1 /\ order'[Len(order) + 1] = task
          /\ \A j \in 1..Len(order) : order'[j] = order[j]
      BY SMTT(30), <1>0, <2>1, <2>5, SeqAppend
    <3>2. CASE i = Len(order) + 1
      BY SMTT(30), <2>2, <2>3, <2>4, <3>1, <3>2
    <3>3. CASE i \in 1..Len(order)
      <4>1. order[i] \in Task /\ order'[i] = order[i]
        BY <1>0, <3>1, <3>3, SeqType
      <4>2. order[i][1] \in Poster /\ order[i][2] \in 1..MaxPosts
        BY <4>1 DEF Task
      <4>3. order[i][2] <= posted[order[i][1]]
        BY <1>0, <3>3
      <4> QED BY SMTT(30), <1>0, <2>2, <4>1, <4>2, <4>3
    <3> QED BY SMTT(30), <1>0, <3>1, <3>2, <3>3
  <2>7. ASSUME NEW p \in Poster, pc'[p] = "link" PROVE posted'[p] > 0
    <3>1. CASE p = q
      BY <2>3, <3>1
    <3>2. CASE p # q
      BY Zenon, <1>0, <2>1, <2>2, <2>7, <3>2 DEF Thread
    <3> QED BY <3>1, <3>2
  <2> QED BY <2>6, <2>7
<1>2. CASE /\ UNCHANGED <<posted, order>>
           /\ \A p \in Poster : pc'[p] = "link" => pc[p] = "link"
  BY <1>0, <1>2
<1> USE <1>0, Distinct DEF Thread, Goto
<1>3. ASSUME NEW q \in Poster, PosterStep(q)
      PROVE  UNCHANGED <<posted, order>> /\ \A p \in Poster : pc'[p] = "link" => pc[p] = "link"
  BY ZenonT(30), <1>3 DEF PosterStep, PushLink, PostCount, PostStarted, Wakeup, WakeFd, WakeCas, WakeWrite,
              Return
<1>4. CASE PollerStep \/ PollEvents \/ FlushBuffer
  <2>1. UNCHANGED <<posted, order>> /\ \A p \in Poster : pc'[p] = pc[p]
    BY ZenonT(30), <1>4 DEF PollerStep, LoopTest, DrainUpTo, AppendShared, CountAvailable, NotifyWorkers,
            DecideTimeout, PollWoken, PollTimeout, ClearPending, PollEvents, FlushBuffer
  <2> QED BY ZenonT(30), <1>2, <2>1
<1>5. ASSUME NEW w \in Worker, WorkerStep(w) \/ SpuriousWake(w)
      PROVE  UNCHANGED <<posted, order>> /\ \A p \in Poster : pc'[p] = pc[p]
  BY ZenonT(30), <1>5 DEF WorkerStep, TakeShared, RunTask, BatchDone, TestRunning, LockMutex, PredTasks,
              PredRunning, WaitOnCond, SpuriousWake
<1>6. ASSUME NEW ws \in SUBSET Worker, NEW p \in BOOLEAN, Start(ws, p)
      PROVE  UNCHANGED <<posted, order>> /\ \A q \in Poster : pc'[q] = pc[q]
  BY Zenon, <1>6 DEF Start
<1>7. ASSUME NEW call \in OwnerCalls, Stop(call)
      PROVE  UNCHANGED <<posted, order>> /\ \A q \in Poster : pc'[q] = pc[q]
  BY ZenonT(30), <1>7 DEF Stop
<1>8. CASE OwnerStep
  <2>1. UNCHANGED <<posted, order>> /\ \A p \in Poster : pc'[p] = pc[p]
    BY ZenonT(30), <1>8 DEF OwnerStep, JoinThreads, Rollback, NotifyAll, Wakeup, WakeFd, WakeCas, WakeWrite
  <2> QED BY <1>2, <2>1
<1>9. CASE UNCHANGED vars
  BY ZenonT(30), <1>2, <1>9 DEF vars
<1> QED BY ZenonT(30), <1>1, <1>2, <1>3, <1>4, <1>5, <1>6, <1>7, <1>8, <1>9 DEF Next

\* A worker never runs beyond its batch, and has one only while it executes.
BatchOK(w) == /\ ran[w] <= Len(batch[w])
              /\ pc[w] \notin {"exec", "lastExec"} => batch[w] = <<>> /\ ran[w] = 0

\* Every step keeps the batches of all workers so.
LEMMA BatchStep == Inv /\ [Next]_vars => (\A w \in Worker : BatchOK(w))'
<1> SUFFICES ASSUME Inv, [Next]_vars, NEW v \in Worker PROVE BatchOK(v)'
  OBVIOUS
<1>0. /\ DOMAIN pc = Thread /\ DOMAIN batch = Worker /\ DOMAIN ran = Worker
      /\ batch[v] \in Seq(Task) /\ ran[v] \in Nat /\ Len(batch[v]) \in Nat /\ BatchOK(v)
      /\ pc[Owner] = "idle" /\ ~started => pc[v] = "off"
  BY ZenonT(30), SeqType DEF Inv, TypeOK, ControlOK, QueuesOK, BatchOK
<1>1. CASE /\ UNCHANGED <<batch, ran>>
           /\ pc'[v] \notin {"exec", "lastExec"} => pc[v] \notin {"exec", "lastExec"}
  BY Zenon, <1>0, <1>1 DEF BatchOK
<1>2. ASSUME NEW w \in Worker, TakeShared(w) PROVE BatchOK(v)'
  <2>1. PICK n \in 0..Budget :
          /\ n <= Len(Unread)
          /\ batch' = [batch EXCEPT ![w] = SubSeq(Unread, 1, n)]
          /\ pc'[w] \notin {"exec", "lastExec"} => n = 0
    BY Zenon, <1>2, TakeInOrder
  <2>2. ran' = ran /\ ran[w] = 0
    BY <1>2, TakeInOrder
  <2>3. CASE w = v
    <3> DEFINE pre == SubSeq(Unread, 1, n)
    <3>1. n \in 0..Len(Unread)
      <4>1. Len(Unread) \in Nat /\ Budget \in Nat
        BY PosNat, QueueTypes
      <4> QED BY <2>1, <4>1
    <3>2. Unread \in Seq(Task)
      BY QueueTypes
    <3>3. Len(pre) = n
      BY <3>1, <3>2, PrefixType
    <3>4. n = 0 => pre = <<>>
      BY <3>2, SeqCutNone
    <3>5. batch'[v] = pre /\ n \in Nat
      BY SMTT(30), <1>0, <2>1, <2>3, PosNat
    <3> HIDE DEF pre
    <3>6. ran'[v] = 0 /\ (pc'[v] \notin {"exec", "lastExec"} => n = 0)
      BY ZenonT(30), <2>1, <2>2, <2>3
    <3> QED BY SMTT(30), <3>3, <3>4, <3>5, <3>6 DEF BatchOK
  <2>4. CASE w # v
    <3>1. batch'[v] = batch[v] /\ ran'[v] = ran[v] /\ pc'[v] = pc[v]
      BY Zenon, <1>0, <1>2, <2>1, <2>2, <2>4 DEF TakeShared, Goto, Thread
    <3> QED BY <1>0, <3>1 DEF BatchOK
  <2> QED BY Zenon, <2>3, <2>4
<1>3. ASSUME NEW w \in Worker, RunTask(w) PROVE BatchOK(v)'
  <2>1. /\ ran[w] < Len(batch[w]) /\ ran' = [ran EXCEPT ![w] = @ + 1]
        /\ UNCHANGED <<pc, batch>> /\ pc[w] \in {"exec", "lastExec"}
    BY Zenon, <1>3 DEF RunTask
  <2>2. CASE w = v
    <3>1. ran'[v] = ran[v] + 1 /\ ran[v] < Len(batch[v]) /\ pc'[v] \in {"exec", "lastExec"}
      BY Zenon, <1>0, <2>1, <2>2
    <3>2. ran[v] \in Nat /\ Len(batch[v]) \in Nat /\ batch'[v] = batch[v]
      BY <1>0, <2>1
    <3> QED BY SMTT(30), <3>1, <3>2 DEF BatchOK
  <2>3. CASE w # v
    <3>1. batch'[v] = batch[v] /\ ran'[v] = ran[v] /\ pc'[v] = pc[v]
      BY Zenon, <1>0, <2>1, <2>3
    <3> QED BY Zenon, <1>0, <3>1 DEF BatchOK
  <2> QED BY <2>2, <2>3
<1>4. ASSUME NEW w \in Worker, BatchDone(w) PROVE BatchOK(v)'
  <2>1. batch' = [batch EXCEPT ![w] = <<>>] /\ ran' = [ran EXCEPT ![w] = 0]
    BY Zenon, <1>4 DEF BatchDone
  <2>2. CASE w = v
    <3>1. batch'[v] = <<>> /\ ran'[v] = 0 /\ Len(<<>>) = 0
      BY ZenonT(30), <1>0, <2>1, <2>2
    <3> QED BY <3>1 DEF BatchOK
  <2>3. CASE w # v
    <3>1. batch'[v] = batch[v] /\ ran'[v] = ran[v] /\ pc'[v] = pc[v]
      BY <1>0, <1>4, <2>1, <2>3 DEF BatchDone, Goto, Thread
    <3> QED BY Zenon, <1>0, <3>1 DEF BatchOK
  <2> QED BY <2>2, <2>3
<1> USE <1>0, Distinct DEF Thread, Goto
<1>5. ASSUME NEW q \in Poster, PushExchange(q) \/ PosterStep(q)
      PROVE  UNCHANGED <<batch, ran>> /\ pc'[v] = pc[v]
  BY ZenonT(30), <1>5 DEF PushExchange, PosterStep, PushLink, PostCount, PostStarted, Wakeup, WakeFd,
              WakeCas, WakeWrite
<1>6. CASE PollerStep \/ PollEvents \/ FlushBuffer
  <2>1. UNCHANGED <<batch, ran>> /\ pc'[v] = pc[v]
    BY ZenonT(30), <1>6 DEF PollerStep, LoopTest, DrainUpTo, AppendShared, CountAvailable, NotifyWorkers,
            DecideTimeout, PollWoken, PollTimeout, ClearPending, PollEvents, FlushBuffer
  <2> QED BY ZenonT(30), <1>1, <2>1
<1>7. ASSUME NEW w \in Worker, WorkerStep(w) \/ SpuriousWake(w),
             ~(TakeShared(w) \/ RunTask(w) \/ BatchDone(w))
      PROVE  /\ UNCHANGED <<batch, ran>>
             /\ pc'[v] \notin {"exec", "lastExec"} => pc[v] \notin {"exec", "lastExec"}
  BY ZenonT(30), <1>7 DEF WorkerStep, TestRunning, LockMutex, PredTasks, PredRunning, WaitOnCond,
              SpuriousWake
<1>8. ASSUME NEW ws \in SUBSET Worker, NEW p \in BOOLEAN, Start(ws, p)
      PROVE  /\ UNCHANGED <<batch, ran>>
             /\ pc'[v] \notin {"exec", "lastExec"} => pc[v] \notin {"exec", "lastExec"}
  BY ZenonT(30), <1>8 DEF Start
<1>9. ASSUME NEW call \in OwnerCalls, Stop(call) PROVE UNCHANGED <<batch, ran>> /\ pc'[v] = pc[v]
  BY <1>9 DEF Stop
<1>10. CASE OwnerStep
  <2>1. /\ UNCHANGED <<batch, ran>>
        /\ pc'[v] \notin {"exec", "lastExec"} => pc[v] \notin {"exec", "lastExec"}
    BY ZenonT(30), <1>10 DEF OwnerStep, JoinThreads, Rollback, NotifyAll, Wakeup, WakeFd, WakeCas, WakeWrite
  <2> QED BY ZenonT(30), <1>1, <2>1
<1>11. CASE UNCHANGED vars
  BY ZenonT(30), <1>1, <1>11 DEF vars
<1> HIDE DEF Goto
<1>12. ASSUME NEW w \in Worker, WorkerStep(w) \/ SpuriousWake(w) PROVE BatchOK(v)'
  BY ZenonT(30), <1>1, <1>2, <1>3, <1>4, <1>7, <1>12
<1> QED BY Zenon, <1>1, <1>5, <1>6, <1>8, <1>9, <1>10, <1>11, <1>12 DEF Next

\* The invariant is inductive.
LEMMA InvStep == Inv /\ [Next]_vars => Inv'
<1> SUFFICES ASSUME Inv, [Next]_vars PROVE Inv'
  OBVIOUS
<1>1. TypeOK'
  BY ControlStep, QueuesStep, CountersStep, FlagsStep DEF TypeOK
<1>2. HandOverInOrder' /\ sharedReadIdx' <= Len(sharedTasks') /\ AvailableCountExact'
  BY QueuesStep, CountStep
<1>3. (\A w \in Worker : BatchOK(w))'
  BY BatchStep
<1>4. pc'[Poller] # "append" => local' = <<>>
  BY LocalStep
<1> QED BY Zenon, <1>1, <1>2, <1>3, <1>4, LifecycleStep, PostedStep DEF Inv, BatchOK

\* The inductive invariant holds in every reachable state.
THEOREM Invariance == Spec => []Inv
BY InitInv, InvStep, PTL DEF Spec

\* Every variable of the service keeps its type, whatever the number of
\* threads, tasks and restarts.
THEOREM TypeSafety == Spec => []TypeOK
<1>1. Inv => TypeOK
  BY Zenon DEF Inv
<1> QED BY <1>1, Invariance, PTL

\* Between post() and a worker's batch no task is lost, duplicated or
\* overtaken, whatever the drain budget, the interleaving and the restarts.
THEOREM HandOver == Spec => []HandOverInOrder
<1>1. Inv => HandOverInOrder
  BY Zenon DEF Inv
<1> QED BY <1>1, Invariance, PTL

\* availableTaskCount, for any width of size_t, is the number of unread tasks
\* whenever the poller is not between its append and its fetch_add.
THEOREM CountExact == Spec => []AvailableCountExact
<1>1. Inv => AvailableCountExact
  BY Zenon DEF Inv
<1> QED BY <1>1, Invariance, PTL

-----------------------------------------------------------------------------
(* IoService implements TaskDispatch. *)

\* The tasks between post() and the workers, as TaskDispatch's one queue.
Queue == Unread \o local \o mailbox

\* What is left of a batch is a sequence of tasks.
LEMMA TodoType ==
  ASSUME Inv, NEW w \in Worker
  PROVE  /\ Todo(w) = Rest(batch[w], ran[w]) /\ Todo(w) \in Seq(Task)
         /\ batch[w] \in Seq(Task) /\ Len(batch[w]) \in Nat /\ ran[w] \in 0..Len(batch[w])
         /\ Len(Todo(w)) = Len(batch[w]) - ran[w]
<1>1. batch[w] \in Seq(Task) /\ ran[w] \in Nat /\ ran[w] <= Len(batch[w])
  BY Zenon DEF Inv, TypeOK, QueuesOK
<1>2. Len(batch[w]) \in Nat /\ ran[w] \in 0..Len(batch[w])
  BY SMTT(30), <1>1, SeqType
<1>3. Todo(w) = Rest(batch[w], ran[w])
  BY DEF Todo, Rest
<1> QED BY Zenon, <1>1, <1>2, <1>3, RestType

\* The containers hold tasks.
LEMMA ContainerTypes ==
  ASSUME Inv
  PROVE  /\ Unread \in Seq(Task) /\ local \in Seq(Task) /\ mailbox \in Seq(Task)
         /\ Unread \o local \in Seq(Task) /\ Queue \in Seq(Task)
         /\ Len(Unread \o local) = Len(Unread) + Len(local)
         /\ Len(Unread) \in Nat /\ Len(local) \in Nat
         /\ Len(Queue) = Len(Unread \o local) + Len(mailbox)
<1>1. Unread \in Seq(Task) /\ local \in Seq(Task) /\ mailbox \in Seq(Task)
  BY ZenonT(30), QueueTypes DEF Inv, TypeOK, QueuesOK
<1>2. /\ Unread \o local \in Seq(Task) /\ Len(Unread \o local) = Len(Unread) + Len(local)
      /\ Len(Unread) \in Nat /\ Len(local) \in Nat
  BY Zenon, <1>1, SeqConcat, SeqType
<1> QED BY <1>1, <1>2, SeqConcat DEF Queue

\* push() submits a task that was never submitted.
LEMMA PushSubmits ==
  ASSUME Inv, NEW p \in Poster, PushExchange(p)
  PROVE  \E t \in Task : Dispatch!Submit(t)
<1> DEFINE task == <<p, posted[p] + 1>>
<1>1. /\ task \in Task /\ UNCHANGED <<Unread, local, taken>>
      /\ mailbox' = Append(mailbox, task) /\ order' = Append(order, task)
      /\ UNCHANGED <<batch, ran, runs>>
  BY ZenonT(30), PushInOrder DEF PushExchange
<1>2. order \in Seq(Task) /\ Len(order) \in Nat /\ posted[p] \in Nat
  <2>1. order \in Seq(Task) /\ posted \in [Poster -> 0..MaxPosts]
    BY Zenon DEF Inv, TypeOK, QueuesOK
  <2>2. Len(order) \in Nat
    BY Zenon, <2>1, SeqType
  <2> QED BY <2>1, <2>2
<1>3. task \notin SeqRange(order)
  <2> SUFFICES ASSUME NEW i \in 1..Len(order), order[i] = task PROVE FALSE
    BY ZenonT(30) DEF SeqRange
  <2>1. order[i][2] <= posted[order[i][1]]
    BY DEF Inv
  <2>2. order[i][1] = p /\ order[i][2] = posted[p] + 1
    BY SMTT(30)
  <2> HIDE DEF task
  <2> QED BY SMTT(30), <1>2, <2>1, <2>2
<1>4. SeqRange(order') = SeqRange(order) \cup {task}
  <2> HIDE DEF task
  <2>1. /\ Len(order') = Len(order) + 1 /\ order'[Len(order) + 1] = task
        /\ \A i \in 1..Len(order) : order'[i] = order[i]
    BY SMTT(30), <1>1, <1>2, SeqAppend
  <2> QED BY <1>2, <2>1 DEF SeqRange
<1>5. Queue' = Append(Queue, task)
  <2> HIDE DEF task
  <2>1. Queue' = (Unread \o local) \o Append(mailbox, task)
    BY <1>1 DEF Queue
  <2> QED BY SMTT(30), <1>1, <2>1, ContainerTypes, AppendToConcat DEF Queue
<1>6. UNCHANGED <<[w \in Worker |-> Todo(w)], runs>>
  BY <1>1 DEF Todo
<1>7. Dispatch!Submit(task)
  <2> HIDE DEF task
  <2> QED BY Zenon, <1>3, <1>4, <1>5, <1>6 DEF Dispatch!Submit, Queue
<1> QED BY <1>1, <1>7

\* The poller moves tasks along the queue without changing it.
LEMMA PollerKeepsQueue == Inv /\ (DrainUpTo \/ AppendShared) => UNCHANGED Dispatch!vars
<1> SUFFICES ASSUME Inv, DrainUpTo \/ AppendShared PROVE UNCHANGED Dispatch!vars
  OBVIOUS
<1>1. UNCHANGED <<order, batch, ran, runs>>
  BY DrainInOrder, AppendInOrder
<1>2. Queue' = Queue
  <2>1. CASE DrainUpTo
    <3>1. /\ local' \o mailbox' = local \o mailbox /\ Unread' = Unread
          /\ local' \in Seq(Task) /\ mailbox' \in Seq(Task)
      BY Zenon, <2>1, DrainInOrder DEF QueuesOK
    <3>0. Unread \in Seq(Task) /\ local \in Seq(Task) /\ mailbox \in Seq(Task)
      BY ContainerTypes
    <3>2. (Unread \o local') \o mailbox' = Unread \o (local' \o mailbox')
      <4>1. ASSUME NEW l \in Seq(Task), NEW m \in Seq(Task)
            PROVE  (Unread \o l) \o m = Unread \o (l \o m)
        BY SMTT(30), <3>0, Assoc
      <4> QED BY Zenon, <3>1, <4>1
    <3>3. (Unread \o local) \o mailbox = Unread \o (local \o mailbox)
      BY SMTT(30), <3>0, Assoc
    <3> QED BY <3>1, <3>2, <3>3 DEF Queue
  <2>2. CASE AppendShared
    <3>1. Unread' = Unread \o local /\ local' = <<>> /\ mailbox' = mailbox
      BY <2>2, AppendInOrder
    <3>2. (Unread \o local) \o <<>> = Unread \o local
      BY ContainerTypes, SeqConcatEmpty
    <3> QED BY <3>1, <3>2 DEF Queue
  <2> QED BY <2>1, <2>2
<1> QED BY <1>1, <1>2 DEF Dispatch!vars, Queue, Todo, SeqRange

\* takeSharedTasks() takes from the front of the queue, or finds nothing.
LEMMA TakeTakes ==
  ASSUME Inv, NEW w \in Worker, TakeShared(w)
  PROVE  Dispatch!Take(w) \/ UNCHANGED Dispatch!vars
<1>1. /\ batch[w] = <<>> /\ ran[w] = 0 /\ ran' = ran
      /\ UNCHANGED <<mailbox, local, order, runs>>
  BY Zenon, TakeInOrder
<1>2. PICK n \in 0..Budget : /\ n <= Len(Unread)
                             /\ batch' = [batch EXCEPT ![w] = SubSeq(Unread, 1, n)]
                             /\ Unread' = Rest(Unread, n)
  BY Zenon, TakeInOrder
<1>3. n \in Nat /\ n <= Budget /\ n \in 0..Len(Unread)
  BY <1>2, ContainerTypes, PosNat
<1> DEFINE ul == Unread \o local
<1>4. n \in 0..Len(ul) /\ n \in 0..Len(Queue) /\ Len(Queue) \in Nat
  BY <1>3, ContainerTypes, SeqType
<1>5. Queue' = Rest(Queue, n)
  <2>1. Rest(ul, n) = Rest(Unread, n) \o local
    BY Zenon, <1>3, ContainerTypes, RestOfConcat
  <2>2. Rest(Queue, n) = Rest(ul, n) \o mailbox
    BY Zenon, <1>4, ContainerTypes, RestOfConcat DEF Queue
  <2> QED BY <1>1, <1>2, <2>1, <2>2 DEF Queue
<1>6. SubSeq(Queue, 1, n) = SubSeq(Unread, 1, n)
  <2>1. /\ SubSeq(Queue, 1, n) \in Seq(Task) /\ Len(SubSeq(Queue, 1, n)) = n
        /\ \A i \in 1..n : SubSeq(Queue, 1, n)[i] = Queue[i]
    BY Zenon, <1>4, ContainerTypes, PrefixType
  <2>2. /\ SubSeq(Unread, 1, n) \in Seq(Task) /\ Len(SubSeq(Unread, 1, n)) = n
        /\ \A i \in 1..n : SubSeq(Unread, 1, n)[i] = Unread[i]
    BY Zenon, <1>3, ContainerTypes, PrefixType
  <2>3. \A i \in 1..n : Queue[i] = Unread[i]
    <3>1. \A i \in 1..Len(ul) : (ul \o mailbox)[i] = ul[i]
      BY ContainerTypes, SeqConcat
    <3>2. \A i \in 1..Len(Unread) : ul[i] = Unread[i]
      BY ContainerTypes, SeqConcat
    <3> QED BY <1>3, <1>4, <3>1, <3>2, ContainerTypes DEF Queue
  <2> QED BY Zenon, <2>1, <2>2, <2>3, SeqSame
<1>7. [v \in Worker |-> Todo(v)]' = [[v \in Worker |-> Todo(v)] EXCEPT ![w] = SubSeq(Queue, 1, n)]
  <2>1. Rest(SubSeq(Unread, 1, n), 0) = SubSeq(Unread, 1, n)
    <3>1. SubSeq(Unread, 1, n) \in Seq(Task) /\ Len(SubSeq(Unread, 1, n)) = n
      BY <1>3, ContainerTypes, PrefixType
    <3> QED BY Zenon, <1>3, <3>1, RestOfNone
  <2>2. Todo(w)' = SubSeq(Unread, 1, n)
    <3>1. batch'[w] = SubSeq(Unread, 1, n) /\ ran'[w] = 0
      BY <1>1, <1>2 DEF Inv, TypeOK, QueuesOK
    <3> QED BY ZenonT(30), <3>1, <2>1 DEF Todo, Rest
  <2>3. \A v \in Worker : v # w => Todo(v)' = Todo(v)
    BY ZenonT(30), <1>1, <1>2 DEF Todo, Inv, TypeOK, QueuesOK
  <2> QED BY Zenon, <1>6, <2>2, <2>3
<1>8. Todo(w) = <<>>
  <2>1. Todo(w) \in Seq(Task) /\ Len(Todo(w)) = Len(batch[w]) - ran[w]
    BY Zenon, TodoType
  <2>2. Len(batch[w]) = 0 /\ ran[w] = 0
    BY Zenon, <1>1, SeqEmpty
  <2>3. Len(Todo(w)) = 0
    BY <2>1, <2>2
  <2> QED BY Zenon, <2>1, <2>3, SeqEmpty
<1>9. CASE n = 0
  <2>1. SubSeq(Queue, 1, 0) = <<>>
    BY <1>4, <1>9, ContainerTypes, PrefixType, SeqEmpty
  <2>2. Rest(Queue, 0) = Queue
    BY ContainerTypes, RestOfNone
  <2>3. [v \in Worker |-> Todo(v)]' = [v \in Worker |-> Todo(v)]
    BY Zenon, <1>7, <1>8, <1>9, <2>1
  <2>4. SeqRange(order)' = SeqRange(order)
    BY <1>1 DEF SeqRange
  <2> QED BY ZenonT(30), <1>1, <1>5, <1>9, <2>2, <2>3, <2>4 DEF Dispatch!vars, Queue
<1>10. CASE n # 0
  <2>1. n \in 1..Budget /\ n <= Len(Queue)
    BY <1>3, <1>4, <1>10, PosNat
  <2>2. Queue' = SubSeq(Queue, n + 1, Len(Queue))
    BY <1>5 DEF Rest
  <2>3. SeqRange(order)' = SeqRange(order)
    BY <1>1 DEF SeqRange
  <2>4. [v \in Worker |-> Todo(v)][w] = <<>>
    BY <1>8
  <2> QED BY ZenonT(30), <1>1, <1>7, <2>1, <2>2, <2>3, <2>4 DEF Dispatch!Take, Queue
<1> QED BY Zenon, <1>9, <1>10

\* executeTasks() runs the first task of what is left of the batch.
LEMMA RunRuns == ASSUME Inv, NEW w \in Worker, RunTask(w) PROVE Dispatch!Run(w)
<1> DEFINE i == ran[w] + 1
<1>1. /\ i \in 1..Len(batch[w]) /\ ran' = [ran EXCEPT ![w] = i]
      /\ UNCHANGED <<mailbox, local, sharedTasks, sharedReadIdx, batch, order>>
      /\ runs' = [runs EXCEPT ![batch[w][i]] = @ + 1]
  BY Zenon, RunInOrder DEF RunTask
<1>2. /\ Todo(w) = SubSeq(batch[w], i, Len(batch[w])) /\ Todo(w) \in Seq(Task)
      /\ Len(Todo(w)) = Len(batch[w]) - ran[w] /\ batch[w] \in Seq(Task)
      /\ Len(batch[w]) \in Nat /\ ran[w] \in Nat
  BY SMTT(30), TodoType DEF Todo
<1>3. Todo(w) # <<>>
  <2>1. Len(Todo(w)) # 0
    <3>1. /\ Len(Todo(w)) = Len(batch[w]) - ran[w] /\ Len(batch[w]) \in Nat /\ ran[w] \in Nat
          /\ ran[w] + 1 \in 1..Len(batch[w])
      BY Zenon, <1>1, <1>2
    <3> QED BY <3>1
  <2> QED BY Zenon, <1>2, <2>1, SeqEmpty
<1>4. Head(Todo(w)) = batch[w][i] /\ Tail(Todo(w)) = SubSeq(batch[w], i + 1, Len(batch[w]))
  <2>1. Len(batch[w]) \in i..Len(batch[w])
    BY SMTT(30), <1>1, <1>2
  <2> HIDE DEF i
  <2> QED BY ZenonT(30), <1>1, <1>2, <2>1, SeqCut
<1>5. [v \in Worker |-> Todo(v)]' = [[v \in Worker |-> Todo(v)] EXCEPT ![w] = Tail(Todo(w))]
  <2>1. Todo(w)' = Tail(Todo(w))
    <3>1. ran'[w] = i /\ batch' = batch
      BY <1>1 DEF Inv, TypeOK, QueuesOK
    <3> HIDE DEF i
    <3> QED BY ZenonT(30), <1>4, <3>1 DEF Todo
  <2>2. \A v \in Worker : v # w => Todo(v)' = Todo(v)
    BY Zenon, <1>1 DEF Todo, Inv, TypeOK, QueuesOK
  <2> QED BY Zenon, <2>1, <2>2
<1>6. UNCHANGED <<SeqRange(order), Queue>>
  BY Zenon, <1>1 DEF SeqRange, Queue, Unread
<1>7. [v \in Worker |-> Todo(v)][w] = Todo(w)
  OBVIOUS
<1> HIDE DEF i
<1> QED BY Zenon, <1>1, <1>3, <1>4, <1>5, <1>6, <1>7 DEF Dispatch!Run, Queue

\* The end of a batch of which nothing is left changes nothing.
LEMMA BatchEnds == ASSUME Inv, NEW w \in Worker, BatchDone(w) PROVE UNCHANGED Dispatch!vars
<1>1. /\ ran[w] = Len(batch[w]) /\ batch' = [batch EXCEPT ![w] = <<>>]
      /\ ran' = [ran EXCEPT ![w] = 0]
      /\ UNCHANGED <<mailbox, local, sharedTasks, sharedReadIdx, order, runs>>
  BY DEF BatchDone
<1>2. Todo(w) = <<>>
  BY <1>1, TodoType, SeqEmpty
<1>3. Todo(w)' = <<>>
  <2>1. batch'[w] = <<>> /\ ran'[w] = 0
    BY <1>1 DEF Inv, TypeOK, QueuesOK
  <2>2. Todo(w)' = SubSeq(<<>>, 1, 0)
    BY <2>1 DEF Todo
  <2> QED BY <2>2, SeqCutNone
<1>4. \A v \in Worker : v # w => Todo(v)' = Todo(v)
  BY ZenonT(30), <1>1 DEF Todo, Inv, TypeOK, QueuesOK
<1>5. UNCHANGED <<SeqRange(order), Queue, runs>>
  BY <1>1 DEF SeqRange, Queue, Unread
<1>6. UNCHANGED [v \in Worker |-> Todo(v)]
  BY <1>2, <1>3, <1>4
<1> QED BY <1>5, <1>6 DEF Dispatch!vars, Queue

\* Every step of the service is one of the abstract queue, or none.
LEMMA DispatchStep == Inv /\ [Next]_vars => [Dispatch!Next]_(Dispatch!vars)
<1> SUFFICES ASSUME Inv, [Next]_vars PROVE Dispatch!Next \/ UNCHANGED Dispatch!vars
  OBVIOUS
<1>1. ASSUME NEW p \in Poster, PushExchange(p) PROVE Dispatch!Next
  BY <1>1, PushSubmits DEF Dispatch!Next
<1>2. ASSUME NEW w \in Worker, TakeShared(w) PROVE Dispatch!Next \/ UNCHANGED Dispatch!vars
  BY <1>2, TakeTakes DEF Dispatch!Next
<1>3. ASSUME NEW w \in Worker, RunTask(w) PROVE Dispatch!Next
  BY <1>3, RunRuns DEF Dispatch!Next
<1>4. ASSUME UNCHANGED <<mailbox, local, sharedTasks, sharedReadIdx, batch, ran, order, runs>>
      PROVE  UNCHANGED Dispatch!vars
  BY Zenon, <1>4 DEF Dispatch!vars, SeqRange, Unread, Todo
<1>5. ASSUME \/ \E p \in Poster : PushLink(p)
             \/ NotifyWorkers
             \/ UNCHANGED QueueVars
      PROVE  UNCHANGED <<mailbox, local, sharedTasks, sharedReadIdx, batch, ran, order, runs>>
  BY Zenon, <1>5 DEF PushLink, NotifyWorkers, QueueVars
<1> QED BY Zenon, <1>1, <1>2, <1>3, <1>4, <1>5, QueueFrame, PollerKeepsQueue, BatchEnds

\* Mailbox, drain budget, shared vector, read index, compaction, batches, stop and
\* restart: to its users IoService is one queue of which workers take batches.
THEOREM Refinement == Spec => ImplementsDispatch
<1>1. Init => Dispatch!Init
  BY SeqCutNone DEF Init, Dispatch!Init, SeqRange, Unread, Todo
<1> QED BY <1>1, DispatchStep, Invariance, PTL DEF Spec, ImplementsDispatch, Dispatch!Spec

-----------------------------------------------------------------------------
(* What the abstract queue promises.                                       *)

\* With Queue, the variables of TaskDispatch under the mapping of Dispatch.
Submitted == SeqRange(order)
Todos == [w \in Worker |-> Todo(w)]

OnceInv == Once(Task, Worker, Submitted, Queue, Todos, runs)

\* TaskDispatch has its own words for what a sequence holds.
LEMMA DispatchWords ==
  \A s : Dispatch!SeqRange(s) = Entries(s) /\ (Dispatch!NoDuplicates(s) <=> NoRepeats(s))
BY DEF Dispatch!SeqRange, Dispatch!NoDuplicates, Entries, NoRepeats

\* The abstract queue keeps each submitted task in one place until it has run, and
\* lets it run once: this uses nothing of the service but its steps as a queue.
THEOREM EachTaskOnce == Dispatch!Spec => []Dispatch!OncePerTask
<1>1. Dispatch!Init => OnceInv
  <2> SUFFICES ASSUME Dispatch!Init PROVE OnceInv
    OBVIOUS
  <2>1. Entries(<<>>) = {} /\ NoRepeats(<<>>) /\ <<>> \in Seq(Task)
    BY SeqEmpty, EmptyEntries
  <2>2. Submitted = {} /\ Queue = <<>> /\ Todos = [w \in Worker |-> <<>>] /\ runs = [t \in Task |-> 0]
    BY DEF Dispatch!Init, Submitted, Queue, Todos
  <2>3. \A w \in Worker : Todos[w] = <<>>
    BY <2>2
  <2>4. Waiting(Worker, Queue, Todos) = {}
    BY <2>1, <2>2, <2>3 DEF Waiting
  <2> QED BY <2>1, <2>2, <2>3, <2>4 DEF OnceInv, Once
<1>2. OnceInv /\ [Dispatch!Next]_(Dispatch!vars) => OnceInv'
  <2> SUFFICES ASSUME Once(Task, Worker, Submitted, Queue, Todos, runs), [Dispatch!Next]_(Dispatch!vars)
               PROVE  Once(Task, Worker, Submitted', Queue', Todos', runs')
    BY DEF OnceInv
  <2>1. ASSUME NEW t \in Task, Dispatch!Submit(t) PROVE Once(Task, Worker, Submitted', Queue', Todos', runs')
    <3>1. /\ t \notin Submitted /\ Submitted' = Submitted \cup {t}
          /\ Queue' = Append(Queue, t) /\ Todos' = Todos /\ runs' = runs
      BY <2>1 DEF Dispatch!Submit, Submitted, Queue, Todos
    <3> QED BY Zenon, <3>1, OnceSubmit
  <2>2. ASSUME NEW w \in Worker, Dispatch!Take(w) PROVE Once(Task, Worker, Submitted', Queue', Todos', runs')
    <3>1. PICK n \in 1..Budget : /\ n <= Len(Queue)
                                 /\ Todos' = [Todos EXCEPT ![w] = SubSeq(Queue, 1, n)]
                                 /\ Queue' = Rest(Queue, n)
      BY Zenon, <2>2 DEF Dispatch!Take, Rest, Queue, Todos
    <3>2. Todos[w] = <<>> /\ Submitted' = Submitted /\ runs' = runs
      BY <2>2 DEF Dispatch!Take, Submitted, Todos
    <3>3. n \in Nat
      BY PosNat
    <3> QED BY Zenon, <3>1, <3>2, <3>3, OnceTake
  <2>3. ASSUME NEW w \in Worker, Dispatch!Run(w) PROVE Once(Task, Worker, Submitted', Queue', Todos', runs')
    <3>1. /\ Todos[w] # <<>> /\ runs' = [runs EXCEPT ![Head(Todos[w])] = @ + 1]
          /\ Todos' = [Todos EXCEPT ![w] = Tail(Todos[w])]
          /\ Submitted' = Submitted /\ Queue' = Queue
      BY <2>3 DEF Dispatch!Run, Submitted, Queue, Todos
    <3> QED BY Zenon, <3>1, OnceRun
  <2>4. CASE UNCHANGED Dispatch!vars
    BY Zenon, <2>4 DEF Dispatch!vars, Submitted, Queue, Todos
  <2> QED BY <2>1, <2>2, <2>3, <2>4 DEF Dispatch!Next
<1>3. OnceInv => Dispatch!OncePerTask
  <2>1. Dispatch!Pending = Waiting(Worker, Queue, Todos)
    BY Zenon, DispatchWords DEF Dispatch!Pending, Waiting, Queue, Todos
  <2>2. Dispatch!OncePerTask <=>
          /\ Dispatch!NoDuplicates(Queue)
          /\ \A w \in Worker : Dispatch!NoDuplicates(Todos[w])
          /\ \A w \in Worker : Dispatch!SeqRange(Todos[w]) \cap Dispatch!SeqRange(Queue) = {}
          /\ \A v, w \in Worker :
               v # w => Dispatch!SeqRange(Todos[v]) \cap Dispatch!SeqRange(Todos[w]) = {}
          /\ Dispatch!Pending \subseteq Submitted
          /\ \A t \in Task : runs[t] = IF t \in Submitted \ Dispatch!Pending THEN 1 ELSE 0
    BY Zenon DEF Dispatch!OncePerTask, Submitted, Queue, Todos
  <2> QED BY <2>1, <2>2, DispatchWords DEF OnceInv, Once
<1> QED BY <1>1, <1>2, <1>3, PTL DEF Dispatch!Spec

\* A posted task is in one container or unfinished batch until it has run, and it
\* runs once, whatever the interleaving, the drain budget and the restarts.
THEOREM TasksRunOnce == Spec => []RunsOnce
BY EachTaskOnce, Refinement, PTL DEF ImplementsDispatch, RunsOnce
=============================================================================
