----------------------------- MODULE IoService -----------------------------
(***************************************************************************)
(* The task path of src/src/IoService.cpp: any number of threads post()    *)
(* tasks into a lock-free mailbox (include/FastNet/MpscQueue.h), the        *)
(* poller thread moves them to a shared vector, worker threads take and    *)
(* run them.  The poller sleeps in epoll_wait and is woken through the      *)
(* eventfd of src/src/EventPoller.cpp; the workers sleep on a condition     *)
(* variable.  One owner thread calls start(), stop() and join().            *)
(*                                                                         *)
(* One action is one access to memory that another thread can observe.      *)
(***************************************************************************)
EXTENDS Integers, Sequences, FiniteSets

CONSTANTS
    Poster,      \* threads that call post()
    Worker,      \* the worker threads, threadCount of them
    Poller,      \* the poller thread
    Owner,       \* the thread that starts, stops and joins the service
    None,        \* "no thread": cvMutex is free
    MaxPosts,    \* bound: posts of each poster
    MaxStarts,   \* bound: calls of start() that get past the started check
    OwnerCalls,  \* which of stop() ("none") and join() ("join") the owner calls
    SpawnFails,  \* TRUE: creating a thread may throw
    Budget,      \* kMailboxDrainBudget
    MaxSpin,     \* kMaxSpinIterations
    SizeMod,     \* 2^w for the width w of size_t
    StoreBuffer  \* TRUE: the poller's plain release store may be delayed

ASSUME PosNat == /\ MaxPosts \in Nat /\ MaxStarts \in Nat
                 /\ Budget \in Nat \ {0} /\ MaxSpin \in Nat
                 /\ SizeMod \in Nat \ {0} /\ StoreBuffer \in BOOLEAN
                 /\ OwnerCalls \subseteq {"none", "join"} /\ SpawnFails \in BOOLEAN
ASSUME Distinct == /\ Poller \notin Poster \cup Worker
                   /\ Owner \notin Poster \cup Worker \cup {Poller}
                   /\ Poster \cap Worker = {}
                   /\ None \notin Worker

Thread == Poster \cup Worker \cup {Poller, Owner}
Task == Poster \X (1..MaxPosts)

VARIABLES
    pc,                 \* the next step of each thread
    posted,             \* how many tasks each poster has posted
    mailbox,            \* nodes of the mailbox, in the order of the exchanges
    linked,             \* tasks whose predecessor's next points to them
    pendingCount,
    wakeupPending,      \* EventPoller::Impl::wakeupPending_
    eventfd,            \* the eventfd is readable
    buffered,           \* the poller's wakeupPending_ = false is still buffered
    local, drained,     \* drainMailbox's local vector and its count
    spinCount, blocking, last,    \* pollerLoop's locals; last: after the loop
    sharedTasks, sharedReadIdx, availableTaskCount,
    batch, ran,         \* a worker's batch and how much of it has run
    cvMutex, asleep,    \* the mutex and the wait set of taskCond
    running, started, pollerUp,   \* pollerUp: the poller's descriptors are open
    op, starts,         \* the owner's current call; starts so far
    order, taken, runs  \* history: exchange order, hand-over order, runs

postVars == <<posted, mailbox, linked, order>>
wakeVars == <<wakeupPending, eventfd, buffered>>
pollVars == <<local, drained, spinCount, blocking, last>>
shareVars == <<sharedTasks, sharedReadIdx, taken>>
workVars == <<batch, ran, runs, cvMutex>>
ownVars == <<running, started, pollerUp, op, starts>>
vars == <<pc, postVars, pendingCount, wakeVars, pollVars, shareVars,
          availableTaskCount, workVars, asleep, ownVars>>

Goto(t, label) == pc' = [pc EXCEPT ![t] = label]

\* The part of sharedTasks no worker has taken.
Unread == SubSeq(sharedTasks, sharedReadIdx + 1, Len(sharedTasks))

Smaller(a, b) == IF a < b THEN a ELSE b

Init ==
    /\ pc = [t \in Thread |-> IF t \in Poster \cup {Owner} THEN "idle" ELSE "off"]
    /\ posted = [p \in Poster |-> 0]
    /\ mailbox = <<>> /\ linked = {} /\ pendingCount = 0
    /\ wakeupPending = FALSE /\ eventfd = FALSE /\ buffered = FALSE
    /\ local = <<>> /\ drained = 0 /\ spinCount = 0 /\ blocking = FALSE /\ last = FALSE
    /\ sharedTasks = <<>> /\ sharedReadIdx = 0 /\ availableTaskCount = 0
    /\ batch = [w \in Worker |-> <<>>] /\ ran = [w \in Worker |-> 0]
    /\ cvMutex = None /\ asleep = {}
    /\ running = FALSE /\ started = FALSE /\ pollerUp = FALSE
    /\ op = "none" /\ starts = 0
    /\ order = <<>> /\ taken = <<>> /\ runs = [t \in Task |-> 0]

-----------------------------------------------------------------------------
(* post(): MpscQueue::push is an exchange of head_ and then the store that *)
(* links the new node; the counter and the wakeup follow.                  *)

PushExchange(p) ==
    /\ pc[p] = "idle" /\ posted[p] < MaxPosts
    /\ LET task == <<p, posted[p] + 1>> IN
         /\ mailbox' = Append(mailbox, task)
         /\ order' = Append(order, task)
    /\ posted' = [posted EXCEPT ![p] = @ + 1]
    /\ Goto(p, "link")
    /\ UNCHANGED <<linked, pendingCount, wakeVars, pollVars, shareVars,
                   availableTaskCount, workVars, asleep, ownVars>>

PushLink(p) ==
    /\ pc[p] = "link"
    /\ linked' = linked \cup {<<p, posted[p]>>}
    /\ Goto(p, "count")
    /\ UNCHANGED <<posted, mailbox, order, pendingCount, wakeVars, pollVars,
                   shareVars, availableTaskCount, workVars, asleep, ownVars>>

PostCount(p) ==
    /\ pc[p] = "count"
    /\ pendingCount' = (pendingCount + 1) % SizeMod
    /\ Goto(p, "started")
    /\ UNCHANGED <<postVars, wakeVars, pollVars, shareVars, availableTaskCount,
                   workVars, asleep, ownVars>>

PostStarted(p) ==
    /\ pc[p] = "started"
    /\ Goto(p, IF started THEN "wakeFd" ELSE "idle")
    /\ UNCHANGED <<postVars, pendingCount, wakeVars, pollVars, shareVars,
                   availableTaskCount, workVars, asleep, ownVars>>

-----------------------------------------------------------------------------
(* EventPoller::wakeup(), called by posters and by the owner.              *)

\* Where the caller goes on: in join() and in start()'s rollback the joins.
Return(t) == IF t = Owner /\ op \in {"join", "rollback"} THEN "join" ELSE "idle"

WakeFd(t) ==
    /\ pc[t] = "wakeFd"
    /\ Goto(t, IF pollerUp THEN "wakeCas" ELSE Return(t))
    /\ UNCHANGED <<postVars, pendingCount, wakeVars, pollVars, shareVars,
                   availableTaskCount, workVars, asleep, ownVars>>

WakeCas(t) ==
    /\ pc[t] = "wakeCas"
    /\ wakeupPending' = TRUE
    /\ Goto(t, IF wakeupPending THEN Return(t) ELSE "wakeWrite")
    /\ UNCHANGED <<postVars, pendingCount, eventfd, buffered, pollVars, shareVars,
                   availableTaskCount, workVars, asleep, ownVars>>

\* Mutation of WakeWrite: nothing is written, and the flag stays.
WakeNotWritten(t) ==
    /\ pc[t] = "wakeWrite"
    /\ Goto(t, Return(t))
    /\ UNCHANGED <<postVars, pendingCount, wakeVars, pollVars, shareVars,
                   availableTaskCount, workVars, asleep, ownVars>>

\* A write to a descriptor that shutdown() has closed fails, and the flag is
\* taken back.
WakeWrite(t) ==
    /\ pc[t] = "wakeWrite"
    /\ IF pollerUp THEN eventfd' = TRUE /\ UNCHANGED wakeupPending
                   ELSE wakeupPending' = FALSE /\ UNCHANGED eventfd
    /\ Goto(t, Return(t))
    /\ UNCHANGED <<postVars, pendingCount, buffered, pollVars, shareVars,
                   availableTaskCount, workVars, asleep, ownVars>>

-----------------------------------------------------------------------------
(* pollerLoop() and drainMailbox(), the poller thread.                     *)

LoopTest ==
    /\ pc[Poller] = "loop"
    /\ last' = ~running
    /\ Goto(Poller, "drain")
    /\ UNCHANGED <<postVars, pendingCount, wakeVars, local, drained, spinCount,
                   blocking, shareVars, availableTaskCount, workVars, asleep, ownVars>>

AfterDrain == IF last THEN "exited" ELSE "decide"

\* drainUpTo stops after n nodes: at the budget, or at the first node whose
\* producer is still between its exchange and its store, or at the end.
DrainStops(n) ==
    /\ \A i \in 1..n : mailbox[i] \in linked
    /\ n < Smaller(Budget, Len(mailbox)) => mailbox[n + 1] \notin linked

\* The pops of the single consumer commute with the producers' steps, so the
\* walk is one step, taken when its last next pointer is read.
DrainUpTo ==
    /\ pc[Poller] = "drain"
    /\ \E n \in 0..Smaller(Budget, Len(mailbox)) :
         /\ DrainStops(n)
         /\ local' = SubSeq(mailbox, 1, n)
         /\ mailbox' = SubSeq(mailbox, n + 1, Len(mailbox))
         /\ linked' = linked \ {mailbox[i] : i \in 1..n}
         /\ Goto(Poller, IF n = 0 THEN AfterDrain ELSE "append")
    /\ UNCHANGED <<posted, order, pendingCount, wakeVars, drained, spinCount, blocking,
                   last, shareVars, availableTaskCount, workVars, asleep,
                   ownVars>>

\* Under sharedTasksLock.  Taking the lock empties the store buffer.
AppendShared ==
    /\ pc[Poller] = "append" /\ ~buffered
    /\ sharedTasks' = sharedTasks \o local
    /\ drained' = Len(local)
    /\ local' = <<>>
    /\ Goto(Poller, "count")
    /\ UNCHANGED <<postVars, pendingCount, wakeVars, spinCount, blocking, last,
                   sharedReadIdx, taken, availableTaskCount, workVars, asleep, ownVars>>

\* availableTaskCount.fetch_add, after the lock is released.
CountAvailable ==
    /\ pc[Poller] = "count"
    /\ availableTaskCount' = (availableTaskCount + drained) % SizeMod
    /\ Goto(Poller, "notify")
    /\ UNCHANGED <<postVars, pendingCount, wakeVars, pollVars, shareVars,
                   workVars, asleep, ownVars>>

\* notify_one for one task, notify_all for more; cvMutex is not held.
NotifyWorkers ==
    /\ pc[Poller] = "notify"
    /\ IF drained # 1 \/ asleep = {} THEN asleep' = {}
       ELSE \E w \in asleep : asleep' = asleep \ {w}
    /\ drained' = 0
    /\ Goto(Poller, AfterDrain)
    /\ UNCHANGED <<postVars, pendingCount, wakeVars, local, spinCount, blocking, last,
                   shareVars, availableTaskCount, workVars, ownVars>>

\* hasTasks, and with it the timeout of the next poll: 0, or -1 (blocking)
\* once MaxSpin idle rounds have gone by.
DecideTimeout ==
    /\ pc[Poller] = "decide"
    /\ blocking' = (availableTaskCount = 0 /\ spinCount >= MaxSpin)
    /\ spinCount' = IF availableTaskCount > 0 THEN 0 ELSE Smaller(spinCount + 1, MaxSpin)
    /\ Goto(Poller, "poll")
    /\ UNCHANGED <<postVars, pendingCount, wakeVars, local, drained, last, shareVars,
                   availableTaskCount, workVars, asleep, ownVars>>

\* epoll_wait returns the eventfd, alone or together with socket events; it
\* is read until empty.
PollWoken ==
    /\ pc[Poller] = "poll" /\ ~buffered
    /\ eventfd
    /\ eventfd' = FALSE
    /\ spinCount' \in {spinCount, 0} /\ blocking' = FALSE
    /\ Goto(Poller, "clear")
    /\ UNCHANGED <<postVars, pendingCount, wakeupPending, buffered, local, drained,
                   last, shareVars, availableTaskCount, workVars, asleep,
                   ownVars>>

\* timeout 0 and nothing is ready.
PollTimeout ==
    /\ pc[Poller] = "poll" /\ ~buffered
    /\ ~blocking /\ ~eventfd
    /\ Goto(Poller, "loop")
    /\ UNCHANGED <<postVars, pendingCount, wakeVars, pollVars, shareVars,
                   availableTaskCount, workVars, asleep, ownVars>>

\* epoll_wait returns for other descriptors only, whose callbacks run here
\* (spinCount is reset), or for a signal (EINTR).
PollEvents ==
    /\ pc[Poller] = "poll" /\ ~buffered
    /\ ~eventfd
    /\ spinCount' \in {spinCount, 0} /\ blocking' = FALSE
    /\ Goto(Poller, "loop")
    /\ UNCHANGED <<postVars, pendingCount, wakeVars, local, drained, last,
                   shareVars, availableTaskCount, workVars, asleep, ownVars>>

\* wakeupPending_.store(false, release): a plain store, which may wait in the
\* store buffer while the poller goes on to read.
ClearPending ==
    /\ pc[Poller] = "clear"
    /\ IF StoreBuffer THEN buffered' = TRUE /\ UNCHANGED wakeupPending
                      ELSE wakeupPending' = FALSE /\ UNCHANGED buffered
    /\ Goto(Poller, "loop")
    /\ UNCHANGED <<postVars, pendingCount, eventfd, pollVars, shareVars,
                   availableTaskCount, workVars, asleep, ownVars>>

FlushBuffer ==
    /\ buffered
    /\ buffered' = FALSE /\ wakeupPending' = FALSE
    /\ UNCHANGED <<pc, postVars, pendingCount, eventfd, pollVars, shareVars,
                   availableTaskCount, workVars, asleep, ownVars>>

-----------------------------------------------------------------------------
(* workerThread().  In the final loop, after running was found false, the  *)
(* labels are "lastTake" and "lastExec".                                   *)

\* Mutation of TakeShared: the read index survives the compaction.
TakeSharedKeepsIdx(w) ==
    /\ pc[w] \in {"take", "lastTake"}
    /\ LET n == Smaller(Len(Unread), Budget)
           idx == sharedReadIdx + n
       IN  /\ batch' = [batch EXCEPT ![w] = SubSeq(Unread, 1, n)]
           /\ taken' = taken \o SubSeq(Unread, 1, n)
           /\ sharedReadIdx' = idx
           /\ sharedTasks' = IF idx > 0 /\ idx >= Len(sharedTasks) \div 2
                               THEN SubSeq(sharedTasks, idx + 1, Len(sharedTasks))
                               ELSE sharedTasks
           /\ availableTaskCount' = (availableTaskCount - n) % SizeMod
           /\ Goto(w, IF pc[w] = "take"
                        THEN IF n > 0 THEN "exec" ELSE "test"
                        ELSE IF n > 0 THEN "lastExec" ELSE "exited")
    /\ UNCHANGED <<postVars, pendingCount, wakeVars, pollVars, ran, runs, cvMutex,
                   asleep, ownVars>>

\* Mutation of TakeShared: the batch is not limited.
TakeSharedAll(w) ==
    /\ pc[w] \in {"take", "lastTake"}
    /\ LET n == Len(Unread)
           idx == sharedReadIdx + n
       IN  /\ batch' = [batch EXCEPT ![w] = SubSeq(Unread, 1, n)]
           /\ taken' = taken \o SubSeq(Unread, 1, n)
           /\ IF idx > 0 /\ idx >= Len(sharedTasks) \div 2
                THEN /\ sharedTasks' = SubSeq(sharedTasks, idx + 1, Len(sharedTasks))
                     /\ sharedReadIdx' = 0
                ELSE sharedReadIdx' = idx /\ UNCHANGED sharedTasks
           /\ availableTaskCount' = (availableTaskCount - n) % SizeMod
           /\ Goto(w, IF pc[w] = "take"
                        THEN IF n > 0 THEN "exec" ELSE "test"
                        ELSE IF n > 0 THEN "lastExec" ELSE "exited")
    /\ UNCHANGED <<postVars, pendingCount, wakeVars, pollVars, ran, runs, cvMutex,
                   asleep, ownVars>>

\* takeSharedTasks: under sharedTasksLock, the counter included.  The taken
\* prefix is erased once it is at least half of the vector.
TakeShared(w) ==
    /\ pc[w] \in {"take", "lastTake"}
    /\ LET n == Smaller(Len(Unread), Budget)
           idx == sharedReadIdx + n
       IN  /\ batch' = [batch EXCEPT ![w] = SubSeq(Unread, 1, n)]
           /\ taken' = taken \o SubSeq(Unread, 1, n)
           /\ IF idx > 0 /\ idx >= Len(sharedTasks) \div 2
                THEN /\ sharedTasks' = SubSeq(sharedTasks, idx + 1, Len(sharedTasks))
                     /\ sharedReadIdx' = 0
                ELSE sharedReadIdx' = idx /\ UNCHANGED sharedTasks
           /\ availableTaskCount' = (availableTaskCount - n) % SizeMod
           /\ Goto(w, IF pc[w] = "take"
                        THEN IF n > 0 THEN "exec" ELSE "test"
                        ELSE IF n > 0 THEN "lastExec" ELSE "exited")
    /\ UNCHANGED <<postVars, pendingCount, wakeVars, pollVars, ran, runs, cvMutex,
                   asleep, ownVars>>

\* Mutation of RunTask: a task that throws is tried again.
RunTaskAgain(w) ==
    /\ pc[w] \in {"exec", "lastExec"} /\ ran[w] < Len(batch[w])
    /\ runs' = [runs EXCEPT ![batch[w][ran[w] + 1]] = @ + 1]
    /\ \/ ran' = [ran EXCEPT ![w] = @ + 1]
       \/ runs[batch[w][ran[w] + 1]] = 0 /\ UNCHANGED ran
    /\ UNCHANGED <<pc, postVars, pendingCount, wakeVars, pollVars, shareVars,
                   availableTaskCount, batch, cvMutex, asleep, ownVars>>

\* executeTasks runs the next task of the batch; an exception ends the task.
RunTask(w) ==
    /\ pc[w] \in {"exec", "lastExec"} /\ ran[w] < Len(batch[w])
    /\ runs' = [runs EXCEPT ![batch[w][ran[w] + 1]] = @ + 1]
    /\ ran' = [ran EXCEPT ![w] = @ + 1]
    /\ UNCHANGED <<pc, postVars, pendingCount, wakeVars, pollVars, shareVars,
                   availableTaskCount, batch, cvMutex, asleep, ownVars>>

\* Mutation of BatchDone: the batch stays counted.
BatchDoneUncounted(w) ==
    /\ pc[w] \in {"exec", "lastExec"} /\ ran[w] = Len(batch[w])
    /\ UNCHANGED pendingCount
    /\ batch' = [batch EXCEPT ![w] = <<>>]
    /\ ran' = [ran EXCEPT ![w] = 0]
    /\ Goto(w, IF pc[w] = "exec" THEN "take" ELSE "lastTake")
    /\ UNCHANGED <<postVars, wakeVars, pollVars, shareVars, availableTaskCount,
                   runs, cvMutex, asleep, ownVars>>

\* executeTasks ends: the whole batch leaves pendingCount at once.
BatchDone(w) ==
    /\ pc[w] \in {"exec", "lastExec"} /\ ran[w] = Len(batch[w])
    /\ pendingCount' = (pendingCount - Len(batch[w])) % SizeMod
    /\ batch' = [batch EXCEPT ![w] = <<>>]
    /\ ran' = [ran EXCEPT ![w] = 0]
    /\ Goto(w, IF pc[w] = "exec" THEN "take" ELSE "lastTake")
    /\ UNCHANGED <<postVars, wakeVars, pollVars, shareVars, availableTaskCount,
                   runs, cvMutex, asleep, ownVars>>

TestRunning(w) ==
    /\ pc[w] = "test"
    /\ Goto(w, IF running THEN "lock" ELSE "lastTake")
    /\ UNCHANGED <<postVars, pendingCount, wakeVars, pollVars, shareVars,
                   availableTaskCount, workVars, asleep, ownVars>>

\* Entering the wait, and coming back from it once notified.
LockMutex(w) ==
    /\ \/ pc[w] = "lock"
       \/ pc[w] = "sleep" /\ w \notin asleep
    /\ cvMutex = None
    /\ cvMutex' = w
    /\ Goto(w, "predTasks")
    /\ UNCHANGED <<postVars, pendingCount, wakeVars, pollVars, shareVars,
                   availableTaskCount, batch, ran, runs, asleep, ownVars>>

\* The wait's predicate: two loads, each a step of its own.
PredTasks(w) ==
    /\ pc[w] = "predTasks"
    /\ IF availableTaskCount > 0
         THEN cvMutex' = None /\ Goto(w, "take")
         ELSE UNCHANGED cvMutex /\ Goto(w, "predRunning")
    /\ UNCHANGED <<postVars, pendingCount, wakeVars, pollVars, shareVars,
                   availableTaskCount, batch, ran, runs, asleep, ownVars>>

PredRunning(w) ==
    /\ pc[w] = "predRunning"
    /\ IF running
         THEN UNCHANGED cvMutex /\ Goto(w, "wait")
         ELSE cvMutex' = None /\ Goto(w, "take")
    /\ UNCHANGED <<postVars, pendingCount, wakeVars, pollVars, shareVars,
                   availableTaskCount, batch, ran, runs, asleep, ownVars>>

WaitOnCond(w) ==
    /\ pc[w] = "wait"
    /\ asleep' = asleep \cup {w}
    /\ cvMutex' = None
    /\ Goto(w, "sleep")
    /\ UNCHANGED <<postVars, pendingCount, wakeVars, pollVars, shareVars,
                   availableTaskCount, batch, ran, runs, ownVars>>

\* A condition variable may wake a waiter without a notification.
SpuriousWake(w) ==
    /\ w \in asleep
    /\ asleep' = asleep \ {w}
    /\ UNCHANGED <<pc, postVars, pendingCount, wakeVars, pollVars, shareVars,
                   availableTaskCount, workVars, ownVars>>

-----------------------------------------------------------------------------
(* start(), stop() and join(), called by the owner.                        *)

\* start(): the threads ws and, if p, the poller are created.  When that is
\* not all of them, std::thread has thrown and start() rolls back.
Start(ws, p) ==
    /\ pc[Owner] = "idle" /\ ~started /\ starts < MaxStarts
    /\ pollerUp' = TRUE
    /\ wakeupPending' = FALSE /\ eventfd' = FALSE
    /\ running' = TRUE /\ started' = TRUE
    /\ starts' = starts + 1
    /\ spinCount' = 0
    /\ op' = IF p /\ ws = Worker THEN "none" ELSE "rollback"
    /\ pc' = [t \in Thread |->
                IF t = Poller /\ p THEN "loop"
                ELSE IF t \in ws THEN "take"
                ELSE IF t = Owner /\ ~(p /\ ws = Worker) THEN "rollback" ELSE pc[t]]
    /\ UNCHANGED <<postVars, pendingCount, buffered, local, drained, blocking, last,
                   shareVars, availableTaskCount, workVars, asleep>>

\* The catch block of start().
Rollback ==
    /\ pc[Owner] = "rollback"
    /\ running' = FALSE /\ started' = FALSE
    /\ Goto(Owner, "notify")
    /\ UNCHANGED <<postVars, pendingCount, wakeVars, pollVars, shareVars,
                   availableTaskCount, workVars, asleep, pollerUp, op, starts>>

\* stop(), called by itself (call = "none") or as the first step of join().
Stop(call) ==
    /\ pc[Owner] = "idle" /\ started
    /\ running' = FALSE
    /\ op' = call
    /\ Goto(Owner, "notify")
    /\ UNCHANGED <<postVars, pendingCount, wakeVars, pollVars, shareVars,
                   availableTaskCount, workVars, asleep, started, pollerUp, starts>>

\* taskCond.notify_all(), without cvMutex; the wakeup of the poller follows.
NotifyAll ==
    /\ pc[Owner] = "notify"
    /\ asleep' = {}
    /\ Goto(Owner, "wakeFd")
    /\ UNCHANGED <<postVars, pendingCount, wakeVars, pollVars, shareVars,
                   availableTaskCount, workVars, ownVars>>

\* The joins of the poller and of every worker that was created, then
\* EventPoller::shutdown(), then started = false.
JoinThreads ==
    /\ pc[Owner] = "join"
    /\ \A t \in Worker \cup {Poller} : pc[t] \in {"off", "exited"}
    /\ ~buffered
    /\ pollerUp' = FALSE
    /\ wakeupPending' = FALSE /\ eventfd' = FALSE
    /\ started' = FALSE
    /\ op' = "none"
    /\ pc' = [t \in Thread |-> IF t \in Worker \cup {Poller} THEN "off"
                               ELSE IF t = Owner THEN "idle" ELSE pc[t]]
    /\ UNCHANGED <<postVars, pendingCount, buffered, pollVars, shareVars,
                   availableTaskCount, workVars, asleep, running, starts>>

-----------------------------------------------------------------------------
Wakeup(t) == WakeFd(t) \/ WakeCas(t) \/ WakeWrite(t)

PosterStep(p) == PushLink(p) \/ PostCount(p) \/ PostStarted(p) \/ Wakeup(p)

PollerStep == \/ LoopTest \/ DrainUpTo \/ AppendShared \/ CountAvailable
              \/ NotifyWorkers \/ DecideTimeout \/ PollWoken \/ PollTimeout
              \/ ClearPending

WorkerStep(w) == \/ TakeShared(w) \/ RunTask(w) \/ BatchDone(w) \/ TestRunning(w)
                 \/ LockMutex(w) \/ PredTasks(w) \/ PredRunning(w) \/ WaitOnCond(w)

OwnerStep == Rollback \/ NotifyAll \/ Wakeup(Owner) \/ JoinThreads

Next ==
    \/ \E p \in Poster : PushExchange(p) \/ PosterStep(p)
    \/ PollerStep \/ PollEvents \/ FlushBuffer
    \/ \E w \in Worker : WorkerStep(w) \/ SpuriousWake(w)
    \/ Start(Worker, TRUE)
    \/ \E ws \in SUBSET Worker, p \in BOOLEAN :
         SpawnFails /\ (ws = {} \/ p) /\ Start(ws, p)
    \/ \E call \in OwnerCalls : Stop(call)
    \/ OwnerStep

\* Every thread that is inside a call keeps running.  Nobody has to call
\* post, start, stop or join; sockets need not become ready, and condition
\* variables need not wake up spuriously.
Fairness ==
    /\ WF_vars(PollerStep) /\ WF_vars(FlushBuffer) /\ WF_vars(OwnerStep)
    /\ \A w \in Worker : WF_vars(WorkerStep(w))
    /\ \A p \in Poster : WF_vars(PosterStep(p))

Spec == Init /\ [][Next]_vars
FairSpec == Spec /\ Fairness

-----------------------------------------------------------------------------
(* Properties.                                                             *)

PosterLabel == {"idle", "link", "count", "started", "wakeFd", "wakeCas", "wakeWrite"}
PollerLabel == {"off", "loop", "drain", "append", "count", "notify", "decide", "poll",
                "clear", "exited"}
WorkerLabel == {"off", "take", "exec", "test", "lock", "predTasks", "predRunning",
                "wait", "sleep", "lastTake", "lastExec", "exited"}
OwnerLabel == {"idle", "rollback", "notify", "wakeFd", "wakeCas", "wakeWrite", "join"}

ControlOK ==
    /\ pc \in [Thread -> PosterLabel \cup PollerLabel \cup WorkerLabel \cup OwnerLabel]
    /\ \A p \in Poster : pc[p] \in PosterLabel
    /\ \A w \in Worker : pc[w] \in WorkerLabel
    /\ pc[Poller] \in PollerLabel /\ pc[Owner] \in OwnerLabel

QueuesOK ==
    /\ posted \in [Poster -> 0..MaxPosts]
    /\ mailbox \in Seq(Task) /\ linked \subseteq Task
    /\ local \in Seq(Task) /\ drained \in Nat
    /\ sharedTasks \in Seq(Task) /\ sharedReadIdx \in Nat
    /\ batch \in [Worker -> Seq(Task)] /\ ran \in [Worker -> Nat]
    /\ order \in Seq(Task) /\ taken \in Seq(Task) /\ runs \in [Task -> Nat]

CountersOK ==
    /\ pendingCount \in 0..SizeMod - 1 /\ availableTaskCount \in 0..SizeMod - 1
    /\ spinCount \in 0..MaxSpin /\ starts \in 0..MaxStarts

FlagsOK ==
    /\ wakeupPending \in BOOLEAN /\ eventfd \in BOOLEAN /\ buffered \in BOOLEAN
    /\ blocking \in BOOLEAN /\ last \in BOOLEAN
    /\ running \in BOOLEAN /\ started \in BOOLEAN /\ pollerUp \in BOOLEAN
    /\ cvMutex \in Worker \cup {None} /\ asleep \subseteq Worker
    /\ op \in {"none", "join", "rollback"}

\* The shapes of the threads' program counters, of the queues and of the
\* service's flags and counters.
TypeOK == ControlOK /\ QueuesOK /\ CountersOK /\ FlagsOK

\* The tasks handed to the workers, followed by those waiting in sharedTasks,
\* in the poller's local vector and in the mailbox, are exactly the posted
\* tasks in the order of their exchanges: along mailbox, drain budget, shared
\* vector, read index and compaction no task is lost, duplicated or overtaken,
\* across stop and restart too.
HandOverInOrder == order = taken \o Unread \o local \o mailbox

\* The part of worker w's batch that has not run yet.
Todo(w) == SubSeq(batch[w], ran[w] + 1, Len(batch[w]))

SeqRange(s) == {s[i] : i \in 1..Len(s)}

\* The service as its users see it: the tasks between post() and a worker's
\* batch are one queue, whichever of the three containers they are in.
Dispatch == INSTANCE TaskDispatch
    WITH submitted <- SeqRange(order), queue <- Unread \o local \o mailbox,
         todo <- [w \in Worker |-> Todo(w)]

\* The whole service, with its unsynchronised notifications, wrapping
\* counters, partial starts and restarts, only ever does what the abstract
\* task queue does.
ImplementsDispatch == Dispatch!Spec

\* A posted task is in exactly one container or unfinished batch until it has
\* run, and it runs once, also when it crosses a stop and a restart.
RunsOnce == Dispatch!OncePerTask

\* availableTaskCount, which drainMailbox raises only after it has released
\* the lock, may wrap around below zero in between, but is the number of
\* untaken tasks whenever the poller is not in that window.
AvailableCountExact ==
    availableTaskCount = (Len(Unread) - (IF pc[Poller] = "count" THEN drained ELSE 0)) % SizeMod

\* The inductive invariant behind the safety properties: the read index stays
\* inside sharedTasks, local is empty outside drainMailbox, no thread is left
\* when start() may create new ones, a worker has a batch only while it
\* executes one, and no poster has used its next task.
Inv ==
    /\ TypeOK /\ HandOverInOrder /\ AvailableCountExact
    /\ sharedReadIdx <= Len(sharedTasks)
    /\ pc[Poller] # "append" => local = <<>>
    /\ pc[Owner] = "rollback" => op = "rollback"
    /\ op = "none" /\ pc[Owner] # "idle" => started
    /\ pc[Owner] = "idle" /\ ~started => \A t \in Worker \cup {Poller} : pc[t] = "off"
    /\ \A p \in Poster : pc[p] = "link" => posted[p] > 0
    /\ \A i \in 1..Len(order) : order[i][2] <= posted[order[i][1]]
    /\ \A w \in Worker :
         /\ ran[w] <= Len(batch[w])
         /\ pc[w] \notin {"exec", "lastExec"} => batch[w] = <<>> /\ ran[w] = 0

\* join() returns: once it waits for the threads, all of them end, but for a worker
\* that sleeps for ever, since stop() notified it between its test and its sleep.
JoinReturns == (pc[Owner] = "join") ~> (pc[Owner] # "join" \/ [](asleep # {}))
=============================================================================
