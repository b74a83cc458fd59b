---------------------------- MODULE TaskDispatch ----------------------------
(***************************************************************************)
(* What IoService promises its users: submitted tasks form one queue;      *)
(* a free worker takes a batch from the front; each worker runs its batch  *)
(* in order.  No threads, flags, counters or wakeups: those are             *)
(* IoService's business, which implements this specification.              *)
(***************************************************************************)
EXTENDS Integers, Sequences

CONSTANTS Task,      \* the tasks that may be submitted
          Worker,    \* the threads that run them
          Budget     \* the longest batch

VARIABLES submitted,   \* the tasks handed to post()
          queue,       \* tasks no worker has taken, oldest first
          todo,        \* each worker's tasks still to run
          runs         \* how often each task has run

vars == <<submitted, queue, todo, runs>>

Init ==
    /\ submitted = {}
    /\ queue = <<>>
    /\ todo = [w \in Worker |-> <<>>]
    /\ runs = [t \in Task |-> 0]

\* post() hands over a task.
Submit(t) ==
    /\ t \notin submitted
    /\ submitted' = submitted \cup {t}
    /\ queue' = Append(queue, t)
    /\ UNCHANGED <<todo, runs>>

\* takeSharedTasks(): a free worker takes a batch from the front.
Take(w) ==
    /\ todo[w] = <<>>
    /\ \E n \in 1..Budget :
         /\ n <= Len(queue)
         /\ todo' = [todo EXCEPT ![w] = SubSeq(queue, 1, n)]
         /\ queue' = SubSeq(queue, n + 1, Len(queue))
    /\ UNCHANGED <<submitted, runs>>

\* executeTasks(): the next task of the batch runs.
Run(w) ==
    /\ todo[w] # <<>>
    /\ runs' = [runs EXCEPT ![Head(todo[w])] = @ + 1]
    /\ todo' = [todo EXCEPT ![w] = Tail(@)]
    /\ UNCHANGED <<submitted, queue>>

Next == \/ \E t \in Task : Submit(t)
        \/ \E w \in Worker : Take(w) \/ Run(w)

Spec == Init /\ [][Next]_vars

-----------------------------------------------------------------------------
SeqRange(s) == {s[i] : i \in 1..Len(s)}
NoDuplicates(s) == \A i, j \in 1..Len(s) : s[i] = s[j] => i = j
Pending == SeqRange(queue) \cup UNION {SeqRange(todo[w]) : w \in Worker}

\* A submitted task is in exactly one place, the queue or one worker's batch,
\* until it has run, and it runs once: post() never loses or repeats a task.
OncePerTask ==
    /\ NoDuplicates(queue)
    /\ \A w \in Worker : NoDuplicates(todo[w])
    /\ \A w \in Worker : SeqRange(todo[w]) \cap SeqRange(queue) = {}
    /\ \A v, w \in Worker : v # w => SeqRange(todo[v]) \cap SeqRange(todo[w]) = {}
    /\ Pending \subseteq submitted
    /\ \A t \in Task : runs[t] = IF t \in submitted \ Pending THEN 1 ELSE 0
=============================================================================
