----------------------------- MODULE EventPoller -----------------------------
(***************************************************************************)
(* src/src/EventPoller.cpp on Linux: the map from descriptors to callbacks *)
(* beside the kernel's epoll set, registered in three phases, and poll(),  *)
(* which dispatches a batch of events without a lock.  A lock section is a *)
(* step; so is a system call.  The wake-up by eventfd is in IoService.     *)
(*                                                                         *)
(* The operators on a thread t are also the steps of TcpServer, where the  *)
(* callbacks do something; here a callback is a moment.                    *)
(***************************************************************************)
EXTENDS Naturals, SequencesExt

CONSTANTS Fd, PollThread, User,
          OneShot,     \* initialize(maxEvents, useOneShot)
          Calls,       \* what users call: "add", "modify", "remove"
          Nobody       \* no callback

Thread == PollThread \cup User

VARIABLES
    eventMap,      \* the callback of each descriptor, or Nobody
    kernel,        \* "out" of the epoll set, "armed", or "disabled" after a one-shot event
    events,        \* the array that epoll_wait fills; it belongs to the poller
    count,         \* how many of them epoll_wait gave to a polling thread
    readyEvents,   \* its own batch
    calling,       \* the callback it has copied
    pc             \* where a thread is

mapVars == <<eventMap, kernel>>
batchVars == <<events, count, readyEvents, calling>>
pollerVars == <<mapVars, batchVars, pc>>

Init ==
    /\ eventMap = [f \in Fd |-> Nobody] /\ kernel = [f \in Fd |-> "out"]
    /\ events = <<>> /\ count = [p \in PollThread |-> 0]
    /\ readyEvents = [p \in PollThread |-> <<>>]
    /\ calling = [p \in PollThread |-> Nobody]
    /\ pc = [t \in Thread |-> IF t \in PollThread THEN "wait" ELSE "idle"]

Goto(t, label) == pc' = [pc EXCEPT ![t] = label]

-----------------------------------------------------------------------------
(* add(), remove() and modify().                                           *)

\* Phase 1: is there a callback for the descriptor?
AddCheck(t, f, then, else) ==
    /\ Goto(t, IF eventMap[f] = Nobody THEN then ELSE else)
    /\ UNCHANGED <<mapVars, batchVars>>

\* Phase 2: epoll_ctl(ADD) fails if the set has the descriptor or it is closed.
AddKernel(t, f, open, then, else) ==
    /\ IF kernel[f] = "out" /\ open
       THEN kernel' = [kernel EXCEPT ![f] = "armed"] /\ Goto(t, then)
       ELSE Goto(t, else) /\ UNCHANGED kernel
    /\ UNCHANGED <<eventMap, batchVars>>

\* Phase 3: insertion, or the kernel's registration is taken back.
AddInsert(t, f, callback, then, else) ==
    /\ IF eventMap[f] = Nobody
       THEN eventMap' = [eventMap EXCEPT ![f] = callback] /\ Goto(t, then) /\ UNCHANGED kernel
       ELSE kernel' = [kernel EXCEPT ![f] = "out"] /\ Goto(t, else) /\ UNCHANGED eventMap
    /\ UNCHANGED batchVars

\* The map after remove(), whatever epoll_ctl(DEL) says.
RemoveFd(f) ==
    /\ eventMap' = [eventMap EXCEPT ![f] = Nobody]
    /\ kernel' = IF eventMap[f] = Nobody THEN kernel ELSE [kernel EXCEPT ![f] = "out"]

\* modify() of a registered descriptor also enables it again.
Modify(f) ==
    /\ eventMap[f] # Nobody /\ kernel[f] # "out"
    /\ kernel' = [kernel EXCEPT ![f] = "armed"]
    /\ UNCHANGED eventMap

-----------------------------------------------------------------------------
(* poll().                                                                 *)

\* epoll_wait writes all that is ready, in any order, over the beginning of
\* events_.  maxEvents is not reached.
EpollWait(p, ready) ==
    LET all == {f \in ready : kernel[f] = "armed"} IN
    /\ pc[p] = "wait" /\ all # {}
    /\ \E batch \in SetToSeqs(all) :
         /\ events' = batch \o SubSeq(events, Len(batch) + 1, Len(events))
         /\ count' = [count EXCEPT ![p] = Len(batch)]
    /\ kernel' = [f \in Fd |-> IF OneShot /\ f \in all THEN "disabled" ELSE kernel[f]]
    /\ Goto(p, "copy")
    /\ UNCHANGED <<eventMap, readyEvents, calling>>

\* The array is only of interest as long as a thread has still to copy from it.
CopyEvents(p) ==
    /\ pc[p] = "copy"
    /\ events' = IF \E q \in PollThread \ {p} : pc[q] = "copy" THEN events ELSE <<>>
    /\ count' = [count EXCEPT ![p] = 0]
    /\ readyEvents' = [readyEvents EXCEPT ![p] = SubSeq(events, 1, count[p])]
    /\ Goto(p, "dispatch")
    /\ UNCHANGED <<mapVars, calling>>

\* The next event of the batch: its callback is copied under the lock, and an
\* event of a descriptor without one is skipped.
Lookup(p) ==
    /\ pc[p] = "dispatch" /\ readyEvents[p] # <<>>
    /\ LET f == Head(readyEvents[p]) IN
         IF eventMap[f] = Nobody
         THEN /\ readyEvents' = [readyEvents EXCEPT ![p] = Tail(@)]
              /\ UNCHANGED <<calling, pc>>
         ELSE /\ calling' = [calling EXCEPT ![p] = eventMap[f]]
              /\ Goto(p, "call")
              /\ UNCHANGED readyEvents
    /\ UNCHANGED <<mapVars, events, count>>

BatchDone(p) ==
    /\ pc[p] = "dispatch" /\ readyEvents[p] = <<>>
    /\ Goto(p, "wait")
    /\ UNCHANGED <<mapVars, batchVars>>

\* The callback of the first event of the batch is over.
CallEnds(p) ==
    /\ readyEvents' = [readyEvents EXCEPT ![p] = Tail(@)]
    /\ calling' = [calling EXCEPT ![p] = Nobody]

\* What follows a callback: a one-shot descriptor that is still registered is
\* enabled again.
CallReturns(p) ==
    LET f == Head(readyEvents[p]) IN
    /\ kernel' = IF OneShot /\ eventMap[f] # Nobody THEN [kernel EXCEPT ![f] = "armed"] ELSE kernel
    /\ CallEnds(p)
    /\ Goto(p, "dispatch")
    /\ UNCHANGED <<eventMap, events, count>>

PollSteps(p, ready) ==
    \/ EpollWait(p, ready) \/ CopyEvents(p) \/ Lookup(p) \/ BatchDone(p)

-----------------------------------------------------------------------------
(* The poller by itself: each descriptor is always ready, and is its own   *)
(* user, which registers and removes it.                                   *)

UserCalls(u) ==
    /\ pc[u] = "idle"
    /\ \/ "add" \in Calls /\ AddCheck(u, u, "kernel", "idle")
       \/ "remove" \in Calls /\ RemoveFd(u) /\ UNCHANGED <<batchVars, pc>>
       \/ "modify" \in Calls /\ Modify(u) /\ UNCHANGED <<batchVars, pc>>

UserSteps(u) ==
    \/ UserCalls(u)
    \/ pc[u] = "kernel" /\ AddKernel(u, u, TRUE, "insert", "idle")
    \/ pc[u] = "insert" /\ AddInsert(u, u, u, "idle", "idle")

Next ==
    \/ \E u \in User : UserSteps(u)
    \/ \E p \in PollThread : PollSteps(p, Fd) \/ (pc[p] = "call" /\ CallReturns(p))

Spec == Init /\ [][Next]_pollerVars

\* EventPoller.h: EPOLLONESHOT makes concurrent calls of poll() safe, "no
\* duplicate dispatch for the same fd": two threads are never in callbacks of
\* the same descriptor.
NoDuplicateDispatch ==
    \A p, q \in PollThread :
        p # q /\ pc[p] = "call" /\ pc[q] = "call" => Head(readyEvents[p]) # Head(readyEvents[q])
=============================================================================
