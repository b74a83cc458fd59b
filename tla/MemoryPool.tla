----------------------------- MODULE MemoryPool -----------------------------
(***************************************************************************)
(* src/include/FastNet/MemoryPool.h: MemoryPool, with a list of free       *)
(* blocks behind mutex_, a cache in each thread and the lock-free stack    *)
(* returnQueue_, and BufferPool, from which TcpClient and TcpServer take   *)
(* the buffers they read into.  Lists are linked as in the code: a head    *)
(* and the next of each block.  A lock section or an access to             *)
(* returnQueue_ is a step, with what the thread does by itself.            *)
(***************************************************************************)
EXTENDS Naturals, SequencesExt

CONSTANTS Thread,
          MaxBlocks,            \* memory: more is bad_alloc
          FirstGrowth,          \* 32
          LocalCacheRefill,     \* kLocalCacheRefill, 16
          DrainThreshold,       \* kLocalCacheDrainThreshold, 64
          MaxBuffers,           \* memory, in buffers
          SmallLimit, LargeLimit   \* 128 and 64 buffers in a cache

VARIABLES
    p,       \* the members of MemoryPool
    th,      \* a thread: where it is, the chain or the block it holds, the head it read
    inUse,   \* blocks the application has
    b        \* the buffers: their capacities, the caches, returnedBuffers_ and those in use

poolVars == <<p, th, inUse, b>>

Nil == 0

\* The blocks of a list; a cycle shows as a chain that is too long.
RECURSIVE ChainUpTo(_, _, _)
ChainUpTo(next, head, n) ==
    IF head = Nil \/ n = 0 THEN <<>> ELSE <<head>> \o ChainUpTo(next, next[head], n - 1)
Chain(q, head) == ChainUpTo(q.next, head, MaxBlocks + 1)

\* A chain goes to the front of freeList_.
Prepend(q, chain) ==
    [q EXCEPT !.next[Last(chain)] = q.free, !.free = chain[1], !.freeCount = @ + Len(chain)]

\* The blocks of the new chunk are linked one before the other.
ExpandPoolUnlocked(q, n) ==
    [q EXCEPT !.total = @ + n, !.freeCount = @ + n, !.free = q.total + n,
              !.next = [i \in 1 .. MaxBlocks |->
                          CASE i = q.total + 1 -> q.free
                            [] i \in q.total + 2 .. q.total + n -> i - 1
                            [] OTHER -> @[i]]]

Idle == [pc |-> "idle", chain |-> <<>>, block |-> Nil, head |-> Nil]

PoolInit ==
    /\ p = ExpandPoolUnlocked([next |-> [i \in 1 .. MaxBlocks |-> Nil], free |-> Nil, returnQueue |-> Nil,
                               total |-> 0, freeCount |-> 0, allocated |-> 0, cached |-> 0,
                               cache |-> [t \in Thread |-> Nil], count |-> [t \in Thread |-> 0]], 1)
    /\ th = [t \in Thread |-> Idle]
    /\ inUse = {}
    /\ b = [capacity |-> <<>>, small |-> [t \in Thread |-> <<>>], large |-> [t \in Thread |-> <<>>],
            returned |-> <<>>, used |-> {}]

Goto(t, state) == th' = [th EXCEPT ![t] = state]

\* allocate(): drainReturnQueue() takes the whole stack.
Allocate(t) ==
    LET chain == Chain(p, p.returnQueue) IN
    /\ th[t].pc = "idle"
    /\ p' = [p EXCEPT !.returnQueue = Nil]
    /\ Goto(t, [Idle EXCEPT !.pc = IF chain = <<>> THEN "cache" ELSE "prepend", !.chain = chain])
    /\ UNCHANGED <<inUse, b>>

PrependReturned(t) ==
    /\ th[t].pc = "prepend"
    /\ p' = Prepend(p, th[t].chain)
    /\ Goto(t, [Idle EXCEPT !.pc = "cache"])
    /\ UNCHANGED <<inUse, b>>

TakeFromCache(t) ==
    LET block == p.cache[t] IN
    /\ th[t].pc = "cache" /\ block # Nil
    /\ p' = [p EXCEPT !.cache[t] = p.next[block], !.next[block] = Nil, !.count[t] = @ - 1,
                      !.cached = @ - 1, !.allocated = @ + 1]
    /\ inUse' = inUse \cup {block}
    /\ Goto(t, Idle)
    /\ UNCHANGED b

\* The first blocks of freeList_ go to the cache, one after the other.
FillCache(q, t) ==
    LET n == Min({LocalCacheRefill, q.freeCount})
        taken == SubSeq(Chain(q, q.free), 1, n)
    IN  [q EXCEPT !.free = q.next[taken[n]], !.freeCount = @ - n, !.cached = @ + n,
                  !.cache[t] = taken[n], !.count[t] = @ + n,
                  !.next = [i \in DOMAIN @ |->
                              IF i \notin ToSet(taken) THEN @[i]
                              ELSE IF i = taken[1] THEN q.cache[t]
                              ELSE taken[CHOOSE k \in 1 .. n - 1 : taken[k + 1] = i]]]

\* The lock section of the slow path; without memory allocate() returns nullptr.
Refill(t) ==
    LET total == p.allocated + p.freeCount
        grow == IF total = 0 THEN FirstGrowth ELSE (total \div 2) + 1
    IN  /\ th[t].pc = "cache" /\ p.cache[t] = Nil
        /\ \/ /\ p.free # Nil
              /\ p' = FillCache(p, t) /\ UNCHANGED th
           \/ /\ p.free = Nil /\ p.total + grow <= MaxBlocks
              /\ p' = FillCache(ExpandPoolUnlocked(p, grow), t) /\ UNCHANGED th
           \/ /\ p.free = Nil
              /\ Goto(t, Idle) /\ UNCHANGED p
    /\ UNCHANGED <<inUse, b>>

\* deallocate(): the block goes to the cache of the thread that returns it, and of
\* a cache that overflows half is detached, in reverse.
Deallocate(t, block) ==
    LET pushed == [p EXCEPT !.allocated = @ - 1, !.cached = @ + 1, !.count[t] = @ + 1,
                            !.next[block] = p.cache[t], !.cache[t] = block]
        drained == SubSeq(Chain(pushed, block), 1, pushed.count[t] \div 2)
    IN  /\ th[t].pc = "idle"
        /\ inUse' = inUse \ {block}
        /\ IF pushed.count[t] > DrainThreshold
           THEN /\ p' = [pushed EXCEPT !.cache[t] = pushed.next[Last(drained)],
                                       !.count[t] = @ - Len(drained),
                                       !.next = [i \in DOMAIN @ |->
                                                   IF i \notin ToSet(drained) THEN @[i]
                                                   ELSE IF i = drained[1] THEN Nil
                                                   ELSE drained[CHOOSE k \in DOMAIN drained : drained[k + 1] = i]]]
                /\ Goto(t, [Idle EXCEPT !.pc = "giveBack", !.chain = Reverse(drained)])
           ELSE p' = pushed /\ UNCHANGED th
        /\ UNCHANGED b

GiveBack(t) ==
    /\ th[t].pc = "giveBack"
    /\ p' = [Prepend(p, th[t].chain) EXCEPT !.cached = @ - Len(th[t].chain)]
    /\ Goto(t, Idle)
    /\ UNCHANGED <<inUse, b>>

DeallocateFromOtherThread(t, block) ==
    /\ th[t].pc = "idle"
    /\ inUse' = inUse \ {block}
    /\ p' = [p EXCEPT !.allocated = @ - 1]
    /\ Goto(t, [Idle EXCEPT !.pc = "push", !.block = block, !.head = p.returnQueue])
    /\ UNCHANGED b

\* Mutation of PushReturned: the head is stored without comparing.
PushReturnedBlindly(t) ==
    /\ th[t].pc = "push"
    /\ p' = [p EXCEPT !.next[th[t].block] = th[t].head, !.returnQueue = th[t].block]
    /\ Goto(t, Idle)
    /\ UNCHANGED <<inUse, b>>

\* The compare-and-swap, which gives the current head when it fails.
PushReturned(t) ==
    LET linked == [p EXCEPT !.next[th[t].block] = th[t].head] IN
    /\ th[t].pc = "push"
    /\ IF p.returnQueue = th[t].head
       THEN p' = [linked EXCEPT !.returnQueue = th[t].block] /\ Goto(t, Idle)
       ELSE p' = linked /\ Goto(t, [th[t] EXCEPT !.head = p.returnQueue])
    /\ UNCHANGED <<inUse, b>>

WarmUp(n) ==
    /\ p.total + n <= MaxBlocks
    /\ p' = ExpandPoolUnlocked(p, n)
    /\ UNCHANGED <<th, inUse, b>>

\* What the destructor does in the thread t before the chunks go: returnQueue_ and
\* its own cache are emptied into freeList_.
Destroy(t) ==
    LET returned == Chain(p, p.returnQueue)
        drained == [(IF returned = <<>> THEN p ELSE Prepend(p, returned)) EXCEPT !.returnQueue = Nil]
        own == Chain(drained, drained.cache[t])
    IN  /\ inUse = {} /\ \A u \in Thread : th[u].pc = "idle"
        /\ p' = [(IF own = <<>> THEN drained ELSE Prepend(drained, own))
                   EXCEPT !.cached = @ - drained.count[t], !.cache[t] = Nil, !.count[t] = 0]
        /\ th' = [u \in Thread |-> [Idle EXCEPT !.pc = "destroyed"]]
        /\ UNCHANGED <<inUse, b>>

MemoryNext ==
    \/ \E t \in Thread :
         \/ Allocate(t) \/ PrependReturned(t) \/ TakeFromCache(t) \/ Refill(t)
         \/ GiveBack(t) \/ PushReturned(t) \/ Destroy(t)
         \/ \E block \in inUse : Deallocate(t, block) \/ DeallocateFromOtherThread(t, block)
    \/ (\A t \in Thread : th[t].pc # "destroyed") /\ WarmUp(1)

-----------------------------------------------------------------------------
(* BufferPool.  A capacity is 0, or of a small, a large or a larger buffer. *)

Small == 1
Large == 2
Huge == 3

\* drainReturnQueue(): each returned buffer goes to a cache of the thread that
\* drains, as its capacity and the limits say, or it is deleted.
Keep(t, q, buf) ==
    IF q.capacity[buf] <= Small /\ Len(q.small[t]) < SmallLimit THEN [q EXCEPT !.small[t] = Append(@, buf)]
    ELSE IF q.capacity[buf] <= Large /\ Len(q.large[t]) < LargeLimit THEN [q EXCEPT !.large[t] = Append(@, buf)]
    ELSE q
DrainReturnQueue(t) ==
    FoldLeft(LAMBDA q, buf : Keep(t, q, buf), [b EXCEPT !.returned = <<>>], b.returned)

NewBuffer(q, capacity) == [q EXCEPT !.capacity = Append(@, capacity)]

\* A cached buffer of the class asked for, or a new one; reserve() only enlarges it,
\* and if it throws the buffer is deleted.
AllocateReservedBuffer(t, size) ==
    LET q == DrainReturnQueue(t)
        from == CASE size = Small /\ q.small[t] # <<>> -> "small"
                  [] size = Large /\ q.large[t] # <<>> -> "large"
                  [] OTHER -> "new"
        took == CASE from = "small" -> [q EXCEPT !.small[t] = Front(@)]
                  [] from = "large" -> [q EXCEPT !.large[t] = Front(@)]
                  [] from = "new" -> NewBuffer(q, 0)
        buf == CASE from = "small" -> Last(q.small[t])
                 [] from = "large" -> Last(q.large[t])
                 [] from = "new" -> Len(took.capacity)
    IN  \/ /\ buf <= MaxBuffers
           /\ b' = [took EXCEPT !.capacity[buf] = IF @ < size THEN size ELSE @, !.used = @ \cup {buf}]
        \/ from = "new" /\ b' = q
        \/ from # "new" /\ took.capacity[buf] < size /\ b' = took

\* The last owner, in any thread, lets go of the buffer, which it may have enlarged;
\* without memory for the queue it is deleted.
ReturnBuffer(buf, capacity) ==
    /\ buf \in b.used /\ capacity >= b.capacity[buf]
    /\ \/ b' = [b EXCEPT !.used = @ \ {buf}, !.capacity[buf] = capacity, !.returned = Append(@, buf)]
       \/ b' = [b EXCEPT !.used = @ \ {buf}]

\* One turn of each loop of warmUp().
WarmUpBuffers(t) ==
    /\ Len(b.capacity) < MaxBuffers
    /\ \/ Len(b.small[t]) < SmallLimit
          /\ b' = [NewBuffer(b, Small) EXCEPT !.small[t] = Append(@, Len(b.capacity) + 1)]
       \/ Len(b.large[t]) < LargeLimit
          /\ b' = [NewBuffer(b, Large) EXCEPT !.large[t] = Append(@, Len(b.capacity) + 1)]

\* A thread ends, and the destructor of its cache deletes the buffers in it.
ThreadEnds(t) == b' = [b EXCEPT !.small[t] = <<>>, !.large[t] = <<>>]

BufferNext ==
    /\ \/ \E t \in Thread :
            WarmUpBuffers(t) \/ ThreadEnds(t) \/ \E size \in {Small, Large, Huge} : AllocateReservedBuffer(t, size)
       \/ \E buf \in b.used, capacity \in {Small, Large, Huge} : ReturnBuffer(buf, capacity)
    /\ UNCHANGED <<p, th, inUse>>

-----------------------------------------------------------------------------
\* What the threads hold, one after the other.
OfThreads(Of(_)) == FlattenSeq([i \in DOMAIN SetToSeq(Thread) |-> Of(SetToSeq(Thread)[i])])

\* The blocks that the application does not have, list by list.
ListedBlocks ==
    Chain(p, p.free) \o Chain(p, p.returnQueue)
        \o OfThreads(LAMBDA t : Chain(p, p.cache[t]) \o th[t].chain \o SelectSeq(<<th[t].block>>, LAMBDA x : x # Nil))

ListedBuffers == b.returned \o OfThreads(LAMBDA t : b.small[t] \o b.large[t])

\* Every block ever made is in one place: with the application, in one list, once,
\* or in the hand of a thread that is about to link it into one; the counts of
\* getStats() are those of the lists when no call is going on (blocks on
\* returnQueue_ are in none of them).  A buffer likewise has one owner, or is in one
\* cache or the queue, so that two sessions never read into the same one; no cache
\* exceeds its limit, or keeps a buffer above its size.
OneOwner ==
    /\ IsInjective(ListedBlocks) /\ ToSet(ListedBlocks) = (1 .. p.total) \ inUse
    /\ p.freeCount = Len(Chain(p, p.free))
    /\ \A t \in Thread : p.count[t] = Len(Chain(p, p.cache[t]))
    /\ (\A t \in Thread : th[t].chain = <<>>) =>
         /\ p.allocated = Cardinality(inUse)
         /\ p.cached = Len(OfThreads(LAMBDA t : Chain(p, p.cache[t])))
    /\ IsInjective(ListedBuffers) /\ ToSet(ListedBuffers) \cap b.used = {}
    /\ \A t \in Thread :
         /\ Len(b.small[t]) <= SmallLimit /\ \A buf \in ToSet(b.small[t]) : b.capacity[buf] <= Small
         /\ Len(b.large[t]) <= LargeLimit /\ \A buf \in ToSet(b.large[t]) : b.capacity[buf] <= Large
=============================================================================
