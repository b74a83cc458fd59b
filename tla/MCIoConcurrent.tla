---------------------------- MODULE MCIoConcurrent ---------------------------
(***************************************************************************)
(* The IoService with nobody who stops it, or the pools that its threads   *)
(* share: the MemoryPool or the BufferPool.  A behaviour is one of them.   *)
(***************************************************************************)
EXTENDS MCIoService

CONSTANTS t1, t2

VARIABLES which, p, th, inUse, b

Pool == INSTANCE MemoryPool
    WITH Thread <- {t1, t2}, MaxBlocks <- 4, FirstGrowth <- 2, LocalCacheRefill <- 2,
         DrainThreshold <- 1, MaxBuffers <- 3, SmallLimit <- 1, LargeLimit <- 1

Interchangeable == Permutations({t1, t2})

poolVars == <<p, th, inUse, b>>
allVars == <<which, vars, poolVars>>

AllInit == which \in {"service", "memory", "buffers"} /\ Init /\ Pool!PoolInit

AllNext ==
    /\ UNCHANGED which
    /\ \/ which = "service" /\ Next /\ UNCHANGED poolVars
       \/ which = "memory" /\ Pool!MemoryNext /\ UNCHANGED vars
       \/ which = "buffers" /\ Pool!BufferNext /\ UNCHANGED vars

AllSpec == AllInit /\ [][AllNext]_allVars

\* A block or buffer is in one list or in one hand, and none is lost, while threads
\* allocate, free their own and each other's, and drain the lock-free return queue.
OneOwner == which \in {"memory", "buffers"} => Pool!OneOwner
==============================================================================
