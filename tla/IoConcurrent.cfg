SPECIFICATION AllSpec
CONSTANTS
  t1 = t1 t2 = t2
  p1 = p1 p2 = p2 w1 = w1 w2 = w2
  Poller = Poller  Owner = Owner  None = None
  Poster <- Posters2
  Worker <- Workers1
  MaxPosts = 2
  MaxStarts = 1
  OwnerCalls <- NeverStops
  SpawnFails = FALSE
  Budget = 1
  MaxSpin = 0
  SizeMod = 16
  StoreBuffer = TRUE
CHECK_DEADLOCK FALSE
SYMMETRY Interchangeable
INVARIANTS Inv PendingCountExact OneOwner
PROPERTIES ImplementsDispatch
