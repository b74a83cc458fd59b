SPECIFICATION LifeSpec
CONSTANTS
  p1 = p1 p2 = p2 w1 = w1 w2 = w2
  Poller = Poller  Owner = Owner  None = None
  Poster <- Posters1
  Worker <- Workers1
  MaxPosts = 1
  MaxStarts = 2
  OwnerCalls <- StopAndJoin
  SpawnFails = TRUE
  Budget = 1
  MaxSpin = 0
  SizeMod = 16
  StoreBuffer = FALSE
CHECK_DEADLOCK FALSE
INVARIANTS TasksSurvive
 
