SPECIFICATION AllSpec
CONSTANTS
    k1 = k1
    k2 = k2
    t1 = t1
    t2 = t2
    t3 = t3
    w1 = w1
    w2 = w2
    c1 = c1
    c2 = c2
    NoTimer = NoTimer
    NoConn = NoConn
    Client <- TwoClients
    Timer <- ThreeTimers
    Repeating <- OneRepeats
    Worker <- TwoWorkers
    Conn <- TwoConns
    MaxStops = 2
    MaxPosted = 2
CHECK_DEADLOCK FALSE
INVARIANTS CancelledIsSilent TimersExact
PROPERTIES ImplementsTimerService OnlyTheLastStart TimersFire
