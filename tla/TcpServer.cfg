SPECIFICATION ServerSpec
CONSTANTS
    a1 = a1
    p1 = p1
    c1 = c1
    c2 = c2
    l = l
    n1 = n1
    n2 = n2
    Nobody = Nobody
    Fd <- Numbers
    Listen = l
    PollThread <- OnePoller
    User <- OneApp
    OneShot = FALSE
    Calls = {}
    Conn <- TwoConns
    Limits <- OneOrTwo
    MaxStarts = 1
    MaxBroadcasts = 1
CHECK_DEADLOCK FALSE
INVARIANTS SessionsExact BroadcastReaches
 
