SPECIFICATION FairSpec
CONSTANTS
    a1 = a1
    a2 = a2
    c1 = c1
    c2 = c2
    Caller <- TwoCallers
    Owner = Owner
    Maintenance = Maintenance
    Conn <- TwoConns
    NoConn = NoConn
    MinConnections = 1
    MaxConnections = 1
    AcquireTimeout = 1
    Mod32 = 8
    Mod64 = 16
    MaxInits = 1
INVARIANTS OnePlace CountsHold
PROPERTIES ShutdownReturns
