SPECIFICATION AllSpec
CONSTANTS
    p1 = p1
    p2 = p2
    p3 = p3
    Caller <- ThreeCallers
    Careless <- OneCareless
    ThreadCount <- TwoCounts
    Configured = 3
    Hardware = 2
    kMaxThreadPoolSize = 4
    Lazy = TRUE
INVARIANTS RefCountExact HoldersServed ResourcesExact
PROPERTIES SleepersWake
