SPECIFICATION AllSpec
CONSTANTS
    a1 = a1
    w1 = w1
    Callback = Callback
    App <- OneApp
    Worker <- OneWorker
    Poller = Poller
    MaxConnects = 2
    MaxCalls = 3
    ItemSize = 1
    Settable <- WriteTimeout
    Timeouts <- ConnectTimeout
CHECK_DEADLOCK FALSE
INVARIANTS  NothingStranded StopReceiveStops AgreesWithMap
