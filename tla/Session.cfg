SPECIFICATION Spec
CONSTANTS
    a1 = a1
    w1 = w1
    App <- OneApp
    Worker <- OneWorker
    Poller = Poller
    MaxSends = 2
    MaxRetimed = 1
    ItemSize = 2
    Tls = TRUE
    AtStart <- WriteTimeout
    Settings <- OtherTimeouts
CHECK_DEADLOCK FALSE
INVARIANTS WireInOrder NothingStalls CallbackProtocol
PROPERTIES ClosesWhenFlushed
