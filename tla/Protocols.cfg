SPECIFICATION AllSpec
CONSTANTS
    kMaxHeaderCount = 3
    kChunkedEncodeBlockSize = 1
    maxRequestSize = 14
    CompactBytes = 6
    RequestTimeout = TRUE
    Handlers <- Routes
    StaticPrefixes = {}
    DefaultHandler = TRUE
    Replies <- ReplySet
    Method <- MethodSet
    MaxSessions = 2
    Requests <- RequestSet
    MaxRequests = 2
    MaxCalls = 2
    MaxConnects = 1
    Asked <- AskSet
    maxRedirects = 1
    DefaultTimeout = 1
    Scripts <- ScriptSet
    Threads = {t1, t2}
    Directory <- Dir
    Canonical <- CanonicalPaths
    Sizes = {0, 2}
    CacheLimits = {1, 2}
    FileRequests <- FileAsks
    MaxWrites = 2
    ShortLimit = 3
    Base = 3
    LongBytes = 3
    MaskKey <- Key
    kMaxClientBufferSize = 16
    ServerProtocols <- Protocols
    ClientProtocols <- Protocols
    MaxConnections = 1
    Payloads = {3, 9}
    MaxSent = 2
    MaxPings = 1
    PeerFrames <- PeerFrameSet
    PeerReplies <- PeerReplySet
SYMMETRY Interchangeable
INVARIANTS ServedInOrder   MessagesExact 
\* A peer that is done, or has sent what it may, leaves nothing to do.
CHECK_DEADLOCK FALSE
