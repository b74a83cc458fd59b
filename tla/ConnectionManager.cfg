SPECIFICATION BothSpec
CONSTANTS
    s1 = s1
    b1 = b1
    b2 = b2
    Service <- OneService
    Backend <- OneBackend
    MaxPoolSize = 3
    FailureThreshold = 1
    HalfOpenAttempts = 2
    CircuitBreakerEnabled = TRUE
    RecoveryTimeout = 1
    IdleTimeout = 1
    MaxConnectionId = 3
INVARIANTS IdleUsable PoolBounded BooksExact
PROPERTIES BreakerProtocol HalfOpenBounded Recovers
