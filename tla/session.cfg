CONSTANTS
    u1 = u1
    u2 = u2
    InvalidId = InvalidId
    NoUserId = NoUserId
    NoHandler = NoHandler
    Empty = Empty
    UserId <- MCUserId
    PingInterval = 1
    PongTimeout = 5
    Expiration = 10
    NetDelay = 1
    MaxLag = 1
    Fragile <- MCAll
    MaxFault = 2
    MaxCrash = 1
    Forgets = TRUE
    Breakable = TRUE
    ClockJump = 11
    ClockBack = 2
SPECIFICATION TimedSpec
ACTION_CONSTRAINT MCFirstId
INVARIANTS
    TypeOK
    HandlerHoldsOurId
    RegistersOnce
    OfflineHasCause
    SilenceIsHeard
    PingsGoOn
    ServedInTime
    RegisteredInTime
PROPERTIES
    UndisturbedClientServed
