CONSTANTS
    u1 = u1
    u2 = u2
    InvalidId = InvalidId
    NoUserId = NoUserId
    NoHandler = NoHandler
    Empty = Empty
    UserId <- MCUserId
    PingInterval = 1
    PongTimeout = 5
    Expiration = 10
    NetDelay = 1
    MaxLag = 1
    Fragile <- MCAll
    MaxFault = 1
    MaxCrash = 0
    Forgets = FALSE
    Breakable = FALSE
    ClockJump = 0
    ClockBack = 0
SPECIFICATION Spec
ACTION_CONSTRAINT MCFirstId
PROPERTIES
    LivePlayerServed
