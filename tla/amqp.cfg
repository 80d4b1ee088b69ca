CONSTANTS
    ping = ping
    openContext = openContext
    c1 = c1
    c2 = c2
    c3 = c3
    pong = pong
    NoId = NoId
    Empty = Empty
    Absent = Absent
    Request <- MCRequest
    Reused <- MCPing
    Droppable <- MCContext
    Foreign <- MCContext
    CorrId <- MCTwoIds
    Body <- MCBody
    Expiration = 1
SPECIFICATION Spec
INVARIANTS
    TypeOK
    StoredAnswerIsFinal
    OneOwner
    WaitedNotRefused
    LateAnswerRefused
    OwnAnswerNotMisrouted
PROPERTIES
    EveryCallSettles
    ImplementsAsyncCall
