CONSTANTS
    ping = ping
    openContext = openContext
    c1 = c1
    c2 = c2
    c3 = c3
    pong = pong
    NoId = NoId
    Empty = Empty
    Absent = Absent
    Request <- MCRequest
    Reused <- MCPing
    Droppable <- MCContext
    Foreign <- MCContext
    CorrId <- MCIds
    Body <- MCBody
    Expiration = 1
SPECIFICATION Safety
SYMMETRY IdSymmetry
INVARIANTS
    NoAnswerMisrouted
