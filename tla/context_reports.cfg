CONSTANTS
    ctx1 = ctx1
    ctx2 = ctx2
    NoContext = NoContext
    OurId = OurId
    InvalidId = InvalidId
    Context <- MCContext
    MaxEvents = 4
    MaxFault = 2
SPECIFICATION Spec
SYMMETRY ContextSymmetry
INVARIANTS
    TypeOK
    OnlyOvertakenReportsMislead
CHECK_DEADLOCK FALSE
