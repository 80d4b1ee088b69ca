CONSTANTS
    MaxClient = 4
    MaxFault = 2
SPECIFICATION Spec
INVARIANTS
    TypeOK
    ReadyMeansReachable
    FailureIsReported
    FailureHasCause
PROPERTIES
    MailboxIsOurs
CHECK_DEADLOCK FALSE
