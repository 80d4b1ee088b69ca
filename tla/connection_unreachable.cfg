CONSTANTS
    MaxClient = 2
    MaxFault = 1
SPECIFICATION Safety
INVARIANTS
    InitSurvives
CHECK_DEADLOCK FALSE
