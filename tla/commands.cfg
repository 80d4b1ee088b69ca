CONSTANTS
    register = register
    close = close
    play = play
    open1 = open1
    open2 = open2
    NoCommand = NoCommand
    Listed <- MCListed
    Open <- MCOpen
    Register <- MCRegister
    Foreign <- MCForeign
SPECIFICATION Spec
INVARIANTS
    TypeOK
    WalkAsksEachOnce
    OnlyContextEventsForget
PROPERTIES
    CommandsLeave
CHECK_DEADLOCK FALSE
