CONSTANTS
    gui = gui
    worker = worker
    plugin = plugin
    Thread <- MCThread
    MaxInstance = 2
    MaxInit = 1
    Concurrent = TRUE
SPECIFICATION Safety
SYMMETRY ThreadSymmetry
INVARIANTS
    ReleaseIsCounted
CHECK_DEADLOCK FALSE
