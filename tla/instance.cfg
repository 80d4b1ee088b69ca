CONSTANTS
    gui = gui
    worker = worker
    plugin = plugin
    Thread <- MCThread
    MaxInstance = 3
    MaxInit = 2
    Concurrent = FALSE
SPECIFICATION Spec
INVARIANTS
    TypeOK
    ReleaseIsCounted
    HolderHasSingleton
    LoopsOnLivingInstance
    LastReleaseDestroys
PROPERTIES
    ImplementsSharedInstance
    CallsReturn
CHECK_DEADLOCK FALSE
