CONSTANTS
    Handshakes <- MCControllers
    NoController = NoController
    WildcardId = FALSE
    SkipVersionCheck = FALSE
    ConnectInterval = 2
    ConnectIntervalMax = 3
    BackoffNum = 3
    BackoffDen = 2
    Callers = {c1}
    Ops = {"block", "rename"}
    Flashers = {}
    MaxFaults = 3
    MaxChecks = 2
    MaxLegacyNames = 1
SPECIFICATION FairSpec
INVARIANTS
    TypeOK
    
    CheckedIsCompatible
PROPERTIES
    
    EventuallySynchronized
    TasksEnd
