CONSTANTS
    Handshakes <- MCControllers
    NoController = NoController
    WildcardId = FALSE
    SkipVersionCheck = FALSE
    ConnectInterval = 2
    ConnectIntervalMax = 3
    BackoffNum = 3
    BackoffDen = 2
    Callers = {}
    Ops = {"block", "rename"}
    Flashers = {f1}
    MaxFaults = 2
    MaxChecks = 1
    MaxLegacyNames = 1
SPECIFICATION Spec
INVARIANTS
    StoppedOnlyDuringUpdate
