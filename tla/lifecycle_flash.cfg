CONSTANTS
    Handshakes <- MCControllers
    NoController = NoController
    WildcardId = FALSE
    SkipVersionCheck = FALSE
    ConnectInterval = 2
    ConnectIntervalMax = 3
    BackoffNum = 3
    BackoffDen = 2
    Callers = {c1}
    Ops = {"clear", "settings"}
    Flashers = {f1, f2}
    MaxFaults = 1
    MaxChecks = 1
    MaxLegacyNames = 0
SPECIFICATION FairSpec
INVARIANTS
    UploadHasControllerAlone
PROPERTIES
    ImplementsHandler
    UpdatesEnd
