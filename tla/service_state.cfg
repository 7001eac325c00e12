CONSTANTS
    Handshakes <- MCHandshakes
    NoController = NoController
    WildcardId = FALSE
    SkipVersionCheck = FALSE
    ConnectInterval = 2
    ConnectIntervalMax = 8
    BackoffNum = 3
    BackoffDen = 2
    Units = {"degC", "degF"}
    DefaultUnit = "degC"
    MaxWrites = 3
SPECIFICATION ServiceStateSpec
INVARIANTS
    ServiceStateTypeOK
    EventsConsistent
    StatusConsistent
    SettingsApplied
    LocalAgrees
    SynchronizedUnit
PROPERTIES
    ImplementsServiceLevel
    
