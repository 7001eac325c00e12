CONSTANTS
    Modulus = 3
    MaxMessages = 5
    MaxChunks = 3
    MaxDamage = 4
    MaxText = 6
    Packets = 3
    IndexModulus = 4
    ConnectAttempts = 2
    HandshakeTries = 2
    ReadyReads = 2
    MaxPrompts = 2
    MaxRefusals = 2
    MaxMerged = 1
    MaxHandshakes = 4
SPECIFICATION TransportsSpec
INVARIANTS
    TransportsTypeOK
    DeliveredWhole
    LossesBounded
    
    UploadIsFile
PROPERTIES
    UploadsEnd
    
CHECK_DEADLOCK FALSE
