CONSTANTS
    Clients = {c1, c2}
    Waiters = {w1}
    Modulus = 3
    MaxCommands = 6
SPECIFICATION FairSpec
INVARIANTS
    TypeOK
    ActiveExact
    OwnResponse
    WaitEmptyDrains
PROPERTIES
    ImplementsRequestReply
    WaitersWoken
