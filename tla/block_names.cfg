CONSTANTS
    Callers = {"c1", "c2"}
    Ops <- MCOps
    Created <- MCCreated
    Synchronizer = "sync"
    NoOne = "nobody"
    Sids = {"a", "b", "sys"}
    NoSid = "none"
    UserNids = {100}
    SystemNames <- MCSystemNames
    Backup <- MCBackup
    Legacy <- MCLegacy
    MaxFaults = 1
SPECIFICATION FairSpec
INVARIANTS
    TypeOK
    StoreFollowsController
PROPERTIES
    NoDiscoveryDuringBackup
    CallsEnd
