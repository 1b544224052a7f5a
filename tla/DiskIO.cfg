SPECIFICATION FairSpec
CONSTANTS
    a1 = a1
    a2 = a2
    App = {a1, a2}
    None = None
    Mapping = "RAID5"
    Extents <- MCExtents
    Modes <- MCModes
    MaxReqs <- MCMaxReqs
    MaxDirect = 1
    StripeBlockSize = 2
    NumFiles = 2
    ConstA = 2
    ConstP = 3
    FilePages = 10
    MaxCached = 1
    AIODepth = 1
    CompleteSize = 2
    GroupFrom = 2
    Reissue = {"select"}
INVARIANTS TypeOK NobodySleepsOnWork PartsLandApart PendingIsExact
PROPERTIES ImplementsDiskService AllRequestsComplete
CHECK_DEADLOCK FALSE
