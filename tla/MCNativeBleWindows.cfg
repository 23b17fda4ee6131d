SPECIFICATION Spec
CONSTANTS
    Advertisers = {adv}
    Spellings <- LowerCase
    NumServices = 2
    MaxConnects = 2
    MaxCalls = 3
    MaxNested = 2
    MaxHandlers = 2
    MaxListeners = 1
INVARIANTS
    TypeOK
    FlagFollowsWatcher
    FoundOncePerScan
    OpensTheDeviceNamed
    ViewIsTrue
    CachedIsLive
    
PROPERTIES
    LossIsReported
CHECK_DEADLOCK FALSE
