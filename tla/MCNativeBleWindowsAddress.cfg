SPECIFICATION Spec
CONSTANTS
    Advertisers = {adv}
    Spellings <- MixedCase
    NumServices = 1
    MaxConnects = 1
    MaxCalls = 1
    MaxNested = 1
    MaxHandlers = 1
    MaxListeners = 1
INVARIANTS
    OpensTheDeviceNamed
CHECK_DEADLOCK FALSE
