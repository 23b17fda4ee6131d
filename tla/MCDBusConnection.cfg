SPECIFICATION Spec
CONSTANTS
    AppThreads = {main}
    AsyncThread = async
    HasAdapter = TRUE
    MaxSignals = 2
    MaxCalls = 2
INVARIANTS
    TypeOK
    NoPoisonedError
    ReplyIsOwn
    NoUseAfterClose
PROPERTIES
    ChannelImplemented
    CallReturns
    DestroyReturns
    QueueDrains
