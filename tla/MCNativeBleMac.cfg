SPECIFICATION Spec
CONSTANTS
    Peripherals = {p1, p2}
    Nil = nil
    Services = {s1, s2}
    Readable = {s1}
    Notifying = {s2}
    SizeValues = 2
    MaxConnects = 2
    MaxReads = 2
    MaxSubscriptions = 1
INVARIANTS
    TypeOK
    ReadyMeansPopulated
    CountIsRight
    ReadLeavesTheSlot
    ReadGetsItsValue
PROPERTIES
    FoundOnce
    ConnectEnds
CHECK_DEADLOCK FALSE
