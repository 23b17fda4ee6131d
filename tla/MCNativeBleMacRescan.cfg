SPECIFICATION Spec
CONSTANTS
    Peripherals = {p1, p2}
    Nil = nil
    Services = {s1, s2}
    Readable = {s1}
    Notifying = {s2}
    SizeValues = 2
    MaxConnects = 1
    MaxReads = 1
    MaxSubscriptions = 1
INVARIANTS
    EachScanReports
CHECK_DEADLOCK FALSE
