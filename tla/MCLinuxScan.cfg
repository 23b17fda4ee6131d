SPECIFICATION Spec
CONSTANTS
    Devices = {d1, d2}
    MaxEvents = 3
    MaxScans = 2
INVARIANTS
    TypeOK
    ScanReportsDevices
PROPERTIES
    StopTakesEffect
CHECK_DEADLOCK FALSE
