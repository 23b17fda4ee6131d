SPECIFICATION Spec
CONSTANTS
    Devices = {dev}
    None = none
    MaxLinkUps = 2
    MaxValues = 2
    MaxSinks = 2
INVARIANTS
    DisconnectIsReported
CHECK_DEADLOCK FALSE
