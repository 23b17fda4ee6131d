SPECIFICATION Spec
CONSTANTS
    Devices = {dev}
    None = none
    MaxLinkUps = 2
    MaxValues = 2
    MaxSinks = 2
INVARIANTS
    TypeOK
    ConnectedIsReportedOnce
    NotifyIsGapless
PROPERTIES
    ConnectedBecomesUsable
CHECK_DEADLOCK FALSE
