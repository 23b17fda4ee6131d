SPECIFICATION Spec
CONSTANTS
    hci0 = hci0
    hci1 = hci1
    dev = dev
    service = service
    Paths <- MCPaths
    Depth <- MCDepth
    Above <- MCAbove
    Rank <- MCRank
    Extended = {hci0, dev}
    Values = {off, on}
    Blank = blank
    MaxEvents = 3
INVARIANTS
    TypeOK
    ExportedIsMirrored
    MirrorHasValues
    NoGhostAdapter
PROPERTIES
    ComesInStep
CHECK_DEADLOCK FALSE
