SPECIFICATION FairSpec
CONSTANTS
    Selections <- MCSelections
    MaxRequests = 2
    MaxProcs = 3
    MaxStops = 1
CHECK_DEADLOCK FALSE
INVARIANTS
    PanelInv
    ForegroundIsWatched
    QuietStopEndsAll
    StopEndsQueue
PROPERTIES
    RequestsEnd
