SPECIFICATION FairSpec
CONSTANTS
    Configs <- MCConfigs
    Window = 3
    MinStable = 2
    Count = 2
    MaxWait = 4
    Confirms = 2
    MaxForce = 2
    StatusDepth = 2
    MaxStamps = 3
    MaxAttempts = 2
CHECK_DEADLOCK FALSE
INVARIANTS
    HandoverInv
    TriggerIsCalm
    ReleaseIsEarned
    HumanHasCup
PROPERTIES HandoverEnds
