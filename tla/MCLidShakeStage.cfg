SPECIFICATION FairSpec
CONSTANTS
    Configs <- MCConfigs
    MaxAttempts = 2
    MaxRequests = 2
CHECK_DEADLOCK FALSE
INVARIANTS
    LidInv
    ShakeIsEarned
    PickedCupIsKept
    OpensWithoutForce
PROPERTIES StageEnds
