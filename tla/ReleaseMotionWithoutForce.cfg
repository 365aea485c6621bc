SPECIFICATION Spec
CONSTANTS
    Configs <- MCConfigs
    MaxAttempts = 2
    MaxRequests = 2
CHECK_DEADLOCK FALSE
INVARIANT ReleaseMotionWithoutForce
