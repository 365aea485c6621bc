SPECIFICATION Spec
CONSTANTS
    Required = 2
    Retries = 1
    MaxRuns = 2
    MaxKeys = 2
    MaxTries = 2
INVARIANTS
    PickInv
    CupIsWhereJournaled
    HeldCupIsKept
    ComesOpen
CHECK_DEADLOCK FALSE
