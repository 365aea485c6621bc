SPECIFICATION Spec
CONSTANTS
    NumStages = 3
    Orders = {red, blue}
    NoOrder = NoOrder
    RunIds = {r1, r2}
    None = None
    ProgressStages = {1, 2}
    FaultStages = {2}
    LaunchStages = {1}
    MaxLines = 2
PROPERTY ResumedRunsWereBegun
