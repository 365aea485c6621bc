SPECIFICATION FairSpec
CONSTANTS
    NumStages = 2
    Orders = {}
    NoOrder = NoOrder
    RunIds = {r1, r2}
    None = None
    ProgressStages = {2}
    FaultStages = {2}
    LaunchStages = {1}
    MaxLines = 1
PROPERTIES
    RunsEnd
