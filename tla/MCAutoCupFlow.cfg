SPECIFICATION Spec
CONSTANTS
    NumStages = 3
    Orders = {red, blue}
    NoOrder = NoOrder
    RunIds = {r1, r2}
    None = None
    ProgressStages = {2}
    FaultStages = {2}
    LaunchStages = {1}
    MaxLines = 1
SYMMETRY Symmetry
INVARIANTS
    FileFollowsSnapshot
    JournalIsEarned
    IInv
PROPERTIES
    JournaledWorkIsKept
    JournalImplemented
