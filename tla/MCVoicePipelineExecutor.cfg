SPECIFICATION FairSpec
CONSTANTS
    RecipeIds = {r1}
    NoId = NoId
    EmptyId = EmptyId
    Snapshots = {"none", "manual", "completed"}
    MaxPipelines = 2
    MaxLines = 1
INVARIANTS EInv OnlyStraysOverlap MakingIsUnderWay
PROPERTY EndIsTold
