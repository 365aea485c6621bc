SPECIFICATION FairSpec
CONSTANTS
    Utterances <- MCUtterances
    Catalog <- MCCatalog
    PressesOf <- MCPresses
    Depth = 1
    MaxSaid = 4
CHECK_DEADLOCK FALSE
INVARIANTS
    VoiceInv
    CancelHolds
    LastOrderIsMade
    PressesInOrder
PROPERTIES
    NothingAfterFailure
    OrdersEnd
