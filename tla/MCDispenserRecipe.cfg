SPECIFICATION FairSpec
CONSTANTS
    Dispensers = {"d1", "d2"}
    Recipes <- MCRecipes
    None = None
    Torn = Torn
    MaxLaunches = 3
INVARIANTS
    RInv
    JournalTellsCup
    PouredAsJournaled
PROPERTIES
    JournalNeverGoesBack
    ProcessEnds
