SPECIFICATION FairSpec
CONSTANTS
    Chef <- OfKitchen
    Lock <- KitchenLocks
    Plan <- KitchenPlan
    Reversed <- OfKitchen
    Programs <- OneProgram
    None = None
PROPERTIES
    ChefsQuit
CHECK_DEADLOCK FALSE
