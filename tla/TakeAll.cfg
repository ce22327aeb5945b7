SPECIFICATION FairSpec
CONSTANTS
    Chef <- SomeChefs
    Appliance <- Appliances8
    Needed <- NeededBySome
INVARIANTS
    MarksAreExact
    SleepersHaveReason
PROPERTIES
    ImplementsAppliances
    ChefsQuit
