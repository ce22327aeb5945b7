SPECIFICATION FairSpec
CONSTANTS
    Chef <- OrderKeepers
    Lock <- OrderKeepersLocks
    Plan <- OrderKeepersPlan
    Reversed <- ReversedHere
    Programs <- ThreePrograms
    None = None
INVARIANTS
    TypeOK
    LocksAccountedFor
    NoDeadlockedSet
PROPERTIES
    ImplementsAppliances
    ChefsQuit
