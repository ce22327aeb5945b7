SPECIFICATION FairSpec
CONSTANTS
    NULL = NULL
    Thread <- FourThreads
    Skill <- ChainSkills
    Gap = 2
    MaxGames = 2
    Spurious = FALSE
INVARIANTS
    TypeOK
    NoLostWakeup
    ListIsWaiters
    ListAllocated
    NoMissedMatch
PROPERTIES
    NobodyStoodUp
    AllThreadsExit
