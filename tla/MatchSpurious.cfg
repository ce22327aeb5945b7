SPECIFICATION FairSpec
CONSTANTS
    NULL = NULL
    Thread <- ThreeThreads
    Skill <- ThreeSkills
    Gap = 5
    MaxGames = 1
    Spurious = TRUE
PROPERTIES
    AllThreadsExit
CHECK_DEADLOCK FALSE
