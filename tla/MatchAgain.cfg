SPECIFICATION Spec
CONSTANTS
    NULL = NULL
    Thread <- ThreeThreads
    Skill <- ThreeSkills
    Gap = 5
    MaxGames = 2
    Spurious = TRUE
INVARIANTS
    PairsMutual
    PlayersAreMatched
PROPERTIES
    ImplementsPairing
CHECK_DEADLOCK FALSE
