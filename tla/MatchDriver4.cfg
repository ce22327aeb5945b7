SPECIFICATION Spec
CONSTANTS
    NULL = NULL
    Thread <- FourThreads
    Skill <- FourSkills
    Gap = 9
    MaxGames = 1
    Spurious = FALSE
PROPERTIES
    LeavesTogether
