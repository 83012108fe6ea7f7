CONSTANTS
    Null = Null
    Half <- MCHalf
    StringFuncs <- MCStringFuncs
    Rank <- MCRank
    GroupsNoRows = TRUE
    Files <- MCFiles
    Menus <- ZeroMenus
    MaxRounds = 10
SPECIFICATION Spec
INVARIANTS
    NullsSurvive
CHECK_DEADLOCK FALSE
