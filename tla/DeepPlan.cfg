CONSTANTS
    Null = Null
    Half <- MCHalf
    StringFuncs <- MCStringFuncs
    Rank <- MCRank
    GroupsNoRows = TRUE
    Files <- MCFiles
    Menus <- DeepMenus
    MaxRounds = 10
SPECIFICATION Spec
INVARIANTS
    EachPassSettled
CHECK_DEADLOCK FALSE
