CONSTANTS
    Null = Null
    Half <- MCHalf
    StringFuncs <- MCStringFuncs
    Rank <- MCRank
    GroupsNoRows = TRUE
    Files <- MCFiles
    Menus <- OuterMenus
    MaxRounds = 10
SPECIFICATION Spec
INVARIANTS
    OuterJoinsAgree
CHECK_DEADLOCK FALSE
