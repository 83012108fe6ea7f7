CONSTANTS
    Null = Null
    Half <- MCHalf
    StringFuncs <- MCStringFuncs
    Rank <- MCRank
    GroupsNoRows = TRUE
    Files <- MCFiles
    Menus <- GroupMenus
    MaxRounds = 10
SPECIFICATION Spec
INVARIANTS
    FilteredGroupsAgree
CHECK_DEADLOCK FALSE
