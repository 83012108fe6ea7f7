CONSTANTS
    Null = Null
    Half <- MCHalf
    StringFuncs <- MCStringFuncs
    Rank <- MCRank
    GroupsNoRows = TRUE
    Files <- MCFiles
    Menus <- SumMenus
    MaxRounds = 10
SPECIFICATION Spec
INVARIANTS
    LimitedAggregatesAgree
CHECK_DEADLOCK FALSE
