CONSTANTS
    Null = Null
    Half <- MCHalf
    StringFuncs <- MCStringFuncs
    Rank <- MCRank
    GroupsNoRows = TRUE
    Files <- MCFiles
    Menus <- CollectMenus
    MaxRounds = 10
SPECIFICATION Spec
INVARIANTS
    TypeOK
    PassesPreserveMeaning
    EachPassSettled
    RoundsBounded
    NarrowedCellsCongruent
PROPERTIES
    ScansOnlyNarrow
CHECK_DEADLOCK FALSE
