CONSTANTS
    Null = Null
    Half <- MCHalf
    StringFuncs <- MCStringFuncs
    Rank <- MCRank
    GroupsNoRows = TRUE
    Files <- MCFiles
    foldedExpr <- MCfoldedExpr
    simplifiedExpr <- MCsimplifiedExpr
    refsOf <- MCrefsOf
    headerOf <- MCheaderOf
    columnsOf <- MCcolumnsOf
    inOrder <- MCinOrder
    Nothing <- MCNothing
    Paths <- MCPaths
    Calls <- MCCalls
    Joins <- MCJoins
    MaxFrames = 5
    MaxRounds = 10
SPECIFICATION FairSpec
INVARIANTS
    TypeOK
    LinesExact
    DrawingExact
    SettledRoundCopiesNothing
PROPERTIES
    NodesFinal
    PassCopiesOnlyChanges
    PassesAsDefined
    ImplementsPlanTrees
    DrawingEnds
