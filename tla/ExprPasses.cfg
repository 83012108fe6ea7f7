CONSTANTS
    Null = Null
    Half <- MCHalf
    StringFuncs <- MCStringFuncs
    aggregated <- MCaggregated
    Tables <- MCTables
    Rows = 2
    Texts <- MCTexts
    Leaves <- MCLeaves
    Operators <- MCOperators
    MaxNodes = 2
    MaxRounds = 2
SPECIFICATION Spec
INVARIANTS
    TypeOK
    ValueKept
    NarrowedValueCongruent
    Idempotent
PROPERTIES
    FoldingExact
CHECK_DEADLOCK FALSE
