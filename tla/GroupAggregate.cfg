CONSTANTS
    GroupInputs <- MCInputs
    Place <- MCPlace
    NaN <- MCNaN
    Supported <- MCSupported
    Lower <- MCLower
    Refused <- MCRefused
SPECIFICATION FairSpec
INVARIANTS
    TypeOK
    NamesExact
    CutExact
    RowsInOrder
PROPERTIES
    ImplementsGrouping
    Terminates
CHECK_DEADLOCK FALSE
