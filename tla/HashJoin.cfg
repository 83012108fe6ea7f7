CONSTANTS
    JoinInputs <- MCInputs
    Null <- MCNull
    Text <- MCText
    Sep <- MCSep
SPECIFICATION FairSpec
INVARIANTS
    TypeOK
    IndexExact
    OutputExact
    OutputProgress
    OutputOrdered
    MatchedExact
PROPERTIES
    ImplementsRelationalJoin
    Terminates
CHECK_DEADLOCK FALSE
