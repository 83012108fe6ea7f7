CONSTANTS
    GroupInputs <- MCInputs
    Place <- MCPlace
    NaN <- MCNaN
    Supported <- MCSupported
    Lower <- MCLower
    Refused <- MCRefused
SPECIFICATION Spec
INVARIANTS
    NullsAddNoGroup
CHECK_DEADLOCK FALSE
