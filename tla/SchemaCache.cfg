CONSTANTS
    Threads = {t1, t2}
    Paths = {p, q}
    Columns = {a, b}
    Needs = {{a}, {a, b}}
    Nobody = Nobody
    Asks = 2
    MaxRewrites = 1
SPECIFICATION FairSpec
INVARIANTS
    TypeOK
    MutualExclusion
    Honest
    LastingDelivered
PROPERTIES
    Finishes
CHECK_DEADLOCK FALSE
