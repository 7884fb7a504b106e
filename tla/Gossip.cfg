SPECIFICATION FairSpec
CONSTANTS
    Node = {n1, n2}
    GlobalLimit = 2
    Limits = {1, 2}
    Unit = 1
    Rate = 1
    StaleAge = 1
    MaxTime = 1
    Overtakes = TRUE
    MaxLate = 1
INVARIANTS
    TypeOK
    NodeGrantsCovered
PROPERTIES
    ImplementsQuota
    BucketsConverge
