SPECIFICATION Spec
CONSTANTS
    a = a
    b = b
    Behind = {a}
    Ahead = {b}
    Client <- MCClient
    Limit = 2
    Unit = 2
    Rate = 1
    Cost = {0, 1}
    MaxSkew = 1
    Skew <- MCSkew
    Resends = TRUE
    MaxTime = 2
    MaxLosses = 1
    Views = {2}
    MaxSeeds = 2
    MaxSeeded = 4
    MaxEvaluations = 4
SYMMETRY SameNode
INVARIANTS
    TypeOK
    GrantsAreCovered
    QuotaInOrder
