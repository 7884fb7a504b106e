SPECIFICATION Spec
CONSTANTS
    a = a
    b = b
    Behind = {a}
    Ahead = {b}
    Client <- MCClient
    Limit = 2
    Unit = 2
    Rate = 1
    Cost = {0, 1}
    MaxSkew = 2
    Skew <- MCSkew
    Resends = FALSE
    MaxTime = 4
    MaxLosses = 0
    Views = {2, 4}
    MaxSeeds = 0
    MaxSeeded = 0
    MaxEvaluations = 6
SYMMETRY SameNode
INVARIANTS
    QuotaEnforced
