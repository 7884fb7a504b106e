SPECIFICATION AuditSpec
CONSTANTS
    Node = {n1, n2}
    GlobalLimit = 3
    Limits = {3}
    Unit = 1
    Rate = 1
    StaleAge = 100
    MaxTime = 0
    Overtakes = TRUE
    MaxLate = 1
SYMMETRY Symmetry
INVARIANTS
    OvershootWindow
