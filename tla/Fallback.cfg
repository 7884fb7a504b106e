SPECIFICATION Spec
CONSTANTS
    Node = {n1, n2}
    GlobalLimit = 2
    Limits = {1, 2}
    Unit = 2
    Rate = 1
    StaleAge = 2
    MaxTime = 1
    Share = 1
    Minute = 1
    MaxUpserts = 2
    MaxRestarts = 1
SYMMETRY Symmetry
INVARIANTS
    FallbackTypeOK
    RestartsAreCovered
    SeedsRememberPastMinutes
