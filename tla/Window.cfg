SPECIFICATION Spec
CONSTANTS
    b1 = b1
    b2 = b2
    a1 = a1
    a2 = a2
    Behind = {b1, b2}
    Ahead = {a1, a2}
    Request <- MCRequest
    Skew <- MCSkew
    Limit = 2
    Window = 2
    Margin = 1
    MaxSkew = 1
    Resends = TRUE
    MaxTime = 3
SYMMETRY SameNode
INVARIANTS
    TypeOK
    WindowQuota
    NewestWindowQuota
PROPERTIES
    ImplementsLimiter

CHECK_DEADLOCK FALSE
