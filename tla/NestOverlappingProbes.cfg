SPECIFICATION Spec
CONSTANTS
    FailureThreshold = 3
    ResetTimeout = 1
    Request = {r1, r2, r3}
    Probe = {p1, p2}
    PeerFailureLimit = 5
SYMMETRY Symmetry
PROPERTIES
    SeedsOnRecovery
