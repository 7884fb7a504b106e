SPECIFICATION FairSpec
CONSTANTS
    FailureThreshold = 2
    ResetTimeout = 1
    Request = {r1, r2}
    Probe = {p1, p2}
    PeerFailureLimit = 1
PROPERTIES
    PeerLossEndsPeerMode
