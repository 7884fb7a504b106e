SPECIFICATION FairSpec
CONSTANTS
    FailureThreshold = 2
    ResetTimeout = 1
    Request = {r1, r2}
    Peer = {p1}
    PeerFailureLimit = 3
    GlobalLimit = 5
    NodeCount = 2
    MySQLConfigured = TRUE
INVARIANTS
    TypeOK
    CircuitCountsFailures
    FlusherFollowsMode
    LocalChargesAreCapped
    ProbesOutsideRedis
PROPERTIES
    LocalAfterMisses
    HalfOpenFailureReopens
    RedisRecovers
    OutageEndsPeerMode
    PeersEndLocalMode
