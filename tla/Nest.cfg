SPECIFICATION FairSpec
CONSTANTS
    FailureThreshold = 2
    ResetTimeout = 1
    Request = {r1, r2, r3}
    Probe = {p1, p2}
    PeerFailureLimit = 2
INVARIANTS
    TypeOK
    RedisModeIsClosed
PROPERTIES
    RedisRecovers
    OutageLeavesRedis
