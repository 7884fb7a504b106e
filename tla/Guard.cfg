SPECIFICATION Spec
CONSTANTS
    paced = paced
    hasty = hasty
    None = None
    Client <- MCClient
    Header <- MCHeader
    User <- MCUser
    Query <- MCQuery
    Server <- MCServer
    Views <- MCViews
    Pace <- MCPace
    Node <- MCNode
    GlobalLimit = 2
    Share = 1
    Limits = {1, 2}
    Unit = 2
    Rate = 1
    StaleAge = 4
    Second = 2
    MaxWrites = 1
    MaxTime = 4
INVARIANTS
    GuardTypeOK
    RetryAfterSuffices
    EvictionIsFree
PROPERTY
    DeniedOnlyWhenTaken
