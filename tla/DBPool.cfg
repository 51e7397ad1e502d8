CONSTANTS
    q1 = q1
    q2 = q2
    acme = acme
    zeta = zeta
    Queries = {q1, q2}
    Conns = {c1}
    Schemas = {acme, zeta}
    Default = default
    NoConn = noconn
    Calls <- MCCalls
    MaxAttempts = 2
    PingBeforeUse = TRUE
    MaxFailovers = 2
SPECIFICATION Spec
INVARIANTS
    TypeOK
    HeldByOne
    RunsInOwnSchema
    AppliedPerAttempt
    OwnReplies
PROPERTIES
    QueriesEnd
    StopEnds
CHECK_DEADLOCK FALSE
