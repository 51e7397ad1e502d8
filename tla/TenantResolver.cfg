CONSTANTS
    Requests = {q1, q2}
    acme = acme
    cased = cased
    Bases <- MCBases
    MaxPrefixes = 2
    Schemas <- MCSchemas
    Deployments <- MCDeployments
    WellFormed <- MCWellFormed
    NoId = noid
    RefreshInterval = 2
SPECIFICATION Spec
SYMMETRY RequestSymmetry
INVARIANTS
    TypeOK
    StampIsHonest
PROPERTIES
    AcceptedWasLive
    RejectedWasDead
