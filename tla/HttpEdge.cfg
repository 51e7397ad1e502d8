CONSTANTS
    Requests = {r1, r2}
    GivenIds = {x}
    Tenants = {acme, zeta}
    Tasks = {t1, t2}
    None = none
    Errors = {"NotFoundError", "DependencyUnavailableError"}
    SensitiveKeys = {"authorization", "password"}
    EventLeaves <- MCEventLeaves
    MaxActs = 1
SPECIFICATION Spec
SYMMETRY EdgeSymmetry
INVARIANTS
    TypeOK
    MetricsAgree
    FaultsReportedOnce
    AnsweredUnderOwnId
    ActsCorrelated
