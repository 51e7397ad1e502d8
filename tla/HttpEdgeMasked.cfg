CONSTANTS
    Requests = {r1}
    GivenIds = {x}
    Tenants = {acme}
    Tasks = {t1}
    None = none
    Errors = {"NotFoundError", "DependencyUnavailableError"}
    SensitiveKeys = {"authorization", "password"}
    EventLeaves <- MCEventLeaves
    MaxActs = 1
SPECIFICATION Spec
INVARIANT ReportsMasked
