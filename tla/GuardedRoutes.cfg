CONSTANTS
    acme = acme
    zeta = zeta
    Lookups = {c1}
    Tenants = {acme}
    None = none
    Wildcard = "*"
    Unsplit = "unsplit"
    Permission = "billing.write"
    Tokens <- MCTokens
    Resources <- MCResources
SPECIFICATION Spec
INVARIANTS
    TypeOK
    AnswerWasEffective
    DenyByDefault
CHECK_DEADLOCK FALSE
