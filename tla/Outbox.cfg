CONSTANTS
    Envelopes = {e1, e2}
    Relays = {k1, k2}
    Limit = 2
    MaxRecords = 4
    MaxAborts = 2
SPECIFICATION OutboxSpec
INVARIANTS
    OutboxTypeOK
    PublishedWasSent
    FirstSendInOrder
PROPERTIES
    ImplementsFeed
    AllPublished
CHECK_DEADLOCK FALSE
