CONSTANTS
    Envelopes = {e1, noid}
    NoId = noid
    NoMessage = nomessage
    Relays = {k1}
    Workers = {w1, w2}
    Limit = 2
    MaxRecords = 1
    MaxAborts = 0
    MaxInterrupts = 0
    MaxExpiries = 0
SPECIFICATION PipelineSafety
INVARIANT HandledOnce
CHECK_DEADLOCK FALSE
