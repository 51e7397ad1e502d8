CONSTANTS
    Envelopes = {e1, noid}
    NoId = noid
    NoMessage = nomessage
    Relays = {k1}
    Workers = {w1, w2}
    Limit = 2
    MaxRecords = 2
    MaxAborts = 1
    MaxInterrupts = 2
    MaxExpiries = 1
SPECIFICATION PipelineSpec
INVARIANTS
    PipelineTypeOK
    NeverDropped
    ProcessedWasHandled
    RepeatsBounded
PROPERTIES
    EventuallyResolved
CHECK_DEADLOCK FALSE
