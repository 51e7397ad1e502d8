CONSTANTS
    FailureThreshold = 2
    SuccessThreshold = 2
    RecoveryTimeout = 2
    MaxAttempts = 2
    Calls = {c1, c2, c3}
SPECIFICATION FairSpec
INVARIANTS
    TypeOK
    OpenDuringWindow
    ClosedMeansNoStreak
PROPERTIES
    NoAttemptInWindow
    TransitionsOnEvidence
    WindowEnds
    CallsEnd
