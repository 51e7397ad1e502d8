CONSTANTS
    FailureThreshold = 2
    SuccessThreshold = 1
    RecoveryTimeout = 1
    MaxAttempts = 2
    Calls = {c1, c2}
SPECIFICATION ClientSpec
INVARIANTS
    ClientTypeOK
    UpMeansOpen
PROPERTIES
    ImplementsRetryCalls
