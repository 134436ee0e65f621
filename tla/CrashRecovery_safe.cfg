SPECIFICATION RecoverySpec
CONSTANTS
    MaxCalls = 2
    MaxTurns = 2
    MaxSteps = 2
    MaxCrashes = 2
    Admitted = {}
INVARIANTS
    LogIsValid
    ResumedLogIsClosed
    RecordIsHonest
CHECK_DEADLOCK FALSE
