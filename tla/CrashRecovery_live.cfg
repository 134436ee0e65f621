SPECIFICATION LiveRecovery
CONSTANTS
    MaxCalls = 2
    MaxTurns = 1
    MaxSteps = 1
    MaxCrashes = 2
    Admitted = {"rewind", "scheduler-failure"}
PROPERTIES
    RecoveryEnds
CHECK_DEADLOCK FALSE
