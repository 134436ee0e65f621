SPECIFICATION LiveSpec
CONSTANTS
    MaxEvents = 4
    MaxFailures = 2
    MaxRewinds = 1
    Seeds = {0, 2}
    Callers = {c1}
    Admitted = {}
INVARIANTS
    QueueIsSound
    PromisesHold
PROPERTIES
    StorageFollowsLog
    WritesSettle
CHECK_DEADLOCK FALSE
