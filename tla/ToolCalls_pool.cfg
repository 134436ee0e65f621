SPECIFICATION LiveSpec
CONSTANTS
    N = 4
    MaxParallel = 2
INVARIANTS
    BodiesAreContained
PROPERTIES
    StepIsOrderly
    StepEnds
CHECK_DEADLOCK FALSE
