SPECIFICATION FairSpec
CONSTANTS
    p = p
    c = c
    root = root
    Children = {p, c}
    Parent <- Line
    MaxDeliveries = 3
    MaxReports = 1
    MaxInterrupts = 1
    Drains = {"all", "scoped"}
INVARIANTS
    ActivationsNest
    DrainIsComplete
PROPERTIES
    SettlementDropsNothing
    ResidencyEnds
CHECK_DEADLOCK FALSE
