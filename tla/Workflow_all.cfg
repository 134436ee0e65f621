SPECIFICATION FairSpec
CONSTANTS
    Agents = {a1, a2}
    Limits = {1, 2}
INVARIANTS
    ReportIsHonest
    ChildrenAreKept
PROPERTIES
    NoLateChild
    RunsEnd
CHECK_DEADLOCK FALSE
