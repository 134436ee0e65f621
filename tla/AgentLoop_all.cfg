SPECIFICATION Spec
CONSTANTS
    Message = {m1, m2, m3}
    Causes = {"user"}
    MaxSteps = 2
    MaxCancels = 2
    MaxMaintenance = 1
    ClosedTurns = {1}
    Restored = {m1}
    Admitted = {"settled-send", "empty-turn", "observer-dispose", "late-send", "veto"}
INVARIANTS
    TypeOK
    InboxIsExact
    LatchIsFresh
    IdleLogIsBalanced
PROPERTIES
    LogWellFormed
    AbortStopsWork
SYMMETRY Interchangeable
