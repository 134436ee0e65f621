SPECIFICATION FairSpec
CONSTANTS
    Message = {m1, m2}
    Causes = {"user"}
    MaxSteps = 2
    MaxCancels = 2
    MaxMaintenance = 1
    ClosedTurns = {1}
    Restored = {m1}
    Admitted = {"veto", "veto-close"}
INVARIANTS
    WakeHonoured
    DetachedIsQuiescent
PROPERTIES
    TurnsAreHonest
    WaitsEnd
