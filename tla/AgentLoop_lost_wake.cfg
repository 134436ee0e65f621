SPECIFICATION Spec
CONSTANTS
    Message = {m1, m2, m3}
    Causes = {"user"}
    MaxSteps = 2
    MaxCancels = 2
    MaxMaintenance = 1
    ClosedTurns = {1}
    Restored = {}
    Admitted = {"settled-send"}
INVARIANT
    WakeHonoured
