SPECIFICATION Spec
CONSTANTS
    TaskIds = {t1, t2}
    Reads = {r1, r2}
    Owners = {agent}
    Nobody = Nobody
    Service = Service
INVARIANTS
    OutcomeReachesOwner
    NobodyIsLeft
PROPERTIES
    OutcomeIsFinal
SYMMETRY Interchangeable
CHECK_DEADLOCK FALSE
