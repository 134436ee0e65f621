SPECIFICATION Spec
CONSTANTS
    Resumers = {r1, r2}
    Inspectors = {i1}
    Nobody = Nobody
    MaxWrites = 2
    MaxFailures = 1
    MaxEvictions = 1
    Admitted = {}
INVARIANTS
    ReservationsAreExact
    WaitersAreServed
PROPERTIES
    ViewsAreFresh
SYMMETRY Interchangeable
CHECK_DEADLOCK FALSE
