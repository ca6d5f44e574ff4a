SPECIFICATION Spec
CONSTANTS
    p1 = p1
    p2 = p2
    Pins = {p1, p2}
    NoPin = NoPin
    MaxSessions = 3
    MaxAsks = 2
    MaxRefreshes = 1
SYMMETRY Symmetry
INVARIANTS
    AuthenticatedNow
CHECK_DEADLOCK FALSE
