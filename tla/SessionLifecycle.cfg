SPECIFICATION Spec
CONSTANTS
    MaxSessions = 2
INVARIANTS
    Agreement
PROPERTIES
    EventsPair
    StrangersAreDisowned
    LossIsNoticed
CHECK_DEADLOCK FALSE
