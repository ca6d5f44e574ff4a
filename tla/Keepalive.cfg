SPECIFICATION LiveSpec
CONSTANTS
    MaxMissed = 2
    MaxQueue = 1
    MaxCancels = 1
INVARIANTS
    Watched
PROPERTIES
    TrafficRescues
    
CHECK_DEADLOCK FALSE
