SPECIFICATION FairSpec
CONSTANTS
    Items <- ItemIds
    Panels <- Inventories
    Streak = 2
    MaxRetries = 1
    MaxSessions = 2
    MaxTroubles = 1
CHECK_DEADLOCK FALSE
INVARIANTS
    ReadyMeansRead
PROPERTIES
    ReadyStays
    BootstrapCompletes
