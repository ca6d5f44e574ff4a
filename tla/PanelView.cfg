SPECIFICATION FairSpec
CONSTANTS
    Unknown = Unknown
    Inventories <- Panels
    Reports <- AreaReports
    Timers = 2
    AreaStarts <- Starting
    MaxBusy = 1
    MaxPosts = 2
    MaxCalls = 1
    MaxTroubles <- Troubles
INVARIANTS
    ViewCatchesUp
    EventsAreCurrent
    WrittenIsShown
    ArmingIsReal
PROPERTIES
    TimerRunsDown
    CallsEnd
CHECK_DEADLOCK FALSE
