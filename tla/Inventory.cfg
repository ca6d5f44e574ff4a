SPECIFICATION Spec
CONSTANTS
    Unknown = Unknown
    Panels <- SomePanels
    Top = 3
    BlockSize = 2
    Streak = 2
    MaxCalls = 2
    MaxTroubles = 2
INVARIANTS
    ListIsWhole
    NothingBeyondTable
    LimitIsEarned
    EveryoneIsNamed
CHECK_DEADLOCK FALSE
