SPECIFICATION Spec
CONSTANTS
    write = write
    disarm = disarm
    read = read
    barrier = barrier
    NoCmd = NoCmd
    Cmd = {write, disarm}
    Waited = {write, disarm}
    ReadOnly = {}
    Urgent = {disarm}
    Disarm = {disarm}
    Resend = {disarm}
    NoRetry = {}
    MaxRetries = 1
    MaxSessions = 1
INVARIANTS
    PendingIsHeld
    QueuedOnce
    OneLiveFrame
    AtMostOnce
    CloseReleasesAll
PROPERTIES
    PlainTimeoutWindow
CHECK_DEADLOCK FALSE
