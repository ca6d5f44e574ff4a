SPECIFICATION LiveSpec
CONSTANTS
    write = write
    disarm = disarm
    read = read
    barrier = barrier
    NoCmd = NoCmd
    Cmd = {read, barrier}
    Waited = {barrier}
    ReadOnly = {}
    Urgent = {}
    Disarm = {}
    Resend = {read}
    NoRetry = {barrier}
    MaxRetries = 1
    MaxSessions = 2
PROPERTIES
    PipelineDrains
    NeverRevived
    ContractSpec
CHECK_DEADLOCK FALSE
