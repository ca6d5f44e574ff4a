SPECIFICATION FairSpec
CONSTANTS
    MaxCount = 2
    MaxRetries = 1
    MaxReads = 2
    MaxFaults = 1
    MaxElapses = 1
CHECK_DEADLOCK FALSE
INVARIANTS
    AssembledWhole
    TransferGoesOn
    PartialIsLate
PROPERTIES
    InventoryArrives
