SPECIFICATION Spec
CONSTANTS
    Base = 8
    StartChar = 6
    Protocols = {3, 5}
    Payloads <- MCPayloads
    Preambles <- MCPreambles
    MaxSize = 9
    Crc <- MCCrc
    MaxFrames = 2
    MaxFaults = 0
    MaxLinks = 1
INVARIANTS
    EveryFrameArrives
CHECK_DEADLOCK FALSE
