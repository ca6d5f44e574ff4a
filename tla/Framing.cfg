SPECIFICATION Spec
CONSTANTS
    Base = 8
    StartChar = 6
    Protocols = {3, 5}
    Payloads <- MCPayloads
    Preambles <- MCPreambles
    MaxSize = 9
    Crc <- MCCrc
    MaxFrames = 2
    MaxFaults = 1
    MaxLinks = 2
INVARIANTS
    TypeOK
    IntactFramesArrive
    NothingElse
CHECK_DEADLOCK FALSE
