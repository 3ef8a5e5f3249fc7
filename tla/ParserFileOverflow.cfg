CONSTANTS
    Byte <- MCByte
    Junk <- MCJunk
    Null = 0
    MinBulk = 9
    MaxBulk = 9
    CounterMod = 40
    FCSTS = 1
    Frames <- MCBulkFrames
    MaxFrames = 1
    MaxLoss = 0
    MaxPauses = 0
    EspCommands <- MCNoCommands
    MaxCommands = 0
SPECIFICATION Spec
PROPERTY FileOverflowReported
CHECK_DEADLOCK FALSE
