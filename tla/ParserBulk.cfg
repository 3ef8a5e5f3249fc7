CONSTANTS
    Byte <- MCByte
    Junk <- MCJunk
    Null = 0
    MinBulk = 9
    MaxBulk = 9
    CounterMod = 40
    FCSTS = 1
    Frames <- MCAllFrames
    MaxFrames = 2
    MaxLoss = 2
    MaxPauses = 1
    EspCommands <- MCNoCommands
    MaxCommands = 0
SPECIFICATION Spec
INVARIANTS DispatchIntegrity BoundedLoss
CHECK_DEADLOCK FALSE
