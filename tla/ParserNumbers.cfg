CONSTANTS
    Byte <- MCByte
    Junk <- MCJunk
    Null = 0
    MinBulk = 9
    MaxBulk = 9
    CounterMod = 40
    FCSTS = 1
    Frames <- MCNumberFrames
    MaxFrames = 3
    MaxLoss = 1
    MaxPauses = 0
    EspCommands <- MCCommands
    MaxCommands = 1
SPECIFICATION FairSpec
INVARIANTS TypeOK DispatchIntegrity BoundedLoss
PROPERTY NoStateForever
CHECK_DEADLOCK FALSE
