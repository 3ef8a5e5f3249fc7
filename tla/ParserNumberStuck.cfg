CONSTANTS
    Byte <- MCByte
    Junk <- MCJunk
    Null = 0
    MinBulk = 9
    MaxBulk = 9
    CounterMod = 40
    FCSTS = 1
    Frames <- MCNumberFrames
    MaxFrames = 1
    MaxLoss = 2
    MaxPauses = 0
    EspCommands <- MCNoCommands
    MaxCommands = 0
SPECIFICATION FairSpec
PROPERTY NumberGivenUp
CHECK_DEADLOCK FALSE
