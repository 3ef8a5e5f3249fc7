CONSTANTS
    Requests = {r1, r2}
    Byte = {nul, r1, r2}
    Null = nul
    Junk = junk
    MinBulk = 4
    MaxBulk = 8
    CounterMod = 16
    FileSizes <- MCSmallFile
    MaxWrite = 2
    Threshold = 3
    MaxLine = 2
    MaxSilences = 1
    Late = FALSE
SPECIFICATION Spec
INVARIANTS OwnFile PUStopped
CHECK_DEADLOCK FALSE
