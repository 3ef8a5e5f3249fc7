CONSTANTS
    Requests = {r1}
    Byte = {nul, r1}
    Null = nul
    Junk = junk
    MinBulk = 4
    MaxBulk = 8
    CounterMod = 16
    FileSizes <- MCFileSizes
    MaxWrite = 2
    Threshold = 3
    MaxLine = 2
    MaxSilences = 2
    Late = TRUE
SPECIFICATION FairSpec
INVARIANTS WholeFile PUStopped Headroom
PROPERTIES RequestEnds StatusRecovers
CHECK_DEADLOCK FALSE
