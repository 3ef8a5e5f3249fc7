CONSTANTS
    Byte = {nul, a, b}
    Null = nul
    Junk = junk
    MinBulk = 4
    MaxBulk = 5
    CounterMod = 6
    Sizes <- MCSizes
SPECIFICATION Spec
INVARIANTS TypeOK TotalsAgree
PROPERTY RefinesFifo
