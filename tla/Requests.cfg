SPECIFICATION Spec
CONSTANTS
    Values <- MCValues
    Shown = Shown
    Hidden = Hidden
    MaxCalls = 2
    MaxSends = 1
    MaxReboots = 1
    MaxInits = 1
    MaxLoss = 1
SYMMETRY MCSymmetry
INVARIANTS WriteHonest ReadFresh SettingsKnown
PROPERTIES InitHonest
CHECK_DEADLOCK FALSE
