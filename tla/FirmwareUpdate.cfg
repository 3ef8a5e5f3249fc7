SPECIFICATION Spec
CONSTANTS
    Images = {old, new}
    NoImage = noImage
    Torn = torn
    Pieces = 2
    First = first
    Second = second
    Rival = rival
    Posts = {first, second, rival}
    Addresses = {home, away}
    HomeAddress = home
    MaxFaults = 1
    MaxDisturbances = 2
    MaxBuilds = 1
    Kinds <- AllKinds
INVARIANTS TypeOK HonestOk NoReplay VerifiedBooted ToldAsItIs
PROPERTY RefinesSlot
SYMMETRY ImageSymmetry
CHECK_DEADLOCK FALSE
