SPECIFICATION Spec
CONSTANTS
    old = old
    new = new
    Images = {old, new}
    NoImage = noImage
    Size <- Sizes
    FlashSize = 8
    MaxU32 = 8
    Numbers <- SmallNumbers
    Kinds <- AllKinds
    MaxRuns = 3
    MaxInstalls = 2
    MaxBuilds = 2
INVARIANTS TypeOK PublishedWhole PartAligned RetryConverges RangeServed NotReplayed
PROPERTIES PartRetained NewestTried
CHECK_DEADLOCK FALSE
