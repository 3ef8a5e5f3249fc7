CONSTANTS
    v1 = v1
    off = off
    s1 = s1
    ap = ap
    p1 = p1
    Stations <- MCStations
    AccessPoint = ap
    Peers <- MCPeers
    SameSubnet <- MCSubnets
    ServiceEnabled = FALSE
    QueueSize = 10
    Wrap = 7
    First = 1
    Second = 2
    Third = 2
    Refresh = 2
    MaxDelay = 2
    JoinRetry = 2
    MaxLag = 1
    MaxFailing = 1
    CmdLen = 3
    Letters <- MCLetters
    Values <- MCValues
    Factory = v1
    Installed <- MCInstalled
    CommandOf <- MCCommandOf

SPECIFICATION ServicesSpec

INVARIANTS
    TypeOK
    LineShown
    InStep
    SettingsAgree
    KeepsAdvertising
    OneLocation
