SPECIFICATION Spec
CONSTANTS
    Peer <- HostsOneTen
    AuthNamed <- Nobody
    StrayBits <- Zeroed
    MAX_PEERS = 3
    Lossy = FALSE
    MaxStarts = 1
    MaxReq = 1
CHECK_DEADLOCK FALSE
PROPERTIES
    IgnoresOnlySelf
