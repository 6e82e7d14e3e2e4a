SPECIFICATION FairSpec
CONSTANTS
    h1 = h1
    h2 = h2
    Peer <- TwoHosts
    StrayBits <- Uninitialized
    MAX_PEERS = 3
    Lossy = FALSE
    MaxStarts = 1
    MaxReq = 1
CHECK_DEADLOCK FALSE
PROPERTIES
    FindPeerReturns
