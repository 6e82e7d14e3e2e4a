SPECIFICATION Spec
CONSTANTS
    h1 = h1
    h2 = h2
    Peer <- TwoHosts
    StrayBits <- Zeroed
    MAX_PEERS = 3
    Lossy = FALSE
    MaxStarts = 1
    MaxReq = 3
SYMMETRY HostSymmetry
CHECK_DEADLOCK FALSE
INVARIANTS
    PeerTableBounded
