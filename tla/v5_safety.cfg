SPECIFICATION Spec
CONSTANTS
    h1 = h1
    h2 = h2
    Peer <- TwoHosts
    StrayBits <- Uninitialized
    MAX_PEERS = 2
    Lossy = TRUE
    MaxStarts = 2
    MaxReq = 2
SYMMETRY HostSymmetry
CHECK_DEADLOCK FALSE
INVARIANTS
    TypeOK
    SockfdOnlyOfc
    ConfirmedIsMutual
    StartupListsOnce
