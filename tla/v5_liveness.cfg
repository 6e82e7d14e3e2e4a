SPECIFICATION FairSpec
CONSTANTS
    h1 = h1
    h2 = h2
    Peer <- TwoHosts
    StrayBits <- Zeroed
    MAX_PEERS = 3
    Lossy = FALSE
    MaxStarts = 1
    MaxReq = 2
CHECK_DEADLOCK FALSE
INVARIANTS
    AcceptedIsKnown
PROPERTIES
    AcquaintanceSpec
    FindPeerReturns
    AmFindAnswered
