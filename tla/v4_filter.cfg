SPECIFICATION FairSpec
CONSTANTS
    Peer <- HostsOneTen
    AuthNamed <- TheTenth
    StrayBits <- Uninitialized
    MAX_PEERS = 3
    Lossy = FALSE
    MaxStarts = 1
    MaxReq = 2
CHECK_DEADLOCK FALSE
INVARIANTS
    NeverListsSelf
PROPERTIES
    AcquaintanceSpec
    AmFindAnswered
