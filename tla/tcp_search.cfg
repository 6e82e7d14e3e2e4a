SPECIFICATION FairSpec
CONSTANTS
    u1 = u1
    u2 = u2
    u3 = u3
    User <- TwoUsers
    Host <- OneHost
    PORT_MIN = 11000
    PORT_MAX = 11001
    LastOctet = 1
    StartIdx <- FromFirst
    SendBuf = 1
    MaxStarts <- OneRestart
CHECK_DEADLOCK FALSE
INVARIANTS
    TypeOK
    OrphansOnlyFromFailures
    NoChatWithOwnPort
    UnreadHasReader
PROPERTIES
    FindPeerFinds
    ServedAfterClosed
