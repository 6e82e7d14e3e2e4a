SPECIFICATION FairSpec
CONSTANTS
    Peer = {1, 2}
    LastOctet = 3
    StartIdx <- FromFirst
    MaxStarts <- OneRestart
CHECK_DEADLOCK FALSE
INVARIANTS
    TypeOK
    FoundHasAccepted
    OrphansOnlyFromFailures
PROPERTIES
    FindPeerEnds
