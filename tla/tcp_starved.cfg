SPECIFICATION FairSpec
CONSTANTS
    u1 = u1
    u2 = u2
    u3 = u3
    User <- ThreeUsers
    Host <- OneHost
    PORT_MIN = 11000
    PORT_MAX = 11001
    LastOctet = 1
    StartIdx <- Never
    SendBuf = 1
    MaxStarts <- Once
CHECK_DEADLOCK FALSE
PROPERTIES
    EveryLinePrinted
