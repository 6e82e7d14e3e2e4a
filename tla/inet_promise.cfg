SPECIFICATION InetSpec
CONSTANTS
    Quads <- OneQuad
    Words8 <- FullAddresses
    Mistyped <- FullAddresses
    Keys <- ColonKey
    Packets <- NoPackets
    LittleEndian = TRUE
CHECK_DEADLOCK FALSE
INVARIANTS
    ReadsAsPromised
