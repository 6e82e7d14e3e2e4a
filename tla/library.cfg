SPECIFICATION LibSpec
CONSTANTS
    Length <- TwoOrThree
    Behind <- AnyBehind
    UINT = 2147483647
    MaxMsgs = 3
    MAXLINE = 3
    Texts <- UpTo4
    Delays <- AtOnceOrLate
    Gaps <- OneGap
    TS = 500000
    MaxSends = 3
    HostTable <- Hosts
    ServTable <- Services
    Requests <- Calls
    Tables <- InterfaceTables
    INITIAL = 2
    INCREMENT = 1
    MaxChanges = 1
    Quads <- AnyBytes
    Words8 <- AnyWords
    Mistyped <- Retyped
    Keys <- SomeKeys
    Packets <- UpTo6
    LittleEndian = TRUE
CHECK_DEADLOCK FALSE
INVARIANTS
    LibTypeOK
    InStep
    DatagramIsMessage
    EchoedInOrder
    NoStrayAlarm
    ResultIsTrue
    GivenUpAfterAll
    MeasuredIsElapsed
    ListIsExpected
    NamesMeanEntries
    MemoryAccounted
    FirstUsableOnly
    InterfacesListed
    TextMeansAddress
    ChecksumVerifies
PROPERTIES
    StreamSpec
    WrittenIsPrinted
    LineAnswered
    LimitHolds
