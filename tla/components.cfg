\* Each component stops for good at some point: its caller has what it asked for.
SPECIFICATION FairSpec
CONSTANTS
    Waiters = {w1, w2}
    ByteCounts = {1, 2}
    Rates = {2, 4}
    Second = 3
    OverflowRate = 4
    QuicConns = {1, 2}
    Streams = {1, 2, 3}
    MaxStreams = 1
    MaxErrors = 1
    Sizes = {0, 65519, 65520, 70000}
    Bufs = {1024, 65536}
    MaxFrames = 2
    PacketSizes = {0, 1, 255, 256, 65536, 1048576, 1048577}
    MaxPackets = 3
    MaxCrashes = 1
    BanPeers = {q1}
    MaxTime = 4
    Bans = {0, 1, 2}
    Levels <- OddLevels
    GeneralLimit = 2
    ImportLimit = 1
    Window = 2
    MaxClock = 4
    NServers = 3
    Ports = {1, 2, 3}
    Tries = 5
    Softs = {4, 5, 7}
    Words = {0, 7871, 65535}
    TTLs = {1, 64, 128}
    TargetTTL = 64
    Total = 4
    TempSize = 3
    RelayBuf = 3
    MinFrag = 1
    MaxFrag = 2
    Values = {"a", "b"}
    Lists <- TwoValues
    ShortLists <- DefaultOrder
INVARIANTS
    TokensNatural
    StreamsCounted
    StreamLimit
    ShutdownQuiet
    KeysAgree
    FramesInOrder
    RulesMatchState
    BansHold
    WindowBound
    NatVerdict
    RelayExact
    ChecksumValid
    NegotiationAgrees
PROPERTIES
    ImplementsBucket
    SomeoneServed
    ShutdownReleases
    HandshakeEnds
CHECK_DEADLOCK FALSE
