SPECIFICATION FairSpec
CONSTANTS
    Peers = {p1, p2}
    Conns = {k1, k2}
    Dialers = {d1}
    Subs = {s1}
    Expiry = 1
SYMMETRY PeerSymmetry
INVARIANTS
    TypeOK
    TableOwnsConnections
    PeerCountExact
    NoSendOnClosed
    StopClosesListener
PROPERTIES
    DeadPeerRemoved
    StopReturns
CHECK_DEADLOCK FALSE
