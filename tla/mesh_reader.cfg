SPECIFICATION Spec
CONSTANTS
    Peers = {p1}
    Conns = {k1, k2}
    Dialers = {}
    Subs = {}
    Expiry = 1
PROPERTY ReaderRemovesItsOwn
CHECK_DEADLOCK FALSE
