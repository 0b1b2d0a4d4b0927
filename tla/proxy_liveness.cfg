\* One call of ListenAndServe, with clients and targets that may do nothing.
SPECIFICATION FairSpec
CONSTANTS
    Conns = {c1, c2}
    Users = {u1}
    NCalls = 1
    Stops = {w1}
    MaxConnections = 2
    AuthRequired = FALSE
    MaxErrors = 1
CHECK_DEADLOCK FALSE
INVARIANT NoNilListener
PROPERTIES CancelledHandlerEnds ShutdownReturns
