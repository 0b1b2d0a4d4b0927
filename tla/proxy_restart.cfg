\* The same server; here the question is whether it survives its restart.
SPECIFICATION Spec
CONSTANTS
    Conns = {c1}
    Users = {u1}
    NCalls = 2
    Stops = {w1}
    MaxConnections = 1
    AuthRequired = TRUE
    MaxErrors = 0
CHECK_DEADLOCK FALSE
INVARIANT NoNilListener
