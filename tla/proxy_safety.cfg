\* A server that is started, shut down and started again: the loops of both
\* calls of ListenAndServe can overlap.
SPECIFICATION Spec
CONSTANTS
    Conns = {c1, c2}
    Users = {u1}
    NCalls = 2
    Stops = {w1}
    MaxConnections = 1
    AuthRequired = TRUE
    MaxErrors = 0
SYMMETRY Symmetric
CHECK_DEADLOCK FALSE
INVARIANTS TypeOK CountersExact ConnectionLimit AuthBeforeRelay QuietAfterShutdown
