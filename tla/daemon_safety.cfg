SPECIFICATION Spec
CONSTANTS
    Clients = {c1, c2}
    NSlots = 3
    Prompt = TRUE
SYMMETRY Symmetric
INVARIANTS
    TypeOK
    LockedOnlyWithTunnel
    MasterServes
    StoppedQuiet
    ExitUnlocked
CHECK_DEADLOCK FALSE
