SPECIFICATION FairSpec
CONSTANTS
    Clients = {c1}
    NSlots = 2
    Prompt = TRUE
PROPERTIES
    StartReturns
    MainExits
CHECK_DEADLOCK FALSE
