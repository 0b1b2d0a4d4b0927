SPECIFICATION Spec
CONSTANTS
    Clients = {c1}
    NSlots = 2
    Prompt = TRUE
PROPERTY RunningAfterBind
CHECK_DEADLOCK FALSE
