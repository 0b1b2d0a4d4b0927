SPECIFICATION Spec
CONSTANTS
    Clients = {c1}
    NSlots = 2
    Prompt = TRUE
INVARIANT PrivacyInForce
CHECK_DEADLOCK FALSE
