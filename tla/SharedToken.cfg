SPECIFICATION Spec
CONSTANTS
    Workflows = {w1, w2}
    MaxAttempts = 1
CHECK_DEADLOCK FALSE
PROPERTIES
    NeverRemovesAccess
