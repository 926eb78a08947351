SPECIFICATION Spec
CONSTANTS
    Cancellers <- TwoCancellers
    MaxOps = 3
    MaxCancels = 3
PROPERTIES CancelIsThreadSafe
CHECK_DEADLOCK FALSE
