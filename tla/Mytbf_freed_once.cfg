SPECIFICATION Spec
CONSTANTS
    Bufs = {b1, b2}
    MYTBF_MAX = 2
    NULL = NULL
    CpsSet = {1}
    BurstSet = {1}
    Sizes = {1}
    CallResults = {"ok"}
    MaxLoads = 2
    MaxWindow = 1
INVARIANT FreedOnce
