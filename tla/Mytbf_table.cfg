SPECIFICATION AllSpec
CONSTANTS
    Bufs = {b1, b2, b3}
    MYTBF_MAX = 2
    Garbage = {0, 1, 7}
    NULL = NULL
    CpsSet = {1}
    BurstSet = {1}
    Sizes = {1}
    CallResults = {"ok", "fail"}
    MaxLoads = 3
    MaxWindow = 0
SYMMETRY BufSymmetry
INVARIANT TypeOK
INVARIANT TableSound
INVARIANT LoadsOnce
PROPERTY KilledOnlyInExit
