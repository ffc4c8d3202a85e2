SPECIFICATION AllSpec
CONSTANTS
    Bufs = {b1}
    MYTBF_MAX = 1
    Garbage = {0}
    NULL = NULL
    CpsSet = {1, 2}
    BurstSet = {1, 3}
    Sizes = {0, 1, 2}
    CallResults = {"ok"}
    MaxLoads = 1
    MaxWindow = 3
INVARIANT TokenBounds
INVARIANT RateBound
PROPERTY FetchReturns
