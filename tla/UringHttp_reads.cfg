SPECIFICATION Spec
CONSTANTS
    c1 = c1
    c2 = c2
    Clients <- OneClient
    Plans <- FilePlans
    MaxFd = 4
    Garbage = {0, 7}
    Faults = {}
    Free = free
    File = file
CHECK_DEADLOCK FALSE
INVARIANT OneTurn
