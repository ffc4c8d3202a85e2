SPECIFICATION Spec
CONSTANTS
    Conns = {c1, c2}
    Server = server
    Requests <- AllRequests
    Capacity = 1
    Output = 2
    Faults = {"accept", "pthread_create", "pipe", "fork", "disconnect"}
SYMMETRY ConnSymmetry
CHECK_DEADLOCK FALSE
INVARIANT DataWhole
INVARIANT EndsForCause
