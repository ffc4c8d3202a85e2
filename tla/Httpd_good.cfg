SPECIFICATION Spec
CONSTANTS
    Conns = {c1, c2}
    Server = server
    Requests <- GoodRequests
    Capacity = 1
    Output = 1
    Faults = {}
CHECK_DEADLOCK FALSE
INVARIANT Released
PROPERTY ClientSeesEnd
