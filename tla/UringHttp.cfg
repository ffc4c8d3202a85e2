SPECIFICATION Spec
CONSTANTS
    c1 = c1
    c2 = c2
    Clients <- TwoClients
    Plans <- MixedPlans
    MaxFd = 3
    Garbage = {0}
    Faults = {"disconnect"}
    Free = free
    File = file
CHECK_DEADLOCK FALSE
INVARIANT OneTurn
INVARIANT DescriptorsRight
PROPERTY AllAnswered
PROPERTY SocketClosed
