SPECIFICATION MCSpec
CONSTANTS
    a = a
    b = b
    c1 = c1
    c2 = c2
    Peers <- TwoPeers
    Packets <- TwoEach
    BufSize = 2
    Room = 5
    Faults = {"interrupt"}
    Clients <- TwoClients
    Listen = listen
    Plans <- TlsPlans
    BytePlans <- TwoBytePlans
    Leavers = {c1}
    SocketFaults = {{}, {"accept", "register", "full"}}
    MAXEVENTS = 2
    Chunk = 2
CHECK_DEADLOCK FALSE
INVARIANT TunnelSound
INVARIANT EchoRight
INVARIANT TlsReleased
PROPERTY Arrives
PROPERTY EndTogether
PROPERTY PlainServed
PROPERTY TlsServed
