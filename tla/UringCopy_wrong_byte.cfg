SPECIFICATION Spec
CONSTANTS
    QUEUE_DEPTH = 2
    BLOCK_SZ = 2
    FileSize = 4
    IoData = {d1, d2}
    FaultSets = {{"short"}}
CHECK_DEADLOCK FALSE
INVARIANT NoWrongByte
