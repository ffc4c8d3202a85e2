SPECIFICATION MCSpec
CONSTANTS
    QUEUE_DEPTH = 2
    BLOCK_SZ = 2
    FileSize = 5
    IoData = {d1, d2, d3}
    FaultSets = {{}, {"wait", "io"}, {"malloc", "wait", "io", "eagain"},
                 {"malloc", "submit", "wait", "io", "eagain", "short"}}
    Files = 3
    SqEntries = 1
    CqEntries = 2
    Wrap = 4
    CatDepth = 1
    QD = 4
    Block = 2
    MaxSize = 9
CHECK_DEADLOCK FALSE
INVARIANT QueuesSound
INVARIANT WholeTransfersRight
INVARIANT SuccessCoversFile
INVARIANT PrintsRight
INVARIANT TestRight
PROPERTY CopiesBlocks
PROPERTY CopyEnds
PROPERTY CatsEnd
