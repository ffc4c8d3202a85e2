SPECIFICATION Spec
CONSTANTS
    HEADER = 2
    NALLOC = 3
    Limit = 6
    Requests = {0, 1, 3}
    Gaps = {0, 1}
INVARIANT HeapSound
INVARIANT FreeListSound
INVARIANT GivesUpLate
PROPERTY CallsReturn
