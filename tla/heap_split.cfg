CONSTANTS
    SH_HEAP_START = 0
    HEADER = 2
    PAGE = 8
    Sizes = {2}
    MaxLive = 4
    MaxPages = 3
    NULL = NULL
SPECIFICATION FifoSpec
INVARIANTS
    BlocksDisjoint
