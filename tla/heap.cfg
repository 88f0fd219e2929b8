CONSTANTS
    SH_HEAP_START = 0
    HEADER = 2
    PAGE = 8
    Sizes = {2, 4}
    MaxLive = 3
    MaxPages = 2
    NULL = NULL
SPECIFICATION UnsplitSpec
INVARIANTS
    TypeOK
    BlocksDisjoint
    ChunksTileHeap
    PagesExact
PROPERTIES
    StoresBlocks
