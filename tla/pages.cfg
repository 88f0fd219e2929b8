CONSTANTS
    MemoryMap <- TwoEntries
    MemUpper = 9
    LowEnd = 2
    KernelStart = 5
    KernelEnd = 7
    Reserve = 2
    MAX_RAM_PAGES = 16
    PerPage = 4
    HeapPages <- FivePages
    Table <- HeapTable
    MaxPage = 16
    ULONG = 16
    NULL = NULL
SPECIFICATION Spec
INVARIANTS
    TypeOK
    PagesOwnedOnce
    FreeCountFollows
PROPERTIES
    StackEntriesStay
    LendsPages
