CONSTANTS
    k = k
    d = d
    a = a
    m1 = m1
    NULL = NULL
    AddressEnd = AddressEnd
    KernelThread = k
    Driver = d
    Threads = {k, d, a}
    Root = {k, d, a}
    Waiters = {k, a}
    Printers = {k, d, a}
    WaitFlags <- MCWaitFlags
    Garbage <- MCGarbage
    Messages = {m1}
    UINT8 = 2
    STD_TS_QUANTUM = 2
    Pri <- MCPri
SPECIFICATION DispatchSpec
CHECK_DEADLOCK FALSE
INVARIANTS
    PageDirectoryKept
