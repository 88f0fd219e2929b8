CONSTANTS
    k = k
    d = d
    a = a
    b = b
    m1 = m1
    m2 = m2
    NULL = NULL
    KernelThread = k
    Driver = d
    Threads = {k, d}
    Root = {k, d}
    Waiters = {}
    Printers = {k, d}
    WaitFlags <- NoWaits
    Garbage <- Zeroed
    Messages = {m1}
    UINT8 = 4
    STD_TS_QUANTUM = 1
    Pri <- ShippedPri
SPECIFICATION FairSpec
PROPERTIES
    ReadyDriverRuns
