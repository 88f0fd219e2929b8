CONSTANTS
    k = k
    d = d
    a = a
    b = b
    m1 = m1
    m2 = m2
    NULL = NULL
    KernelThread = k
    Driver = d
    Threads = {k, d}
    Root = {k, d}
    Waiters = {}
    Printers = {}
    WaitFlags <- NoWaits
    Garbage <- Zeroed
    Messages = {m1, m2}
    UINT8 = 4
    STD_TS_QUANTUM = 2
    Pri <- ShippedPri
SPECIFICATION Spec
INVARIANTS
    NoLostWakeup
