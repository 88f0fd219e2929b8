CONSTANTS
    k = k
    d = d
    a = a
    b = b
    m1 = m1
    m2 = m2
    NULL = NULL
    KernelThread = k
    Driver = d
    Threads = {k, d, a}
    Root = {k, d, a}
    Waiters = {k, a}
    Printers = {k, d, a}
    WaitFlags <- ForEver
    Garbage <- Zeroed
    Messages = {m1, m2}
    UINT8 = 1
    STD_TS_QUANTUM = 1
    Pri <- AppPri
SPECIFICATION HeardSpec
CHECK_DEADLOCK FALSE
PROPERTIES
    ReadyDriverRuns
    MessagesConsumed
    IdleEnds
