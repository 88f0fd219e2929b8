CONSTANTS
    k = k
    d = d
    a = a
    b = b
    m1 = m1
    m2 = m2
    NULL = NULL
    KernelThread = k
    Driver = d
    Threads = {k, d, a, b}
    Root = {k, d, a, b}
    Waiters = {k, a, b}
    Printers = {d, a}
    WaitFlags <- AnyWait
    Garbage <- AnyGarbage
    Messages = {m1, m2}
    UINT8 = 2
    STD_TS_QUANTUM = 1
    Pri <- TwoAppsPri
SPECIFICATION Spec
CHECK_DEADLOCK FALSE
INVARIANTS
    IInv
    QueueDiscipline
    ForbidExact
    SignalFindsWaiter
    LeftoverRequestIsIdle
    NestingBounded
    FlagsMatchQueues
    HeldMessageIsHead
    DriverFindable
PROPERTIES
    ForbidHolds
    PortIsMailbox
    HighestPriorityRuns
    KernelIsMultitasking
