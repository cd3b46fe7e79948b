SPECIFICATION MCSpec
CONSTANTS
    Futures = {f1, f2}
    Threads = {w1, w2}
    Permits = 2
    MaxWakers = 3
    Word = 2
    PAGE_SIZE = 8
    INIT_SIZE = 2
    PaddingBits = 3
    Layouts <- MCLayouts
    MaxHeap = 40
    MaxLive = 3
    IdleThread = idle
    TaskThread = exec
    UserThreads = {t1, t2}
    Pids = {p1, p2}
    InitPid = p1
    InitTid = t1
    Nil = Nil
    NewTaskCapacity = 2
    ReadyCapacity = 3
    RecvCapacity = 2
    MaxCommands = 2
SYMMETRY MCSymmetry
INVARIANTS
    SemTypeOK
    PermitsConserved
    NoDanglingSignal
    SleepersAreQueued
    HeapTypeOK
    HeapIsTiled
    DataFitsBlock
    SizesNeverOverflow
    TypeOK
    ExitedNeverRuns
    PendingHasWaker
    ReadyIsKnown
    DeadLeavesTable
    KillIsComplete
PROPERTIES FirstExitStays
