SPECIFICATION Spec
CONSTANTS
    t1 = t1  t2 = t2  t3 = t3  m1 = m1  m2 = m2
    Thread = {t1, t2, t3}
    Event = {}  Timer = {}  Semaphore = {}
    Mutex = {m1, m2}
    Address = {}
    ThreadPrioLowest = 2
    ResetType <- MCResetType
    NULL = NULL
    MinMemory = 0
    MainThread = t1  MainPriority = 1
    Preexisting = {}
    MaxCount <- MCMaxCount
    CreatePriorities = {0}  SetPriorities = {2}
    Sleeps = {}  Timeouts = {"some"}
    WaitLists <- MCWaitLists
    Values = {}  ReleaseCounts = {}  SignalCounts = {}
    MinCount = 0
    MaxLock = 2
SYMMETRY Symmetry
INVARIANTS ReadyQueueExact WaitListsExact
    MutexOwnership EffectivePriority 
