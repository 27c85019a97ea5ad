SPECIFICATION WaitingExitSpec
CONSTANTS
    t1 = t1  t2 = t2  t3 = t3  m = m  e = e
    Thread = {t1, t2, t3}
    Event = {e}  Timer = {}  Semaphore = {}
    Mutex = {m}
    Address = {}
    ThreadPrioLowest = 1
    ResetType <- MCResetType
    NULL = NULL
    MinMemory = 0
    MainThread = t1  MainPriority = 1
    Preexisting = {m, e}
    MaxCount <- MCMaxCount
    CreatePriorities = {0, 1}  SetPriorities = {}
    Sleeps = {}  Timeouts = {"some"}
    WaitLists <- MCWaitLists
    Values = {}  ReleaseCounts = {}  SignalCounts = {}
    MinCount = 0
    MaxLock = 1
\* a failed assertion of ExitProcess stops the emulator
CHECK_DEADLOCK FALSE
INVARIANT WaitingThreadsCanExit
