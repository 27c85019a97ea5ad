SPECIFICATION Spec
CONSTANTS
    t1 = t1  t2 = t2  t3 = t3  e = e  p = p  word = word
    Thread = {t1, t2, t3}
    Event = {e, p}  Timer = {}  Semaphore = {}
    Mutex = {}
    Address = {word}
    ThreadPrioLowest = 1
    ResetType <- MCResetType
    NULL = NULL
    MinMemory <- MCMinMemory
    MainThread = t1  MainPriority = 1
    Preexisting = {e}
    MaxCount <- MCMaxCount
    CreatePriorities = {0, 1}  SetPriorities = {}
    Sleeps = {}  Timeouts = {"some"}
    WaitLists <- MCWaitLists
    Values = {1}  ReleaseCounts = {}  SignalCounts <- MCSignalCounts
    MinCount = 0
    MaxLock = 1
SYMMETRY MCSymmetry
INVARIANTS WakeupEventsSound OneRunningThread
    ArbiterListExact NoFailedAssert
PROPERTY PreemptedByBetter
