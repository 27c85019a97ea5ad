SPECIFICATION FairSpec
CONSTANTS
    t1 = t1  t2 = t2  tm = tm  s = s  m = m
    Thread = {t1, t2}
    Event = {}  Timer = {tm}  Semaphore = {s}
    Mutex = {m}
    Address = {}
    ThreadPrioLowest = 1
    ResetType <- MCResetType
    NULL = NULL
    MinMemory = 0
    MainThread = t1  MainPriority = 1
    Preexisting = {m}
    MaxCount <- MCMaxCount
    CreatePriorities = {0}  SetPriorities = {}
    Sleeps = {"some"}  Timeouts = {"some"}
    WaitLists <- MCWaitLists
    Values = {}  ReleaseCounts <- MCReleaseCounts  SignalCounts = {}
    MinCount <- MCMinCount
    MaxLock = 1
INVARIANTS NoLostWakeup TimerEventsUnique
PROPERTIES   RoutinesEnd
