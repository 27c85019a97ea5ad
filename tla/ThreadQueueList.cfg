SPECIFICATION Spec
CONSTANTS
    Thread = {t1, t2, t3}
    ThreadPrioLowest = 4
    NULL = NULL
    Unlinked = Unlinked
INVARIANTS WalksSafe
PROPERTY ImplementsReadyQueue
