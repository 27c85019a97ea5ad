CONSTANTS
    Object = {o1, o2}
    MAX_COUNT = 3
    GenLimit = 4
    SlotLimit = 4
    CurrentThread = 30
    NULL = NULL
    MaxEpoch = 2
SPECIFICATION MCSpec
INVARIANTS TypeOK FreeListExact StaleHandlesRejected
