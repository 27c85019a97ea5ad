SPECIFICATION Spec
CONSTANTS
    Type = {"vblank"}  Userdata = {0}
    Host = {h1}
    MAX_SLICE_LENGTH = 2
    Cycles = {0, 2}  Ticks = {1, 3}
    MaxTicks = 4  MaxEvents = 2
    NULL = NULL
CHECK_DEADLOCK FALSE
INVARIANTS LateOnlyByOverrun HostEventsTimely
PROPERTIES FiresInOrder TimeGoesBackOnlyInIdle
