SPECIFICATION Spec
CONSTANTS
    MAX_ADDRESS = 8  NULL = NULL
    HEAP_VADDR = 1  HEAP_VADDR_END = 4  StackSize = 1
    SHARED_MEMORY_VADDR_END = 6
    LinearHeapBase = 6  LinearHeapLimit = 8
    Shared = {s1}
    Sizes = {0, 1, 2}  SharedSizes = {1}
    Permissions <- MCPermissions  LinearPermissions <- MCLinear
    ProtectAddresses = {1, 2}
    MapAddresses = {0, 4}
\* a failed assertion stops the emulator
CHECK_DEADLOCK FALSE
INVARIANT SimilarAreasMerged
