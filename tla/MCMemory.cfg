SPECIFICATION Spec
CONSTANTS
    MAX_ADDRESS = 8  NULL = NULL
    HEAP_VADDR = 1  HEAP_VADDR_END = 3  StackSize = 1
    SHARED_MEMORY_VADDR_END = 5
    LinearHeapBase = 5  LinearHeapLimit = 8
    Shared = {s1}
    Sizes = {0, 1, 2}  SharedSizes = {1}
    Permissions <- MCPermissions  LinearPermissions <- MCLinear
    ProtectAddresses = {5, 7}
    MapAddresses = {0, 3}
\* a failed assertion stops the emulator
CHECK_DEADLOCK FALSE
INVARIANTS AreasTile PageTableCurrent FreeAreasMerged HeapAreasInsideBlock
     
PROPERTIES PlacesStay NeighboursKeepPermissions
