--------------------------- MODULE ProcessMemory ----------------------------
(* The memory of one process: svcControlMemory with the heap and the       *)
(* linear heap behind it, and shared memory blocks that the process        *)
(* creates, maps and unmaps.  A call is one step.  A failed assertion      *)
(* stops the emulator.  linear_heap_used and the region's `used' are left  *)
(* out: the kernel only reports them.  The size of heap_memory is          *)
(* heap_end - heap_start, as the code asserts.                             *)
EXTENDS VMManager

CONSTANTS
    HEAP_VADDR, HEAP_VADDR_END,
    SHARED_MEMORY_VADDR_END,
    LinearHeapBase, LinearHeapLimit,
    StackSize,          \* the stack ends the heap's address range
    Shared,             \* shared memory objects
    Sizes, SharedSizes, \* sizes the guest asks for
    Permissions,        \* permissions it asks for, subsets of ReadWrite
    LinearPermissions,  \* those it asks for in linear and in shared memory
    ProtectAddresses,   \* where it changes permissions
    MapAddresses        \* where it maps shared memory; 0 lets the kernel choose

ASSUME LayoutFits ==
    /\ {MAX_ADDRESS, HEAP_VADDR, HEAP_VADDR_END, SHARED_MEMORY_VADDR_END,
        LinearHeapBase, LinearHeapLimit, StackSize} \subseteq Nat
    /\ 0 < HEAP_VADDR
    /\ 0 < StackSize /\ HEAP_VADDR + StackSize < HEAP_VADDR_END
    /\ HEAP_VADDR_END <= SHARED_MEMORY_VADDR_END
    /\ SHARED_MEMORY_VADDR_END <= LinearHeapBase
    /\ LinearHeapBase < LinearHeapLimit /\ LinearHeapLimit <= MAX_ADDRESS
    /\ NULL \notin {"heap", "linear", "stack"}
    /\ \A perms \in SUBSET ReadWrite : perms # NULL
    /\ Sizes \subseteq Nat /\ SharedSizes \subseteq Nat /\ MapAddresses \subseteq Nat
    /\ Permissions \subseteq SUBSET ReadWrite
    /\ LinearPermissions \subseteq SUBSET ReadWrite
    /\ ProtectAddresses \subseteq Address

VARIABLES
    vma_map, page_table,
    heap_start, heap_end,       \* 0 while heap_memory is null
    heap_used,
    linheap_size,               \* linear_heap_memory->size() of the region
    shared,                     \* a created object's fields, else NULL
    failed                      \* the assertion that failed, and the size asked for

areaVars == <<vma_map, page_table>>
heapVars == <<heap_start, heap_end, heap_used>>
vars == <<areaVars, heapVars, linheap_size, shared, failed>>

StackArea == Allocation(HEAP_VADDR_END - StackSize, "stack", 0, StackSize, "Locked")

BlockSize(block) ==
    CASE block = "heap" -> heap_end - heap_start
      [] block = "linear" -> linheap_size
      [] block = "stack" -> StackSize

(* Reset, then Process::Run, which maps the stack; its code, its special   *)
(* mappings and the thread-local storage lie elsewhere.                    *)
Init ==
    /\ vma_map = {FreeArea(0, StackArea.base), StackArea,
                  FreeArea(HEAP_VADDR_END, MAX_ADDRESS - HEAP_VADDR_END)}
    /\ page_table = UpdatePageTableForVMA([p \in Address |-> NULL], StackArea)
    /\ heap_start = 0 /\ heap_end = 0
    /\ heap_used = 0
    /\ linheap_size = 0
    /\ shared = [s \in Shared |-> NULL]
    /\ failed = NULL

(* The process runs guest code, which may call the kernel.                 *)
Running == failed = NULL

Fail(assertion, size) == failed' = [assertion |-> assertion, size |-> size]

-----------------------------------------------------------------------------
(* MapMemoryBlock and the Reprotect that follows it in both allocators:    *)
(* the latter gets the area the former returns, which may be a merged one. *)
(* table is the page table by then.                                        *)
MapAndReprotect(table, target, block, offset, size, state, perms) ==
    LET mapped == MapMemoryBlock(vma_map, target, block, offset, size, state)
        v == FindVMA(mapped, target)
        w == [v EXCEPT !.permissions = perms]
    IN  /\ vma_map' = MergeAdjacent(mapped, v, w)
        /\ page_table' = UpdatePageTableForVMA(table, w)

(* What an allocation does once its block has been grown to limit: the     *)
(* assertion of MapMemoryBlock, the error of CarveVMA, the assertion of    *)
(* SplitVMA on an empty range, or the new area.                            *)
Allocate(table, target, block, offset, limit, size, state, perms, succeeds, fails) ==
    \/ /\ offset + size > limit
       /\ Fail("MapMemoryBlock", size)
       /\ page_table' = table /\ fails /\ UNCHANGED vma_map
    \/ /\ offset + size <= limit
       /\ ~CanCarve(vma_map, target, size)
       /\ page_table' = table /\ fails /\ UNCHANGED <<vma_map, failed>>
    \/ /\ offset + size <= limit
       /\ CanCarve(vma_map, target, size) /\ size = 0
       /\ Fail("SplitVMA", size)
       /\ page_table' = table /\ fails /\ UNCHANGED vma_map
    \/ /\ offset + size <= limit
       /\ CanCarve(vma_map, target, size) /\ size > 0
       /\ MapAndReprotect(table, target, block, offset, size, state, perms)
       /\ succeeds /\ UNCHANGED failed

InHeap(target, size) == HEAP_VADDR <= target /\ target + size <= HEAP_VADDR_END

(* The extents grow on the left and on the right, each with a refresh, and *)
(* stay grown when the mapping fails.                                      *)
HeapAllocate(target, size, perms) ==
    LET first == heap_end = 0
        start == IF first \/ target < heap_start THEN target ELSE heap_start
        end == IF first \/ target + size > heap_end THEN target + size ELSE heap_end
        grown == ~first /\ (start # heap_start \/ end # heap_end)
        table == IF grown
                 THEN RefreshMemoryBlockMappings(vma_map, Moved(page_table, "heap"), "heap")
                 ELSE page_table
    IN  /\ Running /\ InHeap(target, size)
        /\ heap_start' = start /\ heap_end' = end
        /\ Allocate(table, target, "heap", target - start, end - start, size,
                    "Private", perms,
                    heap_used' = heap_used + size, UNCHANGED heap_used)
        /\ UNCHANGED <<linheap_size, shared>>

LinearHeapEnd == LinearHeapBase + linheap_size
InLinear(target, size) == LinearHeapBase <= target /\ target + size <= LinearHeapLimit

(* Address 0 asks for the end of the linear heap.                          *)
LinearAllocate(address, size, perms) ==
    LET target == IF address = 0 THEN LinearHeapEnd ELSE address
        grows == target = LinearHeapEnd
        table == IF grows
                 THEN RefreshMemoryBlockMappings(vma_map, Moved(page_table, "linear"),
                                                 "linear")
                 ELSE page_table
        length == IF grows THEN linheap_size + size ELSE linheap_size
    IN  /\ Running /\ InLinear(target, size) /\ target <= LinearHeapEnd
        /\ linheap_size' = length
        /\ Allocate(table, target, "linear", target - LinearHeapBase, length, size,
                    "Continuous", perms,
                    TRUE, TRUE)
        /\ UNCHANGED <<heapVars, shared>>

-----------------------------------------------------------------------------
(* What ends UnmapRange and ReprotectRange early: an assertion of          *)
(* CarveVMARange, or a free area in the range.                             *)
RangeRefused(target, size) ==
    \/ /\ size = 0 \/ target + size > MAX_ADDRESS
       /\ Fail("CarveVMARange", size) /\ UNCHANGED areaVars
    \/ /\ size > 0 /\ target + size <= MAX_ADDRESS
       /\ ~CanCarveRange(vma_map, target, size)
       /\ UNCHANGED <<areaVars, failed>>

RangeAccepted(target, size) ==
    /\ size > 0 /\ target + size <= MAX_ADDRESS
    /\ CanCarveRange(vma_map, target, size)

(* UnmapRange, with its last assertion.                                    *)
Unmap(target, size) ==
    LET done == UnmapRange(vma_map, page_table, target, size)
        v == FindVMA(done.map, target)
    IN  /\ RangeAccepted(target, size)
        /\ vma_map' = done.map /\ page_table' = done.table
        /\ failed' = IF IsFree(v) /\ v.size >= size THEN NULL
                     ELSE [assertion |-> "UnmapRange", size |-> size]

(* MEMOP_FREE picks the allocator by the address.                          *)
HeapFree(target, size) ==
    /\ Running /\ InHeap(target, size) /\ size > 0
    /\ \/ RangeRefused(target, size) /\ UNCHANGED heap_used
       \/ Unmap(target, size) /\ heap_used' = heap_used - size
    /\ UNCHANGED <<heap_start, heap_end, linheap_size, shared>>

(* Mutant: to the start of the heap, whatever is below the range.          *)
FreedLinearAll(end, v) == IF end = LinearHeapEnd THEN 0 ELSE linheap_size

(* LinearFree of the end of the heap cuts it off where the free area       *)
(* begins that the freed range has become part of, unless that is below    *)
(* the heap.                                                               *)
FreedLinearSize(end, v) ==
    IF end = LinearHeapEnd /\ v.base >= LinearHeapBase
    THEN v.base - LinearHeapBase ELSE linheap_size

LinearFree(target, size) ==
    /\ Running /\ InLinear(target, size) /\ size > 0
    /\ target + size <= LinearHeapEnd
    /\ \/ RangeRefused(target, size) /\ UNCHANGED linheap_size
       \/ /\ Unmap(target, size)
          /\ linheap_size' = FreedLinearSize(target + size, FindVMA(vma_map', target))
    /\ UNCHANGED <<heapVars, shared>>

(* MEMOP_PROTECT                                                           *)
Protect(target, size, perms) ==
    LET done == ReprotectRange(vma_map, page_table, target, size, perms)
    IN  /\ Running
        /\ \/ RangeRefused(target, size)
           \/ /\ RangeAccepted(target, size)
              /\ vma_map' = done.map /\ page_table' = done.table
              /\ UNCHANGED failed
        /\ UNCHANGED <<heapVars, linheap_size, shared>>

-----------------------------------------------------------------------------
(* svcCreateMemoryBlock at address 0, for a process with the Shared Device *)
(* Memory flag: from the end of its region's linear heap.                  *)
CreateFromLinear(s, size, perms) ==
    /\ Running /\ shared[s] = NULL
    /\ \/ /\ LinearHeapEnd + size > LinearHeapLimit
          /\ Fail("SharedMemory::Create", size)
          /\ UNCHANGED <<page_table, linheap_size, shared>>
       \/ /\ LinearHeapEnd + size <= LinearHeapLimit
          /\ shared' = [shared EXCEPT ![s] = [block |-> "linear", offset |-> linheap_size,
                          size |-> size, permissions |-> perms, base_address |-> 0]]
          /\ linheap_size' = linheap_size + size
          /\ page_table' = RefreshMemoryBlockMappings(vma_map, Moved(page_table, "linear"),
                                                      "linear")
          /\ UNCHANGED failed
    /\ UNCHANGED <<vma_map, heapVars>>

(* svcCreateMemoryBlock at an address: over memory that is mapped there.   *)
CreateOverMapped(s, address, size, perms) ==
    LET v == FindVMA(vma_map, address)
    IN  /\ Running /\ shared[s] = NULL
        /\ HEAP_VADDR <= address /\ address + size <= SHARED_MEMORY_VADDR_END
        /\ \/ /\ IsFree(v) \/ address + size > End(v)
              /\ Fail("SharedMemory::Create", size)
              /\ UNCHANGED shared
           \/ /\ ~IsFree(v) /\ address + size <= End(v)
              /\ shared' = [shared EXCEPT ![s] =
                   [block |-> v.block, offset |-> v.offset + address - v.base,
                    size |-> size, permissions |-> perms, base_address |-> address]]
              /\ UNCHANGED failed
        /\ UNCHANGED <<areaVars, heapVars, linheap_size>>

(* Where a block is mapped: PhysicalToVirtualAddress for one the kernel    *)
(* allocated, when the guest gives no address.                             *)
TargetAddress(s, address) ==
    IF shared[s].base_address = 0 /\ address = 0
    THEN LinearHeapBase + shared[s].offset ELSE address

(* SharedMemory::Map by the owner, who may map with the permissions the    *)
(* block was created with or fewer.  What the caller wants others to have  *)
(* is taken to be what the kind of block demands; else it is an error.     *)
SharedMap(s, address, perms) ==
    LET m == shared[s]
        target == TargetAddress(s, address)
    IN  /\ Running /\ m # NULL
        /\ perms \subseteq m.permissions
        /\ address # 0 => HEAP_VADDR <= address /\ address + m.size < SHARED_MEMORY_VADDR_END
        /\ \/ /\ m.offset + m.size > BlockSize(m.block)
              /\ Fail("MapMemoryBlock", m.size)
              /\ UNCHANGED areaVars
           \/ /\ m.offset + m.size <= BlockSize(m.block)
              /\ ~CanCarve(vma_map, target, m.size)
              /\ UNCHANGED <<areaVars, failed>>
           \/ /\ m.offset + m.size <= BlockSize(m.block)
              /\ CanCarve(vma_map, target, m.size) /\ m.size = 0
              /\ Fail("SplitVMA", m.size)
              /\ UNCHANGED areaVars
           \/ /\ m.offset + m.size <= BlockSize(m.block)
              /\ CanCarve(vma_map, target, m.size) /\ m.size > 0
              /\ LET mapped == MapMemoryBlock(vma_map, target, m.block, m.offset, m.size,
                                              "Shared")
                     table == UpdatePageTableForVMA(page_table,
                                Allocation(target, m.block, m.offset, m.size, "Shared"))
                     done == ReprotectRange(mapped, table, target, m.size, perms)
                 IN  vma_map' = done.map /\ page_table' = done.table
              /\ UNCHANGED failed
        /\ UNCHANGED <<heapVars, linheap_size, shared>>

(* SharedMemory::Unmap at an address where the block may have been mapped. *)
SharedUnmap(s, address) ==
    LET target == TargetAddress(s, address)
    IN  /\ Running /\ shared[s] # NULL
        /\ RangeRefused(target, shared[s].size) \/ Unmap(target, shared[s].size)
        /\ UNCHANGED <<heapVars, linheap_size, shared>>

-----------------------------------------------------------------------------
(* svcControlMemory dispatches; MEMOP_MAP and MEMOP_UNMAP are HeapAllocate *)
(* and HeapFree again.                                                     *)
ControlMemory ==
    \E size \in Sizes :
       \/ \E target \in Address, perms \in Permissions : HeapAllocate(target, size, perms)
       \/ \E target \in {0} \cup (LinearHeapBase .. LinearHeapLimit) :
             \E perms \in LinearPermissions : LinearAllocate(target, size, perms)
       \/ \E target \in Address : HeapFree(target, size) \/ LinearFree(target, size)
       \/ \E target \in ProtectAddresses, perms \in Permissions : Protect(target, size, perms)

SharedCalls ==
    \E s \in Shared, perms \in LinearPermissions :
       \/ \E size \in SharedSizes :
             \/ CreateFromLinear(s, size, perms)
             \/ \E address \in Address : CreateOverMapped(s, address, size, perms)
       \/ \E address \in MapAddresses : SharedMap(s, address, perms) \/ SharedUnmap(s, address)

Next == ControlMemory \/ SharedCalls

Spec == Init /\ [][Next]_vars

-----------------------------------------------------------------------------
Block == {"heap", "linear", "stack", NULL}
Area == [base : Nat, size : Nat \ {0}, permissions : SUBSET ReadWrite,
         meminfo_state : {"Free", "Locked", "Private", "Continuous", "Shared"},
         block : Block, offset : Nat]
SharedMemory == [block : Block \ {NULL}, offset : Nat, size : Nat,
                 permissions : SUBSET ReadWrite, base_address : Nat]

(* Types: no size or place in a block is negative, though the extents of   *)
(* the heaps move in both directions, the linear heap keeps to its         *)
(* addresses, and a free area keeps nothing of what was mapped there.      *)
TypeOK ==
    /\ vma_map \subseteq Area
    /\ \A v \in vma_map : IsFree(v) => v.permissions = {} /\ v.meminfo_state = "Free"
    /\ \A p \in Address : page_table[p] \in {NULL} \cup [block : Block, index : Nat]
    /\ {heap_start, heap_end, linheap_size} \subseteq Nat
    /\ heap_start <= heap_end
    /\ LinearHeapEnd <= LinearHeapLimit
    /\ shared \in [Shared -> {NULL} \cup SharedMemory]

Tiles(map) ==
    /\ \A v \in map : v.size > 0 /\ v.base >= 0 /\ End(v) <= MAX_ADDRESS
    /\ \A v, w \in map : v = w \/ End(v) <= w.base \/ End(w) <= v.base
    /\ \A p \in Address : \E v \in map : p \in Pages(v)

(* The areas cover the managed addresses and do not overlap: the invariant *)
(* "elem.base + elem.size == next.base" that vm_manager.h demands of every *)
(* way to modify vma_map.                                                  *)
AreasTile == Tiles(vma_map)

(* The page table says of each page what its area says, and no pointer     *)
(* dangles: every operation that moves a block refreshes the areas it      *)
(* backs, and every one that changes an area enters it.                    *)
PageTableCurrent ==
    \A p \in Address : page_table[p] = PointerAt(FindVMA(vma_map, p), p)

(* Free areas are merged, on which CarveVMA relies: it looks for room in   *)
(* one free area only, so an unmerged pair would refuse an allocation that *)
(* fits.                                                                   *)
FreeAreasMerged ==
    \A v, w \in vma_map : IsFree(v) /\ IsFree(w) => ~CanBeMergedWith(v, w)

(* The heap and the linear heap keep what is mapped from them: no such     *)
(* area reaches beyond its block.  LinearFree, which cuts the block, goes  *)
(* by the free areas at linear addresses; a shared block that is mapped    *)
(* elsewhere is not covered by it.                                         *)
HeapAreasInsideBlock ==
    \A v \in vma_map :
       v.meminfo_state \in {"Private", "Continuous"} => v.offset + v.size <= BlockSize(v.block)

(* heap_used counts the pages mapped in the heap's address range; freeing  *)
(* the stack, which HeapFree allows, counts as heap.  It is about guests   *)
(* that map shared blocks outside that range: SharedMemory::Map accepts an *)
(* address in it, and does not count.                                      *)
HeapUsedExact ==
    heap_used + StackSize =
       Cardinality({p \in HEAP_VADDR .. HEAP_VADDR_END - 1 : ~IsFree(FindVMA(vma_map, p))})

(* Of all assertions on the way, guest calls reach those about the size 0, *)
(* about a block that ends early, about addresses of a shared block, and   *)
(* CarveVMARange's about a range beyond the managed addresses.  For a      *)
(* range that is not empty those of SplitVMA hold, and so does the last of *)
(* UnmapRange: what was unmapped has become one free area.                 *)
AssertionsExplained ==
    failed # NULL =>
       \/ failed.size = 0
       \/ failed.assertion \in {"MapMemoryBlock", "SharedMemory::Create", "CarveVMARange"}

(* A page that stays mapped keeps its place in its block, whatever is      *)
(* split, merged, moved or refreshed around it.  With its place it keeps   *)
(* its content, unless the heap grows to the left: HeapAllocate then puts  *)
(* new pages before the content and leaves the places of the areas alone.  *)
PlacesStay ==
    [][\A p \in Address :
         page_table[p] # NULL /\ page_table'[p] # NULL
            => page_table'[p] = page_table[p]]_vars

PermissionsOf(map, p) == FindVMA(map, p).permissions

(* A page that stays mapped changes its permissions only in the range that *)
(* MEMOP_PROTECT is asked for, or because it was ReadWrite and has been    *)
(* merged with a new allocation, whose Reprotect then gets the merged area.*)
NeighboursKeepPermissions ==
    [][\A p \in Address :
         /\ page_table[p] # NULL /\ page_table'[p] # NULL
         /\ PermissionsOf(vma_map, p) # PermissionsOf(vma_map', p)
         => \/ \E target \in ProtectAddresses, size \in Sizes, perms \in Permissions :
                 p \in target .. target + size - 1 /\ Protect(target, size, perms)
            \/ /\ PermissionsOf(vma_map, p) = ReadWrite
               /\ \E q \in Pages(FindVMA(vma_map', p)) : page_table[q] = NULL]_vars

(* vm_manager.h on vma_map: "mergeable regions must always be merged when  *)
(* possible so that no two similar and adjacent regions exist that have    *)
(* not been merged".  ReprotectRange leaves two: a first area that takes   *)
(* in the last one of the range is not merged with what follows.           *)
SimilarAreasMerged ==
    \A v, w \in vma_map : ~CanBeMergedWith(v, w)
=============================================================================
