----------------------------- MODULE VMManager ------------------------------
(* The areas of a process's address space (Kernel::VMManager): how they    *)
(* are found, split, carved out and merged, and the page table that        *)
(* follows them.  Addresses and sizes count pages.  An area is a record    *)
(* and vma_map, which the code keys by `base`, a set of areas.  `block'    *)
(* stands for what backs an area: an allocated block, host memory or       *)
(* registers, the three types the code treats alike; a Free area has none. *)
(* ChangeMemoryState is left out: only unit tests call it.                 *)
EXTENDS Integers, FiniteSets

CONSTANTS
    MAX_ADDRESS,    \* the number of pages managed
    NULL

Address == 0 .. MAX_ADDRESS - 1
ReadWrite == {"R", "W"}

End(v) == v.base + v.size
Pages(v) == v.base .. v.base + v.size - 1

FreeArea(base, size) ==
    [base |-> base, size |-> size, permissions |-> {}, meminfo_state |-> "Free",
     block |-> NULL, offset |-> 0]

IsFree(v) == v.block = NULL

FindVMA(map, target) == CHOOSE v \in map : target \in Pages(v)

CanBeMergedWith(v, next) ==
    /\ End(v) = next.base
    /\ v.permissions = next.permissions
    /\ v.meminfo_state = next.meminfo_state
    /\ v.block = next.block
    /\ IsFree(v) \/ v.offset + v.size = next.offset

(* Mutant: both halves start at the same place of the block.               *)
SplitVMASameOffset(map, v, k) ==
    (map \ {v}) \cup
      {[v EXCEPT !.size = k], [v EXCEPT !.base = @ + k, !.size = @ - k]}

(* The second half of an area starts that much later in its block.         *)
SplitVMA(map, v, k) ==
    (map \ {v}) \cup
      {[v EXCEPT !.size = k],
       [v EXCEPT !.base = @ + k, !.size = @ - k,
                 !.offset = IF IsFree(v) THEN @ ELSE @ + k]}

(* Split at an address that no area begins at.                             *)
SplitAt(map, a) ==
    IF a >= MAX_ADDRESS \/ \E v \in map : v.base = a
    THEN map
    ELSE LET v == FindVMA(map, a) IN SplitVMA(map, v, a - v.base)

(* Mutant: the area before is forgotten.                                   *)
JoinedToNext(map, v) ==
    LET next == {n \in map : CanBeMergedWith(v, n)}
    IN  IF next = {} THEN v
        ELSE [v EXCEPT !.size = @ + (CHOOSE n \in next : TRUE).size]

(* The area after v is taken in first, then v is added to the one before.  *)
Joined(map, v) ==
    LET next == {n \in map : CanBeMergedWith(v, n)}
        grown == IF next = {} THEN v
                 ELSE [v EXCEPT !.size = @ + (CHOOSE n \in next : TRUE).size]
        prev == {p \in map : CanBeMergedWith(p, v)}
    IN  IF prev = {} THEN grown
        ELSE LET p == CHOOSE q \in prev : TRUE
             IN  [p EXCEPT !.size = @ + grown.size]

(* Mutant: the neighbours that were taken in stay in the map.             *)
MergeKeepsNeighbours(map, v, w) == (map \ {v}) \cup {Joined(map \ {v}, w)}

(* Change area v of map into w, of the same pages, and merge: MergeAdjacent *)
(* as every caller of it uses it.                                          *)
MergeAdjacent(map, v, w) ==
    LET others == map \ {v}
        area == Joined(others, w)
    IN  {u \in others : u.base < area.base \/ u.base >= End(area)} \cup {area}

(* CarveVMA finds a free area that holds the whole range.                  *)
CanCarve(map, base, size) ==
    /\ base < MAX_ADDRESS
    /\ LET v == FindVMA(map, base) IN IsFree(v) /\ base + size <= End(v)

CarveVMA(map, base, size) == SplitAt(SplitAt(map, base + size), base)

(* Mutant: only the first area of the range is looked at.                  *)
CanCarveFirst(map, target, size) == ~IsFree(FindVMA(map, target))

(* CarveVMARange finds no free area in the range.                          *)
CanCarveRange(map, target, size) ==
    \A v \in map : v.base < target + size /\ End(v) > target => ~IsFree(v)

(* Mutant: the area the range ends in is taken whole.                      *)
CarveToEndOfArea(map, target, size) == SplitAt(map, target)

CarveVMARange(map, target, size) == SplitAt(SplitAt(map, target), target + size)

(* MapMemoryBlock, once the range is known to be free.                     *)
Allocation(target, block, offset, size, state) ==
    [base |-> target, size |-> size, permissions |-> ReadWrite,
     meminfo_state |-> state, block |-> block, offset |-> offset]

MapMemoryBlock(map, target, block, offset, size, state) ==
    LET carved == CarveVMA(map, target, size)
    IN  MergeAdjacent(carved, FindVMA(carved, target),
                      Allocation(target, block, offset, size, state))

(* A page points into a block, or nowhere.                                 *)
PointerAt(v, p) ==
    IF IsFree(v) THEN NULL ELSE [block |-> v.block, index |-> v.offset + p - v.base]

UpdatePageTableForVMA(table, v) ==
    [p \in Address |-> IF p \in Pages(v) THEN PointerAt(v, p) ELSE table[p]]

(* UnmapRange and ReprotectRange change the areas of a carved range one by *)
(* one, and each change merges.  The next turn is for the area after the   *)
(* merged one; an area is a page at least, so `size' turns are enough.     *)
(* perms are the new permissions, NULL in UnmapRange.                      *)
NextAt(map, v) == End(FindVMA(map, v.base))

Changed(v, perms) ==
    IF perms = NULL THEN FreeArea(v.base, v.size) ELSE [v EXCEPT !.permissions = perms]

Turn(s, end, perms) ==
    LET v == FindVMA(s.map, s.at)
        w == Changed(v, perms)
        merged == MergeAdjacent(s.map, v, w)
    IN  IF s.at >= end THEN s
        ELSE [map |-> merged, table |-> UpdatePageTableForVMA(s.table, w),
              at |-> NextAt(merged, v)]

RangeLoop(map, table, target, size, perms) ==
    LET turn[k \in 0 .. size] ==
          IF k = 0
          THEN [map |-> CarveVMARange(map, target, size), table |-> table, at |-> target]
          ELSE Turn(turn[k - 1], target + size, perms)
    IN  turn[size]

UnmapRange(map, table, target, size) == RangeLoop(map, table, target, size, NULL)

ReprotectRange(map, table, target, size, perms) ==
    RangeLoop(map, table, target, size, perms)

(* The block moved: every pointer into it dangles until the areas it backs *)
(* are entered again.                                                      *)
Dangling == [block |-> NULL, index |-> 0]

Moved(table, block) ==
    [p \in Address |->
       IF table[p] # NULL /\ table[p].block = block THEN Dangling ELSE table[p]]

(* Mutant: nothing is entered again.                                       *)
RefreshNothing(map, table, block) == table

RefreshMemoryBlockMappings(map, table, block) ==
    [p \in Address |-> LET v == FindVMA(map, p)
                       IN  IF v.block = block THEN PointerAt(v, p) ELSE table[p]]
=============================================================================
