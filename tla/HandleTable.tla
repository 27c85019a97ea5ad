---------------------------- MODULE HandleTable ----------------------------
(***************************************************************************)
(* The table that turns kernel objects into the handles guest programs     *)
(* hold (src/core/hle/kernel/handle_table.{h,cpp}).  An occupied slot      *)
(* stores its object and the generation its handle was created with; a     *)
(* free slot reuses the generation field as a link of the free list.       *)
(*                                                                         *)
(* epoch, opened and closed are history variables.  They record what the   *)
(* table forgets: how often next_generation has wrapped, in which epoch    *)
(* each slot was filled, and which handles have been closed.               *)
(***************************************************************************)
EXTENDS Integers, FiniteSets

CONSTANTS
    Object,        \* kernel objects
    MAX_COUNT,     \* number of slots (4096)
    GenLimit,      \* 1 << 15, one past the largest generation
    SlotLimit,     \* 1 << 16, the slot number is read back as a u16
    CurrentThread, \* pseudo handle 0xFFFF8000
    NULL           \* nullptr

Slots == 0 .. MAX_COUNT - 1
Generations == 1 .. GenLimit - 1

(* The counters fit their fields and the pseudo handle names no slot.      *)
ASSUME SizesFit ==
    /\ MAX_COUNT \in Nat /\ GenLimit \in Nat /\ SlotLimit \in Nat
    /\ 1 < GenLimit
    /\ 0 < MAX_COUNT /\ MAX_COUNT < SlotLimit
    /\ NULL \notin Object
    /\ CurrentThread \in Nat

VARIABLES
    objects, generations, next_generation, next_free_slot,
    epoch, opened, closed

vars == <<objects, generations, next_generation, next_free_slot,
          epoch, opened, closed>>

(* generation | (slot << 15)                                               *)
MakeHandle(slot, generation) == slot * GenLimit + generation
GetSlot(handle) == (handle \div GenLimit) % SlotLimit
GetGeneration(handle) == handle % GenLimit

IsValid(handle) ==
    /\ GetSlot(handle) < MAX_COUNT
    /\ objects[GetSlot(handle)] # NULL
    /\ generations[GetSlot(handle)] = GetGeneration(handle)

(* The pseudo handle resolves to the running thread, NULL when idling.     *)
GetGeneric(handle, running) ==
    IF handle = CurrentThread THEN running
    ELSE IF IsValid(handle) THEN objects[GetSlot(handle)] ELSE NULL
-----------------------------------------------------------------------------
Init ==
    /\ next_generation = 1
    /\ generations = [s \in Slots |-> s + 1]
    /\ objects = [s \in Slots |-> NULL]
    /\ next_free_slot = 0
    /\ epoch = 0
    /\ opened = [s \in Slots |-> 0]
    /\ closed = {}

(* Mutant: the generation counter is never wrapped.                        *)
CreateNoWrap(obj) ==
    /\ next_free_slot < MAX_COUNT
    /\ next_free_slot' = generations[next_free_slot]
    /\ next_generation' = next_generation + 1
    /\ generations' = [generations EXCEPT ![next_free_slot] = next_generation]
    /\ objects' = [objects EXCEPT ![next_free_slot] = obj]
    /\ opened' = [opened EXCEPT ![next_free_slot] = epoch]
    /\ UNCHANGED <<epoch, closed>>

(* ERR_OUT_OF_HANDLES leaves the table alone.                              *)
Create(obj) ==
    /\ next_free_slot < MAX_COUNT
    /\ next_free_slot' = generations[next_free_slot]
    /\ next_generation' =
           IF next_generation + 1 >= GenLimit THEN 1 ELSE next_generation + 1
    /\ generations' = [generations EXCEPT ![next_free_slot] = next_generation]
    /\ objects' = [objects EXCEPT ![next_free_slot] = obj]
    /\ epoch' = IF next_generation' = 1 THEN epoch + 1 ELSE epoch
    /\ opened' = [opened EXCEPT ![next_free_slot] = epoch]
    /\ UNCHANGED closed

Duplicate(handle, running) ==
    /\ GetGeneric(handle, running) # NULL
    /\ Create(GetGeneric(handle, running))

Closed(slot) == [handle |-> MakeHandle(slot, generations[slot]), epoch |-> opened[slot]]

(* Mutant: a handle that is not valid is closed too.                       *)
CloseUnchecked(handle) ==
    /\ GetSlot(handle) < MAX_COUNT
    /\ objects' = [objects EXCEPT ![GetSlot(handle)] = NULL]
    /\ generations' = [generations EXCEPT ![GetSlot(handle)] = next_free_slot]
    /\ next_free_slot' = GetSlot(handle)
    /\ UNCHANGED <<next_generation, epoch, opened, closed>>

Close(handle) ==
    /\ IsValid(handle)
    /\ objects' = [objects EXCEPT ![GetSlot(handle)] = NULL]
    /\ generations' = [generations EXCEPT ![GetSlot(handle)] = next_free_slot]
    /\ next_free_slot' = GetSlot(handle)
    /\ closed' = closed \cup {Closed(GetSlot(handle))}
    /\ UNCHANGED <<next_generation, epoch, opened>>

(* Mutant: generations are counted from 1 again.                           *)
ClearRestarts ==
    /\ generations' = [s \in Slots |-> s + 1]
    /\ objects' = [s \in Slots |-> NULL]
    /\ next_free_slot' = 0
    /\ next_generation' = 1
    /\ closed' = closed \cup {Closed(s) : s \in {x \in Slots : objects[x] # NULL}}
    /\ UNCHANGED <<epoch, opened>>

(* Clear forgets every handle but keeps counting generations.              *)
Clear ==
    /\ generations' = [s \in Slots |-> s + 1]
    /\ objects' = [s \in Slots |-> NULL]
    /\ next_free_slot' = 0
    /\ closed' = closed \cup {Closed(s) : s \in {x \in Slots : objects[x] # NULL}}
    /\ UNCHANGED <<next_generation, epoch, opened>>

(* Guests may pass any 32-bit value as a handle: 2 * SlotLimit * GenLimit. *)
Handles == 0 .. 2 * SlotLimit * GenLimit - 1

Next ==
    \/ \E obj \in Object : Create(obj)
    \/ \E h \in Handles, running \in Object \cup {NULL} : Duplicate(h, running)
    \/ \E h \in Handles : Close(h)
    \/ Clear

Spec == Init /\ [][Next]_vars
-----------------------------------------------------------------------------
(* Every field stays within its type: slots hold objects or nullptr, the   *)
(* generation counter stays in 1 .. 0x7FFF and links stay in 0 .. 4096.    *)
TypeOK ==
    /\ objects \in [Slots -> Object \cup {NULL}]
    /\ generations \in [Slots -> Nat]
    /\ next_generation \in Generations
    /\ next_free_slot \in 0 .. MAX_COUNT
    /\ epoch \in Nat
    /\ opened \in [Slots -> Nat]
    /\ closed \in SUBSET [handle : Nat, epoch : Nat]

(* f lists the free slots in the order the list links them.                *)
IsFreeList(f, n) ==
    /\ \A i, j \in 1 .. n : f[i] = f[j] => i = j
    /\ \A s \in Slots : objects[s] = NULL <=> \E i \in 1 .. n : f[i] = s
    /\ next_free_slot = IF n = 0 THEN MAX_COUNT ELSE f[1]
    /\ \A i \in 1 .. n :
           generations[f[i]] = IF i = n THEN MAX_COUNT ELSE f[i + 1]

(* The links threaded through `generations` form one list, without         *)
(* repetition, of exactly the empty slots: Create can run out only when    *)
(* every slot is in use, and can never be handed a slot in use.            *)
FreeListExact ==
    \E n \in 0 .. MAX_COUNT : \E f \in [1 .. n -> Slots] : IsFreeList(f, n)

(* A closed handle is rejected for as long as next_generation has not come *)
(* round: what IsValid accepts under its number was opened in a later      *)
(* epoch.  This also holds across Clear, which keeps next_generation.      *)
StaleHandlesRejected ==
    \A c \in closed : IsValid(c.handle) => opened[GetSlot(c.handle)] > c.epoch

(* A slot in use is only ever emptied: Create and Duplicate never replace  *)
(* the object behind an open handle.                                       *)
LiveSlotsKept ==
    [][\A s \in Slots : objects[s] # NULL => objects'[s] \in {objects[s], NULL}]_vars
=============================================================================
