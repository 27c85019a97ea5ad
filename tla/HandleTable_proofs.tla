------------------------ MODULE HandleTable_proofs -------------------------
(***************************************************************************)
(* Proofs about HandleTable for every table size and every generation      *)
(* width.  The inductive invariant orders handles by age: the pair         *)
(* (epoch, generation) a handle was created with only ever grows, so a     *)
(* closed handle is older than whatever occupies its slot now.             *)
(***************************************************************************)
EXTENDS HandleTable, FiniteSetTheorems, TLAPS

Older(e, g, e2, g2) == e < e2 \/ (e = e2 /\ g < g2)

AgesOrdered ==
    /\ \A s \in Slots : objects[s] # NULL =>
           /\ generations[s] \in Generations
           /\ Older(opened[s], generations[s], epoch, next_generation)
    /\ \A c \in closed :
           LET s == GetSlot(c.handle)
               g == GetGeneration(c.handle)
           IN  /\ s \in Slots
               /\ g \in Generations
               /\ Older(c.epoch, g, epoch, next_generation)
               /\ objects[s] # NULL => Older(c.epoch, g, opened[s], generations[s])

IInv == TypeOK /\ FreeListExact /\ AgesOrdered
-----------------------------------------------------------------------------
(* A slot number and a generation are recovered from the handle made of    *)
(* them (GetSlot, GetGeneration).                                          *)
LEMMA HandleFields ==
    ASSUME NEW s \in Slots, NEW g \in Generations
    PROVE  /\ MakeHandle(s, g) \in Nat
           /\ GetSlot(MakeHandle(s, g)) = s
           /\ GetGeneration(MakeHandle(s, g)) = g
  <1>1. /\ s \in Nat /\ g \in Nat /\ g < GenLimit /\ s < SlotLimit
        /\ GenLimit \in Nat /\ SlotLimit \in Nat
    BY SizesFit DEF Slots, Generations
  <1>2. /\ (s * GenLimit + g) \div GenLimit = s
        /\ (s * GenLimit + g) % GenLimit = g
    BY <1>1
  <1>3. s % SlotLimit = s
    BY <1>1
  <1> QED BY <1>1, <1>2, <1>3 DEF MakeHandle, GetSlot, GetGeneration

(* The inductive invariant holds of the cleared table.                     *)
LEMMA InitIInv == Init => IInv
  <1> SUFFICES ASSUME Init PROVE IInv
    BY Zenon
  <1> USE SizesFit
  <1>1. TypeOK
    BY DEF Init, TypeOK, Slots, Generations
  <1>2. FreeListExact
    <2> DEFINE f == [i \in 1 .. MAX_COUNT |-> i - 1]
    <2>1. f \in [1 .. MAX_COUNT -> Slots]
      BY DEF Slots
    <2>2. IsFreeList(f, MAX_COUNT)
      <3>1. \A s \in Slots : s + 1 \in 1 .. MAX_COUNT /\ f[s + 1] = s
        BY DEF Slots
      <3> QED BY <3>1 DEF Init, IsFreeList, Slots
    <2> QED BY <2>1, <2>2 DEF FreeListExact
  <1>3. AgesOrdered
    BY Zenon DEF Init, AgesOrdered
  <1> QED BY <1>1, <1>2, <1>3, Zenon DEF IInv

(* Popping the head of the free list leaves its tail.                      *)
LEMMA CreateFreeList ==
    ASSUME TypeOK, FreeListExact, NEW obj \in Object, Create(obj)
    PROVE  /\ objects[next_free_slot] = NULL
           /\ next_free_slot' \in 0 .. MAX_COUNT
           /\ FreeListExact'
  <1> USE SizesFit
  <1>0. PICK n \in 0 .. MAX_COUNT : \E f \in [1 .. n -> Slots] : IsFreeList(f, n)
    BY Zenon DEF FreeListExact
  <1>1. PICK f \in [1 .. n -> Slots] : IsFreeList(f, n)
    BY <1>0, Zenon
  <1>2. n # 0 /\ next_free_slot = f[1] /\ f[1] \in Slots
    BY <1>1 DEF IsFreeList, Create, TypeOK
  <1>3. objects[next_free_slot] = NULL
    BY <1>1, <1>2 DEF IsFreeList
  <1> DEFINE m == n - 1
             h == [i \in 1 .. m |-> f[i + 1]]
  <1>4. m \in 0 .. MAX_COUNT /\ h \in [1 .. m -> Slots]
    BY <1>2
  <1>5. /\ next_free_slot' = IF m = 0 THEN MAX_COUNT ELSE h[1]
        /\ next_free_slot' \in 0 .. MAX_COUNT
    BY <1>1, <1>2, <1>4 DEF IsFreeList, Create, Slots
  <1>6. \A i, j \in 1 .. m : h[i] = h[j] => i = j
    BY <1>1, <1>2 DEF IsFreeList
  <1>7. \A i \in 1 .. m : h[i] # f[1]
    BY <1>1, <1>2 DEF IsFreeList
  <1>8. \A s \in Slots : objects'[s] = NULL <=> \E i \in 1 .. m : h[i] = s
    <2> TAKE s \in Slots
    <2>1. CASE s = f[1]
      BY <2>1, <1>2, <1>7, Zenon DEF Create, TypeOK
    <2>2. CASE s # f[1]
      <3>1. objects'[s] = objects[s]
        BY <2>2, <1>2, Zenon DEF Create, TypeOK
      <3>2. \A i \in 1 .. n : f[i] = s => i - 1 \in 1 .. m /\ h[i - 1] = s
        BY <2>2, <1>2
      <3>3. \A i \in 1 .. m : i + 1 \in 1 .. n /\ h[i] = f[i + 1]
        BY <1>2
      <3>4. objects[s] = NULL <=> \E i \in 1 .. n : f[i] = s
        BY <1>1, Zenon DEF IsFreeList
      <3> HIDE DEF m, h
      <3> QED BY <3>1, <3>2, <3>3, <3>4, Zenon
    <2> QED BY <2>1, <2>2, Zenon
  <1>9. \A i \in 1 .. m : generations'[h[i]] = IF i = m THEN MAX_COUNT ELSE h[i + 1]
    <2> TAKE i \in 1 .. m
    <2>1. generations'[h[i]] = generations[h[i]]
      BY <1>2, <1>4, <1>7, Zenon DEF Create, TypeOK
    <2>2. i + 1 \in 1 .. n /\ h[i] = f[i + 1]
      BY <1>2
    <2> QED BY <2>1, <2>2, <1>1, <1>2 DEF IsFreeList
  <1>10. IsFreeList(h, m)'
    BY <1>5, <1>6, <1>8, <1>9, Zenon DEF IsFreeList
  <1> QED BY <1>3, <1>4, <1>5, <1>10, Zenon DEF FreeListExact

(* Pushing the closed slot puts it before the old head.                    *)
LEMMA CloseFreeList ==
    ASSUME TypeOK, FreeListExact, NEW hd \in Nat, Close(hd)
    PROVE  FreeListExact'
  <1> USE SizesFit
  <1> DEFINE slot == GetSlot(hd)
  <1>0. PICK n \in 0 .. MAX_COUNT : \E f \in [1 .. n -> Slots] : IsFreeList(f, n)
    BY Zenon DEF FreeListExact
  <1>1. PICK f \in [1 .. n -> Slots] : IsFreeList(f, n)
    BY <1>0, Zenon
  <1>2. slot \in Slots /\ objects[slot] # NULL
    BY DEF Close, IsValid, GetSlot, Slots
  <1>3. \A i \in 1 .. n : f[i] # slot
    BY <1>1, <1>2, Zenon DEF IsFreeList
  <1> HIDE DEF slot
  <1>4. /\ objects' = [objects EXCEPT ![slot] = NULL]
        /\ generations' = [generations EXCEPT ![slot] = next_free_slot]
        /\ next_free_slot' = slot
    BY Zenon DEF Close, slot
  <1> DEFINE m == n + 1
             h == [i \in 1 .. m |-> IF i = 1 THEN slot ELSE f[i - 1]]
  <1>5. h \in [1 .. m -> Slots]
    BY <1>2
  <1>6. \A i, j \in 1 .. m : h[i] = h[j] => i = j
    BY <1>1, <1>3 DEF IsFreeList
  <1>7. \A s \in Slots : objects'[s] = NULL <=> \E i \in 1 .. m : h[i] = s
    <2> TAKE s \in Slots
    <2>1. CASE s = slot
      <3>1. objects'[s] = NULL
        BY <2>1, <1>2, <1>4, Zenon DEF TypeOK
      <3>2. 1 \in 1 .. m /\ h[1] = s
        BY <2>1
      <3> QED BY <3>1, <3>2, Zenon
    <2>2. CASE s # slot
      <3>1. objects'[s] = objects[s]
        BY <2>2, <1>4, Zenon DEF TypeOK
      <3>2. \A i \in 1 .. n : i + 1 \in 1 .. m /\ h[i + 1] = f[i]
        OBVIOUS
      <3>3. \A i \in 1 .. m : h[i] = s => i - 1 \in 1 .. n /\ f[i - 1] = s
        BY <2>2
      <3>4. objects[s] = NULL <=> \E i \in 1 .. n : f[i] = s
        BY <1>1, Zenon DEF IsFreeList
      <3> HIDE DEF m, h
      <3> QED BY <3>1, <3>2, <3>3, <3>4, Zenon
    <2> QED BY <2>1, <2>2, Zenon
  <1>8. \A i \in 1 .. m : generations'[h[i]] = IF i = m THEN MAX_COUNT ELSE h[i + 1]
    <2> TAKE i \in 1 .. m
    <2>1. CASE i = 1
      BY <2>1, <1>1, <1>2, <1>4 DEF TypeOK, IsFreeList
    <2>2. CASE i # 1
      <3>1. i - 1 \in 1 .. n /\ h[i] = f[i - 1]
        BY <2>2
      <3>2. generations'[f[i - 1]] = generations[f[i - 1]]
        BY <3>1, <1>2, <1>3, <1>4, Zenon DEF TypeOK
      <3> QED BY <2>2, <3>1, <3>2, <1>1 DEF IsFreeList
    <2> QED BY <2>1, <2>2, Zenon
  <1>9. m \in 0 .. MAX_COUNT
    <2> SUFFICES ASSUME MAX_COUNT < m PROVE FALSE
      OBVIOUS
    <2>1. /\ IsFiniteSet(1 .. m) /\ Cardinality(1 .. m) = m
          /\ IsFiniteSet(Slots) /\ Cardinality(Slots) = MAX_COUNT
      BY FS_Interval DEF Slots
    <2>2. \E i, j \in 1 .. m : i # j /\ h[i] = h[j]
      <3> HIDE DEF m, h
      <3> QED BY <2>1, <1>5, FS_PigeonHole, Zenon
    <2> QED BY <2>2, <1>6, Zenon
  <1>10. IsFreeList(h, m)'
    BY <1>4, <1>6, <1>7, <1>8 DEF IsFreeList
  <1> QED BY <1>5, <1>9, <1>10, Zenon DEF FreeListExact

(* Create, Duplicate, Close and Clear keep it.                             *)
LEMMA NextIInv == IInv /\ [Next]_vars => IInv'
  <1> SUFFICES ASSUME IInv, [Next]_vars PROVE IInv'
    BY Zenon
  <1> USE SizesFit
  <1>0. TypeOK /\ FreeListExact /\ AgesOrdered
    BY Zenon DEF IInv
  <1>1. ASSUME NEW obj \in Object, Create(obj)
        PROVE  IInv'
    <2>1. /\ objects[next_free_slot] = NULL
          /\ next_free_slot' \in 0 .. MAX_COUNT
          /\ FreeListExact'
      BY <1>0, <1>1, CreateFreeList, Zenon
    <2>2. TypeOK'
      BY <1>0, <1>1, <2>1 DEF TypeOK, Create, Slots, Generations
    <2>3. next_free_slot \in Slots
      BY <1>0, <1>1 DEF TypeOK, Create, Slots
    <2>4. \A e, g \in Nat : Older(e, g, epoch, next_generation) =>
              Older(e, g, epoch', next_generation')
      BY <1>0, <1>1 DEF Older, Create, TypeOK, Generations
    <2>5. Older(epoch, next_generation, epoch', next_generation')
      BY <1>0, <1>1 DEF Older, Create, TypeOK, Generations
    <2>6. \A s \in Slots : objects'[s] # NULL =>
              /\ generations'[s] \in Generations
              /\ Older(opened'[s], generations'[s], epoch', next_generation')
      BY <1>0, <1>1, <2>3, <2>4, <2>5, Zenon DEF AgesOrdered, TypeOK, Create, Generations
    <2>7. ASSUME NEW c \in closed'
          PROVE  LET s == GetSlot(c.handle)
                     g == GetGeneration(c.handle)
                 IN  /\ s \in Slots
                     /\ g \in Generations
                     /\ Older(c.epoch, g, epoch', next_generation')
                     /\ objects'[s] # NULL => Older(c.epoch, g, opened'[s], generations'[s])
      <3> DEFINE s == GetSlot(c.handle)
                 g == GetGeneration(c.handle)
      <3>1. c \in closed /\ c.epoch \in Nat
        BY <1>0, <1>1, <2>7, Zenon DEF TypeOK, Create
      <3>2. /\ s \in Slots /\ g \in Generations
            /\ Older(c.epoch, g, epoch, next_generation)
            /\ objects[s] # NULL => Older(c.epoch, g, opened[s], generations[s])
        BY <1>0, <3>1, Zenon DEF AgesOrdered
      <3> HIDE DEF s, g
      <3>3. Older(c.epoch, g, epoch', next_generation')
        BY <2>4, <3>1, <3>2 DEF Generations
      <3>4. objects'[s] # NULL => Older(c.epoch, g, opened'[s], generations'[s])
        <4>1. CASE s = next_free_slot
          BY <4>1, <1>0, <1>1, <2>3, <3>2, Zenon DEF TypeOK, Create
        <4>2. CASE s # next_free_slot
          BY <4>2, <1>0, <1>1, <3>2, Zenon DEF TypeOK, Create
        <4> QED BY <4>1, <4>2, Zenon
      <3> QED BY <3>2, <3>3, <3>4, Zenon DEF s, g
    <2> QED BY <2>1, <2>2, <2>6, <2>7, Zenon DEF IInv, AgesOrdered
  <1>2. ASSUME NEW h \in Handles, NEW running \in Object \cup {NULL}, Duplicate(h, running)
        PROVE  IInv'
    <2>1. GetGeneric(h, running) \in Object
      <3>1. IsValid(h) => GetSlot(h) \in Slots
        BY DEF IsValid, GetSlot, Slots, Handles
      <3> QED BY <1>0, <1>2, <3>1, Zenon DEF Duplicate, GetGeneric, TypeOK
    <2> QED BY <1>1, <1>2, <2>1, Zenon DEF Duplicate
  <1>3. ASSUME NEW h \in Handles, Close(h)
        PROVE  IInv'
    <2> DEFINE slot == GetSlot(h)
    <2>0. h \in Nat
      BY DEF Handles
    <2>1. slot \in Slots /\ objects[slot] # NULL
      BY <1>3, <2>0 DEF Close, IsValid, GetSlot, Slots
    <2>2. FreeListExact'
      BY <1>0, <1>3, <2>0, CloseFreeList, Zenon
    <2>3. /\ generations[slot] \in Generations
          /\ Older(opened[slot], generations[slot], epoch, next_generation)
      BY <1>0, <2>1, Zenon DEF AgesOrdered
    <2>4. /\ Closed(slot).handle \in Nat /\ Closed(slot).epoch = opened[slot]
          /\ GetSlot(Closed(slot).handle) = slot
          /\ GetGeneration(Closed(slot).handle) = generations[slot]
      BY <2>1, <2>3, HandleFields, Zenon DEF Closed
    <2>5. Closed(slot) \in [handle : Nat, epoch : Nat]
      BY <1>0, <2>1, <2>4, Zenon DEF Closed, TypeOK
    <2> HIDE DEF slot
    <2>6. /\ objects' = [objects EXCEPT ![slot] = NULL]
          /\ generations' = [generations EXCEPT ![slot] = next_free_slot]
          /\ next_free_slot' = slot
          /\ closed' = closed \cup {Closed(slot)}
          /\ UNCHANGED <<next_generation, epoch, opened>>
      BY <1>3, Zenon DEF Close, slot
    <2>7. TypeOK'
      BY <1>0, <2>1, <2>5, <2>6, SMTT(30) DEF TypeOK, Slots
    <2>8. \A s \in Slots : objects'[s] # NULL =>
              s # slot /\ objects'[s] = objects[s] /\ generations'[s] = generations[s]
      BY <1>0, <2>1, <2>6, Zenon DEF TypeOK
    <2>9. AgesOrdered'
      BY <1>0, <2>1, <2>3, <2>4, <2>6, <2>8, Zenon DEF AgesOrdered
    <2> QED BY <2>2, <2>7, <2>9, Zenon DEF IInv
  <1>4. CASE Clear
    <2>1. TypeOK' /\ AgesOrdered'
      <3>1. ASSUME NEW s \in Slots, objects[s] # NULL
            PROVE  /\ Closed(s) \in [handle : Nat, epoch : Nat]
                   /\ Closed(s).epoch = opened[s]
                   /\ GetSlot(Closed(s).handle) = s
                   /\ GetGeneration(Closed(s).handle) = generations[s]
                   /\ generations[s] \in Generations
                   /\ Older(opened[s], generations[s], epoch, next_generation)
        <4>1. /\ generations[s] \in Generations
              /\ Older(opened[s], generations[s], epoch, next_generation)
          BY <1>0, <3>1, Zenon DEF AgesOrdered
        <4> QED BY <4>1, <1>0, <3>1, HandleFields, Zenon DEF Closed, TypeOK
      <3>2. TypeOK'
        BY <1>0, <1>4, <3>1 DEF TypeOK, Clear, Slots
      <3>3. \A s \in Slots : objects'[s] = NULL
        BY <1>4, Zenon DEF Clear
      <3>4. \A c \in closed' : c \in closed \/ \E s \in Slots : objects[s] # NULL /\ c = Closed(s)
        BY <1>4, Zenon DEF Clear
      <3>5. UNCHANGED <<next_generation, epoch>>
        BY <1>4, Zenon DEF Clear
      <3>6. AgesOrdered'
        BY <1>0, <3>1, <3>3, <3>4, <3>5 DEF AgesOrdered
      <3> QED BY <3>2, <3>6, Zenon
    <2>2. FreeListExact'
      <3> DEFINE f == [i \in 1 .. MAX_COUNT |-> i - 1]
      <3>1. f \in [1 .. MAX_COUNT -> Slots]
        BY DEF Slots
      <3>2. \A s \in Slots : s + 1 \in 1 .. MAX_COUNT /\ f[s + 1] = s
        BY DEF Slots
      <3>3. IsFreeList(f, MAX_COUNT)'
        BY <1>4, <3>2 DEF Clear, IsFreeList, Slots
      <3> QED BY <3>1, <3>3 DEF FreeListExact
    <2> QED BY <2>1, <2>2, Zenon DEF IInv
  <1>5. CASE UNCHANGED vars
    <2>1. TypeOK' /\ AgesOrdered'
      BY <1>0, <1>5, Zenon DEF vars, TypeOK, AgesOrdered
    <2>2. FreeListExact'
      BY <1>0, <1>5 DEF vars, FreeListExact, IsFreeList
    <2> QED BY <2>1, <2>2, Zenon DEF IInv
  <1> QED BY <1>1, <1>2, <1>3, <1>4, <1>5, Zenon DEF Next
-----------------------------------------------------------------------------
(* It holds of every reachable state.                                      *)
THEOREM InductiveInvariant == Spec => []IInv
  BY InitIInv, NextIInv, PTL DEF Spec

(* The fields of the table never leave their types, whatever handles the   *)
(* guest passes to Create, Duplicate, Close.                               *)
THEOREM TypeCorrect == Spec => []TypeOK
  <1>1. IInv => TypeOK
    BY Zenon DEF IInv
  <1> QED BY <1>1, InductiveInvariant, PTL

(* The free list threaded through `generations` is exact for every table   *)
(* size, so Create only fails when all slots are in use.                   *)
THEOREM FreeListCorrect == Spec => []FreeListExact
  <1>1. IInv => FreeListExact
    BY Zenon DEF IInv
  <1> QED BY <1>1, InductiveInvariant, PTL

(* A closed handle is not accepted again before next_generation wraps.     *)
THEOREM StaleHandlesSafe == Spec => []StaleHandlesRejected
  <1>1. IInv => StaleHandlesRejected
    BY DEF IInv, AgesOrdered, StaleHandlesRejected, IsValid, TypeOK, Older
  <1> QED BY <1>1, InductiveInvariant, PTL

(* Create and Duplicate never replace the object of an open handle.        *)
THEOREM LiveSlotsSafe == Spec => LiveSlotsKept
  <1>1. IInv /\ [Next]_vars =>
            [\A s \in Slots : objects[s] # NULL => objects'[s] \in {objects[s], NULL}]_vars
    <2> SUFFICES ASSUME IInv, Next, NEW s \in Slots, objects[s] # NULL
                 PROVE  objects'[s] \in {objects[s], NULL}
      BY Zenon
    <2>0. TypeOK /\ FreeListExact
      BY Zenon DEF IInv
    <2>1. ASSUME NEW obj \in Object, Create(obj)
          PROVE  objects'[s] = objects[s]
      BY <2>0, <2>1, CreateFreeList, Zenon DEF Create, TypeOK
    <2>2. ASSUME NEW h \in Handles, NEW running \in Object \cup {NULL}, Duplicate(h, running)
          PROVE  objects'[s] = objects[s]
      <3>1. IsValid(h) => GetSlot(h) \in Slots
        BY SizesFit DEF IsValid, GetSlot, Slots, Handles
      <3>2. GetGeneric(h, running) \in Object
        BY <2>0, <2>2, <3>1, Zenon DEF Duplicate, GetGeneric, TypeOK
      <3> QED BY <2>1, <2>2, <3>2, Zenon DEF Duplicate
    <2>3. ASSUME NEW h \in Handles, Close(h)
          PROVE  objects'[s] \in {objects[s], NULL}
      BY <2>0, <2>3, Zenon DEF Close, TypeOK
    <2>4. Clear => objects'[s] = NULL
      BY Zenon DEF Clear
    <2> QED BY <2>1, <2>2, <2>3, <2>4, Zenon DEF Next
  <1> QED BY <1>1, InductiveInvariant, PTL DEF Spec, LiveSlotsKept
=============================================================================
