--------------------------- MODULE ThreadQueueList --------------------------
(***************************************************************************)
(* Common::ThreadQueueList (src/common/thread_queue_list.h): one deque per *)
(* priority level, and a chain of pointers through the levels that have    *)
(* ever been used, which the pops walk.  NULL is the null pointer,         *)
(* Unlinked the tag of a level that is not in the chain.                   *)
(***************************************************************************)
EXTENDS Integers, SequencesExt

CONSTANTS Thread, ThreadPrioLowest, NULL, Unlinked

Priority == 0 .. ThreadPrioLowest

VARIABLES
    first, next_nonempty, data,
    result      \* what the last method returned, NULL for none

vars == <<first, next_nonempty, data, result>>

InChain(p) == next_nonempty[p] # Unlinked
Linked == {p \in Priority : InChain(p)}

Init ==
    /\ first = NULL
    /\ next_nonempty = [p \in Priority |-> Unlinked]
    /\ data = [p \in Priority |-> <<>>]
    /\ result = NULL

(* Mutant: p goes behind the first linked level, not the nearest one.      *)
linkFar(p) ==
    LET before == {i \in Linked : i < p} IN
    IF before # {}
    THEN /\ next_nonempty' = [next_nonempty EXCEPT ![p] = next_nonempty[Min(before)],
                                                   ![Min(before)] = p]
         /\ UNCHANGED first
    ELSE /\ next_nonempty' = [next_nonempty EXCEPT ![p] = first]
         /\ first' = p

(* Mutant: the level before p does not point to it.                        *)
linkUnreached(p) ==
    LET before == {i \in Linked : i < p} IN
    /\ next_nonempty' = [next_nonempty EXCEPT ![p] =
           IF before # {} THEN next_nonempty[Max(before)] ELSE first]
    /\ first' = IF before # {} THEN first ELSE p

(* link: p goes behind the last linked level before it, or first.          *)
link(p) ==
    LET before == {i \in Linked : i < p} IN
    IF before # {}
    THEN /\ next_nonempty' = [next_nonempty EXCEPT ![p] = next_nonempty[Max(before)],
                                                   ![Max(before)] = p]
         /\ UNCHANGED first
    ELSE /\ next_nonempty' = [next_nonempty EXCEPT ![p] = first]
         /\ first' = p

prepare(p) == IF InChain(p) THEN UNCHANGED <<first, next_nonempty>> ELSE link(p)

(* get_first and pop_first: the first level of the chain from cur that has *)
(* a thread.                                                               *)
Walk[cur \in Priority \cup {NULL}] ==
    IF cur = NULL THEN NULL
    ELSE IF data[cur] # <<>> THEN cur ELSE Walk[next_nonempty[cur]]

(* The walk of pop_first_better compares addresses: the null pointer is    *)
(* below every level, and would be followed.                               *)
NullFollowed == -1

WalkBelow(stop) ==
    LET W[cur \in Priority \cup {NULL}] ==
            IF cur = NULL THEN NullFollowed
            ELSE IF cur >= stop THEN NULL
            ELSE IF data[cur] # <<>> THEN cur ELSE W[next_nonempty[cur]]
    IN  W[first]

push_back(p, t) ==
    data' = [data EXCEPT ![p] = Append(@, t)] /\ UNCHANGED <<first, next_nonempty>>
push_front(p, t) ==
    data' = [data EXCEPT ![p] = <<t>> \o @] /\ UNCHANGED <<first, next_nonempty>>
remove(p, t) ==
    data' = [data EXCEPT ![p] = Remove(@, t)] /\ UNCHANGED <<first, next_nonempty>>
move(t, old, new) ==
    /\ prepare(new)
    /\ LET without == [data EXCEPT ![old] = Remove(@, t)]
       IN  data' = [without EXCEPT ![new] = Append(@, t)]

get_first ==
    /\ result' = IF Walk[first] = NULL THEN NULL ELSE Head(data[Walk[first]])
    /\ UNCHANGED <<first, next_nonempty, data>>

(* The end of the pops: the first thread of level p leaves, if p is one.   *)
PopLevel(p) ==
    /\ result' = IF p = NULL THEN NULL ELSE Head(data[p])
    /\ data' = IF p = NULL THEN data ELSE [data EXCEPT ![p] = Tail(@)]
    /\ UNCHANGED <<first, next_nonempty>>

pop_first == PopLevel(Walk[first])
pop_first_better(stop) == WalkBelow(stop) # NullFollowed /\ PopLevel(WalkBelow(stop))

(* How the scheduler uses the queue: it pushes a thread that is not in it, *)
(* to a level it has prepared, and pops below the level of a live thread.  *)
Queued(t) == \E p \in Priority : t \in Range(data[p])

Update ==
    \/ \E p \in Priority : prepare(p) /\ UNCHANGED data
    \/ \E p \in Linked, t \in Thread : ~Queued(t) /\ (push_back(p, t) \/ push_front(p, t))
    \/ \E p \in Priority, t \in Thread : remove(p, t)
    \/ \E t \in Thread, old, new \in Priority : t \in Range(data[old]) /\ move(t, old, new)

Next ==
    \/ Update /\ result' = NULL
    \/ get_first \/ pop_first \/ \E stop \in Linked : pop_first_better(stop)

Spec == Init /\ [][Next]_vars
-----------------------------------------------------------------------------
RQ == INSTANCE ReadyQueueSpec WITH queues <- data, linked <- Linked

(* The chain of levels does what the queue promises: a pop takes the first *)
(* thread of the best level that has one, whatever order the levels were   *)
(* linked in.                                                              *)
ImplementsReadyQueue == RQ!QueueSpec

(* The walks end, and that of pop_first_better below a linked level never  *)
(* follows the null pointer.                                               *)
WalksSafe == \A stop \in Linked : WalkBelow(stop) \in Priority \cup {NULL}
=============================================================================
