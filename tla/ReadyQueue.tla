----------------------------- MODULE ReadyQueue -----------------------------
(***************************************************************************)
(* What the ready queue of the scheduler promises: the queues of           *)
(* Common::ThreadQueueList (src/common/thread_queue_list.h), without the   *)
(* chain of pointers that links their levels.  ThreadQueueList implements  *)
(* ReadyQueueSpec; Threads is built on the operators here.                 *)
(***************************************************************************)
EXTENDS ThreadLists

CONSTANTS
    Thread,
    ThreadPrioLowest    \* 63 in the code; 0 is the best priority

Priority == 0 .. ThreadPrioLowest

VARIABLES
    queues,     \* the threads of each level
    linked      \* the levels that prepare() has linked, which the pops look at

queueVars == <<queues, linked>>

(* A thread is in one level, once (ReadyQueueExact), so removing its first *)
(* occurrence removes it.                                                  *)
PushBack(q, p, t) == [q EXCEPT ![p] = Append(@, t)]
PushFront(q, p, t) == [q EXCEPT ![p] = <<t>> \o @]
Dequeue(q, p, t) == [q EXCEPT ![p] = RemoveFirst(@, t)]
Move(q, t, old, new) == PushBack(Dequeue(q, old, t), new, t)

(* Level p is the one the pops take a thread from.                         *)
FirstLevel(p) ==
    /\ p \in linked /\ queues[p] # <<>>
    /\ \A l \in linked : queues[l] # <<>> => p <= l

(* Kernel::HaveReadyThreads: get_first finds a thread.                     *)
HaveReadyThreads == \E p \in linked : queues[p] # <<>>
=============================================================================
