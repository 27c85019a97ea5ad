--------------------------- MODULE ReadyQueueSpec ---------------------------
(***************************************************************************)
(* The ready queue on its own, as its callers see it: what each method     *)
(* does to the queues and what it returns.  Its user, the scheduler,       *)
(* queues a thread once, and pushes to and compares with levels it has     *)
(* prepared.                                                               *)
(***************************************************************************)
EXTENDS ReadyQueue

CONSTANT NULL

VARIABLE result     \* what the last method returned, NULL for none

Queued(t) == \E p \in Priority : t \in Range(queues[p])

QueueInit ==
    /\ queues = [p \in Priority |-> <<>>]
    /\ linked = {}
    /\ result = NULL

Prepare(p) == linked' = linked \cup {p} /\ result' = NULL /\ UNCHANGED queues

Push(p, t) ==
    /\ p \in linked /\ ~Queued(t)
    /\ queues' = PushBack(queues, p, t) \/ queues' = PushFront(queues, p, t)
    /\ result' = NULL
    /\ UNCHANGED linked

RemoveFrom(p, t) ==
    /\ queues' = Dequeue(queues, p, t)
    /\ result' = NULL
    /\ UNCHANGED linked

MoveTo(t, old, new) ==
    /\ t \in Range(queues[old])
    /\ queues' = Move(queues, t, old, new)
    /\ linked' = linked \cup {new}
    /\ result' = NULL

(* The first thread of the best level below limit, or NULL.                *)
Best(limit, r) ==
    IF \E p \in Priority : FirstLevel(p) /\ p < limit
    THEN \E p \in Priority : FirstLevel(p) /\ r = Head(queues[p])
    ELSE r = NULL

GetFirst == Best(ThreadPrioLowest + 1, result') /\ UNCHANGED queueVars

PopBelow(limit) ==
    /\ Best(limit, result')
    /\ queues' = [p \in Priority |-> IF result' # NULL /\ FirstLevel(p)
                                     THEN Tail(queues[p]) ELSE queues[p]]
    /\ UNCHANGED linked

QueueNext ==
    \/ \E p \in Priority : Prepare(p)
    \/ \E p \in Priority, t \in Thread : Push(p, t) \/ RemoveFrom(p, t)
    \/ \E t \in Thread, old, new \in Priority : MoveTo(t, old, new)
    \/ GetFirst
    \/ \E limit \in linked \cup {ThreadPrioLowest + 1} : PopBelow(limit)

QueueSpec == QueueInit /\ [][QueueNext]_<<queueVars, result>>
=============================================================================
