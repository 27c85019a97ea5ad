--------------------------- MODULE AddressArbiter ---------------------------
(***************************************************************************)
(* Threads that wait for a guest word: src/core/hle/kernel/                *)
(* address_arbiter.cpp.  An arbiter has one list for all its addresses;    *)
(* every operation but the timeout partitions it, in a stable way, by      *)
(* address, so it is kept here as one list per address.                    *)
(***************************************************************************)
EXTENDS WaitObjects

CONSTANT MinMemory      \* bound: the guest words stay >= MinMemory

(* WaitThread: t waits at a; a wait with a timeout has a wakeup callback   *)
(* and, unless it is for ever, a wakeup event.                             *)
WaitThread(t, a, timed, delay) ==
    /\ wait_address' = [wait_address EXCEPT ![t] = a]
    /\ status' = [status EXCEPT ![t] = "WaitArb"]
    /\ arbiter_threads' = [arbiter_threads EXCEPT ![a] = Append(@, t)]
    /\ wakeup_callback' = IF timed THEN [wakeup_callback EXCEPT ![t] = "arbiter"]
                          ELSE wakeup_callback
    /\ wakeup_events' = IF timed /\ delay # "forever" THEN [wakeup_events EXCEPT ![t] = @ + 1]
                        ELSE wakeup_events

(* ArbitrateAddress with the types that wait if the word is less than      *)
(* value, and decrement it then or not.                                    *)
ArbitrateWait(t, a, value, decrement, timed, delay) ==
    /\ memory[a] < value
    /\ decrement => memory[a] > MinMemory
    /\ memory' = IF decrement THEN [memory EXCEPT ![a] = @ - 1] ELSE memory
    /\ WaitThread(t, a, timed, delay)
    /\ PrepareReschedule
    /\ UNCHANGED <<nominal_priority, current_priority, held_mutexes, wait_objects,
                   thread_list, queueVars, current_thread, timer_events, waiting_threads,
                   mutexVars, objectVars, todo>>

(* ArbitrateAddress with type Signal: a negative value resumes all.        *)
ArbitrateSignal(a, value) ==
    /\ todo' = <<ResumeHighest(a, value)>>
    /\ PrepareReschedule
    /\ UNCHANGED <<schedVars, eventVars, syncVars>>

(* ArbitrateAddress with a type that waits, and nothing to wait for: only  *)
(* the SVC's reschedule.                                                   *)
ArbitrateNone(a, value) ==
    /\ memory[a] >= value
    /\ PrepareReschedule
    /\ UNCHANGED <<schedVars, eventVars, syncVars, todo>>

(* The i-th thread waiting at a is the one ResumeHighestPriorityThread     *)
(* picks: the first of the best priority.                                  *)
IsHighestPriority(a, i) ==
    LET list == arbiter_threads[a]
        Prio(j) == current_priority[list[j]]
    IN  \A j \in DOMAIN list : Prio(i) < Prio(j) \/ (Prio(i) = Prio(j) /\ i <= j)

(* What both ways to resume threads assert of all the waiting ones.        *)
ArbiterAssert ==
    \A a \in Address : \A i \in DOMAIN arbiter_threads[a] :
        status[arbiter_threads[a][i]] = "WaitArb"

(* One turn of the loop of the signal: ResumeAllThreads (n < 0) goes       *)
(* through the list in order, ResumeHighestPriorityThread is called n      *)
(* times and does nothing once the list is empty.                          *)
ResumeNext ==
    /\ Doing("arbiter")
    /\ LET a == Head(todo).address
           n == Head(todo).count
           list == arbiter_threads[a]
       IN
       /\ n # 0 => ArbiterAssert
       /\ \/ \E i \in DOMAIN list :
                /\ n # 0
                /\ IF n < 0 THEN i = 1 ELSE IsHighestPriority(a, i)
                /\ arbiter_threads' =
                       [arbiter_threads EXCEPT ![a] = RemoveFirst(@, list[i])]
                /\ Then(<<ResumeFromWait(list[i]),
                          ResumeHighest(a, IF n < 0 THEN n ELSE n - 1)>>)
          \/ /\ n = 0 \/ list = <<>>
             /\ Then(<<>>) /\ UNCHANGED arbiter_threads
    /\ UNCHANGED <<schedVars, eventVars, waiting_threads, mutexVars, objectVars, memory,
                   cpuVars>>
=============================================================================
