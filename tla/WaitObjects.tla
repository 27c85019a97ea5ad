---------------------------- MODULE WaitObjects -----------------------------
(***************************************************************************)
(* The objects a thread can wait for: src/core/hle/kernel/wait_object.cpp, *)
(* mutex.cpp, semaphore.cpp, event.cpp, timer.cpp and the thread as an     *)
(* object (thread.cpp).  Each loop over threads or objects is one step per *)
(* iteration.                                                              *)
(***************************************************************************)
EXTENDS Threads

(* The virtual ShouldWait of each kind of object.                          *)
ThreadShouldWait(o) == status[o] # "Dead"
SignalShouldWait(o) == ~signaled[o]
SemaphoreShouldWait(o) == available_count[o] <= 0
MutexShouldWait(o, t) == lock_count[o] > 0 /\ holding_thread[o] # t

ShouldWait(o, t) ==
    \/ o \in Thread /\ ThreadShouldWait(o)
    \/ o \in Event \cup Timer /\ SignalShouldWait(o)
    \/ o \in Semaphore /\ SemaphoreShouldWait(o)
    \/ o \in Mutex /\ MutexShouldWait(o, t)

(* Mutant: a wait for all the objects ends with the first one.             *)
ReadyForOne(o, t) == ~ShouldWait(o, t)

(* t, in the list of o, can be woken up through o.                         *)
ReadyToRun(o, t) ==
    /\ ~ShouldWait(o, t)
    /\ status[t] = "WaitSynchAll" =>
           \A i \in DOMAIN wait_objects[t] : ~ShouldWait(wait_objects[t][i], t)

(* The i-th waiting thread of o is its GetHighestPriorityReadyThread: the  *)
(* first of the best priority.                                             *)
IsHighestPriorityReadyThread(o, i) ==
    LET list == waiting_threads[o]
        Prio(j) == current_priority[list[j]]
    IN  /\ ReadyToRun(o, list[i])
        /\ \A j \in DOMAIN list : ReadyToRun(o, list[j]) =>
               Prio(i) < Prio(j) \/ (Prio(i) = Prio(j) /\ i <= j)

(* Thread::pending_mutexes: inserted and erased with the list entry.       *)
pending_mutexes(t) == {m \in Mutex : t \in Range(waiting_threads[m])}
-----------------------------------------------------------------------------
(* What GetHighestPriorityReadyThread asserts of the threads in the list.  *)
WakeupAssert(o) ==
    \A i \in DOMAIN waiting_threads[o] : status[waiting_threads[o][i]] \in SynchStatus

(* What the WakeupAllWaitingThreads of events and timers add.              *)
PulseReset(o) ==
    signaled' = IF o \in Event \cup Timer /\ ResetType[o] = "Pulse"
                THEN [signaled EXCEPT ![o] = FALSE] ELSE signaled

(* One turn of the loop of WaitObject::WakeupAllWaitingThreads; when       *)
(* nobody is left to wake, a pulse event or timer is reset.                *)
WakeupNext ==
    /\ Doing("wakeup")
    /\ LET o == Head(todo).object
           list == waiting_threads[o]
       IN
       /\ WakeupAssert(o)
       /\ \/ /\ \E i \in DOMAIN list :
                   /\ IsHighestPriorityReadyThread(o, i)
                   /\ todo' = <<AcquireEach(list[i], IF status[list[i]] = "WaitSynchAll"
                                                     THEN wait_objects[list[i]] ELSE <<o>>),
                                RemoveWaitingThreadEach(list[i]),
                                ResumeFromWait(list[i])>> \o todo
             /\ UNCHANGED signaled
          \/ /\ \A i \in DOMAIN list : ~ReadyToRun(o, list[i])
             /\ PulseReset(o)
             /\ Then(<<>>)
    /\ UNCHANGED <<schedVars, eventVars, waiting_threads, mutexVars, interval,
                   available_count, created, arbiterVars, cpuVars>>

(* Mutex::Acquire of a mutex that is free makes t its holder.              *)
AcquireMutex(m, t) ==
    /\ lock_count' = [lock_count EXCEPT ![m] = @ + 1]
    /\ \/ /\ lock_count[m] = 0
          /\ LET held == held_mutexes[t] \cup {m}
                 prio == [priority EXCEPT ![m] = current_priority[t]]
             IN  /\ held_mutexes' = [held_mutexes EXCEPT ![t] = held]
                 /\ priority' = prio
                 /\ BoostPriority(t, BestPriority(t, held, prio))
          /\ holding_thread' = [holding_thread EXCEPT ![m] = t]
          /\ PrepareReschedule
       \/ /\ lock_count[m] > 0
          /\ UNCHANGED <<held_mutexes, priority, current_priority, queueVars,
                         holding_thread, cpuVars>>

(* Event::Acquire and Timer::Acquire.                                      *)
AcquireSignal(o) ==
    signaled' = IF ResetType[o] = "OneShot" THEN [signaled EXCEPT ![o] = FALSE] ELSE signaled

(* Semaphore::Acquire does nothing if nothing is available.                *)
AcquireSemaphore(o) ==
    available_count' = IF available_count[o] > 0
                       THEN [available_count EXCEPT ![o] = @ - 1] ELSE available_count

(* The virtual Acquire of each kind of object; that of a thread changes    *)
(* nothing.                                                                *)
Acquire(o, t) ==
    /\ IF o \in Event \cup Timer THEN AcquireSignal(o) ELSE UNCHANGED signaled
    /\ IF o \in Semaphore THEN AcquireSemaphore(o) ELSE UNCHANGED available_count
    /\ IF o \in Mutex THEN AcquireMutex(o, t)
       ELSE UNCHANGED <<mutexVars, held_mutexes, current_priority, queueVars, cpuVars>>

(* What the Acquire of every kind but the semaphore asserts.               *)
AcquireAssert(o, t) == o \in Semaphore \/ ~ShouldWait(o, t)

AcquireNext ==
    /\ Doing("acquire")
    /\ LET t == Head(todo).thread
           objs == Head(todo).objects
       IN  /\ AcquireAssert(Head(objs), t)
           /\ Acquire(Head(objs), t)
           /\ Then(IF Len(objs) = 1 THEN <<>> ELSE <<AcquireEach(t, Tail(objs))>>)
    /\ UNCHANGED <<status, nominal_priority, wait_objects, wait_address, wakeup_callback,
                   thread_list, current_thread, eventVars, waiting_threads, interval,
                   created, arbiterVars>>
-----------------------------------------------------------------------------
(* Mutant: the holder does not inherit the priority.                       *)
UpdateMutexOnly(m, list) ==
    /\ priority' = [priority EXCEPT ![m] =
           Min({ThreadPrioLowest} \cup {current_priority[list[i]] : i \in DOMAIN list})]
    /\ UNCHANGED <<current_priority, queueVars>>

(* Mutex::UpdatePriority of m once its list of waiting threads is `list`.  *)
UpdateMutexPriority(m, list) ==
    LET best == Min({ThreadPrioLowest} \cup {current_priority[list[i]] : i \in DOMAIN list})
        holder == holding_thread[m]
        prio == [priority EXCEPT ![m] = best]
    IN  \/ /\ holder # NULL /\ best # priority[m]
           /\ priority' = prio
           /\ BoostPriority(holder, BestPriority(holder, held_mutexes[holder], prio))
        \/ /\ holder = NULL \/ best = priority[m]
           /\ UNCHANGED <<priority, current_priority, queueVars>>

(* The list of object o becomes `list`.                                    *)
SetWaitingThreads(o, list) ==
    /\ waiting_threads' = [waiting_threads EXCEPT ![o] = list]
    /\ IF o \in Mutex THEN UpdateMutexPriority(o, list)
       ELSE UNCHANGED <<priority, current_priority, queueVars>>

(* The loop that adds t to the lists of the objects it is about to wait    *)
(* for.  wait_objects grows as it goes: nothing reads it meanwhile.        *)
AddNext ==
    /\ Doing("add")
    /\ LET t == Head(todo).thread
           objs == Head(todo).objects
           list == waiting_threads[Head(objs)]
       IN  /\ SetWaitingThreads(Head(objs),
                  IF t \in Range(list) THEN list ELSE Append(list, t))
           /\ wait_objects' = [wait_objects EXCEPT ![t] = Append(@, Head(objs))]
           /\ Then(IF Len(objs) = 1 THEN <<>> ELSE <<AddWaitingThreadEach(t, Tail(objs))>>)
    /\ UNCHANGED <<status, nominal_priority, held_mutexes, wait_address, wakeup_callback,
                   thread_list, current_thread, eventVars, lock_count, holding_thread,
                   objectVars, arbiterVars, cpuVars>>

(* Mutant: the thread leaves one list only.                                *)
RemoveFirstOnly ==
    /\ Doing("remove")
    /\ LET t == Head(todo).thread
           o == Head(wait_objects[t])
       IN  /\ SetWaitingThreads(o, RemoveFirst(waiting_threads[o], t))
           /\ wait_objects' = [wait_objects EXCEPT ![t] = <<>>]
           /\ Then(<<>>)
    /\ UNCHANGED <<status, nominal_priority, held_mutexes, wait_address, wakeup_callback,
                   thread_list, current_thread, eventVars, lock_count, holding_thread,
                   objectVars, arbiterVars, cpuVars>>

(* The loop that takes t out of the lists of its wait objects and then     *)
(* clears them; here wait_objects shrinks as it goes.                      *)
RemoveNext ==
    /\ Doing("remove")
    /\ LET t == Head(todo).thread
           o == Head(wait_objects[t])
       IN  /\ SetWaitingThreads(o, RemoveFirst(waiting_threads[o], t))
           /\ wait_objects' = [wait_objects EXCEPT ![t] = Tail(@)]
           /\ IF Len(wait_objects[t]) = 1 THEN Then(<<>>) ELSE UNCHANGED todo
    /\ UNCHANGED <<status, nominal_priority, held_mutexes, wait_address, wakeup_callback,
                   thread_list, current_thread, eventVars, lock_count, holding_thread,
                   objectVars, arbiterVars, cpuVars>>
-----------------------------------------------------------------------------
(* Mutant: a mutex that has been released is released again.               *)
ReleaseForever ==
    /\ Doing("release")
    /\ LET t == Head(todo).thread IN
       /\ lock_count' = [m \in Mutex |-> IF m \in held_mutexes[t] THEN 0 ELSE lock_count[m]]
       /\ holding_thread' =
              [m \in Mutex |-> IF m \in held_mutexes[t] THEN NULL ELSE holding_thread[m]]
       /\ IF held_mutexes[t] = {} THEN Then(<<>>)
          ELSE \E m \in held_mutexes[t] : todo' = <<WakeupAllWaitingThreads(m)>> \o todo
    /\ UNCHANGED <<schedVars, eventVars, waiting_threads, priority, objectVars,
                   arbiterVars, cpuVars>>

(* ReleaseThreadMutexes of a thread that has stopped; the set has no order *)
(* of its own.                                                             *)
ReleaseNext ==
    /\ Doing("release")
    /\ LET t == Head(todo).thread
           left == Head(todo).mutexes
       IN
       \/ \E m \in left :
             /\ lock_count' = [lock_count EXCEPT ![m] = 0]
             /\ holding_thread' = [holding_thread EXCEPT ![m] = NULL]
             /\ Then(<<WakeupAllWaitingThreads(m), ReleaseThreadMutexes(t, left \ {m})>>)
             /\ UNCHANGED held_mutexes
       \/ /\ left = {}
          /\ held_mutexes' = [held_mutexes EXCEPT ![t] = {}]
          /\ Then(<<>>)
          /\ UNCHANGED <<lock_count, holding_thread>>
    /\ UNCHANGED <<status, nominal_priority, current_priority, wait_objects, wait_address,
                   wakeup_callback, thread_list, queueVars, current_thread, eventVars,
                   waiting_threads, priority, objectVars, arbiterVars, cpuVars>>

(* The loop of SetThreadPriority over the mutexes the thread waits for.    *)
UpdateNext ==
    /\ Doing("update")
    /\ LET left == Head(todo).mutexes IN
       \E m \in left :
          /\ UpdateMutexPriority(m, waiting_threads[m])
          /\ Then(IF left = {m} THEN <<>> ELSE <<UpdatePriorityEach(left \ {m})>>)
    /\ UNCHANGED <<status, nominal_priority, held_mutexes, wait_objects, wait_address,
                   wakeup_callback, thread_list, current_thread, eventVars,
                   waiting_threads, lock_count, holding_thread, objectVars, arbiterVars,
                   cpuVars>>
=============================================================================
