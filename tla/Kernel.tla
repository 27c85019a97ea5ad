------------------------------- MODULE Kernel -------------------------------
(***************************************************************************)
(* The emulated kernel at work: the guest's system calls                   *)
(* (src/core/hle/kernel/svc.cpp) on threads and wait objects, the timed    *)
(* events that CoreTiming fires, and the run loop that alternates between  *)
(* the two and reschedules (src/core/core.cpp).                            *)
(*                                                                         *)
(* The guest program is unknown: any system call may come at any time the  *)
(* CPU executes.  Handles are not modelled here (see HandleTable): a call  *)
(* names its object.  Time is not either: a scheduled event may fire in    *)
(* any later turn of the run loop.                                         *)
(***************************************************************************)
EXTENDS AddressArbiter

CONSTANTS
    MainThread, MainPriority,   \* what the loader starts
    Preexisting,                \* objects created before the model starts
    MaxCount,                   \* max_count of each semaphore
    CreatePriorities,           \* priorities the guest creates threads with
    SetPriorities,              \* priorities it sets later
    Sleeps, Timeouts,           \* how long it sleeps and waits, from Delay
    WaitLists,                  \* object lists the guest passes to a wait
    Values,                     \* words the guest stores and compares with
    ReleaseCounts,              \* counts the guest releases a semaphore by
    SignalCounts,               \* numbers of threads it signals the arbiter for
    MinCount,                   \* bound: available counts stay >= MinCount
    MaxLock                     \* bound: a mutex is locked at most MaxLock times

Delay == {"zero", "some", "forever"}    \* 0, any other one, -1 nanoseconds

ASSUME KernelAssumption ==
    /\ MainThread \in Thread /\ MainPriority \in Priority
    /\ Preexisting \subseteq WaitObject \ Thread
    /\ MaxCount \in [Semaphore -> Int]
    /\ CreatePriorities \subseteq Priority /\ SetPriorities \subseteq Priority
    /\ Sleeps \subseteq Delay /\ Timeouts \subseteq Delay
    /\ WaitLists \subseteq Seq(WaitObject)
    /\ Values \subseteq Int /\ ReleaseCounts \subseteq Int /\ SignalCounts \subseteq Int

Init ==
    /\ status = [t \in Thread |-> IF t = MainThread THEN "Ready" ELSE "Dormant"]
    /\ nominal_priority = [t \in Thread |-> MainPriority]
    /\ current_priority = [t \in Thread |-> MainPriority]
    /\ held_mutexes = [t \in Thread |-> {}]
    /\ wait_objects = [t \in Thread |-> <<>>]
    /\ wait_address = [t \in Thread |-> NULL]
    /\ wakeup_callback = [t \in Thread |-> NULL]
    /\ thread_list = <<MainThread>>
    /\ queues = [p \in Priority |-> IF p = MainPriority THEN <<MainThread>> ELSE <<>>]
    /\ linked = {MainPriority}
    /\ current_thread = NULL
    /\ wakeup_events = [t \in Thread |-> 0]
    /\ timer_events = [tm \in Timer |-> 0]
    /\ waiting_threads = [o \in WaitObject |-> <<>>]
    /\ signaled = [o \in Event \cup Timer |-> FALSE]
    /\ interval = [tm \in Timer |-> FALSE]
    /\ available_count = [s \in Semaphore |-> 0]
    /\ lock_count = [m \in Mutex |-> 0]
    /\ holding_thread = [m \in Mutex |-> NULL]
    /\ priority = [m \in Mutex |-> ThreadPrioLowest]
    /\ created = Preexisting
    /\ arbiter_threads = [a \in Address |-> <<>>]
    /\ memory = [a \in Address |-> 0]
    /\ phase = "advance"
    /\ reschedule_pending = FALSE
    /\ todo = <<>>
-----------------------------------------------------------------------------
(* System::RunLoop.  CoreTiming::Advance fires events (phase "advance");   *)
(* then the CPU runs a slice, if a thread is current; then System::        *)
(* Reschedule.                                                             *)
EndAdvance ==
    /\ Idle /\ phase = "advance"
    /\ IF current_thread = NULL
       THEN phase' = "resched" /\ reschedule_pending' = TRUE
       ELSE phase' = "run" /\ UNCHANGED reschedule_pending
    /\ UNCHANGED <<schedVars, eventVars, syncVars, todo>>

EndSlice ==
    /\ Idle /\ phase = "run"
    /\ phase' = "resched"
    /\ UNCHANGED <<schedVars, eventVars, syncVars, reschedule_pending, todo>>

Reschedule ==
    /\ Idle /\ phase = "resched"
    /\ phase' = "advance"
    /\ reschedule_pending' = FALSE
    /\ \/ reschedule_pending /\ SwitchToBest
       \/ ~reschedule_pending /\ UNCHANGED <<queues, status, current_thread, wakeup_events>>
    /\ UNCHANGED <<nominal_priority, current_priority, held_mutexes, wait_objects,
                   wait_address, wakeup_callback, thread_list, linked, timer_events,
                   syncVars, todo>>
-----------------------------------------------------------------------------
(* System calls of the current thread.                                     *)
Guest == Idle /\ phase = "run"
Exists(o) == IF o \in Thread THEN status[o] # "Dormant" ELSE o \in created

(* A list the current thread can pass to a wait: it has handles to all of  *)
(* the objects, and has not reached the bound on recursive locks.          *)
CanPass(objs) ==
    \A i \in DOMAIN objs :
        /\ Exists(objs[i])
        /\ objs[i] \in Mutex /\ holding_thread[objs[i]] = current_thread =>
               lock_count[objs[i]] < MaxLock

(* Thread::WakeAfterDelay; -1 nanoseconds is for ever.                     *)
WakeAfterDelay(t, delay) ==
    wakeup_events' = IF delay = "forever" THEN wakeup_events
                     ELSE [wakeup_events EXCEPT ![t] = @ + 1]

CreateThread(t, p) ==
    /\ Guest
    /\ Create(t, p)
    /\ PrepareReschedule
    /\ UNCHANGED <<held_mutexes, wait_objects, wait_address, wakeup_callback,
                   current_thread, eventVars, syncVars, todo>>

(* ExitCurrentThread: Thread::Stop, and the thread leaves thread_list.     *)
ExitThread ==
    /\ Guest
    /\ Stop(current_thread, <<>>)
    /\ thread_list' = RemoveFirst(thread_list, current_thread)
    /\ PrepareReschedule
    /\ UNCHANGED <<nominal_priority, current_priority, held_mutexes, wait_objects,
                   wait_address, wakeup_callback, linked, current_thread, timer_events,
                   syncVars>>

SetThreadPriority(t, p) ==
    /\ Guest /\ Exists(t)
    /\ SetPriority(t, p)
    /\ todo' = IF pending_mutexes(t) = {} THEN <<>>
               ELSE <<UpdatePriorityEach(pending_mutexes(t))>>
    /\ PrepareReschedule
    /\ UNCHANGED <<status, held_mutexes, wait_objects, wait_address, wakeup_callback,
                   thread_list, current_thread, eventVars, syncVars>>

(* A sleep of 0 is a yield, skipped when nobody is ready.                  *)
SleepThread(delay) ==
    /\ Guest
    /\ delay = "zero" => HaveReadyThreads
    /\ status' = [status EXCEPT ![current_thread] = "WaitSleep"]
    /\ WakeAfterDelay(current_thread, delay)
    /\ PrepareReschedule
    /\ UNCHANGED <<nominal_priority, current_priority, held_mutexes, wait_objects,
                   wait_address, wakeup_callback, thread_list, queueVars, current_thread,
                   timer_events, syncVars, todo>>

(* The part of a wait that takes objects that are available.               *)
AcquireNow(objs) ==
    /\ todo' = <<AcquireEach(current_thread, objs)>>
    /\ UNCHANGED <<schedVars, eventVars, syncVars, cpuVars>>

(* The part of a wait that suspends the thread.                            *)
Suspend(how, objs, delay) ==
    /\ delay # "zero"
    /\ status' = [status EXCEPT ![current_thread] = how]
    /\ wakeup_callback' = [wakeup_callback EXCEPT ![current_thread] = "synch"]
    /\ WakeAfterDelay(current_thread, delay)
    /\ todo' = IF objs = <<>> THEN <<>> ELSE <<AddWaitingThreadEach(current_thread, objs)>>
    /\ PrepareReschedule
    /\ UNCHANGED <<nominal_priority, current_priority, held_mutexes, wait_objects,
                   wait_address, thread_list, queueVars, current_thread, timer_events,
                   syncVars>>

(* WaitSynchronizationN for one of the objects.                            *)
(* A wait with a timeout of 0 that would suspend changes nothing.          *)
WaitSynchronizationAny(objs, delay) ==
    LET Free(i) == ~ShouldWait(objs[i], current_thread) IN
    /\ Guest /\ CanPass(objs)
    /\ \/ \E i \in DOMAIN objs :
             /\ Free(i) /\ \A j \in 1 .. i - 1 : ~Free(j)
             /\ AcquireNow(<<objs[i]>>)
       \/ /\ \A i \in DOMAIN objs : ~Free(i)
          /\ Suspend("WaitSynchAny", objs, delay)

WaitSynchronization1(o, delay) == WaitSynchronizationAny(<<o>>, delay)

(* WaitSynchronizationN for all of the objects; none at all is a success   *)
(* that changes nothing.                                                   *)
WaitSynchronizationAll(objs, delay) ==
    LET Free(i) == ~ShouldWait(objs[i], current_thread) IN
    /\ Guest /\ CanPass(objs)
    /\ objs # <<>>
    /\ IF \A i \in DOMAIN objs : Free(i) THEN AcquireNow(objs)
       ELSE Suspend("WaitSynchAll", objs, delay)
-----------------------------------------------------------------------------
(* Mutex::Create; a mutex created locked is acquired by the caller.        *)
CreateMutex(m, initial_locked) ==
    /\ Guest /\ m \notin created
    /\ created' = created \cup {m}
    /\ todo' = IF initial_locked THEN <<AcquireEach(current_thread, <<m>>)>> ELSE <<>>
    /\ UNCHANGED <<schedVars, eventVars, waiting_threads, mutexVars, signaled, interval,
                   available_count, arbiterVars, cpuVars>>

(* Mutant: the mutex stays in the set of the thread.                       *)
ReleaseMutexStillHeld(m) ==
    /\ Guest /\ m \in created
    /\ holding_thread[m] = current_thread /\ lock_count[m] = 1
    /\ lock_count' = [lock_count EXCEPT ![m] = 0]
    /\ holding_thread' = [holding_thread EXCEPT ![m] = NULL]
    /\ todo' = <<WakeupAllWaitingThreads(m)>>
    /\ PrepareReschedule
    /\ UNCHANGED <<schedVars, eventVars, waiting_threads, priority, objectVars,
                   arbiterVars>>

(* Mutex::Release; only the holder gets past its checks.                   *)
ReleaseMutex(m) ==
    /\ Guest /\ m \in created
    /\ holding_thread[m] = current_thread /\ lock_count[m] > 0
    /\ lock_count' = [lock_count EXCEPT ![m] = @ - 1]
    /\ \/ /\ lock_count[m] = 1
          /\ LET held == held_mutexes[current_thread] \ {m} IN
             /\ held_mutexes' = [held_mutexes EXCEPT ![current_thread] = held]
             /\ BoostPriority(current_thread, BestPriority(current_thread, held, priority))
          /\ holding_thread' = [holding_thread EXCEPT ![m] = NULL]
          /\ todo' = <<WakeupAllWaitingThreads(m)>>
          /\ PrepareReschedule
       \/ /\ lock_count[m] > 1
          /\ UNCHANGED <<held_mutexes, current_priority, queueVars, holding_thread, todo,
                         cpuVars>>
    /\ UNCHANGED <<status, nominal_priority, wait_objects, wait_address, wakeup_callback,
                   thread_list, current_thread, eventVars, waiting_threads, priority,
                   objectVars, arbiterVars>>

CreateSemaphore(s, initial_count) ==
    /\ Guest /\ s \notin created /\ initial_count <= MaxCount[s]
    /\ created' = created \cup {s}
    /\ available_count' = [available_count EXCEPT ![s] = initial_count]
    /\ UNCHANGED <<schedVars, eventVars, waiting_threads, mutexVars, signaled, interval,
                   arbiterVars, cpuVars, todo>>

(* Mutant: threads are woken up only if nothing was available before.      *)
ReleaseFromZero(s, release_count) ==
    /\ Guest /\ s \in created
    /\ MaxCount[s] - available_count[s] >= release_count
    /\ available_count[s] + release_count >= MinCount
    /\ available_count' = [available_count EXCEPT ![s] = @ + release_count]
    /\ todo' = IF available_count[s] = 0 THEN <<WakeupAllWaitingThreads(s)>> ELSE <<>>
    /\ UNCHANGED <<schedVars, eventVars, waiting_threads, mutexVars, signaled, interval,
                   created, arbiterVars, cpuVars>>

(* Semaphore::Release.  The count is not checked for its sign.             *)
ReleaseSemaphore(s, release_count) ==
    /\ Guest /\ s \in created
    /\ MaxCount[s] - available_count[s] >= release_count
    /\ available_count[s] + release_count >= MinCount
    /\ available_count' = [available_count EXCEPT ![s] = @ + release_count]
    /\ todo' = <<WakeupAllWaitingThreads(s)>>
    /\ UNCHANGED <<schedVars, eventVars, waiting_threads, mutexVars, signaled, interval,
                   created, arbiterVars, cpuVars>>

(* Nothing is signaled or scheduled yet.                                   *)
CreateSignal(o) ==
    /\ Guest /\ o \notin created
    /\ created' = created \cup {o}
    /\ UNCHANGED <<schedVars, eventVars, waiting_threads, mutexVars, signaled, interval,
                   available_count, arbiterVars, cpuVars, todo>>

CreateEvent(e) == CreateSignal(e)
CreateTimer(tm) == CreateSignal(tm)

(* Event::Signal, from the guest or from a service's timed callback.       *)
Signal(e) ==
    /\ Idle /\ phase \in {"run", "advance"} /\ e \in created
    /\ signaled' = [signaled EXCEPT ![e] = TRUE]
    /\ todo' = <<WakeupAllWaitingThreads(e)>>
    /\ UNCHANGED <<schedVars, eventVars, waiting_threads, mutexVars, interval,
                   available_count, created, arbiterVars, cpuVars>>

Clear(o) ==
    /\ Guest /\ o \in created
    /\ signaled' = [signaled EXCEPT ![o] = FALSE]
    /\ UNCHANGED <<schedVars, eventVars, waiting_threads, mutexVars, interval,
                   available_count, created, arbiterVars, cpuVars, todo>>

ClearEvent(e) == Clear(e)
ClearTimer(tm) == Clear(tm)

(* Mutant: what was scheduled before is not cancelled.                     *)
SetTimerAgain(tm, now, periodic) ==
    /\ Guest /\ tm \in created
    /\ interval' = [interval EXCEPT ![tm] = periodic]
    /\ timer_events' = [timer_events EXCEPT ![tm] = IF now /\ ~periodic THEN @ ELSE @ + 1]
    /\ signaled' = IF now THEN [signaled EXCEPT ![tm] = TRUE] ELSE signaled
    /\ todo' = IF now THEN <<WakeupAllWaitingThreads(tm)>> ELSE <<>>
    /\ UNCHANGED <<schedVars, wakeup_events, waiting_threads, mutexVars, available_count,
                   created, arbiterVars, cpuVars>>

(* Timer::Set drops what Timer::Cancel drops; with no initial delay the    *)
(* timer is signaled at once, and then rescheduled if it is periodic.      *)
SetTimer(tm, now, periodic) ==
    /\ Guest /\ tm \in created
    /\ interval' = [interval EXCEPT ![tm] = periodic]
    /\ timer_events' = [timer_events EXCEPT ![tm] = IF now /\ ~periodic THEN 0 ELSE 1]
    /\ signaled' = IF now THEN [signaled EXCEPT ![tm] = TRUE] ELSE signaled
    /\ todo' = IF now THEN <<WakeupAllWaitingThreads(tm)>> ELSE <<>>
    /\ UNCHANGED <<schedVars, wakeup_events, waiting_threads, mutexVars, available_count,
                   created, arbiterVars, cpuVars>>

CancelTimer(tm) ==
    /\ Guest /\ tm \in created
    /\ timer_events' = [timer_events EXCEPT ![tm] = 0]
    /\ UNCHANGED <<schedVars, wakeup_events, syncVars, cpuVars, todo>>

(* TimerCallback: Timer::Signal, which reschedules a periodic timer.       *)
TimerCallback(tm) ==
    /\ Idle /\ phase = "advance" /\ timer_events[tm] > 0
    /\ timer_events' = [timer_events EXCEPT ![tm] = IF interval[tm] THEN @ ELSE @ - 1]
    /\ signaled' = [signaled EXCEPT ![tm] = TRUE]
    /\ todo' = <<WakeupAllWaitingThreads(tm)>>
    /\ UNCHANGED <<schedVars, wakeup_events, waiting_threads, mutexVars, interval,
                   available_count, created, arbiterVars, cpuVars>>

ArbitrateAddress(a, value) ==
    /\ Guest
    /\ \/ \E decrement, timed \in BOOLEAN, delay \in Timeouts :
             ArbitrateWait(current_thread, a, value, decrement, timed, delay)
       \/ ArbitrateNone(a, value)

ArbitrateAddressSignal(a, value) == Guest /\ ArbitrateSignal(a, value)

(* The guest stores a word.                                                *)
Store(a, value) ==
    /\ Guest
    /\ memory' = [memory EXCEPT ![a] = value]
    /\ UNCHANGED <<schedVars, eventVars, waiting_threads, mutexVars, objectVars,
                   arbiter_threads, cpuVars, todo>>
-----------------------------------------------------------------------------
(* A step of the routine that is running.                                  *)
Continue ==
    WakeupNext \/ AcquireNext \/ AddNext \/ RemoveNext \/ ReleaseNext \/ UpdateNext
        \/ Resume \/ ResumeNext

SystemCall ==
    \/ \E t \in Thread, p \in CreatePriorities : CreateThread(t, p)
    \/ \E t \in Thread, p \in SetPriorities : SetThreadPriority(t, p)
    \/ ExitThread
    \/ \E delay \in Sleeps : SleepThread(delay)
    \/ \E objs \in WaitLists, delay \in Timeouts :
          \/ WaitSynchronizationAny(objs, delay) \/ WaitSynchronizationAll(objs, delay)
          \/ Len(objs) = 1 /\ WaitSynchronization1(objs[1], delay)
    \/ \E m \in Mutex : ReleaseMutex(m) \/ \E locked \in BOOLEAN : CreateMutex(m, locked)
    \/ \E s \in Semaphore, n \in ReleaseCounts :
          ReleaseSemaphore(s, n) \/ CreateSemaphore(s, n)
    \/ \E e \in Event : CreateEvent(e) \/ ClearEvent(e)
    \/ \E tm \in Timer : CreateTimer(tm) \/ ClearTimer(tm) \/ CancelTimer(tm)
    \/ \E tm \in Timer : \E now, periodic \in BOOLEAN : SetTimer(tm, now, periodic)
    \/ \E a \in Address : \/ \E v \in Values : ArbitrateAddress(a, v) \/ Store(a, v)
                          \/ \E n \in SignalCounts : ArbitrateAddressSignal(a, n)

Fire ==
    \/ \E t \in Thread : ThreadWakeupCallback(t)
    \/ \E tm \in Timer : TimerCallback(tm)

RunLoop == EndAdvance \/ EndSlice \/ Reschedule

Next == Continue \/ SystemCall \/ Fire \/ RunLoop \/ \E e \in Event : Signal(e)

Spec == Init /\ [][Next]_vars

(* What the emulator's own loop guarantees: a routine goes on once it has  *)
(* been called and the loop goes round, however many system calls the      *)
(* guest makes in a slice (ticks are counted for all of them, and the      *)
(* slice ends when they are used up) and however many callbacks an advance *)
(* runs; and, as emulated time goes on, a scheduled event fires.           *)
Fairness ==
    /\ WF_vars(Continue) /\ WF_vars(Reschedule)
    /\ SF_vars(EndAdvance) /\ SF_vars(EndSlice)
    /\ \A t \in Thread : SF_vars(ThreadWakeupCallback(t))
    /\ \A tm \in Timer : SF_vars(TimerCallback(tm))

FairSpec == Spec /\ Fairness
-----------------------------------------------------------------------------
Call ==
         {WakeupAllWaitingThreads(o) : o \in WaitObject}
    \cup [op : {"acquire", "add"}, thread : Thread, objects : Seq(WaitObject)]
    \cup [op : {"remove", "resume"}, thread : Thread]
    \cup [op : {"release"}, thread : Thread, mutexes : SUBSET Mutex]
    \cup [op : {"update"}, mutexes : SUBSET Mutex]
    \cup [op : {"stop"}, threads : Seq(Thread)]
    \cup [op : {"arbiter"}, address : Address, count : Int]

(* Every field has its type; in particular every priority a boost computes *)
(* is a level of the ready queue.                                          *)
TypeOK ==
    /\ status \in [Thread -> Status]
    /\ nominal_priority \in [Thread -> Priority]
    /\ current_priority \in [Thread -> Priority]
    /\ held_mutexes \in [Thread -> SUBSET Mutex]
    /\ wait_objects \in [Thread -> Seq(WaitObject)]
    /\ wait_address \in [Thread -> Address \cup {NULL}]
    /\ wakeup_callback \in [Thread -> {NULL, "synch", "arbiter"}]
    /\ thread_list \in Seq(Thread)
    /\ queues \in [Priority -> Seq(Thread)]
    /\ linked \subseteq Priority
    /\ current_thread \in Thread \cup {NULL}
    /\ wakeup_events \in [Thread -> Nat]
    /\ timer_events \in [Timer -> Nat]
    /\ waiting_threads \in [WaitObject -> Seq(Thread)]
    /\ signaled \in [Event \cup Timer -> BOOLEAN]
    /\ interval \in [Timer -> BOOLEAN]
    /\ available_count \in [Semaphore -> Int]
    /\ lock_count \in [Mutex -> Nat]
    /\ holding_thread \in [Mutex -> Thread \cup {NULL}]
    /\ priority \in [Mutex -> Priority]
    /\ created \subseteq WaitObject
    /\ arbiter_threads \in [Address -> Seq(Thread)]
    /\ memory \in [Address -> Int]
    /\ phase \in {"advance", "run", "resched"}
    /\ reschedule_pending \in BOOLEAN
    /\ todo \in Seq(Call)

Pending(call) == call \in Range(todo)

(* The ready queue holds exactly the Ready threads, each once, at the      *)
(* level of the priority it has now (a boost moves it), and the levels of  *)
(* all live threads are linked, so that a pop finds every one of them and  *)
(* pop_first_better never walks past the last level.                       *)
ReadyQueueExact ==
    /\ \A p \in Priority : IsInjective(queues[p])
    /\ \A p \in Priority, t \in Thread :
          t \in Range(queues[p]) <=> status[t] = "Ready" /\ current_priority[t] = p
    /\ \A t \in Thread : status[t] # "Dormant" => current_priority[t] \in linked

(* The CPU executes with a thread that is Running, and no other is.        *)
OneRunningThread ==
    /\ \A t \in Thread : status[t] = "Running" => t = current_thread
    /\ Idle /\ phase = "run" => current_thread # NULL /\ status[current_thread] = "Running"

(* A thread is in the list of an object only if the object is among its    *)
(* wait objects, and then it is, once, unless the loop that takes it out   *)
(* of its lists is at work; and only a thread in a synchronization wait is *)
(* in any list: no wakeup, timeout or exit leaves an entry behind.         *)
WaitListsExact ==
    /\ \A o \in WaitObject : IsInjective(waiting_threads[o])
    /\ \A o \in WaitObject, t \in Thread :
          /\ t \in Range(waiting_threads[o]) => o \in Range(wait_objects[t])
          /\ o \in Range(wait_objects[t]) =>
                t \in Range(waiting_threads[o]) \/ Pending(RemoveWaitingThreadEach(t))
    /\ \A t \in Thread : wait_objects[t] # <<>> => status[t] \in SynchStatus

(* No thread sleeps on what it could have: whenever a thread waits for an  *)
(* object that would let it go, the wakeup of one of its objects is still  *)
(* to be done by the routine that is running.                              *)
NoLostWakeup ==
    \A o \in WaitObject, t \in Thread :
        t \in Range(waiting_threads[o]) /\ ReadyToRun(o, t) =>
            \/ \E x \in Range(wait_objects[t]) : Pending(WakeupAllWaitingThreads(x))
            \/ Pending(RemoveWaitingThreadEach(t))
            \/ \E i \in DOMAIN todo : todo[i].op = "add" /\ todo[i].thread = t

(* A mutex is locked if and only if it has a holder, the holder has it in  *)
(* its set of held mutexes and nobody else does, and a dead thread holds   *)
(* none once its exit is complete.                                         *)
MutexOwnership ==
    \A m \in Mutex :
        /\ lock_count[m] > 0 <=> holding_thread[m] # NULL
        /\ holding_thread[m] # NULL => m \in held_mutexes[holding_thread[m]]
        /\ \A t \in Thread : m \in held_mutexes[t] =>
              \/ holding_thread[m] = t /\ status[t] # "Dead"
              \/ status[t] = "Dead" /\ \E i \in DOMAIN todo :
                                           todo[i].op = "release" /\ todo[i].thread = t

(* A thread's priority is its nominal one or the best of the mutexes it    *)
(* holds: a boost ends with the mutex it came from and is never lost       *)
(* before.                                                                 *)
EffectivePriority ==
    \A t \in Thread : status[t] # "Dead" =>
        current_priority[t] = BestPriority(t, held_mutexes[t], priority)

(* A thread has at most one wakeup scheduled, and none once it runs or is  *)
(* dead: a timeout never hits a later wait of the same thread.             *)
WakeupEventsSound ==
    \A t \in Thread :
        /\ wakeup_events[t] <= 1
        /\ wakeup_events[t] > 0 => status[t] \in WaitStatus \cup {"Ready"}

(* A timer has at most one callback scheduled, however it is set, fired,   *)
(* cancelled and set again.                                                *)
TimerEventsUnique == \A tm \in Timer : timer_events[tm] <= 1

(* When a better thread than the running one is ready, a reschedule is     *)
(* pending.                                                                *)
NoMissedReschedule ==
    Idle => \A t, u \in Thread :
        /\ status[t] = "Running" /\ status[u] = "Ready"
        /\ current_priority[u] < current_priority[t]
        => reschedule_pending

(* The arbiter's list for an address has exactly the threads that wait for *)
(* it there, in spite of timeouts and signals that race.                   *)
ArbiterListExact ==
    /\ \A a \in Address : IsInjective(arbiter_threads[a])
    /\ \A a \in Address : \A i \in DOMAIN arbiter_threads[a] :
          LET t == arbiter_threads[a][i] IN status[t] = "WaitArb" /\ wait_address[t] = a
    /\ \A t \in Thread : status[t] = "WaitArb" =>
          t \in Range(arbiter_threads[wait_address[t]]) \/ Pending(ResumeFromWait(t))

(* None of the ASSERTs of the wait objects, of ResumeFromWait and of the   *)
(* arbiter fails where the code evaluates it.                              *)
NoFailedAssert ==
    /\ Doing("wakeup") => WakeupAssert(Head(todo).object)
    /\ Doing("acquire") => AcquireAssert(Head(Head(todo).objects), Head(todo).thread)
    /\ Doing("resume") => ResumeAssert(Head(todo).thread)
    /\ Doing("arbiter") /\ Head(todo).count # 0 => ArbiterAssert
-----------------------------------------------------------------------------
(* A wait or a sleep with a timeout ends, whatever the other threads do.   *)
TimeoutsHappen ==
    \A t \in Thread :
        (status[t] \in WaitStatus /\ wakeup_events[t] > 0) ~> (status[t] \notin WaitStatus)

(* A ready thread that is better than all the others gets the CPU, or      *)
(* another one becomes as good.                                            *)
IsBest(t) ==
    /\ status[t] = "Ready"
    /\ \A u \in Thread \ {t} : status[u] \in {"Ready", "Running"} =>
                                   current_priority[t] < current_priority[u]

BestThreadRuns == \A t \in Thread : IsBest(t) ~> (status[t] = "Running" \/ ~IsBest(t))

(* Every kernel routine comes to its end: the loop that wakes up the       *)
(* threads of an object goes round only while it wakes somebody up.        *)
RoutinesEnd == []<>Idle

(* A thread holding a mutex is at least as urgent as every thread that     *)
(* waits for it, which is what priority inheritance is for.                *)
NoPriorityInversion ==
    Idle => \A m \in Mutex : \A i \in DOMAIN waiting_threads[m] :
        holding_thread[m] # NULL =>
            current_priority[holding_thread[m]] <= current_priority[waiting_threads[m][i]]

(* The running thread loses the CPU to a better one only, unless it waits  *)
(* or exits: threads of one priority are not sliced.                       *)
PreemptedByBetter ==
    [][\A t \in Thread : status[t] = "Running" /\ status'[t] = "Ready" =>
           \E u \in Thread : status'[u] = "Running" /\ current_priority[u] < current_priority[t]]_vars
=============================================================================
