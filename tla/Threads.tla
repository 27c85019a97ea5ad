------------------------------ MODULE Threads -------------------------------
(***************************************************************************)
(* Guest threads of the emulated kernel and the scheduler that picks the   *)
(* one the CPU runs: src/core/hle/kernel/thread.{h,cpp}, the run loop of   *)
(* src/core/core.cpp, the ready queue of src/common/thread_queue_list.h.   *)
(*                                                                         *)
(* Kernel routines run to completion on the CPU thread.  A routine that    *)
(* loops over calls is a sequence of steps here: `todo` holds the calls it *)
(* still has to make, the next one first, and every other action of the    *)
(* system waits until `todo` is empty.  An ASSERT of the code is a guard   *)
(* of the step it is in: where it fails the emulator stops.                *)
(***************************************************************************)
EXTENDS ReadyQueue

CONSTANTS
    Event, Timer, Semaphore, Mutex,   \* kernel objects, besides Thread
    Address,            \* (arbiter, guest address) pairs
    ResetType,          \* of each event and timer
    NULL

WaitObject == Thread \cup Event \cup Timer \cup Semaphore \cup Mutex
Disjoint(A, B) == A \cap B = {}

ASSUME ThreadsAssumption ==
    /\ ThreadPrioLowest \in Nat
    /\ ResetType \in [Event \cup Timer -> {"OneShot", "Sticky", "Pulse"}]
    /\ NULL \notin WaitObject
    /\ Disjoint(Thread, Event \cup Timer \cup Semaphore \cup Mutex)
    /\ Disjoint(Event, Timer \cup Semaphore \cup Mutex)
    /\ Disjoint(Timer, Semaphore \cup Mutex)
    /\ Disjoint(Semaphore, Mutex)

VARIABLES
    \* class Thread
    status, nominal_priority, current_priority, held_mutexes,
    wait_objects, wait_address, wakeup_callback,
    \* the scheduler, besides its ready queue
    thread_list, current_thread,
    \* CoreTiming events scheduled for each thread and for each timer
    wakeup_events, timer_events,
    \* wait objects: the list of WaitObject, then the fields of the kinds
    waiting_threads, signaled, interval, available_count,
    lock_count, holding_thread, priority, created,
    \* the address arbiter's lists and the guest words it looks at
    arbiter_threads, memory,
    \* the CPU thread
    phase, reschedule_pending, todo

threadVars == <<status, nominal_priority, current_priority, held_mutexes,
                wait_objects, wait_address, wakeup_callback>>
eventVars == <<wakeup_events, timer_events>>
mutexVars == <<lock_count, holding_thread, priority>>
objectVars == <<signaled, interval, available_count, created>>
arbiterVars == <<arbiter_threads, memory>>
cpuVars == <<phase, reschedule_pending>>
schedVars == <<threadVars, thread_list, queueVars, current_thread>>
syncVars == <<waiting_threads, mutexVars, objectVars, arbiterVars>>
vars == <<schedVars, eventVars, syncVars, cpuVars, todo>>

SynchStatus == {"WaitSynchAny", "WaitSynchAll"}
WaitStatus == SynchStatus \cup {"WaitArb", "WaitSleep"}
Status == WaitStatus \cup {"Running", "Ready", "Dormant", "Dead"}
-----------------------------------------------------------------------------
(* The calls a routine can have left to make.                              *)
WakeupAllWaitingThreads(o) == [op |-> "wakeup", object |-> o]
AcquireEach(t, objs) == [op |-> "acquire", thread |-> t, objects |-> objs]
AddWaitingThreadEach(t, objs) == [op |-> "add", thread |-> t, objects |-> objs]
RemoveWaitingThreadEach(t) == [op |-> "remove", thread |-> t]
ResumeFromWait(t) == [op |-> "resume", thread |-> t]
ReleaseThreadMutexes(t, ms) == [op |-> "release", thread |-> t, mutexes |-> ms]
UpdatePriorityEach(ms) == [op |-> "update", mutexes |-> ms]
StopEach(ts) == [op |-> "stop", threads |-> ts]
ResumeHighest(a, n) == [op |-> "arbiter", address |-> a, count |-> n]

Doing(op) == todo # <<>> /\ Head(todo).op = op
Idle == todo = <<>>
Then(calls) == todo' = calls \o Tail(todo)

(* System::PrepareReschedule also halts the CPU if it is executing.        *)
PrepareReschedule ==
    /\ reschedule_pending' = TRUE
    /\ phase' = IF phase = "run" THEN "resched" ELSE phase
-----------------------------------------------------------------------------
(* Thread::UpdatePriority, once mutex m of those t holds has priority      *)
(* prio[m].                                                                *)
BestPriority(t, held, prio) == Min({nominal_priority[t]} \cup {prio[m] : m \in held})

(* Mutant: a ready thread stays in the queue of its old priority.          *)
BoostInPlace(t, p) ==
    /\ current_priority' = [current_priority EXCEPT ![t] = p]
    /\ linked' = linked \cup {p}
    /\ UNCHANGED queues

BoostPriority(t, p) ==
    /\ current_priority' = [current_priority EXCEPT ![t] = p]
    /\ queues' = IF status[t] = "Ready" THEN Move(queues, t, current_priority[t], p)
                 ELSE queues
    /\ linked' = linked \cup {p}

(* The calls that take t out of the lists of the objects it waits for.     *)
LeaveWaitObjects(t) ==
    IF wait_objects[t] = <<>> THEN <<>> ELSE <<RemoveWaitingThreadEach(t)>>

(* What Thread::ResumeFromWait asserts of its thread.                      *)
ResumeAssert(t) ==
    /\ wait_objects[t] = <<>>
    /\ status[t] \in WaitStatus \cup {"Ready"}
    /\ status[t] = "Ready" => wakeup_callback[t] = NULL

(* Mutant: the scheduler is not told of the thread it has to look at.      *)
ResumeQuietly ==
    /\ Doing("resume")
    /\ LET t == Head(todo).thread IN
       /\ ResumeAssert(t)
       /\ wakeup_callback' = [wakeup_callback EXCEPT ![t] = NULL]
       /\ queues' = IF status[t] = "Ready" THEN queues
                    ELSE PushBack(queues, current_priority[t], t)
       /\ status' = [status EXCEPT ![t] = "Ready"]
    /\ Then(<<>>)
    /\ UNCHANGED <<nominal_priority, current_priority, held_mutexes, wait_objects,
                   wait_address, thread_list, linked, current_thread, eventVars, syncVars,
                   cpuVars>>

(* Thread::ResumeFromWait.  A thread that is Ready already is left alone.  *)
Resume ==
    /\ Doing("resume")
    /\ LET t == Head(todo).thread IN
       /\ ResumeAssert(t)
       /\ \/ /\ status[t] \in WaitStatus
             /\ wakeup_callback' = [wakeup_callback EXCEPT ![t] = NULL]
             /\ queues' = PushBack(queues, current_priority[t], t)
             /\ status' = [status EXCEPT ![t] = "Ready"]
             /\ PrepareReschedule
          \/ /\ status[t] = "Ready"
             /\ UNCHANGED <<wakeup_callback, queues, status, cpuVars>>
    /\ Then(<<>>)
    /\ UNCHANGED <<nominal_priority, current_priority, held_mutexes, wait_objects,
                   wait_address, thread_list, linked, current_thread, eventVars, syncVars>>

(* Mutant: the thread stays in the list of the arbiter.                    *)
TimeoutKeepsArbiter(t) ==
    /\ Idle /\ phase = "advance" /\ wakeup_events[t] > 0
    /\ wakeup_events' = [wakeup_events EXCEPT ![t] = @ - 1]
    /\ todo' = LeaveWaitObjects(t) \o <<ResumeFromWait(t)>>
    /\ UNCHANGED <<schedVars, timer_events, syncVars, cpuVars>>

(* Mutant: only a thread that waits for objects is woken up.               *)
TimeoutSkipsSleep(t) ==
    /\ Idle /\ phase = "advance" /\ wakeup_events[t] > 0
    /\ wakeup_events' = [wakeup_events EXCEPT ![t] = @ - 1]
    /\ todo' = IF status[t] = "WaitSleep" THEN <<>>
               ELSE LeaveWaitObjects(t) \o <<ResumeFromWait(t)>>
    /\ UNCHANGED <<schedVars, timer_events, syncVars, cpuVars>>

(* The scheduled wakeup of t fires.  The callback of a thread waiting for  *)
(* the arbiter takes it out of the arbiter's list.                         *)
ThreadWakeupCallback(t) ==
    /\ Idle /\ phase = "advance" /\ wakeup_events[t] > 0
    /\ wakeup_events' = [wakeup_events EXCEPT ![t] = @ - 1]
    /\ \/ /\ status[t] \in SynchStatus \cup {"WaitArb"}
          /\ todo' = LeaveWaitObjects(t) \o <<ResumeFromWait(t)>>
       \/ /\ status[t] \notin SynchStatus \cup {"WaitArb"}
          /\ todo' = <<ResumeFromWait(t)>>
    /\ arbiter_threads' =
           IF status[t] = "WaitArb" /\ wakeup_callback[t] = "arbiter"
           THEN [arbiter_threads EXCEPT ![wait_address[t]] = RemoveFirst(@, t)]
           ELSE arbiter_threads
    /\ UNCHANGED <<schedVars, timer_events, waiting_threads, mutexVars, objectVars,
                   memory, cpuVars>>

(* Mutant: the thread stays in the lists of the objects it waits for.      *)
StopStillListed(t, rest) ==
    /\ wakeup_events' = [wakeup_events EXCEPT ![t] = 0]
    /\ queues' = queues
    /\ status' = [status EXCEPT ![t] = "Dead"]
    /\ todo' = <<WakeupAllWaitingThreads(t), ReleaseThreadMutexes(t, held_mutexes[t])>> \o rest

(* Thread::Stop: `rest` is what the caller does after it.                  *)
Stop(t, rest) ==
    /\ wakeup_events' = [wakeup_events EXCEPT ![t] = 0]
    /\ queues' = IF status[t] = "Ready" THEN Dequeue(queues, current_priority[t], t)
                 ELSE queues
    /\ status' = [status EXCEPT ![t] = "Dead"]
    /\ todo' = <<WakeupAllWaitingThreads(t)>> \o LeaveWaitObjects(t)
                   \o <<ReleaseThreadMutexes(t, held_mutexes[t])>> \o rest
-----------------------------------------------------------------------------
(* Thread::Create, for a thread object that is not in use yet.             *)
Create(t, p) ==
    /\ status[t] = "Dormant"
    /\ thread_list' = Append(thread_list, t)
    /\ linked' = linked \cup {p}
    /\ nominal_priority' = [nominal_priority EXCEPT ![t] = p]
    /\ current_priority' = [current_priority EXCEPT ![t] = p]
    /\ queues' = PushBack(queues, p, t)
    /\ status' = [status EXCEPT ![t] = "Ready"]

(* Thread::SetPriority and the Thread::UpdatePriority that follows it.     *)
SetPriority(t, p) ==
    LET best == Min({p} \cup {priority[m] : m \in held_mutexes[t]}) IN
    /\ nominal_priority' = [nominal_priority EXCEPT ![t] = p]
    /\ current_priority' = [current_priority EXCEPT ![t] = best]
    /\ queues' = IF status[t] = "Ready"
                 THEN Move(Move(queues, t, current_priority[t], p), t, p, best)
                 ELSE queues
    /\ linked' = linked \cup {p, best}

(* Mutant: the wakeup event of the thread is not cancelled.                *)
SwitchKeepsEvent(t, q) ==
    LET prev == current_thread
        back == prev # NULL /\ status[prev] = "Running"
    IN  /\ queues' = IF back THEN PushFront(q, current_priority[prev], prev) ELSE q
        /\ status' = [s \in Thread |-> IF s = t THEN "Running"
                                       ELSE IF back /\ s = prev THEN "Ready"
                                       ELSE status[s]]
        /\ current_thread' = t
        /\ UNCHANGED wakeup_events

(* Mutant: the previous thread is not put back.                            *)
SwitchForgetsPrevious(t, q) ==
    /\ queues' = q
    /\ status' = [status EXCEPT ![t] = "Running"]
    /\ wakeup_events' = [wakeup_events EXCEPT ![t] = 0]
    /\ current_thread' = t

(* SwitchContext to thread t, which PopNextReadyThread has taken out of    *)
(* queue q; the previous thread goes back to the front of its level if it  *)
(* has not yielded.                                                        *)
SwitchContext(t, q) ==
    LET prev == current_thread
        back == prev # NULL /\ status[prev] = "Running"
    IN  /\ queues' = IF back THEN PushFront(q, current_priority[prev], prev) ELSE q
        /\ status' = [s \in Thread |-> IF s = t THEN "Running"
                                       ELSE IF back /\ s = prev THEN "Ready"
                                       ELSE status[s]]
        /\ wakeup_events' = [wakeup_events EXCEPT ![t] = 0]
        /\ current_thread' = t

(* Mutant: the running thread yields to one of its own priority.           *)
SwitchToEqual ==
    \E p \in Priority :
        /\ FirstLevel(p)
        /\ SwitchContext(Head(queues[p]), [queues EXCEPT ![p] = Tail(@)])

(* Kernel::Reschedule: PopNextReadyThread, then SwitchContext.             *)
SwitchToBest ==
    LET running == current_thread # NULL /\ status[current_thread] = "Running"
        Better(p) == running => p < current_priority[current_thread]
    IN  \/ \E p \in Priority :
              /\ FirstLevel(p) /\ Better(p)
              /\ SwitchContext(Head(queues[p]), [queues EXCEPT ![p] = Tail(@)])
        \/ /\ running
           /\ \A p \in linked : Better(p) => queues[p] = <<>>
           /\ wakeup_events' = [wakeup_events EXCEPT ![current_thread] = 0]
           /\ UNCHANGED <<queues, status, current_thread>>
        \/ /\ ~ running /\ ~HaveReadyThreads
           /\ current_thread' = NULL
           /\ UNCHANGED <<queues, status, wakeup_events>>
=============================================================================
