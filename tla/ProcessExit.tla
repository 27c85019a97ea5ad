---------------------------- MODULE ProcessExit -----------------------------
(***************************************************************************)
(* The ExitProcess system call (src/core/hle/kernel/svc.cpp) in the kernel *)
(* of Kernel: the threads of the process are stopped one after the other,  *)
(* and what stopping one does to the others is done before the next.       *)
(***************************************************************************)
EXTENDS Kernel

ExitProcess ==
    /\ Guest
    /\ todo' = <<StopEach(thread_list)>>
    /\ UNCHANGED <<schedVars, eventVars, syncVars, cpuVars>>

(* What ExitProcess asserts of a thread that is not the current one.       *)
ExitAssert(t) == status[t] \in SynchStatus

(* One turn of the loop of ExitProcess; the current thread is stopped last.*)
StopNext ==
    /\ Doing("stop")
    /\ LET ts == Head(todo).threads IN
       \/ /\ ts # <<>> /\ Head(ts) = current_thread
          /\ Then(<<StopEach(Tail(ts))>>)
          /\ UNCHANGED <<status, queues, wakeup_events, cpuVars>>
       \/ /\ ts # <<>> /\ Head(ts) # current_thread
          /\ ExitAssert(Head(ts))
          /\ Stop(Head(ts), <<StopEach(Tail(ts))>>)
          /\ UNCHANGED cpuVars
       \/ /\ ts = <<>>
          /\ Stop(current_thread, <<>>)
          /\ PrepareReschedule
    /\ UNCHANGED <<nominal_priority, current_priority, held_mutexes, wait_objects,
                   wait_address, wakeup_callback, thread_list, linked, current_thread,
                   timer_events, syncVars>>

ExitNext == Next \/ ExitProcess \/ StopNext

ExitSpec == Init /\ [][ExitNext]_vars

(* The kernel whose guest exits only once all of its other threads wait    *)
(* for objects, the one case ExitProcess says it implements.               *)
OthersWait == \A t \in Range(thread_list) : t # current_thread => ExitAssert(t)

WaitingExitNext == Next \/ (OthersWait /\ ExitProcess) \/ StopNext

WaitingExitSpec == Init /\ [][WaitingExitNext]_vars
-----------------------------------------------------------------------------
(* ExitProcess leaves its threads in thread_list.                          *)
Exited == \E t \in Range(thread_list) : status[t] = "Dead"

(* An exit that gets to its end leaves nothing behind: every thread is     *)
(* dead, no list, queue or scheduled wakeup has one, and no mutex is held. *)
ExitLeavesNothing ==
    Idle /\ Exited =>
        /\ \A t \in Thread : /\ status[t] \in {"Dead", "Dormant"}
                             /\ wait_objects[t] = <<>> /\ held_mutexes[t] = {}
                             /\ wakeup_events[t] = 0
        /\ \A o \in WaitObject : waiting_threads[o] = <<>>
        /\ \A p \in Priority : queues[p] = <<>>
        /\ \A m \in Mutex : lock_count[m] = 0 /\ holding_thread[m] = NULL

(* When the other threads all wait for objects, ExitProcess does not fail  *)
(* its own assertion on a thread that it has still to stop.                *)
WaitingThreadsCanExit ==
    Doing("stop") => LET ts == Head(todo).threads IN
                     ts # <<>> /\ Head(ts) # current_thread => ExitAssert(Head(ts))
=============================================================================
