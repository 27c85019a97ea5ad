----------------------------- MODULE CoreTiming -----------------------------
(***************************************************************************)
(* The emulated clock and the queue of timed events                        *)
(* (src/core/core_timing.cpp), with the queue through which other host     *)
(* threads schedule events (src/common/threadsafe_queue.h).                *)
(*                                                                         *)
(* The CPU thread executes cycles in slices; between slices Advance moves  *)
(* the events of other threads into the queue, sets the clock and calls    *)
(* back the events that are due.  The heap is a set here: its front is the *)
(* event that is least by (time, fifo_order).  Host threads take their     *)
(* steps between any two of the CPU thread's.  idled_cycles is left out:   *)
(* Idle adds to it and only GetIdleTicks reads it.                         *)
(***************************************************************************)
EXTENDS Integers, Sequences

CONSTANTS
    Type, Userdata,     \* what an event is scheduled with
    Host,               \* the other host threads
    MAX_SLICE_LENGTH,
    Cycles,             \* delays events are scheduled with
    Ticks,              \* cycles the CPU executes at a time
    MaxTicks, MaxEvents,    \* bounds: the clock, and the events ever queued
    NULL

ASSUME TimingAssumption ==
    /\ MAX_SLICE_LENGTH \in Nat \ {0}
    /\ Cycles \subseteq Nat /\ Ticks \subseteq Nat
    /\ NULL \notin Type

VARIABLES
    global_timer, slice_length, downcount, is_global_timer_sane,
    event_queue, event_fifo_id,
    ts_queue,           \* the events that have been linked into the queue
    host,               \* per host thread: the event it is scheduling, how far
    phase,              \* where the CPU thread is
    removing,           \* the type RemoveNormalAndThreadsafeEvent removes
    lateness,           \* cycles_late of the callback that runs
    \* history: cycles the clock went past the end of the slice; (time, order) of
    \* the last `ahead` event called back; the clock one and two Advances ago
    overrun, last, timers

clockVars == <<global_timer, slice_length, downcount, is_global_timer_sane>>
queueVars == <<event_queue, event_fifo_id>>
cpuVars == <<phase, removing, lateness, overrun, last, timers>>
vars == <<clockVars, queueVars, ts_queue, host, cpuVars>>

\* An event of ScheduleEvent is `ahead` if it was scheduled zero or more cycles
\* into the future; an event of another host thread is `prompt` if the clock has
\* not been set between the thread's reading it and its linking the event.
Origin == {"ahead", "past", "prompt", "stalled"}
Event == [time : Int, fifo_order : Nat, type : Type, userdata : Userdata, origin : Origin]
HostEvent == [time : Int, type : Type, userdata : Userdata, origin : Origin]
HostState == [at : {"idle"}]
    \cup [at : {"computed"}, read : Int, cycles : Cycles,
          type : Type, userdata : Userdata]

Min2(a, b) == IF a <= b THEN a ELSE b
Max2(a, b) == IF a >= b THEN a ELSE b
Before(t1, o1, t2, o2) == t1 < t2 \/ (t1 = t2 /\ o1 < o2)

\* Between Init and the first Advance the clock is at the boundary of a slice.
Init ==
    /\ global_timer = 0
    /\ slice_length = MAX_SLICE_LENGTH /\ downcount = MAX_SLICE_LENGTH
    /\ is_global_timer_sane = TRUE
    /\ event_queue = {} /\ event_fifo_id = 0
    /\ ts_queue = <<>>
    /\ host = [h \in Host |-> [at |-> "idle"]]
    /\ phase = "boot" /\ removing = NULL /\ lateness = 0 /\ overrun = 0
    /\ last = [time |-> -1, order |-> 0]
    /\ timers = [one |-> 0, two |-> 0]

-----------------------------------------------------------------------------
GetTicks == global_timer + (IF is_global_timer_sane THEN 0 ELSE slice_length - downcount)

\* An instruction block, or AddTicks of a system call: the CPU stops only
\* between blocks, so the downcount may become negative.
AddTicks(n) ==
    /\ phase = "run"
    /\ GetTicks + n <= MaxTicks
    /\ downcount' = downcount - n
    /\ UNCHANGED <<global_timer, slice_length, is_global_timer_sane,
                   queueVars, ts_queue, host, cpuVars>>

\* Mutant: the slice keeps its length.
ForceDowncountOnly(cycles) ==
    LET c == Max2(0, cycles) IN
    IF downcount > c
    THEN downcount' = c /\ UNCHANGED slice_length
    ELSE UNCHANGED <<slice_length, downcount>>

ForceExceptionCheck(cycles) ==
    LET c == Max2(0, cycles) IN
    IF downcount > c
    THEN slice_length' = slice_length - (downcount - c) /\ downcount' = c
    ELSE UNCHANGED <<slice_length, downcount>>

\* A running callback may schedule "period - cyclesLate".
Delays == Cycles \cup (IF phase = "callback" THEN {c - lateness : c \in Cycles} ELSE {})

ScheduleEvent(cycles, type, userdata) ==
    /\ phase \in {"boot", "run", "callback"}
    /\ event_fifo_id < MaxEvents
    /\ event_queue' = event_queue \cup
            {[time |-> GetTicks + cycles, fifo_order |-> event_fifo_id,
              type |-> type, userdata |-> userdata,
              origin |-> IF cycles >= 0 THEN "ahead" ELSE "past"]}
    /\ event_fifo_id' = event_fifo_id + 1
    /\ IF is_global_timer_sane THEN UNCHANGED <<slice_length, downcount>>
       ELSE ForceExceptionCheck(cycles)
    /\ UNCHANGED <<global_timer, is_global_timer_sane, ts_queue, host, cpuVars>>

UnscheduleEvent(type, userdata) ==
    /\ phase \in {"boot", "run", "callback"}
    /\ event_queue' = {e \in event_queue : e.type # type \/ e.userdata # userdata}
    /\ UNCHANGED <<clockVars, event_fifo_id, ts_queue, host, cpuVars>>

RemoveEvent(type) ==
    /\ phase \in {"boot", "run", "callback"}
    /\ event_queue' = {e \in event_queue : e.type # type}
    /\ UNCHANGED <<clockVars, event_fifo_id, ts_queue, host, cpuVars>>

-----------------------------------------------------------------------------
\* ScheduleEventThreadsafe: the thread reads the clock without a lock, ...
HostCompute(h, cycles, type, userdata) ==
    /\ host[h].at = "idle"
    /\ host' = [host EXCEPT ![h] = [at |-> "computed", read |-> global_timer,
            cycles |-> cycles, type |-> type, userdata |-> userdata]]
    /\ UNCHANGED <<clockVars, queueVars, ts_queue, cpuVars>>

\* ... then fills the last element of the queue and links a new one behind it,
\* under the writers' lock: the reader finds the element once it is linked.
HostPush(h) ==
    /\ host[h].at = "computed"
    /\ Len(ts_queue) + event_fifo_id < MaxEvents
    /\ ts_queue' = Append(ts_queue,
            [time |-> host[h].read + host[h].cycles,
             type |-> host[h].type, userdata |-> host[h].userdata,
             origin |-> IF host[h].read = global_timer THEN "prompt" ELSE "stalled"])
    /\ host' = [host EXCEPT ![h] = [at |-> "idle"]]
    /\ UNCHANGED <<clockVars, queueVars, cpuVars>>

-----------------------------------------------------------------------------
\* MoveEvents, called by Advance, by RemoveNormalAndThreadsafeEvent: one round
\* of its loop.
MoveEvent ==
    /\ phase = "move" /\ ts_queue # <<>>
    /\ event_queue' = event_queue \cup
            {[time |-> Head(ts_queue).time, fifo_order |-> event_fifo_id,
              type |-> Head(ts_queue).type, userdata |-> Head(ts_queue).userdata,
              origin |-> Head(ts_queue).origin]}
    /\ event_fifo_id' = event_fifo_id + 1
    /\ ts_queue' = Tail(ts_queue)
    /\ UNCHANGED <<clockVars, host, cpuVars>>

RemoveNormalAndThreadsafeEvent(type) ==
    /\ phase = "run"
    /\ phase' = "move" /\ removing' = type
    /\ UNCHANGED <<clockVars, queueVars, ts_queue, host, lateness, overrun, last, timers>>

RemoveMoved ==
    /\ phase = "move" /\ removing # NULL /\ ts_queue = <<>>
    /\ event_queue' = {e \in event_queue : e.type # removing}
    /\ phase' = "run" /\ removing' = NULL
    /\ UNCHANGED <<clockVars, event_fifo_id, ts_queue, host, lateness, overrun, last, timers>>

\* The run loop of core.cpp calls Advance, after Idle if there is no current
\* thread, as when it is called first.
Idle ==
    /\ downcount' = 0
    /\ UNCHANGED <<global_timer, slice_length, is_global_timer_sane>>

RunLoop ==
    /\ phase \in {"boot", "run"}
    /\ phase' = "move"
    /\ UNCHANGED clockVars \/ (global_timer + slice_length <= MaxTicks /\ Idle)
    /\ UNCHANGED <<queueVars, ts_queue, host, removing, lateness, overrun, last, timers>>

\* Mutant: MoveEvents moves one event at most.
EndMoveEarly ==
    /\ phase = "move" /\ removing = NULL
    /\ phase' = "moved"
    /\ UNCHANGED <<clockVars, queueVars, ts_queue, host, removing, lateness, overrun, last, timers>>

\* MoveEvents finds the queue empty and returns; what is linked from here on
\* waits for the next Advance.
EndMove ==
    /\ phase = "move" /\ removing = NULL /\ ts_queue = <<>>
    /\ phase' = "moved"
    /\ UNCHANGED <<clockVars, queueVars, ts_queue, host, removing, lateness, overrun, last, timers>>

\* Mutant: the clock goes to the end of the slice, whatever was executed.
AdvanceBySlice ==
    /\ phase = "moved"
    /\ global_timer' = global_timer + slice_length
    /\ overrun' = Max2(0, 0 - downcount)
    /\ slice_length' = MAX_SLICE_LENGTH
    /\ is_global_timer_sane' = TRUE
    /\ phase' = "fire"
    /\ timers' = [one |-> global_timer, two |-> timers.one]
    /\ UNCHANGED <<downcount, queueVars, ts_queue, host, removing, lateness, last>>

\* The slice before the first Advance is an empty one.
AdvanceTimer ==
    /\ phase = "moved"
    /\ global_timer' = global_timer + (slice_length - downcount)
    /\ overrun' = IF is_global_timer_sane THEN slice_length - downcount
                  ELSE Max2(0, 0 - downcount)
    /\ slice_length' = MAX_SLICE_LENGTH
    /\ is_global_timer_sane' = TRUE
    /\ phase' = "fire"
    /\ timers' = [one |-> global_timer, two |-> timers.one]
    /\ UNCHANGED <<downcount, queueVars, ts_queue, host, removing, lateness, last>>

\* Mutant: events of one time in any order.
IsEarliest(e) == e \in event_queue /\ \A f \in event_queue : e.time <= f.time

IsFront(e) ==
    /\ e \in event_queue
    /\ \A f \in event_queue \ {e} : Before(e.time, e.fifo_order, f.time, f.fifo_order)

Fire ==
    /\ phase = "fire"
    /\ \E e \in event_queue :
        /\ IsFront(e) /\ e.time <= global_timer
        /\ event_queue' = event_queue \ {e}
        /\ lateness' = global_timer - e.time
        /\ last' = IF e.origin = "ahead" THEN [time |-> e.time, order |-> e.fifo_order] ELSE last
    /\ phase' = "callback"
    /\ UNCHANGED <<clockVars, event_fifo_id, ts_queue, host, removing, overrun, timers>>

CallbackReturns ==
    /\ phase = "callback"
    /\ phase' = "fire" /\ lateness' = 0
    /\ UNCHANGED <<clockVars, queueVars, ts_queue, host, removing, overrun, last, timers>>

\* The end of Advance: the next slice lasts until the next event.
StartSlice ==
    LET length == IF event_queue = {} THEN slice_length
                  ELSE LET e == CHOOSE e \in event_queue : IsFront(e)
                       IN Min2(e.time - global_timer, MAX_SLICE_LENGTH)
    IN
    /\ phase = "fire"
    /\ \A e \in event_queue : e.time > global_timer
    /\ is_global_timer_sane' = FALSE
    /\ slice_length' = length /\ downcount' = length
    /\ phase' = "run" /\ overrun' = 0
    /\ UNCHANGED <<global_timer, queueVars, ts_queue, host, removing, lateness, last, timers>>

CpuStep ==
    \/ \E n \in Ticks : AddTicks(n)
    \/ \E c \in Delays, type \in Type, userdata \in Userdata :
            ScheduleEvent(c, type, userdata)
    \/ \E type \in Type, userdata \in Userdata : UnscheduleEvent(type, userdata)
    \/ \E type \in Type : RemoveEvent(type)
    \/ \E type \in Type : RemoveNormalAndThreadsafeEvent(type)
    \/ RunLoop \/ MoveEvent \/ RemoveMoved \/ EndMove
    \/ AdvanceTimer \/ Fire \/ CallbackReturns \/ StartSlice

HostStep(h) ==
    \/ \E c \in Cycles, type \in Type, userdata \in Userdata :
            HostCompute(h, c, type, userdata)
    \/ HostPush(h)

Next == CpuStep \/ \E h \in Host : HostStep(h)

Spec == Init /\ [][Next]_vars

-----------------------------------------------------------------------------
\* Types; in particular Advance hands a callback a lateness that is not
\* negative: no event is called back before its time.
TypeOK ==
    /\ global_timer \in Int /\ slice_length \in Int /\ downcount \in Int
    /\ is_global_timer_sane \in BOOLEAN
    /\ event_queue \subseteq Event /\ event_fifo_id \in Nat
    /\ ts_queue \in Seq(HostEvent)
    /\ host \in [Host -> HostState]
    /\ phase \in {"boot", "run", "move", "moved", "fire", "callback"}
    /\ removing \in Type \cup {NULL}
    /\ lateness \in Nat /\ overrun \in Nat
    /\ last \in [time : Int, order : Nat]
    /\ timers \in [one : Int, two : Int]

\* The slice ends no later than the next event: ScheduleEvent shortens the
\* slice that runs, and Advance fits the next one to the first event.
SliceEndsInTime ==
    ~is_global_timer_sane =>
        /\ downcount <= slice_length
        /\ \A e \in event_queue :
                e.origin = "ahead" => e.time >= global_timer + slice_length

\* An event is late by no more than the cycles the CPU executed past the end of
\* the slice, or those Idle skips before the first Advance has made a slice that
\* ends with the next event: none is forgotten in one Advance and found later.
LateOnlyByOverrun ==
    phase = "fire" =>
        \A e \in event_queue : e.origin = "ahead" => e.time >= global_timer - overrun

\* An event another thread schedules waits for the second call of Advance after
\* the clock was read, at the worst: the first may have emptied the queue just
\* before the event was linked into it.
HostEventsTimely ==
    phase = "fire" =>
        \A e \in event_queue : e.origin = "prompt" => e.time >= timers.two

\* Events are called back in the order of their times, and those of one time
\* in the order they were scheduled, across all calls of Advance.
FiresInOrder ==
    [][last' # last => Before(last.time, last.order, last'.time, last'.order)]_vars

\* The clock never goes back, except where Idle finds more cycles executed than
\* the slice has and takes the excess back.
TimeGoesBackOnlyInIdle ==
    [][GetTicks' >= GetTicks \/ (downcount < 0 /\ downcount' = 0)]_vars
=============================================================================
