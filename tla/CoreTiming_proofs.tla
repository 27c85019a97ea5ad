-------------------------- MODULE CoreTiming_proofs --------------------------
(***************************************************************************)
(* What the clock and the event queue guarantee whatever the delays, the   *)
(* blocks the CPU executes, the host threads and the length of a slice.    *)
(***************************************************************************)
EXTENDS CoreTiming, WellFoundedInduction, TLAPS

InAdvance == phase \in {"fire", "callback"}

(* A slice, and the clock between slices.                                  *)
ClockInv ==
    /\ global_timer >= 0 /\ slice_length >= 0
    /\ ~InAdvance => downcount <= slice_length /\ overrun = 0
    /\ phase \in {"boot", "fire", "callback"} => is_global_timer_sane
    /\ phase = "run" \/ removing # NULL => ~is_global_timer_sane
    /\ removing # NULL => phase = "move"
    /\ timers.two <= timers.one /\ timers.one <= global_timer

(* Events are numbered, and those scheduled ahead are not behind the slice. *)
QueueInv ==
    /\ \A e \in event_queue : e.fifo_order < event_fifo_id
    /\ \A e, f \in event_queue : e.fifo_order = f.fifo_order => e = f
    /\ \A e \in event_queue : e.origin = "ahead" =>
           IF is_global_timer_sane THEN e.time >= global_timer - overrun
           ELSE e.time >= global_timer + slice_length

(* Where an event of another thread is, it is at most so late.             *)
HostInv ==
    /\ \A e \in event_queue : e.origin = "prompt" =>
           e.time >= (IF InAdvance THEN timers.two ELSE timers.one)
    /\ \A i \in DOMAIN ts_queue : ts_queue[i].origin # "ahead"
    /\ \A i \in DOMAIN ts_queue : ts_queue[i].origin = "prompt" =>
           ts_queue[i].time >= (IF phase = "moved" THEN global_timer ELSE timers.one)

(* The last event called back comes before all that are still to come.     *)
OrderInv ==
    /\ last.time <= global_timer
    /\ last.time < 0 \/ last.order < event_fifo_id
    /\ \A e \in event_queue : e.origin = "ahead" =>
           Before(last.time, last.order, e.time, e.fifo_order)

IInv == TypeOK /\ ClockInv /\ QueueInv /\ HostInv /\ OrderInv

(* The numbers the type invariant gives, on their own.                     *)
LEMMA Numbers ==
    ASSUME TypeOK
    PROVE  /\ global_timer \in Int /\ slice_length \in Int /\ downcount \in Int
           /\ lateness \in Nat /\ overrun \in Nat /\ event_fifo_id \in Nat
           /\ last.time \in Int /\ last.order \in Nat
           /\ timers.one \in Int /\ timers.two \in Int
           /\ \A e \in event_queue : e.time \in Int /\ e.fifo_order \in Nat
           /\ \A i \in DOMAIN ts_queue : ts_queue[i].time \in Int
<1>1. \A e \in event_queue : e.time \in Int /\ e.fifo_order \in Nat
  BY Zenon DEF TypeOK, Event
<1>2. \A i \in DOMAIN ts_queue : ts_queue[i].time \in Int
  <2>1. ts_queue \in Seq(HostEvent)
    BY Zenon DEF TypeOK
  <2>2. \A i \in DOMAIN ts_queue : ts_queue[i] \in HostEvent
    BY <2>1
  <2> QED
    BY <2>2, Zenon DEF HostEvent
<1> QED
  BY <1>1, <1>2, Zenon DEF TypeOK

(* Of several numbers one is the least.                                    *)
LEMMA Least ==
    ASSUME NEW S, S \subseteq Nat, S # {}
    PROVE  \E x \in S : \A y \in S : x <= y
<1>1. IsWellFoundedOn(OpToRel(<, Nat), Nat)
  BY NatLessThanWellFounded, Zenon
<1>2. PICK x \in S : \A y \in S : ~(<<y, x>> \in OpToRel(<, Nat))
  BY <1>1, WFMin, Zenon
<1>3. ASSUME NEW y \in S PROVE x <= y
  <2>1. y < x => <<y, x>> \in OpToRel(<, Nat)
    BY Zenon DEF OpToRel
  <2>2. ~(y < x)
    BY <1>2, <2>1, Zenon
  <2> QED
    BY <2>2
<1> QED
  BY <1>3, Zenon

(* The front of the heap exists, whatever is in the heap: std::make_heap   *)
(* and std::push_heap keep the least event there.                          *)
LEMMA FrontExists ==
    ASSUME TypeOK, QueueInv, event_queue # {},
           \A e \in event_queue : e.time > global_timer
    PROVE  \E e \in event_queue : IsFront(e)
<1> DEFINE Due == {e.time - global_timer : e \in event_queue}
<1>1. \A e \in event_queue : e.time \in Int /\ e.fifo_order \in Nat
  BY Zenon DEF TypeOK, Event
<1>2. Due \subseteq Nat /\ Due # {}
  BY <1>1 DEF TypeOK
<1>3. PICK d \in Due : \A y \in Due : d <= y
  BY <1>2, Least, Zenon
<1> DEFINE First == {e \in event_queue : e.time - global_timer = d}
           Order == {e.fifo_order : e \in First}
<1>4. Order \subseteq Nat /\ Order # {}
  BY <1>1, <1>3, Zenon
<1>5. PICK o \in Order : \A y \in Order : o <= y
  BY <1>4, Least, Zenon
<1>6. PICK e \in First : e.fifo_order = o
  BY <1>5, Zenon
<1>7. ASSUME NEW f \in event_queue, f # e
      PROVE  Before(e.time, e.fifo_order, f.time, f.fifo_order)
  <2>1. f.time - global_timer \in Due /\ e.time - global_timer = d
    BY <1>6, Zenon
  <2>2. e.time <= f.time
    <3>1. e.time - global_timer <= f.time - global_timer
      BY <1>3, <2>1, Zenon
    <3>2. e.time \in Int /\ f.time \in Int /\ global_timer \in Int
      BY <1>1, <1>6, <1>7, Zenon DEF TypeOK
    <3> QED
      BY <3>1, <3>2
  <2>3. CASE f.time = e.time
    <3>1. f.fifo_order \in Order
      BY <2>1, <2>3, Zenon
    <3>2. e.fifo_order <= f.fifo_order /\ e.fifo_order # f.fifo_order
      BY <1>5, <1>6, <1>7, <3>1, Zenon DEF QueueInv
    <3> QED
      BY <1>1, <2>3, <3>2 DEF Before
  <2> QED
    BY <1>1, <2>2, <2>3 DEF Before
<1> QED
  BY <1>6, <1>7, Zenon DEF IsFront

(* The inductive invariant holds after CoreTiming::Init.                   *)
LEMMA InitIInv == Init => IInv
<1> SUFFICES ASSUME Init PROVE IInv
  BY Zenon
<1> USE TimingAssumption
<1>1. TypeOK
  <2>1. host \in [Host -> HostState]
    BY Zenon DEF Init, HostState
  <2>2. is_global_timer_sane \in BOOLEAN
    BY Zenon DEF Init
  <2>3. timers \in [one : Int, two : Int] /\ last \in [time : Int, order : Nat]
    BY DEF Init
  <2> QED
    BY <2>1, <2>2, <2>3 DEF Init, TypeOK
<1>2. ClockInv
  BY DEF Init, ClockInv, InAdvance
<1> QED
  BY <1>1, <1>2 DEF Init, IInv, QueueInv, HostInv, OrderInv

(* Executed cycles, and a slice cut short for an event that comes sooner,  *)
(* keep the clock's end of the slice in front of the events.               *)
LEMMA AddTicksKept ==
    ASSUME IInv, NEW n \in Ticks, AddTicks(n)
    PROVE  IInv'
<1> USE TimingAssumption DEF IInv, AddTicks, queueVars, cpuVars
<1>1. TypeOK'
  BY DEF TypeOK
<1>2. ClockInv'
  BY DEF TypeOK, ClockInv, InAdvance
<1>3. QueueInv' /\ HostInv' /\ OrderInv'
  BY Zenon DEF QueueInv, HostInv, OrderInv, InAdvance
<1> QED
  BY <1>1, <1>2, <1>3, Zenon

(* ScheduleEvent keeps it: no other event has the new event's fifo order.  *)
LEMMA ScheduleEventKept ==
    ASSUME IInv, NEW c \in Delays, NEW type \in Type, NEW userdata \in Userdata,
           ScheduleEvent(c, type, userdata)
    PROVE  IInv'
<1> USE TimingAssumption DEF IInv
<1>1. c \in Int
  <2>1. c \in Cycles \/ \E d \in Cycles : c = d - lateness
    BY Zenon DEF Delays
  <2>2. lateness \in Nat /\ Cycles \subseteq Nat
    BY Numbers, Zenon
  <2>3. CASE c \in Cycles
    BY <2>2, <2>3
  <2>4. ASSUME NEW d \in Cycles, c = d - lateness
        PROVE  c \in Int
    BY <2>2, <2>4
  <2> QED
    BY <2>1, <2>3, <2>4, Zenon
<1>2. PICK e : e = [time |-> GetTicks + c, fifo_order |-> event_fifo_id, type |-> type,
                    userdata |-> userdata, origin |-> IF c >= 0 THEN "ahead" ELSE "past"]
  BY Zenon
<1>3. /\ e \in Event /\ e.time = GetTicks + c /\ e.fifo_order = event_fifo_id
      /\ e.origin = "ahead" => c >= 0
      /\ e.origin # "prompt"
  BY <1>1, <1>2 DEF TypeOK, Event, Origin, GetTicks
<1>4. /\ event_queue' = event_queue \cup {e} /\ event_fifo_id' = event_fifo_id + 1
      /\ UNCHANGED <<global_timer, is_global_timer_sane, ts_queue, host, phase, removing,
                     lateness, overrun, last, timers>>
      /\ phase \in {"boot", "run", "callback"}
  BY <1>2, Zenon DEF ScheduleEvent, cpuVars
<1>5. /\ slice_length' \in Int /\ downcount' \in Int
      /\ slice_length' - downcount' = slice_length - downcount
      /\ slice_length' <= slice_length
      /\ is_global_timer_sane => slice_length' = slice_length /\ downcount' = downcount
      /\ slice_length >= 0 /\ (~is_global_timer_sane => downcount <= slice_length) =>
             slice_length' >= 0
      /\ ~is_global_timer_sane /\ c >= 0 => slice_length' <= slice_length - downcount + c
  BY <1>1, Numbers DEF ScheduleEvent, ForceExceptionCheck, Max2
<1>6. TypeOK'
  BY <1>3, <1>4, <1>5 DEF TypeOK
<1>7. ClockInv'
  <2>1. ~is_global_timer_sane => downcount <= slice_length
    BY <1>4, Zenon DEF ClockInv, InAdvance
  <2>2. slice_length' >= 0
    BY <1>5, <2>1, Zenon DEF ClockInv
  <2>3. downcount <= slice_length => downcount' <= slice_length'
    BY <1>5, Numbers
  <2> QED
    BY <1>4, <2>2, <2>3, Zenon DEF ClockInv, InAdvance
<1>8. /\ e.time \in Int /\ (e.origin = "ahead" => e.time >= global_timer)
      /\ ~is_global_timer_sane /\ e.origin = "ahead" => e.time >= global_timer + slice_length'
  <2>1. ~is_global_timer_sane => downcount <= slice_length
    BY <1>4, Zenon DEF ClockInv, InAdvance
  <2>2. CASE is_global_timer_sane
    BY <1>1, <1>3, <2>2, Numbers DEF GetTicks
  <2>3. CASE ~is_global_timer_sane
    <3>1. e.time = global_timer + (slice_length - downcount) + c
      BY <1>1, <1>3, <2>3, Numbers, Zenon DEF GetTicks
    <3> QED
      BY <1>1, <1>3, <1>5, <2>1, <2>3, <3>1, Numbers
  <2> QED
    BY <2>2, <2>3, Zenon
<1>9. QueueInv'
  <2>1. \A f \in event_queue : f.time \in Int /\ f.fifo_order \in Nat
    BY Numbers, Zenon
  <2>2. /\ \A f \in event_queue : f.fifo_order < event_fifo_id
        /\ event_fifo_id \in Nat /\ event_fifo_id' = event_fifo_id + 1
    BY <1>4, Numbers, Zenon DEF QueueInv
  <2>3. \A f, g \in event_queue' : f.fifo_order = g.fifo_order => f = g
    BY <1>3, <1>4, <2>1, <2>2 DEF QueueInv
  <2>4. \A f \in event_queue' : f.fifo_order < event_fifo_id'
    BY <1>3, <1>4, <2>1, <2>2
  <2>5. ASSUME NEW f \in event_queue', f.origin = "ahead"
        PROVE  IF is_global_timer_sane' THEN f.time >= global_timer' - overrun'
               ELSE f.time >= global_timer' + slice_length'
    <3>1. CASE f = e
      BY <1>4, <1>8, <2>5, <3>1, Numbers
    <3>2. CASE f \in event_queue
      BY <1>4, <1>5, <2>5, <3>2, Numbers DEF QueueInv
    <3> QED
      BY <1>4, <3>1, <3>2, Zenon
  <2> QED
    BY <2>3, <2>4, <2>5, Zenon DEF QueueInv
<1>10. HostInv'
  BY <1>3, <1>4, Zenon DEF HostInv, InAdvance
<1>11. OrderInv'
  BY <1>3, <1>4, <1>8, Numbers DEF OrderInv, Before, ClockInv
<1> QED
  BY <1>6, <1>7, <1>9, <1>10, <1>11, Zenon

(* UnscheduleEvent, RemoveEvent and the end of RemoveNormalAndThreadsafeEvent *)
(* take events out and change nothing else of the queue or the clock.      *)
LEMMA RemovalKept ==
    ASSUME IInv, event_queue' \subseteq event_queue,
           UNCHANGED <<clockVars, event_fifo_id, ts_queue, host, lateness, overrun, last, timers>>,
           \/ UNCHANGED <<phase, removing>>
           \/ phase = "move" /\ removing # NULL /\ phase' = "run" /\ removing' = NULL
    PROVE  IInv'
<1> USE DEF IInv, clockVars
<1>1. TypeOK'
  BY Zenon DEF TypeOK
<1>2. ClockInv'
  BY Zenon DEF ClockInv, InAdvance
<1>3. QueueInv' /\ OrderInv'
  BY Zenon DEF QueueInv, OrderInv
<1>4. HostInv'
  BY Zenon DEF HostInv, InAdvance
<1> QED
  BY <1>1, <1>2, <1>3, <1>4, Zenon

(* What another host thread does: the clock it has read is that of one     *)
(* Advance ago at the worst, or its event is a stalled one.                *)
LEMMA HostStepKept ==
    ASSUME IInv, NEW h \in Host, HostStep(h)
    PROVE  IInv'
<1> USE TimingAssumption DEF IInv
<1>1. ASSUME NEW c \in Cycles, NEW type \in Type, NEW userdata \in Userdata,
             HostCompute(h, c, type, userdata)
      PROVE  IInv'
  <2>1. /\ UNCHANGED <<global_timer, slice_length, downcount, is_global_timer_sane>>
        /\ UNCHANGED <<event_queue, event_fifo_id, ts_queue>>
        /\ UNCHANGED <<phase, removing, lateness, overrun, last, timers>>
    BY <1>1, Zenon DEF HostCompute, clockVars, queueVars, cpuVars
  <2>2. host' \in [Host -> HostState]
    BY <1>1, Zenon DEF HostCompute, TypeOK, HostState
  <2>3. TypeOK'
    BY <2>1, <2>2, Zenon DEF TypeOK
  <2> QED
    BY <2>1, <2>3, Zenon DEF ClockInv, QueueInv, HostInv, OrderInv, InAdvance
<1>2. CASE HostPush(h)
  <2>1. /\ UNCHANGED <<global_timer, slice_length, downcount, is_global_timer_sane>>
        /\ UNCHANGED <<event_queue, event_fifo_id>>
        /\ UNCHANGED <<phase, removing, lateness, overrun, last, timers>>
        /\ host[h].at = "computed"
    BY <1>2, Zenon DEF HostPush, clockVars, queueVars, cpuVars
  <2>2. /\ host[h].read \in Int /\ host[h].cycles \in Nat
        /\ host[h].type \in Type /\ host[h].userdata \in Userdata
    BY <2>1, Zenon DEF TypeOK, HostState
  <2>3. PICK e : e = [time |-> host[h].read + host[h].cycles, type |-> host[h].type,
                      userdata |-> host[h].userdata,
                      origin |-> IF host[h].read = global_timer THEN "prompt" ELSE "stalled"]
    BY Zenon
  <2>4. /\ e \in HostEvent /\ e.time \in Int /\ e.origin # "ahead"
        /\ e.origin = "prompt" => e.time >= global_timer
    BY <2>2, <2>3, Numbers DEF HostEvent, Origin
  <2>5. ts_queue' = Append(ts_queue, e) /\ ts_queue \in Seq(HostEvent)
    BY <1>2, <2>3, Zenon DEF HostPush, TypeOK
  <2>6. /\ ts_queue' \in Seq(HostEvent)
        /\ \A i \in DOMAIN ts_queue' : ts_queue'[i] = e \/
              (i \in DOMAIN ts_queue /\ ts_queue'[i] = ts_queue[i])
    BY <2>4, <2>5
  <2>7. host' \in [Host -> HostState]
    BY <1>2, Zenon DEF HostPush, TypeOK, HostState
  <2>8. TypeOK'
    BY <2>1, <2>6, <2>7, Zenon DEF TypeOK
  <2>9. timers.one <= global_timer
    BY Zenon DEF ClockInv
  <2>10. HostInv'
    <3>1. ASSUME NEW i \in DOMAIN ts_queue'
          PROVE  /\ ts_queue'[i].origin # "ahead"
                 /\ ts_queue'[i].origin = "prompt" =>
                       ts_queue'[i].time >= (IF phase' = "moved" THEN global_timer' ELSE timers'.one)
      <4>1. CASE ts_queue'[i] = e
        BY <2>1, <2>4, <2>9, <4>1, Numbers
      <4>2. CASE i \in DOMAIN ts_queue /\ ts_queue'[i] = ts_queue[i]
        BY <2>1, <4>2, Zenon DEF HostInv
      <4> QED
        BY <2>6, <4>1, <4>2, Zenon
    <3> QED
      BY <2>1, <3>1, Zenon DEF HostInv, InAdvance
  <2> QED
    BY <2>1, <2>8, <2>10, Zenon DEF ClockInv, QueueInv, OrderInv, InAdvance
<1> QED
  BY <1>1, <1>2, Zenon DEF HostStep

(* A round of MoveEvents numbers the event as if it were scheduled now.    *)
LEMMA MoveEventKept ==
    ASSUME IInv, MoveEvent
    PROVE  IInv'
<1> USE DEF IInv
<1>1. /\ UNCHANGED <<global_timer, slice_length, downcount, is_global_timer_sane, host>>
      /\ UNCHANGED <<phase, removing, lateness, overrun, last, timers>>
      /\ phase = "move" /\ event_fifo_id' = event_fifo_id + 1
      /\ ts_queue # <<>> /\ ts_queue' = Tail(ts_queue)
  BY Zenon DEF MoveEvent, clockVars, cpuVars
<1>2. ts_queue \in Seq(HostEvent)
  BY Zenon DEF TypeOK
<1>3. /\ 1 \in DOMAIN ts_queue /\ Head(ts_queue) = ts_queue[1]
      /\ ts_queue[1] \in HostEvent /\ ts_queue' \in Seq(HostEvent)
      /\ \A i \in DOMAIN ts_queue' : i + 1 \in DOMAIN ts_queue /\ ts_queue'[i] = ts_queue[i + 1]
  BY <1>1, <1>2
<1>4. PICK e : e = [time |-> Head(ts_queue).time, fifo_order |-> event_fifo_id,
                    type |-> Head(ts_queue).type, userdata |-> Head(ts_queue).userdata,
                    origin |-> Head(ts_queue).origin]
  BY Zenon
<1>5. event_queue' = event_queue \cup {e}
  BY <1>4, Zenon DEF MoveEvent
<1>6. /\ e \in Event /\ e.fifo_order = event_fifo_id
      /\ e.time = ts_queue[1].time /\ e.origin = ts_queue[1].origin
  BY <1>3, <1>4, Numbers, Zenon DEF Event, HostEvent
<1>7. e.origin # "ahead" /\ (e.origin = "prompt" => e.time >= timers.one)
  BY <1>1, <1>3, <1>6, Zenon DEF HostInv
<1>8. TypeOK'
  BY <1>1, <1>3, <1>5, <1>6 DEF TypeOK
<1>9. QueueInv'
  <2>1. /\ \A f \in event_queue : f.fifo_order < event_fifo_id /\ f.fifo_order \in Nat
        /\ event_fifo_id \in Nat
    BY Numbers, Zenon DEF QueueInv
  <2>2. \A f \in event_queue' : f.fifo_order < event_fifo_id'
    BY <1>1, <1>5, <1>6, <2>1
  <2>3. \A f, g \in event_queue' : f.fifo_order = g.fifo_order => f = g
    BY <1>5, <1>6, <2>1 DEF QueueInv
  <2> QED
    BY <1>1, <1>5, <1>7, <2>2, <2>3, Zenon DEF QueueInv
<1>10. HostInv'
  <2>1. \A i \in DOMAIN ts_queue' : ts_queue'[i].origin # "ahead" /\
           (ts_queue'[i].origin = "prompt" => ts_queue'[i].time >= timers.one)
    BY <1>1, <1>3, Zenon DEF HostInv
  <2>2. \A f \in event_queue' : f.origin = "prompt" => f.time >= timers.one
    BY <1>1, <1>5, <1>7, Zenon DEF HostInv, InAdvance
  <2> QED
    BY <1>1, <2>1, <2>2, Zenon DEF HostInv, InAdvance
<1>11. OrderInv'
  BY <1>1, <1>5, <1>7, Numbers DEF OrderInv
<1> QED
  BY <1>1, <1>8, <1>9, <1>10, <1>11, Zenon DEF ClockInv, InAdvance

(* The run loop up to the point where the clock is set.                    *)
LEMMA RunLoopKept ==
    ASSUME IInv,
           RunLoop \/ EndMove \/ \E type \in Type : RemoveNormalAndThreadsafeEvent(type)
    PROVE  IInv'
<1> USE TimingAssumption DEF IInv
<1>1. CASE RunLoop
  <2>1. /\ UNCHANGED <<global_timer, slice_length, is_global_timer_sane, event_queue>>
        /\ UNCHANGED <<event_fifo_id, ts_queue, host, removing, lateness, overrun, last, timers>>
        /\ phase \in {"boot", "run"} /\ phase' = "move"
        /\ downcount' = downcount \/ downcount' = 0
    BY <1>1, Zenon DEF RunLoop, Idle, clockVars, queueVars
  <2>2. TypeOK'
    BY <2>1 DEF TypeOK
  <2>3. ClockInv'
    BY <2>1, Numbers, Zenon DEF ClockInv, InAdvance
  <2> QED
    BY <2>1, <2>2, <2>3, Zenon DEF QueueInv, HostInv, OrderInv, InAdvance
<1>2. CASE EndMove
  <2>1. /\ UNCHANGED <<global_timer, slice_length, downcount, is_global_timer_sane, event_queue>>
        /\ UNCHANGED <<event_fifo_id, ts_queue, host, removing, lateness, overrun, last, timers>>
        /\ phase = "move" /\ phase' = "moved" /\ ts_queue = <<>> /\ removing = NULL
    BY <1>2, Zenon DEF EndMove, clockVars, queueVars
  <2>2. TypeOK'
    BY <2>1, Zenon DEF TypeOK
  <2>3. ClockInv' /\ QueueInv' /\ OrderInv'
    BY <2>1, Zenon DEF ClockInv, QueueInv, OrderInv, InAdvance
  <2> QED
    BY <2>1, <2>2, <2>3 DEF HostInv, InAdvance
<1>3. ASSUME NEW type \in Type, RemoveNormalAndThreadsafeEvent(type)
      PROVE  IInv'
  <2>1. /\ UNCHANGED <<global_timer, slice_length, downcount, is_global_timer_sane, event_queue>>
        /\ UNCHANGED <<event_fifo_id, ts_queue, host, lateness, overrun, last, timers>>
        /\ phase = "run" /\ phase' = "move" /\ removing' = type
    BY <1>3, Zenon DEF RemoveNormalAndThreadsafeEvent, clockVars, queueVars
  <2>2. TypeOK'
    BY <2>1, Zenon DEF TypeOK
  <2>3. ClockInv'
    BY <2>1, Zenon DEF ClockInv, InAdvance
  <2> QED
    BY <2>1, <2>2, <2>3, Zenon DEF QueueInv, HostInv, OrderInv, InAdvance
<1> QED
  BY <1>1, <1>2, <1>3, Zenon

(* Setting the clock: what the slice could not wait for becomes overrun.   *)
LEMMA AdvanceTimerKept ==
    ASSUME IInv, AdvanceTimer
    PROVE  IInv'
<1> USE TimingAssumption DEF IInv
<1>1. /\ UNCHANGED <<downcount, event_queue, event_fifo_id, ts_queue, host, removing>>
      /\ UNCHANGED <<lateness, last>>
      /\ phase = "moved" /\ phase' = "fire"
      /\ is_global_timer_sane' = TRUE /\ slice_length' = MAX_SLICE_LENGTH
      /\ global_timer' = global_timer + (slice_length - downcount)
      /\ timers' = [one |-> global_timer, two |-> timers.one]
      /\ overrun' = IF is_global_timer_sane THEN slice_length - downcount
                    ELSE Max2(0, 0 - downcount)
  BY Zenon DEF AdvanceTimer, queueVars
<1>2. downcount <= slice_length /\ overrun = 0
  BY <1>1, Zenon DEF ClockInv, InAdvance
<1>3. /\ timers'.one = global_timer /\ timers'.two = timers.one
      /\ global_timer' \in Int /\ global_timer' >= global_timer
      /\ overrun' \in Nat
  BY <1>1, <1>2, Numbers DEF Max2
<1>4. removing = NULL
  BY <1>1, Zenon DEF ClockInv
<1>5. TypeOK'
  <2>1. timers' \in [one : Int, two : Int]
    BY <1>1, Numbers, Zenon
  <2> QED
    BY <1>1, <1>3, <2>1 DEF TypeOK
<1>6. ClockInv'
  BY <1>1, <1>3, <1>4, Numbers DEF ClockInv, InAdvance
<1>7. QueueInv'
  <2>1. ASSUME NEW e \in event_queue, e.origin = "ahead"
        PROVE  e.time >= global_timer' - overrun'
    <3>1. CASE is_global_timer_sane
      BY <1>1, <1>2, <2>1, <3>1, Numbers DEF QueueInv
    <3>2. CASE ~is_global_timer_sane
      BY <1>1, <1>2, <2>1, <3>2, Numbers DEF QueueInv, Max2
    <3> QED
      BY <3>1, <3>2, Zenon
  <2> QED
    BY <1>1, <2>1, Zenon DEF QueueInv
<1>8. HostInv'
  BY <1>1, <1>3, Zenon DEF HostInv, InAdvance
<1>9. OrderInv'
  BY <1>1, <1>3, Numbers DEF OrderInv
<1> QED
  BY <1>5, <1>6, <1>7, <1>8, <1>9, Zenon

(* The event called back is before every event still in the queue.         *)
LEMMA FireKept ==
    ASSUME IInv, Fire
    PROVE  /\ IInv'
           /\ last' # last => Before(last.time, last.order, last'.time, last'.order)
<1> USE DEF IInv
<1>1. PICK e \in event_queue :
        /\ IsFront(e) /\ e.time <= global_timer
        /\ event_queue' = event_queue \ {e}
        /\ lateness' = global_timer - e.time
        /\ last' = IF e.origin = "ahead" THEN [time |-> e.time, order |-> e.fifo_order] ELSE last
  BY Zenon DEF Fire
<1>2. /\ UNCHANGED <<global_timer, slice_length, downcount, is_global_timer_sane>>
      /\ UNCHANGED <<event_fifo_id, ts_queue, host, removing, overrun, timers>>
      /\ phase = "fire" /\ phase' = "callback"
  BY Zenon DEF Fire, clockVars
<1>3. e.time \in Int /\ e.fifo_order \in Nat /\ e.fifo_order < event_fifo_id
  BY Numbers, Zenon DEF QueueInv
<1>4. TypeOK'
  <2>1. lateness' \in Nat
    BY <1>1, <1>3, Numbers
  <2>2. last' \in [time : Int, order : Nat]
    BY <1>1, <1>3, Zenon DEF TypeOK
  <2> QED
    BY <1>1, <1>2, <2>1, <2>2, Zenon DEF TypeOK
<1>5. ClockInv' /\ QueueInv' /\ HostInv'
  BY <1>1, <1>2, Zenon DEF ClockInv, QueueInv, HostInv, InAdvance
<1>6. CASE e.origin = "ahead"
  <2>1. last'.time = e.time /\ last'.order = e.fifo_order
    BY <1>1, <1>6, Zenon
  <2>2. \A f \in event_queue' : Before(e.time, e.fifo_order, f.time, f.fifo_order)
    BY <1>1, Zenon DEF IsFront
  <2>3. OrderInv'
    BY <1>1, <1>2, <1>3, <2>1, <2>2, Zenon DEF OrderInv
  <2> QED
    BY <1>4, <1>5, <1>6, <2>1, <2>3, Zenon DEF OrderInv
<1>7. CASE e.origin # "ahead"
  <2>1. last' = last
    BY <1>1, <1>7, Zenon
  <2> QED
    BY <1>1, <1>2, <1>4, <1>5, <2>1, Zenon DEF OrderInv
<1> QED
  BY <1>6, <1>7, Zenon

(* The end of Advance: no event is due, and the next slice is fitted to    *)
(* the first one.                                                          *)
LEMMA StartSliceKept ==
    ASSUME IInv, StartSlice
    PROVE  IInv' /\ slice_length' = downcount'
<1> USE TimingAssumption DEF IInv
<1>1. /\ UNCHANGED <<global_timer, event_queue, event_fifo_id, ts_queue, host>>
      /\ UNCHANGED <<removing, lateness, last, timers>>
      /\ phase = "fire" /\ phase' = "run" /\ overrun' = 0
      /\ is_global_timer_sane' = FALSE /\ slice_length' = downcount'
      /\ \A e \in event_queue : e.time > global_timer
  BY DEF StartSlice, queueVars
<1>2. /\ slice_length' \in Int /\ slice_length' >= 0
      /\ \A e \in event_queue : e.time >= global_timer + slice_length'
  <2>1. CASE event_queue = {}
    BY <2>1, Numbers, Zenon DEF StartSlice, ClockInv
  <2>2. CASE event_queue # {}
    <3>1. PICK e : e = CHOOSE f \in event_queue : IsFront(f)
      BY Zenon
    <3>2. e \in event_queue /\ IsFront(e)
      BY <1>1, <2>2, <3>1, FrontExists, Zenon
    <3>3. slice_length' = Min2(e.time - global_timer, MAX_SLICE_LENGTH)
      BY <2>2, <3>1, Zenon DEF StartSlice
    <3>4. e.time \in Int /\ e.time > global_timer
      BY <1>1, <3>2, Numbers, Zenon
    <3>5. \A f \in event_queue : f.time >= e.time
      BY <3>2, Numbers DEF IsFront, Before
    <3>6. /\ slice_length' \in Int /\ slice_length' >= 0
          /\ slice_length' <= e.time - global_timer
      BY <3>3, <3>4, Numbers DEF Min2
    <3> QED
      BY <3>4, <3>5, <3>6, Numbers
  <2> QED
    BY <2>1, <2>2, Zenon
<1>3. TypeOK'
  BY <1>1, <1>2, Zenon DEF TypeOK
<1>4. removing = NULL
  BY <1>1, Zenon DEF ClockInv
<1>5. ClockInv'
  BY <1>1, <1>2, <1>4 DEF ClockInv, InAdvance
<1>6. QueueInv'
  BY <1>1, <1>2, Zenon DEF QueueInv
<1>7. HostInv'
  <2>1. \A e \in event_queue : e.time >= timers.one
    BY <1>1, Numbers DEF ClockInv
  <2> QED
    BY <1>1, <2>1, Zenon DEF HostInv, InAdvance
<1>8. OrderInv'
  BY <1>1, Zenon DEF OrderInv
<1> QED
  BY <1>1, <1>3, <1>5, <1>6, <1>7, <1>8, Zenon

(* Every step keeps the invariant, calls events back in order, and moves   *)
(* the clock back only as Idle does.                                       *)
LEMMA NextIInv ==
    ASSUME IInv, [Next]_vars
    PROVE  /\ IInv'
           /\ last' # last => Before(last.time, last.order, last'.time, last'.order)
<1> USE DEF cpuVars
<1>1. ASSUME NEW n \in Ticks, AddTicks(n)
      PROVE  IInv' /\ last' = last
  BY <1>1, AddTicksKept, Zenon DEF AddTicks
<1>2. ASSUME NEW c \in Delays, NEW type \in Type, NEW userdata \in Userdata,
             ScheduleEvent(c, type, userdata)
      PROVE  IInv' /\ last' = last
  BY <1>2, ScheduleEventKept, Zenon DEF ScheduleEvent
<1>3. ASSUME NEW type \in Type, NEW userdata \in Userdata, UnscheduleEvent(type, userdata)
      PROVE  IInv' /\ last' = last
  BY <1>3, RemovalKept, Zenon DEF UnscheduleEvent
<1>4. ASSUME NEW type \in Type, RemoveEvent(type)
      PROVE  IInv' /\ last' = last
  BY <1>4, RemovalKept, Zenon DEF RemoveEvent
<1>5. CASE RemoveMoved
  BY <1>5, RemovalKept, Zenon DEF RemoveMoved
<1>6. ASSUME RunLoop \/ EndMove \/ \E type \in Type : RemoveNormalAndThreadsafeEvent(type)
      PROVE  IInv' /\ last' = last
  BY <1>6, RunLoopKept, Zenon DEF RunLoop, EndMove, RemoveNormalAndThreadsafeEvent
<1>7. CASE MoveEvent
  BY <1>7, MoveEventKept, Zenon DEF MoveEvent
<1>8. CASE AdvanceTimer
  BY <1>8, AdvanceTimerKept, Zenon DEF AdvanceTimer
<1>9. CASE Fire
  BY <1>9, FireKept, Zenon
<1>10. CASE CallbackReturns
  <2>1. /\ UNCHANGED <<global_timer, slice_length, downcount, is_global_timer_sane, event_queue>>
        /\ UNCHANGED <<event_fifo_id, ts_queue, host, removing, overrun, last, timers>>
        /\ phase = "callback" /\ phase' = "fire" /\ lateness' = 0
    BY <1>10, Zenon DEF CallbackReturns, clockVars, queueVars
  <2>2. TypeOK'
    BY <2>1, Zenon DEF TypeOK, IInv
  <2> QED
    BY <2>1, <2>2, Zenon DEF IInv, ClockInv, QueueInv, HostInv, OrderInv, InAdvance
<1>11. CASE StartSlice
  BY <1>11, StartSliceKept, Zenon DEF StartSlice
<1>12. ASSUME NEW h \in Host, HostStep(h)
       PROVE  IInv' /\ last' = last
  BY <1>12, HostStepKept, Zenon DEF HostStep, HostCompute, HostPush
<1>13. CASE UNCHANGED vars
  BY <1>13, Zenon DEF vars, clockVars, queueVars, IInv, TypeOK, ClockInv, QueueInv, HostInv,
               OrderInv, InAdvance
<1>14. CASE CpuStep
  BY <1>1, <1>2, <1>3, <1>4, <1>5, <1>6, <1>7, <1>8, <1>9, <1>10, <1>11, <1>14, Zenon
     DEF CpuStep
<1> QED
  BY <1>12, <1>13, <1>14, Zenon DEF Next

(* The clock, step by step.  Cutting a slice short leaves the executed     *)
(* cycles alone, and Advance adds exactly those to the clock.              *)
LEMMA ClockStep ==
    ASSUME IInv, [Next]_vars
    PROVE  GetTicks' >= GetTicks \/ (downcount < 0 /\ downcount' = 0)
<1> USE TimingAssumption DEF IInv
<1>0. GetTicks \in Int
  BY Numbers DEF GetTicks
<1>1. ASSUME NEW n \in Ticks, AddTicks(n)
      PROVE  GetTicks' >= GetTicks
  <2>1. n \in Nat
    BY Zenon
  <2> QED
    BY <1>1, <2>1, Numbers DEF AddTicks, GetTicks
<1>2. ASSUME NEW c \in Delays, NEW type \in Type, NEW userdata \in Userdata,
             ScheduleEvent(c, type, userdata)
      PROVE  GetTicks' = GetTicks
  <2>1. c \in Int
    <3>1. c \in Cycles \/ \E d \in Cycles : c = d - lateness
      BY Zenon DEF Delays
    <3>2. lateness \in Nat /\ Cycles \subseteq Nat
      BY Numbers, Zenon
    <3>3. CASE c \in Cycles
      BY <3>2, <3>3
    <3>4. ASSUME NEW d \in Cycles, c = d - lateness
          PROVE  c \in Int
      BY <3>2, <3>4
    <3> QED
      BY <3>1, <3>3, <3>4, Zenon
  <2> QED
    BY <1>2, <2>1, Numbers DEF ScheduleEvent, ForceExceptionCheck, Max2, GetTicks
<1>3. CASE RunLoop
  BY <1>3, Numbers DEF RunLoop, Idle, clockVars, GetTicks
<1>4. CASE AdvanceTimer
  <2>1. downcount <= slice_length
    BY <1>4, Zenon DEF AdvanceTimer, ClockInv, InAdvance
  <2> QED
    BY <1>4, <2>1, Numbers DEF AdvanceTimer, GetTicks
<1>5. CASE StartSlice
  <2>1. /\ is_global_timer_sane /\ ~is_global_timer_sane' /\ global_timer' = global_timer
        /\ slice_length' = downcount' /\ slice_length' \in Int
    BY <1>5, StartSliceKept, Numbers, Zenon DEF StartSlice, ClockInv, TypeOK
  <2> QED
    BY <2>1, Numbers DEF GetTicks
<1>6. ASSUME UNCHANGED clockVars
      PROVE  GetTicks' = GetTicks
  BY <1>6, Zenon DEF clockVars, GetTicks
<1>7. CASE UNCHANGED vars
  BY <1>0, <1>6, <1>7 DEF vars
<1>8. CASE CpuStep
  <2>1. ASSUME \/ \E type \in Type, userdata \in Userdata : UnscheduleEvent(type, userdata)
               \/ \E type \in Type : RemoveEvent(type)
               \/ \E type \in Type : RemoveNormalAndThreadsafeEvent(type)
               \/ MoveEvent \/ RemoveMoved \/ EndMove \/ Fire \/ CallbackReturns
        PROVE  UNCHANGED clockVars
    BY <2>1, Zenon DEF UnscheduleEvent, RemoveEvent, RemoveNormalAndThreadsafeEvent,
              MoveEvent, RemoveMoved, EndMove, Fire, CallbackReturns
  <2> QED
    BY <1>0, <1>1, <1>2, <1>3, <1>4, <1>5, <1>6, <1>8, <2>1 DEF CpuStep
<1>9. ASSUME NEW h \in Host, HostStep(h)
      PROVE  UNCHANGED clockVars
  BY <1>9, Zenon DEF HostStep, HostCompute, HostPush
<1> QED
  BY <1>0, <1>6, <1>7, <1>8, <1>9 DEF Next

(* The properties below need one another, and what the events that    *)
(* are not yet due, or not yet moved into the queue, are known to be.      *)
THEOREM Invariance == Spec => []IInv
<1>1. IInv /\ [Next]_vars => IInv'
  BY NextIInv, Zenon
<1> QED
  BY <1>1, InitIInv, PTL DEF Spec

(* Every field keeps its type: lateness is a natural number, so that       *)
(* Advance never calls an event back before its time.                      *)
THEOREM TypeCorrect == Spec => []TypeOK
<1>1. IInv => TypeOK
  BY Zenon DEF IInv
<1> QED
  BY <1>1, Invariance, PTL

(* However slices are cut short by ScheduleEvent, overrun by the CPU or    *)
(* skipped by Idle, the slice that runs ends with the next event.          *)
THEOREM SlicesEndInTime == Spec => []SliceEndsInTime
<1>1. IInv => SliceEndsInTime
  BY Zenon DEF IInv, SliceEndsInTime, QueueInv, ClockInv, InAdvance
<1> QED
  BY <1>1, Invariance, PTL

(* An event is late by the overrun of one slice at most.                   *)
THEOREM LatenessBounded == Spec => []LateOnlyByOverrun
<1>1. IInv => LateOnlyByOverrun
  BY Zenon DEF IInv, LateOnlyByOverrun, QueueInv, ClockInv
<1> QED
  BY <1>1, Invariance, PTL

(* An event of another host thread waits for the second Advance at most.   *)
THEOREM HostEventsInTime == Spec => []HostEventsTimely
<1>1. IInv => HostEventsTimely
  BY Zenon DEF IInv, HostEventsTimely, HostInv, InAdvance
<1> QED
  BY <1>1, Invariance, PTL

(* Events are called back in the order of their times and of their         *)
(* scheduling, across all calls of Advance.                                *)
THEOREM CallbacksInOrder == Spec => FiresInOrder
<1>1. IInv /\ [Next]_vars =>
        [last' # last => Before(last.time, last.order, last'.time, last'.order)]_vars
  BY NextIInv, Zenon
<1> QED
  BY <1>1, Invariance, PTL DEF Spec, FiresInOrder

(* The clock goes back only where Idle takes back the cycles executed past *)
(* the end of the slice.                                                   *)
THEOREM ClockMonotonic == Spec => TimeGoesBackOnlyInIdle
<1>1. IInv /\ [Next]_vars => [GetTicks' >= GetTicks \/ (downcount < 0 /\ downcount' = 0)]_vars
  BY ClockStep, Zenon
<1> QED
  BY <1>1, Invariance, PTL DEF Spec, TimeGoesBackOnlyInIdle
=============================================================================
