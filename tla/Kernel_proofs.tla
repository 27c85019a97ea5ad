---------------------------- MODULE Kernel_proofs ---------------------------
(***************************************************************************)
(* The theorems about Kernel, and the invariant its assertions need.       *)
(***************************************************************************)
EXTENDS Invariance_proofs, KernelWakeups_proofs, WellFoundedInduction

(* The leaves are for Zenon where they name no other prover.               *)
USE ZenonT(40)

(* The least element of a set of natural numbers, such as the best of      *)
(* several priorities.                                                     *)
LEMMA MinOfNats ==
    ASSUME NEW S, S \subseteq Nat, S # {}
    PROVE  Min(S) \in S /\ \A y \in S : Min(S) <= y
<1>1. IsWellFoundedOn(OpToRel(<, Nat), Nat)
  BY NatLessThanWellFounded
<1>2. PICK x \in S : \A y \in S : ~(<<y, x>> \in OpToRel(<, Nat))
  BY <1>1, WFMin
<1>3. \A y \in S : x <= y
  <2> SUFFICES ASSUME NEW y \in S, y < x PROVE FALSE
    BY SMTT(30)
  <2>1. <<y, x>> \in {ss \in Nat \X Nat : ss[1] < ss[2]}
    OBVIOUS
  <2>2. OpToRel(<, Nat) = {ss \in Nat \X Nat : ss[1] < ss[2]}
    BY DEF OpToRel
  <2> QED
    BY <1>2, <2>1, <2>2
<1> QED
  BY <1>3 DEF Min

(* The priorities are natural numbers, so the best of several is one of    *)
(* them.                                                                   *)
LEMMA LeastExists == LeastPriority
<1>1. Priority \subseteq Nat
  BY ThreadsAssumption, SMTT(30) DEF Priority
<1> QED
  BY <1>1, MinOfNats DEF LeastPriority
-----------------------------------------------------------------------------
(* The assertions.  When no system call waits for an object twice, nothing *)
(* is waited for twice, and what a loop is about to acquire is free.       *)
FreeInv ==
    /\ \A t \in Thread : IsInjective(wait_objects[t])
    /\ \A c \in Range(todo) :
          /\ c.op \in {"acquire", "add"} => IsInjective(c.objects)
          /\ c.op = "add" => \A x \in Range(c.objects) : x \notin Range(wait_objects[c.thread])
          /\ c.op = "acquire" => \A x \in Range(c.objects) : AcquireAssert(x, c.thread)

(* No call is to be made, and nobody waits, in the initial state.          *)
LEMMA FreeInit == Init => FreeInv
<1> SUFFICES ASSUME Init PROVE FreeInv
  OBVIOUS
<1>1. Range(todo) = {}
  BY StartRange DEF Init, Idle
<1>2. \A t \in Thread : IsInjective(wait_objects[t])
  BY SMTT(30) DEF Init, IsInjective
<1> QED
  BY <1>1, <1>2 DEF FreeInv

(* ShouldWait depends on the fields of the objects only.                   *)
LEMMA WaitsAgree ==
    ASSUME NEW o, NEW t, UNCHANGED <<status, lock_count, holding_thread, signaled,
                                     available_count>>
    PROVE  (ShouldWait(o, t)' <=> ShouldWait(o, t)) /\ (AcquireAssert(o, t)' <=> AcquireAssert(o, t))
<1>1. ShouldWait(o, t)' <=> ShouldWait(o, t)
  BY DEF ShouldWait, ThreadShouldWait, SignalShouldWait, SemaphoreShouldWait, MutexShouldWait
<1> QED
  BY <1>1 DEF AcquireAssert

(* A routine acquires what is free, and waits for nothing twice.           *)
LEMMA RoutineFree ==
    ASSUME IInv, OwnInv, FreeInv, Continue
    PROVE  FreeInv'
<1>1. ASSUME todo # <<>>, Head(todo).op \in {"add", "acquire"}
      PROVE  /\ IsInjective(Head(todo).objects) /\ IsInjective(Tail(Head(todo).objects))
             /\ Head(Head(todo).objects) \notin Range(Tail(Head(todo).objects))
             /\ Head(todo).op = "add" => \A x \in Range(Head(todo).objects) :
                    x \notin Range(wait_objects[Head(todo).thread])
             /\ Head(todo).op = "acquire" => \A x \in Range(Head(todo).objects) :
                    AcquireAssert(x, Head(todo).thread)
  <2>1. Head(todo) \in Range(todo)
    BY <1>1, HeadCall
  <2>2. IsInjective(Head(todo).objects)
    BY <1>1, <2>1 DEF FreeInv
  <2> QED
    BY <1>1, <2>1, <2>2, LoopCall DEF FreeInv
<1>2. ASSUME NEW t \in Thread
      PROVE  IsInjective(wait_objects'[t])
  <2>1. wait_objects \in [Thread -> Seq(WaitObject)] /\ IsInjective(wait_objects[t])
    BY DEF IInv, TypeOK, FreeInv
  <2>2. CASE AddNext
    <3>1. PICK h \in Thread, x \in WaitObject :
             h = Head(todo).thread /\ x = Head(Head(todo).objects)
      BY <2>2, AddFrame, LoopCall
    <3>2. wait_objects'[t] = IF t = h THEN Append(wait_objects[h], x) ELSE wait_objects[t]
      BY <2>1, <2>2, <3>1, AddFrame
    <3>3. x \notin Range(wait_objects[h])
      BY <1>1, <2>2, <3>1, AddFrame, AddMoves
    <3>4. t = h => IsInjective(Append(wait_objects[h], x))
      BY <2>1, <3>3, AppendRange, SMTT(30)
    <3> QED
      BY <2>1, <3>2, <3>4
  <2>3. CASE RemoveNext
    <3>1. PICK h : h = Head(todo).thread
      OBVIOUS
    <3>2. /\ h \in Thread /\ wait_objects[h] # <<>>
          /\ wait_objects' = [wait_objects EXCEPT ![h] = Tail(@)]
      BY <2>3, <3>1, RemoveFrame
    <3>3. wait_objects'[t] = IF t = h THEN Tail(wait_objects[h]) ELSE wait_objects[t]
      BY <2>1, <3>2
    <3>4. t = h => IsInjective(Tail(wait_objects[h]))
      BY <2>1, <3>2, TailRange
    <3> QED
      BY <2>1, <3>3, <3>4
  <2>4. CASE ~AddNext /\ ~RemoveNext
    <3>1. UNCHANGED wait_objects
      BY <2>4, WakeupFrame, AcquireFrame, ReleaseFrame, UpdateFrame, ResumeFrame, ArbiterFrame
         DEF Continue
    <3> QED
      BY <2>1, <3>1
  <2> QED
    BY <2>2, <2>3, <2>4
<1>3. ASSUME NEW c \in Range(todo'), c.op \in {"add", "acquire"}
      PROVE  /\ IsInjective(c.objects)
             /\ c.op = "add" => \A x \in Range(c.objects) : x \notin Range(wait_objects'[c.thread])
             /\ c.op = "acquire" => \A x \in Range(c.objects) : AcquireAssert(x, c.thread)'
  <2>1. PICK h, objs : h = Head(todo).thread /\ objs = Tail(Head(todo).objects)
    OBVIOUS
  <2>2. CASE AddNext /\ c = AddWaitingThreadEach(h, objs)
    <3>1. c.op = "add" /\ c.thread = h /\ c.objects = objs
      BY <2>2, CallParts, SMTT(30)
    <3>2. /\ IsInjective(objs) /\ Head(Head(todo).objects) \notin Range(objs)
          /\ \A x \in Range(Head(todo).objects) : x \notin Range(wait_objects[h])
      BY <1>1, <2>1, <2>2, AddFrame
    <3>3. /\ Range(wait_objects'[h]) = Range(wait_objects[h]) \cup {Head(Head(todo).objects)}
          /\ Range(objs) \subseteq Range(Head(todo).objects)
      BY <2>1, <2>2, AddFrame, AddMoves, LoopCall
    <3>4. \A x \in Range(objs) : x \notin Range(wait_objects'[h])
      BY <3>2, <3>3
    <3> QED
      BY <3>1, <3>2, <3>4
  <2>3. CASE AcquireNext /\ c = AcquireEach(h, objs)
    <3>1. c.op = "acquire" /\ c.thread = h /\ c.objects = objs
      BY <2>3, CallParts, SMTT(30)
    <3>2. /\ IsInjective(objs) /\ Head(Head(todo).objects) \notin Range(objs)
          /\ \A x \in Range(Head(todo).objects) : AcquireAssert(x, h)
      BY <1>1, <2>1, <2>3, AcquireFrame
    <3>3. h \in Thread /\ Range(objs) \subseteq Range(Head(todo).objects)
          /\ objs \in Seq(WaitObject)
      BY <2>1, <2>3, AcquireFrame, LoopCall
    <3>4. ASSUME NEW x \in Range(objs) PROVE AcquireAssert(x, h)'
      <4>1. x \in WaitObject
        BY <3>3, SMTT(30) DEF Range
      <4>2. ShouldWait(x, h)' => ShouldWait(x, h)
        BY <2>3, <3>2, <3>3, <4>1, AcquireWaits
      <4> QED
        BY <3>2, <3>3, <4>2 DEF AcquireAssert
    <3> QED
      BY <3>1, <3>2, <3>4
  <2>4. CASE \E o \in WaitObject, t \in Thread :
                 /\ WakeupNext /\ t \in Range(waiting_threads[o]) /\ ReadyToRun(o, t)
                 /\ c = AcquireEach(t, Acquired(o, t)) /\ UNCHANGED signaled
    <3>1. PICK o \in WaitObject, t \in Thread :
                 /\ WakeupNext /\ ReadyToRun(o, t)
                 /\ c = AcquireEach(t, Acquired(o, t)) /\ UNCHANGED signaled
      BY <2>4
    <3>2. PICK got : got = Acquired(o, t)
      OBVIOUS
    <3>3. c.op = "acquire" /\ c.thread = t /\ c.objects = got
      BY <3>1, <3>2, CallParts, SMTT(30)
    <3>4. IsInjective(<<o>>) /\ Range(<<o>>) = {o}
      BY SMTT(30) DEF IsInjective, Range
    <3>5. IsInjective(got)
      BY <3>2, <3>4 DEF Acquired, FreeInv
    <3>6. \A x \in Range(got) : ~ShouldWait(x, t)
      BY <3>1, <3>2, <3>4, ReadyIs DEF Acquired, ReadyParts
    <3>7. UNCHANGED <<status, lock_count, holding_thread, signaled, available_count>>
      BY <3>1, WakeupFrame
    <3>8. \A x \in Range(got) : AcquireAssert(x, t)'
      BY <3>6, <3>7, WaitsAgree DEF AcquireAssert
    <3> QED
      BY <3>3, <3>5, <3>8
  <2> QED
    BY <1>3, <2>1, <2>2, <2>3, <2>4, LoopsAfter
<1> QED
  BY <1>2, <1>3 DEF FreeInv

(* A system call acquires what is free, and waits for nothing twice when   *)
(* none of the lists it is called with has an object twice.                *)
LEMMA OutsideFree ==
    ASSUME IInv, ExistInv, FreeInv, NoDuplicates, Outside
    PROVE  FreeInv'
<1>1. UNCHANGED wait_objects
  BY OutsideFrame
<1>2. ASSUME NEW c \in Range(todo'), c.op \in {"add", "acquire"}
      PROVE  /\ IsInjective(c.objects)
             /\ c.op = "add" => \A x \in Range(c.objects) : x \notin Range(wait_objects'[c.thread])
             /\ c.op = "acquire" => \A x \in Range(c.objects) : AcquireAssert(x, c.thread)'
  <2>1. CASE Quiet
    <3>1. UNCHANGED todo /\ c \in Range(todo)
      BY <2>1 DEF Quiet
    <3>2. ~Idle
      BY <3>1, StartRange
    <3>3. UNCHANGED <<status, lock_count, holding_thread, signaled, available_count>>
      BY <2>1, <3>2 DEF Quiet, ThreadsSame, ListsSame
    <3>4. PICK t, S : t = c.thread /\ S = Range(c.objects)
      OBVIOUS
    <3>5. c.op = "acquire" => \A x \in S : AcquireAssert(x, t)
      BY <3>1, <3>4 DEF FreeInv
    <3>6. c.op = "acquire" => \A x \in S : AcquireAssert(x, t)'
      BY <3>3, <3>5, WaitsAgree
    <3>7. /\ IsInjective(c.objects)
          /\ c.op = "add" => \A x \in S : x \notin Range(wait_objects'[t])
      BY <1>1, <1>2, <3>1, <3>4 DEF FreeInv
    <3> QED
      BY <3>4, <3>6, <3>7
  <2>2. CASE \E objs : Takes(objs) /\ c = AcquireEach(current_thread, objs)
    <3>1. PICK objs : Takes(objs) /\ c = AcquireEach(current_thread, objs)
      BY <2>2
    <3>2. PICK h : h = current_thread
      OBVIOUS
    <3>3. c.op = "acquire" /\ c.thread = h /\ c.objects = objs
      BY <3>1, <3>2, CallParts, SMTT(30)
    <3>4. /\ IsInjective(objs)
          /\ UNCHANGED <<status, lock_count, holding_thread, signaled, available_count>>
          /\ \A x \in Range(objs) : x \in Mutex \ created \/ ~ShouldWait(x, h)
      BY <3>1, <3>2 DEF Takes, ThreadsSame, ListsSame
    <3>5. ASSUME NEW x \in Mutex \ created PROVE ~ShouldWait(x, h)
      <4>1. x \notin Thread /\ x \notin Event \cup Timer /\ x \notin Semaphore
        BY ThreadsAssumption DEF Disjoint
      <4>2. lock_count[x] = 0
        BY DEF ExistInv
      <4>3. ~(lock_count[x] > 0)
        BY <4>2, SMTT(30)
      <4> QED
        BY <4>1, <4>3 DEF ShouldWait, MutexShouldWait
    <3>6. \A x \in Range(objs) : AcquireAssert(x, h)'
      BY <3>4, <3>5, WaitsAgree DEF AcquireAssert
    <3> QED
      BY <3>3, <3>4, <3>6
  <2>3. CASE \E how, objs : Suspends(how, objs)
                            /\ c = AddWaitingThreadEach(current_thread, objs)
    <3>1. PICK how, objs : Suspends(how, objs) /\ c = AddWaitingThreadEach(current_thread, objs)
      BY <2>3
    <3>2. PICK h : h = current_thread
      OBVIOUS
    <3>3. c.op = "add" /\ c.thread = h /\ c.objects = objs
      BY <3>1, <3>2, CallParts, SMTT(30)
    <3>4. h \in Thread /\ status[h] = "Running" /\ IsInjective(objs)
      BY <3>1, <3>2 DEF Suspends, Yields
    <3>5. Range(wait_objects'[h]) = {}
      BY <1>1, <3>4, RunningWaits
    <3> QED
      BY <3>3, <3>4, <3>5
  <2> QED
    BY <1>2, <2>1, <2>2, <2>3, LoopsStarted
<1> QED
  BY <1>1, <1>2 DEF FreeInv

(* The invariant of the acquired objects is inductive.                     *)
LEMMA FreeNext ==
    NoDuplicates /\ IInv /\ OwnInv /\ ExistInv /\ FreeInv /\ [Next]_vars => FreeInv'
  BY StepKinds, RoutineFree, OutsideFree

(* Every ASSERT holds where the code evaluates it.                         *)
LEMMA AssertsSound ==
    IInv /\ EventInv /\ OwnInv /\ FreeInv /\ ArbiterListExact => NoFailedAssert
<1> SUFFICES ASSUME IInv, EventInv, OwnInv, FreeInv, ArbiterListExact PROVE NoFailedAssert
  OBVIOUS
<1>1. ASSUME Doing("wakeup") PROVE WakeupAssert(Head(todo).object)
  <2>1. todo # <<>> /\ Head(todo).op = "wakeup"
    BY <1>1 DEF Doing
  <2>2. PICK o \in WaitObject : o = Head(todo).object
    BY <2>1, HeadCall, CallFields
  <2>3. waiting_threads[o] \in Seq(Thread)
    BY DEF IInv, TypeOK
  <2>4. \A i \in DOMAIN waiting_threads[o] :
           waiting_threads[o][i] \in Thread /\ waiting_threads[o][i] \in Range(waiting_threads[o])
    BY <2>3, SMTT(30) DEF Range
  <2> QED
    BY <2>2, <2>4, ListsSound DEF ListedSound, WakeupAssert
<1>2. ASSUME Doing("acquire")
      PROVE  AcquireAssert(Head(Head(todo).objects), Head(todo).thread)
  <2>1. todo # <<>> /\ Head(todo).op = "acquire"
    BY <1>2 DEF Doing
  <2>2. Head(Head(todo).objects) \in Range(Head(todo).objects)
    BY <2>1, LoopCall
  <2> QED
    BY <2>1, <2>2, HeadCall DEF FreeInv
<1>3. ASSUME Doing("resume") PROVE ResumeAssert(Head(todo).thread)
  <2>1. todo # <<>> /\ Head(todo).op = "resume" /\ Head(todo) \in Range(todo)
    BY <1>3, HeadCall DEF Doing
  <2>2. PICK t \in Thread : t = Head(todo).thread
    BY <2>1, HeadCall, CallFields
  <2>3. /\ status[t] \in WaitStatus \cup {"Ready"}
        /\ wait_objects[t] = <<>> \/ Pending(RemoveWaitingThreadEach(t))
    BY <2>1, <2>2 DEF OwnInv, CallsInv, CallInv
  <2>4. ~Pending(RemoveWaitingThreadEach(t))
    <3>1. RemoveWaitingThreadEach(t).op = "remove"
      BY CallParts, SMTT(30)
    <3> QED
      BY <2>1, <3>1, HeadCall, LaterCalls DEF Pending
  <2> QED
    BY <2>2, <2>3, <2>4 DEF EventInv, ResumeAssert
<1>4. ArbiterAssert
  BY DEF ArbiterListExact, ArbiterAssert
<1> QED
  BY <1>1, <1>2, <1>3, <1>4 DEF NoFailedAssert
-----------------------------------------------------------------------------
(* The inductive invariant: the four properties below need one another,    *)
(* and the soundness of the calls a routine has still to make.             *)
THEOREM Invariance == Spec => []IInv
<1>1. Init => IInv
  BY LeastExists, InitIInv
<1>2. IInv /\ [Next]_vars => IInv'
  BY LeastExists, NextIInv
<1> QED
  BY <1>1, <1>2, PTL DEF Spec

(* Every field of the kernel's objects keeps its type; in particular every *)
(* priority Thread::UpdatePriority computes is a level of the ready queue. *)
THEOREM TypeCorrectness == Spec => []TypeOK
<1>1. IInv => TypeOK
  BY DEF IInv
<1> QED
  BY <1>1, Invariance, PTL

(* The ready queue has exactly the Ready threads, once each and at the     *)
(* level of their present priority, through every boost, wakeup and        *)
(* context switch.                                                         *)
THEOREM ReadyQueueIsExact == Spec => []ReadyQueueExact
<1>1. IInv => ReadyQueueExact
  BY DEF IInv
<1> QED
  BY <1>1, Invariance, PTL

(* The CPU executes the one Running thread.                                *)
THEOREM MutualExclusion == Spec => []OneRunningThread
<1>1. IInv => OneRunningThread
  BY DEF IInv, CpuInv, OneRunningThread
<1> QED
  BY <1>1, Invariance, PTL

(* No wakeup, timeout or exit leaves a stale entry in the list of a wait   *)
(* object, or takes out one that a thread still waits for.                 *)
THEOREM WaitListsAreExact == Spec => []WaitListsExact
<1>1. IInv => WaitListsExact
  BY DEF IInv
<1> QED
  BY <1>1, Invariance, PTL

(* The timeouts and the owners of the mutexes, by the invariants of their  *)
(* own that are inductive only where IInv holds.                           *)
LEMMA OwnersInvariance == Spec => [](EventInv /\ OwnInv)
  BY EventInit, OwnInit, EventNext, OwnNext, Invariance, PTL DEF Spec

(* CoreTiming never has two wakeups of a thread, and none of a thread that *)
(* runs or is dead: ScheduleWakeup, CancelWakeupTimer and the callback     *)
(* keep count of them through every race of a timeout with a wakeup.       *)
THEOREM WakeupEventsAreSound == Spec => []WakeupEventsSound
  BY OwnersInvariance, EventSound, PTL

(* Timer::Set, Cancel and the callback never leave two events of a timer.  *)
THEOREM TimerEventsAreUnique == Spec => []TimerEventsUnique
<1>1. Init => TimerEventsUnique
  BY SMTT(30) DEF Init, TimerEventsUnique
<1> QED
  BY <1>1, TimersNext, Invariance, PTL DEF Spec

(* Mutex::Acquire, Release and ReleaseThreadMutexes keep the lock count,   *)
(* the holder and the sets of held mutexes in agreement.                   *)
THEOREM MutexesHaveOwners == Spec => []MutexOwnership
<1>1. OwnInv => MutexOwnership
  BY HoldOwnership DEF OwnInv
<1> QED
  BY <1>1, OwnersInvariance, PTL

(* Priority inheritance computes what Thread::UpdatePriority would at any  *)
(* time: no path that changes a mutex or its holder forgets the update.    *)
THEOREM PrioritiesAreEffective == Spec => []EffectivePriority
  BY PriorityInit, PriorityNext, OwnersInvariance, Invariance, PTL DEF Spec

(* Whatever makes a better thread ready calls PrepareReschedule before the *)
(* CPU goes on.                                                            *)
THEOREM RescheduleIsPending == Spec => []NoMissedReschedule
<1>1. Spec => []RescheduleInv
  BY RescheduleInit, RescheduleNext, OwnersInvariance, Invariance, PTL DEF Spec
<1> QED
  BY <1>1, RescheduleSound, Invariance, PTL

(* Only Reschedule takes the CPU from a thread that could go on, and only  *)
(* for a better one.                                                       *)
THEOREM PreemptionIsByBetter == Spec => PreemptedByBetter
<1> DEFINE A == \A t \in Thread : status[t] = "Running" /\ status'[t] = "Ready" =>
                    \E u \in Thread :
                        status'[u] = "Running" /\ current_priority[u] < current_priority[t]
<1>1. IInv /\ [Next]_vars => [A]_vars
  BY OnlyReschedules DEF Reschedules
<1> QED
  BY <1>1, Invariance, PTL DEF Spec, PreemptedByBetter

(* The arbiter's lists have exactly the threads that wait for an address,  *)
(* in spite of timeouts that race with ArbitrateAddress.                   *)
THEOREM ArbiterListsAreExact == Spec => []ArbiterListExact
<1>1. Spec => []ArbiterInv
  BY ArbiterInit, ArbiterNext, OwnersInvariance, Invariance, PTL DEF Spec
<1> QED
  BY <1>1, ArbiterSound, Invariance, PTL

(* The invariant of the wakeups is inductive where those above hold.       *)
LEMMA WakeupInvariance == Spec => []WakeupInv
  BY WakeupInit, WakeupNextInv, OwnersInvariance, Invariance, PTL DEF Spec

(* No wakeup is lost: a thread that waits for an object it could have is   *)
(* about to be woken up by the routine that is running, whatever the order *)
(* in which Signal, Release, Acquire, timeouts and exits came.             *)
THEOREM NoWakeupIsLost == Spec => []NoLostWakeup
<1>1. IInv /\ WakeupInv => NoLostWakeup
  BY WakeupsSound DEF WakeupInv
<1> QED
  BY <1>1, WakeupInvariance, Invariance, PTL

(* None of the assertions of the wait objects, of ResumeFromWait and of    *)
(* the arbiter fails, as long as no system call waits twice for an object. *)
THEOREM NoAssertFails == NoDuplicates => (Spec => []NoFailedAssert)
<1> SUFFICES ASSUME NoDuplicates PROVE Spec => []NoFailedAssert
  OBVIOUS
<1>1. IInv /\ OwnInv /\ WakeupInv /\ FreeInv /\ [Next]_vars => FreeInv'
  BY FreeNext DEF WakeupInv
<1>2. Spec => []FreeInv
  BY <1>1, FreeInit, WakeupInvariance, OwnersInvariance, Invariance, PTL DEF Spec
<1> QED
  BY <1>2, AssertsSound, ArbiterListsAreExact, OwnersInvariance, Invariance, PTL
=============================================================================
