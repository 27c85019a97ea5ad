------------------------- MODULE KernelSteps_proofs -------------------------
(***************************************************************************)
(* What each step of Kernel changes and what it leaves alone, and the      *)
(* invariants of its objects: those of the timeouts, of the timers, of the *)
(* mutexes and their holders, of the priorities and of the reschedules.    *)
(***************************************************************************)
EXTENDS KernelInvariant

(* The leaves are for Zenon where they name no other prover.               *)
USE ZenonT(40)

(* The first call a routine has to make, and the ones after it.            *)
LEMMA HeadCall ==
    ASSUME IInv, todo # <<>>
    PROVE  /\ Head(todo) \in Call /\ Tail(todo) \in Seq(Call)
           /\ Range(todo) = Range(Tail(todo)) \cup {Head(todo)}
           /\ \A d \in Range(Tail(todo)) : Rank(Head(todo)) < Rank(d)
           /\ \A c \in Range(todo) : c \in Call /\ CallSound(c)
<1>1. todo \in Seq(Call) /\ Ordered(todo) /\ \A c \in Range(todo) : CallSound(c)
  BY DEF IInv, TypeOK, TodoInv
<1>2. \A c \in Range(todo) : c \in Call
  BY <1>1, SMT DEF Range
<1>3. Head(todo) \in Call /\ Tail(todo) \in Seq(Call)
  BY <1>1, SMT
<1> QED
  BY <1>1, <1>2, <1>3, TailRange, TailOrdered

(* The calls after the first one are of later kinds.                       *)
LEMMA LaterCalls ==
    ASSUME IInv, todo # <<>>, NEW d \in Range(Tail(todo))
    PROVE  /\ d.op # "add"
           /\ Head(todo).op # "add" => d.op \notin {"acquire", "update"}
           /\ Head(todo).op \notin {"add", "acquire", "update"} => d.op # "remove"
           /\ Head(todo).op \in {"resume", "wakeup", "arbiter", "release"} => d.op # "resume"
           /\ Head(todo).op \in {"wakeup", "arbiter", "release"} =>
                 d.op \notin {"wakeup", "arbiter"}
           /\ Head(todo).op = "release" => d.op # "release"
<1>1. Head(todo) \in Call /\ Rank(Head(todo)) < Rank(d) /\ Rank(Head(todo)) \in 0 .. 6
  BY HeadCall, CallFields
<1>2. PICK h : h = Head(todo)
  OBVIOUS
<1>3. h \in Call => h.op \in {"add", "acquire", "update", "remove", "resume", "wakeup",
                              "arbiter", "release", "stop"}
  BY SMT DEF Call, WakeupAllWaitingThreads
<1>4. h.op = "stop" => Rank(h) = 6
  BY DEF Rank
<1> QED
  BY <1>1, <1>2, <1>3, <1>4, RankOf, SMT

(* What is left to do when the first call is replaced by others.           *)
LEMMA ThenRange ==
    ASSUME IInv, todo # <<>>
    PROVE  /\ Then(<<>>) => Range(todo') = Range(Tail(todo))
           /\ \A c \in Call : Then(<<c>>) => Range(todo') = Range(Tail(todo)) \cup {c}
           /\ \A c, d \in Call :
                 Then(<<c, d>>) => Range(todo') = Range(Tail(todo)) \cup {c, d}
<1>1. PICK T \in Seq(Call) : T = Tail(todo)
  BY HeadCall
<1>2. <<>> \o T = T
  BY SMT
<1>3. ASSUME NEW c \in Call
      PROVE  Range(<<c>> \o T) = Range(T) \cup {c}
  BY ConsRange, SMT
<1>4. ASSUME NEW c \in Call, NEW d \in Call
      PROVE  Range(<<c, d>> \o T) = Range(T) \cup {c, d}
  <2>1. PICK s \in Seq(Call) : s = <<c, d>>
    <3>1. <<c, d>> \in Seq(Call)
      BY SMT
    <3> QED
      BY <3>1
  <2>2. Range(s) = {c, d}
    BY <2>1, SMT DEF Range
  <2>3. Range(s \o T) = Range(s) \cup Range(T)
    BY ConcatRange, SMT
  <2> QED
    BY <2>1, <2>2, <2>3
<1> QED
  BY <1>1, <1>2, <1>3, <1>4 DEF Then

(* A routine that starts when none is running.                             *)
LEMMA StartRange ==
    /\ Idle => Range(todo) = {}
    /\ todo' = <<>> => Range(todo') = {}
    /\ \A c : todo' = <<c>> => Range(todo') = {c}
    /\ \A c, d : todo' = <<c, d>> => Range(todo') = {c, d}
<1>1. Range(<<>>) = {}
  BY SMT DEF Range
<1>2. \A c : Range(<<c>>) = {c}
  BY SMT DEF Range
<1>3. \A c, d : Range(<<c, d>>) = {c, d}
  BY SMT DEF Range
<1> QED
  BY <1>1, <1>2, <1>3 DEF Idle

(* The objects that WaitObject::WakeupAllWaitingThreads acquires for t.    *)
Acquired(o, t) == IF status[t] = "WaitSynchAll" THEN wait_objects[t] ELSE <<o>>

(* One turn of WaitObject::WakeupAllWaitingThreads.                        *)
LEMMA WakeupFrame ==
    ASSUME IInv, WakeupNext
    PROVE  /\ todo # <<>> /\ Head(todo).op = "wakeup" /\ Head(todo).object \in WaitObject
           /\ UNCHANGED <<status, nominal_priority, current_priority, held_mutexes,
                          wait_objects, wait_address, wakeup_callback, wakeup_events,
                          timer_events>>
           /\ UNCHANGED <<waiting_threads, lock_count, holding_thread, priority,
                          available_count, created, arbiter_threads, reschedule_pending>>
           /\ \/ /\ UNCHANGED signaled
                 /\ \E t \in Thread :
                       /\ t \in Range(waiting_threads[Head(todo).object])
                       /\ ReadyToRun(Head(todo).object, t) /\ status[t] \in SynchStatus
                       /\ Acquired(Head(todo).object, t) \in Seq(WaitObject)
                       /\ Range(todo') = Range(todo) \cup
                             {AcquireEach(t, Acquired(Head(todo).object, t)),
                              RemoveWaitingThreadEach(t), ResumeFromWait(t)}
              \/ /\ \A t \in Thread : t \in Range(waiting_threads[Head(todo).object]) =>
                                          ~ReadyToRun(Head(todo).object, t)
                 /\ PulseReset(Head(todo).object)
                 /\ Range(todo') = Range(Tail(todo))
<1>1. PICK o : o = Head(todo).object
  OBVIOUS
<1>2. todo # <<>> /\ Head(todo).op = "wakeup" /\ o \in WaitObject
  BY <1>1, HeadCall, CallFields DEF WakeupNext, Doing
<1>3. /\ UNCHANGED <<status, nominal_priority, current_priority, held_mutexes,
                     wait_objects, wait_address, wakeup_callback, wakeup_events,
                     timer_events>>
      /\ UNCHANGED <<waiting_threads, lock_count, holding_thread, priority,
                     available_count, created, arbiter_threads, reschedule_pending>>
  BY DEF WakeupNext, schedVars, threadVars, eventVars, mutexVars, arbiterVars, cpuVars
<1>4. waiting_threads[o] \in Seq(Thread)
  BY <1>2 DEF IInv, TypeOK
<1>5. CASE \E i \in DOMAIN waiting_threads[o] :
               /\ IsHighestPriorityReadyThread(o, i)
               /\ todo' = <<AcquireEach(waiting_threads[o][i], Acquired(o, waiting_threads[o][i])),
                            RemoveWaitingThreadEach(waiting_threads[o][i]),
                            ResumeFromWait(waiting_threads[o][i])>> \o todo
               /\ UNCHANGED signaled
  <2>1. PICK i \in DOMAIN waiting_threads[o] :
               /\ IsHighestPriorityReadyThread(o, i)
               /\ todo' = <<AcquireEach(waiting_threads[o][i], Acquired(o, waiting_threads[o][i])),
                            RemoveWaitingThreadEach(waiting_threads[o][i]),
                            ResumeFromWait(waiting_threads[o][i])>> \o todo
               /\ UNCHANGED signaled
    BY <1>5
  <2>2. PICK t \in Thread : t = waiting_threads[o][i]
    BY <1>4, <2>1, SMT
  <2>3. t \in Range(waiting_threads[o]) /\ ReadyToRun(o, t)
    BY <2>1, <2>2 DEF Range, IsHighestPriorityReadyThread
  <2>4. status[t] \in SynchStatus
    BY <1>1, <2>2 DEF WakeupNext, WakeupAssert
  <2>5. Acquired(o, t) \in Seq(WaitObject)
    BY <1>2, SMT DEF Acquired, IInv, TypeOK
  <2>6. PICK a \in Call : a = AcquireEach(t, Acquired(o, t))
    BY <2>5, CallTypes
  <2>7. PICK r \in Call : r = RemoveWaitingThreadEach(t)
    BY CallTypes
  <2>8. PICK w \in Call : w = ResumeFromWait(t)
    BY CallTypes
  <2>9. todo' = <<a, r, w>> \o todo
    BY <2>1, <2>2, <2>6, <2>7, <2>8
  <2>10. PICK s \in Seq(Call) : s = <<a, r, w>>
    <3>1. <<a, r, w>> \in Seq(Call)
      BY SMT
    <3> QED
      BY <3>1
  <2>11. Range(todo') = Range(todo) \cup {a, r, w}
    <3>1. Range(s) = {a, r, w}
      BY <2>10, SMT DEF Range
    <3>2. todo \in Seq(Call)
      BY DEF IInv, TypeOK
    <3>3. Range(s \o todo) = Range(s) \cup Range(todo)
      BY <3>2, ConcatRange, SMT
    <3> QED
      BY <2>9, <2>10, <3>1, <3>3
  <2> QED
    BY <1>1, <1>2, <1>3, <2>1, <2>3, <2>4, <2>5, <2>6, <2>7, <2>8, <2>11
<1>6. CASE /\ \A i \in DOMAIN waiting_threads[o] : ~ReadyToRun(o, waiting_threads[o][i])
           /\ PulseReset(o) /\ Then(<<>>)
  <2>1. \A t \in Thread : t \in Range(waiting_threads[o]) => ~ReadyToRun(o, t)
    BY <1>6 DEF Range
  <2>2. Range(todo') = Range(Tail(todo))
    BY <1>2, <1>6, ThenRange
  <2> QED
    BY <1>1, <1>2, <1>3, <1>6, <2>1, <2>2
<1> QED
  BY <1>1, <1>5, <1>6 DEF WakeupNext, Acquired

(* The calls of the loops over objects: the thread and the first object.   *)
LEMMA LoopCall ==
    ASSUME IInv, todo # <<>>, Head(todo).op \in {"acquire", "add"}
    PROVE  /\ Head(todo).thread \in Thread
           /\ Head(todo).objects \in Seq(WaitObject) /\ Head(todo).objects # <<>>
           /\ Head(Head(todo).objects) \in WaitObject
           /\ Tail(Head(todo).objects) \in Seq(WaitObject)
           /\ Range(Head(todo).objects) =
                 Range(Tail(Head(todo).objects)) \cup {Head(Head(todo).objects)}
           /\ IsInjective(Head(todo).objects) =>
                 /\ IsInjective(Tail(Head(todo).objects))
                 /\ Head(Head(todo).objects) \notin Range(Tail(Head(todo).objects))
           /\ Len(Head(todo).objects) = 1 => Tail(Head(todo).objects) = <<>>
<1>1. PICK h \in Call : h = Head(todo) /\ h.op \in {"acquire", "add"} /\ CallSound(h)
  BY HeadCall
<1>2. h.thread \in Thread /\ h.objects \in Seq(WaitObject)
  BY <1>1, CallFields
<1>3. h.objects # <<>>
  BY <1>1 DEF CallSound
<1>4. PICK s \in Seq(WaitObject) : s = h.objects /\ s # <<>>
  BY <1>2, <1>3
<1>5. /\ Head(s) \in WaitObject /\ Tail(s) \in Seq(WaitObject)
      /\ Range(s) = Range(Tail(s)) \cup {Head(s)}
      /\ IsInjective(s) => /\ IsInjective(Tail(s))
                           /\ Range(Tail(s)) = Range(s) \ {Head(s)}
  BY <1>4, TailRange
<1>6. Len(s) = 1 => Tail(s) = <<>>
  BY <1>4, LastTail
<1>7. IsInjective(s) => Head(s) \notin Range(Tail(s))
  BY <1>5
<1> QED
  BY <1>1, <1>2, <1>3, <1>4, <1>5, <1>6, <1>7

(* What Mutex::Acquire, for the thread t, does to the mutexes.             *)
MutexTaken(m, t) ==
    /\ lock_count[m] = 0 /\ lock_count' = [lock_count EXCEPT ![m] = 1]
    /\ holding_thread' = [holding_thread EXCEPT ![m] = t]
    /\ held_mutexes' = [held_mutexes EXCEPT ![t] = held_mutexes[t] \cup {m}]
    /\ priority' = [priority EXCEPT ![m] = current_priority[t]]
    /\ current_priority' = [current_priority EXCEPT ![t] =
                                BestPriority(t, held_mutexes[t] \cup {m}, priority')]
    /\ reschedule_pending' = TRUE

MutexTakenAgain(m, t) ==
    /\ lock_count[m] > 0 /\ holding_thread[m] = t
    /\ lock_count' = [lock_count EXCEPT ![m] = lock_count[m] + 1]
    /\ UNCHANGED <<holding_thread, held_mutexes, priority, current_priority,
                   reschedule_pending>>

(* One turn of a loop that acquires objects.                               *)
LEMMA AcquireFrame ==
    ASSUME IInv, AcquireNext
    PROVE  /\ todo # <<>> /\ Head(todo).op = "acquire"
           /\ UNCHANGED <<status, nominal_priority, wait_objects, wait_address,
                          wakeup_callback, wakeup_events, timer_events, waiting_threads,
                          created, arbiter_threads>>
           /\ AcquireAssert(Head(Head(todo).objects), Head(todo).thread)
           /\ \/ /\ Head(Head(todo).objects) \in Mutex
                 /\ \/ MutexTaken(Head(Head(todo).objects), Head(todo).thread)
                    \/ MutexTakenAgain(Head(Head(todo).objects), Head(todo).thread)
              \/ /\ Head(Head(todo).objects) \notin Mutex
                 /\ UNCHANGED <<lock_count, holding_thread, held_mutexes, priority,
                                current_priority, reschedule_pending>>
           /\ \/ Range(todo') = Range(Tail(todo))
              \/ /\ Tail(Head(todo).objects) \in Seq(WaitObject)
                 /\ Range(todo') = Range(Tail(todo)) \cup
                       {AcquireEach(Head(todo).thread, Tail(Head(todo).objects))}
<1>1. todo # <<>> /\ Head(todo).op = "acquire"
  BY DEF AcquireNext, Doing
<1>2. PICK t \in Thread, objs \in Seq(WaitObject), o \in WaitObject :
          t = Head(todo).thread /\ objs = Head(todo).objects /\ o = Head(objs)
  BY <1>1, LoopCall
<1>3. /\ AcquireAssert(o, t) /\ Acquire(o, t)
      /\ Then(IF Len(objs) = 1 THEN <<>> ELSE <<AcquireEach(t, Tail(objs))>>)
      /\ UNCHANGED <<status, nominal_priority, wait_objects, wait_address,
                     wakeup_callback, wakeup_events, timer_events, waiting_threads,
                     created, arbiter_threads>>
  BY <1>2 DEF AcquireNext, eventVars, arbiterVars
<1>4. \/ Range(todo') = Range(Tail(todo))
      \/ /\ Tail(objs) \in Seq(WaitObject)
         /\ Range(todo') = Range(Tail(todo)) \cup {AcquireEach(t, Tail(objs))}
  <2>1. Tail(objs) \in Seq(WaitObject)
    BY <1>1, <1>2, LoopCall
  <2>2. AcquireEach(t, Tail(objs)) \in Call
    BY <2>1, CallTypes
  <2>3. Then(<<>>) \/ Then(<<AcquireEach(t, Tail(objs))>>)
    BY <1>3
  <2> QED
    BY <1>1, <2>1, <2>2, <2>3, ThenRange
<1>5. CASE o \in Mutex
  <2>1. lock_count[o] \in Nat /\ lock_count \in [Mutex -> Nat]
    BY <1>5 DEF IInv, TypeOK
  <2>2. CASE lock_count[o] = 0
    <3>1. AcquireMutex(o, t)
      BY <1>3, <1>5 DEF Acquire
    <3>2. /\ lock_count' = [lock_count EXCEPT ![o] = lock_count[o] + 1]
          /\ priority' = [priority EXCEPT ![o] = current_priority[t]]
          /\ held_mutexes' = [held_mutexes EXCEPT ![t] = held_mutexes[t] \cup {o}]
          /\ BoostPriority(t, BestPriority(t, held_mutexes[t] \cup {o}, priority'))
          /\ holding_thread' = [holding_thread EXCEPT ![o] = t]
          /\ PrepareReschedule
      <4>1. ~(lock_count[o] > 0)
        BY <2>1, <2>2, SMT
      <4> QED
        BY <3>1, <4>1 DEF AcquireMutex
    <3>3. lock_count' = [lock_count EXCEPT ![o] = 1]
      BY <2>1, <2>2, <3>2, SMT
    <3>4. MutexTaken(o, t)
      BY <2>2, <3>2, <3>3 DEF MutexTaken, BoostPriority, PrepareReschedule
    <3> QED
      BY <1>1, <1>2, <1>3, <1>4, <1>5, <3>4
  <2>3. CASE lock_count[o] > 0
    <3>1. AcquireMutex(o, t)
      BY <1>3, <1>5 DEF Acquire
    <3>2. /\ lock_count' = [lock_count EXCEPT ![o] = lock_count[o] + 1]
          /\ UNCHANGED <<held_mutexes, priority, current_priority, queueVars, holding_thread,
                         cpuVars>>
      BY <2>1, <2>3, <3>1, SMT DEF AcquireMutex
    <3>3. holding_thread[o] = t
      BY <1>3, <1>5, <2>3, ThreadsAssumption DEF AcquireAssert, ShouldWait, MutexShouldWait,
         Disjoint
    <3>4. MutexTakenAgain(o, t)
      BY <2>3, <3>2, <3>3 DEF MutexTakenAgain, cpuVars
    <3> QED
      BY <1>1, <1>2, <1>3, <1>4, <1>5, <3>4
  <2> QED
    BY <2>1, <2>2, <2>3, SMT
<1>6. CASE o \notin Mutex
  <2>1. UNCHANGED <<lock_count, holding_thread, held_mutexes, priority, current_priority,
                    reschedule_pending>>
    BY <1>3, <1>6 DEF Acquire, mutexVars, cpuVars
  <2> QED
    BY <1>1, <1>2, <1>3, <1>4, <1>6, <2>1
<1> QED
  BY <1>5, <1>6, SMT

(* What Mutex::UpdatePriority does: nothing, or it gives a mutex a new     *)
(* priority and its holder the one that follows.                           *)
Boosted ==
    \/ UNCHANGED <<priority, current_priority>>
    \/ \E m \in Mutex, t \in Thread :
          /\ holding_thread[m] = t /\ DOMAIN priority' = Mutex
          /\ \A x \in Mutex \ {m} : priority'[x] = priority[x]
          /\ current_priority' = [current_priority EXCEPT ![t] =
                                      BestPriority(t, held_mutexes[t], priority')]

(* Mutex::UpdatePriority is such a step.                                   *)
LEMMA UpdateBoosts ==
    ASSUME IInv, NEW m \in Mutex, NEW list, UpdateMutexPriority(m, list)
    PROVE  Boosted
<1>1. /\ holding_thread[m] \in Thread \cup {NULL} /\ priority \in [Mutex -> Priority]
  BY DEF IInv, TypeOK
<1>2. CASE UNCHANGED <<priority, current_priority, queueVars>>
  BY <1>2 DEF Boosted
<1>3. CASE \E best : /\ holding_thread[m] # NULL
                     /\ priority' = [priority EXCEPT ![m] = best]
                     /\ current_priority' = [current_priority EXCEPT ![holding_thread[m]] =
                            BestPriority(holding_thread[m], held_mutexes[holding_thread[m]],
                                         [priority EXCEPT ![m] = best])]
  <2>1. PICK best : /\ holding_thread[m] # NULL
                    /\ priority' = [priority EXCEPT ![m] = best]
                    /\ current_priority' = [current_priority EXCEPT ![holding_thread[m]] =
                            BestPriority(holding_thread[m], held_mutexes[holding_thread[m]],
                                         [priority EXCEPT ![m] = best])]
    BY <1>3
  <2>2. PICK t \in Thread : t = holding_thread[m]
    BY <1>1, <2>1
  <2>3. DOMAIN priority' = Mutex /\ \A x \in Mutex \ {m} : priority'[x] = priority[x]
    BY <1>1, <2>1
  <2>4. current_priority' = [current_priority EXCEPT ![t] =
                                 BestPriority(t, held_mutexes[t], priority')]
    BY <2>1, <2>2
  <2> QED
    BY <2>2, <2>3, <2>4 DEF Boosted
<1> QED
  BY <1>2, <1>3 DEF UpdateMutexPriority, BoostPriority

(* A new list for an object.                                               *)
LEMMA SetBoosts ==
    ASSUME IInv, NEW o \in WaitObject, NEW list, SetWaitingThreads(o, list)
    PROVE  /\ Boosted /\ waiting_threads'[o] = list
           /\ \A x \in WaitObject \ {o} : waiting_threads'[x] = waiting_threads[x]
<1>1. waiting_threads \in [WaitObject -> Seq(Thread)]
  BY DEF IInv, TypeOK
<1>2. waiting_threads' = [waiting_threads EXCEPT ![o] = list]
  BY DEF SetWaitingThreads
<1>3. Boosted
  <2>1. CASE o \in Mutex
    BY <2>1, UpdateBoosts DEF SetWaitingThreads
  <2>2. CASE o \notin Mutex
    BY <2>2 DEF SetWaitingThreads, Boosted
  <2> QED
    BY <2>1, <2>2
<1> QED
  BY <1>1, <1>2, <1>3

(* One turn of the loop that adds a thread to the lists of its objects.    *)
LEMMA AddFrame ==
    ASSUME IInv, AddNext
    PROVE  /\ todo # <<>> /\ Head(todo).op = "add"
           /\ UNCHANGED <<status, nominal_priority, held_mutexes, wait_address,
                          wakeup_callback, wakeup_events, timer_events>>
           /\ UNCHANGED <<lock_count, holding_thread, signaled, available_count, created,
                          arbiter_threads, reschedule_pending>>
           /\ Boosted
           /\ \A o \in WaitObject, u \in Thread : u \in Range(waiting_threads'[o]) <=>
                 \/ u \in Range(waiting_threads[o])
                 \/ u = Head(todo).thread /\ o = Head(Head(todo).objects)
           /\ wait_objects' = [wait_objects EXCEPT ![Head(todo).thread] =
                                   Append(@, Head(Head(todo).objects))]
           /\ \/ /\ Tail(Head(todo).objects) = <<>>
                 /\ Range(todo') = Range(Tail(todo))
              \/ Range(todo') = Range(Tail(todo)) \cup
                       {AddWaitingThreadEach(Head(todo).thread, Tail(Head(todo).objects))}
<1>1. todo # <<>> /\ Head(todo).op = "add"
  BY DEF AddNext, Doing
<1>2. PICK t \in Thread, objs \in Seq(WaitObject), o \in WaitObject :
          t = Head(todo).thread /\ objs = Head(todo).objects /\ o = Head(objs)
  BY <1>1, LoopCall
<1>3. /\ SetWaitingThreads(o, IF t \in Range(waiting_threads[o]) THEN waiting_threads[o]
                              ELSE Append(waiting_threads[o], t))
      /\ wait_objects' = [wait_objects EXCEPT ![t] = Append(@, o)]
      /\ Then(IF Len(objs) = 1 THEN <<>> ELSE <<AddWaitingThreadEach(t, Tail(objs))>>)
      /\ UNCHANGED <<status, nominal_priority, held_mutexes, wait_address,
                     wakeup_callback, wakeup_events, timer_events>>
      /\ UNCHANGED <<lock_count, holding_thread, signaled, available_count, created,
                     arbiter_threads, reschedule_pending>>
  BY <1>2 DEF AddNext, eventVars, objectVars, arbiterVars, cpuVars
<1>4. \/ Tail(objs) = <<>> /\ Range(todo') = Range(Tail(todo))
      \/ Range(todo') = Range(Tail(todo)) \cup {AddWaitingThreadEach(t, Tail(objs))}
  <2>1. Tail(objs) \in Seq(WaitObject) /\ (Len(objs) = 1 => Tail(objs) = <<>>)
    BY <1>1, <1>2, LoopCall
  <2>2. AddWaitingThreadEach(t, Tail(objs)) \in Call
    BY <2>1, CallTypes
  <2>3. \/ Len(objs) = 1 /\ Then(<<>>)
        \/ Then(<<AddWaitingThreadEach(t, Tail(objs))>>)
    BY <1>3
  <2> QED
    BY <1>1, <2>1, <2>2, <2>3, ThenRange
<1>5. waiting_threads[o] \in Seq(Thread)
  BY DEF IInv, TypeOK
<1>6. PICK list : /\ list = IF t \in Range(waiting_threads[o]) THEN waiting_threads[o]
                            ELSE Append(waiting_threads[o], t)
                  /\ SetWaitingThreads(o, list)
                  /\ Range(list) = Range(waiting_threads[o]) \cup {t}
  <2>1. Range(Append(waiting_threads[o], t)) = Range(waiting_threads[o]) \cup {t}
    BY <1>5, AppendRange, SMT
  <2>2. t \in Range(waiting_threads[o]) =>
            Range(waiting_threads[o]) = Range(waiting_threads[o]) \cup {t}
    OBVIOUS
  <2> QED
    BY <1>3, <2>1, <2>2
<1>7. Boosted /\ \A x \in WaitObject, u \in Thread : u \in Range(waiting_threads'[x]) <=>
                     u \in Range(waiting_threads[x]) \/ (u = t /\ x = o)
  <2>1. /\ Boosted /\ waiting_threads'[o] = list
        /\ \A x \in WaitObject \ {o} : waiting_threads'[x] = waiting_threads[x]
    BY <1>6, SetBoosts
  <2> QED
    BY <1>6, <2>1
<1> QED
  BY <1>1, <1>2, <1>3, <1>4, <1>7

(* One turn of the loop that takes a thread out of the lists of its        *)
(* objects.                                                                *)
LEMMA RemoveFrame ==
    ASSUME IInv, RemoveNext
    PROVE  /\ todo # <<>> /\ Head(todo).op = "remove" /\ Head(todo).thread \in Thread
           /\ Head(todo) = RemoveWaitingThreadEach(Head(todo).thread)
           /\ UNCHANGED <<status, nominal_priority, held_mutexes, wait_address,
                          wakeup_callback, wakeup_events, timer_events>>
           /\ UNCHANGED <<lock_count, holding_thread, signaled, available_count, created,
                          arbiter_threads, reschedule_pending>>
           /\ Boosted
           /\ \A o \in WaitObject, u \in Thread :
                 u \in Range(waiting_threads'[o]) => u \in Range(waiting_threads[o])
           /\ wait_objects[Head(todo).thread] # <<>>
           /\ wait_objects' = [wait_objects EXCEPT ![Head(todo).thread] = Tail(@)]
           /\ \/ /\ Tail(wait_objects[Head(todo).thread]) = <<>>
                 /\ Range(todo') = Range(Tail(todo))
              \/ Range(todo') = Range(todo)
<1>1. todo # <<>> /\ Head(todo).op = "remove"
  BY DEF RemoveNext, Doing
<1>2. PICK h \in Call : h = Head(todo) /\ h.op = "remove" /\ CallSound(h)
  BY <1>1, HeadCall
<1>3. PICK t \in Thread : t = h.thread /\ h = RemoveWaitingThreadEach(t)
  BY <1>2, CallFields
<1>4. wait_objects[t] # <<>> /\ wait_objects[t] \in Seq(WaitObject)
  BY <1>2, <1>3 DEF CallSound, IInv, TypeOK
<1>5. PICK o \in WaitObject : o = Head(wait_objects[t])
  BY <1>4, SMT
<1>6. /\ SetWaitingThreads(o, RemoveFirst(waiting_threads[o], t))
      /\ wait_objects' = [wait_objects EXCEPT ![t] = Tail(@)]
      /\ IF Len(wait_objects[t]) = 1 THEN Then(<<>>) ELSE UNCHANGED todo
      /\ UNCHANGED <<status, nominal_priority, held_mutexes, wait_address,
                     wakeup_callback, wakeup_events, timer_events>>
      /\ UNCHANGED <<lock_count, holding_thread, signaled, available_count, created,
                     arbiter_threads, reschedule_pending>>
  BY <1>2, <1>3, <1>5 DEF RemoveNext, eventVars, objectVars, arbiterVars, cpuVars
<1>7. \/ Tail(wait_objects[t]) = <<>> /\ Range(todo') = Range(Tail(todo))
      \/ Range(todo') = Range(todo)
  <2>1. Len(wait_objects[t]) = 1 => Tail(wait_objects[t]) = <<>>
    BY <1>4, LastTail
  <2> QED
    BY <1>1, <1>6, <2>1, ThenRange
<1>8. waiting_threads[o] \in Seq(Thread) /\ IsInjective(waiting_threads[o])
  BY DEF IInv, TypeOK, WaitListsExact
<1>9. Range(RemoveFirst(waiting_threads[o], t)) = Range(waiting_threads[o]) \ {t}
  BY <1>8, RemoveFirstRange
<1>10. Boosted /\ \A x \in WaitObject, u \in Thread :
                     u \in Range(waiting_threads'[x]) => u \in Range(waiting_threads[x])
  <2>1. /\ Boosted /\ waiting_threads'[o] = RemoveFirst(waiting_threads[o], t)
        /\ \A x \in WaitObject \ {o} : waiting_threads'[x] = waiting_threads[x]
    BY <1>6, SetBoosts
  <2> QED
    BY <1>9, <2>1
<1> QED
  BY <1>1, <1>2, <1>3, <1>4, <1>6, <1>7, <1>10

(* One turn of ReleaseThreadMutexes.                                       *)
LEMMA ReleaseFrame ==
    ASSUME IInv, ReleaseNext
    PROVE  /\ todo # <<>> /\ Head(todo).op = "release" /\ Head(todo).thread \in Thread
           /\ Head(todo).mutexes \in SUBSET Mutex
           /\ UNCHANGED <<status, nominal_priority, current_priority, wait_objects,
                          wait_address, wakeup_callback, wakeup_events, timer_events>>
           /\ UNCHANGED <<waiting_threads, priority, signaled, available_count, created,
                          arbiter_threads, reschedule_pending>>
           /\ \/ \E m \in Head(todo).mutexes :
                    /\ lock_count' = [lock_count EXCEPT ![m] = 0]
                    /\ holding_thread' = [holding_thread EXCEPT ![m] = NULL]
                    /\ UNCHANGED held_mutexes
                    /\ Range(todo') = Range(Tail(todo)) \cup {WakeupAllWaitingThreads(m),
                          ReleaseThreadMutexes(Head(todo).thread, Head(todo).mutexes \ {m})}
              \/ /\ Head(todo).mutexes = {}
                 /\ held_mutexes' = [held_mutexes EXCEPT ![Head(todo).thread] = {}]
                 /\ UNCHANGED <<lock_count, holding_thread>>
                 /\ Range(todo') = Range(Tail(todo))
<1>1. todo # <<>> /\ Head(todo).op = "release"
  BY DEF ReleaseNext, Doing
<1>2. PICK t \in Thread, left \in SUBSET Mutex :
          t = Head(todo).thread /\ left = Head(todo).mutexes
  BY <1>1, HeadCall, CallFields, SMT
<1>3. /\ UNCHANGED <<status, nominal_priority, current_priority, wait_objects,
                     wait_address, wakeup_callback, wakeup_events, timer_events>>
      /\ UNCHANGED <<waiting_threads, priority, signaled, available_count, created,
                     arbiter_threads, reschedule_pending>>
  BY DEF ReleaseNext, eventVars, objectVars, arbiterVars, cpuVars
<1>4. CASE \E m \in left :
             /\ lock_count' = [lock_count EXCEPT ![m] = 0]
             /\ holding_thread' = [holding_thread EXCEPT ![m] = NULL]
             /\ Then(<<WakeupAllWaitingThreads(m), ReleaseThreadMutexes(t, left \ {m})>>)
             /\ UNCHANGED held_mutexes
  <2>1. PICK m \in left :
             /\ lock_count' = [lock_count EXCEPT ![m] = 0]
             /\ holding_thread' = [holding_thread EXCEPT ![m] = NULL]
             /\ Then(<<WakeupAllWaitingThreads(m), ReleaseThreadMutexes(t, left \ {m})>>)
             /\ UNCHANGED held_mutexes
    BY <1>4
  <2>2. m \in WaitObject /\ left \ {m} \in SUBSET Mutex
    BY DEF WaitObject
  <2>3. WakeupAllWaitingThreads(m) \in Call /\ ReleaseThreadMutexes(t, left \ {m}) \in Call
    BY <2>2, CallTypes
  <2>4. Range(todo') = Range(Tail(todo)) \cup
            {WakeupAllWaitingThreads(m), ReleaseThreadMutexes(t, left \ {m})}
    BY <1>1, <2>1, <2>3, ThenRange
  <2> QED
    BY <1>1, <1>2, <1>3, <2>1, <2>4
<1>5. CASE /\ left = {} /\ held_mutexes' = [held_mutexes EXCEPT ![t] = {}]
           /\ Then(<<>>) /\ UNCHANGED <<lock_count, holding_thread>>
  <2>1. Range(todo') = Range(Tail(todo))
    BY <1>1, <1>5, ThenRange
  <2> QED
    BY <1>1, <1>2, <1>3, <1>5, <2>1
<1> QED
  BY <1>2, <1>4, <1>5 DEF ReleaseNext

(* One turn of the loop of SetThreadPriority.                              *)
LEMMA UpdateFrame ==
    ASSUME IInv, UpdateNext
    PROVE  /\ todo # <<>> /\ Head(todo).op = "update" /\ Boosted
           /\ UNCHANGED <<status, nominal_priority, held_mutexes, wait_objects, wait_address,
                          wakeup_callback, wakeup_events, timer_events>>
           /\ UNCHANGED <<waiting_threads, lock_count, holding_thread, signaled,
                          available_count, created, arbiter_threads, reschedule_pending>>
           /\ \/ Range(todo') = Range(Tail(todo))
              \/ \E ms \in SUBSET Mutex :
                    Range(todo') = Range(Tail(todo)) \cup {UpdatePriorityEach(ms)}
<1>1. todo # <<>> /\ Head(todo).op = "update"
  BY DEF UpdateNext, Doing
<1>2. PICK left \in SUBSET Mutex : left = Head(todo).mutexes
  BY <1>1, HeadCall, CallFields
<1>3. /\ UNCHANGED <<status, nominal_priority, held_mutexes, wait_objects, wait_address,
                     wakeup_callback, wakeup_events, timer_events>>
      /\ UNCHANGED <<waiting_threads, lock_count, holding_thread, signaled,
                     available_count, created, arbiter_threads, reschedule_pending>>
  BY DEF UpdateNext, eventVars, objectVars, arbiterVars, cpuVars
<1>4. PICK m \in left :
          /\ UpdateMutexPriority(m, waiting_threads[m])
          /\ Then(IF left = {m} THEN <<>> ELSE <<UpdatePriorityEach(left \ {m})>>)
  BY <1>2 DEF UpdateNext
<1>5. Boosted
  BY <1>4, UpdateBoosts
<1>6. left \ {m} \in SUBSET Mutex /\ UpdatePriorityEach(left \ {m}) \in Call
  BY CallTypes
<1>7. Then(<<>>) \/ Then(<<UpdatePriorityEach(left \ {m})>>)
  BY <1>4
<1> QED
  BY <1>1, <1>3, <1>5, <1>6, <1>7, ThenRange

(* Thread::ResumeFromWait.                                                 *)
LEMMA ResumeFrame ==
    ASSUME IInv, Resume
    PROVE  /\ todo # <<>> /\ Head(todo).op = "resume" /\ Head(todo).thread \in Thread
           /\ ResumeAssert(Head(todo).thread)
           /\ UNCHANGED <<nominal_priority, current_priority, held_mutexes, wait_objects,
                          wait_address, wakeup_events, timer_events>>
           /\ UNCHANGED <<waiting_threads, lock_count, holding_thread, priority, signaled,
                          available_count, created, arbiter_threads>>
           /\ Range(todo') = Range(Tail(todo))
           /\ \/ /\ status[Head(todo).thread] \in WaitStatus
                 /\ wakeup_callback' = [wakeup_callback EXCEPT ![Head(todo).thread] = NULL]
                 /\ status' = [status EXCEPT ![Head(todo).thread] = "Ready"]
                 /\ reschedule_pending' = TRUE
              \/ /\ status[Head(todo).thread] = "Ready"
                 /\ UNCHANGED <<wakeup_callback, status, reschedule_pending>>
<1>1. todo # <<>> /\ Head(todo).op = "resume"
  BY DEF Resume, Doing
<1>2. PICK t \in Thread : t = Head(todo).thread
  BY <1>1, HeadCall, CallFields
<1>3. /\ UNCHANGED <<nominal_priority, current_priority, held_mutexes, wait_objects,
                     wait_address, wakeup_events, timer_events>>
      /\ UNCHANGED <<waiting_threads, lock_count, holding_thread, priority, signaled,
                     available_count, created, arbiter_threads>>
  BY DEF Resume, eventVars, syncVars, mutexVars, objectVars, arbiterVars
<1>4. Range(todo') = Range(Tail(todo))
  BY <1>1, ThenRange DEF Resume
<1>5. /\ ResumeAssert(t)
      /\ \/ /\ status[t] \in WaitStatus
            /\ wakeup_callback' = [wakeup_callback EXCEPT ![t] = NULL]
            /\ status' = [status EXCEPT ![t] = "Ready"]
            /\ reschedule_pending' = TRUE
         \/ /\ status[t] = "Ready"
            /\ UNCHANGED <<wakeup_callback, status, reschedule_pending>>
  BY <1>2 DEF Resume, cpuVars, PrepareReschedule
<1> QED
  BY <1>1, <1>2, <1>3, <1>4, <1>5

(* One turn of the loop of the arbiter's signal.                           *)
LEMMA ArbiterFrame ==
    ASSUME IInv, ResumeNext
    PROVE  /\ todo # <<>> /\ Head(todo).op = "arbiter" /\ Head(todo).address \in Address
           /\ UNCHANGED <<status, nominal_priority, current_priority, held_mutexes,
                          wait_objects, wait_address, wakeup_callback, wakeup_events,
                          timer_events>>
           /\ UNCHANGED <<waiting_threads, lock_count, holding_thread, priority, signaled,
                          available_count, created, reschedule_pending>>
           /\ \/ \E t \in Thread, n \in Int :
                    /\ t \in Range(arbiter_threads[Head(todo).address])
                    /\ status[t] = "WaitArb"
                    /\ arbiter_threads' = [arbiter_threads EXCEPT ![Head(todo).address] =
                                               RemoveFirst(@, t)]
                    /\ Range(todo') = Range(Tail(todo)) \cup
                          {ResumeFromWait(t), ResumeHighest(Head(todo).address, n)}
              \/ UNCHANGED arbiter_threads /\ Range(todo') = Range(Tail(todo))
<1>1. todo # <<>> /\ Head(todo).op = "arbiter"
  BY DEF ResumeNext, Doing
<1>2. PICK a \in Address, n \in Int : a = Head(todo).address /\ n = Head(todo).count
  BY <1>1, HeadCall, CallFields
<1>3. /\ UNCHANGED <<status, nominal_priority, current_priority, held_mutexes,
                     wait_objects, wait_address, wakeup_callback, wakeup_events,
                     timer_events>>
      /\ UNCHANGED <<waiting_threads, lock_count, holding_thread, priority, signaled,
                     available_count, created, reschedule_pending>>
  BY DEF ResumeNext, schedVars, threadVars, eventVars, mutexVars, objectVars, cpuVars
<1>4. arbiter_threads[a] \in Seq(Thread)
  BY DEF IInv, TypeOK
<1>5. CASE \E i \in DOMAIN arbiter_threads[a] :
              /\ n # 0
              /\ arbiter_threads' =
                     [arbiter_threads EXCEPT ![a] = RemoveFirst(@, arbiter_threads[a][i])]
              /\ Then(<<ResumeFromWait(arbiter_threads[a][i]),
                        ResumeHighest(a, IF n < 0 THEN n ELSE n - 1)>>)
  <2>1. PICK i \in DOMAIN arbiter_threads[a] :
              /\ n # 0
              /\ arbiter_threads' =
                     [arbiter_threads EXCEPT ![a] = RemoveFirst(@, arbiter_threads[a][i])]
              /\ Then(<<ResumeFromWait(arbiter_threads[a][i]),
                        ResumeHighest(a, IF n < 0 THEN n ELSE n - 1)>>)
    BY <1>5
  <2>2. PICK t \in Thread, k \in Int :
            t = arbiter_threads[a][i] /\ k = IF n < 0 THEN n ELSE n - 1
    BY <1>4, <2>1, SMT
  <2>3. ArbiterAssert
    BY <1>2, <2>1 DEF ResumeNext
  <2>4. t \in Range(arbiter_threads[a]) /\ status[t] = "WaitArb"
    BY <2>1, <2>2, <2>3 DEF Range, ArbiterAssert
  <2>5. ResumeFromWait(t) \in Call /\ ResumeHighest(a, k) \in Call
    BY CallTypes
  <2>6. Then(<<ResumeFromWait(t), ResumeHighest(a, k)>>)
    BY <2>1, <2>2
  <2>7. Range(todo') = Range(Tail(todo)) \cup {ResumeFromWait(t), ResumeHighest(a, k)}
    BY <1>1, <2>5, <2>6, ThenRange
  <2> QED
    BY <1>1, <1>2, <1>3, <2>1, <2>2, <2>4, <2>7
<1>6. CASE Then(<<>>) /\ UNCHANGED arbiter_threads
  BY <1>1, <1>2, <1>3, <1>6, ThenRange
<1> QED
  BY <1>2, <1>5, <1>6 DEF ResumeNext
-----------------------------------------------------------------------------
(* The steps outside the routines, by what they do.                        *)
ThreadsSame == UNCHANGED <<status, nominal_priority, current_priority, held_mutexes,
                           wait_objects, wait_address, wakeup_callback, wakeup_events>>

ListsSame == UNCHANGED <<waiting_threads, lock_count, holding_thread, priority,
                         arbiter_threads>>

SignalsSame == UNCHANGED <<signaled, available_count, created>>

(* No system call is given an object twice in one list to wait for.        *)
NoDuplicates == \A objs \in WaitLists : IsInjective(objs)

(* Nothing a thread waits for becomes free.                                *)
Quiet ==
    /\ ThreadsSame /\ ListsSame /\ UNCHANGED todo
    /\ created \subseteq created' /\ (reschedule_pending => reschedule_pending')
    /\ Idle \/ UNCHANGED <<signaled, available_count>>
    /\ \A o \in Thread \cup created, t \in Thread : ShouldWait(o, t) => ShouldWait(o, t)'

(* The object o may become free, and its threads are to be woken up.       *)
Signals(o) ==
    /\ Idle /\ ThreadsSame /\ ListsSame /\ UNCHANGED <<created, reschedule_pending>>
    /\ Range(todo') = {WakeupAllWaitingThreads(o)}
    /\ \A x \in WaitObject \ {o}, t \in Thread : ShouldWait(x, t) => ShouldWait(x, t)'

(* The current thread is to acquire objs, which it need not wait for.      *)
Takes(objs) ==
    /\ Idle /\ ThreadsSame /\ ListsSame /\ UNCHANGED <<signaled, available_count, reschedule_pending>>
    /\ created \subseteq created' /\ current_thread \in Thread
    /\ status[current_thread] = "Running"
    /\ objs \in Seq(WaitObject) /\ (NoDuplicates => IsInjective(objs))
    /\ Range(todo') = {AcquireEach(current_thread, objs)}
    /\ Range(objs) \subseteq Thread \cup created'
    /\ \A x \in Range(objs) : x \in Mutex \ created \/ ~ShouldWait(x, current_thread)

(* The current thread stops running.                                       *)
Yields(v) ==
    /\ Idle /\ current_thread \in Thread /\ status[current_thread] = "Running"
    /\ status' = [status EXCEPT ![current_thread] = v] /\ reschedule_pending' = TRUE
    /\ UNCHANGED <<nominal_priority, current_priority, held_mutexes, wait_objects>>
    /\ UNCHANGED <<waiting_threads, lock_count, holding_thread, priority>>
    /\ SignalsSame

(* Its wakeup is scheduled, or not.                                        *)
Scheduled ==
    \/ UNCHANGED wakeup_events
    \/ wakeup_events' = [wakeup_events EXCEPT ![current_thread] = @ + 1]

Falls == /\ Yields("WaitSleep") /\ Scheduled
         /\ UNCHANGED <<wait_address, wakeup_callback, arbiter_threads, todo>>

Suspends(how, objs) ==
    /\ how \in SynchStatus /\ Yields(how) /\ Scheduled
    /\ wakeup_callback' = [wakeup_callback EXCEPT ![current_thread] = "synch"]
    /\ UNCHANGED <<wait_address, arbiter_threads>>
    /\ objs \in Seq(WaitObject) /\ (NoDuplicates => IsInjective(objs))
    /\ Range(todo') = IF objs = <<>> THEN {}
                      ELSE {AddWaitingThreadEach(current_thread, objs)}
    /\ Range(objs) \subseteq Thread \cup created
    /\ IF how = "WaitSynchAll" THEN \E x \in Range(objs) : ShouldWait(x, current_thread)
       ELSE \A x \in Range(objs) : ShouldWait(x, current_thread)

Arbitrates(a) ==
    /\ Yields("WaitArb") /\ UNCHANGED todo
    /\ wait_address' = [wait_address EXCEPT ![current_thread] = a]
    /\ arbiter_threads' = [arbiter_threads EXCEPT ![a] = Append(@, current_thread)]
    /\ \/ UNCHANGED <<wakeup_callback, wakeup_events>>
       \/ /\ wakeup_callback' = [wakeup_callback EXCEPT ![current_thread] = "arbiter"]
          /\ Scheduled

Exits ==
    /\ Yields("Dead") /\ wakeup_events' = [wakeup_events EXCEPT ![current_thread] = 0]
    /\ UNCHANGED <<wait_address, wakeup_callback, arbiter_threads>>
    /\ Range(todo') = {WakeupAllWaitingThreads(current_thread),
                       ReleaseThreadMutexes(current_thread, held_mutexes[current_thread])}

Creates(t, p) ==
    /\ Idle /\ t \in Thread /\ p \in Priority /\ status[t] = "Dormant"
    /\ status' = [status EXCEPT ![t] = "Ready"]
    /\ nominal_priority' = [nominal_priority EXCEPT ![t] = p]
    /\ current_priority' = [current_priority EXCEPT ![t] = p]
    /\ UNCHANGED <<held_mutexes, wait_objects, wait_address, wakeup_callback, wakeup_events>>
    /\ ListsSame /\ SignalsSame /\ UNCHANGED todo /\ reschedule_pending' = TRUE

SetsPriority(t, p) ==
    /\ Idle /\ t \in Thread /\ p \in Priority
    /\ nominal_priority' = [nominal_priority EXCEPT ![t] = p]
    /\ current_priority' = [current_priority EXCEPT ![t] =
                                Min({p} \cup {priority[m] : m \in held_mutexes[t]})]
    /\ UNCHANGED <<status, held_mutexes, wait_objects, wait_address, wakeup_callback,
                   wakeup_events>>
    /\ ListsSame /\ SignalsSame /\ reschedule_pending' = TRUE
    /\ Range(todo') = {} \/ \E ms \in SUBSET Mutex : Range(todo') = {UpdatePriorityEach(ms)}

Releases(m) ==
    /\ Idle /\ m \in Mutex /\ current_thread \in Thread
    /\ status[current_thread] = "Running" /\ holding_thread[m] = current_thread
    /\ lock_count' = [lock_count EXCEPT ![m] = 0]
    /\ holding_thread' = [holding_thread EXCEPT ![m] = NULL]
    /\ held_mutexes' = [held_mutexes EXCEPT ![current_thread] =
                            held_mutexes[current_thread] \ {m}]
    /\ current_priority' = [current_priority EXCEPT ![current_thread] =
           BestPriority(current_thread, held_mutexes[current_thread] \ {m}, priority)]
    /\ UNCHANGED <<status, nominal_priority, wait_objects, wait_address, wakeup_callback,
                   wakeup_events>>
    /\ UNCHANGED <<waiting_threads, priority, arbiter_threads>>
    /\ SignalsSame /\ reschedule_pending' = TRUE
    /\ Range(todo') = {WakeupAllWaitingThreads(m)}

ReleasesOnce(m) ==
    /\ Idle /\ m \in Mutex /\ lock_count[m] > 1
    /\ lock_count' = [lock_count EXCEPT ![m] = lock_count[m] - 1]
    /\ ThreadsSame /\ SignalsSame
    /\ UNCHANGED <<waiting_threads, holding_thread, priority, arbiter_threads, todo,
                   reschedule_pending>>

ArbiterSignals(a) ==
    /\ Idle /\ ThreadsSame /\ ListsSame /\ SignalsSame /\ reschedule_pending' = TRUE
    /\ a \in Address /\ \E n \in Int : Range(todo') = {ResumeHighest(a, n)}

TimesOut(t) ==
    /\ Idle /\ t \in Thread /\ wakeup_events[t] > 0
    /\ wakeup_events' = [wakeup_events EXCEPT ![t] = wakeup_events[t] - 1]
    /\ UNCHANGED <<status, nominal_priority, current_priority, held_mutexes, wait_objects,
                   wait_address, wakeup_callback>>
    /\ UNCHANGED <<waiting_threads, lock_count, holding_thread, priority, reschedule_pending>>
    /\ SignalsSame
    /\ arbiter_threads' =
           IF status[t] = "WaitArb" /\ wakeup_callback[t] = "arbiter"
           THEN [arbiter_threads EXCEPT ![wait_address[t]] = RemoveFirst(@, t)]
           ELSE arbiter_threads
    /\ Range(todo') = IF wait_objects[t] = <<>> THEN {ResumeFromWait(t)}
                      ELSE {RemoveWaitingThreadEach(t), ResumeFromWait(t)}

Reschedules ==
    /\ Idle /\ UNCHANGED todo /\ reschedule_pending' = FALSE
    /\ UNCHANGED <<nominal_priority, current_priority, held_mutexes, wait_objects,
                   wait_address, wakeup_callback>>
    /\ ListsSame /\ SignalsSame
    /\ \A u \in Thread : \/ status'[u] = status[u]
                         \/ status[u] \in {"Ready", "Running"} /\ status'[u] \in {"Ready", "Running"}
    /\ \A u \in Thread : wakeup_events'[u] \in {0, wakeup_events[u]}
    /\ \A u \in Thread : status'[u] = "Running" =>
           wakeup_events'[u] = 0 \/ status[u] = "Running"
    /\ reschedule_pending => \A t, u \in Thread :
           status'[t] = "Running" /\ status'[u] = "Ready" =>
               current_priority[t] <= current_priority[u]
    /\ ~reschedule_pending => UNCHANGED status
    /\ \A t \in Thread : status[t] = "Running" /\ status'[t] = "Ready" =>
           \E u \in Thread : status'[u] = "Running" /\ current_priority[u] < current_priority[t]
-----------------------------------------------------------------------------
(* The parts of a call, by the way it is made.                             *)
LEMMA CallParts ==
    /\ \A o : /\ WakeupAllWaitingThreads(o).op = "wakeup"
              /\ WakeupAllWaitingThreads(o).object = o
    /\ \A t, objs : /\ AcquireEach(t, objs).op = "acquire"
                    /\ AcquireEach(t, objs).thread = t
                    /\ AcquireEach(t, objs).objects = objs
    /\ \A t, objs : /\ AddWaitingThreadEach(t, objs).op = "add"
                    /\ AddWaitingThreadEach(t, objs).thread = t
                    /\ AddWaitingThreadEach(t, objs).objects = objs
    /\ \A t : RemoveWaitingThreadEach(t).op = "remove" /\ RemoveWaitingThreadEach(t).thread = t
    /\ \A t : ResumeFromWait(t).op = "resume" /\ ResumeFromWait(t).thread = t
    /\ \A t, ms : /\ ReleaseThreadMutexes(t, ms).op = "release"
                  /\ ReleaseThreadMutexes(t, ms).thread = t
                  /\ ReleaseThreadMutexes(t, ms).mutexes = ms
    /\ \A ms : UpdatePriorityEach(ms).op = "update" /\ UpdatePriorityEach(ms).mutexes = ms
    /\ \A a, n : ResumeHighest(a, n).op = "arbiter"
  BY DEF WakeupAllWaitingThreads, AcquireEach, AddWaitingThreadEach, RemoveWaitingThreadEach,
         ResumeFromWait, ReleaseThreadMutexes, UpdatePriorityEach, ResumeHighest

(* A call is determined by its parts.                                      *)
LEMMA CallForms ==
    ASSUME NEW c \in Call
    PROVE  /\ c.op = "wakeup" => c = WakeupAllWaitingThreads(c.object)
           /\ c.op = "remove" => c = RemoveWaitingThreadEach(c.thread)
           /\ c.op = "resume" => c = ResumeFromWait(c.thread)
  BY SMT DEF Call, WakeupAllWaitingThreads, RemoveWaitingThreadEach, ResumeFromWait

(* An object that no field of its own changes keeps its threads waiting.   *)
LEMMA WaitsSame ==
    ASSUME NEW o, NEW t, UNCHANGED <<status, lock_count, holding_thread>>,
           o \in Event \cup Timer => signaled'[o] = signaled[o] \/ ~signaled'[o],
           o \in Semaphore => available_count'[o] = available_count[o]
    PROVE  ShouldWait(o, t) => ShouldWait(o, t)'
  BY DEF ShouldWait, ThreadShouldWait, SignalShouldWait, SemaphoreShouldWait, MutexShouldWait

(* The run loop's own steps, and calls that make nothing free.             *)
LEMMA QuietFrame ==
    ASSUME IInv,
           \/ EndAdvance \/ EndSlice \/ UNCHANGED vars
           \/ \E o \in Event \cup Timer : CreateSignal(o) \/ Clear(o)
           \/ \E tm \in Timer : CancelTimer(tm)
           \/ \E tm \in Timer, periodic \in BOOLEAN : SetTimer(tm, FALSE, periodic)
           \/ \E a \in Address : \E v : Store(a, v) \/ (Guest /\ ArbitrateNone(a, v))
           \/ \E s \in Semaphore, n \in Int : CreateSemaphore(s, n)
           \/ \E m \in Mutex : CreateMutex(m, FALSE)
    PROVE  Quiet
<1> USE DEF schedVars, threadVars, eventVars, syncVars, mutexVars, objectVars, arbiterVars,
            cpuVars
<1>1. CASE EndAdvance \/ EndSlice \/ UNCHANGED vars
  <2>1. ThreadsSame /\ ListsSame /\ UNCHANGED <<signaled, available_count, created, todo>>
    BY <1>1 DEF EndAdvance, EndSlice, vars, ThreadsSame, ListsSame
  <2>2. reschedule_pending => reschedule_pending'
    BY <1>1 DEF EndAdvance, EndSlice, vars
  <2> QED
    BY <2>1, <2>2, WaitsSame DEF Quiet, ThreadsSame, ListsSame
<1>2. CASE \E o \in Event \cup Timer : CreateSignal(o)
  <2>1. /\ ThreadsSame /\ ListsSame
        /\ UNCHANGED <<signaled, available_count, todo, reschedule_pending>>
        /\ created \subseteq created'
    BY <1>2 DEF CreateSignal, ThreadsSame, ListsSame
  <2> QED
    BY <2>1, WaitsSame DEF Quiet, ThreadsSame, ListsSame
<1>3. CASE \E o \in Event \cup Timer : Clear(o)
  <2>1. PICK o \in Event \cup Timer :
          /\ ThreadsSame /\ ListsSame /\ Idle
          /\ UNCHANGED <<available_count, created, todo, reschedule_pending>>
          /\ signaled' = [signaled EXCEPT ![o] = FALSE]
    BY <1>3 DEF Clear, Guest, ThreadsSame, ListsSame
  <2>2. \A x \in Event \cup Timer : signaled'[x] = signaled[x] \/ ~signaled'[x]
    <3>1. signaled \in [Event \cup Timer -> BOOLEAN]
      BY DEF IInv, TypeOK
    <3> QED
      BY <2>1, <3>1
  <2> QED
    BY <2>1, <2>2, WaitsSame DEF Quiet, ThreadsSame, ListsSame
<1>4. CASE \/ \E tm \in Timer : CancelTimer(tm)
           \/ \E tm \in Timer, periodic \in BOOLEAN : SetTimer(tm, FALSE, periodic)
  <2>1. /\ ThreadsSame /\ ListsSame
        /\ UNCHANGED <<signaled, available_count, created, todo, reschedule_pending>>
    <3>1. \A tm, periodic : SetTimer(tm, FALSE, periodic) =>
              signaled' = signaled /\ todo' = <<>> /\ todo = <<>>
      BY DEF SetTimer, Guest, Idle
    <3>2. UNCHANGED <<signaled, todo>>
      BY <1>4, <3>1 DEF CancelTimer
    <3>3. ThreadsSame /\ ListsSame
      BY <1>4 DEF CancelTimer, SetTimer, ThreadsSame, ListsSame
    <3>4. UNCHANGED <<available_count, created, reschedule_pending>>
      BY <1>4 DEF CancelTimer, SetTimer
    <3> QED
      BY <3>2, <3>3, <3>4
  <2> QED
    BY <2>1, WaitsSame DEF Quiet, ThreadsSame, ListsSame
<1>5. CASE \E a \in Address : \E v : Store(a, v) \/ (Guest /\ ArbitrateNone(a, v))
  <2>1. /\ ThreadsSame /\ ListsSame /\ UNCHANGED <<signaled, available_count, created, todo>>
        /\ reschedule_pending => reschedule_pending'
    <3>1. PICK a, v : Store(a, v) \/ ArbitrateNone(a, v)
      BY <1>5
    <3>2. ThreadsSame /\ ListsSame /\ UNCHANGED <<signaled, available_count, created, todo>>
      BY <3>1 DEF Store, ArbitrateNone, ThreadsSame, ListsSame
    <3>3. reschedule_pending => reschedule_pending'
      BY <3>1 DEF Store, ArbitrateNone, PrepareReschedule
    <3> QED
      BY <3>2, <3>3
  <2> QED
    BY <2>1, WaitsSame DEF Quiet, ThreadsSame, ListsSame
<1>6. CASE \E m \in Mutex : CreateMutex(m, FALSE)
  <2>1. /\ ThreadsSame /\ ListsSame
        /\ UNCHANGED <<signaled, available_count, todo, reschedule_pending>>
        /\ created \subseteq created'
    BY <1>6 DEF CreateMutex, Guest, Idle, ThreadsSame, ListsSame
  <2> QED
    BY <2>1, WaitsSame DEF Quiet, ThreadsSame, ListsSame
<1>7. CASE \E s \in Semaphore, n \in Int : CreateSemaphore(s, n)
  <2>1. PICK s \in Semaphore, n \in Int :
          /\ ThreadsSame /\ ListsSame /\ UNCHANGED <<signaled, todo, reschedule_pending>>
          /\ created \subseteq created' /\ s \notin created /\ Idle
          /\ available_count' = [available_count EXCEPT ![s] = n]
    BY <1>7 DEF CreateSemaphore, Guest, ThreadsSame, ListsSame
  <2>2. \A x \in Semaphore \ {s} : available_count'[x] = available_count[x]
    BY <2>1 DEF IInv, TypeOK
  <2>3. s \notin Thread
    BY ThreadsAssumption DEF Disjoint
  <2> QED
    BY <2>1, <2>2, <2>3, WaitsSame DEF Quiet, ThreadsSame, ListsSame
<1> QED
  BY <1>1, <1>2, <1>3, <1>4, <1>5, <1>6, <1>7

(* A system call comes from the thread that is running.                    *)
LEMMA CurrentRuns ==
    ASSUME IInv, Guest
    PROVE  Idle /\ current_thread \in Thread /\ status[current_thread] = "Running"
  BY DEF IInv, TypeOK, CpuInv, Guest

(* What signals events and timers and releases semaphores.                 *)
LEMMA SignalFrame ==
    ASSUME IInv,
           \/ \E e \in Event : Signal(e)
           \/ \E tm \in Timer, periodic \in BOOLEAN : SetTimer(tm, TRUE, periodic)
           \/ \E tm \in Timer : TimerCallback(tm)
           \/ \E s \in Semaphore, n \in Int : ReleaseSemaphore(s, n)
    PROVE  \E o \in WaitObject : Signals(o)
<1> USE DEF schedVars, threadVars, eventVars, syncVars, mutexVars, objectVars, arbiterVars,
            cpuVars
<1>1. CASE \/ \E e \in Event : Signal(e)
           \/ \E tm \in Timer, periodic \in BOOLEAN : SetTimer(tm, TRUE, periodic)
           \/ \E tm \in Timer : TimerCallback(tm)
  <2>1. PICK o \in Event \cup Timer :
          \/ Signal(o) \/ TimerCallback(o) \/ \E periodic \in BOOLEAN : SetTimer(o, TRUE, periodic)
    BY <1>1
  <2>2. /\ Idle /\ ThreadsSame /\ ListsSame
        /\ UNCHANGED <<available_count, created, reschedule_pending>>
    BY <2>1 DEF Signal, TimerCallback, SetTimer, Guest, ThreadsSame, ListsSame
  <2>3. /\ signaled' = [signaled EXCEPT ![o] = TRUE]
        /\ todo' = <<WakeupAllWaitingThreads(o)>>
    BY <2>1 DEF Signal, TimerCallback, SetTimer
  <2>4. \A x \in (Event \cup Timer) \ {o} : signaled'[x] = signaled[x]
    BY <2>3 DEF IInv, TypeOK
  <2>5. o \in WaitObject
    BY DEF WaitObject
  <2>6. Range(todo') = {WakeupAllWaitingThreads(o)}
    BY <2>3, StartRange
  <2>7. \A x \in WaitObject \ {o}, t \in Thread : ShouldWait(x, t) => ShouldWait(x, t)'
    BY <2>2, <2>4, WaitsSame DEF ThreadsSame, ListsSame
  <2> QED
    BY <2>2, <2>5, <2>6, <2>7 DEF Signals
<1>2. CASE \E s \in Semaphore, n \in Int : ReleaseSemaphore(s, n)
  <2>1. PICK s \in Semaphore, n \in Int : ReleaseSemaphore(s, n)
    BY <1>2
  <2>2. /\ Idle /\ ThreadsSame /\ ListsSame
        /\ UNCHANGED <<signaled, created, reschedule_pending>>
    BY <2>1 DEF ReleaseSemaphore, Guest, ThreadsSame, ListsSame
  <2>3. /\ available_count' = [available_count EXCEPT ![s] = @ + n]
        /\ todo' = <<WakeupAllWaitingThreads(s)>>
    BY <2>1 DEF ReleaseSemaphore
  <2>4. \A x \in Semaphore \ {s} : available_count'[x] = available_count[x]
    BY <2>3 DEF IInv, TypeOK
  <2>5. s \in WaitObject
    BY DEF WaitObject
  <2>6. Range(todo') = {WakeupAllWaitingThreads(s)}
    BY <2>3, StartRange
  <2>7. \A x \in WaitObject \ {s}, t \in Thread : ShouldWait(x, t) => ShouldWait(x, t)'
    BY <2>2, <2>4, WaitsSame DEF ThreadsSame, ListsSame
  <2> QED
    BY <2>2, <2>5, <2>6, <2>7 DEF Signals
<1> QED
  BY <1>1, <1>2

(* Thread creation and priorities.                                         *)
LEMMA PriorityFrame ==
    ASSUME IInv, NEW t \in Thread, NEW p \in Priority
    PROVE  /\ CreateThread(t, p) => Creates(t, p)
           /\ SetThreadPriority(t, p) => SetsPriority(t, p)
<1> USE DEF eventVars, syncVars, mutexVars, objectVars, arbiterVars
<1>1. ASSUME CreateThread(t, p) PROVE Creates(t, p)
  BY <1>1 DEF CreateThread, Create, Guest, PrepareReschedule, Creates, ListsSame,
                     SignalsSame
<1>2. ASSUME SetThreadPriority(t, p) PROVE SetsPriority(t, p)
  <2>1. /\ Idle
        /\ nominal_priority' = [nominal_priority EXCEPT ![t] = p]
        /\ current_priority' = [current_priority EXCEPT ![t] =
                                    Min({p} \cup {priority[m] : m \in held_mutexes[t]})]
        /\ UNCHANGED <<status, held_mutexes, wait_objects, wait_address, wakeup_callback,
                       wakeup_events>>
        /\ ListsSame /\ SignalsSame /\ reschedule_pending' = TRUE
    BY <1>2 DEF SetThreadPriority, SetPriority, Guest, PrepareReschedule, ListsSame,
                       SignalsSame
  <2>2. todo' = <<>> \/ \E ms \in SUBSET Mutex : todo' = <<UpdatePriorityEach(ms)>>
    <3>1. pending_mutexes(t) \in SUBSET Mutex
      BY DEF pending_mutexes
    <3> QED
      BY <1>2, <3>1 DEF SetThreadPriority
  <2>3. Range(todo') = {} \/ \E ms \in SUBSET Mutex : Range(todo') = {UpdatePriorityEach(ms)}
    BY <2>2, StartRange
  <2> QED
    BY <2>1, <2>3 DEF SetsPriority
<1> QED
  BY <1>1, <1>2, SMT

(* ExitThread and SleepThread.                                             *)
LEMMA ExitFrame ==
    ASSUME IInv
    PROVE  /\ ExitThread => Exits
           /\ \A delay \in Delay : SleepThread(delay) => Falls
<1> USE DEF eventVars, syncVars, mutexVars, objectVars, arbiterVars
<1>1. ASSUME ExitThread PROVE Exits
  <2>1. Guest /\ Idle /\ current_thread \in Thread /\ status[current_thread] = "Running"
    BY <1>1, CurrentRuns DEF ExitThread
  <2>2. /\ status' = [status EXCEPT ![current_thread] = "Dead"]
        /\ wakeup_events' = [wakeup_events EXCEPT ![current_thread] = 0]
        /\ UNCHANGED <<nominal_priority, current_priority, held_mutexes, wait_objects>>
        /\ UNCHANGED <<waiting_threads, lock_count, holding_thread, priority>>
        /\ SignalsSame /\ reschedule_pending' = TRUE
        /\ UNCHANGED <<wait_address, wakeup_callback, arbiter_threads>>
    BY <1>1 DEF ExitThread, Stop, PrepareReschedule, SignalsSame
  <2>3. wait_objects[current_thread] = <<>>
    BY <2>1 DEF IInv, WaitListsExact, SynchStatus
  <2>4. PICK w \in Call, r \in Call :
            /\ w = WakeupAllWaitingThreads(current_thread)
            /\ r = ReleaseThreadMutexes(current_thread, held_mutexes[current_thread])
    <3>1. current_thread \in WaitObject /\ held_mutexes[current_thread] \in SUBSET Mutex
      BY <2>1 DEF WaitObject, IInv, TypeOK
    <3> QED
      BY <2>1, <3>1, CallTypes
  <2>5. todo' = <<w>> \o <<>> \o <<r>> \o <<>>
    BY <1>1, <2>3, <2>4 DEF ExitThread, Stop, LeaveWaitObjects
  <2>6. PICK a \in Seq(Call), b \in Seq(Call) : a = <<w>> /\ b = <<r>>
    <3>1. <<w>> \in Seq(Call) /\ <<r>> \in Seq(Call)
      BY SMT
    <3> QED
      BY <3>1
  <2>7. Range(todo') = {w, r}
    <3>1. todo' = a \o b
      <4>1. a \o <<>> = a /\ a \o b \in Seq(Call)
        BY ConcatNothing, SMT
      <4>2. (a \o b) \o <<>> = a \o b
        BY <4>1, ConcatNothing
      <4> QED
        BY <2>5, <2>6, <4>1, <4>2
    <3>2. Range(a \o b) = Range(a) \cup Range(b)
      BY ConcatRange, SMT
    <3>3. Range(a) = {w} /\ Range(b) = {r}
      BY <2>6, ShortOrdered
    <3> QED
      BY <3>1, <3>2, <3>3, SMT
  <2> QED
    BY <2>1, <2>2, <2>4, <2>7 DEF Exits, Yields
<1>2. ASSUME NEW delay \in Delay, SleepThread(delay) PROVE Falls
  <2>1. Guest /\ Idle /\ current_thread \in Thread /\ status[current_thread] = "Running"
    BY <1>2, CurrentRuns DEF SleepThread
  <2> QED
    BY <1>2, <2>1 DEF SleepThread, WakeAfterDelay, PrepareReschedule, SignalsSame,
                             Falls, Yields, Scheduled
<1> QED
  BY <1>1, <1>2, SMT

(* A wait takes objects that are free, or suspends the thread.             *)
LEMMA WaitFrame ==
    ASSUME IInv, NEW objs \in Seq(WaitObject), NoDuplicates => IsInjective(objs), NEW delay
    PROVE  /\ WaitSynchronizationAny(objs, delay) =>
                 Suspends("WaitSynchAny", objs) \/ \E taken : Takes(taken)
           /\ WaitSynchronizationAll(objs, delay) =>
                 Suspends("WaitSynchAll", objs) \/ \E taken : Takes(taken)
<1> USE DEF schedVars, threadVars, eventVars, syncVars, mutexVars, objectVars, arbiterVars,
            cpuVars
<1>1. Guest => Idle /\ current_thread \in Thread /\ status[current_thread] = "Running"
  BY CurrentRuns
<1>2. CanPass(objs) => Range(objs) \subseteq Thread \cup created
  BY DEF CanPass, Exists, Range
<1>3. ASSUME Guest, NEW taken \in Seq(WaitObject), NoDuplicates => IsInjective(taken),
             Range(taken) \subseteq Thread \cup created, AcquireNow(taken),
             \A x \in Range(taken) : ~ShouldWait(x, current_thread)
      PROVE  Takes(taken)
  <2>1. /\ ThreadsSame /\ ListsSame
        /\ UNCHANGED <<signaled, available_count, created, reschedule_pending>>
    BY <1>3 DEF AcquireNow, ThreadsSame, ListsSame
  <2>2. Range(todo') = {AcquireEach(current_thread, taken)}
    BY <1>3, StartRange DEF AcquireNow
  <2> QED
    BY <1>1, <1>3, <2>1, <2>2 DEF Takes
<1>4. ASSUME Guest, CanPass(objs), NEW how \in SynchStatus, Suspend(how, objs, delay),
             IF how = "WaitSynchAll" THEN \E x \in Range(objs) : ShouldWait(x, current_thread)
             ELSE \A x \in Range(objs) : ShouldWait(x, current_thread)
      PROVE  Suspends(how, objs)
  <2>1. Yields(how)
    BY <1>1, <1>4 DEF Suspend, Yields, SignalsSame, PrepareReschedule
  <2>2. /\ Scheduled /\ UNCHANGED <<wait_address, arbiter_threads>>
        /\ wakeup_callback' = [wakeup_callback EXCEPT ![current_thread] = "synch"]
    BY <1>4 DEF Suspend, Scheduled, WakeAfterDelay
  <2>3. todo' = IF objs = <<>> THEN <<>> ELSE <<AddWaitingThreadEach(current_thread, objs)>>
    BY <1>4 DEF Suspend
  <2>4. Range(todo') = IF objs = <<>> THEN {} ELSE {AddWaitingThreadEach(current_thread, objs)}
    BY <2>3, StartRange
  <2> QED
    BY <1>2, <1>4, <2>1, <2>2, <2>4 DEF Suspends
<1>5. ASSUME WaitSynchronizationAny(objs, delay)
      PROVE  Suspends("WaitSynchAny", objs) \/ \E taken : Takes(taken)
  <2>1. Guest /\ CanPass(objs)
    BY <1>5 DEF WaitSynchronizationAny
  <2>2. ASSUME NEW i \in DOMAIN objs, ~ShouldWait(objs[i], current_thread),
               AcquireNow(<<objs[i]>>)
        PROVE  \E taken : Takes(taken)
    <3>1. objs[i] \in WaitObject /\ objs[i] \in Range(objs)
      BY <2>2, SMT DEF Range
    <3>2. PICK s \in Seq(WaitObject) : s = <<objs[i]>>
      <4>1. <<objs[i]>> \in Seq(WaitObject)
        BY <3>1, SMT
      <4> QED
        BY <4>1
    <3>3. Range(s) = {objs[i]} /\ IsInjective(s)
      BY <3>2, SMT DEF Range, IsInjective
    <3>4. Range(s) \subseteq Thread \cup created
      BY <1>2, <2>1, <3>1, <3>3
    <3> QED
      BY <1>3, <2>1, <2>2, <3>2, <3>3, <3>4
  <2>3. ASSUME \A i \in DOMAIN objs : ShouldWait(objs[i], current_thread),
               Suspend("WaitSynchAny", objs, delay)
        PROVE  Suspends("WaitSynchAny", objs)
    <3>1. \A x \in Range(objs) : ShouldWait(x, current_thread)
      BY <2>3 DEF Range
    <3>2. "WaitSynchAny" \in SynchStatus /\ "WaitSynchAny" # "WaitSynchAll"
      BY DEF SynchStatus
    <3> QED
      BY <1>4, <2>1, <2>3, <3>1, <3>2
  <2> QED
    BY <1>5, <2>2, <2>3 DEF WaitSynchronizationAny
<1>6. ASSUME WaitSynchronizationAll(objs, delay)
      PROVE  Suspends("WaitSynchAll", objs) \/ \E taken : Takes(taken)
  <2>1. Guest /\ CanPass(objs)
    BY <1>6 DEF WaitSynchronizationAll
  <2>2. ASSUME \A i \in DOMAIN objs : ~ShouldWait(objs[i], current_thread), AcquireNow(objs)
        PROVE  \E taken : Takes(taken)
    <3>1. \A x \in Range(objs) : ~ShouldWait(x, current_thread)
      BY <2>2 DEF Range
    <3> QED
      BY <1>2, <1>3, <2>1, <2>2, <3>1
  <2>3. ASSUME NEW i \in DOMAIN objs, ShouldWait(objs[i], current_thread),
               Suspend("WaitSynchAll", objs, delay)
        PROVE  Suspends("WaitSynchAll", objs)
    <3>1. \E x \in Range(objs) : ShouldWait(x, current_thread)
      BY <2>3 DEF Range
    <3>2. "WaitSynchAll" \in SynchStatus
      BY DEF SynchStatus
    <3> QED
      BY <1>4, <2>1, <2>3, <3>1, <3>2
  <2> QED
    BY <1>6, <2>2, <2>3 DEF WaitSynchronizationAll
<1> QED
  BY <1>5, <1>6

(* CreateMutex of a mutex that is locked at once, and ReleaseMutex.        *)
LEMMA MutexFrame ==
    ASSUME IInv, NEW m \in Mutex
    PROVE  /\ CreateMutex(m, TRUE) => Takes(<<m>>)
           /\ ReleaseMutex(m) => Releases(m) \/ ReleasesOnce(m)
<1> USE DEF schedVars, threadVars, eventVars, objectVars, arbiterVars, cpuVars, mutexVars
<1>1. Guest => Idle /\ current_thread \in Thread /\ status[current_thread] = "Running"
  BY CurrentRuns
<1>2. ASSUME CreateMutex(m, TRUE) PROVE Takes(<<m>>)
  <2>1. /\ Guest /\ m \notin created /\ created' = created \cup {m}
        /\ todo' = <<AcquireEach(current_thread, <<m>>)>>
        /\ ThreadsSame /\ ListsSame
        /\ UNCHANGED <<signaled, available_count, reschedule_pending>>
    BY <1>2 DEF CreateMutex, ThreadsSame, ListsSame
  <2>2. <<m>> \in Seq(WaitObject) /\ IsInjective(<<m>>) /\ Range(<<m>>) = {m}
    BY SMT DEF WaitObject, IsInjective, Range
  <2>3. Range(todo') = {AcquireEach(current_thread, <<m>>)}
    BY <2>1, StartRange
  <2> QED
    BY <1>1, <2>1, <2>2, <2>3 DEF Takes
<1>3. ASSUME ReleaseMutex(m) PROVE Releases(m) \/ ReleasesOnce(m)
  <2>1. /\ Guest /\ holding_thread[m] = current_thread
        /\ lock_count' = [lock_count EXCEPT ![m] = lock_count[m] - 1]
        /\ UNCHANGED <<status, nominal_priority, wait_objects, wait_address, wakeup_callback,
                       wakeup_events, waiting_threads, priority, arbiter_threads>>
        /\ SignalsSame
    BY <1>3 DEF ReleaseMutex, SignalsSame
  <2>2. CASE lock_count[m] = 1
    <3>1. /\ held_mutexes' = [held_mutexes EXCEPT ![current_thread] =
                                  held_mutexes[current_thread] \ {m}]
          /\ current_priority' = [current_priority EXCEPT ![current_thread] =
                 BestPriority(current_thread, held_mutexes[current_thread] \ {m}, priority)]
          /\ holding_thread' = [holding_thread EXCEPT ![m] = NULL]
          /\ todo' = <<WakeupAllWaitingThreads(m)>> /\ reschedule_pending' = TRUE
      <4>1. ~(lock_count[m] > 1)
        BY <2>2, SMT
      <4> QED
        BY <1>3, <4>1 DEF ReleaseMutex, BoostPriority, PrepareReschedule
    <3>2. lock_count' = [lock_count EXCEPT ![m] = 0]
      BY <2>1, <2>2, SMT
    <3>3. Range(todo') = {WakeupAllWaitingThreads(m)}
      BY <3>1, StartRange
    <3> QED
      BY <1>1, <2>1, <3>1, <3>2, <3>3 DEF Releases
  <2>3. CASE lock_count[m] > 1
    <3>1. UNCHANGED <<held_mutexes, current_priority, holding_thread, todo, reschedule_pending>>
      <4>1. ~(lock_count[m] = 1)
        BY <2>3, SMT
      <4> QED
        BY <1>3, <4>1 DEF ReleaseMutex
    <3> QED
      BY <1>1, <2>1, <2>3, <3>1 DEF ReleasesOnce, ThreadsSame
  <2> QED
    BY <1>3, <2>2, <2>3 DEF ReleaseMutex
<1> QED
  BY <1>2, <1>3

(* ArbitrateAddress.                                                       *)
LEMMA ArbitrateFrame ==
    ASSUME IInv, NEW a \in Address, NEW v \in Int
    PROVE  /\ ArbitrateAddress(a, v) => Arbitrates(a) \/ Quiet
           /\ ArbitrateAddressSignal(a, v) => ArbiterSignals(a)
<1> USE DEF schedVars, threadVars, eventVars, syncVars, mutexVars, objectVars, arbiterVars,
            cpuVars
<1>1. Guest => Idle /\ current_thread \in Thread /\ status[current_thread] = "Running"
  BY CurrentRuns
<1>2. ASSUME ArbitrateAddress(a, v) PROVE Arbitrates(a) \/ Quiet
  <2>1. Guest
    BY <1>2 DEF ArbitrateAddress
  <2>2. ASSUME NEW decrement, NEW timed \in BOOLEAN, NEW delay,
               ArbitrateWait(current_thread, a, v, decrement, timed, delay)
        PROVE  Arbitrates(a)
    <3>1. Yields("WaitArb") /\ UNCHANGED todo
      BY <1>1, <2>1, <2>2 DEF ArbitrateWait, WaitThread, PrepareReschedule, Yields,
                                     SignalsSame
    <3>2. /\ wait_address' = [wait_address EXCEPT ![current_thread] = a]
          /\ arbiter_threads' = [arbiter_threads EXCEPT ![a] = Append(@, current_thread)]
      BY <2>2 DEF ArbitrateWait, WaitThread
    <3>3. \/ UNCHANGED <<wakeup_callback, wakeup_events>>
          \/ /\ wakeup_callback' = [wakeup_callback EXCEPT ![current_thread] = "arbiter"]
             /\ Scheduled
      BY <2>2 DEF ArbitrateWait, WaitThread, Scheduled
    <3> QED
      BY <3>1, <3>2, <3>3 DEF Arbitrates
  <2>3. ASSUME ArbitrateNone(a, v) PROVE Quiet
    BY <2>1, <2>3, QuietFrame
  <2> QED
    BY <1>2, <2>2, <2>3 DEF ArbitrateAddress
<1>3. ASSUME ArbitrateAddressSignal(a, v) PROVE ArbiterSignals(a)
  <2>1. /\ Idle /\ ThreadsSame /\ ListsSame /\ SignalsSame /\ reschedule_pending' = TRUE
        /\ todo' = <<ResumeHighest(a, v)>>
    BY <1>1, <1>3 DEF ArbitrateAddressSignal, ArbitrateSignal, PrepareReschedule,
                             ThreadsSame, ListsSame, SignalsSame
  <2>2. Range(todo') = {ResumeHighest(a, v)}
    BY <2>1, StartRange
  <2> QED
    BY <2>1, <2>2 DEF ArbiterSignals
<1> QED
  BY <1>2, <1>3

(* ThreadWakeupCallback.                                                   *)
LEMMA TimeoutFrame ==
    ASSUME IInv, NEW t \in Thread, ThreadWakeupCallback(t)
    PROVE  TimesOut(t)
<1> USE DEF schedVars, threadVars, mutexVars, objectVars, cpuVars
<1>1. /\ Idle /\ wakeup_events[t] > 0
      /\ wakeup_events' = [wakeup_events EXCEPT ![t] = wakeup_events[t] - 1]
      /\ UNCHANGED <<status, nominal_priority, current_priority, held_mutexes, wait_objects,
                     wait_address, wakeup_callback>>
      /\ UNCHANGED <<waiting_threads, lock_count, holding_thread, priority,
                     reschedule_pending>>
      /\ SignalsSame
      /\ arbiter_threads' =
             IF status[t] = "WaitArb" /\ wakeup_callback[t] = "arbiter"
             THEN [arbiter_threads EXCEPT ![wait_address[t]] = RemoveFirst(@, t)]
             ELSE arbiter_threads
  BY DEF ThreadWakeupCallback, SignalsSame
<1>2. PICK r \in Call, w \in Call : r = RemoveWaitingThreadEach(t) /\ w = ResumeFromWait(t)
  BY CallTypes
<1>3. PICK a \in Seq(Call), b \in Seq(Call) : a = <<r>> /\ b = <<w>>
  <2>1. <<r>> \in Seq(Call) /\ <<w>> \in Seq(Call)
    BY SMT
  <2> QED
    BY <2>1
<1>4. wait_objects[t] # <<>> => status[t] \in SynchStatus
  BY DEF IInv, WaitListsExact
<1>5. \/ wait_objects[t] = <<>> /\ (todo' = <<>> \o b \/ todo' = b)
      \/ wait_objects[t] # <<>> /\ todo' = a \o b
  BY <1>2, <1>3, <1>4 DEF ThreadWakeupCallback, LeaveWaitObjects
<1>6. <<>> \o b = b /\ Range(a \o b) = Range(a) \cup Range(b)
  BY ConcatNothing, ConcatRange, SMT
<1>7. Range(a) = {r} /\ Range(b) = {w}
  BY <1>3, ShortOrdered
<1>8. Range(todo') = IF wait_objects[t] = <<>> THEN {w} ELSE {r, w}
  <2>1. {r} \cup {w} = {r, w}
    OBVIOUS
  <2> QED
    BY <1>5, <1>6, <1>7, <2>1
<1> QED
  BY <1>1, <1>2, <1>8 DEF TimesOut

(* The order of the priorities is total.                                   *)
LEMMA PriorityOrder ==
    \A a, b \in Priority : /\ a < b => a <= b
                           /\ ~(a < b) => b <= a
<1>1. \A a, b \in Int : /\ a < b => a <= b
                        /\ ~(a < b) => b <= a
  BY SMT
<1>2. Priority \subseteq Int
  BY ThreadsAssumption, SMTT(30) DEF Priority
<1> QED
  BY <1>1, <1>2

(* The levels that the pops look at have the ready threads.                *)
LEMMA ReadyLevels ==
    ASSUME IInv, NEW u \in Thread, status[u] = "Ready"
    PROVE  /\ current_priority[u] \in linked /\ queues[current_priority[u]] # <<>>
           /\ \A p \in Priority : FirstLevel(p) => p <= current_priority[u]
<1>1. PICK c \in Priority : c = current_priority[u]
  BY DEF IInv, TypeOK
<1>2. c \in linked /\ u \in Range(queues[c])
  BY <1>1 DEF IInv, ReadyQueueExact
<1>3. queues[c] # <<>>
  <2>1. Range(<<>>) = {}
    BY SMT DEF Range
  <2> QED
    BY <1>2, <2>1
<1>4. \A p \in Priority : FirstLevel(p) => p <= c
  BY <1>2, <1>3 DEF FirstLevel
<1> QED
  BY <1>1, <1>2, <1>3, <1>4, SMTT(30)

(* SwitchContext to the first thread of the first level.                   *)
LEMMA SwitchFrame ==
    ASSUME IInv, NEW p \in Priority, FirstLevel(p),
           SwitchContext(Head(queues[p]), [queues EXCEPT ![p] = Tail(@)])
    PROVE  \E t \in Thread :
             /\ status[t] = "Ready" /\ current_priority[t] = p
             /\ status'[t] = "Running" /\ wakeup_events'[t] = 0
             /\ \A u \in Thread \ {t} :
                   /\ wakeup_events'[u] = wakeup_events[u]
                   /\ status'[u] = IF status[u] = "Running" THEN "Ready" ELSE status[u]
<1>1. queues[p] # <<>> /\ queues[p] \in Seq(Thread)
  BY DEF FirstLevel, IInv, TypeOK
<1>2. PICK t \in Thread : t = Head(queues[p]) /\ t \in Range(queues[p])
  BY <1>1, TailRange
<1>3. status[t] = "Ready" /\ current_priority[t] = p
  BY <1>2 DEF IInv, ReadyQueueExact
<1>4. PICK back \in BOOLEAN : back = (current_thread # NULL /\ status[current_thread] = "Running")
  OBVIOUS
<1>5. /\ status' = [s \in Thread |-> IF s = t THEN "Running"
                                     ELSE IF back /\ s = current_thread THEN "Ready"
                                     ELSE status[s]]
      /\ wakeup_events' = [wakeup_events EXCEPT ![t] = 0]
  BY <1>2, <1>4 DEF SwitchContext
<1>6. wakeup_events \in [Thread -> Nat]
  BY DEF IInv, TypeOK
<1>7. \A u \in Thread : status[u] = "Running" <=> back /\ u = current_thread
  BY <1>4, ThreadsAssumption DEF IInv, CpuInv, WaitObject
<1>8. wakeup_events'[t] = 0 /\ \A u \in Thread \ {t} : wakeup_events'[u] = wakeup_events[u]
  BY <1>5, <1>6
<1>9. /\ status'[t] = "Running"
      /\ \A u \in Thread \ {t} :
            status'[u] = IF back /\ u = current_thread THEN "Ready" ELSE status[u]
  BY <1>5
<1>10. \A u \in Thread \ {t} :
            status'[u] = IF status[u] = "Running" THEN "Ready" ELSE status[u]
  BY <1>7, <1>9
<1> QED
  BY <1>3, <1>8, <1>9, <1>10

(* System::Reschedule.                                                     *)
LEMMA RescheduleFrame ==
    ASSUME IInv, Reschedule
    PROVE  Reschedules
<1>1. /\ Idle /\ UNCHANGED todo /\ reschedule_pending' = FALSE
      /\ UNCHANGED <<nominal_priority, current_priority, held_mutexes, wait_objects,
                     wait_address, wakeup_callback>>
      /\ ListsSame /\ SignalsSame
  BY DEF Reschedule, ListsSame, SignalsSame, syncVars, mutexVars, objectVars, arbiterVars
<1>2. /\ current_priority \in [Thread -> Priority] /\ Priority \subseteq Nat
      /\ wakeup_events \in [Thread -> Nat] /\ status \in [Thread -> Status]
      /\ reschedule_pending \in BOOLEAN
  BY ThreadsAssumption, SMTT(30) DEF IInv, TypeOK, Priority
<1>3. \A u \in Thread : status[u] = "Running" => u = current_thread /\ current_thread # NULL
  BY ThreadsAssumption DEF IInv, CpuInv, WaitObject
<1>4. CASE \E p \in Priority :
               /\ reschedule_pending /\ FirstLevel(p)
               /\ current_thread # NULL /\ status[current_thread] = "Running" =>
                      p < current_priority[current_thread]
               /\ SwitchContext(Head(queues[p]), [queues EXCEPT ![p] = Tail(@)])
  <2>1. PICK p \in Priority :
               /\ reschedule_pending /\ FirstLevel(p)
               /\ current_thread # NULL /\ status[current_thread] = "Running" =>
                      p < current_priority[current_thread]
               /\ SwitchContext(Head(queues[p]), [queues EXCEPT ![p] = Tail(@)])
    BY <1>4
  <2>2. PICK t \in Thread :
             /\ status[t] = "Ready" /\ current_priority[t] = p
             /\ status'[t] = "Running" /\ wakeup_events'[t] = 0
             /\ \A u \in Thread \ {t} :
                   /\ wakeup_events'[u] = wakeup_events[u]
                   /\ status'[u] = IF status[u] = "Running" THEN "Ready" ELSE status[u]
    BY <2>1, SwitchFrame
  <2>3. \A u \in Thread : status[u] = "Ready" => p <= current_priority[u]
    BY <2>1, ReadyLevels
  <2>4. \A u \in Thread : status[u] = "Running" => p < current_priority[u]
    BY <1>3, <2>1
  <2>5. \A u \in Thread : status'[u] = "Running" => u = t
    BY <2>2
  <2>6. \A u \in Thread : status'[u] = "Ready" => status[u] \in {"Ready", "Running"}
    BY <2>2
  <2>7. \A u \in Thread : status'[u] = "Ready" => p <= current_priority[u]
    <3>1. ASSUME NEW u \in Thread, status'[u] = "Ready"
          PROVE  p <= current_priority[u]
      <4>1. p \in Priority /\ current_priority[u] \in Priority
        BY <1>2
      <4>2. p <= current_priority[u] \/ p < current_priority[u]
        BY <2>3, <2>4, <2>6, <3>1
      <4> QED
        BY <4>1, <4>2, PriorityOrder
    <3> QED
      BY <3>1
  <2>8. \A v, u \in Thread : status'[v] = "Running" /\ status'[u] = "Ready" =>
               current_priority[v] <= current_priority[u]
    BY <2>2, <2>5, <2>7
  <2>9. \A u \in Thread :
           /\ wakeup_events'[u] \in {0, wakeup_events[u]}
           /\ status'[u] = "Running" => wakeup_events'[u] = 0 \/ status[u] = "Running"
    BY <2>2
  <2>10. \A u \in Thread : \/ status'[u] = status[u]
                           \/ /\ status[u] \in {"Ready", "Running"}
                              /\ status'[u] \in {"Ready", "Running"}
    BY <2>2
  <2>11. \A v \in Thread : status[v] = "Running" /\ status'[v] = "Ready" =>
           \E u \in Thread : status'[u] = "Running" /\ current_priority[u] < current_priority[v]
    BY <2>2, <2>4
  <2> QED
    BY <1>1, <2>1, <2>8, <2>9, <2>10, <2>11 DEF Reschedules
<1>5. CASE /\ current_thread # NULL /\ status[current_thread] = "Running"
           /\ \A p \in linked : p < current_priority[current_thread] => queues[p] = <<>>
           /\ wakeup_events' = [wakeup_events EXCEPT ![current_thread] = 0]
           /\ UNCHANGED <<queues, status, current_thread>>
  <2>1. \A u \in Thread : wakeup_events'[u] \in {0, wakeup_events[u]}
    BY <1>2, <1>5
  <2>2. ASSUME NEW t \in Thread, NEW u \in Thread, status[t] = "Running", status[u] = "Ready"
        PROVE  current_priority[t] <= current_priority[u]
    <3>1. t = current_thread
      BY <1>3, <2>2
    <3>2. current_priority[u] \in linked /\ queues[current_priority[u]] # <<>>
      BY <2>2, ReadyLevels
    <3>3. ~(current_priority[u] < current_priority[t])
      BY <1>5, <3>1, <3>2
    <3>4. current_priority[t] \in Priority /\ current_priority[u] \in Priority
      BY <1>2
    <3> QED
      BY <3>3, <3>4, PriorityOrder
  <2>3. \A t \in Thread : ~(status[t] = "Running" /\ status'[t] = "Ready")
    BY <1>5
  <2> QED
    BY <1>1, <1>5, <2>1, <2>2, <2>3 DEF Reschedules
<1>6. CASE /\ ~(current_thread # NULL /\ status[current_thread] = "Running")
           /\ UNCHANGED <<queues, status, wakeup_events>>
  <2>1. \A u \in Thread : status[u] # "Running" /\ wakeup_events'[u] \in {0, wakeup_events[u]}
    BY <1>3, <1>6
  <2> QED
    BY <1>1, <1>6, <2>1 DEF Reschedules
<1>7. CASE ~reschedule_pending /\ UNCHANGED <<queues, status, current_thread, wakeup_events>>
  <2>1. \A u \in Thread : /\ wakeup_events'[u] \in {0, wakeup_events[u]}
                          /\ status[u] = status'[u]
                          /\ ~(status[u] = "Running" /\ status'[u] = "Ready")
    BY <1>7
  <2> QED
    BY <1>1, <1>7, <2>1 DEF Reschedules
<1> QED
  BY <1>4, <1>5, <1>6, <1>7 DEF Reschedule, SwitchToBest
-----------------------------------------------------------------------------
(* A step outside the routines, by what it does.                           *)
Outside ==
    \/ Quiet
    \/ \E o \in WaitObject : Signals(o)
    \/ \E objs : Takes(objs)
    \/ Falls \/ Exits \/ Reschedules
    \/ \E how, objs : Suspends(how, objs)
    \/ \E a \in Address : Arbitrates(a) \/ ArbiterSignals(a)
    \/ \E t \in Thread, p \in Priority : Creates(t, p) \/ SetsPriority(t, p)
    \/ \E m \in Mutex : Releases(m) \/ ReleasesOnce(m)
    \/ \E t \in Thread : TimesOut(t)

(* WaitSynchronization1 and WaitSynchronizationN.                          *)
LEMMA WaitKind ==
    ASSUME IInv, NEW objs \in WaitLists, NEW delay \in Timeouts,
           \/ WaitSynchronizationAny(objs, delay) \/ WaitSynchronizationAll(objs, delay)
           \/ Len(objs) = 1 /\ WaitSynchronization1(objs[1], delay)
    PROVE  Outside
<1>1. objs \in Seq(WaitObject) /\ (NoDuplicates => IsInjective(objs))
  BY KernelAssumption DEF NoDuplicates
<1>2. CASE Len(objs) = 1 /\ WaitSynchronization1(objs[1], delay)
  <2>1. PICK one \in Seq(WaitObject) : one = <<objs[1]>> /\ IsInjective(one)
    BY <1>1, <1>2, SMT DEF IsInjective
  <2>2. WaitSynchronizationAny(one, delay)
    BY <1>2, <2>1 DEF WaitSynchronization1
  <2>3. Suspends("WaitSynchAny", one) \/ \E taken : Takes(taken)
    BY <2>1, <2>2, WaitFrame
  <2> QED
    BY <2>3 DEF Outside
<1>3. CASE WaitSynchronizationAny(objs, delay)
  <2>1. Suspends("WaitSynchAny", objs) \/ \E taken : Takes(taken)
    BY <1>1, <1>3, WaitFrame
  <2> QED
    BY <2>1 DEF Outside
<1>4. CASE WaitSynchronizationAll(objs, delay)
  <2>1. Suspends("WaitSynchAll", objs) \/ \E taken : Takes(taken)
    BY <1>1, <1>4, WaitFrame
  <2> QED
    BY <2>1 DEF Outside
<1> QED
  BY <1>2, <1>3, <1>4

(* The system calls.                                                       *)
LEMMA SystemCallKind ==
    ASSUME IInv, SystemCall
    PROVE  Outside
<1>1. /\ CreatePriorities \subseteq Priority /\ SetPriorities \subseteq Priority
      /\ Sleeps \subseteq Delay /\ Values \subseteq Int /\ ReleaseCounts \subseteq Int
      /\ SignalCounts \subseteq Int
  BY KernelAssumption
<1>2. CASE \E t \in Thread, p \in CreatePriorities : CreateThread(t, p)
  BY <1>1, <1>2, PriorityFrame DEF Outside
<1>3. CASE \E t \in Thread, p \in SetPriorities : SetThreadPriority(t, p)
  BY <1>1, <1>3, PriorityFrame DEF Outside
<1>4. CASE ExitThread \/ \E delay \in Sleeps : SleepThread(delay)
  BY <1>1, <1>4, ExitFrame DEF Outside
<1>5. CASE \E objs \in WaitLists, delay \in Timeouts :
               \/ WaitSynchronizationAny(objs, delay) \/ WaitSynchronizationAll(objs, delay)
               \/ Len(objs) = 1 /\ WaitSynchronization1(objs[1], delay)
  BY <1>5, WaitKind
<1>6. CASE \E m \in Mutex : ReleaseMutex(m) \/ \E locked \in BOOLEAN : CreateMutex(m, locked)
  <2>1. PICK m \in Mutex : ReleaseMutex(m) \/ CreateMutex(m, TRUE) \/ CreateMutex(m, FALSE)
    BY <1>6
  <2>2. CASE CreateMutex(m, FALSE)
    <3>1. Quiet
      BY <2>2, QuietFrame
    <3> QED
      BY <3>1 DEF Outside
  <2>3. CASE ReleaseMutex(m) \/ CreateMutex(m, TRUE)
    <3>1. Takes(<<m>>) \/ Releases(m) \/ ReleasesOnce(m)
      BY <2>3, MutexFrame
    <3> QED
      BY <3>1 DEF Outside
  <2> QED
    BY <2>1, <2>2, <2>3
<1>7. CASE \/ \E s \in Semaphore, n \in ReleaseCounts : ReleaseSemaphore(s, n)
           \/ \E tm \in Timer : \E periodic \in BOOLEAN : SetTimer(tm, TRUE, periodic)
  <2>1. \E o \in WaitObject : Signals(o)
    BY <1>1, <1>7, SignalFrame
  <2> QED
    BY <2>1 DEF Outside
<1>8. CASE \/ \E s \in Semaphore, n \in ReleaseCounts : CreateSemaphore(s, n)
           \/ \E e \in Event : CreateEvent(e) \/ ClearEvent(e)
           \/ \E tm \in Timer : CreateTimer(tm) \/ ClearTimer(tm) \/ CancelTimer(tm)
           \/ \E tm \in Timer : \E periodic \in BOOLEAN : SetTimer(tm, FALSE, periodic)
           \/ \E a \in Address, v \in Values : Store(a, v)
  <2>1. Quiet
    BY <1>1, <1>8, QuietFrame DEF CreateEvent, ClearEvent, CreateTimer, ClearTimer
  <2> QED
    BY <2>1 DEF Outside
<1>9. CASE \/ \E a \in Address, v \in Values : ArbitrateAddress(a, v)
           \/ \E a \in Address, n \in SignalCounts : ArbitrateAddressSignal(a, n)
  BY <1>1, <1>9, ArbitrateFrame DEF Outside
<1> QED
  <2>1. \A tm \in Timer : \A now, periodic \in BOOLEAN : SetTimer(tm, now, periodic) =>
            SetTimer(tm, TRUE, periodic) \/ SetTimer(tm, FALSE, periodic)
    OBVIOUS
  <2> QED
    BY <1>2, <1>3, <1>4, <1>5, <1>6, <1>7, <1>8, <1>9, <2>1 DEF SystemCall

(* Every step is one of a routine or one of those kinds.                   *)
LEMMA StepKinds ==
    ASSUME IInv, [Next]_vars
    PROVE  Continue \/ Outside
<1>1. CASE Fire
  <2>1. CASE \E tm \in Timer : TimerCallback(tm)
    <3>1. \E o \in WaitObject : Signals(o)
      BY <2>1, SignalFrame
    <3> QED
      BY <3>1 DEF Outside
  <2>2. CASE \E t \in Thread : ThreadWakeupCallback(t)
    BY <2>2, TimeoutFrame DEF Outside
  <2> QED
    BY <1>1, <2>1, <2>2 DEF Fire
<1>2. CASE \E e \in Event : Signal(e)
  <2>1. \E o \in WaitObject : Signals(o)
    BY <1>2, SignalFrame
  <2> QED
    BY <2>1 DEF Outside
<1>3. CASE EndAdvance \/ EndSlice \/ UNCHANGED vars
  <2>1. Quiet
    BY <1>3, QuietFrame
  <2> QED
    BY <2>1 DEF Outside
<1>4. CASE Reschedule
  BY <1>4, RescheduleFrame DEF Outside
<1> QED
  BY <1>1, <1>2, <1>3, <1>4, SystemCallKind DEF Next, RunLoop
-----------------------------------------------------------------------------
(* Timeouts.  A thread that does not wait has no wakeup callback, and one  *)
(* that waits for the arbiter with a timeout has the arbiter's.            *)
EventInv ==
    \A t \in Thread :
        /\ wakeup_events[t] \in {0, 1}
        /\ wakeup_events[t] # 0 => status[t] \in WaitStatus \cup {"Ready"}
        /\ status[t] \in {"Dormant", "Ready", "Running"} => wakeup_callback[t] = NULL
        /\ status[t] = "WaitArb" /\ wakeup_events[t] # 0 => wakeup_callback[t] = "arbiter"

(* The invariant of the timeouts gives the property.                       *)
LEMMA EventSound == EventInv => WakeupEventsSound
  BY SMT DEF EventInv, WakeupEventsSound

(* No thread has a timeout in the initial state.                           *)
LEMMA EventInit == Init => EventInv
<1> SUFFICES ASSUME Init PROVE EventInv
  OBVIOUS
<1>1. \A t \in Thread : wakeup_events[t] = 0 /\ wakeup_callback[t] = NULL
  BY DEF Init
<1> QED
  BY <1>1 DEF EventInv

(* The current thread has no wakeup scheduled while it runs.               *)
LEMMA ScheduledOnce ==
    ASSUME IInv, EventInv, NEW v, Yields(v), Scheduled
    PROVE  /\ wakeup_events[current_thread] = 0 /\ wakeup_callback[current_thread] = NULL
           /\ wakeup_events'[current_thread] \in {0, 1}
           /\ \A u \in Thread \ {current_thread} :
                 wakeup_events'[u] = wakeup_events[u] /\ status'[u] = status[u]
           /\ status'[current_thread] = v
<1>1. /\ wakeup_events \in [Thread -> Nat] /\ status \in [Thread -> Status]
      /\ current_thread \in Thread /\ status[current_thread] = "Running"
      /\ status' = [status EXCEPT ![current_thread] = v]
  BY DEF IInv, TypeOK, Yields
<1>2. wakeup_events[current_thread] = 0
  BY <1>1 DEF EventInv, WaitStatus, SynchStatus
<1>3. wakeup_callback[current_thread] = NULL
  BY <1>1 DEF EventInv
<1> QED
  BY <1>1, <1>2, <1>3, SMT DEF Scheduled

(* A step that makes no wait and schedules no timeout.                     *)
LEMMA EventFrame ==
    ASSUME IInv, EventInv,
           /\ \A u \in Thread : wakeup_events'[u] \in {0, wakeup_events[u]}
           /\ \A u \in Thread : wakeup_callback'[u] = wakeup_callback[u]
           /\ \A u \in Thread : \/ status'[u] = status[u]
                                \/ /\ status[u] \in {"Dormant", "Ready", "Running"}
                                   /\ status'[u] \in {"Ready", "Running"}
                                   /\ status'[u] = "Running" => wakeup_events'[u] = 0
                                \/ status'[u] = "Dead" /\ wakeup_events'[u] = 0
    PROVE  EventInv'
  BY DEF EventInv, WaitStatus, SynchStatus

(* Every step of the kernel keeps the invariant of the timeouts.           *)
LEMMA EventNext == IInv /\ EventInv /\ [Next]_vars => EventInv'
<1> SUFFICES ASSUME IInv, EventInv, [Next]_vars PROVE EventInv'
  OBVIOUS
<1>0. /\ wakeup_events \in [Thread -> Nat] /\ status \in [Thread -> Status]
      /\ wakeup_callback \in [Thread -> {NULL, "synch", "arbiter"}]
  BY DEF IInv, TypeOK
<1>1. CASE UNCHANGED <<status, wakeup_callback, wakeup_events>>
  BY <1>1, EventFrame
<1>2. CASE Resume
  <2>1. PICK t \in Thread :
           /\ UNCHANGED wakeup_events
           /\ \/ UNCHANGED <<status, wakeup_callback>>
              \/ /\ wakeup_callback' = [wakeup_callback EXCEPT ![t] = NULL]
                 /\ status' = [status EXCEPT ![t] = "Ready"]
    BY <1>2, ResumeFrame
  <2> QED
    BY <1>0, <1>1, <2>1 DEF EventInv, WaitStatus, SynchStatus
<1>3. CASE Falls
  <2>1. Yields("WaitSleep") /\ Scheduled /\ UNCHANGED wakeup_callback
    BY <1>3 DEF Falls
  <2>2. /\ wakeup_events'[current_thread] \in {0, 1}
        /\ \A u \in Thread \ {current_thread} :
              wakeup_events'[u] = wakeup_events[u] /\ status'[u] = status[u]
        /\ status'[current_thread] = "WaitSleep"
    BY <2>1, ScheduledOnce
  <2> QED
    BY <1>0, <2>1, <2>2 DEF EventInv, WaitStatus, SynchStatus
<1>4. CASE \E how, objs : Suspends(how, objs)
  <2>1. PICK how \in SynchStatus :
            /\ Yields(how) /\ Scheduled
            /\ wakeup_callback' = [wakeup_callback EXCEPT ![current_thread] = "synch"]
    BY <1>4 DEF Suspends
  <2>2. /\ wakeup_events'[current_thread] \in {0, 1}
        /\ \A u \in Thread \ {current_thread} :
              wakeup_events'[u] = wakeup_events[u] /\ status'[u] = status[u]
        /\ status'[current_thread] = how
    BY <2>1, ScheduledOnce
  <2> QED
    BY <1>0, <2>1, <2>2 DEF EventInv, WaitStatus, SynchStatus
<1>5. CASE \E a \in Address : Arbitrates(a)
  <2>1. /\ Yields("WaitArb") /\ Scheduled
        /\ \/ UNCHANGED <<wakeup_callback, wakeup_events>>
           \/ wakeup_callback' = [wakeup_callback EXCEPT ![current_thread] = "arbiter"]
    BY <1>5 DEF Arbitrates, Scheduled
  <2>2. /\ wakeup_events[current_thread] = 0
        /\ wakeup_events'[current_thread] \in {0, 1}
        /\ \A u \in Thread \ {current_thread} :
              wakeup_events'[u] = wakeup_events[u] /\ status'[u] = status[u]
        /\ status'[current_thread] = "WaitArb"
    BY <2>1, ScheduledOnce
  <2> QED
    BY <1>0, <2>1, <2>2 DEF EventInv, WaitStatus, SynchStatus
<1>6. CASE Exits
  <2>1. /\ current_thread \in Thread /\ status' = [status EXCEPT ![current_thread] = "Dead"]
        /\ wakeup_events' = [wakeup_events EXCEPT ![current_thread] = 0]
        /\ UNCHANGED wakeup_callback
    BY <1>6 DEF Exits, Yields
  <2> QED
    BY <1>0, <2>1, EventFrame
<1>7. CASE \E t \in Thread, p \in Priority : Creates(t, p)
  <2>1. PICK t \in Thread :
           /\ status[t] = "Dormant" /\ status' = [status EXCEPT ![t] = "Ready"]
           /\ UNCHANGED <<wakeup_callback, wakeup_events>>
    BY <1>7 DEF Creates
  <2>2. "Ready" # "Running"
    OBVIOUS
  <2> QED
    BY <1>0, <2>1, <2>2, EventFrame
<1>8. CASE \E t \in Thread : TimesOut(t)
  <2>1. PICK t \in Thread :
           /\ wakeup_events[t] > 0
           /\ wakeup_events' = [wakeup_events EXCEPT ![t] = wakeup_events[t] - 1]
           /\ UNCHANGED <<status, wakeup_callback>>
    BY <1>8 DEF TimesOut
  <2>2. wakeup_events[t] = 1
    BY <1>0, <2>1, SMT DEF EventInv
  <2>3. wakeup_events' = [wakeup_events EXCEPT ![t] = 0]
    BY <2>1, <2>2, SMT
  <2> QED
    BY <1>0, <2>1, <2>3, EventFrame
<1>9. CASE Reschedules
  <2>1. /\ UNCHANGED wakeup_callback
        /\ \A u \in Thread : \/ status'[u] = status[u]
                             \/ /\ status[u] \in {"Ready", "Running"}
                                /\ status'[u] \in {"Ready", "Running"}
        /\ \A u \in Thread : wakeup_events'[u] \in {0, wakeup_events[u]}
        /\ \A u \in Thread : status'[u] = "Running" =>
               wakeup_events'[u] = 0 \/ status[u] = "Running"
    BY <1>9 DEF Reschedules
  <2> QED
    BY <2>1, EventFrame
<1>10. CASE Outside
  <2>1. \/ UNCHANGED <<status, wakeup_callback, wakeup_events>>
        \/ Falls \/ Exits \/ Reschedules
        \/ \E how, objs : Suspends(how, objs)
        \/ \E a \in Address : Arbitrates(a)
        \/ \E t \in Thread, p \in Priority : Creates(t, p)
        \/ \E t \in Thread : TimesOut(t)
    BY <1>10 DEF Outside, Quiet, Signals, Takes, ArbiterSignals, SetsPriority,
       Releases, ReleasesOnce, ThreadsSame
  <2> QED
    BY <1>1, <1>3, <1>4, <1>5, <1>6, <1>7, <1>8, <1>9, <2>1
<1>11. CASE Continue
  <2>1. Resume \/ UNCHANGED <<status, wakeup_callback, wakeup_events>>
    BY <1>11, WakeupFrame, AcquireFrame, AddFrame, RemoveFrame, ReleaseFrame, UpdateFrame,
       ArbiterFrame DEF Continue
  <2> QED
    BY <1>1, <1>2, <2>1
<1> QED
  BY <1>10, <1>11, StepKinds
-----------------------------------------------------------------------------
(* Timers: Timer::Set, Cancel and Signal are all that schedules or cancels *)
(* the callback of a timer.                                                *)
LEMMA TimerSteps ==
    ASSUME IInv, [Next]_vars
    PROVE  \/ UNCHANGED timer_events
           \/ \E tm \in Timer, n \in {0, 1} :
                 timer_events' = [timer_events EXCEPT ![tm] = n]
           \/ \E tm \in Timer : TimerCallback(tm)
<1>1. CASE Continue
  BY <1>1, WakeupFrame, AcquireFrame, AddFrame, RemoveFrame, ReleaseFrame, UpdateFrame,
     ResumeFrame, ArbiterFrame DEF Continue
<1>2. CASE SystemCall
  <2>1. CASE \/ \E t \in Thread, p \in CreatePriorities : CreateThread(t, p)
             \/ \E t \in Thread, p \in SetPriorities : SetThreadPriority(t, p)
             \/ ExitThread
             \/ \E delay \in Sleeps : SleepThread(delay)
    BY <2>1 DEF CreateThread, SetThreadPriority, ExitThread, SleepThread, eventVars
  <2>2. CASE \E objs, delay : WaitSynchronizationAny(objs, delay)
                                  \/ WaitSynchronizationAll(objs, delay)
    BY <2>2 DEF WaitSynchronizationAny, WaitSynchronizationAll, AcquireNow, Suspend,
       eventVars
  <2>3. CASE \/ \E m \in Mutex : ReleaseMutex(m) \/ \E locked \in BOOLEAN : CreateMutex(m, locked)
             \/ \E s \in Semaphore, n \in ReleaseCounts :
                   ReleaseSemaphore(s, n) \/ CreateSemaphore(s, n)
             \/ \E e \in Event : CreateEvent(e) \/ ClearEvent(e)
    BY <2>3 DEF ReleaseMutex, CreateMutex, ReleaseSemaphore, CreateSemaphore,
       CreateEvent, ClearEvent, CreateSignal, Clear, eventVars
  <2>4. CASE \E tm \in Timer : CreateTimer(tm) \/ ClearTimer(tm) \/ CancelTimer(tm)
    BY <2>4 DEF CreateTimer, ClearTimer, CancelTimer, CreateSignal, Clear, eventVars
  <2>5. CASE \E tm \in Timer : \E now, periodic \in BOOLEAN : SetTimer(tm, now, periodic)
    BY <2>5 DEF SetTimer
  <2>6. CASE \E a \in Address : \/ \E v \in Values : ArbitrateAddress(a, v) \/ Store(a, v)
                                \/ \E n \in SignalCounts : ArbitrateAddressSignal(a, n)
    BY <2>6 DEF ArbitrateAddress, ArbitrateWait, ArbitrateNone, Store,
       ArbitrateAddressSignal, ArbitrateSignal, eventVars
  <2> QED
    BY <1>2, <2>1, <2>2, <2>3, <2>4, <2>5, <2>6 DEF SystemCall, WaitSynchronization1
<1>3. CASE Fire
  BY <1>3 DEF Fire, ThreadWakeupCallback
<1>4. CASE RunLoop \/ UNCHANGED vars \/ \E e \in Event : Signal(e)
  BY <1>4 DEF RunLoop, EndAdvance, EndSlice, Reschedule, Signal, vars, eventVars
<1> QED
  BY <1>1, <1>2, <1>3, <1>4 DEF Next

(* Every step of the kernel keeps at most one event of each timer.         *)
LEMMA TimersNext == IInv /\ TimerEventsUnique /\ [Next]_vars => TimerEventsUnique'
<1> SUFFICES ASSUME IInv, TimerEventsUnique, [Next]_vars PROVE TimerEventsUnique'
  OBVIOUS
<1>0. timer_events \in [Timer -> Nat]
  BY DEF IInv, TypeOK
<1>1. CASE UNCHANGED timer_events
  BY <1>1 DEF TimerEventsUnique
<1>2. CASE \E tm \in Timer, n \in {0, 1} : timer_events' = [timer_events EXCEPT ![tm] = n]
  BY <1>0, <1>2, SMT DEF TimerEventsUnique
<1>3. CASE \E tm \in Timer : TimerCallback(tm)
  <2>1. PICK tm \in Timer :
           timer_events' = [timer_events EXCEPT ![tm] = IF interval[tm] THEN timer_events[tm]
                                                        ELSE timer_events[tm] - 1]
    BY <1>3 DEF TimerCallback
  <2> QED
    BY <1>0, <2>1, SMT DEF TimerEventsUnique
<1> QED
  BY <1>1, <1>2, <1>3, TimerSteps
-----------------------------------------------------------------------------
(* Mutexes.  What holds of a call a routine has still to make: the thread  *)
(* it is about is in the right state, and a thread that exits releases all *)
(* it holds.                                                               *)
CallInv(c) ==
    /\ c.op = "add" => Range(todo) = {c} /\ reschedule_pending
    /\ c.op = "update" => reschedule_pending
    /\ c.op = "acquire" => status[c.thread] \in SynchStatus \cup {"Running"}
    /\ c.op = "remove" => Pending(ResumeFromWait(c.thread))
    /\ c.op = "resume" =>
          /\ status[c.thread] \in WaitStatus \cup {"Ready"}
          /\ wait_objects[c.thread] = <<>> \/ Pending(RemoveWaitingThreadEach(c.thread))
    /\ c.op = "release" =>
          /\ status[c.thread] = "Dead"
          /\ \A mx \in Mutex : holding_thread[mx] = c.thread <=> mx \in c.mutexes

CallsInv == \A c \in Range(todo) : CallInv(c)

(* A mutex in the set of a thread that is not its holder is one that a     *)
(* dead thread is about to drop.                                           *)
Dropping(t) == \E c \in Range(todo) : c.op = "release" /\ c.thread = t

HoldInv ==
    \A m \in Mutex :
        /\ lock_count[m] > 0 <=> holding_thread[m] # NULL
        /\ holding_thread[m] # NULL => m \in held_mutexes[holding_thread[m]]
        /\ \A t \in Thread : m \in held_mutexes[t] =>
              \/ holding_thread[m] = t /\ status[t] # "Dead"
              \/ status[t] = "Dead" /\ Dropping(t)

DormantInv == \A t \in Thread : status[t] = "Dormant" => held_mutexes[t] = {}

OwnInv == CallsInv /\ HoldInv /\ DormantInv

(* The invariant of the owners gives the property.                         *)
LEMMA HoldOwnership == HoldInv => MutexOwnership
<1>1. \A t : Dropping(t) => \E i \in DOMAIN todo : todo[i].op = "release" /\ todo[i].thread = t
  BY DEF Dropping, Range
<1> QED
  BY <1>1 DEF HoldInv, MutexOwnership

(* No mutex is held in the initial state.                                  *)
LEMMA OwnInit == Init => OwnInv
<1> SUFFICES ASSUME Init PROVE OwnInv
  OBVIOUS
<1>1. Range(todo) = {}
  BY StartRange DEF Init, Idle
<1>2. /\ \A m \in Mutex : lock_count[m] = 0 /\ holding_thread[m] = NULL
      /\ \A t \in Thread : held_mutexes[t] = {}
  BY DEF Init
<1>3. HoldInv
  BY <1>2, SMT DEF HoldInv
<1> QED
  BY <1>1, <1>2, <1>3 DEF OwnInv, CallsInv, DormantInv

(* The calls that the routines make are sound when they make them.         *)
CallsMade ==
    /\ \A t, objs : status[t] \in SynchStatus \cup {"Running"} => CallInv(AcquireEach(t, objs))
    /\ \A t : Pending(ResumeFromWait(t)) => CallInv(RemoveWaitingThreadEach(t))
    /\ \A t : /\ status[t] \in WaitStatus \cup {"Ready"}
              /\ wait_objects[t] = <<>> \/ Pending(RemoveWaitingThreadEach(t))
              => CallInv(ResumeFromWait(t))
    /\ \A o : CallInv(WakeupAllWaitingThreads(o))
    /\ \A a, n : CallInv(ResumeHighest(a, n))
    /\ \A ms : reschedule_pending => CallInv(UpdatePriorityEach(ms))
    /\ \A t, objs : Range(todo) = {AddWaitingThreadEach(t, objs)} /\ reschedule_pending =>
                        CallInv(AddWaitingThreadEach(t, objs))
    /\ \A t, ms : status[t] = "Dead" /\ (\A mx \in Mutex : holding_thread[mx] = t <=> mx \in ms)
                      => CallInv(ReleaseThreadMutexes(t, ms))

(* The calls that the routines make are sound when they are made.          *)
LEMMA CallsSound == CallsMade
<1>1. ASSUME NEW t, NEW objs, status[t] \in SynchStatus \cup {"Running"}
      PROVE  CallInv(AcquireEach(t, objs))
  <2>1. AcquireEach(t, objs).op = "acquire" /\ AcquireEach(t, objs).thread = t
    BY DEF AcquireEach
  <2>2. PICK c : c = AcquireEach(t, objs)
    OBVIOUS
  <2>3. CallInv(c)
    BY <1>1, <2>1, <2>2, SMT DEF CallInv
  <2> QED
    BY <2>2, <2>3
<1>2. ASSUME NEW ms, reschedule_pending PROVE CallInv(UpdatePriorityEach(ms))
  BY <1>2, CallParts DEF CallInv
<1>3. ASSUME NEW t, NEW objs, Range(todo) = {AddWaitingThreadEach(t, objs)}, reschedule_pending
      PROVE  CallInv(AddWaitingThreadEach(t, objs))
  BY <1>3, CallParts DEF CallInv
<1>4. ASSUME NEW t, Pending(ResumeFromWait(t)) PROVE CallInv(RemoveWaitingThreadEach(t))
  BY <1>4, CallParts DEF CallInv
<1>5. ASSUME NEW t, status[t] \in WaitStatus \cup {"Ready"},
             wait_objects[t] = <<>> \/ Pending(RemoveWaitingThreadEach(t))
      PROVE  CallInv(ResumeFromWait(t))
  BY <1>5, CallParts DEF CallInv
<1>6. (\A o : CallInv(WakeupAllWaitingThreads(o))) /\ \A a, n : CallInv(ResumeHighest(a, n))
  BY CallParts DEF CallInv
<1>7. ASSUME NEW t, NEW ms, status[t] = "Dead",
             \A mx \in Mutex : holding_thread[mx] = t <=> mx \in ms
      PROVE  CallInv(ReleaseThreadMutexes(t, ms))
  <2>1. /\ ReleaseThreadMutexes(t, ms).op = "release" /\ ReleaseThreadMutexes(t, ms).thread = t
        /\ ReleaseThreadMutexes(t, ms).mutexes = ms
    BY DEF ReleaseThreadMutexes
  <2>2. PICK c : c = ReleaseThreadMutexes(t, ms)
    OBVIOUS
  <2>3. CallInv(c)
    BY <1>7, <2>1, <2>2, SMTT(30) DEF CallInv
  <2> QED
    BY <2>2, <2>3
<1> QED
  BY <1>1, <1>2, <1>3, <1>4, <1>5, <1>6, <1>7 DEF CallsMade

(* The calls behind the one that is made stay sound.                       *)
LEMMA TailSound ==
    ASSUME IInv, CallsInv, todo # <<>>, Head(todo).op \notin {"resume", "remove"},
           Range(Tail(todo)) \subseteq Range(todo'), UNCHANGED <<status, wait_objects>>,
           reschedule_pending => reschedule_pending',
           \A d \in Range(Tail(todo)) : d.op = "release" =>
               \A m \in Mutex : holding_thread'[m] = d.thread <=> holding_thread[m] = d.thread
    PROVE  \A d \in Range(Tail(todo)) : CallInv(d)'
<1> SUFFICES ASSUME NEW d \in Range(Tail(todo)) PROVE CallInv(d)'
  OBVIOUS
<1>1. CallInv(d) /\ d.op # "add" /\ Range(todo) = Range(Tail(todo)) \cup {Head(todo)}
  BY HeadCall, LaterCalls DEF CallsInv
<1>2. ASSUME NEW t
      PROVE  /\ Pending(ResumeFromWait(t)) => ResumeFromWait(t) \in Range(todo')
             /\ Pending(RemoveWaitingThreadEach(t)) =>
                   RemoveWaitingThreadEach(t) \in Range(todo')
  <2>1. ResumeFromWait(t) # Head(todo) /\ RemoveWaitingThreadEach(t) # Head(todo)
    BY SMT DEF ResumeFromWait, RemoveWaitingThreadEach
  <2> QED
    BY <1>1, <2>1 DEF Pending
<1> QED
  BY <1>1, <1>2 DEF CallInv, Pending

(* A turn of WakeupAllWaitingThreads leaves sound calls.                   *)
LEMMA WakeupSound ==
    ASSUME IInv, OwnInv, WakeupNext
    PROVE  CallsInv'
<1>1. PICK o : /\ todo # <<>> /\ Head(todo).op = "wakeup"
               /\ Head(todo) = WakeupAllWaitingThreads(o)
               /\ UNCHANGED <<status, wait_objects, holding_thread, reschedule_pending>>
               /\ Range(todo) = Range(Tail(todo)) \cup {Head(todo)}
  BY WakeupFrame, HeadCall, CallForms
<1>2. CallsMade'
  BY CallsSound, PTL
<1>3. CASE Range(todo') = Range(Tail(todo))
  <2>1. \A d \in Range(Tail(todo)) : CallInv(d)'
    BY <1>1, <1>3, TailSound DEF OwnInv
  <2> QED
    BY <1>3, <2>1 DEF CallsInv
<1>4. CASE \E t, objs :
              /\ status[t] \in SynchStatus
              /\ Range(todo') = Range(todo) \cup {AcquireEach(t, objs),
                     RemoveWaitingThreadEach(t), ResumeFromWait(t)}
  <2>1. PICK t, objs :
              /\ status'[t] \in SynchStatus
              /\ Range(todo') = Range(todo) \cup {AcquireEach(t, objs),
                     RemoveWaitingThreadEach(t), ResumeFromWait(t)}
    BY <1>1, <1>4
  <2>2. \A d \in Range(Tail(todo)) : CallInv(d)'
    BY <1>1, <2>1, TailSound DEF OwnInv
  <2>3. CallInv(WakeupAllWaitingThreads(o))'
    BY <1>2 DEF CallsMade
  <2>4. CallInv(AcquireEach(t, objs))'
    BY <1>2, <2>1 DEF CallsMade
  <2>5. Pending(ResumeFromWait(t))' /\ Pending(RemoveWaitingThreadEach(t))'
    BY <2>1 DEF Pending
  <2>6. CallInv(RemoveWaitingThreadEach(t))' /\ CallInv(ResumeFromWait(t))'
    BY <1>2, <2>1, <2>5 DEF CallsMade, WaitStatus
  <2> QED
    BY <1>1, <2>1, <2>2, <2>3, <2>4, <2>6 DEF CallsInv
<1> QED
  BY <1>3, <1>4, WakeupFrame

(* A thread that acquires a mutex is not one that is about to drop it.     *)
LEMMA TakenSound ==
    ASSUME IInv, OwnInv, AcquireNext
    PROVE  CallsInv'
<1>1. /\ todo # <<>> /\ Head(todo).op = "acquire" /\ Head(todo).thread \in Thread
      /\ UNCHANGED <<status, wait_objects>>
      /\ Range(todo) = Range(Tail(todo)) \cup {Head(todo)}
      /\ status[Head(todo).thread] \in SynchStatus \cup {"Running"}
  BY AcquireFrame, HeadCall, LoopCall DEF OwnInv, CallsInv, CallInv
<1>2. CallsMade'
  BY CallsSound, PTL
<1>3. reschedule_pending => reschedule_pending'
  <2>1. \/ UNCHANGED reschedule_pending
        \/ \E m, t : MutexTaken(m, t) \/ MutexTakenAgain(m, t)
    BY AcquireFrame
  <2> QED
    BY <2>1 DEF MutexTaken, MutexTakenAgain
<1>4. ASSUME NEW d \in Range(Tail(todo)), d.op = "release", NEW m \in Mutex
      PROVE  holding_thread'[m] = d.thread <=> holding_thread[m] = d.thread
  <2>1. status[d.thread] = "Dead" /\ d.thread # Head(todo).thread /\ d.thread \in Thread
    <3>1. d \in Call /\ CallInv(d)
      BY <1>1, <1>4, HeadCall DEF OwnInv, CallsInv
    <3>2. status[d.thread] = "Dead" /\ d.thread \in Thread
      BY <1>4, <3>1, CallFields DEF CallInv
    <3> QED
      BY <1>1, <3>2 DEF SynchStatus
  <2>2. CASE UNCHANGED holding_thread
    BY <2>2
  <2>3. CASE \E o \in Mutex : MutexTaken(o, Head(todo).thread)
    <3>1. PICK o \in Mutex : /\ lock_count[o] = 0
                             /\ holding_thread' = [holding_thread EXCEPT ![o] = Head(todo).thread]
      BY <2>3 DEF MutexTaken
    <3>2. ~(lock_count[o] > 0)
      BY <3>1, SMT
    <3>3. holding_thread[o] = NULL
      BY <3>2 DEF OwnInv, HoldInv
    <3>4. NULL # d.thread
      BY <2>1, ThreadsAssumption DEF WaitObject
    <3>5. holding_thread \in [Mutex -> Thread \cup {NULL}]
      BY DEF IInv, TypeOK
    <3> QED
      BY <2>1, <3>1, <3>3, <3>4, <3>5
  <2> QED
    BY <2>2, <2>3, AcquireFrame DEF MutexTakenAgain
<1>5. Range(Tail(todo)) \subseteq Range(todo')
  BY AcquireFrame
<1>6. \A d \in Range(Tail(todo)) : CallInv(d)'
  BY <1>1, <1>3, <1>4, <1>5, TailSound DEF OwnInv
<1>7. PICK t : t = Head(todo).thread
  OBVIOUS
<1>8. \A objs : CallInv(AcquireEach(t, objs))'
  BY <1>1, <1>2, <1>7 DEF CallsMade
<1>9. \/ Range(todo') = Range(Tail(todo))
      \/ \E objs : Range(todo') = Range(Tail(todo)) \cup {AcquireEach(t, objs)}
  BY <1>7, AcquireFrame
<1>10. CASE \E objs : Range(todo') = Range(Tail(todo)) \cup {AcquireEach(t, objs)}
  <2>1. PICK objs : Range(todo') = Range(Tail(todo)) \cup {AcquireEach(t, objs)}
    BY <1>10
  <2>2. CallInv(AcquireEach(t, objs))'
    BY <1>8
  <2> QED
    BY <1>6, <2>1, <2>2 DEF CallsInv
<1> QED
  BY <1>6, <1>9, <1>10 DEF CallsInv

(* A turn of the loop that adds a thread leaves sound calls.               *)
LEMMA AddSound ==
    ASSUME IInv, OwnInv, AddNext
    PROVE  CallsInv'
<1>1. /\ todo # <<>> /\ Head(todo).op = "add" /\ UNCHANGED reschedule_pending
      /\ Range(todo) = Range(Tail(todo)) \cup {Head(todo)} /\ CallInv(Head(todo))
      /\ \A d \in Range(Tail(todo)) : d.op # "add"
  BY AddFrame, HeadCall, LaterCalls DEF OwnInv, CallsInv
<1>2. Range(todo) = {Head(todo)} /\ reschedule_pending'
  BY <1>1 DEF CallInv
<1>3. Range(Tail(todo)) = {}
  BY <1>1, <1>2
<1>4. CallsMade'
  BY CallsSound, PTL
<1>5. CASE Range(todo') = Range(Tail(todo))
  BY <1>3, <1>5 DEF CallsInv
<1>6. CASE \E t, objs : Range(todo') = Range(Tail(todo)) \cup {AddWaitingThreadEach(t, objs)}
  <2>1. PICK t, objs : Range(todo') = {AddWaitingThreadEach(t, objs)}
    BY <1>3, <1>6
  <2>2. CallInv(AddWaitingThreadEach(t, objs))'
    BY <1>2, <1>4, <2>1 DEF CallsMade
  <2> QED
    BY <2>1, <2>2 DEF CallsInv
<1> QED
  BY <1>5, <1>6, AddFrame

(* A turn of the loop that removes a thread leaves sound calls.            *)
LEMMA RemoveSound ==
    ASSUME IInv, OwnInv, RemoveNext
    PROVE  CallsInv'
<1>1. PICK t \in Thread :
        /\ todo # <<>> /\ Head(todo).op = "remove" /\ Head(todo) = RemoveWaitingThreadEach(t)
        /\ UNCHANGED <<status, holding_thread, reschedule_pending>>
        /\ Range(todo) = Range(Tail(todo)) \cup {Head(todo)}
        /\ wait_objects' = [wait_objects EXCEPT ![t] = Tail(@)]
        /\ \/ Tail(wait_objects[t]) = <<>> /\ Range(todo') = Range(Tail(todo))
           \/ Range(todo') = Range(todo)
  BY RemoveFrame, HeadCall
<1>2. wait_objects \in [Thread -> Seq(WaitObject)]
  BY DEF IInv, TypeOK
<1>3. ASSUME NEW d \in Range(Tail(todo))
      PROVE  CallInv(d)'
  <2>1. /\ d \in Call /\ CallInv(d)
        /\ d.op \notin {"add", "acquire", "update", "remove"}
    BY <1>1, HeadCall, LaterCalls DEF OwnInv, CallsInv
  <2>2. ASSUME d.op = "resume"
        PROVE  wait_objects'[d.thread] = <<>> \/ RemoveWaitingThreadEach(d.thread) \in Range(todo')
    <3>1. d.thread \in Thread
      BY <2>1, <2>2, CallFields
    <3>2. CASE d.thread = t
      BY <1>1, <1>2, <3>2
    <3>3. CASE d.thread # t
      <4>1. ~ Pending(RemoveWaitingThreadEach(d.thread))
        <5>1. RemoveWaitingThreadEach(d.thread) # Head(todo)
          BY <1>1, <3>3, SMT DEF RemoveWaitingThreadEach
        <5>2. \A e \in Range(Tail(todo)) : e.op # "remove"
          BY <1>1, LaterCalls
        <5> QED
          BY <1>1, <5>1, <5>2, CallParts DEF Pending
      <4>2. wait_objects[d.thread] = <<>>
        BY <2>1, <2>2, <4>1 DEF CallInv
      <4> QED
        BY <1>1, <1>2, <3>1, <3>3, <4>2
    <3> QED
      BY <3>2, <3>3
  <2> QED
    BY <1>1, <2>1, <2>2 DEF CallInv, Pending
<1>4. ASSUME Range(todo') = Range(todo) PROVE CallInv(RemoveWaitingThreadEach(t))'
  <2>1. CallsMade'
    BY CallsSound, PTL
  <2>2. CallInv(RemoveWaitingThreadEach(t))
    BY <1>1 DEF OwnInv, CallsInv
  <2>3. Pending(ResumeFromWait(t))
    BY <2>2, CallParts DEF CallInv
  <2>4. Pending(ResumeFromWait(t))'
    BY <1>4, <2>3 DEF Pending
  <2> QED
    BY <2>1, <2>4 DEF CallsMade
<1> QED
  BY <1>1, <1>3, <1>4 DEF CallsInv

(* A turn of ReleaseThreadMutexes leaves sound calls.                      *)
LEMMA ReleaseSound ==
    ASSUME IInv, OwnInv, ReleaseNext
    PROVE  CallsInv'
<1>1. /\ todo # <<>> /\ Head(todo).op = "release" /\ Head(todo).thread \in Thread
      /\ UNCHANGED <<status, wait_objects, reschedule_pending>>
      /\ Range(Tail(todo)) \subseteq Range(todo') /\ CallInv(Head(todo))
      /\ \A d \in Range(Tail(todo)) : d.op # "release"
  BY ReleaseFrame, HeadCall, LaterCalls DEF OwnInv, CallsInv
<1>2. \A d \in Range(Tail(todo)) : CallInv(d)'
  BY <1>1, TailSound DEF OwnInv
<1>3. PICK t, ms :
        /\ t \in Thread /\ t = Head(todo).thread /\ ms = Head(todo).mutexes /\ status[t] = "Dead"
        /\ \A mx \in Mutex : holding_thread[mx] = t <=> mx \in ms
  BY <1>1 DEF CallInv
<1>4. CallsMade'
  BY CallsSound, PTL
<1>5. CASE Range(todo') = Range(Tail(todo))
  BY <1>2, <1>5 DEF CallsInv
<1>6. CASE \E m \in Mutex :
              /\ holding_thread' = [holding_thread EXCEPT ![m] = NULL]
              /\ Range(todo') = Range(Tail(todo)) \cup {WakeupAllWaitingThreads(m),
                                                        ReleaseThreadMutexes(t, ms \ {m})}
  <2>1. PICK m \in Mutex :
              /\ holding_thread' = [holding_thread EXCEPT ![m] = NULL]
              /\ Range(todo') = Range(Tail(todo)) \cup {WakeupAllWaitingThreads(m),
                                                        ReleaseThreadMutexes(t, ms \ {m})}
    BY <1>6
  <2>2. holding_thread \in [Mutex -> Thread \cup {NULL}] /\ NULL # t
    BY <1>3, ThreadsAssumption DEF IInv, TypeOK, WaitObject
  <2>3. \A mx \in Mutex : holding_thread'[mx] = t <=> mx \in ms \ {m}
    BY <1>3, <2>1, <2>2
  <2>4. CallInv(ReleaseThreadMutexes(t, ms \ {m}))'
    BY <1>1, <1>3, <1>4, <2>3 DEF CallsMade
  <2>5. CallInv(WakeupAllWaitingThreads(m))'
    BY <1>4 DEF CallsMade
  <2> QED
    BY <1>2, <2>1, <2>4, <2>5 DEF CallsInv
<1> QED
  BY <1>3, <1>5, <1>6, ReleaseFrame

(* UpdatePriority, ResumeFromWait and the arbiter leave sound calls.       *)
LEMMA OtherSound ==
    ASSUME IInv, OwnInv, UpdateNext \/ Resume \/ ResumeNext
    PROVE  CallsInv'
<1>1. CallsMade'
  BY CallsSound, PTL
<1>2. CASE UpdateNext
  <2>1. /\ todo # <<>> /\ Head(todo).op = "update" /\ CallInv(Head(todo))
        /\ UNCHANGED <<status, wait_objects, holding_thread, reschedule_pending>>
        /\ Range(Tail(todo)) \subseteq Range(todo')
    BY <1>2, UpdateFrame, HeadCall DEF OwnInv, CallsInv
  <2>2. \A d \in Range(Tail(todo)) : CallInv(d)'
    BY <2>1, TailSound DEF OwnInv
  <2>3. reschedule_pending'
    BY <2>1 DEF CallInv
  <2>4. CASE Range(todo') = Range(Tail(todo))
    BY <2>2, <2>4 DEF CallsInv
  <2>5. CASE \E ms : Range(todo') = Range(Tail(todo)) \cup {UpdatePriorityEach(ms)}
    <3>1. PICK ms : Range(todo') = Range(Tail(todo)) \cup {UpdatePriorityEach(ms)}
      BY <2>5
    <3>2. CallInv(UpdatePriorityEach(ms))'
      BY <1>1, <2>3 DEF CallsMade
    <3> QED
      BY <2>2, <3>1, <3>2 DEF CallsInv
  <2> QED
    BY <1>2, <2>4, <2>5, UpdateFrame
<1>3. CASE ResumeNext
  <2>1. /\ todo # <<>> /\ Head(todo).op = "arbiter"
        /\ UNCHANGED <<status, wait_objects, holding_thread, reschedule_pending>>
        /\ Range(Tail(todo)) \subseteq Range(todo')
    BY <1>3, ArbiterFrame
  <2>2. \A d \in Range(Tail(todo)) : CallInv(d)'
    BY <2>1, TailSound DEF OwnInv
  <2>3. CASE Range(todo') = Range(Tail(todo))
    BY <2>2, <2>3 DEF CallsInv
  <2>4. CASE \E t \in Thread : \E a, n :
                /\ status[t] = "WaitArb"
                /\ Range(todo') = Range(Tail(todo)) \cup {ResumeFromWait(t), ResumeHighest(a, n)}
    <3>1. PICK t \in Thread : \E a, n :
                /\ status[t] = "WaitArb"
                /\ Range(todo') = Range(Tail(todo)) \cup {ResumeFromWait(t), ResumeHighest(a, n)}
      BY <2>4
    <3>2. PICK a, n : Range(todo') = Range(Tail(todo)) \cup
                                         {ResumeFromWait(t), ResumeHighest(a, n)}
      BY <3>1
    <3>3. wait_objects'[t] = <<>> /\ status'[t] \in WaitStatus \cup {"Ready"}
      BY <2>1, <3>1 DEF IInv, WaitListsExact, WaitStatus, SynchStatus
    <3>4. CallInv(ResumeFromWait(t))' /\ CallInv(ResumeHighest(a, n))'
      BY <1>1, <3>3 DEF CallsMade
    <3> QED
      BY <2>2, <3>2, <3>4 DEF CallsInv
  <2> QED
    BY <1>3, <2>3, <2>4, ArbiterFrame
<1>4. CASE Resume
  <2>1. PICK t \in Thread :
          /\ todo # <<>> /\ Head(todo).op = "resume" /\ Range(todo') = Range(Tail(todo))
          /\ UNCHANGED holding_thread /\ status[t] \in WaitStatus \cup {"Ready"}
          /\ status' = [status EXCEPT ![t] = "Ready"] \/ UNCHANGED status
    BY <1>4, ResumeFrame
  <2>2. status \in [Thread -> Status]
    BY DEF IInv, TypeOK
  <2>3. ASSUME NEW d \in Range(Tail(todo)) PROVE CallInv(d)'
    <3>1. /\ d \in Call /\ CallInv(d)
          /\ d.op \notin {"add", "acquire", "update", "remove", "resume"}
      BY <2>1, HeadCall, LaterCalls DEF OwnInv, CallsInv
    <3>2. d.op = "release" => status'[d.thread] = "Dead"
      <4>1. ASSUME d.op = "release" PROVE status'[d.thread] = "Dead"
        <5>1. d.thread \in Thread /\ status[d.thread] = "Dead"
          BY <3>1, <4>1, CallFields DEF CallInv
        <5>2. d.thread # t
          BY <2>1, <5>1 DEF WaitStatus, SynchStatus
        <5> QED
          BY <2>1, <2>2, <5>1, <5>2
      <4> QED
        BY <4>1
    <3> QED
      BY <2>1, <3>1, <3>2 DEF CallInv
  <2> QED
    BY <2>1, <2>3 DEF CallsInv
<1> QED
  BY <1>2, <1>3, <1>4

(* A step that starts a routine starts it with sound calls.                *)
LEMMA StartSound ==
    ASSUME IInv, EventInv, OwnInv, Outside
    PROVE  CallsInv'
<1>1. CallsMade' /\ (Idle => Range(todo) = {})
  BY CallsSound, StartRange, PTL
<1>2. CASE Range(todo') = {}
  BY <1>2 DEF CallsInv
<1>3. CASE Quiet
  <2>1. /\ UNCHANGED <<status, wait_objects, holding_thread, todo>>
        /\ reschedule_pending => reschedule_pending'
    BY <1>3 DEF Quiet, ThreadsSame, ListsSame
  <2> QED
    BY <2>1 DEF OwnInv, CallsInv, CallInv, Pending
<1>4. CASE \E o : Range(todo') = {WakeupAllWaitingThreads(o)}
  <2>1. PICK o : Range(todo') = {WakeupAllWaitingThreads(o)}
    BY <1>4
  <2>2. CallInv(WakeupAllWaitingThreads(o))'
    BY <1>1 DEF CallsMade
  <2> QED
    BY <2>1, <2>2 DEF CallsInv
<1>5. CASE \E objs : Takes(objs)
  <2>1. PICK t, objs : status'[t] = "Running" /\ Range(todo') = {AcquireEach(t, objs)}
    BY <1>5 DEF Takes, ThreadsSame
  <2>2. CallInv(AcquireEach(t, objs))'
    BY <1>1, <2>1 DEF CallsMade
  <2> QED
    BY <2>1, <2>2 DEF CallsInv
<1>6. CASE Falls \/ Reschedules \/ \E a \in Address : Arbitrates(a)
  <2>1. Idle /\ UNCHANGED todo
    BY <1>6 DEF Falls, Reschedules, Arbitrates, Yields
  <2> QED
    BY <1>1, <1>2, <2>1
<1>7. CASE \E how, objs : Suspends(how, objs)
  <2>1. /\ reschedule_pending' = TRUE
        /\ \/ Range(todo') = {}
           \/ \E t, objs : Range(todo') = {AddWaitingThreadEach(t, objs)}
    BY <1>7 DEF Suspends, Yields
  <2>2. CASE \E t, objs : Range(todo') = {AddWaitingThreadEach(t, objs)}
    <3>1. PICK t, objs : Range(todo') = {AddWaitingThreadEach(t, objs)}
      BY <2>2
    <3>2. CallInv(AddWaitingThreadEach(t, objs))'
      BY <1>1, <2>1, <3>1 DEF CallsMade
    <3> QED
      BY <3>1, <3>2 DEF CallsInv
  <2> QED
    BY <1>2, <2>1, <2>2
<1>8. CASE Exits
  <2>1. PICK t, ms :
          /\ t = current_thread /\ ms = held_mutexes[current_thread] /\ t \in Thread
          /\ status[t] = "Running" /\ status' = [status EXCEPT ![t] = "Dead"]
          /\ UNCHANGED holding_thread
          /\ Range(todo') = {WakeupAllWaitingThreads(t), ReleaseThreadMutexes(t, ms)}
    BY <1>8 DEF Exits, Yields
  <2>2. /\ status \in [Thread -> Status] /\ holding_thread \in [Mutex -> Thread \cup {NULL}]
        /\ NULL # t
    BY <2>1, ThreadsAssumption DEF IInv, TypeOK, WaitObject
  <2>3. \A mx \in Mutex : holding_thread'[mx] = t <=> mx \in ms
    BY <2>1, <2>2 DEF OwnInv, HoldInv
  <2>4. CallInv(ReleaseThreadMutexes(t, ms))'
    BY <1>1, <2>1, <2>2, <2>3 DEF CallsMade
  <2>5. CallInv(WakeupAllWaitingThreads(t))'
    BY <1>1 DEF CallsMade
  <2> QED
    BY <2>1, <2>4, <2>5 DEF CallsInv
<1>9. CASE \E t \in Thread, p \in Priority : Creates(t, p) \/ SetsPriority(t, p)
  <2>1. CASE \E t \in Thread, p \in Priority : Creates(t, p)
    BY <1>1, <1>2, <2>1 DEF Creates
  <2>2. CASE \E t \in Thread, p \in Priority : SetsPriority(t, p)
    <3>1. /\ reschedule_pending' = TRUE
          /\ Range(todo') = {} \/ \E ms : Range(todo') = {UpdatePriorityEach(ms)}
      BY <2>2 DEF SetsPriority
    <3>2. CASE \E ms : Range(todo') = {UpdatePriorityEach(ms)}
      <4>1. PICK ms : Range(todo') = {UpdatePriorityEach(ms)}
        BY <3>2
      <4>2. CallInv(UpdatePriorityEach(ms))'
        BY <1>1, <3>1 DEF CallsMade
      <4> QED
        BY <4>1, <4>2 DEF CallsInv
    <3> QED
      BY <1>2, <3>1, <3>2
  <2> QED
    BY <1>9, <2>1, <2>2
<1>10. CASE \E a \in Address : ArbiterSignals(a)
  <2>1. PICK a, n : Range(todo') = {ResumeHighest(a, n)}
    BY <1>10 DEF ArbiterSignals
  <2>2. CallInv(ResumeHighest(a, n))'
    BY <1>1 DEF CallsMade
  <2> QED
    BY <2>1, <2>2 DEF CallsInv
<1>11. CASE \E t \in Thread : TimesOut(t)
  <2>1. PICK t \in Thread :
          /\ wakeup_events[t] > 0 /\ UNCHANGED <<status, wait_objects>>
          /\ Range(todo') = IF wait_objects[t] = <<>> THEN {ResumeFromWait(t)}
                            ELSE {RemoveWaitingThreadEach(t), ResumeFromWait(t)}
    BY <1>11 DEF TimesOut
  <2>2. wakeup_events[t] # 0
    BY <2>1, SMT
  <2>3. status'[t] \in WaitStatus \cup {"Ready"}
    BY <2>1, <2>2 DEF EventInv
  <2>4. /\ Pending(ResumeFromWait(t))'
        /\ wait_objects'[t] = <<>> \/ Pending(RemoveWaitingThreadEach(t))'
    BY <2>1 DEF Pending
  <2>5. CallInv(ResumeFromWait(t))' /\ CallInv(RemoveWaitingThreadEach(t))'
    BY <1>1, <2>3, <2>4 DEF CallsMade
  <2> QED
    BY <2>1, <2>5 DEF CallsInv
<1>12. CASE \E m \in Mutex : ReleasesOnce(m)
  BY <1>1, <1>2, <1>12 DEF ReleasesOnce
<1> QED
  BY <1>3, <1>4, <1>5, <1>6, <1>7, <1>8, <1>9, <1>10, <1>11, <1>12 DEF Outside,
     Signals, Releases

(* A step that leaves the mutexes alone, and kills nobody.                 *)
LEMMA HoldSame ==
    ASSUME HoldInv, DormantInv, UNCHANGED <<lock_count, holding_thread, held_mutexes>>,
           \A t \in Thread : status'[t] = "Dead" <=> status[t] = "Dead",
           \A t \in Thread : status'[t] = "Dormant" => status[t] = "Dormant",
           \A t \in Thread : Dropping(t) => Dropping(t)'
    PROVE  HoldInv' /\ DormantInv'
<1>1. HoldInv'
  BY DEF HoldInv
<1>2. DormantInv'
  BY DEF DormantInv
<1> QED
  BY <1>1, <1>2

(* The fields of a call of ReleaseThreadMutexes.                           *)
LEMMA ReleaseParts ==
    ASSUME NEW t, NEW ms
    PROVE  ReleaseThreadMutexes(t, ms).op = "release" /\ ReleaseThreadMutexes(t, ms).thread = t
  BY DEF ReleaseThreadMutexes

(* A routine goes on dropping the mutexes of a dead thread.                *)
LEMMA DroppingKept ==
    ASSUME IInv, todo # <<>>, Range(Tail(todo)) \subseteq Range(todo'),
           Head(todo).op # "release"
    PROVE  \A t \in Thread : Dropping(t) => Dropping(t)'
  BY HeadCall DEF Dropping

(* Mutex::Acquire gives a free mutex to a thread that lives.               *)
LEMMA MutexTakenKept ==
    ASSUME IInv, OwnInv, NEW m \in Mutex, NEW t \in Thread, MutexTaken(m, t),
           status[t] \in SynchStatus \cup {"Running"}, UNCHANGED status,
           \A u \in Thread : Dropping(u) => Dropping(u)'
    PROVE  HoldInv' /\ DormantInv'
<1>1. /\ lock_count[m] = 0 /\ lock_count' = [lock_count EXCEPT ![m] = 1]
      /\ holding_thread' = [holding_thread EXCEPT ![m] = t]
      /\ held_mutexes' = [held_mutexes EXCEPT ![t] = held_mutexes[t] \cup {m}]
  BY DEF MutexTaken
<1>2. /\ lock_count \in [Mutex -> Nat] /\ held_mutexes \in [Thread -> SUBSET Mutex]
      /\ holding_thread \in [Mutex -> Thread \cup {NULL}] /\ NULL # t
      /\ status[t] # "Dead" /\ status[t] # "Dormant"
  BY ThreadsAssumption DEF IInv, TypeOK, WaitObject, SynchStatus
<1>3. ~(lock_count[m] > 0) /\ lock_count'[m] > 0
  BY <1>1, <1>2, SMT
<1>4. holding_thread[m] = NULL
  BY <1>3 DEF OwnInv, HoldInv
<1>5. ASSUME NEW u \in Thread, m \in held_mutexes[u], u # t
      PROVE  status[u] = "Dead" /\ Dropping(u)
  <2>1. NULL # u
    BY ThreadsAssumption DEF WaitObject
  <2> QED
    BY <1>4, <1>5, <2>1 DEF OwnInv, HoldInv
<1>6. /\ \A x \in Mutex \ {m} : /\ lock_count'[x] = lock_count[x]
                                /\ holding_thread'[x] = holding_thread[x]
      /\ holding_thread'[m] = t /\ held_mutexes'[t] = held_mutexes[t] \cup {m}
      /\ \A u \in Thread \ {t} : held_mutexes'[u] = held_mutexes[u]
  BY <1>1, <1>2
<1>7. ASSUME NEW x \in Mutex, x # m
      PROVE  /\ lock_count'[x] > 0 <=> holding_thread'[x] # NULL
             /\ holding_thread'[x] # NULL => x \in held_mutexes'[holding_thread'[x]]
             /\ \A u \in Thread : x \in held_mutexes'[u] =>
                   \/ holding_thread'[x] = u /\ status'[u] # "Dead"
                   \/ status'[u] = "Dead" /\ Dropping(u)'
  <2>1. /\ lock_count[x] > 0 <=> holding_thread[x] # NULL
        /\ holding_thread[x] # NULL => x \in held_mutexes[holding_thread[x]]
        /\ \A u \in Thread : x \in held_mutexes[u] =>
              \/ holding_thread[x] = u /\ status[u] # "Dead"
              \/ status[u] = "Dead" /\ Dropping(u)
    BY <1>7 DEF OwnInv, HoldInv
  <2>2. \A u \in Thread : x \in held_mutexes'[u] <=> x \in held_mutexes[u]
    BY <1>6, <1>7
  <2>3. holding_thread[x] \in Thread \cup {NULL}
    BY <1>2, <1>7
  <2> QED
    BY <1>6, <1>7, <2>1, <2>2, <2>3
<1>8. /\ lock_count'[m] > 0 <=> holding_thread'[m] # NULL
      /\ holding_thread'[m] # NULL => m \in held_mutexes'[holding_thread'[m]]
      /\ \A u \in Thread : m \in held_mutexes'[u] =>
            \/ holding_thread'[m] = u /\ status'[u] # "Dead"
            \/ status'[u] = "Dead" /\ Dropping(u)'
  BY <1>2, <1>3, <1>5, <1>6
<1>9. HoldInv'
  BY <1>7, <1>8 DEF HoldInv
<1>10. DormantInv'
  BY <1>2, <1>6 DEF OwnInv, DormantInv
<1> QED
  BY <1>9, <1>10

(* A mutex that is released, by its holder or because its holder died.     *)
LEMMA MutexFreed ==
    ASSUME IInv, OwnInv, NEW m \in Mutex,
           lock_count' = [lock_count EXCEPT ![m] = 0],
           holding_thread' = [holding_thread EXCEPT ![m] = NULL],
           UNCHANGED status, \A u \in Thread : Dropping(u) => Dropping(u)',
           \A u \in Thread : held_mutexes'[u] \in {held_mutexes[u], held_mutexes[u] \ {m}},
           \A u \in Thread : m \in held_mutexes'[u] => status[u] = "Dead" /\ Dropping(u)
    PROVE  HoldInv' /\ DormantInv'
<1>1. /\ lock_count \in [Mutex -> Nat] /\ held_mutexes \in [Thread -> SUBSET Mutex]
      /\ holding_thread \in [Mutex -> Thread \cup {NULL}]
  BY DEF IInv, TypeOK
<1>2. lock_count'[m] = 0
  BY <1>1
<1>3. ~(lock_count'[m] > 0)
  BY <1>2, SMT
<1>4. /\ \A x \in Mutex \ {m} : /\ lock_count'[x] = lock_count[x]
                                /\ holding_thread'[x] = holding_thread[x]
      /\ holding_thread'[m] = NULL
  BY <1>1
<1>5. ASSUME NEW x \in Mutex, x # m
      PROVE  /\ lock_count'[x] > 0 <=> holding_thread'[x] # NULL
             /\ holding_thread'[x] # NULL => x \in held_mutexes'[holding_thread'[x]]
             /\ \A u \in Thread : x \in held_mutexes'[u] =>
                   \/ holding_thread'[x] = u /\ status'[u] # "Dead"
                   \/ status'[u] = "Dead" /\ Dropping(u)'
  <2>1. /\ lock_count[x] > 0 <=> holding_thread[x] # NULL
        /\ holding_thread[x] # NULL => x \in held_mutexes[holding_thread[x]]
        /\ \A u \in Thread : x \in held_mutexes[u] =>
              \/ holding_thread[x] = u /\ status[u] # "Dead"
              \/ status[u] = "Dead" /\ Dropping(u)
    BY <1>5 DEF OwnInv, HoldInv
  <2>2. \A u \in Thread : x \in held_mutexes'[u] <=> x \in held_mutexes[u]
    BY <1>5
  <2>3. holding_thread[x] \in Thread \cup {NULL}
    BY <1>1, <1>5
  <2> QED
    BY <1>4, <1>5, <2>1, <2>2, <2>3
<1>6. HoldInv'
  BY <1>3, <1>4, <1>5 DEF HoldInv
<1>7. DormantInv'
  <2>1. \A u \in Thread : held_mutexes[u] = {} => held_mutexes'[u] = {}
    OBVIOUS
  <2> QED
    BY <2>1 DEF OwnInv, DormantInv
<1> QED
  BY <1>6, <1>7

(* A turn of a routine keeps the invariant of the owners.                  *)
LEMMA RoutineHold ==
    ASSUME IInv, OwnInv, Continue
    PROVE  HoldInv' /\ DormantInv'
<1>1. status \in [Thread -> Status]
  BY DEF IInv, TypeOK
<1>2. CASE WakeupNext \/ AddNext \/ RemoveNext \/ UpdateNext \/ ResumeNext
  <2>1. /\ todo # <<>> /\ Head(todo).op # "release"
        /\ UNCHANGED <<lock_count, holding_thread, held_mutexes, status>>
    BY <1>2, WakeupFrame, AddFrame, RemoveFrame, UpdateFrame, ArbiterFrame
  <2>2. Range(Tail(todo)) \subseteq Range(todo')
    <3>1. Range(todo) = Range(Tail(todo)) \cup {Head(todo)}
      BY <2>1, HeadCall
    <3> QED
      BY <1>2, <3>1, WakeupFrame, AddFrame, RemoveFrame, UpdateFrame, ArbiterFrame
  <2> QED
    BY <2>1, <2>2, HoldSame, DroppingKept DEF OwnInv
<1>3. CASE Resume
  <2>1. PICK t \in Thread :
          /\ todo # <<>> /\ Head(todo).op # "release" /\ Range(todo') = Range(Tail(todo))
          /\ UNCHANGED <<lock_count, holding_thread, held_mutexes>>
          /\ \/ UNCHANGED status
             \/ status[t] \in WaitStatus /\ status' = [status EXCEPT ![t] = "Ready"]
    BY <1>3, ResumeFrame
  <2>2. \A u \in Thread : status'[u] = "Dead" <=> status[u] = "Dead"
    BY <1>1, <2>1 DEF WaitStatus, SynchStatus
  <2>3. \A u \in Thread : status'[u] = "Dormant" => status[u] = "Dormant"
    BY <1>1, <2>1
  <2> QED
    BY <2>1, <2>2, <2>3, HoldSame, DroppingKept DEF OwnInv
<1>4. CASE AcquireNext
  <2>1. PICK t \in Thread, o \in WaitObject :
          /\ t = Head(todo).thread /\ o = Head(Head(todo).objects) /\ todo # <<>>
          /\ Head(todo).op = "acquire" /\ UNCHANGED status
          /\ Range(Tail(todo)) \subseteq Range(todo')
    BY <1>4, AcquireFrame, LoopCall
  <2>2. /\ \A u \in Thread : Dropping(u) => Dropping(u)'
        /\ status[t] \in SynchStatus \cup {"Running"}
    <3>1. Head(todo) \in Range(todo)
      BY <2>1, HeadCall
    <3> QED
      BY <2>1, <3>1, DroppingKept DEF OwnInv, CallsInv, CallInv
  <2>3. CASE o \in Mutex /\ MutexTaken(o, t)
    BY <2>1, <2>2, <2>3, MutexTakenKept
  <2>4. CASE o \in Mutex /\ MutexTakenAgain(o, t)
    <3>1. /\ lock_count \in [Mutex -> Nat] /\ lock_count[o] > 0
          /\ lock_count' = [lock_count EXCEPT ![o] = lock_count[o] + 1]
          /\ UNCHANGED <<holding_thread, held_mutexes>>
      BY <2>4 DEF MutexTakenAgain, IInv, TypeOK
    <3>2. \A x \in Mutex : lock_count'[x] > 0 <=> lock_count[x] > 0
      BY <3>1, SMT
    <3>3. HoldInv'
      BY <2>1, <2>2, <3>1, <3>2 DEF OwnInv, HoldInv
    <3> QED
      BY <2>1, <3>1, <3>3 DEF OwnInv, DormantInv
  <2>5. CASE UNCHANGED <<lock_count, holding_thread, held_mutexes>>
    BY <2>1, <2>2, <2>5, HoldSame DEF OwnInv
  <2> QED
    BY <1>4, <2>1, <2>3, <2>4, <2>5, AcquireFrame
<1>5. CASE ReleaseNext
  <2>1. PICK t \in Thread :
          /\ t = Head(todo).thread /\ todo # <<>> /\ Head(todo).op = "release"
          /\ UNCHANGED status /\ Range(todo) = Range(Tail(todo)) \cup {Head(todo)}
          /\ \A d \in Range(Tail(todo)) : d.op # "release"
          /\ status[t] = "Dead"
          /\ \A mx \in Mutex : holding_thread[mx] = t <=> mx \in Head(todo).mutexes
    BY <1>5, ReleaseFrame, HeadCall, LaterCalls DEF OwnInv, CallsInv, CallInv
  <2>2. Dropping(t) /\ \A u \in Thread : Dropping(u) => u = t
    BY <2>1 DEF Dropping
  <2>3. CASE \E m \in Head(todo).mutexes : \E ms :
                /\ lock_count' = [lock_count EXCEPT ![m] = 0]
                /\ holding_thread' = [holding_thread EXCEPT ![m] = NULL]
                /\ UNCHANGED held_mutexes
                /\ ReleaseThreadMutexes(t, ms) \in Range(todo')
    <3>1. PICK m, ms :
                /\ m \in Head(todo).mutexes
                /\ lock_count' = [lock_count EXCEPT ![m] = 0]
                /\ holding_thread' = [holding_thread EXCEPT ![m] = NULL]
                /\ UNCHANGED held_mutexes
                /\ ReleaseThreadMutexes(t, ms) \in Range(todo')
      BY <2>3
    <3>2. m \in Mutex
      BY <1>5, <3>1, ReleaseFrame
    <3>3. Dropping(t)'
      BY <3>1, ReleaseParts DEF Dropping
    <3>4. holding_thread[m] = t
      BY <2>1, <3>1, <3>2
    <3>5. \A u \in Thread : m \in held_mutexes'[u] => status[u] = "Dead" /\ Dropping(u)
      BY <2>1, <2>2, <3>1, <3>2, <3>4 DEF OwnInv, HoldInv
    <3> QED
      BY <2>1, <2>2, <3>1, <3>2, <3>3, <3>5, MutexFreed
  <2>4. CASE /\ Head(todo).mutexes = {}
             /\ held_mutexes' = [held_mutexes EXCEPT ![t] = {}]
             /\ UNCHANGED <<lock_count, holding_thread>>
    <3>1. held_mutexes \in [Thread -> SUBSET Mutex] /\ \A mx \in Mutex : holding_thread[mx] # t
      BY <2>1, <2>4 DEF IInv, TypeOK
    <3>4. held_mutexes'[t] = {} /\ \A u \in Thread \ {t} : held_mutexes'[u] = held_mutexes[u]
      BY <2>4, <3>1
    <3>5. ASSUME NEW x \in Mutex
          PROVE  /\ holding_thread[x] # NULL => x \in held_mutexes'[holding_thread[x]]
                 /\ \A u \in Thread : x \in held_mutexes'[u] =>
                       holding_thread[x] = u /\ status[u] # "Dead"
      <4>1. /\ holding_thread[x] # NULL => x \in held_mutexes[holding_thread[x]]
            /\ \A u \in Thread : x \in held_mutexes[u] =>
                  \/ holding_thread[x] = u /\ status[u] # "Dead"
                  \/ status[u] = "Dead" /\ Dropping(u)
            /\ holding_thread[x] \in Thread \cup {NULL}
        BY DEF OwnInv, HoldInv, IInv, TypeOK
      <4> QED
        BY <2>2, <3>1, <3>4, <4>1
    <3>2. HoldInv'
      BY <2>1, <2>4, <3>5 DEF OwnInv, HoldInv
    <3>3. DormantInv'
      BY <2>1, <2>4, <3>1 DEF OwnInv, DormantInv
    <3> QED
      BY <3>2, <3>3
  <2> QED
    BY <1>5, <2>1, <2>3, <2>4, ReleaseFrame
<1> QED
  BY <1>2, <1>3, <1>4, <1>5 DEF Continue

(* A step of a system call, a timeout or the scheduler keeps it too.       *)
LEMMA OutsideHold ==
    ASSUME IInv, OwnInv, Outside
    PROVE  HoldInv' /\ DormantInv'
<1>1. status \in [Thread -> Status] /\ held_mutexes \in [Thread -> SUBSET Mutex]
  BY DEF IInv, TypeOK
<1>2. Idle => \A t \in Thread : ~Dropping(t)
  BY StartRange DEF Dropping
<1>3. CASE Quiet
  <2>1. UNCHANGED <<lock_count, holding_thread, held_mutexes, status, todo>>
    BY <1>3 DEF Quiet, ThreadsSame, ListsSame
  <2>2. \A t \in Thread : Dropping(t) => Dropping(t)'
    BY <2>1 DEF Dropping
  <2> QED
    BY <2>1, <2>2, HoldSame DEF OwnInv
<1>4. CASE \/ \E o \in WaitObject : Signals(o)
           \/ \E objs : Takes(objs)
           \/ \E a \in Address : ArbiterSignals(a)
           \/ \E t \in Thread, p \in Priority : SetsPriority(t, p)
           \/ \E t \in Thread : TimesOut(t)
  <2>1. Idle /\ UNCHANGED <<lock_count, holding_thread, held_mutexes, status>>
    BY <1>4 DEF Signals, Takes, ArbiterSignals, SetsPriority, TimesOut, ThreadsSame,
       ListsSame
  <2> QED
    BY <1>2, <2>1, HoldSame DEF OwnInv
<1>5. CASE \E v \in WaitStatus : Yields(v)
  <2>1. PICK v \in WaitStatus :
          /\ Idle /\ current_thread \in Thread /\ status[current_thread] = "Running"
          /\ status' = [status EXCEPT ![current_thread] = v]
          /\ UNCHANGED <<lock_count, holding_thread, held_mutexes>>
    BY <1>5 DEF Yields
  <2>2. v # "Dead" /\ v # "Dormant"
    BY DEF WaitStatus, SynchStatus
  <2> QED
    BY <1>1, <1>2, <2>1, <2>2, HoldSame DEF OwnInv
<1>6. CASE Reschedules
  <2>1. /\ Idle /\ UNCHANGED <<lock_count, holding_thread, held_mutexes>>
        /\ \A u \in Thread : \/ status'[u] = status[u]
                             \/ /\ status[u] \in {"Ready", "Running"}
                                /\ status'[u] \in {"Ready", "Running"}
    BY <1>6 DEF Reschedules, ListsSame
  <2> QED
    BY <1>2, <2>1, HoldSame DEF OwnInv
<1>7. CASE \E t \in Thread, p \in Priority : Creates(t, p)
  <2>1. PICK t \in Thread :
          /\ Idle /\ UNCHANGED <<lock_count, holding_thread, held_mutexes>>
          /\ status[t] = "Dormant" /\ status' = [status EXCEPT ![t] = "Ready"]
    BY <1>7 DEF Creates, ListsSame
  <2> QED
    BY <1>1, <1>2, <2>1, HoldSame DEF OwnInv
<1>8. CASE \E m \in Mutex : ReleasesOnce(m)
  <2>1. PICK m \in Mutex :
          /\ Idle /\ lock_count[m] > 1
          /\ lock_count' = [lock_count EXCEPT ![m] = lock_count[m] - 1]
          /\ UNCHANGED <<holding_thread, held_mutexes, status>>
    BY <1>8 DEF ReleasesOnce, ThreadsSame
  <2>2. lock_count \in [Mutex -> Nat]
    BY DEF IInv, TypeOK
  <2>3. \A x \in Mutex : lock_count'[x] > 0 <=> lock_count[x] > 0
    BY <2>1, <2>2, SMT
  <2>4. HoldInv'
    BY <1>2, <2>1, <2>3 DEF OwnInv, HoldInv
  <2> QED
    BY <2>1, <2>4 DEF OwnInv, DormantInv
<1>9. CASE \E m \in Mutex : Releases(m)
  <2>1. PICK m \in Mutex, t \in Thread :
          /\ Idle /\ t = current_thread /\ status[t] = "Running" /\ holding_thread[m] = t
          /\ lock_count' = [lock_count EXCEPT ![m] = 0]
          /\ holding_thread' = [holding_thread EXCEPT ![m] = NULL]
          /\ held_mutexes' = [held_mutexes EXCEPT ![t] = held_mutexes[t] \ {m}]
          /\ UNCHANGED status
    BY <1>9 DEF Releases
  <2>2. /\ \A u \in Thread : held_mutexes'[u] \in {held_mutexes[u], held_mutexes[u] \ {m}}
        /\ \A u \in Thread : m \in held_mutexes'[u] => u # t /\ m \in held_mutexes[u]
    BY <1>1, <2>1
  <2>3. \A u \in Thread : m \notin held_mutexes'[u]
    BY <1>2, <2>1, <2>2 DEF OwnInv, HoldInv
  <2> QED
    BY <1>2, <2>1, <2>2, <2>3, MutexFreed
<1>10. CASE Exits
  <2>1. PICK t \in Thread :
          /\ Idle /\ status[t] = "Running" /\ status' = [status EXCEPT ![t] = "Dead"]
          /\ UNCHANGED <<lock_count, holding_thread, held_mutexes>>
          /\ \E ms : ReleaseThreadMutexes(t, ms) \in Range(todo')
    BY <1>10 DEF Exits, Yields
  <2>2. Dropping(t)'
    BY <2>1, ReleaseParts DEF Dropping
  <2>3. HoldInv'
    BY <1>1, <1>2, <2>1, <2>2 DEF OwnInv, HoldInv
  <2> QED
    BY <1>1, <2>1, <2>3 DEF OwnInv, DormantInv
<1> QED
  <2>1. \/ Falls \/ \E how, objs : Suspends(how, objs)
        \/ \E a \in Address : Arbitrates(a)
        => \E v \in WaitStatus : Yields(v)
    BY DEF Falls, Suspends, Arbitrates, WaitStatus
  <2> QED
    BY <1>3, <1>4, <1>5, <1>6, <1>7, <1>8, <1>9, <1>10, <2>1 DEF Outside

(* Every step of the kernel keeps the invariant of the owners.             *)
LEMMA OwnNext == IInv /\ EventInv /\ OwnInv /\ [Next]_vars => OwnInv'
<1> SUFFICES ASSUME IInv, EventInv, OwnInv, [Next]_vars PROVE OwnInv'
  OBVIOUS
<1>1. HoldInv' /\ DormantInv'
  BY RoutineHold, OutsideHold, StepKinds
<1>2. CallsInv'
  BY StartSound, WakeupSound, TakenSound, AddSound, RemoveSound, ReleaseSound, OtherSound,
     StepKinds DEF Continue
<1> QED
  BY <1>1, <1>2 DEF OwnInv
-----------------------------------------------------------------------------
(* The best of one priority.                                               *)
LEMMA MinAlone ==
    ASSUME NEW p \in Priority
    PROVE  Min({p}) = p
<1>1. p <= p
  BY ThreadsAssumption, SMT DEF Priority
<1> QED
  BY <1>1 DEF Min

(* Priorities.  A thread keeps the best of its own priority and those of   *)
(* the mutexes it holds.                                                   *)
LEMMA BestSame ==
    ASSUME NEW u, nominal_priority'[u] = nominal_priority[u],
           held_mutexes'[u] = held_mutexes[u],
           \A m \in held_mutexes[u] : priority'[m] = priority[m]
    PROVE  BestPriority(u, held_mutexes[u], priority)'
               = BestPriority(u, held_mutexes[u], priority)
<1>1. {priority'[m] : m \in held_mutexes'[u]} = {priority[m] : m \in held_mutexes[u]}
  OBVIOUS
<1> QED
  BY <1>1 DEF BestPriority

(* A step that only concerns the priorities of the threads of T.           *)
LEMMA PrioritySame ==
    ASSUME EffectivePriority, NEW T \in SUBSET Thread,
           \A u \in Thread \ T : status'[u] # "Dead" =>
               /\ status[u] # "Dead" /\ current_priority'[u] = current_priority[u]
               /\ nominal_priority'[u] = nominal_priority[u]
               /\ held_mutexes'[u] = held_mutexes[u]
               /\ \A m \in held_mutexes[u] : priority'[m] = priority[m],
           \A t \in T : status'[t] # "Dead" =>
               current_priority'[t] = BestPriority(t, held_mutexes[t], priority)'
    PROVE  EffectivePriority'
<1> SUFFICES ASSUME NEW u \in Thread, status'[u] # "Dead"
             PROVE  current_priority'[u] = BestPriority(u, held_mutexes[u], priority)'
  BY DEF EffectivePriority
<1>1. CASE u \in T
  BY <1>1
<1>2. CASE u \notin T
  <2>1. /\ current_priority'[u] = current_priority[u] /\ status[u] # "Dead"
        /\ BestPriority(u, held_mutexes[u], priority)'
               = BestPriority(u, held_mutexes[u], priority)
    BY <1>2, BestSame
  <2> QED
    BY <2>1 DEF EffectivePriority
<1> QED
  BY <1>1, <1>2

(* Only its holder, if it lives, feels the priority of a mutex.            *)
LEMMA OnlyHolder ==
    ASSUME OwnInv, NEW m \in Mutex, NEW u \in Thread, status[u] # "Dead",
           m \in held_mutexes[u]
    PROVE  holding_thread[m] = u
  BY DEF OwnInv, HoldInv

(* Mutex::UpdatePriority of a list keeps its holder's priority effective.  *)
LEMMA BoostedKept ==
    ASSUME IInv, OwnInv, EffectivePriority, Boosted,
           UNCHANGED <<status, nominal_priority, held_mutexes>>
    PROVE  EffectivePriority'
<1>1. CASE UNCHANGED <<priority, current_priority>>
  <2>1. {} \in SUBSET Thread
    OBVIOUS
  <2> QED
    BY <1>1, <2>1, PrioritySame
<1>2. CASE \E m \in Mutex, t \in Thread :
             /\ holding_thread[m] = t
             /\ \A x \in Mutex \ {m} : priority'[x] = priority[x]
             /\ current_priority' = [current_priority EXCEPT ![t] =
                                         BestPriority(t, held_mutexes[t], priority')]
  <2>1. PICK m \in Mutex, t \in Thread :
             /\ holding_thread[m] = t
             /\ \A x \in Mutex \ {m} : priority'[x] = priority[x]
             /\ current_priority' = [current_priority EXCEPT ![t] =
                                         BestPriority(t, held_mutexes[t], priority')]
    BY <1>2
  <2>2. /\ current_priority \in [Thread -> Priority]
        /\ held_mutexes \in [Thread -> SUBSET Mutex] /\ {t} \in SUBSET Thread
    BY DEF IInv, TypeOK
  <2>3. current_priority'[t] = BestPriority(t, held_mutexes[t], priority)'
    BY <2>1, <2>2 DEF BestPriority
  <2>4. ASSUME NEW u \in Thread \ {t}, status[u] # "Dead", NEW x \in held_mutexes[u]
        PROVE  priority'[x] = priority[x]
    <3>1. x \in Mutex
      BY <2>2
    <3>2. holding_thread[x] = u
      BY <2>4, <3>1, OnlyHolder
    <3> QED
      BY <2>1, <2>4, <3>1, <3>2
  <2>5. \A u \in Thread \ {t} : current_priority'[u] = current_priority[u]
    BY <2>1, <2>2
  <2> QED
    BY <2>2, <2>3, <2>4, <2>5, PrioritySame
<1> QED
  BY <1>1, <1>2 DEF Boosted

(* Mutex::Acquire keeps the priority of the new holder effective.          *)
LEMMA TakenKept ==
    ASSUME IInv, OwnInv, EffectivePriority, NEW m \in Mutex, NEW t \in Thread,
           MutexTaken(m, t), UNCHANGED <<status, nominal_priority>>
    PROVE  EffectivePriority'
<1>1. /\ lock_count[m] = 0
      /\ held_mutexes' = [held_mutexes EXCEPT ![t] = held_mutexes[t] \cup {m}]
      /\ priority' = [priority EXCEPT ![m] = current_priority[t]]
      /\ current_priority' = [current_priority EXCEPT ![t] =
                                  BestPriority(t, held_mutexes[t] \cup {m}, priority')]
  BY DEF MutexTaken
<1>2. /\ current_priority \in [Thread -> Priority] /\ priority \in [Mutex -> Priority]
      /\ held_mutexes \in [Thread -> SUBSET Mutex] /\ {t} \in SUBSET Thread
  BY DEF IInv, TypeOK
<1>3. held_mutexes'[t] = held_mutexes[t] \cup {m}
  BY <1>1, <1>2
<1>4. current_priority'[t] = BestPriority(t, held_mutexes[t], priority)'
  BY <1>1, <1>2, <1>3 DEF BestPriority
<1>5. ~(lock_count[m] > 0)
  BY <1>1, SMT
<1>6. holding_thread[m] = NULL
  BY <1>5 DEF OwnInv, HoldInv
<1>7. ASSUME NEW u \in Thread \ {t}, status[u] # "Dead", NEW x \in held_mutexes[u]
      PROVE  priority'[x] = priority[x]
  <2>1. x \in Mutex /\ NULL # u
    BY <1>2, ThreadsAssumption DEF WaitObject
  <2>2. holding_thread[x] = u
    BY <1>7, <2>1, OnlyHolder
  <2> QED
    BY <1>1, <1>2, <1>6, <2>1, <2>2
<1>8. \A u \in Thread \ {t} : /\ current_priority'[u] = current_priority[u]
                              /\ held_mutexes'[u] = held_mutexes[u]
  BY <1>1, <1>2
<1> QED
  BY <1>2, <1>4, <1>7, <1>8, PrioritySame

(* A turn of a routine keeps the priorities effective.                     *)
LEMMA RoutinePriority ==
    ASSUME IInv, OwnInv, EffectivePriority, Continue
    PROVE  EffectivePriority'
<1>1. status \in [Thread -> Status] /\ held_mutexes \in [Thread -> SUBSET Mutex]
  BY DEF IInv, TypeOK
<1>2. {} \in SUBSET Thread
  OBVIOUS
<1>3. CASE WakeupNext \/ ResumeNext
  BY <1>2, <1>3, WakeupFrame, ArbiterFrame, PrioritySame
<1>4. CASE AddNext \/ RemoveNext \/ UpdateNext
  BY <1>4, AddFrame, RemoveFrame, UpdateFrame, BoostedKept
<1>5. CASE AcquireNext
  <2>1. PICK t \in Thread, o \in WaitObject :
          /\ t = Head(todo).thread /\ o = Head(Head(todo).objects)
          /\ UNCHANGED <<status, nominal_priority>>
    BY <1>5, AcquireFrame, LoopCall
  <2>2. CASE o \in Mutex /\ MutexTaken(o, t)
    BY <2>1, <2>2, TakenKept
  <2>3. CASE UNCHANGED <<held_mutexes, priority, current_priority>>
    BY <1>2, <2>1, <2>3, PrioritySame
  <2> QED
    BY <1>5, <2>1, <2>2, <2>3, AcquireFrame DEF MutexTakenAgain
<1>6. CASE ReleaseNext
  <2>1. PICK t \in Thread :
          /\ UNCHANGED <<status, nominal_priority, current_priority, priority>>
          /\ UNCHANGED held_mutexes \/ held_mutexes' = [held_mutexes EXCEPT ![t] = {}]
          /\ Head(todo) \in Range(todo) /\ Head(todo).op = "release" /\ t = Head(todo).thread
    BY <1>6, ReleaseFrame, HeadCall
  <2>2. status[t] = "Dead"
    BY <2>1 DEF OwnInv, CallsInv, CallInv
  <2>3. {t} \in SUBSET Thread
    OBVIOUS
  <2> QED
    BY <1>1, <2>1, <2>2, <2>3, PrioritySame
<1>7. CASE Resume
  <2>1. PICK t \in Thread :
          /\ UNCHANGED <<nominal_priority, current_priority, held_mutexes, priority>>
          /\ \/ UNCHANGED status
             \/ status[t] \in WaitStatus /\ status' = [status EXCEPT ![t] = "Ready"]
    BY <1>7, ResumeFrame
  <2>2. \A u \in Thread : status'[u] # "Dead" => status[u] # "Dead"
    BY <1>1, <2>1 DEF WaitStatus, SynchStatus
  <2> QED
    BY <1>2, <2>1, <2>2, PrioritySame
<1> QED
  BY <1>3, <1>4, <1>5, <1>6, <1>7 DEF Continue

(* A step of a system call, a timeout or the scheduler keeps them too.     *)
LEMMA OutsidePriority ==
    ASSUME IInv, OwnInv, EffectivePriority, Outside
    PROVE  EffectivePriority'
<1>1. /\ status \in [Thread -> Status] /\ held_mutexes \in [Thread -> SUBSET Mutex]
      /\ current_priority \in [Thread -> Priority]
      /\ nominal_priority \in [Thread -> Priority] /\ {} \in SUBSET Thread
  BY DEF IInv, TypeOK
<1>2. CASE /\ UNCHANGED <<nominal_priority, current_priority, held_mutexes, priority>>
           /\ \A u \in Thread : status'[u] # "Dead" => status[u] # "Dead"
  BY <1>1, <1>2, PrioritySame
<1>3. CASE \E v : Yields(v)
  <2>1. PICK v : /\ UNCHANGED <<nominal_priority, current_priority, held_mutexes, priority>>
                 /\ current_thread \in Thread /\ status[current_thread] = "Running"
                 /\ status' = [status EXCEPT ![current_thread] = v]
    BY <1>3 DEF Yields
  <2>2. \A u \in Thread : status'[u] # "Dead" => status[u] # "Dead"
    BY <1>1, <2>1
  <2> QED
    BY <1>2, <2>1, <2>2
<1>4. CASE \E t \in Thread, p \in Priority : Creates(t, p)
  <2>1. PICK t \in Thread, p \in Priority :
          /\ status[t] = "Dormant" /\ status' = [status EXCEPT ![t] = "Ready"]
          /\ nominal_priority' = [nominal_priority EXCEPT ![t] = p]
          /\ current_priority' = [current_priority EXCEPT ![t] = p]
          /\ UNCHANGED <<held_mutexes, priority>>
    BY <1>4 DEF Creates, ListsSame
  <2>2. held_mutexes'[t] = {} /\ nominal_priority'[t] = p /\ current_priority'[t] = p
    BY <1>1, <2>1 DEF OwnInv, DormantInv
  <2>3. {priority'[m] : m \in held_mutexes'[t]} = {}
    BY <2>2
  <2>4. {nominal_priority'[t]} \cup {priority'[m] : m \in held_mutexes'[t]} = {p}
    BY <2>2, <2>3
  <2>5. Min({p}) = p
    BY MinAlone
  <2>6. current_priority'[t] = BestPriority(t, held_mutexes[t], priority)'
    BY <2>2, <2>4, <2>5 DEF BestPriority
  <2>7. {t} \in SUBSET Thread
    OBVIOUS
  <2> QED
    BY <1>1, <2>1, <2>6, <2>7, PrioritySame
<1>5. CASE \E t \in Thread, p \in Priority : SetsPriority(t, p)
  <2>1. PICK t \in Thread, p \in Priority :
          /\ nominal_priority' = [nominal_priority EXCEPT ![t] = p]
          /\ current_priority' = [current_priority EXCEPT ![t] =
                                      Min({p} \cup {priority[m] : m \in held_mutexes[t]})]
          /\ UNCHANGED <<status, held_mutexes, priority>>
    BY <1>5 DEF SetsPriority, ListsSame
  <2>2. current_priority'[t] = BestPriority(t, held_mutexes[t], priority)'
    BY <1>1, <2>1 DEF BestPriority
  <2>3. {t} \in SUBSET Thread
    OBVIOUS
  <2> QED
    BY <1>1, <2>1, <2>2, <2>3, PrioritySame
<1>6. CASE \E m \in Mutex : Releases(m)
  <2>1. PICK t \in Thread, m \in Mutex :
          /\ held_mutexes' = [held_mutexes EXCEPT ![t] = held_mutexes[t] \ {m}]
          /\ current_priority' = [current_priority EXCEPT ![t] =
                 BestPriority(t, held_mutexes[t] \ {m}, priority)]
          /\ UNCHANGED <<status, nominal_priority, priority>>
    BY <1>6 DEF Releases
  <2>2. held_mutexes'[t] = held_mutexes[t] \ {m}
    BY <1>1, <2>1
  <2>3. current_priority'[t] = BestPriority(t, held_mutexes[t], priority)'
    BY <1>1, <2>1, <2>2 DEF BestPriority
  <2>4. {t} \in SUBSET Thread
    OBVIOUS
  <2> QED
    BY <1>1, <2>1, <2>3, <2>4, PrioritySame
<1>7. CASE Reschedules
  <2>1. /\ UNCHANGED <<nominal_priority, current_priority, held_mutexes, priority>>
        /\ \A u \in Thread : \/ status'[u] = status[u]
                             \/ /\ status[u] \in {"Ready", "Running"}
                                /\ status'[u] \in {"Ready", "Running"}
    BY <1>7 DEF Reschedules, ListsSame
  <2> QED
    BY <1>2, <2>1
<1>8. CASE UNCHANGED <<status, nominal_priority, current_priority, held_mutexes, priority>>
  BY <1>2, <1>8
<1> QED
  <2>1. \/ \E v : Yields(v)
        \/ Reschedules \/ \E m \in Mutex : Releases(m)
        \/ \E t \in Thread, p \in Priority : Creates(t, p) \/ SetsPriority(t, p)
        \/ UNCHANGED <<status, nominal_priority, current_priority, held_mutexes, priority>>
    BY DEF Outside, Quiet, Signals, Takes, Falls, Suspends, Arbitrates, ArbiterSignals,
       Exits, ReleasesOnce, TimesOut, ThreadsSame, ListsSame
  <2> QED
    BY <1>3, <1>4, <1>5, <1>6, <1>7, <1>8, <2>1

(* The main thread starts with its nominal priority.                       *)
LEMMA PriorityInit == Init => EffectivePriority
<1> SUFFICES ASSUME Init, NEW t \in Thread
             PROVE  current_priority[t] = BestPriority(t, held_mutexes[t], priority)
  BY DEF EffectivePriority
<1>1. held_mutexes[t] = {} /\ nominal_priority[t] = MainPriority /\ current_priority[t] = MainPriority
  BY DEF Init
<1>2. {priority[m] : m \in held_mutexes[t]} = {}
  BY <1>1
<1>3. {nominal_priority[t]} \cup {priority[m] : m \in held_mutexes[t]} = {MainPriority}
  BY <1>1, <1>2
<1>4. Min({MainPriority}) = MainPriority
  BY KernelAssumption, MinAlone
<1> QED
  BY <1>1, <1>3, <1>4 DEF BestPriority

(* Every step of the kernel keeps the priorities effective.                *)
LEMMA PriorityNext ==
    IInv /\ OwnInv /\ EffectivePriority /\ [Next]_vars => EffectivePriority'
  BY RoutinePriority, OutsidePriority, StepKinds
-----------------------------------------------------------------------------
(* Rescheduling.  Unless a reschedule is pending, or a thread that waits   *)
(* is about to become ready, nobody ready is better than the one running.  *)
Resuming == \E c \in Range(todo) : c.op = "resume" /\ status[c.thread] \in WaitStatus

NoBetterReady ==
    \A t, u \in Thread : status[t] = "Running" /\ status[u] = "Ready" =>
                              current_priority[t] <= current_priority[u]

RescheduleInv == reschedule_pending \/ Resuming \/ NoBetterReady

(* The invariant of the reschedules gives the property.                    *)
LEMMA RescheduleSound == IInv /\ RescheduleInv => NoMissedReschedule
<1> SUFFICES ASSUME IInv, RescheduleInv, Idle, NEW t \in Thread, NEW u \in Thread,
                    status[t] = "Running", status[u] = "Ready",
                    current_priority[u] < current_priority[t]
             PROVE  reschedule_pending
  BY DEF NoMissedReschedule
<1>1. ~Resuming
  BY StartRange DEF Resuming
<1>2. current_priority[t] \in Priority /\ current_priority[u] \in Priority
  BY DEF IInv, TypeOK
<1>3. ~(current_priority[t] <= current_priority[u])
  BY <1>2, ThreadsAssumption, SMT DEF Priority
<1> QED
  BY <1>1, <1>3 DEF RescheduleInv, NoBetterReady

(* No thread runs in the initial state.                                    *)
LEMMA RescheduleInit == Init => RescheduleInv
<1> SUFFICES ASSUME Init PROVE NoBetterReady
  BY DEF RescheduleInv
<1>1. \A t \in Thread : status[t] # "Running"
  BY DEF Init
<1> QED
  BY <1>1 DEF NoBetterReady

(* A step that makes no thread ready and no priority better.               *)
LEMMA MissedKept ==
    ASSUME RescheduleInv, UNCHANGED <<status, current_priority>>,
           reschedule_pending => reschedule_pending',
           \A c \in Range(todo) :
               c.op = "resume" /\ status[c.thread] \in WaitStatus => c \in Range(todo')
    PROVE  RescheduleInv'
<1>1. Resuming => Resuming'
  BY DEF Resuming
<1>2. NoBetterReady => NoBetterReady'
  BY DEF NoBetterReady
<1> QED
  BY <1>1, <1>2 DEF RescheduleInv

(* A turn of a routine keeps the invariant of the reschedules.             *)
LEMMA RoutineReschedule ==
    ASSUME IInv, OwnInv, RescheduleInv, Continue
    PROVE  RescheduleInv'
<1>1. CASE WakeupNext
  <2>1. /\ todo # <<>> /\ Head(todo).op = "wakeup"
        /\ UNCHANGED <<status, current_priority, reschedule_pending>>
        /\ Range(Tail(todo)) \subseteq Range(todo') \/ Range(todo) \subseteq Range(todo')
    BY <1>1, WakeupFrame
  <2> QED
    BY <2>1, HeadCall, MissedKept
<1>2. CASE AcquireNext
  <2>1. /\ todo # <<>> /\ Head(todo).op = "acquire"
        /\ UNCHANGED status
        /\ reschedule_pending' \/ UNCHANGED <<current_priority, reschedule_pending>>
        /\ Range(Tail(todo)) \subseteq Range(todo')
    BY <1>2, AcquireFrame DEF MutexTaken, MutexTakenAgain
  <2>2. CASE reschedule_pending'
    BY <2>2 DEF RescheduleInv
  <2>3. CASE UNCHANGED <<current_priority, reschedule_pending>>
    BY <2>1, <2>3, HeadCall, MissedKept
  <2> QED
    BY <2>1, <2>2, <2>3
<1>3. CASE AddNext \/ UpdateNext
  <2>1. /\ Head(todo) \in Range(todo) /\ Head(todo).op \in {"add", "update"}
        /\ UNCHANGED reschedule_pending
    BY <1>3, AddFrame, UpdateFrame, HeadCall
  <2>2. reschedule_pending
    BY <2>1 DEF OwnInv, CallsInv, CallInv
  <2> QED
    BY <2>1, <2>2 DEF RescheduleInv
<1>4. CASE RemoveNext
  <2>1. PICK t \in Thread :
          /\ t = Head(todo).thread /\ Head(todo).op = "remove" /\ todo # <<>>
          /\ wait_objects[t] # <<>> /\ UNCHANGED status
          /\ Range(Tail(todo)) \subseteq Range(todo') \/ Range(todo) \subseteq Range(todo')
    BY <1>4, RemoveFrame
  <2>2. status[t] \in WaitStatus
    BY <2>1 DEF IInv, WaitListsExact, WaitStatus
  <2>3. ResumeFromWait(t) \in Range(todo)
    BY <2>1, HeadCall DEF OwnInv, CallsInv, CallInv, Pending
  <2>4. ResumeFromWait(t).op = "resume" /\ ResumeFromWait(t).thread = t
    BY CallParts
  <2>5. ResumeFromWait(t) \in Range(todo')
    BY <2>1, <2>3, <2>4, HeadCall
  <2>6. PICK c \in Range(todo') : c.op = "resume" /\ c.thread = t
    BY <2>4, <2>5
  <2>7. status'[c.thread] \in WaitStatus
    BY <2>1, <2>2, <2>6
  <2> QED
    BY <2>6, <2>7 DEF RescheduleInv, Resuming
<1>5. CASE ReleaseNext \/ ResumeNext
  <2>1. /\ todo # <<>> /\ Head(todo).op \in {"release", "arbiter"}
        /\ UNCHANGED <<status, current_priority, reschedule_pending>>
        /\ Range(Tail(todo)) \subseteq Range(todo')
    BY <1>5, ReleaseFrame, ArbiterFrame
  <2> QED
    BY <2>1, HeadCall, MissedKept
<1>6. CASE Resume
  <2>1. /\ todo # <<>> /\ Range(todo') = Range(Tail(todo)) /\ UNCHANGED current_priority
        /\ \/ reschedule_pending'
           \/ /\ status[Head(todo).thread] = "Ready"
              /\ UNCHANGED <<status, reschedule_pending>>
    BY <1>6, ResumeFrame
  <2>2. "Ready" \notin WaitStatus
    BY DEF WaitStatus, SynchStatus
  <2>3. CASE reschedule_pending'
    BY <2>3 DEF RescheduleInv
  <2>4. CASE /\ status[Head(todo).thread] = "Ready"
             /\ UNCHANGED <<status, reschedule_pending>>
    BY <2>1, <2>2, <2>4, HeadCall, MissedKept
  <2> QED
    BY <2>1, <2>3, <2>4
<1> QED
  BY <1>1, <1>2, <1>3, <1>4, <1>5, <1>6 DEF Continue

(* A step of a system call, a timeout or the scheduler keeps it too.       *)
LEMMA OutsideReschedule ==
    ASSUME IInv, RescheduleInv, Outside
    PROVE  RescheduleInv'
<1>1. CASE reschedule_pending'
  BY <1>1 DEF RescheduleInv
<1>2. CASE Quiet
  <2>1. /\ UNCHANGED <<status, current_priority, todo>>
        /\ reschedule_pending => reschedule_pending'
    BY <1>2 DEF Quiet, ThreadsSame
  <2>2. Range(todo') = Range(todo)
    BY <2>1
  <2> QED
    BY <2>1, <2>2, MissedKept
<1>3. CASE Idle /\ UNCHANGED <<status, current_priority, reschedule_pending>>
  BY <1>3, StartRange, MissedKept
<1>4. CASE Reschedules
  <2>1. /\ Idle /\ UNCHANGED current_priority
        /\ reschedule_pending => \A t, u \in Thread :
              status'[t] = "Running" /\ status'[u] = "Ready" =>
                  current_priority[t] <= current_priority[u]
        /\ ~reschedule_pending => UNCHANGED status
    BY <1>4 DEF Reschedules
  <2>2. ~Resuming
    BY <2>1, StartRange DEF Resuming
  <2>3. NoBetterReady'
    BY <2>1, <2>2 DEF RescheduleInv, NoBetterReady
  <2> QED
    BY <2>3 DEF RescheduleInv
<1> QED
  <2>1. \/ reschedule_pending' \/ Quiet \/ Reschedules
        \/ Idle /\ UNCHANGED <<status, current_priority, reschedule_pending>>
    BY DEF Outside, Signals, Takes, Falls, Suspends, Arbitrates, ArbiterSignals, Yields,
       Exits, Creates, SetsPriority, Releases, ReleasesOnce, TimesOut, ThreadsSame
  <2> QED
    BY <1>1, <1>2, <1>3, <1>4, <2>1

(* Every step of the kernel keeps the invariant of the reschedules.        *)
LEMMA RescheduleNext ==
    IInv /\ OwnInv /\ RescheduleInv /\ [Next]_vars => RescheduleInv'
  BY RoutineReschedule, OutsideReschedule, StepKinds

(* Only a reschedule takes the CPU from a running thread.                  *)
LEMMA OnlyReschedules ==
    ASSUME IInv, [Next]_vars, NEW t \in Thread, status[t] = "Running", status'[t] = "Ready"
    PROVE  Reschedules
<1>1. status \in [Thread -> Status]
  BY DEF IInv, TypeOK
<1>2. CASE Continue
  <2>1. \/ UNCHANGED status
        \/ \E u \in Thread : status[u] \in WaitStatus /\ status' = [status EXCEPT ![u] = "Ready"]
    BY <1>2, WakeupFrame, AcquireFrame, AddFrame, RemoveFrame, ReleaseFrame, UpdateFrame,
       ResumeFrame, ArbiterFrame DEF Continue
  <2> QED
    BY <1>1, <2>1 DEF WaitStatus, SynchStatus
<1>3. CASE Outside
  <2>1. \/ Reschedules \/ UNCHANGED status
        \/ \E v : Yields(v) /\ v \in WaitStatus \cup {"Dead"}
        \/ \E u \in Thread : status[u] = "Dormant" /\ status' = [status EXCEPT ![u] = "Ready"]
    BY <1>3 DEF Outside, Quiet, Signals, Takes, Falls, Suspends, Arbitrates,
       ArbiterSignals, Exits, Creates, SetsPriority, Releases, ReleasesOnce, TimesOut,
       ThreadsSame, WaitStatus
  <2>2. ASSUME NEW v, Yields(v), v \in WaitStatus \cup {"Dead"} PROVE FALSE
    BY <1>1, <2>2 DEF Yields, WaitStatus, SynchStatus
  <2>3. ASSUME NEW u \in Thread, status[u] = "Dormant",
               status' = [status EXCEPT ![u] = "Ready"] PROVE FALSE
    BY <1>1, <2>3
  <2> QED
    BY <2>1, <2>2, <2>3
<1> QED
  BY <1>2, <1>3, StepKinds
=============================================================================
