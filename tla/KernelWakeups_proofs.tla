------------------------ MODULE KernelWakeups_proofs ------------------------
(***************************************************************************)
(* The invariants of Kernel about the threads that wait for an object or   *)
(* for the arbiter, and are woken up.                                      *)
(***************************************************************************)
EXTENDS KernelSteps_proofs

(* The leaves are for Zenon where they name no other prover.               *)
USE ZenonT(40)
-----------------------------------------------------------------------------
(* Wakeups.  What threads wait for, and what calls are about to take or to *)
(* wait for, exists; so does a mutex that is locked.                       *)
ExistInv ==
    /\ \A t \in Thread : Range(wait_objects[t]) \subseteq Thread \cup created
    /\ \A c \in Range(todo) :
          c.op \in {"add", "acquire"} => Range(c.objects) \subseteq Thread \cup created
    /\ \A m \in Mutex : lock_count[m] # 0 => m \in created

(* A thread that is being added to the lists of its objects had to wait.   *)
MustWait(t, objs) ==
    IF status[t] = "WaitSynchAll" THEN \E x \in objs : ShouldWait(x, t)
    ELSE \A x \in objs : ShouldWait(x, t)

AddInv ==
    \A c \in Range(todo) : c.op = "add" =>
        MustWait(c.thread, Range(wait_objects[c.thread]) \cup Range(c.objects))

(* A thread that could go on, through o, is about to be woken up: through  *)
(* o itself unless it waits for all of its objects.                        *)
Woken(o, t) ==
    \/ Pending(WakeupAllWaitingThreads(o))
    \/ /\ status[t] = "WaitSynchAll"
       /\ \E x \in Range(wait_objects[t]) : Pending(WakeupAllWaitingThreads(x))
    \/ Pending(RemoveWaitingThreadEach(t))
    \/ \E c \in Range(todo) : c.op = "add" /\ c.thread = t

WakeInv ==
    \A o \in WaitObject, t \in Thread :
        t \in Range(waiting_threads[o]) /\ ReadyToRun(o, t) => Woken(o, t)

WakeupInv == ExistInv /\ AddInv /\ WakeInv

(* ReadyToRun, by the set of the wait objects.                             *)
ReadyParts ==
    \A o, t : ReadyToRun(o, t) <=>
        /\ ~ShouldWait(o, t)
        /\ status[t] = "WaitSynchAll" =>
               \A x \in Range(wait_objects[t]) : ~ShouldWait(x, t)

(* The two ways to say it agree.                                           *)
LEMMA ReadyIs == ReadyParts
  BY DEF ReadyParts, ReadyToRun, Range

(* The invariant of the wakeups gives the property.                        *)
LEMMA WakeupsSound == IInv /\ WakeInv => NoLostWakeup
<1> SUFFICES ASSUME IInv, WakeInv, NEW o \in WaitObject, NEW t \in Thread,
                    t \in Range(waiting_threads[o]), ReadyToRun(o, t)
             PROVE  \/ \E x \in Range(wait_objects[t]) : Pending(WakeupAllWaitingThreads(x))
                    \/ Pending(RemoveWaitingThreadEach(t))
                    \/ \E i \in DOMAIN todo : todo[i].op = "add" /\ todo[i].thread = t
  BY DEF NoLostWakeup
<1>1. o \in Range(wait_objects[t])
  BY DEF IInv, WaitListsExact
<1>2. Woken(o, t)
  BY DEF WakeInv
<1>3. ASSUME NEW c \in Range(todo), c.op = "add", c.thread = t
      PROVE  \E i \in DOMAIN todo : todo[i].op = "add" /\ todo[i].thread = t
  BY <1>3 DEF Range
<1> QED
  BY <1>1, <1>2, <1>3 DEF Woken

(* Nobody waits and no mutex is locked in the initial state.               *)
LEMMA WakeupInit == Init => WakeupInv
<1> SUFFICES ASSUME Init PROVE WakeupInv
  OBVIOUS
<1>1. Range(todo) = {}
  BY StartRange DEF Init, Idle
<1>2. \A t \in Thread : Range(wait_objects[t]) = {}
  BY SMT DEF Init, Range
<1>3. \A o \in WaitObject : Range(waiting_threads[o]) = {}
  BY SMT DEF Init, Range
<1>4. \A m \in Mutex : lock_count[m] = 0
  BY DEF Init
<1> QED
  BY <1>1, <1>2, <1>3, <1>4 DEF WakeupInv, ExistInv, AddInv, WakeInv

(* The threads in a list are in a synchronization wait for the object.     *)
LEMMA Listed ==
    ASSUME WaitListsExact, NEW o \in WaitObject, NEW t \in Thread,
           t \in Range(waiting_threads[o])
    PROVE  o \in Range(wait_objects[t]) /\ status[t] \in SynchStatus
<1>1. o \in Range(wait_objects[t])
  BY DEF WaitListsExact
<1>2. wait_objects[t] # <<>>
  BY <1>1, EmptyLength, SMT DEF Range
<1> QED
  BY <1>1, <1>2 DEF WaitListsExact

(* A thread that can run after a step, of an object that could make it     *)
(* wait before, is to be woken up if every object freed is to wake it up.  *)
LEMMA ReadyBefore ==
    ASSUME NEW o, NEW t, o \in Range(wait_objects[t]),
           status'[t] = status[t], wait_objects'[t] = wait_objects[t],
           \A x \in Range(wait_objects[t]) : ShouldWait(x, t) =>
               ShouldWait(x, t)' \/ Pending(WakeupAllWaitingThreads(x))',
           ReadyToRun(o, t)'
    PROVE  Woken(o, t)' \/ ReadyToRun(o, t)
<1>1. ReadyParts /\ ReadyParts'
  BY ReadyIs, PTL
<1>2. Range(wait_objects[t])' = Range(wait_objects[t])
  BY DEF Range
<1>3. CASE status[t] = "WaitSynchAll"
  <2>1. \A x \in Range(wait_objects[t]) : ~ShouldWait(x, t)'
    BY <1>1, <1>2, <1>3 DEF ReadyParts
  <2>2. CASE \E x \in Range(wait_objects[t]) : ShouldWait(x, t)
    BY <1>2, <1>3, <2>1, <2>2 DEF Woken
  <2>3. CASE \A x \in Range(wait_objects[t]) : ~ShouldWait(x, t)
    BY <1>1, <2>3 DEF ReadyParts
  <2> QED
    BY <2>2, <2>3
<1>4. CASE status[t] # "WaitSynchAll"
  <2>1. ~ShouldWait(o, t)'
    BY <1>1 DEF ReadyParts
  <2>2. CASE ShouldWait(o, t)
    BY <2>1, <2>2 DEF Woken
  <2>3. CASE ~ShouldWait(o, t)
    BY <1>1, <1>4, <2>3 DEF ReadyParts
  <2> QED
    BY <2>2, <2>3
<1> QED
  BY <1>3, <1>4

(* The calls that are to wake up a thread stay.                            *)
LEMMA WokenKept ==
    ASSUME NEW o, NEW t, Woken(o, t),
           status'[t] = status[t], wait_objects'[t] = wait_objects[t],
           \A c \in Range(todo) : c.op \in {"wakeup", "remove", "add"} => c \in Range(todo')
    PROVE  Woken(o, t)'
<1>1. Range(wait_objects[t])' = Range(wait_objects[t])
  BY DEF Range
<1>2. \A x : Pending(WakeupAllWaitingThreads(x)) => Pending(WakeupAllWaitingThreads(x))'
  BY CallParts DEF Pending
<1>3. Pending(RemoveWaitingThreadEach(t)) => Pending(RemoveWaitingThreadEach(t))'
  BY CallParts DEF Pending
<1>4. (\E c \in Range(todo) : c.op = "add" /\ c.thread = t) =>
          \E c \in Range(todo') : c.op = "add" /\ c.thread = t
  OBVIOUS
<1> QED
  BY <1>1, <1>2, <1>3, <1>4 DEF Woken

(* The objects that no step frees, and the threads that do not die.        *)
LEMMA WaitsStay ==
    ASSUME NEW o, NEW t, UNCHANGED <<lock_count, holding_thread, signaled, available_count>>,
           o \in Thread /\ status[o] # "Dead" => status'[o] # "Dead"
    PROVE  ShouldWait(o, t) => ShouldWait(o, t)'
  BY DEF ShouldWait, ThreadShouldWait, SignalShouldWait, SemaphoreShouldWait, MutexShouldWait

(* Acquiring an object frees none.                                         *)
LEMMA AcquireWaits ==
    ASSUME IInv, AcquireNext, NEW x \in WaitObject, NEW u \in Thread
    PROVE  /\ ShouldWait(x, u) => ShouldWait(x, u)'
           /\ x # Head(Head(todo).objects) => (ShouldWait(x, u)' => ShouldWait(x, u))
<1>1. todo # <<>> /\ Head(todo).op = "acquire"
  BY DEF AcquireNext, Doing
<1>2. PICK t \in Thread, o \in WaitObject : t = Head(todo).thread /\ o = Head(Head(todo).objects)
  BY <1>1, LoopCall
<1>3. UNCHANGED status /\ Acquire(o, t)
  BY <1>2 DEF AcquireNext
<1>4. ASSUME x \in Event \cup Timer
      PROVE  /\ signaled'[x] = signaled[x] \/ ~signaled'[x]
             /\ x # o => signaled'[x] = signaled[x]
  <2>1. signaled \in [Event \cup Timer -> BOOLEAN]
    BY DEF IInv, TypeOK
  <2>2. signaled' = signaled \/ signaled' = [signaled EXCEPT ![o] = FALSE]
    BY <1>3 DEF Acquire, AcquireSignal
  <2> QED
    BY <1>4, <2>1, <2>2
<1>5. ASSUME x \in Semaphore
      PROVE  /\ available_count[x] <= 0 => available_count'[x] <= 0
             /\ x # o => available_count'[x] = available_count[x]
  <2>1. available_count \in [Semaphore -> Int]
    BY DEF IInv, TypeOK
  <2>2. \/ available_count' = available_count
        \/ /\ available_count[o] > 0 /\ o \in Semaphore
           /\ available_count' = [available_count EXCEPT ![o] = @ - 1]
    BY <1>3 DEF Acquire, AcquireSemaphore
  <2> QED
    BY <1>5, <2>1, <2>2, SMTT(30)
<1>6. ASSUME x \in Mutex
      PROVE  /\ MutexShouldWait(x, u) => MutexShouldWait(x, u)'
             /\ x # o => (MutexShouldWait(x, u)' => MutexShouldWait(x, u))
  <2>1. lock_count \in [Mutex -> Nat] /\ holding_thread \in [Mutex -> Thread \cup {NULL}]
    BY DEF IInv, TypeOK
  <2>2. \/ UNCHANGED <<lock_count, holding_thread>>
        \/ o \in Mutex /\ (MutexTaken(o, t) \/ MutexTakenAgain(o, t))
    BY <1>2, AcquireFrame
  <2>3. CASE x # o
    <3>1. lock_count'[x] = lock_count[x] /\ holding_thread'[x] = holding_thread[x]
      BY <1>6, <2>1, <2>2, <2>3 DEF MutexTaken, MutexTakenAgain
    <3> QED
      BY <3>1 DEF MutexShouldWait
  <2>4. CASE x = o
    <3>1. CASE UNCHANGED <<lock_count, holding_thread>>
      BY <2>4, <3>1 DEF MutexShouldWait
    <3>2. CASE MutexTaken(o, t)
      BY <2>1, <2>4, <3>2, SMTT(30) DEF MutexShouldWait, MutexTaken
    <3>3. CASE MutexTakenAgain(o, t)
      BY <1>6, <2>1, <2>4, <3>3, SMTT(30) DEF MutexShouldWait, MutexTakenAgain
    <3> QED
      BY <2>2, <3>1, <3>2, <3>3
  <2> QED
    BY <2>3, <2>4
<1>7. x \in Semaphore => (SemaphoreShouldWait(x) => SemaphoreShouldWait(x)')
  BY <1>5 DEF SemaphoreShouldWait
<1>8. x # o => (x \in Semaphore => (SemaphoreShouldWait(x)' => SemaphoreShouldWait(x)))
  BY <1>5 DEF SemaphoreShouldWait
<1>9. ShouldWait(x, u) => ShouldWait(x, u)'
  BY <1>3, <1>4, <1>6, <1>7 DEF ShouldWait, ThreadShouldWait, SignalShouldWait
<1>10. x # o => (ShouldWait(x, u)' => ShouldWait(x, u))
  BY <1>3, <1>4, <1>6, <1>8 DEF ShouldWait, ThreadShouldWait, SignalShouldWait
<1> QED
  BY <1>2, <1>9, <1>10

(* One turn of WakeupAllWaitingThreads frees nothing.                      *)
LEMMA WakeupWaits ==
    ASSUME IInv, WakeupNext, NEW x, NEW u
    PROVE  ShouldWait(x, u) => ShouldWait(x, u)'
<1>1. signaled \in [Event \cup Timer -> BOOLEAN]
  BY DEF IInv, TypeOK
<1>2. /\ UNCHANGED <<status, lock_count, holding_thread, available_count>>
      /\ signaled' = signaled \/ PulseReset(Head(todo).object)
  BY WakeupFrame
<1>3. x \in Event \cup Timer => signaled'[x] = signaled[x] \/ ~signaled'[x]
  BY <1>1, <1>2 DEF PulseReset
<1> QED
  BY <1>2, <1>3, WaitsSame

(* The threads in a list, before and after a step.                         *)
ListedSound ==
    \A o \in WaitObject, t \in Thread : t \in Range(waiting_threads[o]) =>
        o \in Range(wait_objects[t]) /\ status[t] \in SynchStatus

(* The wait lists are exact, so they hold.                                 *)
LEMMA ListsSound == IInv => ListedSound
  BY Listed DEF IInv, ListedSound

(* A step that frees no object without waking up its threads, and drops no *)
(* call that wakes up t.                                                   *)
LEMMA WakeKept ==
    ASSUME IInv, WakeInv, NEW o \in WaitObject, NEW t \in Thread,
           t \in Range(waiting_threads[o]), ReadyToRun(o, t)',
           status'[t] = status[t], wait_objects'[t] = wait_objects[t],
           \A x \in WaitObject : ShouldWait(x, t) =>
               ShouldWait(x, t)' \/ Pending(WakeupAllWaitingThreads(x))',
           Woken(o, t) => Woken(o, t)'
    PROVE  Woken(o, t)'
<1>1. o \in Range(wait_objects[t])
  BY ListsSound DEF ListedSound
<1>2. wait_objects[t] \in Seq(WaitObject)
  BY DEF IInv, TypeOK
<1>3. \A x \in Range(wait_objects[t]) : x \in WaitObject
  BY <1>2, SMT DEF Range
<1>4. Woken(o, t)' \/ ReadyToRun(o, t)
  BY <1>1, <1>3, ReadyBefore
<1> QED
  BY <1>4 DEF WakeInv

(* A turn of WakeupAllWaitingThreads: it ends when it has nobody to wake.  *)
LEMMA WakeupWakes ==
    ASSUME IInv, WakeInv, WakeupNext
    PROVE  WakeInv'
<1> SUFFICES ASSUME NEW o \in WaitObject, NEW t \in Thread,
                    t \in Range(waiting_threads'[o]), ReadyToRun(o, t)'
             PROVE  Woken(o, t)'
  BY DEF WakeInv
<1>1. PICK h \in WaitObject : h = Head(todo).object
  BY WakeupFrame
<1>2. /\ todo # <<>> /\ Head(todo).op = "wakeup"
      /\ UNCHANGED <<status, wait_objects, waiting_threads>>
  BY WakeupFrame
<1>3. /\ Range(todo) = Range(Tail(todo)) \cup {Head(todo)}
      /\ Head(todo) = WakeupAllWaitingThreads(h)
  BY <1>1, <1>2, HeadCall, CallForms
<1>4. \A x : ShouldWait(x, t) => ShouldWait(x, t)'
  BY WakeupWaits
<1>5. o \in Range(wait_objects[t]) /\ t \in Range(waiting_threads[o])
  BY <1>2, ListsSound DEF ListedSound
<1>6. Woken(o, t)' \/ ReadyToRun(o, t)
  BY <1>2, <1>4, <1>5, ReadyBefore
<1>7. CASE Range(todo) \subseteq Range(todo')
  BY <1>2, <1>5, <1>6, <1>7, WokenKept DEF WakeInv
<1>8. CASE /\ \A u \in Thread : u \in Range(waiting_threads[h]) => ~ReadyToRun(h, u)
           /\ Range(todo') = Range(Tail(todo))
  <2> SUFFICES ASSUME ReadyToRun(o, t), Woken(o, t) PROVE Woken(o, t)'
    BY <1>5, <1>6 DEF WakeInv
  <2>1. \A c \in Range(todo) : c # WakeupAllWaitingThreads(h) => c \in Range(todo')
    BY <1>3, <1>8
  <2>2. o # h
    BY <1>5, <1>8
  <2>3. ASSUME h \in Range(wait_objects[t]), status[t] = "WaitSynchAll"
        PROVE  Pending(RemoveWaitingThreadEach(t))
    <3>1. ReadyToRun(h, t)
      BY <2>3, ReadyIs DEF ReadyParts
    <3> QED
      BY <1>8, <2>3, <3>1 DEF IInv, WaitListsExact
  <2>4. Pending(RemoveWaitingThreadEach(t)) => Pending(RemoveWaitingThreadEach(t))'
    <3>1. RemoveWaitingThreadEach(t) # WakeupAllWaitingThreads(h)
      BY CallParts, SMT
    <3> QED
      BY <2>1, <3>1 DEF Pending
  <2>5. \A x : x # h /\ Pending(WakeupAllWaitingThreads(x)) =>
                   Pending(WakeupAllWaitingThreads(x))'
    <3>1. ASSUME NEW x, WakeupAllWaitingThreads(x) = WakeupAllWaitingThreads(h)
          PROVE  x = h
      <4>1. /\ WakeupAllWaitingThreads(x).object = x
            /\ WakeupAllWaitingThreads(h).object = h
        BY CallParts
      <4> QED
        BY <3>1, <4>1
    <3> QED
      BY <2>1, <3>1 DEF Pending
  <2>6. \A c \in Range(todo) : c.op = "add" => c \in Range(todo')
    BY <2>1, CallParts
  <2>7. Range(wait_objects[t])' = Range(wait_objects[t])
    BY <1>2 DEF Range
  <2>8. CASE Pending(RemoveWaitingThreadEach(t))
    BY <2>4, <2>8 DEF Woken
  <2>9. CASE Pending(WakeupAllWaitingThreads(o))
    BY <2>2, <2>5, <2>9 DEF Woken
  <2>10. CASE \E c \in Range(todo) : c.op = "add" /\ c.thread = t
    BY <2>6, <2>10 DEF Woken
  <2>11. CASE /\ status[t] = "WaitSynchAll"
              /\ \E x \in Range(wait_objects[t]) : Pending(WakeupAllWaitingThreads(x))
    <3>1. PICK x \in Range(wait_objects[t]) : Pending(WakeupAllWaitingThreads(x))
      BY <2>11
    <3>2. CASE x = h
      BY <2>3, <2>8, <2>11, <3>2
    <3>3. CASE x # h
      BY <1>2, <2>5, <2>7, <2>11, <3>1, <3>3 DEF Woken
    <3> QED
      BY <3>2, <3>3
  <2> QED
    BY <2>8, <2>9, <2>10, <2>11 DEF Woken
<1> QED
  <2>1. \/ Range(todo) \subseteq Range(todo')
        \/ /\ \A u \in Thread : u \in Range(waiting_threads[h]) => ~ReadyToRun(h, u)
           /\ Range(todo') = Range(Tail(todo))
    BY <1>1, WakeupFrame
  <2> QED
    BY <1>7, <1>8, <2>1

(* A turn of the loop that adds t: until it ends, t has no wakeup to miss, *)
(* and then it still has to wait.                                          *)
LEMMA AddWakes ==
    ASSUME IInv, IInv', OwnInv, AddInv, WakeInv, AddNext
    PROVE  WakeInv'
<1> SUFFICES ASSUME NEW o \in WaitObject, NEW t \in Thread,
                    t \in Range(waiting_threads'[o]), ReadyToRun(o, t)'
             PROVE  Woken(o, t)'
  BY DEF WakeInv
<1>1. /\ todo # <<>> /\ Head(todo).op = "add"
      /\ UNCHANGED <<status, lock_count, holding_thread, signaled, available_count>>
  BY AddFrame
<1>2. PICK h \in Thread, objs \in Seq(WaitObject), x \in WaitObject :
          /\ h = Head(todo).thread /\ objs = Head(todo).objects /\ x = Head(objs)
          /\ Range(objs) = Range(Tail(objs)) \cup {x}
  BY <1>1, LoopCall
<1>3. /\ Head(todo) \in Range(todo) /\ Range(todo) = {Head(todo)}
  BY <1>1, HeadCall DEF OwnInv, CallsInv, CallInv
<1>4. /\ wait_objects' = [wait_objects EXCEPT ![h] = Append(@, x)]
      /\ t \in Range(waiting_threads[o]) \/ (t = h /\ o = x)
      /\ \/ Tail(objs) = <<>>
         \/ AddWaitingThreadEach(h, Tail(objs)) \in Range(todo')
  BY <1>2, AddFrame
<1>5. wait_objects \in [Thread -> Seq(WaitObject)]
  BY DEF IInv, TypeOK
<1>6. \A y, u : ShouldWait(y, u) => ShouldWait(y, u)'
  BY <1>1, WaitsStay
<1>7. CASE t # h
  <2>1. wait_objects'[t] = wait_objects[t] /\ t \in Range(waiting_threads[o])
    BY <1>4, <1>5, <1>7
  <2>2. ~Woken(o, t)
    <3>1. \A y : ~Pending(WakeupAllWaitingThreads(y))
      BY <1>1, <1>3, CallParts, SMTT(30) DEF Pending
    <3>2. ~Pending(RemoveWaitingThreadEach(t))
      BY <1>1, <1>3, CallParts, SMTT(30) DEF Pending
    <3> QED
      BY <1>2, <1>3, <1>7, <3>1, <3>2 DEF Woken
  <2> QED
    BY <1>1, <1>6, <2>1, <2>2, WakeKept
<1>8. CASE t = h /\ AddWaitingThreadEach(h, Tail(objs)) \in Range(todo')
  <2>1. /\ AddWaitingThreadEach(h, Tail(objs)).op = "add"
        /\ AddWaitingThreadEach(h, Tail(objs)).thread = t
    BY <1>8, CallParts, SMT
  <2>2. \E c \in Range(todo') : c.op = "add" /\ c.thread = t
    BY <1>8, <2>1
  <2> QED
    BY <2>2 DEF Woken
<1>9. CASE t = h /\ Tail(objs) = <<>>
  <2>1. Range(wait_objects'[t]) = Range(wait_objects[t]) \cup Range(objs)
    <3>1. wait_objects'[t] = Append(wait_objects[t], x)
      BY <1>4, <1>5, <1>9
    <3>2. Range(Append(wait_objects[t], x)) = Range(wait_objects[t]) \cup {x}
      BY <1>5, AppendRange, SMT
    <3>3. Range(objs) = {x}
      <4>1. Range(<<>>) = {}
        BY SMT DEF Range
      <4> QED
        BY <1>2, <1>9, <4>1
    <3> QED
      BY <3>1, <3>2, <3>3
  <2>2. MustWait(t, Range(wait_objects'[t]))
    BY <1>1, <1>2, <1>3, <1>9, <2>1 DEF AddInv
  <2>3. ReadyParts' /\ o \in Range(wait_objects'[t])
    <3>1. ListedSound' /\ ReadyParts'
      BY ListsSound, ReadyIs, PTL
    <3> QED
      BY <3>1 DEF ListedSound
  <2>4. /\ ~ShouldWait(o, t)'
        /\ status[t] = "WaitSynchAll" => \A y \in Range(wait_objects'[t]) : ~ShouldWait(y, t)'
    BY <1>1, <2>3 DEF ReadyParts
  <2> QED
    BY <1>6, <2>2, <2>3, <2>4 DEF MustWait
<1> QED
  BY <1>4, <1>7, <1>8, <1>9

(* A turn of the loop that takes a thread out of its lists.                *)
LEMMA RemoveWakes ==
    ASSUME IInv, IInv', WakeInv, RemoveNext
    PROVE  WakeInv'
<1> SUFFICES ASSUME NEW o \in WaitObject, NEW t \in Thread,
                    t \in Range(waiting_threads'[o]), ReadyToRun(o, t)'
             PROVE  Woken(o, t)'
  BY DEF WakeInv
<1>1. /\ todo # <<>> /\ Head(todo).op = "remove"
      /\ UNCHANGED <<status, lock_count, holding_thread, signaled, available_count>>
      /\ t \in Range(waiting_threads[o])
  BY RemoveFrame
<1>2. PICK h \in Thread :
          /\ h = Head(todo).thread /\ Head(todo) = RemoveWaitingThreadEach(h)
          /\ wait_objects' = [wait_objects EXCEPT ![h] = Tail(@)]
          /\ \/ Tail(wait_objects[h]) = <<>> /\ Range(todo') = Range(Tail(todo))
             \/ Range(todo') = Range(todo)
  BY RemoveFrame
<1>3. /\ wait_objects \in [Thread -> Seq(WaitObject)]
      /\ Range(todo) = Range(Tail(todo)) \cup {RemoveWaitingThreadEach(h)}
  BY <1>1, <1>2, HeadCall DEF IInv, TypeOK
<1>4. \A y, u : ShouldWait(y, u) => ShouldWait(y, u)'
  BY <1>1, WaitsStay
<1>5. CASE t = h
  <2>1. CASE Range(todo') = Range(todo)
    BY <1>3, <1>5, <2>1 DEF Woken, Pending
  <2>2. CASE Tail(wait_objects[h]) = <<>>
    <3>1. Range(wait_objects'[t]) = {}
      <4>1. wait_objects'[t] = <<>>
        BY <1>2, <1>3, <1>5, <2>2
      <4>2. Range(<<>>) = {}
        BY SMT DEF Range
      <4> QED
        BY <4>1, <4>2
    <3>2. ListedSound'
      BY ListsSound, PTL
    <3> QED
      BY <3>1, <3>2 DEF ListedSound
  <2> QED
    BY <1>2, <2>1, <2>2
<1>6. CASE t # h
  <2>1. wait_objects'[t] = wait_objects[t]
    BY <1>2, <1>3, <1>6
  <2>2. \A c \in Range(todo) : c # RemoveWaitingThreadEach(h) => c \in Range(todo')
    BY <1>2, <1>3
  <2>3. ASSUME Woken(o, t) PROVE Woken(o, t)'
    <3>1. \A y : WakeupAllWaitingThreads(y) # RemoveWaitingThreadEach(h)
      BY CallParts, SMT
    <3>2. RemoveWaitingThreadEach(t) # RemoveWaitingThreadEach(h)
      BY <1>6, CallParts, SMT
    <3>3. \A c : c.op = "add" => c # RemoveWaitingThreadEach(h)
      BY CallParts, SMT
    <3>4. Range(wait_objects[t])' = Range(wait_objects[t])
      BY <2>1 DEF Range
    <3>5. /\ \A y : Pending(WakeupAllWaitingThreads(y)) => Pending(WakeupAllWaitingThreads(y))'
          /\ Pending(RemoveWaitingThreadEach(t)) => Pending(RemoveWaitingThreadEach(t))'
      BY <2>2, <3>1, <3>2 DEF Pending
    <3>6. (\E c \in Range(todo) : c.op = "add" /\ c.thread = t) =>
              \E c \in Range(todo') : c.op = "add" /\ c.thread = t
      BY <2>2, <3>3
    <3> QED
      BY <1>1, <2>3, <3>4, <3>5, <3>6 DEF Woken
  <2> QED
    BY <1>1, <1>4, <2>1, <2>3, WakeKept
<1> QED
  BY <1>5, <1>6

(* Freeing a mutex frees no other object.                                  *)
LEMMA MutexFrees ==
    ASSUME IInv, NEW m \in Mutex, UNCHANGED <<signaled, available_count>>,
           lock_count' = [lock_count EXCEPT ![m] = 0],
           holding_thread' = [holding_thread EXCEPT ![m] = NULL],
           NEW x, NEW u, x # m, x \in Thread /\ status[x] # "Dead" => status'[x] # "Dead"
    PROVE  ShouldWait(x, u) => ShouldWait(x, u)'
<1>1. lock_count \in [Mutex -> Nat] /\ holding_thread \in [Mutex -> Thread \cup {NULL}]
  BY DEF IInv, TypeOK
<1>2. x \in Mutex => lock_count'[x] = lock_count[x] /\ holding_thread'[x] = holding_thread[x]
  BY <1>1
<1> QED
  BY <1>2 DEF ShouldWait, ThreadShouldWait, SignalShouldWait, SemaphoreShouldWait, MutexShouldWait

(* The other routines: Acquire frees nothing, a release wakes up, and the  *)
(* rest leave the objects alone.                                           *)
LEMMA OtherWakes ==
    ASSUME IInv, IInv', WakeInv,
           AcquireNext \/ ReleaseNext \/ UpdateNext \/ Resume \/ ResumeNext
    PROVE  WakeInv'
<1> SUFFICES ASSUME NEW o \in WaitObject, NEW t \in Thread,
                    t \in Range(waiting_threads'[o]), ReadyToRun(o, t)'
             PROVE  Woken(o, t)'
  BY DEF WakeInv
<1>1. /\ todo # <<>> /\ Head(todo).op \in {"acquire", "release", "update", "resume", "arbiter"}
      /\ UNCHANGED <<wait_objects, waiting_threads>>
      /\ Range(Tail(todo)) \subseteq Range(todo')
  <2>1. CASE AcquireNext
    BY <2>1, AcquireFrame
  <2>2. CASE ReleaseNext
    BY <2>2, ReleaseFrame
  <2>3. CASE UpdateNext
    BY <2>3, UpdateFrame
  <2>4. CASE Resume
    BY <2>4, ResumeFrame
  <2>5. CASE ResumeNext
    BY <2>5, ArbiterFrame
  <2> QED
    BY <2>1, <2>2, <2>3, <2>4, <2>5
<1>2. \A c \in Range(todo) : c.op \in {"wakeup", "remove", "add"} => c \in Range(todo')
  <2>1. Range(todo) = Range(Tail(todo)) \cup {Head(todo)}
    BY <1>1, HeadCall
  <2> QED
    BY <1>1, <2>1
<1>3. status \in [Thread -> Status] /\ t \in Range(waiting_threads[o])
  BY <1>1 DEF IInv, TypeOK
<1>4. ListedSound'
  BY ListsSound, PTL
<1>5. status'[t] \in SynchStatus
  BY <1>4 DEF ListedSound
<1>6. status'[t] = status[t] /\ \A u \in Thread : status[u] # "Dead" => status'[u] # "Dead"
  <2>1. CASE UNCHANGED status
    BY <2>1
  <2>2. CASE \E h \in Thread : status' = [status EXCEPT ![h] = "Ready"]
    BY <1>3, <1>5, <2>2 DEF SynchStatus
  <2> QED
    BY <2>1, <2>2, AcquireFrame, ReleaseFrame, UpdateFrame, ResumeFrame, ArbiterFrame
<1>7. \A x \in WaitObject : ShouldWait(x, t) =>
          ShouldWait(x, t)' \/ Pending(WakeupAllWaitingThreads(x))'
  <2>1. CASE AcquireNext
    BY <2>1, AcquireWaits
  <2>2. CASE ReleaseNext
    <3>1. /\ UNCHANGED <<status, signaled, available_count>>
          /\ \/ \E m \in Mutex : /\ lock_count' = [lock_count EXCEPT ![m] = 0]
                                 /\ holding_thread' = [holding_thread EXCEPT ![m] = NULL]
                                 /\ WakeupAllWaitingThreads(m) \in Range(todo')
             \/ UNCHANGED <<lock_count, holding_thread>>
      BY <2>2, ReleaseFrame
    <3>2. /\ lock_count \in [Mutex -> Nat]
          /\ holding_thread \in [Mutex -> Thread \cup {NULL}]
      BY DEF IInv, TypeOK
    <3>3. CASE UNCHANGED <<lock_count, holding_thread>>
      BY <3>1, <3>3, WaitsStay
    <3>4. CASE \E m \in Mutex : /\ lock_count' = [lock_count EXCEPT ![m] = 0]
                                /\ holding_thread' = [holding_thread EXCEPT ![m] = NULL]
                                /\ WakeupAllWaitingThreads(m) \in Range(todo')
      BY <3>1, <3>2, <3>4, MutexFrees DEF Pending
    <3> QED
      BY <3>1, <3>3, <3>4
  <2>3. CASE UpdateNext \/ Resume \/ ResumeNext
    <3>1. UNCHANGED <<lock_count, holding_thread, signaled, available_count>>
      BY <2>3, UpdateFrame, ResumeFrame, ArbiterFrame
    <3> QED
      BY <1>6, <3>1, WaitsStay
  <2> QED
    BY <2>1, <2>2, <2>3
<1> QED
  BY <1>1, <1>2, <1>3, <1>6, <1>7, WokenKept, WakeKept

(* A turn of a routine keeps the invariant of the wakeups.                 *)
LEMMA RoutineWakes ==
    ASSUME IInv, IInv', OwnInv, AddInv, WakeInv, Continue
    PROVE  WakeInv'
  BY WakeupWakes, AddWakes, RemoveWakes, OtherWakes DEF Continue

(* A step that starts when no routine runs: no thread could go on before,  *)
(* so it is enough that what it frees is to wake up its threads.           *)
LEMMA StartWakes ==
    ASSUME IInv, IInv', WakeInv, Idle, UNCHANGED <<waiting_threads, wait_objects>>,
           \A u \in Thread : status'[u] = status[u] \/ status[u] \notin SynchStatus,
           \A x \in WaitObject, u \in Thread : ShouldWait(x, u) =>
               ShouldWait(x, u)' \/ Pending(WakeupAllWaitingThreads(x))'
    PROVE  WakeInv'
<1> SUFFICES ASSUME NEW o \in WaitObject, NEW t \in Thread,
                    t \in Range(waiting_threads'[o]), ReadyToRun(o, t)'
             PROVE  Woken(o, t)'
  BY DEF WakeInv
<1>1. t \in Range(waiting_threads[o])
  OBVIOUS
<1>2. status'[t] = status[t]
  BY <1>1, ListsSound DEF ListedSound
<1>3. ~Woken(o, t)
  BY StartRange DEF Woken, Pending
<1> QED
  BY <1>1, <1>2, <1>3, WakeKept

(* A step outside the routines keeps the invariant of the wakeups.         *)
LEMMA OutsideWakes ==
    ASSUME IInv, IInv', ExistInv, WakeInv, Outside
    PROVE  WakeInv'
<1>1. CASE Quiet
  <2> SUFFICES ASSUME NEW o \in WaitObject, NEW t \in Thread,
                      t \in Range(waiting_threads'[o]), ReadyToRun(o, t)'
               PROVE  Woken(o, t)'
    BY DEF WakeInv
  <2>1. /\ UNCHANGED <<status, wait_objects, waiting_threads, todo>>
        /\ \A x \in Thread \cup created : ShouldWait(x, t) => ShouldWait(x, t)'
    BY <1>1 DEF Quiet, ThreadsSame, ListsSame
  <2>2. Range(wait_objects[t]) \subseteq Thread \cup created
    BY DEF ExistInv
  <2>3. t \in Range(waiting_threads[o]) /\ o \in Range(wait_objects[t])
    BY <2>1, ListsSound DEF ListedSound
  <2>4. Woken(o, t)' \/ ReadyToRun(o, t)
    BY <2>1, <2>2, <2>3, ReadyBefore
  <2> QED
    BY <2>1, <2>3, <2>4, WokenKept DEF WakeInv
<1>2. CASE \E o \in WaitObject : Signals(o)
  <2>1. PICK o \in WaitObject : Signals(o)
    BY <1>2
  <2>2. /\ Idle /\ UNCHANGED <<status, wait_objects, waiting_threads>>
        /\ Pending(WakeupAllWaitingThreads(o))'
        /\ \A x \in WaitObject \ {o}, u \in Thread : ShouldWait(x, u) => ShouldWait(x, u)'
    BY <2>1 DEF Signals, ThreadsSame, ListsSame, Pending
  <2> QED
    BY <2>2, StartWakes
<1>3. CASE Exits
  <2>0. PICK h : h = current_thread
    OBVIOUS
  <2>1. /\ Idle /\ status[h] = "Running" /\ h \in Thread
        /\ status' = [status EXCEPT ![h] = "Dead"]
        /\ UNCHANGED <<wait_objects, waiting_threads>>
        /\ UNCHANGED <<lock_count, holding_thread, signaled, available_count>>
        /\ Pending(WakeupAllWaitingThreads(h))'
    BY <1>3, <2>0 DEF Exits, Yields, SignalsSame, Pending
  <2>2. status \in [Thread -> Status]
    BY DEF IInv, TypeOK
  <2>3. \A u \in Thread : u # h => status'[u] = status[u]
    BY <2>1, <2>2
  <2>4. \A u \in Thread : status'[u] = status[u] \/ status[u] \notin SynchStatus
    BY <2>1, <2>3 DEF SynchStatus
  <2>5. \A x \in WaitObject, u \in Thread : ShouldWait(x, u) =>
            ShouldWait(x, u)' \/ Pending(WakeupAllWaitingThreads(x))'
    <3>1. \A x : x # h => \A u : ShouldWait(x, u) => ShouldWait(x, u)'
      BY <2>1, <2>3, WaitsStay
    <3> QED
      BY <2>1, <3>1
  <2> QED
    BY <2>1, <2>4, <2>5, StartWakes
<1>4. CASE \E m \in Mutex : Releases(m)
  <2>1. PICK m \in Mutex : Releases(m)
    BY <1>4
  <2>2. /\ Idle /\ UNCHANGED <<status, wait_objects, waiting_threads>>
        /\ Pending(WakeupAllWaitingThreads(m))'
        /\ UNCHANGED <<signaled, available_count>>
        /\ lock_count' = [lock_count EXCEPT ![m] = 0]
        /\ holding_thread' = [holding_thread EXCEPT ![m] = NULL]
    BY <2>1 DEF Releases, SignalsSame, Pending
  <2>3. \A x \in WaitObject, u \in Thread : ShouldWait(x, u) =>
            ShouldWait(x, u)' \/ Pending(WakeupAllWaitingThreads(x))'
    BY <2>2, MutexFrees
  <2> QED
    BY <2>2, <2>3, StartWakes
<1>5. CASE \E m \in Mutex : ReleasesOnce(m)
  <2>1. PICK m \in Mutex : ReleasesOnce(m)
    BY <1>5
  <2>2. /\ Idle /\ UNCHANGED <<status, wait_objects, waiting_threads>>
        /\ UNCHANGED <<signaled, available_count, holding_thread>>
        /\ lock_count[m] > 1 /\ lock_count' = [lock_count EXCEPT ![m] = lock_count[m] - 1]
    BY <2>1 DEF ReleasesOnce, ThreadsSame, SignalsSame
  <2>3. lock_count \in [Mutex -> Nat]
    BY DEF IInv, TypeOK
  <2>4. \A x \in Mutex : lock_count[x] > 0 => lock_count'[x] > 0
    BY <2>2, <2>3, SMTT(30)
  <2>5. \A x, u : ShouldWait(x, u) => ShouldWait(x, u)'
    BY <2>2, <2>4 DEF ShouldWait, ThreadShouldWait, SignalShouldWait,
       SemaphoreShouldWait, MutexShouldWait
  <2> QED
    BY <2>2, <2>5, StartWakes
<1>6. CASE \/ \E objs : Takes(objs)
           \/ Falls \/ Reschedules
           \/ \E how, objs : Suspends(how, objs)
           \/ \E a \in Address : Arbitrates(a) \/ ArbiterSignals(a)
           \/ \E t \in Thread, p \in Priority : Creates(t, p) \/ SetsPriority(t, p)
           \/ \E t \in Thread : TimesOut(t)
  <2>1. /\ Idle /\ UNCHANGED <<wait_objects, waiting_threads>>
        /\ UNCHANGED <<lock_count, holding_thread, signaled, available_count>>
    <3>1. CASE (\E objs : Takes(objs)) \/ Reschedules
      BY <3>1 DEF Takes, Reschedules, ThreadsSame, ListsSame, SignalsSame
    <3>2. CASE Falls \/ \E how, objs : Suspends(how, objs)
      BY <3>2 DEF Falls, Suspends, Yields, SignalsSame
    <3>3. CASE \E a \in Address : Arbitrates(a) \/ ArbiterSignals(a)
      BY <3>3 DEF Arbitrates, ArbiterSignals, Yields, ThreadsSame, ListsSame, SignalsSame
    <3>4. CASE \E t \in Thread, p \in Priority : Creates(t, p) \/ SetsPriority(t, p)
      BY <3>4 DEF Creates, SetsPriority, ListsSame, SignalsSame
    <3>5. CASE \E t \in Thread : TimesOut(t)
      BY <3>5 DEF TimesOut, SignalsSame
    <3> QED
      BY <1>6, <3>1, <3>2, <3>3, <3>4, <3>5
  <2>2. \A u \in Thread : \/ status'[u] = status[u]
                          \/ /\ status[u] \in {"Running", "Ready", "Dormant"}
                             /\ status'[u] # "Dead"
    <3>0. status \in [Thread -> Status]
      BY DEF IInv, TypeOK
    <3>1. CASE \/ \E objs : Takes(objs)
               \/ \E a \in Address : ArbiterSignals(a)
               \/ \E t \in Thread, p \in Priority : SetsPriority(t, p)
               \/ \E t \in Thread : TimesOut(t)
      BY <3>1 DEF Takes, ArbiterSignals, SetsPriority, TimesOut, ThreadsSame
    <3>2. CASE \/ Falls \/ \E how, objs : Suspends(how, objs)
               \/ \E a \in Address : Arbitrates(a)
      <4>1. \A v \in SynchStatus : v # "Dead"
        BY DEF SynchStatus
      <4>2. (Falls => Yields("WaitSleep")) /\ \A a : Arbitrates(a) => Yields("WaitArb")
        BY DEF Falls, Arbitrates
      <4>3. (\E how, objs : Suspends(how, objs)) => \E v : Yields(v) /\ v # "Dead"
        BY <4>1 DEF Suspends
      <4>4. \E v : Yields(v) /\ v # "Dead"
        <5>1. "WaitSleep" # "Dead" /\ "WaitArb" # "Dead"
          OBVIOUS
        <5> QED
          BY <3>2, <4>2, <4>3, <5>1
      <4>5. PICK h, v : /\ h \in Thread /\ status[h] = "Running" /\ v # "Dead"
                        /\ status' = [status EXCEPT ![h] = v]
        BY <4>4 DEF Yields
      <4>6. \A u \in Thread : IF u = h THEN status'[u] = v ELSE status'[u] = status[u]
        BY <3>0, <4>5
      <4> QED
        BY <4>5, <4>6
    <3>3. CASE \E t \in Thread, p \in Priority : Creates(t, p)
      BY <3>0, <3>3 DEF Creates
    <3>4. CASE Reschedules
      BY <3>4 DEF Reschedules
    <3> QED
      BY <1>6, <3>1, <3>2, <3>3, <3>4
  <2>3. \A x, u : ShouldWait(x, u) => ShouldWait(x, u)'
    BY <2>1, <2>2, WaitsStay
  <2>4. \A u \in Thread : status'[u] = status[u] \/ status[u] \notin SynchStatus
    BY <2>2 DEF SynchStatus
  <2> QED
    BY <2>1, <2>3, <2>4, StartWakes
<1> QED
  BY <1>1, <1>2, <1>3, <1>4, <1>5, <1>6 DEF Outside

-----------------------------------------------------------------------------
(* The calls that a step of a routine leaves to be made and that acquire   *)
(* objects, or wait for them, are the ones it starts or goes on with.      *)
LEMMA LoopsAfter ==
    ASSUME IInv, OwnInv, Continue, NEW c \in Range(todo'), c.op \in {"add", "acquire"}
    PROVE  \/ /\ AddNext
              /\ c = AddWaitingThreadEach(Head(todo).thread, Tail(Head(todo).objects))
           \/ /\ AcquireNext
              /\ c = AcquireEach(Head(todo).thread, Tail(Head(todo).objects))
           \/ \E o \in WaitObject, t \in Thread :
                 /\ WakeupNext /\ t \in Range(waiting_threads[o]) /\ ReadyToRun(o, t)
                 /\ c = AcquireEach(t, Acquired(o, t)) /\ UNCHANGED signaled
<1>1. ASSUME todo # <<>> PROVE c \notin Range(Tail(todo))
  <2>1. CASE Head(todo).op = "add"
    <3>1. Range(todo) = {Head(todo)}
      BY <1>1, <2>1, HeadCall DEF OwnInv, CallsInv, CallInv
    <3> QED
      BY <1>1, <2>1, <3>1, HeadCall, LaterCalls
  <2>2. CASE Head(todo).op # "add"
    BY <1>1, <2>2, LaterCalls
  <2> QED
    BY <2>1, <2>2
<1>2. CASE WakeupNext
  <2>1. todo # <<>> /\ Head(todo).op = "wakeup" /\ c \notin Range(todo)
    BY <1>1, <1>2, WakeupFrame, HeadCall, SMTT(30)
  <2>2. PICK o \in WaitObject : o = Head(todo).object
    BY <1>2, WakeupFrame
  <2>3. PICK t \in Thread :
           /\ t \in Range(waiting_threads[o]) /\ ReadyToRun(o, t) /\ UNCHANGED signaled
           /\ Range(todo') = Range(todo) \cup
                 {AcquireEach(t, Acquired(o, t)), RemoveWaitingThreadEach(t), ResumeFromWait(t)}
    BY <1>1, <1>2, <2>1, <2>2, WakeupFrame
  <2>4. c \notin {RemoveWaitingThreadEach(t), ResumeFromWait(t)}
    BY CallParts, SMT
  <2> QED
    BY <1>2, <2>1, <2>3, <2>4
<1>3. CASE AcquireNext
  BY <1>1, <1>3, AcquireFrame
<1>4. CASE AddNext
  BY <1>1, <1>4, AddFrame
<1>5. CASE RemoveNext
  <2>1. c \notin Range(todo)
    BY <1>1, <1>5, RemoveFrame, HeadCall, SMTT(30)
  <2> QED
    BY <1>1, <1>5, <2>1, RemoveFrame
<1>6. CASE ReleaseNext
  <2>1. \A m, t, ms : c # WakeupAllWaitingThreads(m) /\ c # ReleaseThreadMutexes(t, ms)
    BY CallParts, SMT
  <2> QED
    BY <1>1, <1>6, <2>1, ReleaseFrame
<1>7. CASE UpdateNext
  <2>1. \A ms : c # UpdatePriorityEach(ms)
    BY CallParts, SMT
  <2> QED
    BY <1>1, <1>7, <2>1, UpdateFrame
<1>8. CASE Resume
  BY <1>1, <1>8, ResumeFrame
<1>9. CASE ResumeNext
  <2>1. \A t, a, n : c # ResumeFromWait(t) /\ c # ResumeHighest(a, n)
    BY CallParts, SMT
  <2> QED
    BY <1>1, <1>9, <2>1, ArbiterFrame
<1> QED
  BY <1>2, <1>3, <1>4, <1>5, <1>6, <1>7, <1>8, <1>9 DEF Continue

(* The same of the steps outside the routines.                             *)
LEMMA LoopsStarted ==
    ASSUME IInv, Outside, ~Quiet, NEW c \in Range(todo'), c.op \in {"add", "acquire"}
    PROVE  \/ \E objs : Takes(objs) /\ c = AcquireEach(current_thread, objs)
           \/ \E how, objs : Suspends(how, objs) /\ c = AddWaitingThreadEach(current_thread, objs)
<1>1. \A o, t, ms, a, n : /\ c # WakeupAllWaitingThreads(o) /\ c # ReleaseThreadMutexes(t, ms)
                          /\ c # ResumeFromWait(t) /\ c # RemoveWaitingThreadEach(t)
                          /\ c # UpdatePriorityEach(ms) /\ c # ResumeHighest(a, n)
  BY CallParts, SMT
<1>2. Idle /\ UNCHANGED todo => c \notin Range(todo')
  BY StartRange
<1>3. \A o : ~Signals(o)
  BY <1>1 DEF Signals
<1>4. ~Falls /\ ~Reschedules /\ \A a : ~Arbitrates(a)
  BY <1>2 DEF Falls, Reschedules, Arbitrates, Yields
<1>5. ~Exits
  BY <1>1 DEF Exits
<1>6. \A a : ~ArbiterSignals(a)
  BY <1>1 DEF ArbiterSignals
<1>7. \A t, p : ~Creates(t, p) /\ ~SetsPriority(t, p)
  BY <1>1, <1>2 DEF Creates, SetsPriority
<1>8. \A m : ~Releases(m) /\ ~ReleasesOnce(m)
  BY <1>1, <1>2 DEF Releases, ReleasesOnce
<1>9. \A t : ~TimesOut(t)
  BY <1>1 DEF TimesOut
<1>10. \A objs : Takes(objs) => c = AcquireEach(current_thread, objs)
  BY DEF Takes
<1>11. \A how, objs : Suspends(how, objs) => c = AddWaitingThreadEach(current_thread, objs)
  BY DEF Suspends
<1> QED
  BY <1>3, <1>4, <1>5, <1>6, <1>7, <1>8, <1>9, <1>10, <1>11 DEF Outside

(* A thread that runs waits for nothing.                                   *)
LEMMA RunningWaits ==
    ASSUME IInv, NEW t \in Thread, status[t] = "Running"
    PROVE  wait_objects[t] = <<>> /\ Range(wait_objects[t]) = {}
<1>1. wait_objects[t] = <<>>
  BY DEF IInv, WaitListsExact, SynchStatus
<1> QED
  BY <1>1, SMT DEF Range

(* A turn of the loop that waits moves an object to the list of the thread *)
(* that waits.                                                             *)
LEMMA AddMoves ==
    ASSUME IInv, AddNext, NEW t, t = Head(todo).thread
    PROVE  /\ t \in Thread
           /\ \A u \in Thread : u # t => wait_objects'[u] = wait_objects[u]
           /\ Range(wait_objects'[t]) = Range(wait_objects[t]) \cup {Head(Head(todo).objects)}
           /\ Head(Head(todo).objects) \in Range(Head(todo).objects)
           /\ Range(wait_objects'[t]) \cup Range(Tail(Head(todo).objects)) =
                 Range(wait_objects[t]) \cup Range(Head(todo).objects)
<1>1. PICK x \in WaitObject : x = Head(Head(todo).objects)
  BY AddFrame, LoopCall
<1>2. t \in Thread /\ wait_objects \in [Thread -> Seq(WaitObject)]
  BY AddFrame, LoopCall DEF IInv, TypeOK
<1>3. wait_objects' = [wait_objects EXCEPT ![t] = Append(@, x)]
  BY <1>1, AddFrame
<1>4. /\ wait_objects'[t] = Append(wait_objects[t], x)
      /\ \A u \in Thread : u # t => wait_objects'[u] = wait_objects[u]
  BY <1>2, <1>3
<1>5. Range(Append(wait_objects[t], x)) = Range(wait_objects[t]) \cup {x}
  BY <1>2, AppendRange, SMT
<1>6. Range(Head(todo).objects) = Range(Tail(Head(todo).objects)) \cup {x}
  BY <1>1, AddFrame, LoopCall
<1> QED
  BY <1>1, <1>2, <1>4, <1>5, <1>6

(* What is waited for or acquired goes on existing.                        *)
LEMMA RoutineExist ==
    ASSUME IInv, OwnInv, ExistInv, Continue
    PROVE  ExistInv'
<1>0. UNCHANGED created
  BY WakeupFrame, AcquireFrame, AddFrame, RemoveFrame, ReleaseFrame, UpdateFrame, ResumeFrame,
     ArbiterFrame DEF Continue
<1>1. ASSUME todo # <<>>, Head(todo).op \in {"add", "acquire"}
      PROVE  /\ Range(Head(todo).objects) \subseteq Thread \cup created
             /\ Head(Head(todo).objects) \in Thread \cup created
             /\ Range(Tail(Head(todo).objects)) \subseteq Thread \cup created
  <2>1. Range(Head(todo).objects) \subseteq Thread \cup created
    BY <1>1, HeadCall DEF ExistInv
  <2> QED
    BY <1>1, <2>1, LoopCall
<1>2. ASSUME NEW t \in Thread
      PROVE  Range(wait_objects'[t]) \subseteq Thread \cup created
  <2>1. CASE AddNext
    <3>1. PICK h : h = Head(todo).thread
      OBVIOUS
    <3>2. Range(wait_objects[t]) \subseteq Thread \cup created
      BY DEF ExistInv
    <3> QED
      BY <1>1, <2>1, <3>1, <3>2, AddFrame, AddMoves
  <2>2. CASE RemoveNext
    <3>1. PICK h : h = Head(todo).thread
      OBVIOUS
    <3>2. wait_objects \in [Thread -> Seq(WaitObject)]
      BY DEF IInv, TypeOK
    <3>3. h \in Thread /\ wait_objects[h] # <<>>
          /\ wait_objects' = [wait_objects EXCEPT ![h] = Tail(@)]
      BY <2>2, <3>1, RemoveFrame
    <3>4. wait_objects'[t] = IF t = h THEN Tail(wait_objects[h]) ELSE wait_objects[t]
      BY <3>2, <3>3
    <3>5. Range(Tail(wait_objects[h])) \subseteq Range(wait_objects[h])
      BY <3>2, <3>3, TailRange
    <3> QED
      BY <3>3, <3>4, <3>5 DEF ExistInv
  <2>3. CASE ~AddNext /\ ~RemoveNext
    <3>1. UNCHANGED wait_objects
      BY <2>3, WakeupFrame, AcquireFrame, ReleaseFrame, UpdateFrame, ResumeFrame, ArbiterFrame
         DEF Continue
    <3> QED
      BY <3>1 DEF ExistInv
  <2> QED
    BY <2>1, <2>2, <2>3
<1>3. ASSUME NEW c \in Range(todo'), c.op \in {"add", "acquire"}
      PROVE  Range(c.objects) \subseteq Thread \cup created
  <2>1. CASE AddNext /\ c = AddWaitingThreadEach(Head(todo).thread, Tail(Head(todo).objects))
    <3>1. c.objects = Tail(Head(todo).objects)
      BY <2>1, CallParts, SMT
    <3> QED
      BY <1>1, <2>1, <3>1, AddFrame
  <2>2. CASE AcquireNext /\ c = AcquireEach(Head(todo).thread, Tail(Head(todo).objects))
    <3>1. c.objects = Tail(Head(todo).objects)
      BY <2>2, CallParts, SMTT(30)
    <3> QED
      BY <1>1, <2>2, <3>1, AcquireFrame
  <2>3. CASE \E o \in WaitObject, t \in Thread :
                 /\ WakeupNext /\ t \in Range(waiting_threads[o]) /\ ReadyToRun(o, t)
                 /\ c = AcquireEach(t, Acquired(o, t)) /\ UNCHANGED signaled
    <3>1. PICK o \in WaitObject, t \in Thread :
             t \in Range(waiting_threads[o]) /\ c = AcquireEach(t, Acquired(o, t))
      BY <2>3
    <3>2. c.objects = Acquired(o, t)
      BY <3>1, CallParts, SMTT(30)
    <3>3. o \in Range(wait_objects[t])
      BY <3>1, ListsSound DEF ListedSound
    <3>4. Range(Acquired(o, t)) \subseteq Range(wait_objects[t])
      <4>1. Range(<<o>>) = {o}
        BY SMT DEF Range
      <4> QED
        BY <3>3, <4>1 DEF Acquired
    <3> QED
      BY <3>2, <3>4 DEF ExistInv
  <2> QED
    BY <1>3, <2>1, <2>2, <2>3, LoopsAfter
<1>4. ASSUME NEW m \in Mutex, lock_count'[m] # 0
      PROVE  m \in created
  <2>1. lock_count \in [Mutex -> Nat]
    BY DEF IInv, TypeOK
  <2>2. CASE AcquireNext
    <3>1. PICK x \in Thread \cup created : x = Head(Head(todo).objects)
      BY <1>1, <2>2, AcquireFrame
    <3>2. x \in Mutex => x \in created
      BY <3>1, ThreadsAssumption DEF Disjoint
    <3>3. m = x \/ lock_count'[m] = lock_count[m]
      BY <2>1, <2>2, <3>1, AcquireFrame DEF MutexTaken, MutexTakenAgain
    <3> QED
      BY <1>4, <3>2, <3>3 DEF ExistInv
  <2>3. CASE ReleaseNext
    <3>1. UNCHANGED lock_count \/ \E x \in Mutex : lock_count' = [lock_count EXCEPT ![x] = 0]
      BY <2>3, ReleaseFrame
    <3>2. lock_count'[m] = lock_count[m]
      BY <1>4, <2>1, <3>1
    <3> QED
      BY <1>4, <3>2 DEF ExistInv
  <2>4. CASE ~AcquireNext /\ ~ReleaseNext
    <3>1. UNCHANGED lock_count
      BY <2>4, WakeupFrame, AddFrame, RemoveFrame, UpdateFrame, ResumeFrame, ArbiterFrame DEF Continue
    <3> QED
      BY <1>4, <3>1 DEF ExistInv
  <2> QED
    BY <2>2, <2>3, <2>4
<1> QED
  BY <1>0, <1>2, <1>3, <1>4 DEF ExistInv

(* A step outside the routines changes nothing a thread waits for, and     *)
(* destroys no object.                                                     *)
LEMMA OutsideFrame ==
    ASSUME IInv, Outside
    PROVE  created \subseteq created' /\ UNCHANGED wait_objects
<1>1. CASE Quiet \/ (\E o \in WaitObject : Signals(o)) \/ \E objs : Takes(objs)
  BY <1>1 DEF Quiet, Signals, Takes, ThreadsSame
<1>2. CASE \/ Falls \/ Exits \/ (\E how, objs : Suspends(how, objs))
           \/ \E a \in Address : Arbitrates(a)
  BY <1>2 DEF Falls, Exits, Suspends, Arbitrates, Yields, SignalsSame
<1>3. CASE \/ \E t \in Thread, p \in Priority : Creates(t, p) \/ SetsPriority(t, p)
           \/ \E t \in Thread : TimesOut(t)
  BY <1>3 DEF Creates, SetsPriority, TimesOut, SignalsSame
<1>4. CASE \/ \E m \in Mutex : Releases(m) \/ ReleasesOnce(m)
           \/ Reschedules \/ \E a \in Address : ArbiterSignals(a)
  BY <1>4 DEF Releases, ReleasesOnce, Reschedules, ArbiterSignals, ThreadsSame,
     SignalsSame
<1> QED
  BY <1>1, <1>2, <1>3, <1>4 DEF Outside

(* Nor does it lock or wait for what does not exist.                       *)
LEMMA OutsideExist ==
    ASSUME IInv, ExistInv, Outside
    PROVE  ExistInv'
<1>1. created \subseteq created' /\ UNCHANGED wait_objects
  BY OutsideFrame
<1>2. ASSUME NEW m \in Mutex, lock_count'[m] # 0
      PROVE  lock_count[m] # 0
  <2>1. lock_count \in [Mutex -> Nat]
    BY DEF IInv, TypeOK
  <2>2. CASE Quiet \/ (\E o \in WaitObject : Signals(o)) \/ \E objs : Takes(objs)
    BY <1>2, <2>2 DEF Quiet, Signals, Takes, ListsSame
  <2>3. CASE \/ Falls \/ Exits \/ (\E how, objs : Suspends(how, objs))
             \/ \E a \in Address : Arbitrates(a)
    BY <1>2, <2>3 DEF Falls, Exits, Suspends, Arbitrates, Yields
  <2>4. CASE \/ \E t \in Thread, p \in Priority : Creates(t, p) \/ SetsPriority(t, p)
             \/ \E t \in Thread : TimesOut(t)
             \/ Reschedules \/ \E a \in Address : ArbiterSignals(a)
    BY <1>2, <2>4 DEF Creates, SetsPriority, TimesOut, Reschedules, ArbiterSignals,
       ListsSame
  <2>5. CASE \E x \in Mutex : Releases(x) \/ ReleasesOnce(x)
    <3>1. PICK x, n : /\ x \in Mutex /\ lock_count' = [lock_count EXCEPT ![x] = n]
                      /\ n = 0 \/ lock_count[x] > 1
      BY <2>5 DEF Releases, ReleasesOnce
    <3> QED
      BY <1>2, <2>1, <3>1, SMTT(30)
  <2> QED
    BY <2>2, <2>3, <2>4, <2>5 DEF Outside
<1>3. ASSUME NEW c \in Range(todo'), c.op \in {"add", "acquire"}
      PROVE  Range(c.objects) \subseteq Thread \cup created'
  <2>1. CASE Quiet
    BY <1>1, <1>3, <2>1 DEF Quiet, ExistInv
  <2>2. CASE \E objs : Takes(objs) /\ c = AcquireEach(current_thread, objs)
    <3>1. PICK objs : Takes(objs) /\ c = AcquireEach(current_thread, objs)
      BY <2>2
    <3>2. c.objects = objs
      BY <3>1, CallParts, SMT
    <3> QED
      BY <3>1, <3>2 DEF Takes
  <2>3. CASE \E how, objs : Suspends(how, objs)
                            /\ c = AddWaitingThreadEach(current_thread, objs)
    <3>1. PICK how, objs : Suspends(how, objs) /\ c = AddWaitingThreadEach(current_thread, objs)
      BY <2>3
    <3>2. c.objects = objs
      BY <3>1, CallParts, SMT
    <3> QED
      BY <1>1, <3>1, <3>2 DEF Suspends
  <2> QED
    BY <1>3, <2>1, <2>2, <2>3, LoopsStarted
<1> QED
  BY <1>1, <1>2, <1>3 DEF ExistInv

(* A thread that has to wait still has to while it is being added to the   *)
(* lists, and when its wait begins.                                        *)
LEMMA AddNextInv ==
    ASSUME IInv, OwnInv, ExistInv, AddInv, Continue \/ Outside
    PROVE  AddInv'
<1> SUFFICES ASSUME NEW c \in Range(todo'), c.op = "add"
             PROVE  MustWait(c.thread, Range(wait_objects[c.thread]) \cup Range(c.objects))'
  BY DEF AddInv
<1>1. CASE Continue
  <2>1. /\ AddNext
        /\ c = AddWaitingThreadEach(Head(todo).thread, Tail(Head(todo).objects))
    <3>1. \A t, objs : c # AcquireEach(t, objs)
      BY CallParts, SMT
    <3> QED
      BY <1>1, <3>1, LoopsAfter
  <2>2. PICK t : t = Head(todo).thread
    OBVIOUS
  <2>3. c.thread = t /\ c.objects = Tail(Head(todo).objects)
    BY <2>1, <2>2, CallParts, SMTT(30)
  <2>4. PICK S : S = Range(wait_objects[t]) \cup Range(Head(todo).objects)
    OBVIOUS
  <2>5. Range(wait_objects'[t]) \cup Range(c.objects) = S
    BY <2>1, <2>2, <2>3, <2>4, AddMoves
  <2>6. MustWait(t, S)
    BY <2>1, <2>2, <2>4, AddFrame, HeadCall DEF AddInv
  <2>7. UNCHANGED <<status, lock_count, holding_thread, signaled, available_count>>
    BY <2>1, AddFrame
  <2>8. MustWait(t, S)'
    BY <2>6, <2>7, WaitsStay DEF MustWait
  <2> QED
    BY <2>3, <2>5, <2>8
<1>2. CASE Quiet
  <2>1. /\ UNCHANGED <<status, wait_objects, todo>>
        /\ \A x \in Thread \cup created, u \in Thread : ShouldWait(x, u) => ShouldWait(x, u)'
    BY <1>2 DEF Quiet, ThreadsSame
  <2>2. PICK t, S : /\ t \in Thread /\ t = c.thread
                    /\ S = Range(wait_objects[t]) \cup Range(c.objects)
    <3>1. c \in Call
      <4>1. todo \in Seq(Call) /\ c \in Range(todo)
        BY <2>1 DEF IInv, TypeOK
      <4> QED
        BY <4>1, SMTT(30) DEF Range
    <3> QED
      BY <3>1, CallFields
  <2>3. MustWait(t, S) /\ S \subseteq Thread \cup created
    BY <2>1, <2>2 DEF AddInv, ExistInv
  <2>4. MustWait(t, S)'
    BY <2>1, <2>2, <2>3 DEF MustWait
  <2> QED
    BY <2>1, <2>2, <2>4
<1>3. CASE Outside /\ ~Quiet
  <2>1. PICK how, objs : Suspends(how, objs) /\ c = AddWaitingThreadEach(current_thread, objs)
    <3>1. \A t, objs : c # AcquireEach(t, objs)
      BY CallParts, SMT
    <3> QED
      BY <1>3, <3>1, LoopsStarted
  <2>2. PICK h : h = current_thread
    OBVIOUS
  <2>3. c.thread = h /\ c.objects = objs
    BY <2>1, <2>2, CallParts, SMTT(30)
  <2>4. /\ h \in Thread /\ status[h] = "Running" /\ status' = [status EXCEPT ![h] = how]
        /\ UNCHANGED <<wait_objects, lock_count, holding_thread, signaled, available_count>>
        /\ how \in SynchStatus
        /\ IF how = "WaitSynchAll" THEN \E x \in Range(objs) : ShouldWait(x, h)
           ELSE \A x \in Range(objs) : ShouldWait(x, h)
    BY <2>1, <2>2 DEF Suspends, Yields, SignalsSame
  <2>5. status \in [Thread -> Status] /\ how # "Dead"
    BY <2>4 DEF IInv, TypeOK, SynchStatus
  <2>6. status'[h] = how /\ \A u \in Thread : u # h => status'[u] = status[u]
    BY <2>4, <2>5
  <2>7. \A x : ShouldWait(x, h) => ShouldWait(x, h)'
    BY <2>4, <2>5, <2>6, WaitsStay
  <2>8. MustWait(h, Range(objs))'
    BY <2>4, <2>6, <2>7 DEF MustWait
  <2>9. Range(wait_objects'[h]) \cup Range(c.objects) = Range(objs)
    BY <2>3, <2>4, RunningWaits
  <2> QED
    BY <2>3, <2>8, <2>9
<1> QED
  BY <1>1, <1>2, <1>3

(* The invariant of the wakeups is inductive.                              *)
LEMMA WakeupNextInv ==
    IInv /\ IInv' /\ OwnInv /\ WakeupInv /\ [Next]_vars => WakeupInv'
<1> SUFFICES ASSUME IInv, IInv', OwnInv, WakeupInv, [Next]_vars PROVE WakeupInv'
  OBVIOUS
<1>1. Continue \/ Outside
  BY StepKinds
<1>2. ExistInv /\ AddInv /\ WakeInv
  BY DEF WakeupInv
<1>3. ExistInv' /\ AddInv' /\ WakeInv'
  BY <1>1, <1>2, RoutineExist, OutsideExist, AddNextInv, RoutineWakes, OutsideWakes
<1> QED
  BY <1>3 DEF WakeupInv
-----------------------------------------------------------------------------
(* The arbiter.  A thread that waits for the arbiter is in the list of its *)
(* address or about to be resumed, and not both.                           *)
ToResume(t) == ResumeFromWait(t) \in Range(todo)

ArbiterInv ==
    /\ \A a \in Address : IsInjective(arbiter_threads[a])
    /\ \A a \in Address, t \in Thread : t \in Range(arbiter_threads[a]) =>
          status[t] = "WaitArb" /\ wait_address[t] = a
    /\ \A t \in Thread : status[t] = "WaitArb" =>
          /\ wait_address[t] \in Address
          /\ t \in Range(arbiter_threads[wait_address[t]]) <=> ~ToResume(t)

(* The invariant of the arbiter's lists gives the property.                *)
LEMMA ArbiterSound == IInv /\ ArbiterInv => ArbiterListExact
<1> SUFFICES ASSUME IInv, ArbiterInv PROVE ArbiterListExact
  OBVIOUS
<1>1. ASSUME NEW a \in Address, NEW i \in DOMAIN arbiter_threads[a]
      PROVE  arbiter_threads[a][i] \in Thread /\ arbiter_threads[a][i] \in Range(arbiter_threads[a])
  <2>1. arbiter_threads[a] \in Seq(Thread)
    BY DEF IInv, TypeOK
  <2>2. arbiter_threads[a][i] \in Thread
    BY <2>1, SMT
  <2> QED
    BY <2>2 DEF Range
<1> QED
  BY <1>1 DEF ArbiterInv, ArbiterListExact, ToResume, Pending

(* No thread waits for the arbiter in the initial state.                   *)
LEMMA ArbiterInit == Init => ArbiterInv
<1> SUFFICES ASSUME Init PROVE ArbiterInv
  OBVIOUS
<1>1. \A t \in Thread : status[t] # "WaitArb"
  BY DEF Init
<1>2. \A a \in Address : arbiter_threads[a] = <<>>
  BY DEF Init
<1>3. IsInjective(<<>>) /\ Range(<<>>) = {}
  BY SMT DEF IsInjective, Range
<1> QED
  BY <1>1, <1>2, <1>3 DEF ArbiterInv

(* A routine that goes on resumes nobody else.                             *)
LEMMA ResumeSame ==
    ASSUME IInv, todo # <<>>, Head(todo).op # "resume",
           Range(Tail(todo)) \subseteq Range(todo'),
           \A c \in Range(todo') : c \in Range(Tail(todo)) \/ c.op # "resume", NEW u
    PROVE  ToResume(u)' <=> ToResume(u)
<1>1. ResumeFromWait(u).op = "resume"
  BY CallParts
<1>2. ResumeFromWait(u) # Head(todo)
  BY <1>1
<1> QED
  BY <1>1, <1>2, HeadCall DEF ToResume

(* No list changes, and those who wait for the arbiter go on.              *)
LEMMA ArbiterSame ==
    ASSUME ArbiterInv, UNCHANGED <<arbiter_threads, wait_address>>,
           \A u \in Thread : status'[u] = "WaitArb" <=> status[u] = "WaitArb",
           \A u \in Thread : status[u] = "WaitArb" => (ToResume(u)' <=> ToResume(u))
    PROVE  ArbiterInv'
  BY DEF ArbiterInv

(* One thread leaves the list of its address, to be resumed.               *)
LEMMA ArbiterLeaves ==
    ASSUME IInv, ArbiterInv, NEW t \in Thread, NEW a \in Address, status[t] = "WaitArb",
           wait_address[t] = a,
           arbiter_threads' = [arbiter_threads EXCEPT ![a] = RemoveFirst(@, t)],
           UNCHANGED <<status, wait_address>>, ToResume(t)',
           \A u \in Thread \ {t} : status[u] = "WaitArb" => (ToResume(u)' <=> ToResume(u))
    PROVE  ArbiterInv'
<1>1. arbiter_threads \in [Address -> Seq(Thread)] /\ IsInjective(arbiter_threads[a])
  BY DEF IInv, TypeOK, ArbiterInv
<1>2. /\ IsInjective(arbiter_threads'[a])
      /\ Range(arbiter_threads'[a]) = Range(arbiter_threads[a]) \ {t}
  <2>1. PICK list \in Seq(Thread) : list = arbiter_threads[a]
    BY <1>1
  <2>2. arbiter_threads'[a] = RemoveFirst(list, t)
    BY <1>1, <2>1
  <2>3. /\ IsInjective(RemoveFirst(list, t))
        /\ Range(RemoveFirst(list, t)) = Range(list) \ {t}
    BY <1>1, <2>1, RemoveFirstRange
  <2> QED
    BY <2>1, <2>2, <2>3
<1>3. \A b \in Address \ {a} : arbiter_threads'[b] = arbiter_threads[b]
  BY <1>1
<1>4. \A b \in Address : IsInjective(arbiter_threads'[b])
  BY <1>2, <1>3 DEF ArbiterInv
<1>5. ASSUME NEW b \in Address, NEW u \in Thread
      PROVE  u \in Range(arbiter_threads'[b]) <=> u \in Range(arbiter_threads[b]) /\ u # t
  <2>1. CASE b = a
    BY <1>2, <2>1
  <2>2. CASE b # a
    <3>1. arbiter_threads'[b] = arbiter_threads[b] /\ t \notin Range(arbiter_threads[b])
      BY <1>3, <2>2 DEF ArbiterInv
    <3> QED
      BY <3>1
  <2> QED
    BY <2>1, <2>2
<1>6. ASSUME NEW u \in Thread, status'[u] = "WaitArb"
      PROVE  /\ wait_address'[u] \in Address
             /\ u \in Range(arbiter_threads'[wait_address'[u]]) <=> ~ToResume(u)'
  <2>1. /\ wait_address[u] \in Address /\ wait_address'[u] = wait_address[u]
        /\ u \in Range(arbiter_threads[wait_address[u]]) <=> ~ToResume(u)
    BY <1>6 DEF ArbiterInv
  <2>2. u \in Range(arbiter_threads'[wait_address[u]]) <=>
           u \in Range(arbiter_threads[wait_address[u]]) /\ u # t
    BY <1>5, <2>1
  <2>3. u # t => (ToResume(u)' <=> ToResume(u))
    BY <1>6
  <2> QED
    BY <2>1, <2>2, <2>3
<1> QED
  BY <1>4, <1>5, <1>6 DEF ArbiterInv

(* A turn of a routine keeps the invariant of the arbiter.                 *)
LEMMA RoutineArbiter ==
    ASSUME IInv, ArbiterInv, Continue
    PROVE  ArbiterInv'
<1>1. CASE WakeupNext
  <2>1. /\ todo # <<>> /\ Head(todo).op = "wakeup"
        /\ UNCHANGED <<status, wait_address, arbiter_threads>>
    BY <1>1, WakeupFrame
  <2>2. CASE Range(todo') = Range(Tail(todo))
    <3>1. \A u : ToResume(u)' <=> ToResume(u)
      BY <2>1, <2>2, ResumeSame
    <3> QED
      BY <2>1, <3>1, ArbiterSame
  <2>3. ASSUME NEW t \in Thread, NEW objs, status[t] \in SynchStatus,
               Range(todo') = Range(todo) \cup {AcquireEach(t, objs),
                                   RemoveWaitingThreadEach(t), ResumeFromWait(t)}
        PROVE  ArbiterInv'
    <3>1. ASSUME NEW u \in Thread, status[u] = "WaitArb"
          PROVE  ToResume(u)' <=> ToResume(u)
      <4>1. u # t
        BY <2>3, <3>1 DEF SynchStatus
      <4>2. /\ ResumeFromWait(u) # ResumeFromWait(t)
            /\ ResumeFromWait(u) # RemoveWaitingThreadEach(t)
            /\ ResumeFromWait(u) # AcquireEach(t, objs)
        BY <4>1, SMT DEF ResumeFromWait, RemoveWaitingThreadEach, AcquireEach
      <4> QED
        BY <2>3, <4>2 DEF ToResume
    <3> QED
      BY <2>1, <3>1, ArbiterSame
  <2> QED
    BY <1>1, <2>2, <2>3, WakeupFrame
<1>2. CASE AcquireNext \/ AddNext
  <2>1. /\ todo # <<>> /\ Head(todo).op \in {"acquire", "add"}
        /\ UNCHANGED <<status, wait_address, arbiter_threads>>
        /\ \/ Range(todo') = Range(Tail(todo))
           \/ \E t, objs : \/ Range(todo') = Range(Tail(todo)) \cup {AcquireEach(t, objs)}
                           \/ Range(todo') = Range(Tail(todo)) \cup
                                                 {AddWaitingThreadEach(t, objs)}
    BY <1>2, AcquireFrame, AddFrame
  <2>2. /\ Range(Tail(todo)) \subseteq Range(todo')
        /\ \A c \in Range(todo') : c \in Range(Tail(todo)) \/ c.op # "resume"
    BY <2>1, SMT DEF AcquireEach, AddWaitingThreadEach
  <2>3. \A u : ToResume(u)' <=> ToResume(u)
    BY <2>1, <2>2, ResumeSame
  <2> QED
    BY <2>1, <2>3, ArbiterSame
<1>3. CASE RemoveNext
  <2>1. /\ todo # <<>> /\ Head(todo).op = "remove"
        /\ UNCHANGED <<status, wait_address, arbiter_threads>>
        /\ Range(todo') = Range(Tail(todo)) \/ Range(todo') = Range(todo)
    BY <1>3, RemoveFrame
  <2>2. /\ Range(Tail(todo)) \subseteq Range(todo')
        /\ \A c \in Range(todo') : c \in Range(Tail(todo)) \/ c.op # "resume"
    BY <2>1, HeadCall
  <2>3. \A u : ToResume(u)' <=> ToResume(u)
    BY <2>1, <2>2, ResumeSame
  <2> QED
    BY <2>1, <2>3, ArbiterSame
<1>4. CASE UpdateNext \/ ReleaseNext
  <2>1. /\ todo # <<>> /\ Head(todo).op \in {"update", "release"}
        /\ UNCHANGED <<status, wait_address, arbiter_threads>>
        /\ \/ Range(todo') = Range(Tail(todo))
           \/ \E ms : Range(todo') = Range(Tail(todo)) \cup {UpdatePriorityEach(ms)}
           \/ \E t, m, ms : Range(todo') = Range(Tail(todo)) \cup
                                {WakeupAllWaitingThreads(m), ReleaseThreadMutexes(t, ms)}
    BY <1>4, ReleaseFrame, UpdateFrame
  <2>2. /\ Range(Tail(todo)) \subseteq Range(todo')
        /\ \A c \in Range(todo') : c \in Range(Tail(todo)) \/ c.op # "resume"
    BY <2>1, SMT DEF UpdatePriorityEach, WakeupAllWaitingThreads, ReleaseThreadMutexes
  <2>3. \A u : ToResume(u)' <=> ToResume(u)
    BY <2>1, <2>2, ResumeSame
  <2> QED
    BY <2>1, <2>3, ArbiterSame
<1>5. CASE Resume
  <2>1. PICK t \in Thread :
          /\ todo # <<>> /\ Head(todo).op = "resume" /\ t = Head(todo).thread
          /\ UNCHANGED <<wait_address, arbiter_threads>> /\ Range(todo') = Range(Tail(todo))
          /\ \/ status[t] \in WaitStatus /\ status' = [status EXCEPT ![t] = "Ready"]
             \/ status[t] = "Ready" /\ UNCHANGED status
    BY <1>5, ResumeFrame
  <2>2. Head(todo) = ResumeFromWait(t) /\ ToResume(t)
    BY <2>1, HeadCall, CallForms DEF ToResume
  <2>3. status \in [Thread -> Status]
    BY DEF IInv, TypeOK
  <2>4. \A a \in Address : t \notin Range(arbiter_threads[a])
    BY <2>2 DEF ArbiterInv
  <2>5. status'[t] # "WaitArb" /\ \A u \in Thread \ {t} : status'[u] = status[u]
    BY <2>1, <2>3
  <2>6. ASSUME NEW u \in Thread \ {t} PROVE ToResume(u)' <=> ToResume(u)
    <3>1. ResumeFromWait(u) # ResumeFromWait(t)
      BY DEF ResumeFromWait
    <3> QED
      BY <2>1, <2>2, <3>1, HeadCall DEF ToResume
  <2>7. ASSUME NEW a \in Address, NEW u \in Thread, u \in Range(arbiter_threads'[a])
        PROVE  status'[u] = "WaitArb" /\ wait_address'[u] = a
    <3>1. u \in Range(arbiter_threads[a]) /\ u # t
      BY <2>1, <2>4, <2>7
    <3>2. status[u] = "WaitArb" /\ wait_address[u] = a
      BY <3>1 DEF ArbiterInv
    <3> QED
      BY <2>1, <2>5, <3>1, <3>2
  <2>8. \A u \in Thread : status'[u] = "WaitArb" =>
            /\ wait_address'[u] \in Address
            /\ u \in Range(arbiter_threads'[wait_address'[u]]) <=> ~ToResume(u)'
    BY <2>1, <2>5, <2>6 DEF ArbiterInv
  <2>9. \A a \in Address : IsInjective(arbiter_threads'[a])
    BY <2>1 DEF ArbiterInv
  <2> QED
    BY <2>7, <2>8, <2>9 DEF ArbiterInv
<1>6. CASE ResumeNext
  <2>1. PICK a \in Address :
          /\ todo # <<>> /\ Head(todo).op = "arbiter" /\ a = Head(todo).address
          /\ UNCHANGED <<status, wait_address>>
          /\ \/ \E t \in Thread, n \in Int :
                   /\ t \in Range(arbiter_threads[a]) /\ status[t] = "WaitArb"
                   /\ arbiter_threads' = [arbiter_threads EXCEPT ![a] = RemoveFirst(@, t)]
                   /\ Range(todo') = Range(Tail(todo)) \cup
                                         {ResumeFromWait(t), ResumeHighest(a, n)}
             \/ UNCHANGED arbiter_threads /\ Range(todo') = Range(Tail(todo))
    BY <1>6, ArbiterFrame
  <2>2. CASE UNCHANGED arbiter_threads /\ Range(todo') = Range(Tail(todo))
    <3>1. \A u : ToResume(u)' <=> ToResume(u)
      BY <2>1, <2>2, ResumeSame
    <3> QED
      BY <2>1, <2>2, <3>1, ArbiterSame
  <2>3. ASSUME NEW t \in Thread, NEW n \in Int, t \in Range(arbiter_threads[a]),
               status[t] = "WaitArb",
               arbiter_threads' = [arbiter_threads EXCEPT ![a] = RemoveFirst(@, t)],
               Range(todo') = Range(Tail(todo)) \cup {ResumeFromWait(t), ResumeHighest(a, n)}
        PROVE  ArbiterInv'
    <3>1. wait_address[t] = a /\ ToResume(t)'
      BY <2>3 DEF ArbiterInv, ToResume
    <3>2. ASSUME NEW u \in Thread \ {t} PROVE ToResume(u)' <=> ToResume(u)
      <4>1. /\ ResumeFromWait(u) # ResumeFromWait(t)
            /\ ResumeFromWait(u) # ResumeHighest(a, n)
            /\ ResumeFromWait(u).op # "arbiter"
        BY DEF ResumeFromWait, ResumeHighest
      <4> QED
        BY <2>1, <2>3, <4>1, HeadCall DEF ToResume
    <3> QED
      BY <2>1, <2>3, <3>1, <3>2, ArbiterLeaves
  <2> QED
    BY <2>1, <2>2, <2>3
<1> QED
  BY <1>1, <1>2, <1>3, <1>4, <1>5, <1>6 DEF Continue

(* A step outside the routines resumes nobody, a timeout excepted.         *)
LEMMA StartResumes ==
    ASSUME Outside, \A t \in Thread : ~TimesOut(t), NEW u
    PROVE  ToResume(u)' <=> ToResume(u)
<1>1. UNCHANGED todo => (ToResume(u)' <=> ToResume(u))
  BY DEF ToResume
<1>2. CASE Idle /\ \A c \in Range(todo') : c.op # "resume"
  <2>1. ResumeFromWait(u).op = "resume"
    BY CallParts
  <2> QED
    BY <1>2, <2>1, StartRange DEF ToResume
<1>4. CASE \/ \E o \in WaitObject : Signals(o)
           \/ \E m \in Mutex : Releases(m)
           \/ \E objs : Takes(objs)
           \/ \E how, objs : Suspends(how, objs)
           \/ \E a \in Address : ArbiterSignals(a)
           \/ \E t \in Thread, p \in Priority : SetsPriority(t, p)
           \/ Exits
  <2>1. Idle
    BY <1>4 DEF Signals, Releases, Takes, Suspends, Yields, ArbiterSignals,
       SetsPriority, Exits
  <2>2. \/ Range(todo') = {}
        \/ \E o : Range(todo') = {WakeupAllWaitingThreads(o)}
        \/ \E t, s : Range(todo') = {AcquireEach(t, s)}
        \/ \E t, s : Range(todo') = {AddWaitingThreadEach(t, s)}
        \/ \E t, s : Range(todo') = {ResumeHighest(t, s)}
        \/ \E s : Range(todo') = {UpdatePriorityEach(s)}
        \/ \E o, t, s : Range(todo') = {WakeupAllWaitingThreads(o), ReleaseThreadMutexes(t, s)}
    BY <1>4 DEF Signals, Releases, Takes, Suspends, ArbiterSignals, SetsPriority, Exits
  <2>3. \A c \in Range(todo') : c.op # "resume"
    BY <2>2, SMTT(30) DEF WakeupAllWaitingThreads, AcquireEach, AddWaitingThreadEach,
       UpdatePriorityEach,
       ReleaseThreadMutexes, ResumeHighest
  <2> QED
    BY <1>2, <2>1, <2>3
<1>5. CASE UNCHANGED todo
  BY <1>1, <1>5
<1> QED
  BY <1>4, <1>5 DEF Outside, Quiet, Falls, Reschedules, Arbitrates, Creates, ReleasesOnce

(* A step of a system call, a timeout or the scheduler keeps it too.       *)
LEMMA OutsideArbiter ==
    ASSUME IInv, EventInv, ArbiterInv, Outside
    PROVE  ArbiterInv'
<1>1. /\ status \in [Thread -> Status] /\ wait_address \in [Thread -> Address \cup {NULL}]
      /\ arbiter_threads \in [Address -> Seq(Thread)]
  BY DEF IInv, TypeOK
<1>2. CASE \E a \in Address : Arbitrates(a)
  <2>1. PICK a \in Address, t \in Thread :
          /\ Idle /\ status[t] = "Running" /\ status' = [status EXCEPT ![t] = "WaitArb"]
          /\ UNCHANGED todo /\ wait_address' = [wait_address EXCEPT ![t] = a]
          /\ arbiter_threads' = [arbiter_threads EXCEPT ![a] = Append(@, t)]
    BY <1>2 DEF Arbitrates, Yields
  <2>2. \A u : ~ToResume(u) /\ ~ToResume(u)'
    BY <2>1, StartRange DEF ToResume
  <2>3. \A b \in Address : t \notin Range(arbiter_threads[b])
    BY <2>1 DEF ArbiterInv
  <2>4. arbiter_threads[a] \in Seq(Thread) /\ IsInjective(arbiter_threads[a])
    BY <1>1 DEF ArbiterInv
  <2>5. /\ IsInjective(arbiter_threads'[a])
        /\ Range(arbiter_threads'[a]) = Range(arbiter_threads[a]) \cup {t}
    <3>1. arbiter_threads'[a] = Append(arbiter_threads[a], t)
      BY <1>1, <2>1
    <3>2. PICK list \in Seq(Thread) :
            list = arbiter_threads[a] /\ IsInjective(list) /\ t \notin Range(list)
      BY <2>3, <2>4
    <3>3. IsInjective(Append(list, t)) /\ Range(Append(list, t)) = Range(list) \cup {t}
      BY <3>2, AppendRange, SMTT(30)
    <3> QED
      BY <3>1, <3>2, <3>3
  <2>6. \A b \in Address \ {a} : arbiter_threads'[b] = arbiter_threads[b]
    BY <1>1, <2>1
  <2>7. /\ status'[t] = "WaitArb" /\ wait_address'[t] = a
        /\ \A u \in Thread \ {t} : status'[u] = status[u] /\ wait_address'[u] = wait_address[u]
    BY <1>1, <2>1
  <2>8. \A b \in Address : IsInjective(arbiter_threads'[b])
    BY <2>5, <2>6 DEF ArbiterInv
  <2>9. \A b \in Address, u \in Thread : u \in Range(arbiter_threads'[b]) <=>
           u \in Range(arbiter_threads[b]) \/ (u = t /\ b = a)
    BY <2>5, <2>6
  <2>10. ASSUME NEW b \in Address, NEW u \in Thread, u \in Range(arbiter_threads'[b])
         PROVE  status'[u] = "WaitArb" /\ wait_address'[u] = b
    <3>1. CASE u = t /\ b = a
      BY <2>7, <3>1
    <3>2. CASE u \in Range(arbiter_threads[b])
      <4>1. u # t /\ status[u] = "WaitArb" /\ wait_address[u] = b
        BY <2>3, <3>2 DEF ArbiterInv
      <4> QED
        BY <2>7, <4>1
    <3> QED
      BY <2>9, <2>10, <3>1, <3>2
  <2>11. \A u \in Thread : status'[u] = "WaitArb" =>
            wait_address'[u] \in Address /\ u \in Range(arbiter_threads'[wait_address'[u]])
    BY <2>2, <2>7, <2>9 DEF ArbiterInv
  <2> QED
    BY <2>2, <2>8, <2>10, <2>11 DEF ArbiterInv
<1>3. CASE \E t \in Thread : TimesOut(t)
  <2>1. PICK t \in Thread :
          /\ Idle /\ wakeup_events[t] > 0 /\ UNCHANGED <<status, wait_address>>
          /\ arbiter_threads' =
                 IF status[t] = "WaitArb" /\ wakeup_callback[t] = "arbiter"
                 THEN [arbiter_threads EXCEPT ![wait_address[t]] = RemoveFirst(@, t)]
                 ELSE arbiter_threads
          /\ \/ Range(todo') = {ResumeFromWait(t)}
             \/ Range(todo') = {RemoveWaitingThreadEach(t), ResumeFromWait(t)}
    BY <1>3 DEF TimesOut
  <2>2. ASSUME NEW u \in Thread \ {t} PROVE ToResume(u)' <=> ToResume(u)
    <3>1. /\ ResumeFromWait(u) # ResumeFromWait(t)
          /\ ResumeFromWait(u) # RemoveWaitingThreadEach(t)
      BY DEF ResumeFromWait, RemoveWaitingThreadEach
    <3> QED
      BY <2>1, <3>1, StartRange DEF ToResume
  <2>3. CASE status[t] = "WaitArb"
    <3>1. wakeup_events[t] # 0
      BY <2>1, SMTT(30)
    <3>2. wakeup_callback[t] = "arbiter" /\ wait_address[t] \in Address
      BY <2>3, <3>1 DEF EventInv, ArbiterInv
    <3>3. arbiter_threads' = [arbiter_threads EXCEPT ![wait_address[t]] = RemoveFirst(@, t)]
      BY <2>1, <2>3, <3>2
    <3>4. ToResume(t)'
      BY <2>1 DEF ToResume
    <3> QED
      BY <2>1, <2>2, <2>3, <3>2, <3>3, <3>4, ArbiterLeaves
  <2>4. CASE status[t] # "WaitArb"
    BY <2>1, <2>2, <2>4, ArbiterSame
  <2> QED
    BY <2>3, <2>4
<1>4. CASE /\ \A t \in Thread : ~TimesOut(t)
           /\ \A a \in Address : ~Arbitrates(a)
  <2>1. UNCHANGED <<arbiter_threads, wait_address>>
    BY <1>4 DEF Outside, Quiet, Signals, Takes, Falls, Suspends, ArbiterSignals, Exits,
       Creates, SetsPriority, Releases, ReleasesOnce, Reschedules, ThreadsSame, ListsSame
  <2>2. \/ UNCHANGED status \/ Reschedules
        \/ \E v : Yields(v) /\ v \in SynchStatus \cup {"WaitSleep", "Dead"}
        \/ \E t \in Thread : status[t] = "Dormant" /\ status' = [status EXCEPT ![t] = "Ready"]
    BY <1>4 DEF Outside, Quiet, Signals, Takes, Falls, Suspends, ArbiterSignals, Exits,
       Creates, SetsPriority, Releases, ReleasesOnce, ThreadsSame
  <2>3. \/ \A u \in Thread : \/ status'[u] = status[u]
                             \/ status[u] # "WaitArb" /\ status'[u] # "WaitArb"
        \/ \E v : Yields(v) /\ v \in SynchStatus \cup {"WaitSleep", "Dead"}
    BY <1>1, <2>2 DEF Reschedules
  <2>4. ASSUME NEW v, Yields(v), v \in SynchStatus \cup {"WaitSleep", "Dead"}
        PROVE  \A u \in Thread : \/ status'[u] = status[u]
                                 \/ status[u] # "WaitArb" /\ status'[u] # "WaitArb"
    BY <1>1, <2>4 DEF Yields, SynchStatus
  <2>5. \A u \in Thread : status'[u] = "WaitArb" <=> status[u] = "WaitArb"
    BY <2>3, <2>4
  <2>6. \A u \in Thread : ToResume(u)' <=> ToResume(u)
    BY <1>4, StartResumes
  <2> QED
    BY <2>1, <2>5, <2>6, ArbiterSame
<1> QED
  BY <1>2, <1>3, <1>4

(* Every step of the kernel keeps the invariant of the arbiter.            *)
LEMMA ArbiterNext == IInv /\ EventInv /\ ArbiterInv /\ [Next]_vars => ArbiterInv'
  BY RoutineArbiter, OutsideArbiter, StepKinds
=============================================================================
