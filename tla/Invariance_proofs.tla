-------------------------- MODULE Invariance_proofs -------------------------
(***************************************************************************)
(* Every step of Kernel keeps its inductive invariant: the steps of a      *)
(* routine that is running, the system calls, the timing callbacks and the *)
(* reschedule.                                                             *)
(***************************************************************************)
EXTENDS KernelInvariant

(* The leaves are for Zenon where they name no other prover.               *)
USE ZenonT(40)

(* The queue q has the threads of R, once each, at the levels cp gives.    *)
Matches(q, R, cp) ==
    /\ \A p \in Priority : IsInjective(q[p])
    /\ \A p \in Priority, u \in Thread : u \in Range(q[p]) <=> u \in R /\ cp[u] = p

Queues == [Priority -> Seq(Thread)]

ReadyThreads == {t \in Thread : status[t] = "Ready"}

(* The fields that no thread, queue or list depends on.                    *)
RestOK ==
    /\ wakeup_events \in [Thread -> Nat] /\ timer_events \in [Timer -> Nat]
    /\ signaled \in [Event \cup Timer -> BOOLEAN] /\ interval \in [Timer -> BOOLEAN]
    /\ available_count \in [Semaphore -> Int] /\ created \subseteq WaitObject
    /\ lock_count \in [Mutex -> Nat] /\ holding_thread \in [Mutex -> Thread \cup {NULL}]
    /\ priority \in [Mutex -> Priority]
    /\ arbiter_threads \in [Address -> Seq(Thread)] /\ memory \in [Address -> Int]

TodoOK ==
    /\ todo' \in Seq(Call) /\ TodoInv'
    /\ \A u \in Thread : Pending(RemoveWaitingThreadEach(u)) =>
                             RemoveWaitingThreadEach(u) \in Range(todo')

(* A thread that is pushed at its level, to either end, joins the queue.   *)
LEMMA PushMatches ==
    ASSUME NEW q \in Queues, NEW R, NEW cp, NEW cp2 \in [Thread -> Priority],
           NEW t \in Thread, t \notin R,
           Matches(q, R, cp), \A u \in R : cp2[u] = cp[u]
    PROVE  /\ PushBack(q, cp2[t], t) \in Queues
           /\ PushFront(q, cp2[t], t) \in Queues
           /\ Matches(PushBack(q, cp2[t], t), R \cup {t}, cp2)
           /\ Matches(PushFront(q, cp2[t], t), R \cup {t}, cp2)
<1> DEFINE p == cp2[t]
<1>1. p \in Priority /\ q[p] \in Seq(Thread)
  BY DEF Queues
<1>2. t \notin Range(q[p]) /\ IsInjective(q[p])
  BY <1>1 DEF Matches
<1>3. /\ Append(q[p], t) \in Seq(Thread) /\ <<t>> \o q[p] \in Seq(Thread)
      /\ Range(Append(q[p], t)) = Range(q[p]) \cup {t}
      /\ Range(<<t>> \o q[p]) = Range(q[p]) \cup {t}
      /\ IsInjective(Append(q[p], t)) /\ IsInjective(<<t>> \o q[p])
  BY <1>1, <1>2, AppendRange, ConsRange, SMT
<1> DEFINE b == Append(q[p], t)
           f == <<t>> \o q[p]
<1>4. PushBack(q, p, t) = [q EXCEPT ![p] = b] /\ PushFront(q, p, t) = [q EXCEPT ![p] = f]
  BY DEF PushBack, PushFront
<1>5. \A x \in Seq(Thread) : [q EXCEPT ![p] = x] \in Queues
  BY <1>1 DEF Queues
<1>6. ASSUME NEW x \in Seq(Thread), IsInjective(x), Range(x) = Range(q[p]) \cup {t}
      PROVE  Matches([q EXCEPT ![p] = x], R \cup {t}, cp2)
  <2> HIDE DEF b, f
  <2>1. \A l \in Priority : [q EXCEPT ![p] = x][l] = IF l = p THEN x ELSE q[l]
    BY DEF Queues
  <2> QED
    BY <1>1, <1>6, <2>1, SMT DEF Matches
<1>7. [q EXCEPT ![p] = b] \in Queues /\ Matches([q EXCEPT ![p] = b], R \cup {t}, cp2)
  <2>1. b \in Seq(Thread) /\ IsInjective(b) /\ Range(b) = Range(q[p]) \cup {t}
    BY <1>3
  <2> HIDE DEF b, p
  <2> QED
    BY <2>1, <1>5, <1>6
<1>8. [q EXCEPT ![p] = f] \in Queues /\ Matches([q EXCEPT ![p] = f], R \cup {t}, cp2)
  <2>1. f \in Seq(Thread) /\ IsInjective(f) /\ Range(f) = Range(q[p]) \cup {t}
    BY <1>3
  <2> HIDE DEF f, p
  <2> QED
    BY <2>1, <1>5, <1>6
<1> QED
  BY <1>4, <1>7, <1>8

(* A queued thread that is taken out leaves the queue.                     *)
LEMMA DequeueMatches ==
    ASSUME NEW q \in Queues, NEW R, NEW cp \in [Thread -> Priority],
           NEW t \in R, t \in Thread, Matches(q, R, cp)
    PROVE  /\ Dequeue(q, cp[t], t) \in Queues
           /\ Matches(Dequeue(q, cp[t], t), R \ {t}, cp)
<1> DEFINE p == cp[t]
           x == RemoveFirst(q[p], t)
<1>1. p \in Priority /\ q[p] \in Seq(Thread) /\ IsInjective(q[p])
  BY DEF Queues, Matches
<1>2. x \in Seq(Thread) /\ IsInjective(x) /\ Range(x) = Range(q[p]) \ {t}
  BY <1>1, RemoveFirstRange
<1>3. Dequeue(q, p, t) = [q EXCEPT ![p] = x]
  BY DEF Dequeue
<1> HIDE DEF x
<1>4. \A l \in Priority : [q EXCEPT ![p] = x][l] = IF l = p THEN x ELSE q[l]
  BY DEF Queues
<1>5. [q EXCEPT ![p] = x] \in Queues
  BY <1>1, <1>2 DEF Queues
<1>6. Matches([q EXCEPT ![p] = x], R \ {t}, cp)
  BY <1>1, <1>2, <1>4, SMT DEF Matches
<1> QED
  BY <1>3, <1>5, <1>6

(* The first thread of a level that is popped leaves the queue.            *)
LEMMA PopMatches ==
    ASSUME NEW q \in Queues, NEW R, NEW cp, NEW p \in Priority,
           Matches(q, R, cp), q[p] # <<>>
    PROVE  /\ Head(q[p]) \in Thread /\ Head(q[p]) \in R
           /\ [q EXCEPT ![p] = Tail(@)] \in Queues
           /\ Matches([q EXCEPT ![p] = Tail(@)], R \ {Head(q[p])}, cp)
<1> DEFINE x == Tail(q[p])
           h == Head(q[p])
<1>1. q[p] \in Seq(Thread) /\ IsInjective(q[p])
  BY DEF Queues, Matches
<1>2. /\ x \in Seq(Thread) /\ IsInjective(x) /\ Range(x) = Range(q[p]) \ {h}
      /\ h \in Thread /\ h \in Range(q[p])
  BY <1>1, TailRange
<1> HIDE DEF x, h
<1>3. h \in R /\ cp[h] = p
  BY <1>2 DEF Matches
<1>4. \A l \in Priority : [q EXCEPT ![p] = x][l] = IF l = p THEN x ELSE q[l]
  BY DEF Queues
<1>5. [q EXCEPT ![p] = x] \in Queues
  BY <1>1, <1>2 DEF Queues
<1>6. Matches([q EXCEPT ![p] = x], R \ {h}, cp)
  BY <1>2, <1>3, <1>4, SMT DEF Matches
<1> QED
  BY <1>2, <1>3, <1>5, <1>6 DEF x, h

(* A queued thread that moves goes to the level of its new priority.       *)
LEMMA MoveMatches ==
    ASSUME NEW q \in Queues, NEW R, NEW cp \in [Thread -> Priority],
           NEW t \in R, t \in Thread, NEW p \in Priority, Matches(q, R, cp)
    PROVE  /\ Move(q, t, cp[t], p) \in Queues
           /\ Matches(Move(q, t, cp[t], p), R, [cp EXCEPT ![t] = p])
<1> DEFINE d == Dequeue(q, cp[t], t)
           cp2 == [cp EXCEPT ![t] = p]
<1>1. d \in Queues /\ Matches(d, R \ {t}, cp)
  BY DequeueMatches
<1>2. cp2 \in [Thread -> Priority] /\ cp2[t] = p
  OBVIOUS
<1>3. \A u \in R \ {t} : u \in Thread => cp2[u] = cp[u]
  OBVIOUS
<1>4. Move(q, t, cp[t], p) = PushBack(d, p, t)
  BY DEF Move
<1> HIDE DEF d, cp2
<1> DEFINE S == (R \ {t}) \cap Thread
<1>5. Matches(d, S, cp)
  BY <1>1 DEF Matches
<1>6. PushBack(d, cp2[t], t) \in Queues /\ Matches(PushBack(d, cp2[t], t), S \cup {t}, cp2)
  BY <1>1, <1>2, <1>3, <1>5, PushMatches, SMTT(30)
<1>7. Matches(PushBack(d, p, t), R, cp2)
  BY <1>2, <1>6, SMT DEF Matches
<1> QED
  BY <1>2, <1>4, <1>6, <1>7 DEF cp2
-----------------------------------------------------------------------------
(* Both facts about a call that is put first.                              *)
LEMMA ConsCall ==
    ASSUME NEW s \in Seq(Call), NEW c \in Call, Ordered(s),
           \A d \in Range(s) : Rank(c) < Rank(d)
    PROVE  /\ <<c>> \o s \in Seq(Call) /\ Ordered(<<c>> \o s)
           /\ Range(<<c>> \o s) = Range(s) \cup {c}
  BY ConsOrdered, ConsRange, SMT

(* Two calls that are put first.                                           *)
LEMMA TwoCalls ==
    ASSUME NEW s \in Seq(Call), NEW a \in Call, NEW b \in Call, Ordered(s),
           Rank(a) < Rank(b), \A d \in Range(s) : Rank(b) < Rank(d)
    PROVE  /\ <<a, b>> \o s \in Seq(Call) /\ Ordered(<<a, b>> \o s)
           /\ Range(<<a, b>> \o s) = Range(s) \cup {a, b}
<1> DEFINE x == <<a>> \o <<b>>
           y == <<b>> \o s
<1>1. x = <<a, b>>
  <2>1. x \in Seq(Call) /\ Len(x) = 2
    BY SMT
  <2>2. x[1] = a /\ x[2] = b
    BY SMT
  <2> HIDE DEF x
  <2> QED
    BY <2>1, <2>2, SMT
<1>2. x \o s = <<a>> \o y
  <2>1. <<a>> \in Seq(Call) /\ <<b>> \in Seq(Call)
    BY SMT
  <2> QED
    BY <2>1, ConcatBracketing, SMT
<1> HIDE DEF x
<1>3. y \in Seq(Call) /\ Ordered(y) /\ Range(y) = Range(s) \cup {b}
  BY ConsCall
<1> HIDE DEF y
<1>4. \A d \in Range(y) : Rank(a) < Rank(d)
  <2>1. \A d \in Range(s) : d \in Call
    BY SMT DEF Range
  <2> QED
    BY <1>3, <2>1, CallFields, SMT
<1>5. <<a>> \o y \in Seq(Call) /\ Ordered(<<a>> \o y) /\ Range(<<a>> \o y) = Range(y) \cup {a}
  BY <1>3, <1>4, ConsCall
<1> QED
  BY <1>1, <1>2, <1>3, <1>5

(* Three calls that are put first.                                         *)
LEMMA ThreeCalls ==
    ASSUME NEW s \in Seq(Call), NEW a \in Call, NEW b \in Call, NEW c \in Call, Ordered(s),
           Rank(a) < Rank(b), Rank(b) < Rank(c), \A d \in Range(s) : Rank(c) < Rank(d)
    PROVE  /\ <<a, b, c>> \o s \in Seq(Call) /\ Ordered(<<a, b, c>> \o s)
           /\ Range(<<a, b, c>> \o s) = Range(s) \cup {a, b, c}
<1> DEFINE x == <<a>> \o <<b, c>>
           y == <<b, c>> \o s
<1>1. x = <<a, b, c>>
  <2>1. x \in Seq(Call) /\ Len(x) = 3
    BY SMT
  <2>2. x[1] = a /\ x[2] = b /\ x[3] = c
    BY SMT
  <2> HIDE DEF x
  <2> QED
    BY <2>1, <2>2, SMT
<1>2. x \o s = <<a>> \o y
  <2>1. <<a>> \in Seq(Call) /\ <<b, c>> \in Seq(Call)
    BY SMT
  <2> QED
    BY <2>1, ConcatBracketing, SMT
<1> HIDE DEF x
<1>3. y \in Seq(Call) /\ Ordered(y) /\ Range(y) = Range(s) \cup {b, c}
  BY TwoCalls
<1> HIDE DEF y
<1>4. \A d \in Range(y) : Rank(a) < Rank(d)
  <2>1. \A d \in Range(s) : d \in Call
    BY SMT DEF Range
  <2> QED
    BY <1>3, <2>1, CallFields, SMTT(30)
<1>5. <<a>> \o y \in Seq(Call) /\ Ordered(<<a>> \o y) /\ Range(<<a>> \o y) = Range(y) \cup {a}
  BY <1>3, <1>4, ConsCall
<1> QED
  BY <1>1, <1>2, <1>3, <1>5
-----------------------------------------------------------------------------
(* The ready queue as Matches has it.                                      *)
LEMMA QueueMatches ==
    ReadyQueueExact => Matches(queues, ReadyThreads, current_priority)
  BY DEF ReadyQueueExact, Matches, ReadyThreads

(* A step that leaves the threads' status and priorities alone.            *)
LEMMA QueueKept ==
    ASSUME ReadyQueueExact, UNCHANGED <<status, current_priority, queues, linked>>
    PROVE  ReadyQueueExact'
  BY DEF ReadyQueueExact

(* A step that lets the current thread run, or asks for a reschedule.      *)
LEMMA CpuKept ==
    ASSUME TypeOK, CpuInv, UNCHANGED <<status, current_thread>>,
           UNCHANGED cpuVars \/ PrepareReschedule
    PROVE  /\ CpuInv'
           /\ phase' \in {"advance", "run", "resched"} /\ reschedule_pending' \in BOOLEAN
  BY DEF TypeOK, CpuInv, cpuVars, PrepareReschedule

(* A step that leaves the waiting lists alone.                             *)
LEMMA WaitKept ==
    ASSUME WaitListsExact, UNCHANGED <<waiting_threads, wait_objects>>,
           \A t \in Thread : wait_objects[t] # <<>> => status'[t] \in SynchStatus,
           \A t \in Thread : Pending(RemoveWaitingThreadEach(t)) =>
                                 RemoveWaitingThreadEach(t) \in Range(todo')
    PROVE  WaitListsExact'
  BY DEF WaitListsExact, Pending

(* What is left to do after the first call stays sound: only adding comes  *)
(* first of all, and nothing is removed after what comes after a removal.  *)
LEMMA TodoTail ==
    ASSUME TypeOK, TodoInv, todo # <<>>,
           \/ Rank(Head(todo)) >= 2
           \/ \A u \in Thread : wait_objects[u] # <<>> => wait_objects'[u] # <<>>
    PROVE  /\ Head(todo) \in Call /\ Tail(todo) \in Seq(Call) /\ Ordered(Tail(todo))
           /\ Range(todo) = Range(Tail(todo)) \cup {Head(todo)}
           /\ CallSound(Head(todo))
           /\ \A d \in Range(Tail(todo)) :
                 d \in Call /\ Rank(Head(todo)) < Rank(d) /\ CallSound(d)'
<1> DEFINE h == Head(todo)
           T == Tail(todo)
<1>1. todo \in Seq(Call) /\ Ordered(todo)
  BY DEF TypeOK, TodoInv
<1>2. /\ h \in Call /\ T \in Seq(Call) /\ Range(T) \subseteq Range(todo)
      /\ Range(todo) = Range(T) \cup {h}
  BY <1>1, TailRange
<1>3. Ordered(T) /\ \A d \in Range(T) : Rank(h) < Rank(d)
  BY <1>1, TailOrdered
<1> HIDE DEF h, T
<1>4. CallSound(h)
  BY <1>2 DEF TodoInv
<1>5. \A d \in Range(T) : d \in Call
  BY <1>2, SMT DEF Range
<1>6. ASSUME NEW d \in Range(T)
      PROVE  CallSound(d)'
  <2>1. d \in Call /\ CallSound(d) /\ Rank(h) < Rank(d) /\ Rank(h) \in 0 .. 6
    BY <1>2, <1>3, <1>5, CallFields DEF TodoInv
  <2>2. d.op # "add"
    <3>1. SUFFICES ASSUME d.op = "add" PROVE FALSE
      OBVIOUS
    <3>2. Rank(d) = 0
      BY <3>1 DEF Rank
    <3> QED
      BY <2>1, <3>2, SMT
  <2>3. d.op = "remove" => wait_objects'[d.thread] # <<>>
    <3>1. SUFFICES ASSUME d.op = "remove" PROVE wait_objects'[d.thread] # <<>>
      OBVIOUS
    <3>2. Rank(d) = 2 /\ d.thread \in Thread
      BY <2>1, <3>1, CallFields DEF Rank
    <3>3. wait_objects[d.thread] # <<>>
      BY <2>1, <3>1 DEF CallSound
    <3> QED
      BY <2>1, <3>2, <3>3, SMT DEF h
  <2> QED
    BY <2>1, <2>2, <2>3 DEF CallSound
<1> QED
  BY <1>2, <1>3, <1>4, <1>5, <1>6 DEF h, T

(* The first call is done and nothing else is left of it.                  *)
LEMMA TodoPop ==
    ASSUME TypeOK, TodoInv, todo # <<>>, todo' = Tail(todo),
           \/ Rank(Head(todo)) >= 2
           \/ \A u \in Thread : wait_objects[u] # <<>> => wait_objects'[u] # <<>>
    PROVE  /\ todo' \in Seq(Call) /\ TodoInv'
           /\ Head(todo).op # "remove" =>
                 \A t \in Thread : Pending(RemoveWaitingThreadEach(t)) =>
                                      RemoveWaitingThreadEach(t) \in Range(todo')
<1>1. TodoInv'
  BY TodoTail DEF TodoInv
<1>2. \A t \in Thread : RemoveWaitingThreadEach(t).op = "remove"
  BY DEF RemoveWaitingThreadEach
<1> QED
  BY <1>1, <1>2, TodoTail DEF Pending

(* The first call goes on as c.                                            *)
LEMMA TodoReplace ==
    ASSUME TypeOK, TodoInv, todo # <<>>, NEW c \in Call, todo' = <<c>> \o Tail(todo),
           Rank(c) <= Rank(Head(todo)), CallSound(c)',
           \/ Rank(Head(todo)) >= 2
           \/ \A u \in Thread : wait_objects[u] # <<>> => wait_objects'[u] # <<>>
    PROVE  /\ todo' \in Seq(Call) /\ TodoInv'
           /\ Head(todo).op # "remove" =>
                 \A t \in Thread : Pending(RemoveWaitingThreadEach(t)) =>
                                      RemoveWaitingThreadEach(t) \in Range(todo')
<1> DEFINE T == Tail(todo)
<1>1. /\ Head(todo) \in Call /\ T \in Seq(Call) /\ Ordered(T)
      /\ Range(todo) = Range(T) \cup {Head(todo)}
      /\ \A d \in Range(T) : d \in Call /\ Rank(Head(todo)) < Rank(d) /\ CallSound(d)'
  BY TodoTail
<1> HIDE DEF T
<1>2. todo' = <<c>> \o T
  BY DEF T
<1>3. todo' \in Seq(Call) /\ Range(todo') = Range(T) \cup {c}
  <2>1. <<c>> \o T \in Seq(Call) /\ Range(<<c>> \o T) = Range(T) \cup {c}
    BY <1>1, ConsRange, SMT
  <2> QED
    BY <1>2, <2>1
<1>4. \A d \in Range(T) : Rank(c) < Rank(d)
  BY <1>1, CallFields, SMTT(30)
<1>5. Ordered(todo')
  BY <1>1, <1>2, <1>4, ConsOrdered
<1>6. \A t \in Thread : RemoveWaitingThreadEach(t).op = "remove"
  BY DEF RemoveWaitingThreadEach
<1> QED
  BY <1>1, <1>3, <1>5, <1>6 DEF TodoInv, Pending

(* The routine that is running, when nothing comes before what is left.    *)
LEMMA ThenNothing ==
    ASSUME TypeOK, todo # <<>>
    PROVE  Head(todo) \in Call /\ <<>> \o Tail(todo) = Tail(todo)
<1>1. todo \in Seq(Call)
  BY DEF TypeOK
<1>2. Head(todo) \in Call /\ Tail(todo) \in Seq(Call)
  BY <1>1, TailRange
<1> QED
  BY <1>2, SMT

(* A routine that is called when none is running starts with one call, or  *)
(* has none to make.                                                       *)
LEMMA TodoStart ==
    ASSUME Idle, NEW c \in Call, CallSound(c)', todo' = <<c>> \/ todo' = <<>>
    PROVE  /\ todo' \in Seq(Call) /\ TodoInv'
           /\ \A t \in Thread : Pending(RemoveWaitingThreadEach(t)) =>
                                      RemoveWaitingThreadEach(t) \in Range(todo')
<1>1. todo' \in Seq(Call) /\ Ordered(todo') /\ Range(todo') \subseteq {c}
  BY ShortOrdered
<1>2. Range(todo) = {}
  BY ShortOrdered DEF Idle
<1> QED
  BY <1>1, <1>2 DEF TodoInv, Pending

(* A step outside the routines.                                            *)
LEMMA TodoKept ==
    ASSUME TypeOK, Idle, UNCHANGED todo
    PROVE  /\ todo' \in Seq(Call) /\ TodoInv'
           /\ \A t \in Thread : Pending(RemoveWaitingThreadEach(t)) =>
                                      RemoveWaitingThreadEach(t) \in Range(todo')
  BY SMT DEF TypeOK, Idle, TodoInv, Pending, Range, Ordered

(* Two calls c and d take the place of the first one.                      *)
LEMMA TodoReplaceTwo ==
    ASSUME TypeOK, TodoInv, todo # <<>>, NEW c \in Call, NEW d \in Call,
           todo' = <<c, d>> \o Tail(todo), Rank(c) < Rank(d), Rank(d) <= Rank(Head(todo)),
           CallSound(c)', CallSound(d)', Rank(Head(todo)) >= 2, Head(todo).op # "remove"
    PROVE  /\ todo' \in Seq(Call) /\ TodoInv'
           /\ \A t \in Thread : Pending(RemoveWaitingThreadEach(t)) =>
                                   RemoveWaitingThreadEach(t) \in Range(todo')
<1> DEFINE T == Tail(todo)
<1>1. /\ Head(todo) \in Call /\ T \in Seq(Call) /\ Ordered(T)
      /\ Range(todo) = Range(T) \cup {Head(todo)}
      /\ \A e \in Range(T) : e \in Call /\ Rank(Head(todo)) < Rank(e) /\ CallSound(e)'
  BY TodoTail
<1> HIDE DEF T
<1>2. todo' = <<c, d>> \o T
  BY DEF T
<1>3. \A e \in Range(T) : Rank(d) < Rank(e)
  BY <1>1, CallFields, SMTT(30)
<1>4. <<c, d>> \o T \in Seq(Call) /\ Ordered(<<c, d>> \o T) /\ Range(<<c, d>> \o T) = Range(T) \cup {c, d}
  BY <1>1, <1>3, TwoCalls
<1>5. \A t \in Thread : RemoveWaitingThreadEach(t).op = "remove"
  BY DEF RemoveWaitingThreadEach
<1>6. todo' \in Seq(Call) /\ Ordered(todo') /\ Range(todo') = Range(T) \cup {c, d}
  BY <1>2, <1>4
<1> QED
  BY <1>1, <1>5, <1>6 DEF TodoInv, Pending

(* A step that only changes such fields, and what is left to do.           *)
LEMMA QuietKept ==
    ASSUME IInv, UNCHANGED schedVars, UNCHANGED waiting_threads, RestOK', TodoOK,
           UNCHANGED cpuVars \/ PrepareReschedule
    PROVE  IInv'
<1> USE DEF IInv
<1>1. UNCHANGED <<status, nominal_priority, current_priority, held_mutexes, wait_objects,
                  wait_address, wakeup_callback, thread_list, queues, linked, current_thread>>
  BY DEF schedVars, threadVars, queueVars
<1>2. CpuInv' /\ phase' \in {"advance", "run", "resched"} /\ reschedule_pending' \in BOOLEAN
  BY <1>1, CpuKept
<1>3. ReadyQueueExact'
  BY <1>1, QueueKept
<1>4. WaitListsExact'
  BY <1>1, WaitKept DEF WaitListsExact, TodoOK
<1>5. TypeOK'
  BY <1>1, <1>2 DEF TypeOK, RestOK, TodoOK
<1> QED
  BY <1>2, <1>3, <1>4, <1>5 DEF TodoOK
-----------------------------------------------------------------------------
(* What the proofs need to know of Min: the best of several priorities is  *)
(* one of them.  Kernel_proofs has the proof.                              *)
LeastPriority == \A S \in SUBSET Priority : S # {} => Min(S) \in S

(* Thread::UpdatePriority chooses a level of the ready queue.              *)
LEMMA BestIsPriority ==
    ASSUME LeastPriority, NEW p \in Priority, NEW held \in SUBSET Mutex,
           NEW prio \in [Mutex -> Priority]
    PROVE  Min({p} \cup {prio[m] : m \in held}) \in Priority
<1> DEFINE S == {p} \cup {prio[m] : m \in held}
<1>1. S \subseteq Priority /\ S # {}
  OBVIOUS
<1> HIDE DEF S
<1>2. Min(S) \in S
  BY <1>1 DEF LeastPriority
<1> QED
  BY <1>1, <1>2 DEF S

(* A boost keeps the ready queue exact.                                    *)
LEMMA BoostKept ==
    ASSUME TypeOK, ReadyQueueExact, NEW t \in Thread, NEW p \in Priority,
           BoostPriority(t, p), UNCHANGED status
    PROVE  /\ current_priority' \in [Thread -> Priority]
           /\ queues' \in [Priority -> Seq(Thread)] /\ linked' \subseteq Priority
           /\ ReadyQueueExact'
<1> DEFINE cp2 == [current_priority EXCEPT ![t] = p]
<1>1. /\ queues \in Queues /\ current_priority \in [Thread -> Priority]
      /\ linked \subseteq Priority
  BY DEF TypeOK, Queues
<1>2. /\ current_priority' = cp2 /\ linked' = linked \cup {p}
      /\ cp2 \in [Thread -> Priority] /\ cp2[t] = p
      /\ \A u \in Thread \ {t} : cp2[u] = current_priority[u]
  BY <1>1 DEF BoostPriority
<1>3. Matches(queues, ReadyThreads, current_priority)
  BY QueueMatches
<1>4. CASE status[t] = "Ready"
  <2>1. queues' = Move(queues, t, current_priority[t], p)
    BY <1>4 DEF BoostPriority
  <2>2. t \in ReadyThreads
    BY <1>4 DEF ReadyThreads
  <2>3. queues' \in Queues /\ Matches(queues', ReadyThreads, cp2)
    BY <1>1, <1>3, <2>1, <2>2, MoveMatches
  <2> HIDE DEF cp2
  <2> QED
    BY <1>1, <1>2, <2>3 DEF Matches, ReadyThreads, ReadyQueueExact, Queues
<1>5. CASE status[t] # "Ready"
  <2>1. queues' = queues
    BY <1>5 DEF BoostPriority
  <2>2. \A u \in Thread : status[u] = "Ready" => cp2[u] = current_priority[u]
    BY <1>2, <1>5
  <2> HIDE DEF cp2
  <2> QED
    BY <1>1, <1>2, <2>1, <2>2 DEF ReadyQueueExact, Queues
<1> QED
  BY <1>4, <1>5

(* So does Mutex::UpdatePriority, whoever waits for the mutex.             *)
LEMMA UpdateMutexKept ==
    ASSUME LeastPriority, TypeOK, ReadyQueueExact, NEW m \in Mutex, NEW list \in Seq(Thread),
           UpdateMutexPriority(m, list), UNCHANGED status
    PROVE  /\ priority' \in [Mutex -> Priority]
           /\ current_priority' \in [Thread -> Priority]
           /\ queues' \in [Priority -> Seq(Thread)] /\ linked' \subseteq Priority
           /\ ReadyQueueExact'
<1> DEFINE S == {ThreadPrioLowest} \cup {current_priority[list[i]] : i \in DOMAIN list}
           best == Min(S)
           holder == holding_thread[m]
           prio == [priority EXCEPT ![m] = best]
<1>1. Priority \subseteq Nat /\ ThreadPrioLowest \in Priority
  BY ThreadsAssumption, SMT DEF Priority
<1>2. S \subseteq Priority /\ S # {}
  BY <1>1, SMT DEF TypeOK
<1>3. best \in Priority
  <2> HIDE DEF S
  <2>1. Min(S) \in S
    BY <1>1, <1>2 DEF LeastPriority
  <2> QED
    BY <1>2, <2>1
<1>4. CASE /\ holder # NULL /\ priority' = prio
           /\ BoostPriority(holder, BestPriority(holder, held_mutexes[holder], prio))
  <2> HIDE DEF best
  <2>1. holder \in Thread /\ prio \in [Mutex -> Priority]
    BY <1>3, <1>4 DEF TypeOK
  <2>2. nominal_priority[holder] \in Priority /\ held_mutexes[holder] \in SUBSET Mutex
    BY <2>1 DEF TypeOK
  <2> HIDE DEF prio, holder
  <2>3. BestPriority(holder, held_mutexes[holder], prio) \in Priority
    BY <2>1, <2>2, BestIsPriority DEF BestPriority
  <2> QED
    BY <1>4, <2>1, <2>3, BoostKept
<1>5. CASE UNCHANGED <<priority, current_priority, queueVars>>
  BY <1>5, QueueKept DEF queueVars, TypeOK
<1> QED
  BY <1>4, <1>5 DEF UpdateMutexPriority
-----------------------------------------------------------------------------
(* Mutex::UpdatePriority over the mutexes a thread waits for.              *)
LEMMA UpdateNextKept ==
    ASSUME LeastPriority, IInv, UpdateNext
    PROVE  IInv'
<1> USE DEF IInv
<1> DEFINE h == Head(todo)
<1>1. todo # <<>> /\ h.op = "update"
  BY DEF UpdateNext, Doing
<1>2. h \in Call /\ h.mutexes \in SUBSET Mutex
  BY <1>1, ThenNothing, CallFields
<1>3. PICK m \in h.mutexes :
          /\ UpdateMutexPriority(m, waiting_threads[m])
          /\ Then(IF h.mutexes = {m} THEN <<>> ELSE <<UpdatePriorityEach(h.mutexes \ {m})>>)
  BY DEF UpdateNext
<1>4. /\ UNCHANGED <<status, nominal_priority, held_mutexes, wait_objects, wait_address,
                     wakeup_callback, thread_list, current_thread>>
      /\ UNCHANGED <<wakeup_events, timer_events, waiting_threads, lock_count,
                     holding_thread, signaled, interval, available_count, created,
                     arbiter_threads, memory, phase, reschedule_pending>>
  BY DEF UpdateNext, eventVars, objectVars, arbiterVars, cpuVars
<1>5. m \in Mutex /\ waiting_threads[m] \in Seq(Thread)
  BY <1>2, <1>3 DEF TypeOK, WaitObject
<1>6. /\ priority' \in [Mutex -> Priority] /\ current_priority' \in [Thread -> Priority]
      /\ queues' \in [Priority -> Seq(Thread)] /\ linked' \subseteq Priority
      /\ ReadyQueueExact'
  BY <1>3, <1>4, <1>5, UpdateMutexKept
<1>7. PICK c \in Call : /\ c = UpdatePriorityEach(h.mutexes \ {m}) /\ c.op = "update"
                        /\ Rank(c) = 1
  BY <1>2, CallTypes
<1>8. todo' = Tail(todo) \/ todo' = <<c>> \o Tail(todo)
  BY <1>1, <1>3, <1>7, ThenNothing DEF Then
<1>9. /\ todo' \in Seq(Call) /\ TodoInv'
      /\ \A t \in Thread : Pending(RemoveWaitingThreadEach(t)) =>
                               RemoveWaitingThreadEach(t) \in Range(todo')
  <2>1. Rank(c) <= Rank(h) /\ CallSound(c)' /\ h.op # "remove"
    BY <1>1, <1>7, SMT DEF CallSound, Rank
  <2>2. CASE todo' = Tail(todo)
    BY <1>1, <1>4, <2>1, <2>2, TodoPop
  <2>3. CASE todo' = <<c>> \o Tail(todo)
    BY <1>1, <1>4, <2>1, <2>3, TodoReplace
  <2> QED
    BY <1>8, <2>2, <2>3
<1>10. TypeOK'
  BY <1>4, <1>6, <1>9 DEF TypeOK
<1>11. CpuInv'
  BY <1>4, CpuKept DEF cpuVars
<1>12. WaitListsExact'
  BY <1>4, <1>9, WaitKept DEF WaitListsExact
<1> QED
  BY <1>6, <1>9, <1>10, <1>11, <1>12

(* WaitObject::Acquire of the next object.                                 *)
LEMMA AcquireNextKept ==
    ASSUME LeastPriority, IInv, AcquireNext
    PROVE  IInv'
<1> USE DEF IInv
<1> DEFINE h == Head(todo)
<1>1. todo # <<>> /\ h.op = "acquire"
  BY DEF AcquireNext, Doing
<1>2. h \in Call /\ h.thread \in Thread /\ h.objects \in Seq(WaitObject) /\ h.objects # <<>>
  <2>1. CallSound(h)
    BY <1>1, TailRange DEF TypeOK, TodoInv
  <2> QED
    BY <1>1, <2>1, ThenNothing, CallFields DEF CallSound
<1>3. PICK t \in Thread : t = h.thread
  BY <1>2
<1>4. PICK o \in WaitObject : o = Head(h.objects)
  BY <1>2, SMT
<1>5. /\ Acquire(o, t)
      /\ Then(IF Len(h.objects) = 1 THEN <<>> ELSE <<AcquireEach(t, Tail(h.objects))>>)
  BY <1>3, <1>4 DEF AcquireNext
<1>6. /\ UNCHANGED <<status, nominal_priority, wait_objects, wait_address, wakeup_callback,
                     thread_list, current_thread>>
      /\ UNCHANGED <<wakeup_events, timer_events, waiting_threads, interval, created,
                     arbiter_threads, memory>>
  BY DEF AcquireNext, eventVars, arbiterVars
<1>7. /\ signaled' \in [Event \cup Timer -> BOOLEAN]
      /\ available_count' \in [Semaphore -> Int]
  <2>1. signaled' = signaled \/ signaled' = [signaled EXCEPT ![o] = FALSE]
    BY <1>5 DEF Acquire, AcquireSignal
  <2>2. signaled' \in [Event \cup Timer -> BOOLEAN]
    <3>1. signaled \in [Event \cup Timer -> BOOLEAN]
      BY DEF TypeOK
    <3> QED
      BY <2>1, <3>1
  <2>3. available_count' \in [Semaphore -> Int]
    BY <1>5, SMTT(30) DEF Acquire, AcquireSemaphore, TypeOK
  <2> QED
    BY <2>2, <2>3
<1>8. /\ lock_count' \in [Mutex -> Nat] /\ held_mutexes' \in [Thread -> SUBSET Mutex]
      /\ priority' \in [Mutex -> Priority] /\ holding_thread' \in [Mutex -> Thread \cup {NULL}]
      /\ current_priority' \in [Thread -> Priority]
      /\ queues' \in [Priority -> Seq(Thread)] /\ linked' \subseteq Priority
      /\ ReadyQueueExact'
      /\ UNCHANGED cpuVars \/ PrepareReschedule
  <2>1. CASE UNCHANGED <<mutexVars, held_mutexes, current_priority, queueVars, cpuVars>>
    BY <1>6, <2>1, QueueKept DEF TypeOK, mutexVars, queueVars
  <2>2. CASE o \in Mutex /\ AcquireMutex(o, t)
    <3>1. lock_count' \in [Mutex -> Nat]
      <4>1. lock_count' = [lock_count EXCEPT ![o] = lock_count[o] + 1]
        BY <2>2 DEF AcquireMutex
      <4>2. lock_count \in [Mutex -> Nat]
        BY DEF TypeOK
      <4> QED
        BY <2>2, <4>1, <4>2, SMT
    <3>2. CASE UNCHANGED <<held_mutexes, priority, current_priority, queueVars,
                           holding_thread, cpuVars>>
      BY <1>6, <3>1, <3>2, QueueKept DEF TypeOK, queueVars
    <3>3. CASE lock_count[o] = 0
      <4> DEFINE held == held_mutexes[t] \cup {o}
                 prio == [priority EXCEPT ![o] = current_priority[t]]
      <4>1. /\ held_mutexes' = [held_mutexes EXCEPT ![t] = held] /\ priority' = prio
            /\ BoostPriority(t, BestPriority(t, held, prio))
            /\ holding_thread' = [holding_thread EXCEPT ![o] = t]
            /\ PrepareReschedule
        BY <2>2, <3>3, SMT DEF AcquireMutex
      <4>2. /\ held \in SUBSET Mutex /\ prio \in [Mutex -> Priority]
            /\ nominal_priority[t] \in Priority
        BY <2>2 DEF TypeOK
      <4>3. held_mutexes' \in [Thread -> SUBSET Mutex]
        BY <4>1, <4>2 DEF TypeOK
      <4>4. holding_thread' \in [Mutex -> Thread \cup {NULL}]
        BY <4>1 DEF TypeOK
      <4> HIDE DEF held, prio
      <4>5. BestPriority(t, held, prio) \in Priority
        BY <4>2, BestIsPriority DEF BestPriority
      <4> QED
        BY <1>6, <3>1, <4>1, <4>2, <4>3, <4>4, <4>5, BoostKept
    <3> QED
      BY <2>2, <3>2, <3>3 DEF AcquireMutex
  <2> QED
    BY <1>5, <2>1, <2>2 DEF Acquire
<1>9. /\ todo' \in Seq(Call) /\ TodoInv'
      /\ \A u \in Thread : Pending(RemoveWaitingThreadEach(u)) =>
                               RemoveWaitingThreadEach(u) \in Range(todo')
  <2>1. h.op # "remove"
    BY <1>1
  <2>2. CASE Len(h.objects) = 1
    <3>1. todo' = Tail(todo)
      BY <1>1, <1>5, <2>2, ThenNothing DEF Then
    <3> QED
      BY <1>1, <1>6, <2>1, <3>1, TodoPop
  <2>3. CASE Len(h.objects) # 1
    <3>1. Tail(h.objects) \in Seq(WaitObject) /\ Tail(h.objects) # <<>>
      BY <1>2, <2>3, TailRange, LastTail
    <3>2. PICK c \in Call : /\ c = AcquireEach(t, Tail(h.objects)) /\ c.op = "acquire"
                            /\ c.objects = Tail(h.objects) /\ Rank(c) = 1
      BY <3>1, CallTypes
    <3>3. todo' = <<c>> \o Tail(todo)
      BY <1>5, <2>3, <3>2 DEF Then
    <3>4. Rank(c) <= Rank(h)
      BY <1>1, <3>2, RankOf, SMT
    <3>5. CallSound(c)'
      BY <3>1, <3>2 DEF CallSound
    <3> QED
      BY <1>1, <1>6, <2>1, <3>3, <3>4, <3>5, TodoReplace, SMTT(20)
  <2> QED
    BY <2>2, <2>3
<1>10. CpuInv' /\ phase' \in {"advance", "run", "resched"} /\ reschedule_pending' \in BOOLEAN
  BY <1>6, <1>8, CpuKept
<1>11. TypeOK'
  BY <1>6, <1>7, <1>8, <1>9, <1>10 DEF TypeOK
<1>12. WaitListsExact'
  BY <1>6, <1>9, WaitKept DEF WaitListsExact
<1> QED
  BY <1>8, <1>9, <1>10, <1>11, <1>12, SMT

(* A new list of waiting threads, and the priorities that follow from it.  *)
LEMMA SetWaitingKept ==
    ASSUME LeastPriority, TypeOK, ReadyQueueExact, NEW o \in WaitObject, NEW list \in Seq(Thread),
           SetWaitingThreads(o, list), UNCHANGED status
    PROVE  /\ waiting_threads' \in [WaitObject -> Seq(Thread)]
           /\ waiting_threads'[o] = list
           /\ \A x \in WaitObject \ {o} : waiting_threads'[x] = waiting_threads[x]
           /\ priority' \in [Mutex -> Priority]
           /\ current_priority' \in [Thread -> Priority]
           /\ queues' \in [Priority -> Seq(Thread)] /\ linked' \subseteq Priority
           /\ ReadyQueueExact'
<1>1. /\ waiting_threads' \in [WaitObject -> Seq(Thread)]
      /\ waiting_threads'[o] = list
      /\ \A x \in WaitObject \ {o} : waiting_threads'[x] = waiting_threads[x]
  BY DEF SetWaitingThreads, TypeOK
<1>2. CASE o \in Mutex /\ UpdateMutexPriority(o, list)
  BY <1>1, <1>2, UpdateMutexKept
<1>3. CASE UNCHANGED <<priority, current_priority, queueVars>>
  BY <1>1, <1>3, QueueKept DEF queueVars, TypeOK
<1> QED
  BY <1>2, <1>3 DEF SetWaitingThreads

(* WaitObject::AddWaitingThread for the next object.                       *)
LEMMA AddNextKept ==
    ASSUME LeastPriority, IInv, AddNext
    PROVE  IInv'
<1> USE DEF IInv
<1> DEFINE h == Head(todo)
<1>1. todo # <<>> /\ h.op = "add"
  BY DEF AddNext, Doing
<1>2. /\ h \in Call /\ h.thread \in Thread /\ h.objects \in Seq(WaitObject)
      /\ h.objects # <<>> /\ status[h.thread] \in SynchStatus
  <2>1. CallSound(h)
    BY <1>1, TailRange DEF TypeOK, TodoInv
  <2> QED
    BY <1>1, <2>1, ThenNothing, CallFields DEF CallSound
<1>3. PICK t \in Thread : t = h.thread
  BY <1>2
<1>4. PICK o \in WaitObject : o = Head(h.objects)
  BY <1>2, SMT
<1>5. PICK list \in Seq(Thread) :
          list = IF t \in Range(waiting_threads[o]) THEN waiting_threads[o]
                 ELSE Append(waiting_threads[o], t)
  BY AppendRange DEF TypeOK
<1>6. /\ SetWaitingThreads(o, list)
      /\ wait_objects' = [wait_objects EXCEPT ![t] = Append(@, o)]
      /\ Then(IF Len(h.objects) = 1 THEN <<>> ELSE <<AddWaitingThreadEach(t, Tail(h.objects))>>)
  BY <1>3, <1>4, <1>5 DEF AddNext
<1>7. /\ UNCHANGED <<status, nominal_priority, held_mutexes, wait_address, wakeup_callback,
                     thread_list, current_thread>>
      /\ UNCHANGED <<wakeup_events, timer_events, lock_count, holding_thread, signaled,
                     interval, available_count, created, arbiter_threads, memory, phase,
                     reschedule_pending>>
  BY DEF AddNext, eventVars, objectVars, arbiterVars, cpuVars
<1>8. /\ waiting_threads' \in [WaitObject -> Seq(Thread)] /\ waiting_threads'[o] = list
      /\ \A x \in WaitObject \ {o} : waiting_threads'[x] = waiting_threads[x]
      /\ priority' \in [Mutex -> Priority] /\ current_priority' \in [Thread -> Priority]
      /\ queues' \in [Priority -> Seq(Thread)] /\ linked' \subseteq Priority
      /\ ReadyQueueExact'
  BY <1>6, <1>7, SetWaitingKept
<1>9. /\ wait_objects' \in [Thread -> Seq(WaitObject)]
      /\ \A u \in Thread \ {t} : wait_objects'[u] = wait_objects[u]
      /\ Range(wait_objects'[t]) = Range(wait_objects[t]) \cup {o} /\ wait_objects'[t] # <<>>
  <2>1. wait_objects \in [Thread -> Seq(WaitObject)] /\ wait_objects[t] \in Seq(WaitObject)
    BY DEF TypeOK
  <2>2. /\ Append(wait_objects[t], o) \in Seq(WaitObject) /\ Append(wait_objects[t], o) # <<>>
        /\ Range(Append(wait_objects[t], o)) = Range(wait_objects[t]) \cup {o}
    BY <2>1, AppendRange, SMT
  <2> QED
    BY <1>6, <2>1, <2>2
<1>10. /\ todo' \in Seq(Call) /\ TodoInv'
       /\ \A u \in Thread : Pending(RemoveWaitingThreadEach(u)) =>
                                RemoveWaitingThreadEach(u) \in Range(todo')
  <2>1. h.op # "remove" /\ \A u \in Thread : wait_objects[u] # <<>> => wait_objects'[u] # <<>>
    BY <1>1, <1>9
  <2>2. CASE Len(h.objects) = 1
    <3>1. todo' = Tail(todo)
      BY <1>1, <1>6, <2>2, ThenNothing DEF Then
    <3> QED
      BY <1>1, <2>1, <3>1, TodoPop
  <2>3. CASE Len(h.objects) # 1
    <3>1. Tail(h.objects) \in Seq(WaitObject) /\ Tail(h.objects) # <<>>
      BY <1>2, <2>3, TailRange, LastTail
    <3>2. PICK c \in Call : /\ c = AddWaitingThreadEach(t, Tail(h.objects)) /\ c.op = "add"
                            /\ c.thread = t /\ c.objects = Tail(h.objects) /\ Rank(c) = 0
      BY <3>1, CallTypes
    <3>3. todo' = <<c>> \o Tail(todo)
      BY <1>6, <2>3, <3>2 DEF Then
    <3>4. Rank(c) <= Rank(h)
      BY <1>1, <3>2, RankOf, SMT
    <3>5. CallSound(c)'
      BY <1>2, <1>3, <1>7, <3>1, <3>2 DEF CallSound
    <3> QED
      BY <1>1, <2>1, <3>3, <3>4, <3>5, TodoReplace, SMTT(20)
  <2> QED
    BY <2>2, <2>3
<1>11. WaitListsExact'
  <2>1. IsInjective(list) /\ Range(list) = Range(waiting_threads[o]) \cup {t}
    <3>1. waiting_threads[o] \in Seq(Thread) /\ IsInjective(waiting_threads[o])
      BY DEF TypeOK, WaitListsExact
    <3>2. CASE t \in Range(waiting_threads[o])
      BY <1>5, <3>1, <3>2
    <3>3. CASE t \notin Range(waiting_threads[o])
      <4>1. list = Append(waiting_threads[o], t)
        BY <1>5, <3>3
      <4> QED
        BY <3>1, <3>3, <4>1, AppendRange, SMT
    <3> QED
      BY <3>2, <3>3
  <2>2. \A x \in WaitObject : IsInjective(waiting_threads'[x])
    BY <1>8, <2>1 DEF WaitListsExact
  <2>3. ASSUME NEW x \in WaitObject, NEW u \in Thread
        PROVE  /\ u \in Range(waiting_threads'[x]) => x \in Range(wait_objects'[u])
               /\ x \in Range(wait_objects'[u]) =>
                     \/ u \in Range(waiting_threads'[x])
                     \/ RemoveWaitingThreadEach(u) \in Range(todo')
    BY <1>8, <1>9, <1>10, <2>1 DEF WaitListsExact
  <2>4. \A u \in Thread : wait_objects'[u] # <<>> => status'[u] \in SynchStatus
    BY <1>2, <1>3, <1>7, <1>9 DEF WaitListsExact
  <2> QED
    BY <2>2, <2>3, <2>4 DEF WaitListsExact, Pending
<1>12. CpuInv'
  BY <1>7, CpuKept DEF cpuVars
<1>13. TypeOK'
  BY <1>7, <1>8, <1>9, <1>10 DEF TypeOK
<1> QED
  BY <1>8, <1>10, <1>11, <1>12, <1>13, SMT

(* WaitObject::RemoveWaitingThread for the next object of the thread.      *)
LEMMA RemoveNextKept ==
    ASSUME LeastPriority, IInv, RemoveNext
    PROVE  IInv'
<1> USE DEF IInv
<1> DEFINE h == Head(todo)
<1>1. todo # <<>> /\ h.op = "remove"
  BY DEF RemoveNext, Doing
<1>2. h \in Call /\ h.thread \in Thread /\ wait_objects[h.thread] # <<>>
  <2>1. CallSound(h)
    BY <1>1, TailRange DEF TypeOK, TodoInv
  <2> QED
    BY <1>1, <2>1, ThenNothing, CallFields DEF CallSound
<1>3. PICK t \in Thread : t = h.thread /\ h = RemoveWaitingThreadEach(t)
  BY <1>1, <1>2, CallFields
<1>4. wait_objects \in [Thread -> Seq(WaitObject)] /\ wait_objects[t] \in Seq(WaitObject)
  BY DEF TypeOK
<1>5. PICK o \in WaitObject : o = Head(wait_objects[t])
  BY <1>2, <1>3, <1>4, TailRange
<1>6. /\ Tail(wait_objects[t]) \in Seq(WaitObject)
      /\ Range(wait_objects[t]) = Range(Tail(wait_objects[t])) \cup {o}
  BY <1>2, <1>3, <1>4, <1>5, TailRange, SMTT(20)
<1>7. waiting_threads[o] \in Seq(Thread) /\ IsInjective(waiting_threads[o])
  BY DEF TypeOK, WaitListsExact
<1>8. PICK list \in Seq(Thread) :
          /\ list = RemoveFirst(waiting_threads[o], t)
          /\ IsInjective(list) /\ Range(list) = Range(waiting_threads[o]) \ {t}
  BY <1>7, RemoveFirstRange
<1>9. /\ SetWaitingThreads(o, list)
      /\ wait_objects' = [wait_objects EXCEPT ![t] = Tail(@)]
      /\ IF Len(wait_objects[t]) = 1 THEN Then(<<>>) ELSE UNCHANGED todo
  BY <1>3, <1>5, <1>8 DEF RemoveNext
<1>10. /\ UNCHANGED <<status, nominal_priority, held_mutexes, wait_address, wakeup_callback,
                      thread_list, current_thread>>
       /\ UNCHANGED <<wakeup_events, timer_events, lock_count, holding_thread, signaled,
                      interval, available_count, created, arbiter_threads, memory, phase,
                      reschedule_pending>>
  BY DEF RemoveNext, eventVars, objectVars, arbiterVars, cpuVars
<1>11. /\ waiting_threads' \in [WaitObject -> Seq(Thread)] /\ waiting_threads'[o] = list
       /\ \A x \in WaitObject \ {o} : waiting_threads'[x] = waiting_threads[x]
       /\ priority' \in [Mutex -> Priority] /\ current_priority' \in [Thread -> Priority]
       /\ queues' \in [Priority -> Seq(Thread)] /\ linked' \subseteq Priority
       /\ ReadyQueueExact'
  BY <1>9, <1>10, SetWaitingKept
<1>12. /\ wait_objects' \in [Thread -> Seq(WaitObject)]
       /\ \A u \in Thread \ {t} : wait_objects'[u] = wait_objects[u]
       /\ wait_objects'[t] = Tail(wait_objects[t])
  BY <1>4, <1>6, <1>9
<1>13. Rank(h) = 2
  BY <1>1, RankOf
<1>14. /\ Range(todo) = Range(Tail(todo)) \cup {h}
       /\ \A d \in Range(Tail(todo)) : CallSound(d)'
  BY <1>1, <1>13, TodoTail, SMTT(20)
<1>15. /\ todo' \in Seq(Call) /\ TodoInv'
       /\ \A u \in Thread \ {t} : Pending(RemoveWaitingThreadEach(u)) =>
                                      RemoveWaitingThreadEach(u) \in Range(todo')
       /\ wait_objects'[t] # <<>> => RemoveWaitingThreadEach(t) \in Range(todo')
  <2>1. CASE Len(wait_objects[t]) = 1
    <3>1. todo' = Tail(todo)
      BY <1>1, <1>9, <2>1, ThenNothing DEF Then
    <3>2. todo' \in Seq(Call) /\ TodoInv'
      BY <1>1, <1>13, <3>1, TodoPop, SMTT(30)
    <3>3. wait_objects'[t] = <<>>
      BY <1>2, <1>3, <1>4, <1>12, <2>1, LastTail, SMTT(30)
    <3>4. \A u \in Thread \ {t} : RemoveWaitingThreadEach(u) # h
      BY <1>3, SMT DEF RemoveWaitingThreadEach
    <3> QED
      BY <1>14, <3>1, <3>2, <3>3, <3>4, SMTT(20) DEF Pending
  <2>2. CASE Len(wait_objects[t]) # 1
    <3>1. todo' = todo
      BY <1>9, <2>2
    <3>2. wait_objects'[t] # <<>>
      BY <1>2, <1>3, <1>4, <1>12, <2>2, LastTail
    <3>3. PICK c \in Call : c = h
      BY <1>2
    <3>4. CallSound(c)'
      BY <1>1, <1>3, <3>2, <3>3 DEF CallSound
    <3>5. TodoInv'
      BY <1>14, <3>1, <3>3, <3>4 DEF TodoInv
    <3> QED
      BY <1>3, <1>14, <3>1, <3>5 DEF TypeOK, Pending
  <2> QED
    BY <2>1, <2>2
<1>16. WaitListsExact'
  <2>1. \A x \in WaitObject : IsInjective(waiting_threads'[x])
    BY <1>8, <1>11 DEF WaitListsExact
  <2>2. ASSUME NEW x \in WaitObject, NEW u \in Thread
        PROVE  u \in Range(waiting_threads'[x]) => x \in Range(wait_objects'[u])
    BY <1>6, <1>8, <1>11, <1>12 DEF WaitListsExact
  <2>3. ASSUME NEW x \in WaitObject, NEW u \in Thread, x \in Range(wait_objects'[u])
        PROVE  \/ u \in Range(waiting_threads'[x])
               \/ RemoveWaitingThreadEach(u) \in Range(todo')
    <3>1. CASE u = t
      <4>1. wait_objects'[t] # <<>>
        BY <2>3, <3>1, SMT DEF Range
      <4> QED
        BY <1>15, <3>1, <4>1
    <3>2. CASE u # t
      BY <1>8, <1>11, <1>12, <1>15, <2>3, <3>2 DEF WaitListsExact
    <3> QED
      BY <3>1, <3>2
  <2>4. \A u \in Thread : wait_objects'[u] # <<>> => status'[u] \in SynchStatus
    BY <1>2, <1>3, <1>10, <1>12 DEF WaitListsExact
  <2> QED
    BY <2>1, <2>2, <2>3, <2>4 DEF WaitListsExact, Pending
<1>17. CpuInv'
  BY <1>10, CpuKept DEF cpuVars
<1>18. TypeOK'
  BY <1>10, <1>11, <1>12, <1>15 DEF TypeOK
<1> QED
  BY <1>11, <1>15, <1>16, <1>17, <1>18

(* WaitObject::WakeupAllWaitingThreads: the next thread, or the end.       *)
LEMMA WakeupNextKept ==
    IInv /\ WakeupNext => IInv'
<1> SUFFICES ASSUME IInv, WakeupNext PROVE IInv'
  OBVIOUS
<1> USE DEF IInv
<1> DEFINE h == Head(todo)
<1>1. todo # <<>> /\ h.op = "wakeup" /\ Rank(h) = 4
  BY RankOf DEF WakeupNext, Doing
<1>2. h \in Call /\ h.object \in WaitObject
  BY <1>1, ThenNothing, CallFields
<1>3. PICK o \in WaitObject : o = h.object
  BY <1>2
<1>4. /\ UNCHANGED <<status, nominal_priority, current_priority, held_mutexes, wait_objects,
                     wait_address, wakeup_callback, thread_list, queues, linked,
                     current_thread>>
      /\ UNCHANGED <<wakeup_events, timer_events, waiting_threads, lock_count,
                     holding_thread, priority, interval, available_count, created,
                     arbiter_threads, memory, phase, reschedule_pending>>
  BY DEF WakeupNext, schedVars, threadVars, queueVars, eventVars, mutexVars, arbiterVars,
         cpuVars
<1> DEFINE list == waiting_threads[o]
           Step(t, objs) ==
               /\ objs = (IF status[t] = "WaitSynchAll" THEN wait_objects[t] ELSE <<o>>)
               /\ todo' = <<AcquireEach(t, objs), RemoveWaitingThreadEach(t),
                            ResumeFromWait(t)>> \o todo
<1>5. \/ (\E i \in DOMAIN list : \E objs : Step(list[i], objs)) /\ UNCHANGED signaled
      \/ PulseReset(o) /\ todo' = Tail(todo)
  BY <1>1, <1>3, ThenNothing DEF WakeupNext, Then
<1>6. signaled' \in [Event \cup Timer -> BOOLEAN]
  <2>1. signaled \in [Event \cup Timer -> BOOLEAN]
    BY DEF TypeOK
  <2>2. CASE UNCHANGED signaled
    BY <2>1, <2>2
  <2>3. CASE PulseReset(o)
    BY <2>1, <2>3 DEF PulseReset
  <2> QED
    BY <1>5, <2>2, <2>3
<1>7. /\ todo' \in Seq(Call) /\ TodoInv'
      /\ \A u \in Thread : Pending(RemoveWaitingThreadEach(u)) =>
                               RemoveWaitingThreadEach(u) \in Range(todo')
  <2>1. CASE todo' = Tail(todo)
    BY <1>1, <2>1, TodoPop, SMTT(30)
  <2>2. CASE \E i \in DOMAIN list : \E objs : Step(list[i], objs)
    <3>1. PICK i \in DOMAIN list : \E objs : Step(list[i], objs)
      BY <2>2
    <3>2. list \in Seq(Thread) /\ list[i] \in Thread /\ list[i] \in Range(list)
      BY SMTT(30) DEF TypeOK, Range
    <3>3. PICK t \in Thread : t = list[i]
      BY <3>2
    <3>4. PICK objs : Step(t, objs)
      BY <3>1, <3>3
    <3>5. wait_objects[t] \in Seq(WaitObject) /\ wait_objects[t] # <<>>
      <4>1. o \in Range(wait_objects[t])
        BY <3>2, <3>3 DEF WaitListsExact
      <4> QED
        BY <4>1, SMTT(20) DEF TypeOK, Range
    <3>6. objs \in Seq(WaitObject) /\ objs # <<>>
      BY <3>4, <3>5, SMT
    <3>7. PICK a \in Call : /\ a = AcquireEach(t, objs) /\ a.op = "acquire"
                            /\ a.objects = objs /\ Rank(a) = 1
      BY <3>6, CallTypes
    <3>8. PICK r \in Call : /\ r = RemoveWaitingThreadEach(t) /\ r.op = "remove"
                            /\ r.thread = t /\ Rank(r) = 2
      BY CallTypes
    <3>9. PICK w \in Call : w = ResumeFromWait(t) /\ w.op = "resume" /\ Rank(w) = 3
      BY CallTypes
    <3>10. CallSound(a)' /\ CallSound(r)' /\ CallSound(w)'
      BY <1>4, <3>5, <3>6, <3>7, <3>8, <3>9, SMTT(20) DEF CallSound
    <3>11. /\ todo \in Seq(Call) /\ Ordered(todo)
           /\ \A d \in Range(todo) : Rank(d) \in 4 .. 6 /\ CallSound(d)'
      <4>1. /\ Range(todo) = Range(Tail(todo)) \cup {h}
            /\ \A d \in Range(Tail(todo)) : d \in Call /\ 4 < Rank(d) /\ CallSound(d)'
        BY <1>1, TodoTail, SMT
      <4>2. PICK c \in Call : c = h
        BY <1>2
      <4>3. CallSound(c)'
        BY <1>1, <4>2 DEF CallSound
      <4>4. \A d \in Call : 4 < Rank(d) => Rank(d) \in 4 .. 6
        BY CallFields, SMT
      <4>5. \A d \in Range(todo) : Rank(d) \in 4 .. 6 /\ CallSound(d)'
        BY <1>1, <4>1, <4>2, <4>3, <4>4, SMTT(20)
      <4> QED
        BY <4>5 DEF TypeOK, TodoInv
    <3>12. todo' = <<a, r, w>> \o todo
      BY <3>4, <3>7, <3>8, <3>9
    <3>13. \A d \in Range(todo) : Rank(w) < Rank(d)
      BY <3>9, <3>11, SMT
    <3>14. todo' \in Seq(Call) /\ Ordered(todo') /\ Range(todo') = Range(todo) \cup {a, r, w}
      BY <3>7, <3>8, <3>9, <3>11, <3>12, <3>13, ThreeCalls, SMTT(30)
    <3> QED
      BY <3>10, <3>11, <3>14 DEF TodoInv, Pending
  <2> QED
    BY <1>5, <2>1, <2>2
<1>8. TypeOK'
  BY <1>4, <1>6, <1>7 DEF TypeOK
<1>9. CpuInv' /\ ReadyQueueExact'
  BY <1>4, CpuKept, QueueKept DEF cpuVars
<1>10. WaitListsExact'
  BY <1>4, <1>7, WaitKept DEF WaitListsExact
<1> QED
  BY <1>7, <1>8, <1>9, <1>10

(* The next mutex that an exiting thread gives up, or the end.             *)
LEMMA ReleaseNextKept ==
    IInv /\ ReleaseNext => IInv'
<1> SUFFICES ASSUME IInv, ReleaseNext PROVE IInv'
  OBVIOUS
<1> USE DEF IInv
<1> DEFINE h == Head(todo)
<1>1. todo # <<>> /\ h.op = "release" /\ Rank(h) = 5
  BY RankOf DEF ReleaseNext, Doing
<1>2. h \in Call /\ h.thread \in Thread /\ h.mutexes \in SUBSET Mutex
  BY <1>1, ThenNothing, CallFields
<1>3. PICK t \in Thread : t = h.thread
  BY <1>2
<1>4. /\ UNCHANGED <<status, nominal_priority, current_priority, wait_objects, wait_address,
                     wakeup_callback, thread_list, queues, linked, current_thread>>
      /\ UNCHANGED <<wakeup_events, timer_events, waiting_threads, priority, signaled,
                     interval, available_count, created, arbiter_threads, memory, phase,
                     reschedule_pending>>
  BY DEF ReleaseNext, queueVars, eventVars, objectVars, arbiterVars, cpuVars
<1>5. /\ lock_count' \in [Mutex -> Nat] /\ holding_thread' \in [Mutex -> Thread \cup {NULL}]
      /\ held_mutexes' \in [Thread -> SUBSET Mutex]
  <2>1. CASE \E m \in h.mutexes : /\ lock_count' = [lock_count EXCEPT ![m] = 0]
                                  /\ holding_thread' = [holding_thread EXCEPT ![m] = NULL]
                                  /\ UNCHANGED held_mutexes
    <3>1. PICK m \in Mutex : /\ lock_count' = [lock_count EXCEPT ![m] = 0]
                             /\ holding_thread' = [holding_thread EXCEPT ![m] = NULL]
                             /\ UNCHANGED held_mutexes
      BY <1>2, <2>1
    <3>2. lock_count' \in [Mutex -> Nat]
      BY <3>1 DEF TypeOK
    <3>3. holding_thread' \in [Mutex -> Thread \cup {NULL}]
      BY <3>1 DEF TypeOK
    <3> QED
      BY <3>1, <3>2, <3>3 DEF TypeOK
  <2>2. CASE /\ held_mutexes' = [held_mutexes EXCEPT ![t] = {}]
             /\ UNCHANGED <<lock_count, holding_thread>>
    BY <2>2 DEF TypeOK
  <2> QED
    BY <1>3, <2>1, <2>2 DEF ReleaseNext
<1>6. /\ todo' \in Seq(Call) /\ TodoInv'
      /\ \A u \in Thread : Pending(RemoveWaitingThreadEach(u)) =>
                               RemoveWaitingThreadEach(u) \in Range(todo')
  <2>1. CASE Then(<<>>)
    <3>1. todo' = Tail(todo)
      BY <1>1, <2>1, ThenNothing DEF Then
    <3> QED
      BY <1>1, <3>1, TodoPop, SMT
  <2>2. CASE \E m \in h.mutexes :
                 Then(<<WakeupAllWaitingThreads(m), ReleaseThreadMutexes(t, h.mutexes \ {m})>>)
    <3>1. PICK m \in h.mutexes :
              Then(<<WakeupAllWaitingThreads(m), ReleaseThreadMutexes(t, h.mutexes \ {m})>>)
      BY <2>2
    <3>2. m \in WaitObject /\ h.mutexes \ {m} \in SUBSET Mutex
      BY <1>2 DEF WaitObject
    <3>3. PICK w \in Call : w = WakeupAllWaitingThreads(m) /\ w.op = "wakeup" /\ Rank(w) = 4
      BY <3>2, CallTypes
    <3>4. PICK r \in Call : /\ r = ReleaseThreadMutexes(t, h.mutexes \ {m})
                            /\ r.op = "release" /\ Rank(r) = 5
      BY <3>2, CallTypes
    <3>5. CallSound(w)' /\ CallSound(r)'
      BY <3>3, <3>4 DEF CallSound
    <3>6. todo' = <<w, r>> \o Tail(todo)
      BY <3>1, <3>3, <3>4 DEF Then
    <3>7. Rank(w) < Rank(r) /\ Rank(r) <= Rank(h) /\ Rank(h) >= 2 /\ h.op # "remove"
      BY <1>1, <3>3, <3>4, SMT
    <3> QED
      BY <1>1, <3>5, <3>6, <3>7, TodoReplaceTwo
  <2> QED
    BY <1>3, <2>1, <2>2 DEF ReleaseNext
<1>7. TypeOK'
  BY <1>4, <1>5, <1>6 DEF TypeOK
<1>8. CpuInv' /\ ReadyQueueExact'
  BY <1>4, CpuKept, QueueKept DEF cpuVars
<1>9. WaitListsExact'
  BY <1>4, <1>6, WaitKept DEF WaitListsExact
<1> QED
  BY <1>6, <1>7, <1>8, <1>9
-----------------------------------------------------------------------------
(* A thread that becomes ready is put at the end of its level.             *)
LEMMA ReadyPush ==
    ASSUME TypeOK, ReadyQueueExact, NEW t \in Thread, NEW p \in Priority,
           status[t] # "Ready", queues' = PushBack(queues, p, t),
           status' = [status EXCEPT ![t] = "Ready"],
           current_priority' = [current_priority EXCEPT ![t] = p],
           linked' = linked \cup {p}
    PROVE  /\ status' \in [Thread -> Status] /\ current_priority' \in [Thread -> Priority]
           /\ queues' \in [Priority -> Seq(Thread)] /\ linked' \subseteq Priority
           /\ ReadyQueueExact'
<1> DEFINE cp2 == [current_priority EXCEPT ![t] = p]
<1>1. /\ queues \in Queues /\ current_priority \in [Thread -> Priority]
      /\ linked \subseteq Priority
  BY DEF TypeOK, Queues
<1>2. /\ cp2 \in [Thread -> Priority] /\ cp2[t] = p
      /\ \A u \in Thread \ {t} : cp2[u] = current_priority[u]
  BY <1>1
<1>3. /\ status' \in [Thread -> Status] /\ status'[t] = "Ready"
      /\ \A u \in Thread \ {t} : status'[u] = status[u]
  BY DEF TypeOK, Status
<1>4. Matches(queues, ReadyThreads, current_priority)
  BY QueueMatches
<1>5. t \notin ReadyThreads /\ ReadyThreads \subseteq Thread
  BY DEF ReadyThreads
<1> HIDE DEF cp2
<1>6. queues' \in Queues /\ Matches(queues', ReadyThreads \cup {t}, cp2)
  BY <1>1, <1>2, <1>4, <1>5, PushMatches
<1>7. current_priority' = cp2
  BY DEF cp2
<1>8. ReadyQueueExact'
  <2>1. \A l \in Priority : IsInjective(queues'[l])
    BY <1>6 DEF Matches
  <2>2. \A l \in Priority, u \in Thread :
            u \in Range(queues'[l]) <=> status'[u] = "Ready" /\ cp2[u] = l
    BY <1>3, <1>6, SMTT(20) DEF Matches, ReadyThreads
  <2>3. \A u \in Thread : status'[u] # "Dormant" => cp2[u] \in linked'
    BY <1>2, <1>3 DEF ReadyQueueExact
  <2> QED
    BY <1>7, <2>1, <2>2, <2>3 DEF ReadyQueueExact
<1> QED
  BY <1>1, <1>2, <1>3, <1>6, <1>7, <1>8 DEF Queues

(* A reschedule is asked for when a thread becomes ready.                  *)
LEMMA CpuReady ==
    ASSUME TypeOK, CpuInv, NEW t \in Thread, status[t] # "Running",
           status' = [status EXCEPT ![t] = "Ready"],
           UNCHANGED current_thread, PrepareReschedule
    PROVE  /\ CpuInv'
           /\ phase' \in {"advance", "run", "resched"} /\ reschedule_pending' \in BOOLEAN
<1>1. /\ status'[t] = "Ready" /\ \A u \in Thread \ {t} : status'[u] = status[u]
  BY DEF TypeOK
<1>2. /\ reschedule_pending' = TRUE /\ phase' = IF phase = "run" THEN "resched" ELSE phase
      /\ phase \in {"advance", "run", "resched"} /\ current_thread \in Thread \cup {NULL}
  BY DEF PrepareReschedule, TypeOK
<1> QED
  BY <1>1, <1>2 DEF CpuInv

(* And when the current thread stops running.                              *)
LEMMA CpuYield ==
    ASSUME TypeOK, CpuInv, phase = "run", NEW v, v # "Running",
           status' = [status EXCEPT ![current_thread] = v],
           UNCHANGED current_thread, PrepareReschedule
    PROVE  /\ CpuInv' /\ current_thread \in Thread /\ status[current_thread] = "Running"
           /\ phase' = "resched" /\ reschedule_pending' = TRUE
<1>1. current_thread \in Thread /\ status[current_thread] = "Running"
  BY DEF TypeOK, CpuInv
<1>2. reschedule_pending' = TRUE /\ phase' = "resched"
  BY DEF PrepareReschedule
<1>3. status'[current_thread] = v /\ \A u \in Thread \ {current_thread} : status'[u] = status[u]
  BY <1>1 DEF TypeOK
<1> QED
  BY <1>1, <1>2, <1>3 DEF CpuInv

(* Thread::ResumeFromWait.                                                 *)
LEMMA ResumeKept ==
    IInv /\ Resume => IInv'
<1> SUFFICES ASSUME IInv, Resume PROVE IInv'
  OBVIOUS
<1> USE DEF IInv
<1> DEFINE h == Head(todo)
<1>1. todo # <<>> /\ h.op = "resume" /\ Rank(h) = 3
  BY RankOf DEF Resume, Doing
<1>2. h \in Call /\ h.thread \in Thread
  BY <1>1, ThenNothing, CallFields
<1>3. PICK t \in Thread : t = h.thread
  BY <1>2
<1>4. /\ UNCHANGED <<nominal_priority, current_priority, held_mutexes, wait_objects,
                     wait_address, thread_list, linked, current_thread>>
      /\ UNCHANGED <<wakeup_events, timer_events, waiting_threads, lock_count,
                     holding_thread, priority, signaled, interval, available_count, created,
                     arbiter_threads, memory>>
  BY DEF Resume, eventVars, syncVars, mutexVars, objectVars, arbiterVars
<1>5. wait_objects[t] = <<>>
  BY <1>3 DEF Resume, ResumeAssert
<1>6. todo' = Tail(todo)
  BY <1>1, ThenNothing DEF Resume, Then
<1>7. /\ todo' \in Seq(Call) /\ TodoInv'
      /\ \A u \in Thread : Pending(RemoveWaitingThreadEach(u)) =>
                               RemoveWaitingThreadEach(u) \in Range(todo')
  BY <1>1, <1>6, TodoPop, SMTT(30)
<1>8. CASE UNCHANGED <<wakeup_callback, queues, status, cpuVars>>
  <2>1. UNCHANGED <<phase, reschedule_pending>>
    BY <1>8 DEF cpuVars
  <2>2. TypeOK'
    BY <1>4, <1>7, <1>8, <2>1 DEF TypeOK
  <2>3. CpuInv' /\ ReadyQueueExact'
    BY <1>4, <1>8, CpuKept, QueueKept, SMT
  <2>4. WaitListsExact'
    BY <1>4, <1>7, <1>8, WaitKept DEF WaitListsExact
  <2> QED
    BY <1>7, <2>2, <2>3, <2>4
<1>9. CASE /\ status[t] \in WaitStatus
           /\ wakeup_callback' = [wakeup_callback EXCEPT ![t] = NULL]
           /\ queues' = PushBack(queues, current_priority[t], t)
           /\ status' = [status EXCEPT ![t] = "Ready"]
           /\ PrepareReschedule
  <2>1. status[t] # "Ready" /\ status[t] # "Running" /\ status[t] # "Dormant"
    BY <1>9 DEF WaitStatus, SynchStatus
  <2>2. PICK p \in Priority : p = current_priority[t]
    BY DEF TypeOK
  <2>3. /\ current_priority' = [current_priority EXCEPT ![t] = p]
        /\ linked' = linked \cup {p} /\ queues' = PushBack(queues, p, t)
    BY <1>4, <1>9, <2>1, <2>2, SMTT(30) DEF TypeOK, ReadyQueueExact
  <2>4. /\ status' \in [Thread -> Status] /\ current_priority' \in [Thread -> Priority]
        /\ queues' \in [Priority -> Seq(Thread)] /\ linked' \subseteq Priority
        /\ ReadyQueueExact'
    BY <1>9, <2>1, <2>3, ReadyPush
  <2>5. CpuInv' /\ phase' \in {"advance", "run", "resched"} /\ reschedule_pending' \in BOOLEAN
    BY <1>4, <1>9, <2>1, CpuReady
  <2>6. wakeup_callback' \in [Thread -> {NULL, "synch", "arbiter"}]
    BY <1>9 DEF TypeOK
  <2>7. TypeOK'
    BY <1>4, <1>7, <2>4, <2>5, <2>6 DEF TypeOK
  <2>8. \A u \in Thread : wait_objects[u] # <<>> => status'[u] \in SynchStatus
    BY <1>5, <1>9 DEF WaitListsExact, TypeOK
  <2>9. WaitListsExact'
    BY <1>4, <1>7, <2>8, WaitKept
  <2> QED
    BY <1>7, <2>4, <2>5, <2>7, <2>9, SMT
<1> QED
  BY <1>3, <1>8, <1>9 DEF Resume
-----------------------------------------------------------------------------
(* The next thread the arbiter resumes, or the end.                        *)
LEMMA ResumeNextKept ==
    IInv /\ ResumeNext => IInv'
<1> SUFFICES ASSUME IInv, ResumeNext PROVE IInv'
  OBVIOUS
<1> USE DEF IInv
<1> DEFINE h == Head(todo)
<1>1. todo # <<>> /\ h.op = "arbiter" /\ Rank(h) = 4
  BY RankOf DEF ResumeNext, Doing
<1>2. h \in Call /\ h.address \in Address /\ h.count \in Int
  BY <1>1, ThenNothing, CallFields
<1>3. PICK a \in Address : a = h.address
  BY <1>2
<1>4. PICK n \in Int : n = h.count
  BY <1>2
<1> DEFINE list == arbiter_threads[a]
           k == IF n < 0 THEN n ELSE n - 1
<1>5. \/ \E i \in DOMAIN list :
            /\ arbiter_threads' = [arbiter_threads EXCEPT ![a] = RemoveFirst(@, list[i])]
            /\ Then(<<ResumeFromWait(list[i]), ResumeHighest(a, k)>>)
      \/ Then(<<>>) /\ UNCHANGED arbiter_threads
  BY <1>3, <1>4 DEF ResumeNext
<1>6. /\ UNCHANGED schedVars /\ UNCHANGED cpuVars
      /\ UNCHANGED <<wakeup_events, timer_events, waiting_threads, lock_count,
                     holding_thread, priority, signaled, interval, available_count, created,
                     memory>>
  BY DEF ResumeNext, eventVars, mutexVars, objectVars
<1>7. arbiter_threads' \in [Address -> Seq(Thread)] /\ TodoOK
  <2>1. CASE Then(<<>>) /\ UNCHANGED arbiter_threads
    <3>1. todo' = Tail(todo)
      BY <1>1, <2>1, ThenNothing DEF Then
    <3>2. TodoOK
      BY <1>1, <3>1, TodoPop, SMT DEF TodoOK
    <3> QED
      BY <2>1, <3>2 DEF TypeOK
  <2>2. CASE \E i \in DOMAIN list :
            /\ arbiter_threads' = [arbiter_threads EXCEPT ![a] = RemoveFirst(@, list[i])]
            /\ Then(<<ResumeFromWait(list[i]), ResumeHighest(a, k)>>)
    <3>1. PICK i \in DOMAIN list :
            /\ arbiter_threads' = [arbiter_threads EXCEPT ![a] = RemoveFirst(@, list[i])]
            /\ Then(<<ResumeFromWait(list[i]), ResumeHighest(a, k)>>)
      BY <2>2
    <3>2. list \in Seq(Thread) /\ list[i] \in Thread
      BY SMTT(20) DEF TypeOK
    <3>3. RemoveFirst(list, list[i]) \in Seq(Thread)
      BY <3>2, RemoveFirstRange
    <3>4. arbiter_threads' \in [Address -> Seq(Thread)]
      BY <3>1, <3>3 DEF TypeOK
    <3>5. PICK t \in Thread : t = list[i]
      BY <3>2
    <3>6. PICK c \in Call : c = ResumeFromWait(t) /\ c.op = "resume" /\ Rank(c) = 3
      BY CallTypes
    <3>7. k \in Int
      BY SMTT(30)
    <3>8. PICK d \in Call : d = ResumeHighest(a, k) /\ d.op = "arbiter" /\ Rank(d) = 4
      BY <3>7, CallTypes, SMT
    <3>9. CallSound(c)' /\ CallSound(d)'
      BY <3>6, <3>8 DEF CallSound
    <3>10. todo' = <<c, d>> \o Tail(todo)
      BY <3>1, <3>5, <3>6, <3>8 DEF Then
    <3>11. Rank(c) < Rank(d) /\ Rank(d) <= Rank(h) /\ Rank(h) >= 2 /\ h.op # "remove"
      BY <1>1, <3>6, <3>8, SMT
    <3>12. TodoOK
      BY <1>1, <3>9, <3>10, <3>11, TodoReplaceTwo DEF TodoOK
    <3> QED
      BY <3>4, <3>12
  <2> QED
    BY <1>5, <2>1, <2>2
<1>8. RestOK'
  BY <1>6, <1>7 DEF RestOK, TypeOK
<1> QED
  BY <1>6, <1>7, <1>8, QuietKept

(* What remains of a routine: one step of it.                              *)
LEMMA ContinueKept ==
    ASSUME LeastPriority, IInv, Continue
    PROVE  IInv'
  BY WakeupNextKept, AcquireNextKept, AddNextKept, RemoveNextKept, ReleaseNextKept,
     UpdateNextKept, ResumeKept, ResumeNextKept, SMT DEF Continue
-----------------------------------------------------------------------------
(* The routines that wake up the threads of an object, or do not.          *)
LEMMA WakeupStart ==
    ASSUME Idle, NEW o \in WaitObject,
           todo' = <<WakeupAllWaitingThreads(o)>> \/ todo' = <<>>
    PROVE  TodoOK
<1>1. PICK c \in Call : c = WakeupAllWaitingThreads(o) /\ c.op = "wakeup"
  BY CallTypes
<1>2. CallSound(c)'
  BY <1>1 DEF CallSound
<1> QED
  BY <1>1, <1>2, TodoStart DEF TodoOK

(* The routines that acquire objects for a thread, or do not.              *)
LEMMA AcquireStart ==
    ASSUME Idle, NEW t \in Thread, NEW objs \in Seq(WaitObject), objs # <<>>,
           todo' = <<AcquireEach(t, objs)>> \/ todo' = <<>>
    PROVE  TodoOK
<1>1. PICK c \in Call : c = AcquireEach(t, objs) /\ c.op = "acquire" /\ c.objects = objs
  BY CallTypes
<1>2. CallSound(c)'
  BY <1>1 DEF CallSound
<1> QED
  BY <1>1, <1>2, TodoStart DEF TodoOK

(* A step outside the routines, in the same words.                         *)
LEMMA NothingToDo ==
    ASSUME TypeOK, Idle, UNCHANGED todo
    PROVE  TodoOK
  BY TodoKept DEF TodoOK

(* Events, timers and semaphores; creating any object; the guest's words.  *)
LEMMA ObjectCallsKept ==
    ASSUME IInv
    PROVE  /\ \A e \in Event : CreateEvent(e) \/ ClearEvent(e) \/ Signal(e) => IInv'
           /\ \A tm \in Timer : CreateTimer(tm) \/ ClearTimer(tm) \/ CancelTimer(tm) => IInv'
           /\ \A tm \in Timer : TimerCallback(tm) => IInv'
           /\ \A tm \in Timer, now, periodic \in BOOLEAN : SetTimer(tm, now, periodic) => IInv'
           /\ \A s \in Semaphore, n \in ReleaseCounts :
                 ReleaseSemaphore(s, n) \/ CreateSemaphore(s, n) => IInv'
           /\ \A a \in Address, v \in Values : Store(a, v) => IInv'
           /\ \A a \in Address, n \in SignalCounts : ArbitrateAddressSignal(a, n) => IInv'
<1> USE DEF IInv
<1>0. RestOK
  BY DEF RestOK, TypeOK
<1>1. Event \cup Timer \cup Semaphore \cup Mutex \subseteq WaitObject
  BY DEF WaitObject
<1> DEFINE Quiet == UNCHANGED schedVars /\ UNCHANGED waiting_threads
                    /\ (UNCHANGED cpuVars \/ PrepareReschedule)
<1>2. Quiet /\ RestOK' /\ TodoOK => IInv'
  BY QuietKept
<1> USE DEF eventVars, mutexVars, objectVars, arbiterVars, syncVars
<1>3. ASSUME NEW o \in Event \cup Timer, CreateSignal(o)
      PROVE  IInv'
  <2>1. RestOK'
    BY <1>0, <1>1, <1>3 DEF CreateSignal, RestOK
  <2>2. Quiet /\ TodoOK
    BY <1>3, NothingToDo DEF CreateSignal, Guest
  <2> QED
    BY <1>2, <2>1, <2>2
<1>4. ASSUME NEW o \in Event \cup Timer, Clear(o)
      PROVE  IInv'
  <2>1. signaled' \in [Event \cup Timer -> BOOLEAN]
    <3>1. signaled \in [Event \cup Timer -> BOOLEAN] /\ signaled' = [signaled EXCEPT ![o] = FALSE]
      BY <1>0, <1>4 DEF Clear, RestOK
    <3> QED
      BY <3>1
  <2>2. RestOK'
    BY <1>0, <1>4, <2>1 DEF Clear, RestOK
  <2>3. Quiet /\ TodoOK
    BY <1>4, NothingToDo DEF Clear, Guest
  <2> QED
    BY <1>2, <2>2, <2>3
<1>5. ASSUME NEW e \in Event, Signal(e)
      PROVE  IInv'
  <2>1. signaled' \in [Event \cup Timer -> BOOLEAN]
    <3>1. signaled \in [Event \cup Timer -> BOOLEAN] /\ signaled' = [signaled EXCEPT ![e] = TRUE]
      BY <1>0, <1>5 DEF Signal, RestOK
    <3> QED
      BY <3>1
  <2>2. RestOK'
    BY <1>0, <1>5, <2>1 DEF Signal, RestOK
  <2>3. Quiet /\ TodoOK
    BY <1>1, <1>5, WakeupStart DEF Signal
  <2> QED
    BY <1>2, <2>2, <2>3
<1>6. ASSUME NEW tm \in Timer, CancelTimer(tm)
      PROVE  IInv'
  <2>1. RestOK'
    BY <1>0, <1>6 DEF CancelTimer, RestOK
  <2>2. Quiet /\ TodoOK
    BY <1>6, NothingToDo DEF CancelTimer, Guest
  <2> QED
    BY <1>2, <2>1, <2>2
<1>7. ASSUME NEW tm \in Timer, TimerCallback(tm)
      PROVE  IInv'
  <2>1. signaled' \in [Event \cup Timer -> BOOLEAN]
    <3>1. signaled \in [Event \cup Timer -> BOOLEAN] /\ signaled' = [signaled EXCEPT ![tm] = TRUE]
      BY <1>0, <1>7 DEF TimerCallback, RestOK
    <3> QED
      BY <3>1
  <2>2. timer_events' \in [Timer -> Nat]
    <3>1. timer_events \in [Timer -> Nat] /\ timer_events[tm] > 0
      BY <1>0, <1>7 DEF TimerCallback, RestOK
    <3>2. \/ timer_events' = [timer_events EXCEPT ![tm] = timer_events[tm]]
          \/ timer_events' = [timer_events EXCEPT ![tm] = timer_events[tm] - 1]
      BY <1>7, <3>1 DEF TimerCallback
    <3> QED
      BY <3>1, <3>2, SMT
  <2>3. RestOK'
    BY <1>0, <1>7, <2>1, <2>2 DEF TimerCallback, RestOK
  <2>4. Quiet /\ TodoOK
    BY <1>1, <1>7, WakeupStart DEF TimerCallback
  <2> QED
    BY <1>2, <2>3, <2>4
<1>8. ASSUME NEW tm \in Timer, NEW now \in BOOLEAN, NEW periodic \in BOOLEAN,
             SetTimer(tm, now, periodic)
      PROVE  IInv'
  <2>1. signaled' \in [Event \cup Timer -> BOOLEAN]
    <3>1. signaled \in [Event \cup Timer -> BOOLEAN]
      BY <1>0 DEF RestOK
    <3>2. signaled' = [signaled EXCEPT ![tm] = TRUE] \/ signaled' = signaled
      BY <1>8 DEF SetTimer
    <3> QED
      BY <3>1, <3>2
  <2>2. interval' \in [Timer -> BOOLEAN]
    <3>1. interval \in [Timer -> BOOLEAN] /\ interval' = [interval EXCEPT ![tm] = periodic]
      BY <1>0, <1>8 DEF SetTimer, RestOK
    <3> QED
      BY <3>1
  <2>3. timer_events' \in [Timer -> Nat]
    BY <1>0, <1>8 DEF SetTimer, RestOK
  <2>4. RestOK'
    BY <1>0, <1>8, <2>1, <2>2, <2>3 DEF SetTimer, RestOK
  <2>5. Quiet /\ TodoOK
    BY <1>1, <1>8, WakeupStart DEF SetTimer, Guest
  <2> QED
    BY <1>2, <2>4, <2>5
<1>9. ASSUME NEW s \in Semaphore, NEW n \in ReleaseCounts, ReleaseSemaphore(s, n)
      PROVE  IInv'
  <2>1. RestOK'
    BY <1>0, <1>9, KernelAssumption, SMTT(30) DEF ReleaseSemaphore, RestOK
  <2>2. Quiet /\ TodoOK
    BY <1>1, <1>9, WakeupStart DEF ReleaseSemaphore, Guest
  <2> QED
    BY <1>2, <2>1, <2>2
<1>10. ASSUME NEW s \in Semaphore, NEW n \in ReleaseCounts, CreateSemaphore(s, n)
       PROVE  IInv'
  <2>1. RestOK'
    BY <1>0, <1>1, <1>10, KernelAssumption, SMT DEF CreateSemaphore, RestOK
  <2>2. Quiet /\ TodoOK
    BY <1>10, NothingToDo DEF CreateSemaphore, Guest
  <2> QED
    BY <1>2, <2>1, <2>2
<1>11. ASSUME NEW a \in Address, NEW v \in Values, Store(a, v)
       PROVE  IInv'
  <2>1. RestOK'
    BY <1>0, <1>11, KernelAssumption DEF Store, RestOK
  <2>2. Quiet /\ TodoOK
    BY <1>11, NothingToDo DEF Store, Guest
  <2> QED
    BY <1>2, <2>1, <2>2
<1>12. ASSUME NEW a \in Address, NEW n \in SignalCounts, ArbitrateAddressSignal(a, n)
       PROVE  IInv'
  <2>1. RestOK'
    BY <1>0, <1>12 DEF ArbitrateAddressSignal, ArbitrateSignal, RestOK
  <2>2. n \in Int
    BY KernelAssumption
  <2>3. PICK c \in Call : c = ResumeHighest(a, n) /\ c.op = "arbiter"
    BY <2>2, CallTypes
  <2>4. CallSound(c)'
    BY <2>3 DEF CallSound
  <2>5. Quiet /\ TodoOK
    BY <1>12, <2>3, <2>4, TodoStart DEF ArbitrateAddressSignal, ArbitrateSignal, Guest, TodoOK
  <2> QED
    BY <1>2, <2>1, <2>5
<1> QED
  BY <1>3, <1>4, <1>5, <1>6, <1>7, <1>8, <1>9, <1>10, <1>11, <1>12, SMTT(30) DEF CreateEvent,
     ClearEvent, CreateTimer, ClearTimer

(* The current thread stops running: it sleeps, waits or exits.            *)
LEMMA YieldKept ==
    ASSUME IInv, phase = "run", NEW v \in Status, v \notin {"Running", "Ready", "Dormant"},
           status' = [status EXCEPT ![current_thread] = v],
           UNCHANGED <<nominal_priority, current_priority, held_mutexes, wait_objects,
                       queues, linked, current_thread, waiting_threads>>,
           PrepareReschedule, RestOK', TodoOK,
           wait_address' \in [Thread -> Address \cup {NULL}],
           wakeup_callback' \in [Thread -> {NULL, "synch", "arbiter"}],
           thread_list' \in Seq(Thread)
    PROVE  IInv'
<1> USE DEF IInv
<1>1. /\ CpuInv' /\ current_thread \in Thread /\ status[current_thread] = "Running"
      /\ phase' = "resched" /\ reschedule_pending' = TRUE
  BY CpuYield
<1>2. /\ status' \in [Thread -> Status] /\ status'[current_thread] = v
      /\ \A u \in Thread \ {current_thread} : status'[u] = status[u]
  BY <1>1 DEF TypeOK
<1>3. ReadyQueueExact'
  BY <1>1, <1>2, SMT DEF ReadyQueueExact
<1>4. \A u \in Thread : wait_objects[u] # <<>> => status'[u] \in SynchStatus
  BY <1>1, <1>2 DEF WaitListsExact, SynchStatus
<1>5. WaitListsExact'
  BY <1>4, WaitKept DEF TodoOK
<1>6. TypeOK'
  BY <1>1, <1>2 DEF TypeOK, RestOK, TodoOK
<1> QED
  BY <1>1, <1>3, <1>5, <1>6 DEF TodoOK

(* Thread::WakeAfterDelay.                                                 *)
LEMMA WakeAfterDelayType ==
    ASSUME IInv, phase = "run", NEW delay, WakeAfterDelay(current_thread, delay)
    PROVE  wakeup_events' \in [Thread -> Nat]
<1>1. current_thread \in Thread /\ wakeup_events \in [Thread -> Nat]
  BY DEF IInv, CpuInv, TypeOK
<1> QED
  BY <1>1, SMT DEF WakeAfterDelay

(* svcSleepThread.                                                         *)
LEMMA SleepThreadKept ==
    ASSUME IInv, NEW delay, SleepThread(delay)
    PROVE  IInv'
<1> USE DEF IInv
<1>1. /\ Idle /\ phase = "run" /\ PrepareReschedule
      /\ status' = [status EXCEPT ![current_thread] = "WaitSleep"]
      /\ UNCHANGED <<nominal_priority, current_priority, held_mutexes, wait_objects,
                     wait_address, wakeup_callback, thread_list, queues, linked,
                     current_thread>>
      /\ UNCHANGED <<timer_events, waiting_threads, lock_count, holding_thread, priority,
                     signaled, interval, available_count, created, arbiter_threads, memory>>
      /\ UNCHANGED todo
  BY DEF SleepThread, Guest, queueVars, syncVars, mutexVars, objectVars, arbiterVars
<1>2. wakeup_events' \in [Thread -> Nat]
  BY <1>1, WakeAfterDelayType DEF SleepThread
<1>3. RestOK'
  BY <1>1, <1>2 DEF RestOK, TypeOK
<1>4. TodoOK
  BY <1>1, NothingToDo
<1>5. "WaitSleep" \in Status /\ "WaitSleep" \notin {"Running", "Ready", "Dormant"}
  BY DEF Status, WaitStatus
<1>6. /\ wait_address' \in [Thread -> Address \cup {NULL}]
      /\ wakeup_callback' \in [Thread -> {NULL, "synch", "arbiter"}]
      /\ thread_list' \in Seq(Thread)
  BY <1>1 DEF TypeOK
<1> QED
  BY <1>1, <1>3, <1>4, <1>5, <1>6, YieldKept

(* A synchronization wait that acquires at once.                           *)
LEMMA AcquireNowKept ==
    ASSUME IInv, Guest, NEW objs \in Seq(WaitObject), objs # <<>>, AcquireNow(objs)
    PROVE  IInv'
<1> USE DEF IInv
<1>1. current_thread \in Thread /\ Idle
  BY DEF Guest, CpuInv, TypeOK
<1>2. TodoOK
  BY <1>1, AcquireStart DEF AcquireNow
<1>3. RestOK'
  BY DEF AcquireNow, eventVars, syncVars, mutexVars, objectVars, arbiterVars, RestOK, TypeOK
<1> QED
  BY <1>2, <1>3, QuietKept DEF AcquireNow, syncVars

(* A synchronization wait that suspends the thread.                        *)
LEMMA SuspendKept ==
    ASSUME IInv, Guest, NEW how \in SynchStatus, NEW objs \in Seq(WaitObject), NEW delay,
           Suspend(how, objs, delay)
    PROVE  IInv'
<1> USE DEF IInv
<1>1. /\ Idle /\ phase = "run" /\ PrepareReschedule
      /\ status' = [status EXCEPT ![current_thread] = how]
      /\ UNCHANGED <<nominal_priority, current_priority, held_mutexes, wait_objects,
                     wait_address, thread_list, queues, linked, current_thread>>
      /\ UNCHANGED <<timer_events, waiting_threads, lock_count, holding_thread, priority,
                     signaled, interval, available_count, created, arbiter_threads, memory>>
  BY DEF Suspend, Guest, queueVars, syncVars, mutexVars, objectVars, arbiterVars
<1>2. wakeup_events' \in [Thread -> Nat]
  BY <1>1, WakeAfterDelayType DEF Suspend
<1>3. RestOK'
  BY <1>1, <1>2 DEF RestOK, TypeOK
<1>4. how \in Status /\ how \notin {"Running", "Ready", "Dormant"}
  BY DEF Status, WaitStatus, SynchStatus
<1>5. /\ wait_address' \in [Thread -> Address \cup {NULL}]
      /\ wakeup_callback' \in [Thread -> {NULL, "synch", "arbiter"}]
      /\ thread_list' \in Seq(Thread)
  BY <1>1 DEF Suspend, TypeOK
<1>6. PICK t \in Thread : t = current_thread
  BY <1>1 DEF CpuInv, TypeOK
<1>7. TodoOK
  <2>1. CASE objs = <<>>
    <3>1. UNCHANGED todo
      BY <1>1, <2>1 DEF Suspend, Idle
    <3> QED
      BY <1>1, <3>1, NothingToDo
  <2>2. CASE objs # <<>>
    <3>1. PICK c \in Call : /\ c = AddWaitingThreadEach(t, objs) /\ c.op = "add"
                            /\ c.thread = t /\ c.objects = objs
      BY CallTypes
    <3>2. status'[t] = how
      BY <1>1, <1>6 DEF TypeOK
    <3>3. CallSound(c)'
      BY <2>2, <3>1, <3>2 DEF CallSound
    <3>4. todo' = <<c>>
      BY <1>6, <2>2, <3>1 DEF Suspend
    <3> QED
      BY <1>1, <3>3, <3>4, TodoStart DEF TodoOK
  <2> QED
    BY <2>1, <2>2
<1> QED
  BY <1>1, <1>3, <1>4, <1>5, <1>7, YieldKept

(* svcWaitSynchronization1 and svcWaitSynchronizationN.                    *)
LEMMA WaitsKept ==
    ASSUME IInv, NEW objs \in Seq(WaitObject), NEW delay,
           WaitSynchronizationAny(objs, delay) \/ WaitSynchronizationAll(objs, delay)
    PROVE  IInv'
<1>1. "WaitSynchAny" \in SynchStatus /\ "WaitSynchAll" \in SynchStatus
  BY DEF SynchStatus
<1>2. CASE WaitSynchronizationAny(objs, delay)
  <2>1. CASE \E i \in DOMAIN objs : AcquireNow(<<objs[i]>>)
    <3>1. PICK i \in DOMAIN objs : AcquireNow(<<objs[i]>>)
      BY <2>1
    <3>2. <<objs[i]>> \in Seq(WaitObject) /\ <<objs[i]>> # <<>>
      BY SMT
    <3> QED
      BY <1>2, <3>1, <3>2, AcquireNowKept DEF WaitSynchronizationAny
  <2>2. CASE Suspend("WaitSynchAny", objs, delay)
    BY <1>1, <1>2, <2>2, SuspendKept DEF WaitSynchronizationAny
  <2> QED
    BY <1>2, <2>1, <2>2 DEF WaitSynchronizationAny
<1>3. CASE WaitSynchronizationAll(objs, delay)
  BY <1>1, <1>3, AcquireNowKept, SuspendKept DEF WaitSynchronizationAll
<1> QED
  BY <1>2, <1>3

(* svcCreateThread.                                                        *)
LEMMA CreateThreadKept ==
    ASSUME IInv, NEW t \in Thread, NEW p \in Priority, CreateThread(t, p)
    PROVE  IInv'
<1> USE DEF IInv
<1>1. /\ Idle /\ phase = "run" /\ PrepareReschedule
      /\ UNCHANGED <<held_mutexes, wait_objects, wait_address, wakeup_callback,
                     current_thread, wakeup_events, timer_events>>
      /\ UNCHANGED <<waiting_threads, lock_count, holding_thread, priority, signaled,
                     interval, available_count, created, arbiter_threads, memory, todo>>
  BY DEF CreateThread, Guest, eventVars, syncVars, mutexVars, objectVars, arbiterVars
<1>2. /\ status[t] = "Dormant" /\ thread_list' = Append(thread_list, t)
      /\ linked' = linked \cup {p}
      /\ nominal_priority' = [nominal_priority EXCEPT ![t] = p]
      /\ current_priority' = [current_priority EXCEPT ![t] = p]
      /\ queues' = PushBack(queues, p, t)
      /\ status' = [status EXCEPT ![t] = "Ready"]
  BY DEF CreateThread, Create
<1>3. /\ status' \in [Thread -> Status] /\ current_priority' \in [Thread -> Priority]
      /\ queues' \in [Priority -> Seq(Thread)] /\ linked' \subseteq Priority
      /\ ReadyQueueExact'
  BY <1>2, ReadyPush
<1>4. CpuInv' /\ phase' \in {"advance", "run", "resched"} /\ reschedule_pending' \in BOOLEAN
  BY <1>1, <1>2, CpuReady
<1>5. TodoOK
  BY <1>1, NothingToDo
<1>6. \A u \in Thread : wait_objects[u] # <<>> => status'[u] \in SynchStatus
  BY <1>2 DEF WaitListsExact, TypeOK, SynchStatus
<1>7. WaitListsExact'
  BY <1>1, <1>5, <1>6, WaitKept DEF TodoOK
<1>8. nominal_priority' \in [Thread -> Priority] /\ thread_list' \in Seq(Thread)
  BY <1>2, AppendRange, SMTT(30) DEF TypeOK
<1>9. TypeOK'
  BY <1>1, <1>3, <1>4, <1>5, <1>8 DEF TypeOK, TodoOK
<1> QED
  BY <1>3, <1>4, <1>5, <1>7, <1>9 DEF TodoOK

(* svcExitThread: the running thread is in no list, so its exit takes it   *)
(* out of none.                                                            *)
LEMMA ExitThreadKept ==
    ASSUME IInv, ExitThread
    PROVE  IInv'
<1> USE DEF IInv
<1>1. /\ Idle /\ phase = "run" /\ PrepareReschedule
      /\ thread_list' = RemoveFirst(thread_list, current_thread)
      /\ UNCHANGED <<nominal_priority, current_priority, held_mutexes, wait_objects,
                     wait_address, wakeup_callback, linked, current_thread, timer_events>>
      /\ UNCHANGED <<waiting_threads, lock_count, holding_thread, priority, signaled,
                     interval, available_count, created, arbiter_threads, memory>>
  BY DEF ExitThread, Guest, syncVars, mutexVars, objectVars, arbiterVars
<1>2. PICK t \in Thread : t = current_thread
  BY <1>1 DEF CpuInv, TypeOK
<1>3. status[t] = "Running" /\ wait_objects[t] = <<>>
  BY <1>1, <1>2 DEF CpuInv, WaitListsExact, SynchStatus
<1>4. /\ wakeup_events' = [wakeup_events EXCEPT ![t] = 0] /\ queues' = queues
      /\ status' = [status EXCEPT ![current_thread] = "Dead"]
      /\ todo' = <<WakeupAllWaitingThreads(t)>> \o <<>>
                     \o <<ReleaseThreadMutexes(t, held_mutexes[t])>> \o <<>>
  BY <1>2, <1>3 DEF ExitThread, Stop, LeaveWaitObjects
<1>5. TodoOK
  <2>1. t \in WaitObject /\ held_mutexes[t] \in SUBSET Mutex
    BY DEF WaitObject, TypeOK
  <2>2. PICK w \in Call : w = WakeupAllWaitingThreads(t) /\ w.op = "wakeup" /\ Rank(w) = 4
    BY <2>1, CallTypes
  <2>3. PICK r \in Call : /\ r = ReleaseThreadMutexes(t, held_mutexes[t])
                          /\ r.op = "release" /\ Rank(r) = 5
    BY <2>1, CallTypes
  <2>4. CallSound(w)' /\ CallSound(r)'
    BY <2>2, <2>3 DEF CallSound
  <2> DEFINE s == <<r>>
             x == <<w>> \o s
  <2>5. s \in Seq(Call) /\ Ordered(s) /\ Range(s) = {r}
    BY ShortOrdered
  <2> HIDE DEF s
  <2>6. x \in Seq(Call) /\ Ordered(x) /\ Range(x) = {r} \cup {w}
    BY <2>2, <2>3, <2>5, ConsCall, SMT
  <2>7. todo' = x
    <3>1. <<w>> \o <<>> = <<w>>
      BY ConcatNothing, SMT
    <3>2. x \o <<>> = x
      BY <2>6, ConcatNothing
    <3> QED
      BY <1>4, <2>2, <2>3, <3>1, <3>2 DEF s
  <2> HIDE DEF x
  <2>8. Range(todo) = {}
    BY <1>1, ShortOrdered DEF Idle
  <2> QED
    BY <2>4, <2>6, <2>7, <2>8 DEF TodoOK, TodoInv, Pending
<1>6. wakeup_events' \in [Thread -> Nat]
  BY <1>4 DEF TypeOK
<1>7. RestOK'
  BY <1>1, <1>6 DEF RestOK, TypeOK
<1>8. "Dead" \in Status /\ "Dead" \notin {"Running", "Ready", "Dormant"}
  BY DEF Status
<1>9. /\ wait_address' \in [Thread -> Address \cup {NULL}]
      /\ wakeup_callback' \in [Thread -> {NULL, "synch", "arbiter"}]
      /\ thread_list' \in Seq(Thread)
  BY <1>1, RemoveFirstRange DEF TypeOK
<1> QED
  BY <1>1, <1>4, <1>5, <1>7, <1>8, <1>9, YieldKept

(* svcSetThreadPriority.                                                   *)
LEMMA SetThreadPriorityKept ==
    ASSUME LeastPriority, IInv, NEW t \in Thread, NEW p \in Priority, SetThreadPriority(t, p)
    PROVE  IInv'
<1> USE DEF IInv
<1>1. /\ Idle /\ phase = "run" /\ PrepareReschedule
      /\ UNCHANGED <<status, held_mutexes, wait_objects, wait_address, wakeup_callback,
                     thread_list, current_thread, wakeup_events, timer_events>>
      /\ UNCHANGED <<waiting_threads, lock_count, holding_thread, priority, signaled,
                     interval, available_count, created, arbiter_threads, memory>>
  BY DEF SetThreadPriority, Guest, eventVars, syncVars, mutexVars, objectVars, arbiterVars
<1>2. held_mutexes[t] \in SUBSET Mutex /\ priority \in [Mutex -> Priority]
  BY DEF TypeOK
<1>3. PICK best \in Priority : best = Min({p} \cup {priority[m] : m \in held_mutexes[t]})
  BY <1>2, BestIsPriority
<1>4. /\ nominal_priority' = [nominal_priority EXCEPT ![t] = p]
      /\ current_priority' = [current_priority EXCEPT ![t] = best]
      /\ queues' = IF status[t] = "Ready"
                   THEN Move(Move(queues, t, current_priority[t], p), t, p, best)
                   ELSE queues
      /\ linked' = linked \cup {p, best}
  BY <1>3 DEF SetThreadPriority, SetPriority
<1>5. /\ queues \in Queues /\ current_priority \in [Thread -> Priority]
      /\ Matches(queues, ReadyThreads, current_priority)
  BY QueueMatches DEF TypeOK, Queues
<1> DEFINE cp1 == [current_priority EXCEPT ![t] = p]
           cp2 == [current_priority EXCEPT ![t] = best]
<1>6. /\ cp1 \in [Thread -> Priority] /\ cp1[t] = p /\ [cp1 EXCEPT ![t] = best] = cp2
      /\ cp2 \in [Thread -> Priority] /\ cp2[t] = best
      /\ \A u \in Thread \ {t} : cp2[u] = current_priority[u]
  BY <1>5
<1>7. current_priority' = cp2
  BY <1>4
<1>8. queues' \in Queues /\ ReadyQueueExact'
  <2>1. CASE status[t] = "Ready"
    <3> DEFINE q1 == Move(queues, t, current_priority[t], p)
    <3>1. t \in ReadyThreads
      BY <2>1 DEF ReadyThreads
    <3>2. q1 \in Queues /\ Matches(q1, ReadyThreads, cp1)
      BY <1>5, <3>1, MoveMatches
    <3>3. queues' = Move(q1, t, p, best)
      BY <1>4, <2>1
    <3> HIDE DEF q1, cp1, cp2
    <3>4. /\ Move(q1, t, cp1[t], best) \in Queues
          /\ Matches(Move(q1, t, cp1[t], best), ReadyThreads, [cp1 EXCEPT ![t] = best])
      BY <1>6, <3>1, <3>2, MoveMatches
    <3>5. queues' \in Queues /\ Matches(queues', ReadyThreads, cp2)
      BY <1>6, <3>3, <3>4
    <3>6. status' = status /\ linked' = linked \cup {p, best}
      BY <1>1, <1>4
    <3>7. \A u \in Thread : cp2[u] = current_priority[u] \/ cp2[u] = best
      BY <1>6
    <3>8. \A u \in Thread : status'[u] # "Dormant" => cp2[u] \in linked'
      BY <3>6, <3>7 DEF ReadyQueueExact
    <3> QED
      BY <1>7, <3>5, <3>6, <3>8 DEF Matches, ReadyThreads, ReadyQueueExact
  <2>2. CASE status[t] # "Ready"
    <3>1. queues' = queues
      BY <1>4, <2>2
    <3> HIDE DEF cp1, cp2
    <3>2. status' = status /\ current_priority' = cp2 /\ linked' = linked \cup {p, best}
      BY <1>1, <1>4, <1>7
    <3>3. \A u \in Thread : status[u] = "Ready" => cp2[u] = current_priority[u]
      BY <1>6, <2>2
    <3>4. \A u \in Thread : cp2[u] = current_priority[u] \/ cp2[u] = best
      BY <1>6
    <3>5. \A u \in Thread : status'[u] # "Dormant" => cp2[u] \in linked'
      BY <3>2, <3>4 DEF ReadyQueueExact
    <3>6. \A q \in Priority, u \in Thread :
             u \in Range(queues'[q]) <=> status'[u] = "Ready" /\ cp2[u] = q
      BY <3>1, <3>2, <3>3 DEF ReadyQueueExact
    <3>7. \A q \in Priority : IsInjective(queues'[q])
      BY <3>1 DEF ReadyQueueExact
    <3> QED
      BY <1>5, <3>1, <3>2, <3>5, <3>6, <3>7 DEF ReadyQueueExact
  <2> QED
    BY <2>1, <2>2
<1>9. TodoOK
  <2>1. pending_mutexes(t) \in SUBSET Mutex
    BY DEF pending_mutexes
  <2>2. PICK c \in Call : c = UpdatePriorityEach(pending_mutexes(t)) /\ c.op = "update"
    BY <2>1, CallTypes
  <2>3. CallSound(c)'
    BY <2>2 DEF CallSound
  <2>4. todo' = <<c>> \/ todo' = <<>>
    BY <2>2 DEF SetThreadPriority
  <2> QED
    BY <1>1, <2>3, <2>4, TodoStart DEF TodoOK
<1>10. CpuInv' /\ phase' \in {"advance", "run", "resched"} /\ reschedule_pending' \in BOOLEAN
  BY <1>1, CpuKept
<1>11. WaitListsExact'
  BY <1>1, <1>9, WaitKept DEF WaitListsExact, TodoOK
<1>12. nominal_priority' \in [Thread -> Priority] /\ linked' \subseteq Priority
  BY <1>4 DEF TypeOK
<1> HIDE DEF cp1, cp2
<1>13. TypeOK'
  BY <1>1, <1>6, <1>7, <1>8, <1>9, <1>10, <1>12 DEF TypeOK, TodoOK, Queues
<1> QED
  BY <1>8, <1>9, <1>10, <1>11, <1>13, SMT DEF TodoOK

(* svcCreateMutex.                                                         *)
LEMMA CreateMutexKept ==
    ASSUME IInv, NEW m \in Mutex, NEW locked, CreateMutex(m, locked)
    PROVE  IInv'
<1> USE DEF IInv
<1>1. /\ Idle /\ current_thread \in Thread /\ m \in WaitObject
      /\ <<m>> \in Seq(WaitObject) /\ <<m>> # <<>>
  BY SMTT(30) DEF CreateMutex, Guest, CpuInv, TypeOK, WaitObject
<1>2. TodoOK
  BY <1>1, AcquireStart DEF CreateMutex
<1>3. RestOK'
  BY <1>1 DEF CreateMutex, eventVars, mutexVars, arbiterVars, RestOK, TypeOK
<1> QED
  BY <1>2, <1>3, QuietKept DEF CreateMutex

(* svcReleaseMutex.                                                        *)
LEMMA ReleaseMutexKept ==
    ASSUME LeastPriority, IInv, NEW m \in Mutex, ReleaseMutex(m)
    PROVE  IInv'
<1> USE DEF IInv
<1>1. /\ Idle /\ phase = "run" /\ lock_count[m] > 0
      /\ lock_count' = [lock_count EXCEPT ![m] = lock_count[m] - 1]
      /\ UNCHANGED <<status, nominal_priority, wait_objects, wait_address, wakeup_callback,
                     thread_list, current_thread, wakeup_events, timer_events>>
      /\ UNCHANGED <<waiting_threads, priority, signaled, interval, available_count,
                     created, arbiter_threads, memory>>
  BY DEF ReleaseMutex, Guest, eventVars, objectVars, arbiterVars
<1>2. PICK t \in Thread : t = current_thread
  BY <1>1 DEF CpuInv, TypeOK
<1>3. lock_count' \in [Mutex -> Nat]
  BY <1>1, SMTT(30) DEF TypeOK
<1>4. m \in WaitObject
  BY DEF WaitObject
<1>5. /\ held_mutexes' \in [Thread -> SUBSET Mutex]
      /\ holding_thread' \in [Mutex -> Thread \cup {NULL}]
      /\ current_priority' \in [Thread -> Priority]
      /\ queues' \in [Priority -> Seq(Thread)] /\ linked' \subseteq Priority
      /\ ReadyQueueExact' /\ TodoOK
      /\ UNCHANGED cpuVars \/ PrepareReschedule
  <2>1. CASE UNCHANGED <<held_mutexes, current_priority, queueVars, holding_thread, todo,
                         cpuVars>>
    BY <1>1, <2>1, QueueKept, NothingToDo DEF queueVars, TypeOK
  <2>2. CASE lock_count[m] = 1
    <3> DEFINE held == held_mutexes[t] \ {m}
    <3>1. /\ held_mutexes' = [held_mutexes EXCEPT ![t] = held]
          /\ BoostPriority(t, BestPriority(t, held, priority))
          /\ holding_thread' = [holding_thread EXCEPT ![m] = NULL]
          /\ todo' = <<WakeupAllWaitingThreads(m)>>
          /\ PrepareReschedule
      BY <1>2, <2>2, SMTT(30) DEF ReleaseMutex
    <3>2. /\ held \in SUBSET Mutex /\ priority \in [Mutex -> Priority]
          /\ nominal_priority[t] \in Priority
      BY DEF TypeOK
    <3>3. held_mutexes' \in [Thread -> SUBSET Mutex]
      BY <3>1, <3>2 DEF TypeOK
    <3>4. holding_thread' \in [Mutex -> Thread \cup {NULL}]
      BY <3>1 DEF TypeOK
    <3> HIDE DEF held
    <3>5. BestPriority(t, held, priority) \in Priority
      BY <3>2, BestIsPriority DEF BestPriority
    <3>6. TodoOK
      BY <1>1, <1>4, <3>1, WakeupStart
    <3> QED
      BY <1>1, <3>1, <3>3, <3>4, <3>5, <3>6, BoostKept
  <2> QED
    BY <2>1, <2>2 DEF ReleaseMutex
<1>6. CpuInv' /\ phase' \in {"advance", "run", "resched"} /\ reschedule_pending' \in BOOLEAN
  BY <1>1, <1>5, CpuKept
<1>7. WaitListsExact'
  BY <1>1, <1>5, WaitKept DEF WaitListsExact, TodoOK
<1>8. TypeOK'
  BY <1>1, <1>3, <1>5, <1>6 DEF TypeOK, TodoOK
<1> QED
  BY <1>5, <1>6, <1>7, <1>8, SMT DEF TodoOK

(* svcArbitrateAddress of the types that may wait.                         *)
LEMMA ArbitrateAddressKept ==
    ASSUME IInv, NEW a \in Address, NEW value \in Values, ArbitrateAddress(a, value)
    PROVE  IInv'
<1> USE DEF IInv
<1>1. Idle /\ phase = "run"
  BY DEF ArbitrateAddress, Guest
<1>2. CASE ArbitrateNone(a, value)
  <2>1. TodoOK
    BY <1>1, <1>2, NothingToDo DEF ArbitrateNone
  <2>2. RestOK'
    BY <1>2 DEF ArbitrateNone, eventVars, syncVars, mutexVars, objectVars, arbiterVars,
       RestOK, TypeOK
  <2> QED
    BY <1>2, <2>1, <2>2, QuietKept DEF ArbitrateNone, syncVars
<1>3. CASE \E decrement, timed \in BOOLEAN, delay \in Timeouts :
               ArbitrateWait(current_thread, a, value, decrement, timed, delay)
  <2>1. PICK decrement \in BOOLEAN, timed \in BOOLEAN, delay \in Timeouts :
               ArbitrateWait(current_thread, a, value, decrement, timed, delay)
    BY <1>3
  <2>2. /\ PrepareReschedule
        /\ status' = [status EXCEPT ![current_thread] = "WaitArb"]
        /\ UNCHANGED <<nominal_priority, current_priority, held_mutexes, wait_objects,
                       thread_list, queues, linked, current_thread, timer_events>>
        /\ UNCHANGED <<waiting_threads, lock_count, holding_thread, priority, signaled,
                       interval, available_count, created, todo>>
    BY <2>1 DEF ArbitrateWait, WaitThread, queueVars, mutexVars, objectVars
  <2>3. current_thread \in Thread
    BY <1>1 DEF CpuInv, TypeOK
  <2>4. wakeup_events' \in [Thread -> Nat]
    <3>1. wakeup_events \in [Thread -> Nat]
      BY DEF TypeOK
    <3>2. \/ wakeup_events' = wakeup_events
          \/ wakeup_events' = [wakeup_events EXCEPT ![current_thread] = wakeup_events[current_thread] + 1]
      BY <2>1, <2>3, <3>1 DEF ArbitrateWait, WaitThread
    <3> QED
      BY <2>3, <3>1, <3>2, SMT
  <2>5. memory' \in [Address -> Int]
    <3>1. memory \in [Address -> Int]
      BY DEF TypeOK
    <3>2. memory' = memory \/ memory' = [memory EXCEPT ![a] = memory[a] - 1]
      BY <2>1, <3>1 DEF ArbitrateWait
    <3> QED
      BY <3>1, <3>2, SMT
  <2>6. arbiter_threads' \in [Address -> Seq(Thread)]
    <3>1. Append(arbiter_threads[a], current_thread) \in Seq(Thread)
      BY <2>3, AppendRange DEF TypeOK
    <3>2. arbiter_threads' = [arbiter_threads EXCEPT ![a] = Append(arbiter_threads[a], current_thread)]
      BY <2>1 DEF ArbitrateWait, WaitThread
    <3> QED
      BY <3>1, <3>2 DEF TypeOK
  <2>7. RestOK'
    BY <2>2, <2>4, <2>5, <2>6 DEF RestOK, TypeOK
  <2>8. TodoOK
    BY <1>1, <2>2, NothingToDo
  <2>9. "WaitArb" \in Status /\ "WaitArb" \notin {"Running", "Ready", "Dormant"}
    BY DEF Status, WaitStatus
  <2>10. /\ wait_address' \in [Thread -> Address \cup {NULL}]
         /\ thread_list' \in Seq(Thread)
    BY <2>1, <2>2 DEF ArbitrateWait, WaitThread, TypeOK
  <2>11. wakeup_callback' \in [Thread -> {NULL, "synch", "arbiter"}]
    <3>1. wakeup_callback \in [Thread -> {NULL, "synch", "arbiter"}]
      BY DEF TypeOK
    <3>2. \/ wakeup_callback' = wakeup_callback
          \/ wakeup_callback' = [wakeup_callback EXCEPT ![current_thread] = "arbiter"]
      BY <2>1 DEF ArbitrateWait, WaitThread
    <3> QED
      BY <3>1, <3>2
  <2> QED
    BY <1>1, <2>2, <2>7, <2>8, <2>9, <2>10, <2>11, YieldKept
<1> QED
  BY <1>2, <1>3 DEF ArbitrateAddress
-----------------------------------------------------------------------------
(* ThreadWakeupCallback: the timeout of a wait or the end of a sleep.      *)
LEMMA ThreadWakeupCallbackKept ==
    ASSUME IInv, NEW t \in Thread, ThreadWakeupCallback(t)
    PROVE  IInv'
<1> USE DEF IInv
<1>1. /\ Idle /\ wakeup_events[t] > 0 /\ UNCHANGED schedVars /\ UNCHANGED cpuVars
      /\ wakeup_events' = [wakeup_events EXCEPT ![t] = wakeup_events[t] - 1]
      /\ UNCHANGED <<timer_events, waiting_threads, lock_count, holding_thread, priority,
                     signaled, interval, available_count, created, memory>>
      /\ \/ todo' = LeaveWaitObjects(t) \o <<ResumeFromWait(t)>>
         \/ todo' = <<ResumeFromWait(t)>>
  BY DEF ThreadWakeupCallback, mutexVars, objectVars
<1>2. wakeup_events' \in [Thread -> Nat]
  BY <1>1, SMT DEF TypeOK
<1>3. arbiter_threads' \in [Address -> Seq(Thread)]
  <2>1. arbiter_threads \in [Address -> Seq(Thread)]
    BY DEF TypeOK
  <2>2. PICK a : a = wait_address[t]
    OBVIOUS
  <2>3. CASE arbiter_threads' = arbiter_threads
    BY <2>1, <2>3
  <2>4. CASE arbiter_threads' = [arbiter_threads EXCEPT ![a] = RemoveFirst(arbiter_threads[a], t)]
    <3>1. CASE a \in Address
      <4>1. RemoveFirst(arbiter_threads[a], t) \in Seq(Thread)
        BY <2>1, <3>1, RemoveFirstRange
      <4> QED
        BY <2>1, <2>4, <3>1, <4>1
    <3>2. CASE a \notin Address
      BY <2>1, <2>4, <3>2
    <3> QED
      BY <3>1, <3>2
  <2> QED
    BY <2>2, <2>3, <2>4 DEF ThreadWakeupCallback
<1>4. RestOK'
  BY <1>1, <1>2, <1>3 DEF RestOK, TypeOK
<1>5. PICK w \in Call : w = ResumeFromWait(t) /\ w.op = "resume" /\ Rank(w) = 3
  BY CallTypes
<1>6. CallSound(w)'
  BY <1>5 DEF CallSound
<1>7. TodoOK
  <2>1. CASE todo' = <<w>>
    BY <1>1, <1>6, <2>1, TodoStart DEF TodoOK
  <2>2. CASE todo' = LeaveWaitObjects(t) \o <<w>> /\ wait_objects[t] = <<>>
    <3>1. <<w>> \in Seq(Call)
      BY ShortOrdered
    <3>2. todo' = <<w>>
      BY <2>2, <3>1, ConcatNothing DEF LeaveWaitObjects
    <3> QED
      BY <2>1, <3>2
  <2>3. CASE todo' = LeaveWaitObjects(t) \o <<w>> /\ wait_objects[t] # <<>>
    <3>1. PICK r \in Call : /\ r = RemoveWaitingThreadEach(t) /\ r.op = "remove"
                            /\ r.thread = t /\ Rank(r) = 2
      BY CallTypes
    <3>2. wait_objects' = wait_objects
      BY <1>1 DEF schedVars, threadVars
    <3>3. CallSound(r)'
      BY <2>3, <3>1, <3>2 DEF CallSound
    <3> DEFINE s == <<w>>
               x == <<r>> \o s
    <3>4. s \in Seq(Call) /\ Ordered(s) /\ Range(s) = {w}
      BY ShortOrdered
    <3>5. todo' = x
      BY <2>3, <3>1 DEF LeaveWaitObjects
    <3> HIDE DEF s
    <3>6. x \in Seq(Call) /\ Ordered(x) /\ Range(x) = {w} \cup {r}
      BY <1>5, <3>1, <3>4, ConsCall, SMT
    <3> HIDE DEF x
    <3>7. Range(todo) = {}
      BY <1>1, ShortOrdered DEF Idle
    <3> QED
      BY <1>6, <3>3, <3>5, <3>6, <3>7 DEF TodoOK, TodoInv, Pending
  <2> QED
    BY <1>1, <1>5, <2>1, <2>2, <2>3
<1> QED
  BY <1>1, <1>4, <1>7, QuietKept

(* The slice begins, or is skipped for want of a thread, and ends.         *)
LEMMA SliceKept ==
    ASSUME IInv, EndAdvance \/ EndSlice
    PROVE  IInv'
<1> USE DEF IInv
<1>1. /\ Idle /\ UNCHANGED todo
      /\ UNCHANGED <<status, nominal_priority, current_priority, held_mutexes, wait_objects,
                     wait_address, wakeup_callback, thread_list, queues, linked,
                     current_thread>>
      /\ UNCHANGED <<wakeup_events, timer_events, waiting_threads, lock_count,
                     holding_thread, priority, signaled, interval, available_count, created,
                     arbiter_threads, memory>>
  BY DEF EndAdvance, EndSlice, schedVars, threadVars, queueVars, eventVars, syncVars,
         mutexVars, objectVars, arbiterVars
<1>2. phase' \in {"advance", "run", "resched"} /\ reschedule_pending' \in BOOLEAN
  BY DEF EndAdvance, EndSlice, TypeOK
<1>3. CpuInv'
  BY <1>1 DEF EndAdvance, EndSlice, CpuInv, TypeOK
<1>4. TodoOK
  BY <1>1, NothingToDo
<1>5. ReadyQueueExact'
  BY <1>1, QueueKept
<1>6. WaitListsExact'
  <2>1. \A t \in Thread : wait_objects[t] # <<>> => status'[t] \in SynchStatus
    BY <1>1 DEF WaitListsExact
  <2> QED
    BY <1>1, <1>4, <2>1, WaitKept DEF TodoOK
<1>7. TypeOK'
  BY <1>1, <1>2, <1>4, SMTT(30) DEF TypeOK, TodoOK
<1> QED
  BY <1>3, <1>4, <1>5, <1>6, <1>7 DEF TodoOK

(* SwitchContext puts the new thread in the place of the previous one,     *)
(* which goes back to the ready queue if it was still running.             *)
LEMMA SwitchContextKept ==
    ASSUME TypeOK, ReadyQueueExact, CpuInv, NEW p \in Priority, queues[p] # <<>>,
           SwitchContext(Head(queues[p]), [queues EXCEPT ![p] = Tail(@)]),
           UNCHANGED <<current_priority, linked>>
    PROVE  /\ status' \in [Thread -> Status] /\ queues' \in [Priority -> Seq(Thread)]
           /\ current_thread' \in Thread /\ wakeup_events' \in [Thread -> Nat]
           /\ status'[current_thread'] = "Running"
           /\ \A u \in Thread : status'[u] = "Running" => u = current_thread'
           /\ \A u \in Thread : status[u] \notin {"Ready", "Running"} => status'[u] = status[u]
           /\ ReadyQueueExact'
<1> DEFINE q == [queues EXCEPT ![p] = Tail(@)]
           prev == current_thread
           back == prev # NULL /\ status[prev] = "Running"
<1>1. queues \in Queues /\ Matches(queues, ReadyThreads, current_priority)
  BY QueueMatches DEF TypeOK, Queues
<1>2. /\ Head(queues[p]) \in Thread /\ Head(queues[p]) \in ReadyThreads /\ q \in Queues
      /\ Matches(q, ReadyThreads \ {Head(queues[p])}, current_priority)
  <2> HIDE DEF ReadyThreads
  <2> QED
    BY <1>1, PopMatches
<1>3. PICK t \in Thread :
          /\ t = Head(queues[p]) /\ t \in ReadyThreads /\ status[t] = "Ready"
          /\ q \in Queues /\ Matches(q, ReadyThreads \ {t}, current_priority)
  <2> HIDE DEF q
  <2> QED
    BY <1>2 DEF ReadyThreads
<1>4. /\ queues' = IF back THEN PushFront(q, current_priority[prev], prev) ELSE q
      /\ status' = [s \in Thread |-> IF s = t THEN "Running"
                                      ELSE IF back /\ s = prev THEN "Ready"
                                      ELSE status[s]]
      /\ wakeup_events' = [wakeup_events EXCEPT ![t] = 0]
      /\ current_thread' = t
  BY <1>3 DEF SwitchContext
<1> HIDE DEF q
<1>5. status' \in [Thread -> Status] /\ wakeup_events' \in [Thread -> Nat]
  BY <1>4 DEF TypeOK, Status
<1>6. /\ status'[t] = "Running"
      /\ \A u \in Thread \ {t} : status'[u] = IF back /\ u = prev THEN "Ready" ELSE status[u]
  BY <1>4
<1>7. \A u \in Thread : status[u] = "Running" => u = prev /\ back
  BY ThreadsAssumption DEF CpuInv, WaitObject
<1>8. \A u \in Thread : status'[u] = "Running" => u = t
  BY <1>6, <1>7
<1>9. queues' \in Queues /\ Matches(queues', {u \in Thread : status'[u] = "Ready"}, current_priority)
  <2>1. CASE ~back
    <3>1. {u \in Thread : status'[u] = "Ready"} = ReadyThreads \ {t}
      BY <1>6, <2>1 DEF ReadyThreads
    <3> QED
      BY <1>3, <1>4, <2>1, <3>1
  <2>2. CASE back
    <3>1. prev \in Thread /\ prev # t /\ prev \notin ReadyThreads \ {t}
      BY <1>3, <2>2 DEF TypeOK, ReadyThreads
    <3>2. {u \in Thread : status'[u] = "Ready"} = (ReadyThreads \ {t}) \cup {prev}
      BY <1>6, <2>2, <3>1 DEF ReadyThreads
    <3>3. current_priority \in [Thread -> Priority]
      BY DEF TypeOK
    <3>4. /\ PushFront(q, current_priority[prev], prev) \in Queues
          /\ Matches(PushFront(q, current_priority[prev], prev),
                     (ReadyThreads \ {t}) \cup {prev}, current_priority)
      BY <1>3, <3>1, <3>3, PushMatches
    <3> QED
      BY <1>4, <2>2, <3>2, <3>4
  <2> QED
    BY <2>1, <2>2
<1>10. \A u \in Thread : status'[u] # "Dormant" => status[u] # "Dormant"
  BY <1>3, <1>6
<1>11. ReadyQueueExact'
  BY <1>9, <1>10 DEF ReadyQueueExact, Matches
<1>12. \A u \in Thread : status[u] \notin {"Ready", "Running"} => status'[u] = status[u]
  BY <1>3, <1>6, <1>7
<1> QED
  BY <1>4, <1>5, <1>6, <1>8, <1>9, <1>11, <1>12 DEF Queues

(* System::Reschedule: the best thread runs.                               *)
LEMMA RescheduleKept ==
    ASSUME IInv, Reschedule
    PROVE  IInv'
<1> USE DEF IInv
<1>1. /\ Idle /\ UNCHANGED todo /\ phase = "resched"
      /\ phase' = "advance" /\ reschedule_pending' = FALSE
      /\ UNCHANGED <<nominal_priority, current_priority, held_mutexes, wait_objects,
                     wait_address, wakeup_callback, thread_list, linked>>
      /\ UNCHANGED <<timer_events, waiting_threads, lock_count,
                     holding_thread, priority, signaled, interval, available_count, created,
                     arbiter_threads, memory>>
  BY DEF Reschedule, syncVars, mutexVars, objectVars, arbiterVars
<1>2. /\ status' \in [Thread -> Status] /\ queues' \in [Priority -> Seq(Thread)]
      /\ current_thread' \in Thread \cup {NULL} /\ wakeup_events' \in [Thread -> Nat]
      /\ current_thread' # NULL => status'[current_thread'] = "Running"
      /\ \A u \in Thread : status'[u] = "Running" => u = current_thread'
      /\ \A u \in Thread : status[u] \notin {"Ready", "Running"} => status'[u] = status[u]
      /\ ReadyQueueExact'
  <2>1. CASE \E p \in Priority :
                 /\ FirstLevel(p)
                 /\ SwitchContext(Head(queues[p]), [queues EXCEPT ![p] = Tail(@)])
    <3>1. PICK p \in Priority :
              /\ FirstLevel(p)
              /\ SwitchContext(Head(queues[p]), [queues EXCEPT ![p] = Tail(@)])
      BY <2>1
    <3>2. queues[p] # <<>>
      BY <3>1 DEF FirstLevel
    <3> QED
      BY <1>1, <3>1, <3>2, SwitchContextKept
  <2>2. CASE /\ current_thread # NULL /\ status[current_thread] = "Running"
             /\ wakeup_events' = [wakeup_events EXCEPT ![current_thread] = 0]
             /\ UNCHANGED <<queues, status, current_thread>>
    <3>1. wakeup_events' \in [Thread -> Nat]
      BY <2>2 DEF TypeOK
    <3>2. ReadyQueueExact'
      BY <1>1, <2>2, QueueKept
    <3>3. current_thread # NULL /\ \A u \in Thread : status[u] = "Running" => u = current_thread
      BY <2>2 DEF CpuInv
    <3> QED
      BY <2>2, <3>1, <3>2, <3>3 DEF TypeOK
  <2>3. CASE /\ ~(current_thread # NULL /\ status[current_thread] = "Running")
             /\ current_thread' = NULL /\ UNCHANGED <<queues, status, wakeup_events>>
    <3>1. ReadyQueueExact'
      BY <1>1, <2>3, QueueKept
    <3>2. \A u \in Thread : u # NULL
      BY ThreadsAssumption DEF WaitObject
    <3>3. \A u \in Thread : status[u] # "Running"
      BY <2>3, <3>2 DEF CpuInv
    <3> QED
      BY <2>3, <3>1, <3>3 DEF TypeOK
  <2>4. CASE ~reschedule_pending /\ UNCHANGED <<queues, status, current_thread, wakeup_events>>
    <3>1. ReadyQueueExact'
      BY <1>1, <2>4, QueueKept
    <3>2. /\ current_thread # NULL => status[current_thread] = "Running"
          /\ \A u \in Thread : status[u] = "Running" => u = current_thread
      BY <1>1, <2>4 DEF CpuInv
    <3> QED
      BY <2>4, <3>1, <3>2 DEF TypeOK
  <2> QED
    BY <2>1, <2>2, <2>3, <2>4 DEF Reschedule, SwitchToBest
<1>3. CpuInv'
  BY <1>1, <1>2 DEF CpuInv
<1>4. TodoOK
  BY <1>1, NothingToDo
<1>5. \A t \in Thread : wait_objects[t] # <<>> => status'[t] \in SynchStatus
  BY <1>2 DEF WaitListsExact, SynchStatus
<1>6. WaitListsExact'
  BY <1>1, <1>4, <1>5, WaitKept DEF TodoOK
<1>7. TypeOK'
  BY <1>1, <1>2, <1>4 DEF TypeOK, TodoOK
<1> QED
  BY <1>2, <1>3, <1>4, <1>6, <1>7, SMT DEF TodoOK
-----------------------------------------------------------------------------
(* What the loader starts: the main thread alone, ready.                   *)
LEMMA InitIInv == Init => IInv
<1> SUFFICES ASSUME Init PROVE IInv
  OBVIOUS
<1>1. MainThread \in Thread /\ MainPriority \in Priority
  BY KernelAssumption
<1>2. /\ Thread \subseteq WaitObject /\ ThreadPrioLowest \in Priority
      /\ Preexisting \subseteq WaitObject
  BY KernelAssumption, ThreadsAssumption, SMT DEF WaitObject, Priority
<1>3. \A s : IsInjective(<<>>) /\ Range(<<>>) = {} /\ IsInjective(<<s>>) /\ Range(<<s>>) = {s}
  BY SMT DEF IsInjective, Range
<1>4. /\ \A S : <<>> \in Seq(S)
      /\ \A S : \A x \in S : <<x>> \in Seq(S)
      /\ 0 \in Nat /\ 0 \in Int
  BY SMT
<1>5. /\ queues \in [Priority -> Seq(Thread)] /\ thread_list \in Seq(Thread)
      /\ linked \subseteq Priority /\ current_thread \in Thread \cup {NULL}
  BY <1>1, <1>4 DEF Init
<1>6. signaled \in [Event \cup Timer -> BOOLEAN] /\ interval \in [Timer -> BOOLEAN]
  BY DEF Init
<1>7. /\ nominal_priority \in [Thread -> Priority] /\ current_priority \in [Thread -> Priority]
      /\ status \in [Thread -> Status] /\ held_mutexes \in [Thread -> SUBSET Mutex]
  BY <1>1 DEF Init, Status
<1>8. /\ wait_objects \in [Thread -> Seq(WaitObject)]
      /\ wait_address \in [Thread -> Address \cup {NULL}]
      /\ wakeup_callback \in [Thread -> {NULL, "synch", "arbiter"}]
  BY <1>4 DEF Init
<1>9. /\ wakeup_events \in [Thread -> Nat] /\ timer_events \in [Timer -> Nat]
      /\ available_count \in [Semaphore -> Int] /\ lock_count \in [Mutex -> Nat]
      /\ memory \in [Address -> Int]
  BY <1>4 DEF Init
<1>10. /\ waiting_threads \in [WaitObject -> Seq(Thread)]
       /\ arbiter_threads \in [Address -> Seq(Thread)] /\ todo \in Seq(Call)
       /\ holding_thread \in [Mutex -> Thread \cup {NULL}] /\ priority \in [Mutex -> Priority]
  BY <1>2, <1>4 DEF Init
<1>11. /\ created \subseteq WaitObject /\ phase \in {"advance", "run", "resched"}
       /\ reschedule_pending \in BOOLEAN
  BY <1>2 DEF Init
<1>12. TypeOK
  BY <1>5, <1>6, <1>7, <1>8, <1>9, <1>10, <1>11 DEF TypeOK
<1>13. ReadyQueueExact
  <2>1. \A p \in Priority :
            /\ p = MainPriority => queues[p] = <<MainThread>>
            /\ p # MainPriority => queues[p] = <<>>
    BY DEF Init
  <2>2. \A p \in Priority :
            /\ IsInjective(queues[p])
            /\ p = MainPriority => \A t : t \in Range(queues[p]) <=> t = MainThread
            /\ p # MainPriority => \A t : t \notin Range(queues[p])
    BY <1>3, <2>1
  <2>3. \A t \in Thread : /\ status[t] = "Ready" <=> t = MainThread
                          /\ current_priority[t] = MainPriority /\ MainPriority \in linked
    BY DEF Init
  <2>4. \A p \in Priority, t \in Thread :
           t \in Range(queues[p]) <=> status[t] = "Ready" /\ current_priority[t] = p
    BY <2>2, <2>3
  <2> QED
    BY <2>2, <2>3, <2>4 DEF ReadyQueueExact
<1>14. CpuInv
  BY DEF Init, CpuInv
<1>15. WaitListsExact
  <2>1. /\ \A o \in WaitObject : waiting_threads[o] = <<>>
        /\ \A t \in Thread : wait_objects[t] = <<>>
    BY DEF Init
  <2> QED
    BY <1>3, <2>1 DEF WaitListsExact
<1>16. TodoInv
  <2>1. todo = <<>> /\ Range(todo) = {}
    BY <1>3 DEF Init
  <2>2. Ordered(todo)
    BY <2>1, SMT DEF Ordered
  <2> QED
    BY <2>1, <2>2 DEF TodoInv
<1> QED
  BY <1>12, <1>13, <1>14, <1>15, <1>16 DEF IInv

(* Any system call, with any arguments the guest passes.                   *)
LEMMA SystemCallKept ==
    ASSUME LeastPriority, IInv, SystemCall
    PROVE  IInv'
<1>1. CASE \E t \in Thread, p \in CreatePriorities : CreateThread(t, p)
  BY <1>1, KernelAssumption, CreateThreadKept
<1>2. CASE \E t \in Thread, p \in SetPriorities : SetThreadPriority(t, p)
  BY <1>2, KernelAssumption, SetThreadPriorityKept
<1>3. CASE \E objs \in WaitLists, delay \in Timeouts :
               \/ WaitSynchronizationAny(objs, delay) \/ WaitSynchronizationAll(objs, delay)
               \/ Len(objs) = 1 /\ WaitSynchronization1(objs[1], delay)
  <2>1. PICK objs \in WaitLists, delay \in Timeouts :
               \/ WaitSynchronizationAny(objs, delay) \/ WaitSynchronizationAll(objs, delay)
               \/ Len(objs) = 1 /\ WaitSynchronization1(objs[1], delay)
    BY <1>3
  <2>2. objs \in Seq(WaitObject)
    BY KernelAssumption
  <2>3. CASE Len(objs) = 1 /\ WaitSynchronization1(objs[1], delay)
    <3>1. PICK one \in Seq(WaitObject) : one = <<objs[1]>>
      BY <2>2, <2>3, SMT
    <3> QED
      BY <2>3, <3>1, WaitsKept DEF WaitSynchronization1
  <2> QED
    BY <2>1, <2>2, <2>3, WaitsKept
<1>4. CASE \E m \in Mutex : ReleaseMutex(m) \/ \E locked \in BOOLEAN : CreateMutex(m, locked)
  BY <1>4, ReleaseMutexKept, CreateMutexKept
<1>5. CASE \/ ExitThread
           \/ \E delay \in Sleeps : SleepThread(delay)
           \/ \E a \in Address, v \in Values : ArbitrateAddress(a, v)
  BY <1>5, ExitThreadKept, SleepThreadKept, ArbitrateAddressKept
<1>6. CASE \/ \E s \in Semaphore, n \in ReleaseCounts :
                 ReleaseSemaphore(s, n) \/ CreateSemaphore(s, n)
           \/ \E e \in Event : CreateEvent(e) \/ ClearEvent(e)
           \/ \E tm \in Timer : CreateTimer(tm) \/ ClearTimer(tm) \/ CancelTimer(tm)
           \/ \E tm \in Timer : \E now, periodic \in BOOLEAN : SetTimer(tm, now, periodic)
           \/ \E a \in Address, v \in Values : Store(a, v)
           \/ \E a \in Address, n \in SignalCounts : ArbitrateAddressSignal(a, n)
  BY <1>6, ObjectCallsKept
<1> QED
  BY <1>1, <1>2, <1>3, <1>4, <1>5, <1>6 DEF SystemCall

(* Every step of the kernel.                                               *)
LEMMA NextIInv ==
    ASSUME LeastPriority, IInv, [Next]_vars
    PROVE  IInv'
<1>1. CASE Continue
  BY <1>1, ContinueKept
<1>2. CASE SystemCall
  BY <1>2, SystemCallKept
<1>3. CASE Fire
  <2>1. ASSUME NEW t \in Thread, ThreadWakeupCallback(t)
        PROVE  IInv'
    BY <2>1, ThreadWakeupCallbackKept
  <2>2. \A tm \in Timer : TimerCallback(tm) => IInv'
    BY ObjectCallsKept
  <2> QED
    BY <1>3, <2>1, <2>2 DEF Fire
<1>4. CASE RunLoop
  BY <1>4, SliceKept, RescheduleKept DEF RunLoop
<1>5. CASE \E e \in Event : Signal(e)
  <2>1. \A e \in Event : Signal(e) => IInv'
    BY ObjectCallsKept
  <2> QED
    BY <1>5, <2>1
<1>6. CASE UNCHANGED vars
  <2>1. UNCHANGED <<status, nominal_priority, current_priority, held_mutexes, wait_objects,
                    wait_address, wakeup_callback, thread_list, queues, linked>>
    BY <1>6 DEF vars, schedVars, threadVars, queueVars
  <2>2. UNCHANGED <<current_thread, wakeup_events, timer_events, phase,
                    reschedule_pending, todo, arbiter_threads, memory>>
    BY <1>6 DEF vars, schedVars, eventVars, cpuVars, syncVars, arbiterVars
  <2>3. UNCHANGED <<waiting_threads, signaled, interval, available_count, created,
                    lock_count, holding_thread, priority>>
    BY <1>6 DEF vars, syncVars, mutexVars, objectVars
  <2>4. TypeOK' = TypeOK
    BY <2>1, <2>2, <2>3 DEF TypeOK
  <2>5. (ReadyQueueExact' = ReadyQueueExact) /\ (CpuInv' = CpuInv)
    BY <2>1, <2>2 DEF ReadyQueueExact, CpuInv
  <2>6. (WaitListsExact' = WaitListsExact) /\ (TodoInv' = TodoInv)
    BY <2>1, <2>2, <2>3 DEF WaitListsExact, TodoInv, CallSound, Pending
  <2> QED
    BY <2>4, <2>5, <2>6 DEF IInv
<1> QED
  BY <1>1, <1>2, <1>3, <1>4, <1>5, <1>6 DEF Next
=============================================================================
