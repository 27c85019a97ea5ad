--------------------------- MODULE KernelInvariant --------------------------
(***************************************************************************)
(* The inductive invariant of Kernel, and the facts about sequences and    *)
(* about the calls a routine has still to make that every proof about the  *)
(* kernel needs.                                                           *)
(***************************************************************************)
EXTENDS Kernel, TLAPS

(* The leaves are for Zenon where they name no other prover.               *)
USE ZenonT(40)

(* A sequence is determined by its length and its elements.                *)
LEMMA EmptyLength ==
    ASSUME NEW S, NEW s \in Seq(S)
    PROVE  Len(s) = 0 <=> s = <<>>
<1>1. CASE Len(s) = 0
  <2>1. DOMAIN s = {} /\ DOMAIN <<>> = {}
    BY <1>1, SMT
  <2> QED
    BY <1>1, <2>1, SMT
<1> QED
  BY <1>1, SMT

(* The length and the elements of a concatenation.                         *)
LEMMA ConcatParts ==
    ASSUME NEW S, NEW s \in Seq(S), NEW t \in Seq(S)
    PROVE  /\ s \o t \in Seq(S) /\ Len(s \o t) = Len(s) + Len(t)
           /\ \A i \in 1 .. Len(s) + Len(t) :
                 (s \o t)[i] = IF i <= Len(s) THEN s[i] ELSE t[i - Len(s)]
BY SMT

(* Concatenation is associative.                                           *)
LEMMA ConcatBracketing ==
    ASSUME NEW S, NEW s \in Seq(S), NEW t \in Seq(S), NEW u \in Seq(S)
    PROVE  (s \o t) \o u = s \o (t \o u)
BY SMTT(30)

(* Concatenation with the empty sequence.                                  *)
LEMMA ConcatNothing ==
    ASSUME NEW S, NEW s \in Seq(S)
    PROVE  s \o <<>> = s /\ <<>> \o s = s
BY SMT

(* The elements of a concatenation are those of its two parts.             *)
LEMMA ConcatRange ==
    ASSUME NEW S, NEW s \in Seq(S), NEW t \in Seq(S)
    PROVE  Range(s \o t) = Range(s) \cup Range(t)
<1>1. /\ DOMAIN s = 1 .. Len(s) /\ DOMAIN t = 1 .. Len(t) /\ Len(s) \in Nat /\ Len(t) \in Nat
      /\ DOMAIN (s \o t) = 1 .. Len(s) + Len(t)
      /\ \A i \in 1 .. Len(s) + Len(t) :
            (s \o t)[i] = IF i <= Len(s) THEN s[i] ELSE t[i - Len(s)]
  BY SMT
<1>2. ASSUME NEW x \in Range(t) PROVE x \in Range(s \o t)
  <2>1. PICK i \in 1 .. Len(t) : t[i] = x
    BY <1>1 DEF Range
  <2>2. /\ Len(s) + i \in 1 .. Len(s) + Len(t) /\ ~(Len(s) + i <= Len(s))
        /\ (Len(s) + i) - Len(s) = i
    BY <1>1, SMT
  <2> QED
    BY <1>1, <2>1, <2>2 DEF Range
<1>3. ASSUME NEW x \in Range(s) PROVE x \in Range(s \o t)
  BY <1>1, SMT DEF Range
<1>4. ASSUME NEW x \in Range(s \o t) PROVE x \in Range(s) \cup Range(t)
  BY <1>1, SMT DEF Range
<1> QED
  BY <1>2, <1>3, <1>4

(* Appending, to the back or to the front, adds one element.               *)
LEMMA AppendRange ==
    ASSUME NEW S, NEW s \in Seq(S), NEW e \in S
    PROVE  /\ Append(s, e) \in Seq(S)
           /\ Range(Append(s, e)) = Range(s) \cup {e}
           /\ IsInjective(s) /\ e \notin Range(s) => IsInjective(Append(s, e))
<1>1. /\ Append(s, e) \in Seq(S)
      /\ DOMAIN Append(s, e) = 1 .. Len(s) + 1 /\ DOMAIN s = 1 .. Len(s) /\ Len(s) \in Nat
      /\ \A i \in 1 .. Len(s) : Append(s, e)[i] = s[i]
      /\ Append(s, e)[Len(s) + 1] = e
  BY SMT
<1>2. Range(Append(s, e)) = Range(s) \cup {e}
  BY <1>1, SMT DEF Range
<1>3. IsInjective(s) /\ e \notin Range(s) => IsInjective(Append(s, e))
  BY <1>1, SMT DEF Range, IsInjective
<1> QED
  BY <1>1, <1>2, <1>3

(* What is in a sequence with an element put before it.                    *)
LEMMA ConsRange ==
    ASSUME NEW S, NEW s \in Seq(S), NEW e \in S
    PROVE  /\ <<e>> \o s \in Seq(S)
           /\ Range(<<e>> \o s) = Range(s) \cup {e}
           /\ IsInjective(s) /\ e \notin Range(s) => IsInjective(<<e>> \o s)
<1> DEFINE c == <<e>> \o s
<1>1. /\ c \in Seq(S)
      /\ DOMAIN c = 1 .. Len(s) + 1 /\ DOMAIN s = 1 .. Len(s) /\ Len(s) \in Nat
      /\ \A i \in 1 .. Len(s) : c[i + 1] = s[i]
      /\ c[1] = e
  BY SMT
<1> HIDE DEF c
<1>2. \A i \in 2 .. Len(s) + 1 : c[i] = s[i - 1] /\ i - 1 \in DOMAIN s
  <2> TAKE i \in 2 .. Len(s) + 1
  <2>1. i - 1 \in 1 .. Len(s) /\ (i - 1) + 1 = i
    BY <1>1, SMT
  <2> QED
    BY <1>1, <2>1
<1>3. Range(c) = Range(s) \cup {e}
  <2>1. \A i \in DOMAIN c : c[i] \in Range(s) \cup {e}
    <3> TAKE i \in DOMAIN c
    <3>1. i = 1 \/ i \in 2 .. Len(s) + 1
      BY <1>1, SMT
    <3> QED
      BY <1>1, <1>2, <3>1 DEF Range
  <2>2. \A i \in DOMAIN s : s[i] \in Range(c)
    <3> TAKE i \in DOMAIN s
    <3>1. i + 1 \in DOMAIN c /\ c[i + 1] = s[i]
      BY <1>1, SMT
    <3> QED
      BY <3>1 DEF Range
  <2>3. e \in Range(c)
    BY <1>1, SMT DEF Range
  <2> QED
    BY <2>1, <2>2, <2>3 DEF Range
<1>4. IsInjective(s) /\ e \notin Range(s) => IsInjective(c)
  <2> SUFFICES ASSUME IsInjective(s), e \notin Range(s), NEW a \in DOMAIN c, NEW b \in DOMAIN c,
                      c[a] = c[b]
               PROVE  a = b
    BY DEF IsInjective
  <2>1. \A i \in DOMAIN c : i = 1 \/ i \in 2 .. Len(s) + 1
    BY <1>1, SMT
  <2>2. \A i \in 2 .. Len(s) + 1 : c[i] # e
    BY <1>2 DEF Range
  <2>3. CASE a \in 2 .. Len(s) + 1 /\ b \in 2 .. Len(s) + 1
    <3>1. a - 1 = b - 1
      BY <1>2, <2>3 DEF IsInjective
    <3> QED
      BY <2>3, <3>1, SMT
  <2> QED
    BY <1>1, <2>1, <2>2, <2>3
<1> QED
  BY <1>1, <1>3, <1>4 DEF c

(* Taking the first element off.                                           *)
LEMMA TailRange ==
    ASSUME NEW S, NEW s \in Seq(S), s # <<>>
    PROVE  /\ Head(s) \in S /\ Head(s) \in Range(s)
           /\ Tail(s) \in Seq(S)
           /\ Range(Tail(s)) \subseteq Range(s)
           /\ Range(s) = Range(Tail(s)) \cup {Head(s)}
           /\ IsInjective(s) => /\ IsInjective(Tail(s))
                                /\ Range(Tail(s)) = Range(s) \ {Head(s)}
<1> DEFINE c == Tail(s)
<1>1. /\ Head(s) \in S /\ c \in Seq(S)
      /\ DOMAIN s = 1 .. Len(s) /\ Len(s) \in Nat /\ Len(s) >= 1
      /\ DOMAIN c = 1 .. Len(s) - 1
      /\ \A i \in 1 .. Len(s) - 1 : c[i] = s[i + 1]
      /\ s[1] = Head(s)
  BY SMT
<1> HIDE DEF c
<1>2. \A i \in 1 .. Len(s) - 1 : i + 1 \in DOMAIN s /\ i + 1 # 1
  BY <1>1, SMT
<1>3. \A i \in 2 .. Len(s) : i - 1 \in DOMAIN c /\ c[i - 1] = s[i]
  <2> TAKE i \in 2 .. Len(s)
  <2>1. i - 1 \in 1 .. Len(s) - 1 /\ (i - 1) + 1 = i
    BY <1>1, SMT
  <2> QED
    BY <1>1, <2>1
<1>4. Head(s) \in Range(s)
  BY <1>1, SMT DEF Range
<1>5. Range(c) \subseteq Range(s)
  BY <1>1, <1>2 DEF Range
<1>6. Range(s) = Range(c) \cup {Head(s)}
  <2>1. \A i \in DOMAIN s : s[i] \in Range(c) \cup {Head(s)}
    <3> TAKE i \in DOMAIN s
    <3>1. i = 1 \/ i \in 2 .. Len(s)
      BY <1>1, SMT
    <3> QED
      BY <1>1, <1>3, <3>1 DEF Range
  <2> QED
    BY <1>4, <1>5, <2>1 DEF Range
<1>7. ASSUME IsInjective(s) PROVE IsInjective(c) /\ Head(s) \notin Range(c)
  <2>1. IsInjective(c)
    <3> SUFFICES ASSUME NEW a \in DOMAIN c, NEW b \in DOMAIN c, c[a] = c[b] PROVE a = b
      BY DEF IsInjective
    <3>1. PICK i \in DOMAIN s : i = a + 1 /\ c[a] = s[i]
      BY <1>1, <1>2
    <3>2. PICK j \in DOMAIN s : j = b + 1 /\ c[b] = s[j]
      BY <1>1, <1>2
    <3>3. i = j
      BY <1>7, <3>1, <3>2 DEF IsInjective
    <3> QED
      BY <1>1, <3>1, <3>2, <3>3, SMT
  <2>2. Head(s) \notin Range(c)
    <3> SUFFICES ASSUME NEW a \in DOMAIN c, c[a] = Head(s) PROVE FALSE
      BY DEF Range
    <3>1. PICK i \in DOMAIN s : i = a + 1 /\ c[a] = s[i]
      BY <1>1, <1>2
    <3>2. 1 \in DOMAIN s /\ s[1] = Head(s)
      BY <1>1, SMT
    <3>3. i = 1
      BY <1>7, <3>1, <3>2 DEF IsInjective
    <3> QED
      BY <1>1, <3>1, <3>3, SMT
  <2> QED
    BY <2>1, <2>2
<1> QED
  BY <1>1, <1>4, <1>5, <1>6, <1>7 DEF c

(* RemoveFirst takes out one occurrence, which is the only one in a list   *)
(* without repetition.                                                     *)
LEMMA RemoveFirstRange ==
    ASSUME NEW S, NEW s \in Seq(S), NEW e
    PROVE  /\ RemoveFirst(s, e) \in Seq(S)
           /\ IsInjective(s) => /\ IsInjective(RemoveFirst(s, e))
                                /\ Range(RemoveFirst(s, e)) = Range(s) \ {e}
<1>1. CASE e \notin Range(s)
  BY <1>1 DEF RemoveFirst
<1>2. CASE e \in Range(s)
  <2>1. PICK n \in Nat : n = Len(s) /\ DOMAIN s = 1 .. n /\ n >= 1
    BY <1>2, SMT DEF Range
  <2> DEFINE c == [i \in 1 .. n - 1 |-> IF \E j \in 1 .. i : s[j] = e THEN s[i + 1] ELSE s[i]]
  <2>2. RemoveFirst(s, e) = c
    BY <1>2, <2>1 DEF RemoveFirst
  <2>3. c \in Seq(S)
    <3>1. \A i \in 1 .. n - 1 : i \in 1 .. n /\ i + 1 \in 1 .. n
      BY <2>1, SMT
    <3>2. \A i \in 1 .. n : s[i] \in S
      BY <2>1, SMT
    <3>3. c \in [1 .. n - 1 -> S]
      BY <3>1, <3>2
    <3> HIDE DEF c
    <3> QED
      BY <2>1, <3>3, SMT
  <2>4. ASSUME IsInjective(s)
        PROVE  IsInjective(c) /\ Range(c) = Range(s) \ {e}
    <3>1. PICK k \in 1 .. n : s[k] = e
      BY <1>2, <2>1, SMT DEF Range
    <3>2. \A i, j \in 1 .. n : s[i] = s[j] => i = j
      BY <2>1, <2>4 DEF IsInjective
    <3> DEFINE At(i) == IF k <= i THEN i + 1 ELSE i
    <3>3. ASSUME NEW i \in 1 .. n - 1
          PROVE  c[i] = s[At(i)] /\ At(i) \in 1 .. n /\ At(i) # k
      <4>1. i \in 1 .. n /\ \A j \in 1 .. i : j \in 1 .. n
        BY <2>1, SMT
      <4>2. (\E j \in 1 .. i : s[j] = e) <=> k \in 1 .. i
        BY <3>1, <3>2, <4>1
      <4>3. k \in 1 .. i <=> k <= i
        BY <2>1, SMT
      <4>4. c[i] = s[At(i)]
        BY <4>2, <4>3
      <4> QED
        BY <2>1, <4>4, SMT
    <3>4. ASSUME NEW i \in 1 .. n, i # k
          PROVE  \E j \in 1 .. n - 1 : At(j) = i
      <4>1. CASE i < k
        <5>1. i \in 1 .. n - 1 /\ At(i) = i
          BY <2>1, <4>1, SMT
        <5> QED
          BY <5>1
      <4>2. CASE k < i
        <5>1. i - 1 \in 1 .. n - 1 /\ At(i - 1) = i
          BY <2>1, <4>2, SMT
        <5> QED
          BY <5>1
      <4> QED
        BY <2>1, <3>4, <4>1, <4>2, SMT
    <3>5. \A i, j \in 1 .. n - 1 : At(i) = At(j) => i = j
      BY <2>1, SMT
    <3>6. DOMAIN c = 1 .. n - 1
      OBVIOUS
    <3> HIDE DEF c, At
    <3>7. IsInjective(c)
      BY <3>2, <3>3, <3>5, <3>6 DEF IsInjective
    <3>8. Range(c) = {s[At(i)] : i \in 1 .. n - 1}
      BY <3>3, <3>6 DEF Range
    <3>9. Range(s) = {s[i] : i \in 1 .. n}
      BY <2>1 DEF Range
    <3>10. \A i \in 1 .. n - 1 : s[At(i)] \in Range(s) \ {e}
      BY <3>1, <3>2, <3>3, <3>9
    <3>11. \A x \in Range(s) \ {e} : x \in Range(c)
      BY <3>1, <3>4, <3>8, <3>9
    <3> QED
      BY <3>7, <3>8, <3>10, <3>11
  <2> QED
    BY <2>2, <2>3, <2>4
<1> QED
  BY <1>1, <1>2

(* Nothing follows the only element of a sequence.                         *)
LEMMA LastTail ==
    ASSUME NEW S, NEW s \in Seq(S), s # <<>>
    PROVE  /\ Len(s) = 1 => Tail(s) = <<>>
           /\ Len(s) # 1 => Tail(s) # <<>>
<1>1. Tail(s) \in Seq(S) /\ Len(Tail(s)) = Len(s) - 1 /\ Len(s) \in Nat
  BY SMT
<1>2. Len(Tail(s)) = 0 <=> Tail(s) = <<>>
  BY <1>1, EmptyLength
<1> QED
  BY <1>1, <1>2, SMT
-----------------------------------------------------------------------------
(* Where a call stands in a routine: calls are made in the order of their  *)
(* ranks, and a call that is nested in another one comes before it.        *)
Rank(c) ==
    CASE c.op = "add" -> 0
      [] c.op = "acquire" -> 1
      [] c.op = "update" -> 1
      [] c.op = "remove" -> 2
      [] c.op = "resume" -> 3
      [] c.op = "wakeup" -> 4
      [] c.op = "arbiter" -> 4
      [] c.op = "release" -> 5
      [] c.op = "stop" -> 6

Ordered(s) == \A i, j \in DOMAIN s : i < j => Rank(s[i]) < Rank(s[j])

(* A call whose loop has an element left, over a thread that waits.        *)
CallSound(c) ==
    /\ c.op \in {"acquire", "add"} => c.objects # <<>>
    /\ c.op = "add" => status[c.thread] \in SynchStatus
    /\ c.op = "remove" => wait_objects[c.thread] # <<>>

TodoInv == Ordered(todo) /\ \A c \in Range(todo) : CallSound(c)

(* The current thread is the running one, except between a system call     *)
(* that makes it wait or exit and the reschedule.                          *)
CpuInv ==
    /\ \A t \in Thread : status[t] = "Running" => t = current_thread
    /\ phase = "run" => current_thread # NULL
    /\ current_thread # NULL /\ (phase # "resched" \/ ~reschedule_pending) =>
           status[current_thread] = "Running"

IInv == TypeOK /\ ReadyQueueExact /\ CpuInv /\ WaitListsExact /\ TodoInv
-----------------------------------------------------------------------------
(* The fields of a call, by the operation it stands for.                   *)
LEMMA CallFields ==
    ASSUME NEW c \in Call
    PROVE  /\ c.op = "wakeup" => c.object \in WaitObject
           /\ c.op \in {"acquire", "add"} => c.thread \in Thread /\ c.objects \in Seq(WaitObject)
           /\ c.op \in {"remove", "resume"} => c.thread \in Thread
           /\ c.op = "remove" => c = RemoveWaitingThreadEach(c.thread)
           /\ c.op = "release" => c.thread \in Thread /\ c.mutexes \in SUBSET Mutex
           /\ c.op = "update" => c.mutexes \in SUBSET Mutex
           /\ c.op = "arbiter" => c.address \in Address /\ c.count \in Int
           /\ Rank(c) \in 0 .. 6
  BY SMT DEF Call, WakeupAllWaitingThreads, RemoveWaitingThreadEach, Rank

(* The rank of a call follows from its operation.                          *)
LEMMA RankOf ==
    ASSUME NEW c
    PROVE  /\ c.op = "add" => Rank(c) = 0
           /\ c.op \in {"acquire", "update"} => Rank(c) = 1
           /\ c.op = "remove" => Rank(c) = 2
           /\ c.op = "resume" => Rank(c) = 3
           /\ c.op \in {"wakeup", "arbiter"} => Rank(c) = 4
           /\ c.op = "release" => Rank(c) = 5
  BY DEF Rank

(* What each kind of call is, and where it stands.                         *)
LEMMA CallTypes ==
    /\ \A o \in WaitObject : LET c == WakeupAllWaitingThreads(o) IN
          c \in Call /\ c.op = "wakeup" /\ Rank(c) = 4
    /\ \A t \in Thread, objs \in Seq(WaitObject) : LET c == AcquireEach(t, objs) IN
          c \in Call /\ c.op = "acquire" /\ c.objects = objs /\ Rank(c) = 1
    /\ \A t \in Thread, objs \in Seq(WaitObject) : LET c == AddWaitingThreadEach(t, objs) IN
          c \in Call /\ c.op = "add" /\ c.thread = t /\ c.objects = objs /\ Rank(c) = 0
    /\ \A t \in Thread : LET c == RemoveWaitingThreadEach(t) IN
          c \in Call /\ c.op = "remove" /\ c.thread = t /\ Rank(c) = 2
    /\ \A t \in Thread : LET c == ResumeFromWait(t) IN
          c \in Call /\ c.op = "resume" /\ Rank(c) = 3
    /\ \A t \in Thread, ms \in SUBSET Mutex : LET c == ReleaseThreadMutexes(t, ms) IN
          c \in Call /\ c.op = "release" /\ Rank(c) = 5
    /\ \A ms \in SUBSET Mutex : LET c == UpdatePriorityEach(ms) IN
          c \in Call /\ c.op = "update" /\ Rank(c) = 1
    /\ \A a \in Address, n \in Int : LET c == ResumeHighest(a, n) IN
          c \in Call /\ c.op = "arbiter" /\ Rank(c) = 4
<1> USE DEF Call, Rank
<1>1. \A o \in WaitObject : LET c == WakeupAllWaitingThreads(o) IN
          c \in Call /\ c.op = "wakeup" /\ Rank(c) = 4
  BY DEF WakeupAllWaitingThreads
<1>2. \A t \in Thread, objs \in Seq(WaitObject) : LET c == AcquireEach(t, objs) IN
          c \in Call /\ c.op = "acquire" /\ c.objects = objs /\ Rank(c) = 1
  BY SMT DEF AcquireEach
<1>3. \A t \in Thread, objs \in Seq(WaitObject) : LET c == AddWaitingThreadEach(t, objs) IN
          c \in Call /\ c.op = "add" /\ c.thread = t /\ c.objects = objs /\ Rank(c) = 0
  BY SMT DEF AddWaitingThreadEach
<1>4. \A t \in Thread : LET c == RemoveWaitingThreadEach(t) IN
          c \in Call /\ c.op = "remove" /\ c.thread = t /\ Rank(c) = 2
  BY DEF RemoveWaitingThreadEach
<1>5. \A t \in Thread : LET c == ResumeFromWait(t) IN
          c \in Call /\ c.op = "resume" /\ Rank(c) = 3
  BY DEF ResumeFromWait
<1>6. \A t \in Thread, ms \in SUBSET Mutex : LET c == ReleaseThreadMutexes(t, ms) IN
          c \in Call /\ c.op = "release" /\ Rank(c) = 5
  BY DEF ReleaseThreadMutexes
<1>7. \A ms \in SUBSET Mutex : LET c == UpdatePriorityEach(ms) IN
          c \in Call /\ c.op = "update" /\ Rank(c) = 1
  BY DEF UpdatePriorityEach
<1>8. \A a \in Address, n \in Int : LET c == ResumeHighest(a, n) IN
          c \in Call /\ c.op = "arbiter" /\ Rank(c) = 4
  BY DEF ResumeHighest
<1> HIDE DEF Call, Rank
<1> QED
  BY <1>1, <1>2, <1>3, <1>4, <1>5, <1>6, <1>7, <1>8

(* A call put before calls of higher ranks.                                *)
LEMMA ConsOrdered ==
    ASSUME NEW s \in Seq(Call), NEW c \in Call, Ordered(s),
           \A d \in Range(s) : Rank(c) < Rank(d)
    PROVE  Ordered(<<c>> \o s)
<1> DEFINE r == <<c>> \o s
<1>1. /\ DOMAIN r = 1 .. Len(s) + 1 /\ DOMAIN s = 1 .. Len(s) /\ Len(s) \in Nat
      /\ r[1] = c /\ \A i \in 2 .. Len(s) + 1 : r[i] = s[i - 1]
  BY SMT
<1>2. SUFFICES ASSUME NEW i \in DOMAIN r, NEW j \in DOMAIN r, i < j
               PROVE  Rank(r[i]) < Rank(r[j])
  BY DEF Ordered
<1> HIDE DEF r
<1>3. j \in 2 .. Len(s) + 1 /\ j - 1 \in DOMAIN s /\ r[j] = s[j - 1]
  BY <1>1, <1>2, SMT
<1>4. CASE i = 1
  BY <1>1, <1>3, <1>4 DEF Range
<1>5. CASE i # 1
  <2>1. i \in 2 .. Len(s) + 1 /\ i - 1 \in DOMAIN s /\ r[i] = s[i - 1] /\ i - 1 < j - 1
    BY <1>1, <1>2, <1>3, <1>5, SMT
  <2> QED
    BY <1>3, <2>1 DEF Ordered
<1> QED
  BY <1>4, <1>5

(* The calls after the first one have higher ranks.                        *)
LEMMA TailOrdered ==
    ASSUME NEW s \in Seq(Call), s # <<>>, Ordered(s)
    PROVE  /\ Ordered(Tail(s))
           /\ \A d \in Range(Tail(s)) : Rank(Head(s)) < Rank(d)
<1> DEFINE r == Tail(s)
<1>1. /\ DOMAIN r = 1 .. Len(s) - 1 /\ DOMAIN s = 1 .. Len(s) /\ Len(s) \in Nat
      /\ \A i \in 1 .. Len(s) - 1 : r[i] = s[i + 1]
      /\ Head(s) = s[1]
  BY SMT
<1> HIDE DEF r
<1>2. ASSUME NEW i \in DOMAIN r, NEW j \in DOMAIN r, i < j
      PROVE  Rank(r[i]) < Rank(r[j])
  <2>1. i + 1 \in DOMAIN s /\ j + 1 \in DOMAIN s /\ i + 1 < j + 1
    BY <1>1, <1>2, SMT
  <2> QED
    BY <1>1, <1>2, <2>1 DEF Ordered
<1>3. ASSUME NEW d \in Range(r)
      PROVE  Rank(Head(s)) < Rank(d)
  <2>1. PICK i \in DOMAIN r : d = r[i]
    BY DEF Range
  <2>2. i + 1 \in DOMAIN s /\ 1 \in DOMAIN s /\ 1 < i + 1
    BY <1>1, SMT
  <2> QED
    BY <1>1, <2>1, <2>2 DEF Ordered
<1> QED
  BY <1>2, <1>3 DEF Ordered, r

(* The empty list and a single call.                                       *)
LEMMA ShortOrdered ==
    ASSUME NEW c \in Call
    PROVE  /\ <<>> \in Seq(Call) /\ Range(<<>>) = {} /\ Ordered(<<>>)
           /\ <<c>> \in Seq(Call) /\ Range(<<c>>) = {c} /\ Ordered(<<c>>)
  BY SMT DEF Range, Ordered
-----------------------------------------------------------------------------
=============================================================================
