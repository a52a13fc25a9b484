----------------------------- MODULE BaseProofs -----------------------------
(***************************************************************************)
(* Proofs about the three parts that the loops are built on and that share *)
(* no state: ThreadPool, Buffer, and Poller with its Channels.             *)
(***************************************************************************)
EXTENDS ThreadPool, Buffer, Poller, QueueLemmas, FiniteSetTheorems

(* ThreadPool, for every finite set of workers and of submitting threads   *)
(* and for every number of tasks.                                          *)

\* CriticalSection and NoOversleep rest on what cv_.wait's predicate was when
\* the worker tested it: as the worker still holds mutex_, nobody has added
\* or taken a task since, and stop_ is never reset.
PredicateHolds ==
  \A w \in Workers :
    /\ wpc[w] = "stop?" => ShouldWake
    /\ wpc[w] = "sleep" => tasks_ = <<>>

PoolInv ==
  PoolTypeOK /\ HandedOutInOrder /\ CriticalSection /\ PredicateHolds /\ NoOversleep
-----------------------------------------------------------------------------
\* The constructed pool satisfies the invariant.
LEMMA PoolInitInv == PoolInit => PoolInv
<1> SUFFICES ASSUME PoolInit PROVE PoolInv
  OBVIOUS
<1>1. PoolTypeOK
  <2>1. tasks_ \in Seq(1..MaxTasks) /\ started \in Seq(1..MaxTasks)
    BY DEF PoolInit
  <2>2. submitted \in 0..MaxTasks
    BY PoolConstants DEF PoolInit
  <2> QED BY <2>1, <2>2 DEF PoolInit, PoolTypeOK, WorkerPcs
<1>2. HandedOutInOrder
  <2>1. <<>> \o <<>> = [i \in 1..0 |-> i]
    OBVIOUS
  <2> QED BY <2>1 DEF PoolInit, HandedOutInOrder
<1>3. CriticalSection /\ PredicateHolds
  BY PoolConstants DEF PoolInit, CriticalSection, PredicateHolds
<1>4. Asleep = {}
  BY DEF PoolInit, Asleep
<1> QED BY <1>1, <1>2, <1>3, <1>4 DEF PoolInv, NoOversleep

\* The types are preserved by every step; a pop has something to pop.
LEMMA TypeStep == PoolTypeOK /\ CriticalSection /\ [PoolNext]_poolVars => PoolTypeOK'
<1> SUFFICES ASSUME PoolTypeOK, CriticalSection, [PoolNext]_poolVars PROVE PoolTypeOK'
  OBVIOUS
<1> USE PoolConstants DEF PoolTypeOK, WorkerPcs, Threads, Goto
<1>1. ASSUME NEW w \in Workers, Lock(w) PROVE PoolTypeOK'
  BY <1>1 DEF Lock
<1>2. ASSUME NEW w \in Workers, Test(w) PROVE PoolTypeOK'
  BY <1>2 DEF Test
<1>3. ASSUME NEW w \in Workers, Sleep(w) PROVE PoolTypeOK'
  BY <1>3 DEF Sleep
<1>4. ASSUME NEW w \in Workers, SpuriousWakeup(w) PROVE PoolTypeOK'
  BY <1>4 DEF SpuriousWakeup
<1>5. ASSUME NEW w \in Workers, TestStop(w) PROVE PoolTypeOK'
  BY <1>5 DEF TestStop
<1>6. ASSUME NEW w \in Workers, Pop(w) PROVE PoolTypeOK'
  <2>1. tasks_ # <<>>
    BY <1>6 DEF Pop, CriticalSection
  <2>2. /\ Append(started, Head(tasks_)) \in Seq(1..MaxTasks)
        /\ Tail(tasks_) \in Seq(1..MaxTasks)
    BY <2>1, MoveHead
  <2> QED BY <1>6, <2>2 DEF Pop, Popped
<1>7. ASSUME NEW w \in Workers, Finish(w) PROVE PoolTypeOK'
  BY <1>7 DEF Finish
<1>8. ASSUME NEW t \in Threads, Submit(t) PROVE PoolTypeOK'
  BY <1>8 DEF Submit
<1>9. ASSUME NEW t \in Threads, SubmitThrows(t) PROVE PoolTypeOK'
  BY <1>9 DEF SubmitThrows
<1>10. ASSUME NEW t \in Threads, NotifyOne(t) PROVE PoolTypeOK'
  BY <1>10 DEF NotifyOne, Wakeable, Asleep
<1>11. CASE Stop
  BY <1>11 DEF Stop
<1>12. CASE NotifyAll
  BY <1>12 DEF NotifyAll
<1>13. CASE Join
  BY <1>13 DEF Join
<1>14. CASE UNCHANGED poolVars
  BY <1>14 DEF poolVars
<1> QED
  BY <1>1, <1>2, <1>3, <1>4, <1>5, <1>6, <1>7, <1>8, <1>9, <1>10, <1>11,
     <1>12, <1>13, <1>14
  DEF PoolNext, WorkerStep, Destroy

-----------------------------------------------------------------------------
\* Tasks are only moved from the queue to the workers and added at its end.
LEMMA OrderStep ==
  PoolTypeOK /\ CriticalSection /\ HandedOutInOrder /\ [PoolNext]_poolVars => HandedOutInOrder'
<1> SUFFICES ASSUME PoolTypeOK, CriticalSection, HandedOutInOrder, [PoolNext]_poolVars
             PROVE  HandedOutInOrder'
  OBVIOUS
<1>0. /\ tasks_ \in Seq(1..MaxTasks) /\ started \in Seq(1..MaxTasks)
      /\ submitted \in Nat
  BY PoolConstants DEF PoolTypeOK
<1>1. ASSUME NEW w \in Workers, Pop(w) PROVE HandedOutInOrder'
  <2>1. tasks_ # <<>>
    BY <1>1 DEF Pop, CriticalSection
  <2>2. Append(started, Head(tasks_)) \o Tail(tasks_) = started \o tasks_
    BY <1>0, <2>1, MoveHead
  <2> QED BY <1>1, <2>2 DEF Pop, Popped, HandedOutInOrder
<1>2. ASSUME NEW t \in Threads, Submit(t) PROVE HandedOutInOrder'
  <2>1. started \o Append(tasks_, submitted + 1)
          = Append(started \o tasks_, submitted + 1)
    BY <1>0, AppendToConcat, submitted + 1 \in Nat, 1..MaxTasks \subseteq Nat
  <2>2. Append([i \in 1..submitted |-> i], submitted + 1)
          = [i \in 1..(submitted + 1) |-> i]
    BY <1>0
  <2> QED BY <1>2, <2>1, <2>2 DEF Submit, HandedOutInOrder
<1>3. CASE UNCHANGED <<tasks_, started, submitted>>
  BY <1>3 DEF HandedOutInOrder
<1> QED
  BY <1>1, <1>2, <1>3
  DEF PoolNext, WorkerStep, Destroy, Lock, Test, Sleep, SpuriousWakeup, TestStop,
      Finish, SubmitThrows, NotifyOne, Stop, NotifyAll, Join, poolVars

-----------------------------------------------------------------------------
\* mutex_ is passed on only by its holder, and what the predicate said holds
\* until the holder gives it up.
LEMMA MutexStep ==
  PoolTypeOK /\ CriticalSection /\ PredicateHolds /\ [PoolNext]_poolVars
    => CriticalSection' /\ PredicateHolds'
<1> SUFFICES ASSUME PoolTypeOK, CriticalSection, PredicateHolds, [PoolNext]_poolVars
             PROVE  CriticalSection' /\ PredicateHolds'
  OBVIOUS
<1> USE PoolConstants DEF CriticalSection, PredicateHolds, ShouldWake, Goto
<1>0. wpc \in [Workers -> WorkerPcs] /\ Nobody \notin Workers
  BY DEF PoolTypeOK
<1>1. ASSUME NEW w \in Workers, Lock(w) PROVE CriticalSection' /\ PredicateHolds'
  BY <1>0, <1>1 DEF Lock
<1>2. ASSUME NEW w \in Workers, Test(w) PROVE CriticalSection' /\ PredicateHolds'
  BY <1>0, <1>2 DEF Test
<1>3. ASSUME NEW w \in Workers, Sleep(w) PROVE CriticalSection' /\ PredicateHolds'
  BY <1>0, <1>3 DEF Sleep
<1>4. ASSUME NEW w \in Workers, SpuriousWakeup(w)
      PROVE  CriticalSection' /\ PredicateHolds'
  BY <1>0, <1>4 DEF SpuriousWakeup
<1>5. ASSUME NEW w \in Workers, TestStop(w)
      PROVE  CriticalSection' /\ PredicateHolds'
  BY <1>0, <1>5 DEF TestStop
<1>6. ASSUME NEW w \in Workers, Pop(w) PROVE CriticalSection' /\ PredicateHolds'
  BY <1>0, <1>6 DEF Pop
<1>7. ASSUME NEW w \in Workers, Finish(w) PROVE CriticalSection' /\ PredicateHolds'
  BY <1>0, <1>7 DEF Finish
<1>8. ASSUME NEW t \in Threads, Submit(t) PROVE CriticalSection' /\ PredicateHolds'
  BY <1>0, <1>8 DEF Submit, CanSubmit
<1>9. ASSUME NEW t \in Threads, SubmitThrows(t)
      PROVE  CriticalSection' /\ PredicateHolds'
  BY <1>0, <1>9 DEF SubmitThrows
<1>10. ASSUME NEW t \in Threads, NotifyOne(t)
       PROVE  CriticalSection' /\ PredicateHolds'
  BY <1>0, <1>10 DEF NotifyOne, Wakeable, Asleep
<1>11. CASE Stop
  BY <1>0, <1>11 DEF Stop
<1>12. CASE NotifyAll
  BY <1>0, <1>12 DEF NotifyAll, Asleep
<1>13. CASE Join
  BY <1>0, <1>13 DEF Join
<1>14. CASE UNCHANGED poolVars
  BY <1>0, <1>14 DEF poolVars
<1> QED
  BY <1>1, <1>2, <1>3, <1>4, <1>5, <1>6, <1>7, <1>8, <1>9, <1>10, <1>11,
     <1>12, <1>13, <1>14
  DEF PoolNext, WorkerStep, Destroy

-----------------------------------------------------------------------------
\* The sets NoOversleep counts are finite, before and after a step.
LEMMA CountsAreNat ==
  ASSUME PoolTypeOK, PoolTypeOK'
  PROVE  /\ IsFiniteSet(OnTheirWay) /\ Cardinality(OnTheirWay) \in Nat
         /\ IsFiniteSet(OnTheirWay') /\ Cardinality(OnTheirWay') \in Nat
         /\ IsFiniteSet(notifying) /\ Cardinality(notifying) \in Nat
         /\ Cardinality(notifying') \in Nat
         /\ Len(tasks_) \in Nat
<1>1. IsFiniteSet(Threads)
  BY FiniteWorkers, FS_Union DEF Threads
<1>2. /\ OnTheirWay \subseteq Workers /\ OnTheirWay' \subseteq Workers
      /\ notifying \subseteq Threads /\ notifying' \subseteq Threads
  BY DEF OnTheirWay, PoolTypeOK
<1>3. /\ IsFiniteSet(OnTheirWay) /\ IsFiniteSet(OnTheirWay')
      /\ IsFiniteSet(notifying) /\ IsFiniteSet(notifying')
  BY <1>1, <1>2, FiniteWorkers, FS_Subset
<1>4. tasks_ \in Seq(1..MaxTasks)
  BY DEF PoolTypeOK
<1> QED BY <1>3, <1>4, FS_CardinalityType, LenProperties

\* A step that sends no worker away from the queue, adds no task, drops no
\* notification and puts nobody to sleep keeps the count.
LEMMA CountKept ==
  ASSUME PoolTypeOK, PoolTypeOK', NoOversleep,
         OnTheirWay \subseteq OnTheirWay', UNCHANGED <<tasks_, notifying>>,
         Asleep' # {} => Asleep # {}, stop_ => stop_'
  PROVE  NoOversleep'
<1>1. Cardinality(OnTheirWay) <= Cardinality(OnTheirWay')
  BY CountsAreNat, FS_Subset
<1> QED BY <1>1, CountsAreNat DEF NoOversleep

\* Every queued task keeps a worker or a notification on its way.
LEMMA OversleepStep == PoolInv /\ PoolTypeOK' /\ [PoolNext]_poolVars => NoOversleep'
<1> SUFFICES ASSUME PoolInv, PoolTypeOK', [PoolNext]_poolVars PROVE NoOversleep'
  OBVIOUS
<1>0. /\ PoolTypeOK /\ CriticalSection /\ PredicateHolds /\ NoOversleep
      /\ wpc \in [Workers -> WorkerPcs]
      /\ tasks_ \in Seq(1..MaxTasks)
  BY DEF PoolInv, PoolTypeOK
<1>1. /\ IsFiniteSet(OnTheirWay) /\ Cardinality(OnTheirWay) \in Nat
      /\ IsFiniteSet(OnTheirWay') /\ Cardinality(OnTheirWay') \in Nat
      /\ IsFiniteSet(notifying) /\ Cardinality(notifying) \in Nat
      /\ Cardinality(notifying') \in Nat
      /\ Len(tasks_) \in Nat
  BY <1>0, CountsAreNat
\* No task is queued: nothing is owed to the sleepers.
<1>2. ASSUME tasks_' = <<>> PROVE NoOversleep'
  BY <1>1, <1>2 DEF NoOversleep
<1>3. ASSUME NEW w \in Workers, Lock(w) PROVE NoOversleep'
  BY <1>0, <1>3, CountKept DEF Lock, Goto, OnTheirWay, Asleep
<1>4. ASSUME NEW w \in Workers, Test(w) PROVE NoOversleep'
  <2>1. CASE ShouldWake
    BY <1>0, <1>4, <2>1, CountKept DEF Test, Goto, OnTheirWay, Asleep
  <2>2. CASE ~ShouldWake
    BY <1>2, <1>4, <2>2 DEF Test, ShouldWake
  <2> QED BY <2>1, <2>2
<1>5. ASSUME NEW w \in Workers, Sleep(w) PROVE NoOversleep'
  BY <1>0, <1>2, <1>5 DEF Sleep, PredicateHolds
<1>6. ASSUME NEW w \in Workers, SpuriousWakeup(w) PROVE NoOversleep'
  BY <1>0, <1>6, CountKept DEF SpuriousWakeup, Goto, OnTheirWay, Asleep
<1>7. ASSUME NEW w \in Workers, TestStop(w) PROVE NoOversleep'
  <2>1. CASE stop_
    BY <1>7, <2>1 DEF TestStop, NoOversleep
  <2>2. CASE ~stop_
    BY <1>0, <1>7, <2>2, CountKept DEF TestStop, Goto, OnTheirWay, Asleep
  <2> QED BY <2>1, <2>2
\* One worker and one task less.
<1>8. ASSUME NEW w \in Workers, Pop(w) PROVE NoOversleep'
  <2>1. w \in OnTheirWay /\ OnTheirWay' = OnTheirWay \ {w} /\ Asleep' = Asleep
    BY <1>0, <1>8 DEF Pop, Goto, OnTheirWay, Asleep
  <2>2. Cardinality(OnTheirWay') = Cardinality(OnTheirWay) - 1
    BY <1>1, <2>1, FS_RemoveElement
  <2>3. Len(tasks_') = Len(tasks_) - 1
    <3>1. tasks_ # <<>>
      BY <1>0, <1>8 DEF Pop, CriticalSection
    <3> QED BY <1>0, <1>8, <3>1, HeadTailProperties DEF Pop, Popped
  <2>4. stop_' = stop_ /\ notifying' = notifying
    BY <1>8 DEF Pop
  <2> QED BY <1>0, <1>1, <2>1, <2>2, <2>3, <2>4 DEF NoOversleep
<1>9. ASSUME NEW w \in Workers, Finish(w) PROVE NoOversleep'
  BY <1>0, <1>9, CountKept DEF Finish, Goto, OnTheirWay, Asleep
\* One task and one notification more.
<1>10. ASSUME NEW t \in Threads, Submit(t) PROVE NoOversleep'
  <2>1. Cardinality(notifying') = Cardinality(notifying) + 1
    BY <1>1, <1>10, FS_AddElement DEF Submit, CanSubmit
  <2>2. Len(tasks_') = Len(tasks_) + 1
    BY <1>0, <1>10 DEF Submit
  <2>3. stop_' = stop_ /\ OnTheirWay' = OnTheirWay /\ Asleep' = Asleep
    BY <1>10 DEF Submit, OnTheirWay, Asleep
  <2> QED BY <1>0, <1>1, <2>1, <2>2, <2>3 DEF NoOversleep
<1>11. ASSUME NEW t \in Threads, SubmitThrows(t) PROVE NoOversleep'
  BY <1>0, <1>11, CountKept DEF SubmitThrows, OnTheirWay, Asleep
\* One notification less and, if anybody sleeps, one worker more.
<1>12. ASSUME NEW t \in Threads, NotifyOne(t) PROVE NoOversleep'
  <2>1. CASE Asleep = {} /\ UNCHANGED wpc
    BY <2>1 DEF NoOversleep, Asleep
  <2>2. ASSUME NEW w \in Asleep, Goto(w, "lock") PROVE NoOversleep'
    <3>1. w \notin OnTheirWay /\ OnTheirWay' = OnTheirWay \cup {w}
      BY <1>0, <2>2 DEF Goto, OnTheirWay, Asleep
    <3>2. Cardinality(OnTheirWay') = Cardinality(OnTheirWay) + 1
      BY <1>1, <3>1, FS_AddElement
    <3>3. Cardinality(notifying') = Cardinality(notifying) - 1
      BY <1>1, <1>12, FS_RemoveElement DEF NotifyOne
    <3>4. stop_' = stop_ /\ tasks_' = tasks_
      BY <1>12 DEF NotifyOne
    <3> QED BY <1>0, <1>1, <2>2, <3>2, <3>3, <3>4 DEF NoOversleep
  <2> QED BY <1>12, <2>1, <2>2 DEF NotifyOne, Wakeable
<1>13. CASE Stop
  BY <1>13 DEF Stop, NoOversleep
<1>14. CASE NotifyAll
  BY <1>14 DEF NotifyAll, NoOversleep, Asleep
<1>15. CASE Join
  BY <1>0, <1>15, CountKept DEF Join, OnTheirWay, Asleep
<1>16. CASE UNCHANGED poolVars
  BY <1>0, <1>16, CountKept DEF poolVars, OnTheirWay, Asleep
<1> QED
  BY <1>3, <1>4, <1>5, <1>6, <1>7, <1>8, <1>9, <1>10, <1>11, <1>12, <1>13,
     <1>14, <1>15, <1>16
  DEF PoolNext, WorkerStep, Destroy

-----------------------------------------------------------------------------
\* The invariant is inductive.
LEMMA PoolNextInv == PoolInv /\ [PoolNext]_poolVars => PoolInv'
BY TypeStep, OrderStep, MutexStep, OversleepStep DEF PoolInv

\* Types: the queue and the tasks handed out are accepted tasks, and mutex_
\* is free or held by a worker (ThreadPool's members).
THEOREM PoolTypeCorrect == PoolSpec => []PoolTypeOK
BY PoolInitInv, PoolNextInv, PTL DEF PoolSpec, PoolInv

\* Every task submit() accepted is handed to exactly one worker, in the order
\* of the submissions, whatever the number of workers.
THEOREM TasksInOrder == PoolSpec => []HandedOutInOrder
BY PoolInitInv, PoolNextInv, PTL DEF PoolSpec, PoolInv

\* At most one worker is between lock and unlock, and front() and pop() are
\* never called on an empty queue.
THEOREM MutualExclusion == PoolSpec => []CriticalSection
BY PoolInitInv, PoolNextInv, PTL DEF PoolSpec, PoolInv

\* notify_one after the unlock loses no wakeup: while a worker sleeps, every
\* queued task has a worker or a notification on its way.
THEOREM WorkersWake == PoolSpec => []NoOversleep
BY PoolInitInv, PoolNextInv, PTL DEF PoolSpec, PoolInv

-----------------------------------------------------------------------------
(* Buffer: every operation keeps the buffer well formed and, seen through  *)
(* the readable bytes, is an operation of ByteQueue.                       *)

\* The readable bytes are a byte string, as long as readableBytes says.
LEMMA ReadableIsString ==
  ASSUME NEW b, WellFormed(b)
  PROVE  /\ readableBytes(b) \in Nat
         /\ Readable(b) \in Seq(Byte)
         /\ Len(Readable(b)) = readableBytes(b)
         /\ \A i \in 1..readableBytes(b) :
              Readable(b)[i] = b.buffer_[b.readerIndex_ + i]
<1>1. readableBytes(b) \in Nat
  BY DEF WellFormed, readableBytes, Size
<1>2. \A i \in 1..readableBytes(b) : b.buffer_[b.readerIndex_ + i] \in Byte
  BY DEF WellFormed, readableBytes, Size
<1> QED BY <1>1, <1>2 DEF Readable

\* A copy into a vector keeps its length and its bytes outside the target.
LEMMA CopyFacts ==
  ASSUME NEW bytes \in Seq(Byte), NEW d \in Seq(Byte), NEW at \in Nat
  PROVE  /\ Copy(bytes, d, at) \in Seq(Byte)
         /\ Len(Copy(bytes, d, at)) = Len(bytes)
         /\ \A k \in 1..Len(bytes) :
              Copy(bytes, d, at)[k] =
                IF at < k /\ k <= at + Len(d) THEN d[k - at] ELSE bytes[k]
<1>1. \A k \in 1..Len(bytes) :
        (IF at < k /\ k <= at + Len(d) THEN d[k - at] ELSE bytes[k]) \in Byte
  OBVIOUS
<1> QED BY <1>1 DEF Copy

\* What a concatenation holds at each place.
LEMMA ConcatFacts ==
  ASSUME NEW p \in Seq(Byte), NEW q \in Seq(Byte)
  PROVE  /\ p \o q \in Seq(Byte)
         /\ Len(p \o q) = Len(p) + Len(q)
         /\ \A i \in 1..(Len(p) + Len(q)) :
              (p \o q)[i] = IF i <= Len(p) THEN p[i] ELSE q[i - Len(p)]
OBVIOUS

\* Concatenation may be regrouped.
LEMMA ConcatRegroups ==
  \A p, q, r \in Seq(Byte) : (p \o q) \o r = p \o (q \o r)
BY ConcatAssociative

\* Bytes that fit are put behind the readable bytes.
LEMMA StoreFacts ==
  ASSUME NEW b, WellFormed(b), NEW d \in Seq(Byte), Len(d) <= writableBytes(b)
  PROVE  /\ WellFormed(Store(b, d))
         /\ Size(Store(b, d)) = Size(b)
         /\ writableBytes(Store(b, d)) = writableBytes(b) - Len(d)
         /\ Readable(Store(b, d)) = Readable(b) \o d
<1> DEFINE s == Store(b, d)
           c == Copy(b.buffer_, d, b.writerIndex_)
<1>1. /\ b.buffer_ \in Seq(Byte) /\ b.readerIndex_ \in Nat
      /\ b.writerIndex_ \in Nat /\ b.readerIndex_ <= b.writerIndex_
      /\ b.writerIndex_ + Len(d) <= Len(b.buffer_) /\ Len(d) \in Nat
      /\ Len(b.buffer_) \in Nat
  BY DEF WellFormed, writableBytes, Size
<1>2. /\ c \in Seq(Byte) /\ Len(c) = Len(b.buffer_)
      /\ \A k \in 1..Len(b.buffer_) :
           c[k] = IF b.writerIndex_ < k /\ k <= b.writerIndex_ + Len(d)
                  THEN d[k - b.writerIndex_] ELSE b.buffer_[k]
  BY <1>1, CopyFacts
<1>3. /\ s \in [buffer_ : Seq(Byte), readerIndex_ : Nat, writerIndex_ : Nat]
      /\ s.buffer_ = c /\ s.readerIndex_ = b.readerIndex_
      /\ s.writerIndex_ = b.writerIndex_ + Len(d)
  BY <1>1, <1>2 DEF Store, WellFormed
<1>4. WellFormed(s) /\ Size(s) = Size(b)
  BY <1>1, <1>2, <1>3 DEF WellFormed, Size
<1>5. /\ readableBytes(s) = readableBytes(b) + Len(d)
      /\ writableBytes(s) = writableBytes(b) - Len(d)
  BY <1>1, <1>3, <1>4 DEF readableBytes, writableBytes, Size
<1>6. Readable(s) = Readable(b) \o d
  <2> DEFINE l == Readable(s)
             r == Readable(b) \o d
  <2>1. /\ l \in Seq(Byte) /\ Len(l) = readableBytes(b) + Len(d)
        /\ \A i \in 1..(readableBytes(b) + Len(d)) :
             l[i] = c[b.readerIndex_ + i]
    BY <1>3, <1>4, <1>5, ReadableIsString
  <2>2. /\ readableBytes(b) \in Nat
        /\ r \in Seq(Byte) /\ Len(r) = readableBytes(b) + Len(d)
        /\ \A i \in 1..(readableBytes(b) + Len(d)) :
             r[i] = IF i <= readableBytes(b) THEN b.buffer_[b.readerIndex_ + i]
                    ELSE d[i - readableBytes(b)]
    <3>1. /\ readableBytes(b) \in Nat /\ Readable(b) \in Seq(Byte)
          /\ Len(Readable(b)) = readableBytes(b)
          /\ \A i \in 1..readableBytes(b) :
               Readable(b)[i] = b.buffer_[b.readerIndex_ + i]
      BY ReadableIsString
    <3>2. /\ r \in Seq(Byte) /\ Len(r) = readableBytes(b) + Len(d)
          /\ \A i \in 1..(readableBytes(b) + Len(d)) :
               r[i] = IF i <= readableBytes(b) THEN Readable(b)[i]
                      ELSE d[i - readableBytes(b)]
      <4> DEFINE p == Readable(b)
      <4>1. p \in Seq(Byte) /\ Len(p) = readableBytes(b)
        BY <3>1
      <4> HIDE DEF p
      <4>2. /\ p \o d \in Seq(Byte) /\ Len(p \o d) = Len(p) + Len(d)
            /\ \A i \in 1..(Len(p) + Len(d)) :
                 (p \o d)[i] = IF i <= Len(p) THEN p[i] ELSE d[i - Len(p)]
        BY <4>1, ConcatFacts
      <4> QED BY <4>1, <4>2 DEF p
    <3> HIDE DEF r
    <3> QED BY <3>1, <3>2
  <2>3. \A i \in 1..Len(l) : l[i] = r[i]
    <3> SUFFICES ASSUME NEW i \in 1..(readableBytes(b) + Len(d))
                 PROVE  l[i] = r[i]
      BY <2>1
    <3>1. b.readerIndex_ + i \in 1..Len(b.buffer_)
      BY <1>1, <2>2 DEF readableBytes
    <3>2. i <= readableBytes(b) <=> b.readerIndex_ + i <= b.writerIndex_
      BY <1>1 DEF readableBytes
    <3>3. (b.readerIndex_ + i) - b.writerIndex_ = i - readableBytes(b)
      BY <1>1 DEF readableBytes
    <3>4. b.readerIndex_ + i <= b.writerIndex_ + Len(d)
      BY <1>1, <2>2 DEF readableBytes
    <3>5. l[i] = c[b.readerIndex_ + i]
      BY <2>1
    <3>6. CASE i <= readableBytes(b)
      <4>1. ~(b.writerIndex_ < b.readerIndex_ + i)
        BY <1>1, <3>2, <3>6
      <4>2. c[b.readerIndex_ + i] = b.buffer_[b.readerIndex_ + i]
        BY <1>2, <3>1, <4>1
      <4>3. r[i] = b.buffer_[b.readerIndex_ + i]
        BY <2>2, <3>6
      <4> QED BY <3>5, <4>2, <4>3
    <3>7. CASE ~(i <= readableBytes(b))
      <4>1. b.writerIndex_ < b.readerIndex_ + i
        BY <1>1, <3>2, <3>7
      <4>2. c[b.readerIndex_ + i] = d[(b.readerIndex_ + i) - b.writerIndex_]
        <5> DEFINE k == b.readerIndex_ + i
        <5>1. /\ k \in 1..Len(b.buffer_) /\ b.writerIndex_ < k
              /\ k <= b.writerIndex_ + Len(d)
          BY <3>1, <3>4, <4>1
        <5> HIDE DEF k, c
        <5>2. c[k] = d[k - b.writerIndex_]
          BY <1>2, <5>1
        <5>3. k = b.readerIndex_ + i
          BY DEF k
        <5> QED BY <5>2, <5>3
      <4>3. r[i] = d[i - readableBytes(b)]
        BY <2>2, <3>7
      <4> QED BY <3>3, <3>5, <4>2, <4>3
    <3> QED BY <3>6, <3>7
  <2>4. l = r
    <3> HIDE DEF l, r
    <3> QED BY <2>1, <2>2, <2>3, SeqEqual
  <2> QED BY <2>4
<1> QED BY <1>4, <1>5, <1>6

\* Moving the readable bytes into a vector that has room for them keeps them.
LEMMA MovedFacts ==
  ASSUME NEW b, WellFormed(b), NEW bytes \in Seq(Byte),
         kCheapPrepend + readableBytes(b) <= Len(bytes)
  PROVE  /\ WellFormed(Moved(b, bytes))
         /\ Size(Moved(b, bytes)) = Len(bytes)
         /\ writableBytes(Moved(b, bytes)) =
              Len(bytes) - (kCheapPrepend + readableBytes(b))
         /\ Readable(Moved(b, bytes)) = Readable(b)
<1> DEFINE m == Moved(b, bytes)
           c == Copy(bytes, Readable(b), kCheapPrepend)
           n == readableBytes(b)
<1>1. /\ n \in Nat /\ kCheapPrepend \in Nat /\ Readable(b) \in Seq(Byte)
      /\ Len(Readable(b)) = n
  BY ReadableIsString, BufferConstants
<1>2. /\ c \in Seq(Byte) /\ Len(c) = Len(bytes)
      /\ \A k \in 1..Len(bytes) :
           c[k] = IF kCheapPrepend < k /\ k <= kCheapPrepend + n
                  THEN Readable(b)[k - kCheapPrepend] ELSE bytes[k]
  BY <1>1, CopyFacts
<1>3. /\ m.buffer_ = c /\ m.readerIndex_ = kCheapPrepend
      /\ m.writerIndex_ = kCheapPrepend + n
      /\ m \in [buffer_ : Seq(Byte), readerIndex_ : Nat, writerIndex_ : Nat]
  BY <1>1, <1>2 DEF Moved
<1>4. WellFormed(m) /\ Size(m) = Len(bytes) /\ readableBytes(m) = n
  <2> HIDE DEF m, c, n
  <2> QED BY <1>1, <1>2, <1>3 DEF WellFormed, Size, readableBytes, n
<1>5. writableBytes(m) = Len(bytes) - (kCheapPrepend + n)
  BY <1>3, <1>4 DEF writableBytes
<1>6. Readable(m) = Readable(b)
  <2>1. /\ Readable(m) \in Seq(Byte) /\ Len(Readable(m)) = n
        /\ \A i \in 1..n : Readable(m)[i] = c[kCheapPrepend + i]
    BY <1>3, <1>4, ReadableIsString
  <2>2. \A i \in 1..n : c[kCheapPrepend + i] = Readable(b)[i]
    <3>1. n + kCheapPrepend <= Len(bytes) /\ Len(bytes) \in Nat
      BY <1>1, LenProperties
    <3> HIDE DEF c, n
    <3> SUFFICES ASSUME NEW i \in 1..n PROVE c[kCheapPrepend + i] = Readable(b)[i]
      OBVIOUS
    <3>2. /\ kCheapPrepend + i \in 1..Len(bytes) /\ kCheapPrepend < kCheapPrepend + i
          /\ kCheapPrepend + i <= kCheapPrepend + n /\ (kCheapPrepend + i) - kCheapPrepend = i
      BY <1>1, <3>1
    <3> QED BY <1>2, <3>2
  <2> QED BY <1>1, <2>1, <2>2, SeqEqual
<1> QED BY <1>4, <1>5, <1>6

\* The constructor's vector.
LEMMA FreshFacts ==
  ASSUME NEW size \in Nat
  PROVE  /\ WellFormed(Fresh(size))
         /\ Fresh(size).buffer_ \in Seq(Byte)
         /\ Len(Fresh(size).buffer_) = kCheapPrepend + size
         /\ Readable(Fresh(size)) = <<>>
<1> DEFINE f == Fresh(size)
           z == [k \in 1..(kCheapPrepend + size) |-> Zero]
<1>1. /\ z \in Seq(Byte) /\ Len(z) = kCheapPrepend + size
      /\ kCheapPrepend + size \in Nat /\ kCheapPrepend \in Nat
  BY BufferConstants
<1>2. f.buffer_ = z /\ f.readerIndex_ = kCheapPrepend
                    /\ f.writerIndex_ = kCheapPrepend
  BY DEF Fresh
<1>3. f \in [buffer_ : Seq(Byte), readerIndex_ : Nat, writerIndex_ : Nat]
  BY <1>1 DEF Fresh
<1>4. WellFormed(f) /\ readableBytes(f) = 0
  <2> HIDE DEF f, z
  <2> QED BY <1>1, <1>2, <1>3 DEF WellFormed, Size, readableBytes
<1>5. Readable(f) = <<>>
  <2>1. Readable(f) \in Seq(Byte) /\ Len(Readable(f)) = 0
    BY <1>4, ReadableIsString
  <2> QED BY <2>1, EmptySeq
<1> QED BY <1>1, <1>2, <1>4, <1>5

\* Making room keeps the readable bytes and makes the room that was asked
\* for; neither branch of makeSpace can fail its assertions.
LEMMA RoomFacts ==
  ASSUME NEW b, WellFormed(b), NEW len \in Nat
  PROVE  /\ WellFormed(ensureWritableBytes(b, len))
         /\ writableBytes(ensureWritableBytes(b, len)) >= len
         /\ Readable(ensureWritableBytes(b, len)) = Readable(b)
<1> DEFINE n == readableBytes(b)
<1>1. /\ n \in Nat /\ kCheapPrepend \in Nat /\ Size(b) \in Nat
      /\ b.readerIndex_ \in Nat /\ b.writerIndex_ \in Nat
      /\ n = b.writerIndex_ - b.readerIndex_ /\ b.writerIndex_ <= Size(b)
      /\ b.buffer_ \in Seq(Byte) /\ Size(b) = Len(b.buffer_)
  BY ReadableIsString, BufferConstants DEF WellFormed, readableBytes, Size
<1>2. CASE ~(writableBytes(b) < len)
  BY <1>1, <1>2 DEF ensureWritableBytes, writableBytes
<1>3. CASE writableBytes(b) < len /\ MustGrow(b, len)
  <2> DEFINE v == Fresh(n + len).buffer_
  <2>1. n + len \in Nat
    BY <1>1
  <2>2. v \in Seq(Byte) /\ Len(v) = kCheapPrepend + (n + len)
    BY <2>1, FreshFacts
  <2>3. kCheapPrepend + n <= Len(v)
    BY <1>1, <2>2
  <2>4. /\ WellFormed(Moved(b, v))
        /\ writableBytes(Moved(b, v)) = Len(v) - (kCheapPrepend + n)
        /\ Readable(Moved(b, v)) = Readable(b)
    BY <2>2, <2>3, MovedFacts
  <2>5. ensureWritableBytes(b, len) = Moved(b, v)
    BY <1>3 DEF ensureWritableBytes, makeSpace
  <2> HIDE DEF v
  <2> QED BY <1>1, <2>2, <2>4, <2>5
<1>4. CASE writableBytes(b) < len /\ ~MustGrow(b, len)
  <2>1. kCheapPrepend + n + len <= Size(b)
    BY <1>1, <1>4 DEF MustGrow, writableBytes, prependableBytes
  <2>2. /\ WellFormed(Moved(b, b.buffer_))
        /\ writableBytes(Moved(b, b.buffer_)) =
             Len(b.buffer_) - (kCheapPrepend + n)
        /\ Readable(Moved(b, b.buffer_)) = Readable(b)
    BY <1>1, <2>1, MovedFacts
  <2>3. ensureWritableBytes(b, len) = Moved(b, b.buffer_)
    BY <1>4 DEF ensureWritableBytes, makeSpace
  <2> QED BY <1>1, <2>1, <2>2, <2>3
<1> QED BY <1>2, <1>3, <1>4

\* append puts the bytes behind the readable ones.
LEMMA AppendedFacts ==
  ASSUME NEW b, WellFormed(b), NEW d \in Seq(Byte)
  PROVE  /\ WellFormed(Appended(b, d))
         /\ Readable(Appended(b, d)) = Readable(b) \o d
<1> DEFINE e == ensureWritableBytes(b, Len(d))
<1>1. /\ Len(d) \in Nat /\ WellFormed(e) /\ writableBytes(e) >= Len(d)
      /\ Readable(e) = Readable(b)
  BY RoomFacts
<1>2. writableBytes(e) \in Int
  BY <1>1 DEF WellFormed, writableBytes, Size
<1>3. Len(d) <= writableBytes(e)
  <2> HIDE DEF e
  <2> QED BY <1>1, <1>2
<1>4. WellFormed(Store(e, d)) /\ Readable(Store(e, d)) = Readable(e) \o d
  <2> HIDE DEF e
  <2> QED BY <1>1, <1>3, StoreFacts
<1> QED BY <1>1, <1>4 DEF Appended

\* consume drops bytes from the front.
LEMMA ConsumedFacts ==
  ASSUME NEW b, WellFormed(b), NEW len \in Nat, len <= readableBytes(b)
  PROVE  /\ WellFormed(Consumed(b, len))
         /\ Readable(Consumed(b, len)) =
              SubSeq(Readable(b), len + 1, Len(Readable(b)))
<1> DEFINE n == readableBytes(b)
           c == Consumed(b, len)
           q == Readable(b)
           t == SubSeq(q, len + 1, Len(q))
<1>1. /\ n \in Nat /\ q \in Seq(Byte) /\ Len(q) = n
      /\ \A i \in 1..n : q[i] = b.buffer_[b.readerIndex_ + i]
  BY ReadableIsString
<1>2. /\ b.buffer_ \in Seq(Byte) /\ b.readerIndex_ \in Nat
      /\ b.writerIndex_ \in Nat /\ n = b.writerIndex_ - b.readerIndex_
      /\ b.writerIndex_ <= Len(b.buffer_) /\ kCheapPrepend <= Len(b.buffer_)
      /\ kCheapPrepend \in Nat
  BY BufferConstants DEF WellFormed, readableBytes, Size
<1>3. /\ t \in Seq(Byte) /\ Len(t) = n - len
      /\ \A i \in 1..(n - len) : t[i] = q[len + i]
  <2> HIDE DEF n, q
  <2> QED BY <1>1, SubSeqProperties DEF n
<1>4. CASE len < n
  <2>1. /\ c \in [buffer_ : Seq(Byte), readerIndex_ : Nat, writerIndex_ : Nat]
        /\ c.buffer_ = b.buffer_ /\ c.readerIndex_ = b.readerIndex_ + len
        /\ c.writerIndex_ = b.writerIndex_
    BY <1>2, <1>4 DEF Consumed, WellFormed
  <2>2. WellFormed(c) /\ readableBytes(c) = n - len
    <3> HIDE DEF c, n
    <3> QED BY <1>1, <1>2, <1>4, <2>1 DEF WellFormed, Size, readableBytes
  <2>3. /\ Readable(c) \in Seq(Byte) /\ Len(Readable(c)) = n - len
        /\ \A i \in 1..(n - len) :
             Readable(c)[i] = b.buffer_[b.readerIndex_ + len + i]
    BY <2>1, <2>2, ReadableIsString
  <2>4. \A i \in 1..(n - len) : t[i] = b.buffer_[b.readerIndex_ + len + i]
    <3> SUFFICES ASSUME NEW i \in 1..(n - len)
                 PROVE  t[i] = b.buffer_[b.readerIndex_ + len + i]
      OBVIOUS
    <3>1. len + i \in 1..n /\ b.readerIndex_ + (len + i) = b.readerIndex_ + len + i
      BY <1>1, <1>2
    <3>2. q[len + i] = b.buffer_[b.readerIndex_ + (len + i)]
      BY <1>1, <3>1
    <3> HIDE DEF t, q, n
    <3> QED BY <1>3, <3>1, <3>2
  <2>5. Readable(c) = t
    <3> HIDE DEF c, t, n
    <3> QED BY <1>3, <2>3, <2>4, SeqEqual
  <2> QED BY <2>2, <2>5
<1>5. CASE len = n
  <2>1. /\ c \in [buffer_ : Seq(Byte), readerIndex_ : Nat, writerIndex_ : Nat]
        /\ c.buffer_ = b.buffer_ /\ c.readerIndex_ = kCheapPrepend
        /\ c.writerIndex_ = kCheapPrepend
    BY <1>1, <1>2, <1>5 DEF Consumed, WellFormed
  <2>2. WellFormed(c) /\ readableBytes(c) = 0
    <3> HIDE DEF c
    <3> QED BY <1>2, <2>1 DEF WellFormed, Size, readableBytes
  <2>3. Readable(c) \in Seq(Byte) /\ Len(Readable(c)) = 0
    BY <2>2, ReadableIsString
  <2>4. Readable(c) = <<>> /\ t = <<>>
    <3> HIDE DEF c, t, n
    <3> QED BY <1>1, <1>3, <1>5, <2>3, EmptySeq
  <2> QED BY <2>2, <2>4
<1> QED BY <1>1, <1>4, <1>5

\* prepend puts the bytes in front of the readable ones.
LEMMA PrependedFacts ==
  ASSUME NEW b, WellFormed(b), NEW d \in Seq(Byte), Len(d) <= prependableBytes(b)
  PROVE  /\ WellFormed(Prepended(b, d))
         /\ Readable(Prepended(b, d)) = d \o Readable(b)
<1> DEFINE n == readableBytes(b)
           a == b.readerIndex_ - Len(d)
           c == Copy(b.buffer_, d, a)
           p == Prepended(b, d)
           q == Readable(b)
<1>1. /\ n \in Nat /\ q \in Seq(Byte) /\ Len(q) = n
      /\ \A i \in 1..n : q[i] = b.buffer_[b.readerIndex_ + i]
  BY ReadableIsString
<1>2. /\ b.buffer_ \in Seq(Byte) /\ b.readerIndex_ \in Nat
      /\ b.writerIndex_ \in Nat /\ n = b.writerIndex_ - b.readerIndex_
      /\ b.writerIndex_ <= Len(b.buffer_) /\ kCheapPrepend <= Len(b.buffer_)
      /\ Len(d) \in Nat /\ a \in Nat /\ a + Len(d) = b.readerIndex_
      /\ Len(b.buffer_) \in Nat
  BY DEF WellFormed, readableBytes, Size, prependableBytes
<1>3. /\ c \in Seq(Byte) /\ Len(c) = Len(b.buffer_)
      /\ \A k \in 1..Len(b.buffer_) :
           c[k] = IF a < k /\ k <= a + Len(d) THEN d[k - a] ELSE b.buffer_[k]
  <2> HIDE DEF a
  <2> QED BY <1>2, CopyFacts
<1>4. /\ p.buffer_ = c /\ p.readerIndex_ = a /\ p.writerIndex_ = b.writerIndex_
      /\ p \in [buffer_ : Seq(Byte), readerIndex_ : Nat, writerIndex_ : Nat]
  BY <1>2, <1>3 DEF Prepended
<1>5. WellFormed(p) /\ readableBytes(p) = Len(d) + n
  <2> HIDE DEF a, c, n, p
  <2> QED BY <1>1, <1>2, <1>3, <1>4 DEF WellFormed, Size, readableBytes
<1>6. /\ Readable(p) \in Seq(Byte) /\ Len(Readable(p)) = Len(d) + n
      /\ \A i \in 1..(Len(d) + n) : Readable(p)[i] = c[a + i]
  BY <1>4, <1>5, ReadableIsString
<1>7. /\ d \o q \in Seq(Byte) /\ Len(d \o q) = Len(d) + n
      /\ \A i \in 1..(Len(d) + n) :
           (d \o q)[i] = IF i <= Len(d) THEN d[i] ELSE q[i - Len(d)]
  <2> HIDE DEF q, n
  <2> QED BY <1>1, ConcatFacts
<1>8. ASSUME NEW i \in 1..(Len(d) + n)
      PROVE  c[a + i] = IF i <= Len(d) THEN d[i] ELSE q[i - Len(d)]
  <2> DEFINE k == a + i
  <2>1. /\ k \in 1..Len(b.buffer_) /\ a < k /\ k - a = i
        /\ (i <= Len(d) <=> k <= a + Len(d))
        /\ k = b.readerIndex_ + (i - Len(d))
        /\ i \in Nat
    <3>1. i \in Nat /\ 1 <= i /\ i <= Len(d) + n
      BY <1>1, <1>2
    <3>2. a + Len(d) + n = b.writerIndex_
      BY <1>1, <1>2
    <3>3. a \in Nat /\ Len(d) \in Nat /\ Len(b.buffer_) \in Nat
      BY <1>2
    <3>4. b.writerIndex_ <= Len(b.buffer_) /\ b.readerIndex_ = a + Len(d)
      BY <1>2
    <3>5. n \in Nat
      BY <1>1
    <3> HIDE DEF a, n
    <3>6. k \in Nat /\ 1 <= k /\ a < k /\ k - a = i
      BY <3>1, <3>3 DEF k
    <3>7. k <= Len(b.buffer_)
      BY <3>1, <3>2, <3>3, <3>4, <3>5 DEF k
    <3>8. i <= Len(d) <=> k <= a + Len(d)
      BY <3>1, <3>3 DEF k
    <3>9. k = b.readerIndex_ + (i - Len(d))
      BY <3>1, <3>3, <3>4 DEF k
    <3> QED BY <3>1, <3>3, <3>6, <3>7, <3>8, <3>9
  <2>2. CASE i <= Len(d)
    <3>1. c[k] = d[i]
      <4> HIDE DEF a, c, k
      <4> QED BY <1>3, <2>1, <2>2
    <3> QED BY <2>2, <3>1
  <2>3. CASE ~(i <= Len(d))
    <3>1. c[k] = b.buffer_[k]
      <4> HIDE DEF a, c, k
      <4> QED BY <1>3, <2>1, <2>3
    <3>2. i - Len(d) \in 1..n
      <4> HIDE DEF n
      <4> QED BY <1>1, <1>2, <2>3
    <3>3. q[i - Len(d)] = b.buffer_[b.readerIndex_ + (i - Len(d))]
      <4> HIDE DEF q, n
      <4> QED BY <1>1, <3>2
    <3>4. c[k] = q[i - Len(d)]
      <4> HIDE DEF q, c, k
      <4> QED BY <2>1, <3>1, <3>3
    <3> QED BY <2>3, <3>4
  <2> QED BY <2>2, <2>3
<1>9. Readable(p) = d \o q
  <2> DEFINE u == Readable(p)
             v == d \o q
  <2>1. \A i \in 1..Len(u) : u[i] = v[i]
    <3> HIDE DEF a, c, n, p, q
    <3> QED BY <1>6, <1>7, <1>8
  <2>2. u = v
    <3>1. u \in Seq(Byte) /\ v \in Seq(Byte) /\ Len(u) = Len(v)
      BY <1>6, <1>7
    <3> HIDE DEF u, v
    <3> QED BY <2>1, <3>1, SeqEqual
  <2> QED BY <2>2
<1> QED BY <1>5, <1>9

\* readFd puts what it read behind the readable bytes, whether or not the
\* writable region held all of it.
LEMMA ScatteredFacts ==
  ASSUME NEW b, WellFormed(b), NEW d \in Seq(Byte)
  PROVE  /\ WellFormed(Scattered(b, d))
         /\ Readable(Scattered(b, d)) = Readable(b) \o d
<1> DEFINE w == writableBytes(b)
           x == SubSeq(d, 1, w)
           y == SubSeq(d, w + 1, Len(d))
           q == Readable(b)
<1>1. w \in Nat /\ Len(d) \in Nat
  BY DEF WellFormed, writableBytes, Size
<1>2. CASE Len(d) <= w
  BY <1>2, StoreFacts DEF Scattered
<1>3. CASE ~(Len(d) <= w)
  <2>1. x \in Seq(Byte) /\ Len(x) = w /\ y \in Seq(Byte) /\ x \o y = d
    <3> HIDE DEF w
    <3>1. /\ x \in Seq(Byte) /\ Len(x) = w
          /\ \A i \in 1..w : x[i] = d[i]
      BY <1>1, <1>3, SubSeqProperties
    <3>2. /\ y \in Seq(Byte) /\ Len(y) = Len(d) - w
          /\ \A i \in 1..(Len(d) - w) : y[i] = d[w + i]
      BY <1>1, <1>3, SubSeqProperties
    <3>3. /\ x \o y \in Seq(Byte) /\ Len(x \o y) = Len(d)
          /\ \A i \in 1..Len(d) :
               (x \o y)[i] = IF i <= w THEN x[i] ELSE y[i - w]
      <4> HIDE DEF x, y
      <4> QED BY <1>1, <1>3, <3>1, <3>2, ConcatFacts
    <3>4. \A i \in 1..Len(d) : (x \o y)[i] = d[i]
      <4> SUFFICES ASSUME NEW i \in 1..Len(d) PROVE (x \o y)[i] = d[i]
        OBVIOUS
      <4> HIDE DEF x, y
      <4>1. CASE i <= w
        BY <1>1, <3>1, <3>3, <4>1
      <4>2. CASE ~(i <= w)
        <5>1. i - w \in 1..(Len(d) - w) /\ w + (i - w) = i
          BY <1>1, <4>2
        <5>2. y[i - w] = d[w + (i - w)]
          BY <3>2, <5>1
        <5> QED BY <3>3, <4>2, <5>1, <5>2
      <4> QED BY <4>1, <4>2
    <3>5. x \o y = d
      <4> DEFINE v == x \o y
      <4>1. v \in Seq(Byte) /\ Len(v) = Len(d) /\ \A i \in 1..Len(d) : v[i] = d[i]
        BY <3>3, <3>4
      <4> HIDE DEF v
      <4>2. v = d
        BY <4>1, SeqEqual
      <4> QED BY <4>2 DEF v
    <3> QED BY <3>1, <3>2, <3>5
  <2> DEFINE s == Store(b, x)
  <2>2. WellFormed(s) /\ Readable(s) = q \o x
    <3> HIDE DEF x, w
    <3>1. Len(x) <= w
      BY <1>1, <2>1
    <3> QED BY <2>1, <3>1, StoreFacts DEF w
  <2>3. WellFormed(Appended(s, y)) /\ Readable(Appended(s, y)) = Readable(s) \o y
    <3> HIDE DEF s, y
    <3> QED BY <2>1, <2>2, AppendedFacts
  <2>4. (q \o x) \o y = q \o (x \o y)
    <3>1. q \in Seq(Byte) /\ x \in Seq(Byte) /\ y \in Seq(Byte)
      BY <2>1, ReadableIsString
    <3> HIDE DEF q, x, y
    <3> QED BY <3>1, ConcatRegroups
  <2>5. Scattered(b, d) = Appended(s, y)
    BY <1>3 DEF Scattered
  <2> HIDE DEF q, x, y, s
  <2> QED BY <2>1, <2>2, <2>3, <2>4, <2>5 DEF q
<1> QED BY <1>2, <1>3

-----------------------------------------------------------------------------
\* The strings that are appended, prepended or read are byte strings.
LEMMA StringFacts ==
  ASSUME NEW n \in Nat
  PROVE  /\ \A d \in Strings(n) : d \in Seq(Byte) /\ Len(d) \in 0..n
         /\ \A d \in Seq(Byte) : Len(d) <= n => d \in Strings(n)
<1>1. ASSUME NEW d \in Strings(n)
      PROVE  d \in Seq(Byte) /\ Len(d) \in 0..n
  <2>1. PICK k \in 0..n : d \in [1..k -> Byte]
    BY DEF Strings
  <2> QED BY <2>1
<1>2. ASSUME NEW d \in Seq(Byte), Len(d) <= n
      PROVE  d \in Strings(n)
  <2>1. Len(d) \in 0..n /\ d \in [1..Len(d) -> Byte]
    BY <1>2
  <2> QED BY <2>1 DEF Strings
<1> QED BY <1>1, <1>2

\* The bytes of an integer in network order are a byte string as long.
LEMMA SwappedFacts ==
  ASSUME NEW x \in Seq(Byte)
  PROVE  /\ Swapped(x) \in Seq(Byte)
         /\ Len(Swapped(x)) = Len(x)
         /\ \A i \in 1..Len(x) : Swapped(x)[i] = x[Len(x) + 1 - i]
<1>1. \A i \in 1..Len(x) : Len(x) + 1 - i \in 1..Len(x)
  OBVIOUS
<1>2. \A i \in 1..Len(x) : x[Len(x) + 1 - i] \in Byte
  BY <1>1
<1> QED BY <1>2 DEF Swapped

\* Bytes that go in: the well-formedness and the abstract step.
LEMMA InputStep ==
  ASSUME BufferTypeOK, NEW d \in Seq(Byte), Fits(d), passed' = d,
         \/ buf' = Appended(buf, d)
         \/ buf' = Scattered(buf, d)
         \/ Len(d) <= prependableBytes(buf) /\ buf' = Prepended(buf, d)
  PROVE  BufferTypeOK' /\ Queue!Next
<1>1. readableBytes(buf) \in Nat /\ MaxReadable \in Nat /\ Len(d) \in Nat
  BY ReadableIsString, BufferConstants DEF BufferTypeOK
<1>2. d \in Strings(MaxReadable)
  BY <1>1, StringFacts DEF Fits
<1>3. CASE buf' = Appended(buf, d) \/ buf' = Scattered(buf, d)
  <2>1. WellFormed(buf') /\ Readable(buf') = Readable(buf) \o d
    BY <1>3, AppendedFacts, ScatteredFacts DEF BufferTypeOK
  <2>2. Queue!Put(d)
    BY <2>1 DEF Queue!Put
  <2>3. BufferTypeOK'
    BY <2>1 DEF BufferTypeOK
  <2> QED BY <1>2, <2>2, <2>3 DEF Queue!Next
<1>4. CASE Len(d) <= prependableBytes(buf) /\ buf' = Prepended(buf, d)
  <2>1. WellFormed(buf') /\ Readable(buf') = d \o Readable(buf)
    BY <1>4, PrependedFacts DEF BufferTypeOK
  <2>2. Queue!PutFront(d)
    BY <2>1 DEF Queue!PutFront
  <2>3. BufferTypeOK'
    BY <2>1 DEF BufferTypeOK
  <2> QED BY <1>2, <2>2, <2>3 DEF Queue!Next
<1> QED BY <1>3, <1>4

\* Bytes that go out.
LEMMA OutputStep ==
  ASSUME BufferTypeOK, NEW len \in Nat, len <= readableBytes(buf),
         buf' = Consumed(buf, len),
         \/ UNCHANGED passed
         \/ passed' = SubSeq(Readable(buf), 1, len)
         \/ passed' = Swapped(SubSeq(Readable(buf), 1, len))
  PROVE  BufferTypeOK' /\ Queue!Next
<1> DEFINE q == Readable(buf)
           f == SubSeq(q, 1, len)
<1>1. readableBytes(buf) \in Nat /\ q \in Seq(Byte) /\ Len(q) = readableBytes(buf)
  BY ReadableIsString DEF BufferTypeOK
<1>2. len \in 0..Len(q)
  BY <1>1
<1>3. f \in Seq(Byte) /\ Len(f) = len /\ \A i \in 1..len : f[i] = q[i]
  <2> HIDE DEF q
  <2> QED BY <1>1, <1>2, SubSeqProperties
<1>4. /\ WellFormed(buf')
      /\ Readable(buf') = SubSeq(q, len + 1, Len(q))
  BY ConsumedFacts DEF BufferTypeOK
<1>5. Readable(buf)' = Queue!Rest(len)
  BY <1>4 DEF Queue!Rest
<1>6. CASE UNCHANGED passed
  <2>1. Queue!Drop(len)
    BY <1>5, <1>6 DEF Queue!Drop
  <2> QED BY <1>2, <1>4, <1>6, <2>1 DEF BufferTypeOK, Queue!Next
<1>7. CASE passed' = f
  <2>1. Queue!Take(len)
    BY <1>5, <1>7 DEF Queue!Take, Queue!First
  <2>2. BufferTypeOK'
    BY <1>3, <1>4, <1>7 DEF BufferTypeOK
  <2> QED BY <1>2, <2>1, <2>2 DEF Queue!Next
<1>8. CASE passed' = Swapped(f)
  <2>1. /\ Swapped(f) \in Seq(Byte)
        /\ Swapped(f) = [i \in 1..len |-> f[len + 1 - i]]
    <3> HIDE DEF f
    <3> QED BY <1>3, SwappedFacts DEF Swapped
  <2>2. \A i \in 1..len : f[len + 1 - i] = q[len + 1 - i]
    <3> HIDE DEF f, q
    <3> SUFFICES ASSUME NEW i \in 1..len
                 PROVE  f[len + 1 - i] = q[len + 1 - i]
      OBVIOUS
    <3>1. len + 1 - i \in 1..len
      OBVIOUS
    <3> QED BY <1>3, <3>1
  <2>3. Swapped(f) = [i \in 1..len |-> q[len + 1 - i]]
    <3> HIDE DEF f, q
    <3> QED BY <2>1, <2>2
  <2>4. Queue!TakeReversed(len)
    BY <1>5, <1>8, <2>3 DEF Queue!TakeReversed
  <2>5. BufferTypeOK'
    BY <1>4, <1>8, <2>1 DEF BufferTypeOK
  <2> QED BY <1>2, <2>4, <2>5 DEF Queue!Next
<1> QED BY <1>6, <1>7, <1>8

\* Every operation keeps the buffer well formed and is a step of the queue.
LEMMA BufferStep ==
  ASSUME BufferTypeOK, BufferNext
  PROVE  BufferTypeOK' /\ Queue!Next
<1>1. /\ MaxLen \in Nat /\ MaxReadable \in Nat /\ IntSize \in Nat
      /\ readableBytes(buf) \in Nat
  BY ReadableIsString, BufferConstants DEF BufferTypeOK
<1>2. \A x \in [1..IntSize -> Byte] :
        x \in Seq(Byte) /\ Len(x) = IntSize
  BY <1>1
<1>3. CASE \E d \in Strings(MaxLen) : append(d)
  BY <1>1, <1>3, StringFacts, InputStep DEF append
<1>4. CASE \E x \in [1..IntSize -> Byte] : appendInt32(x)
  <2>1. PICK x \in [1..IntSize -> Byte] : appendInt32(x)
    BY <1>4
  <2>2. Swapped(x) \in Seq(Byte) /\ Len(Swapped(x)) = Len(x)
    BY <1>2, SwappedFacts
  <2> QED BY <2>1, <2>2, InputStep DEF appendInt32, Fits
<1>5. CASE \E len \in 0..MaxReadable : consume(len)
  BY <1>1, <1>5, OutputStep DEF consume
<1>6. CASE \E len \in 0..MaxReadable : retrieveAsString(len)
  BY <1>1, <1>6, OutputStep DEF retrieveAsString
<1>7. CASE retrieveInt32
  BY <1>1, <1>7, OutputStep DEF retrieveInt32
<1>8. CASE \E d \in Strings(MaxLen) : prepend(d)
  BY <1>1, <1>8, StringFacts, InputStep DEF prepend
<1>9. CASE \E x \in [1..IntSize -> Byte] : prependInt32(x)
  <2>1. PICK x \in [1..IntSize -> Byte] : prependInt32(x)
    BY <1>9
  <2>2. Swapped(x) \in Seq(Byte) /\ Len(Swapped(x)) = IntSize /\ Len(x) = IntSize
    BY <1>2, SwappedFacts
  <2> QED BY <2>1, <2>2, InputStep DEF prependInt32, Fits
<1>10. CASE \E d \in Strings(MaxReadable) : readFd(d)
  BY <1>1, <1>10, StringFacts, InputStep DEF readFd
<1> QED BY <1>3, <1>4, <1>5, <1>6, <1>7, <1>8, <1>9, <1>10 DEF BufferNext

\* The constructor's buffer is well formed and reads as the empty string.
LEMMA BufferInitInv ==
  ASSUME BufferInit
  PROVE  BufferTypeOK /\ Queue!Init
<1>1. initialSize \in Nat
  BY BufferConstants
<1>2. WellFormed(Fresh(initialSize)) /\ Readable(Fresh(initialSize)) = <<>>
  BY <1>1, FreshFacts
<1> QED BY <1>2 DEF BufferInit, BufferTypeOK, Queue!Init

\* For every headroom, capacity and extrabuf size: the indices of a Buffer
\* divide its vector after any sequence of operations.
THEOREM BufferTypes == BufferSpec => []BufferTypeOK
<1>1. BufferInit => BufferTypeOK
  BY BufferInitInv
<1>2. BufferTypeOK /\ [BufferNext]_bufferVars => BufferTypeOK'
  <2> SUFFICES ASSUME BufferTypeOK, [BufferNext]_bufferVars PROVE BufferTypeOK'
    OBVIOUS
  <2>1. CASE BufferNext
    BY <2>1, BufferStep
  <2>2. CASE UNCHANGED bufferVars
    BY <2>2 DEF bufferVars, BufferTypeOK
  <2> QED BY <2>1, <2>2
<1> QED BY <1>1, <1>2, PTL DEF BufferSpec

\* A Buffer is a byte queue: what append, prepend and readFd put in comes
\* out of consume and retrieve... unchanged and in order, however often
\* makeSpace has moved the bytes or replaced the vector in between.
THEOREM BufferImplementsQueue == BufferSpec => QueueSpec
<1>1. BufferInit => Queue!Init
  BY BufferInitInv
<1>2. BufferTypeOK /\ [BufferNext]_bufferVars => [Queue!Next]_(Queue!vars)
  <2> SUFFICES ASSUME BufferTypeOK, [BufferNext]_bufferVars PROVE [Queue!Next]_(Queue!vars)
    OBVIOUS
  <2>1. CASE BufferNext
    BY <2>1, BufferStep
  <2>2. CASE UNCHANGED bufferVars
    BY <2>2 DEF bufferVars, Queue!vars, Readable, readableBytes
  <2> QED BY <2>1, <2>2
<1> QED BY <1>1, <1>2, BufferTypes, PTL DEF BufferSpec, QueueSpec, Queue!Spec

\* The assertions of makeSpace and ensureWritableBytes cannot fail.
THEOREM BufferMakesRoom == BufferSpec => []RoomIsMade
<1>1. BufferTypeOK => RoomIsMade
  <2> SUFFICES ASSUME BufferTypeOK, NEW len \in 1..(MaxReadable + 1),
                      writableBytes(buf) < len
               PROVE  /\ MustGrow(buf, len) \/ kCheapPrepend < buf.readerIndex_
                      /\ writableBytes(makeSpace(buf, len)) >= len
    BY DEF RoomIsMade
  <2>1. len \in Nat
    BY BufferConstants
  <2>2. writableBytes(ensureWritableBytes(buf, len)) >= len
    BY <2>1, RoomFacts DEF BufferTypeOK
  <2>3. ensureWritableBytes(buf, len) = makeSpace(buf, len)
    BY DEF ensureWritableBytes
  <2>4. MustGrow(buf, len) \/ kCheapPrepend < buf.readerIndex_
    BY <2>1, BufferConstants
       DEF MustGrow, BufferTypeOK, WellFormed, writableBytes, prependableBytes, Size
  <2> QED BY <2>2, <2>3, <2>4
<1> QED BY <1>1, BufferTypes, PTL

-----------------------------------------------------------------------------
(* Poller, for every set of channels, of descriptors and of Connectors.    *)

Indexes == {"kNew", "kAdded", "kDeleted"}

Registrations ==
  [fdMap_    : [Fds -> Channels \cup {NoChannel}],
   ptr       : [Fds -> Channels \cup {NoChannel}],
   watched   : [Fds -> SUBSET Events],
   events_   : [Channels -> SUBSET Events],
   index_    : [Channels -> Indexes],
   isInLoop_ : [Channels -> BOOLEAN],
   open      : SUBSET Fds,
   failed    : SUBSET Fds]

PollerTypeOK ==
  /\ fd_ \in [Channels -> Fds]
  /\ life \in [Channels -> Lives]
  /\ reg \in Registrations
  /\ channel_ \in [Connectors -> Channels \cup {NoChannel}]
  /\ state_ \in [Connectors -> {"kDisconnected", "kConnecting", "kConnected", "gone"}]
  /\ resets \in [Connectors -> Nat]
  /\ activeChannels_ \subseteq Channels
  /\ current \in Channels \cup {NoChannel}
  /\ pc \in {"poll", "events", "functors"}
  /\ refused \subseteq Fds /\ torn \subseteq Channels

\* What holds of r whatever the owners do: an entry is under its channel's own
\* descriptor, epoll points to channels that think they are registered, and the
\* kernel has dropped what is closed.
Sound(r) ==
  /\ \A f \in Fds :
       r.ptr[f] # NoChannel =>
         f \in r.open /\ fd_[r.ptr[f]] = f /\ r.isInLoop_[r.ptr[f]]
  /\ \A c \in Channels : r.isInLoop_[c] <=> r.index_[c] # "kNew"

\* Map, members and epoll agree about f, and no assertion about it has failed.
Tidy(r, f) ==
  /\ f \notin r.failed
  /\ r.fdMap_[f] # NoChannel => fd_[r.fdMap_[f]] = f
  /\ r.ptr[f] \in {NoChannel, r.fdMap_[f]}
  /\ \A c \in Channels :
       fd_[c] = f =>
         /\ r.index_[c] = "kNew" <=> r.fdMap_[f] # c
         /\ r.index_[c] = "kAdded" <=> r.ptr[f] = c
         /\ r.index_[c] = "kAdded" => r.watched[f] = r.events_[c]

Mirrors == \A f \in Fds \ Spoiled : Tidy(reg, f)

\* A descriptor that is not spoiled has at most one holder, who keeps it open.
Occupancy ==
  \A c \in Channels :
    life[c] \in Holding /\ fd_[c] \notin Spoiled =>
      /\ fd_[c] \in reg.open
      /\ \A d \in Channels : life[d] \in Holding /\ fd_[d] = fd_[c] => d = c

\* Exactly the channels in use, and those deleted in use, think that they are
\* registered.
InUse ==
  /\ \A c \in Channels : reg.isInLoop_[c] <=> life[c] = "used" \/ c \in torn
  /\ \A c \in torn : life[c] = "deleted"

\* The channel_ of a Connector is in use while it is connecting, and then spent.
Attempts ==
  /\ \A k \in Connectors :
       channel_[k] # NoChannel =>
         life[channel_[k]] = IF state_[k] = "kConnecting" THEN "used" ELSE "spent"
  /\ \A k, j \in Connectors :
       channel_[k] = channel_[j] /\ channel_[k] # NoChannel => k = j

\* What the loop holds pointers to: nothing outside the event phase, channels
\* still to be called that are registered, and one whose handler has taken it
\* out and which is spent.
Held ==
  /\ pc # "events" => activeChannels_ = {} /\ current = NoChannel
  /\ \A c \in activeChannels_ : reg.isInLoop_[c]
  /\ current \notin activeChannels_
  /\ current # NoChannel => reg.isInLoop_[current] \/ life[current] = "spent"
  /\ \A k \in Connectors :
       current = channel_[k] /\ current # NoChannel => state_[k] # "kDisconnected"

PollerInv ==
  /\ PollerTypeOK /\ Sound(reg) /\ Mirrors /\ Occupancy /\ InUse /\ Attempts /\ Held
-----------------------------------------------------------------------------
\* The constructed Poller satisfies the invariant.
LEMMA PollerInitInv == PollerInit => PollerInv
<1> SUFFICES ASSUME PollerInit PROVE PollerInv
  OBVIOUS
<1>1. PollerTypeOK
  BY DEF PollerInit, PollerTypeOK, Registrations, Indexes, Lives
<1>2. Sound(reg) /\ Mirrors
  BY PollerConstants DEF PollerInit, Sound, Mirrors, Tidy
<1>3. Occupancy /\ InUse /\ Attempts /\ Held
  BY DEF PollerInit, Occupancy, InUse, Attempts, Held, Holding
<1> QED BY <1>1, <1>2, <1>3 DEF PollerInv

-----------------------------------------------------------------------------
\* The changes of reg that the operations consist of: an epoll_ctl that works,
\* and the assignments of updateChannel and of removeChannel.
Entry(r, f, p, w) == [r EXCEPT !.ptr[f] = p, !.watched[f] = w]

Enrolled(r, f, c, ev, i, b) ==
  [r EXCEPT !.fdMap_[f] = c, !.events_[c] = ev, !.index_[c] = i,
            !.isInLoop_[c] = TRUE, !.failed = b]

Dropped(r, f, c, i, b) ==
  [r EXCEPT !.fdMap_[f] = NoChannel, !.index_[c] = i, !.isInLoop_[c] = FALSE,
            !.failed = b]

\* What each of them makes of r, field by field.
EntryOf(r, k, f, p, w) ==
  /\ k \in Registrations
  /\ k.ptr = [r.ptr EXCEPT ![f] = p]
  /\ k.watched = [r.watched EXCEPT ![f] = w]
  /\ k.fdMap_ = r.fdMap_ /\ k.events_ = r.events_
  /\ k.index_ = r.index_ /\ k.isInLoop_ = r.isInLoop_
  /\ k.open = r.open /\ k.failed = r.failed

EnrolledOf(k, r, f, c, ev, i, b) ==
  /\ r \in Registrations
  /\ r.ptr = k.ptr /\ r.watched = k.watched /\ r.open = k.open
  /\ r.fdMap_ = [k.fdMap_ EXCEPT ![f] = c]
  /\ r.events_ = [k.events_ EXCEPT ![c] = ev]
  /\ r.index_ = [k.index_ EXCEPT ![c] = i]
  /\ r.isInLoop_ = [k.isInLoop_ EXCEPT ![c] = TRUE]
  /\ r.failed = b

DroppedOf(k, r, f, c, i, b) ==
  /\ r \in Registrations
  /\ r.ptr = k.ptr /\ r.watched = k.watched /\ r.open = k.open
  /\ r.events_ = k.events_
  /\ r.fdMap_ = [k.fdMap_ EXCEPT ![f] = NoChannel]
  /\ r.index_ = [k.index_ EXCEPT ![c] = i]
  /\ r.isInLoop_ = [k.isInLoop_ EXCEPT ![c] = FALSE]
  /\ r.failed = b

\* An epoll_ctl that works changes one entry of the kernel's set.
LEMMA EntryChanged ==
  ASSUME NEW r \in Registrations, NEW f \in Fds,
         NEW p \in Channels \cup {NoChannel}, NEW w \in SUBSET Events
  PROVE  EntryOf(r, Entry(r, f, p, w), f, p, w)
BY DEF Registrations, Entry, EntryOf

\* updateChannel changes one entry of the map and the channel's members.
LEMMA MembersUpdated ==
  ASSUME NEW k \in Registrations, NEW f \in Fds, NEW c \in Channels,
         NEW ev \in SUBSET Events, NEW i \in Indexes, NEW b \in SUBSET Fds
  PROVE  EnrolledOf(k, Enrolled(k, f, c, ev, i, b), f, c, ev, i, b)
BY DEF Registrations, Enrolled, EnrolledOf

\* removeChannel takes one entry out of the map and resets two members.
LEMMA MembersRemoved ==
  ASSUME NEW k \in Registrations, NEW f \in Fds, NEW c \in Channels,
         NEW i \in Indexes, NEW b \in SUBSET Fds
  PROVE  DroppedOf(k, Dropped(k, f, c, i, b), f, c, i, b)
BY DEF Registrations, Dropped, DroppedOf

\* What updateChannel makes of r, called for c with the events ev.
UpdateOf(r, u, c, ev) ==
  LET f == fd_[c]
      new == Adds(r.index_[c])
      gone == ~new /\ ev = {}
      works == f \in r.open /\ (new <=> (r.ptr[f] = NoChannel))
  IN  /\ u \in Registrations /\ u.open = r.open
      /\ u.fdMap_ = [r.fdMap_ EXCEPT ![f] = c]
      /\ u.events_ = [r.events_ EXCEPT ![c] = ev]
      /\ u.index_ = [r.index_ EXCEPT ![c] = IF gone THEN "kDeleted" ELSE "kAdded"]
      /\ u.isInLoop_ = [r.isInLoop_ EXCEPT ![c] = TRUE]
      /\ works => /\ u.ptr = [r.ptr EXCEPT ![f] = IF gone THEN NoChannel ELSE c]
                  /\ u.watched = [r.watched EXCEPT ![f] = IF gone THEN {} ELSE ev]
      /\ ~works => u.ptr = r.ptr /\ u.watched = r.watched
      /\ u.failed \in {r.failed, r.failed \cup {f}}
      /\ (r.fdMap_[f] = IF r.index_[c] = "kNew" THEN NoChannel ELSE c)
           => u.failed = r.failed

LEMMA UpdatedIs ==
  ASSUME fd_ \in [Channels -> Fds], NEW r \in Registrations, NEW c \in Channels,
         NEW ev \in SUBSET Events
  PROVE  UpdateOf(r, Updated(r, c, ev), c, ev)
<1> DEFINE f == fd_[c]
           index == r.index_[c]
           new == Adds(index)
           op == IF new THEN "ADD" ELSE IF ev = {} THEN "DEL" ELSE "MOD"
           gone == ~new /\ ev = {}
           works == f \in r.open /\ (new <=> (r.ptr[f] = NoChannel))
           ok == r.fdMap_[f] = IF index = "kNew" THEN NoChannel ELSE c
           k == Ctl(r, op, c, ev)
           i == IF op = "DEL" THEN "kDeleted" ELSE "kAdded"
           b == Asserted(r, f, ok)
<1>1. f \in Fds /\ gone \in BOOLEAN /\ (gone <=> op = "DEL") /\ (new <=> op = "ADD")
  OBVIOUS
<1>2. /\ i \in Indexes /\ i = IF gone THEN "kDeleted" ELSE "kAdded"
      /\ b \in SUBSET Fds /\ b \in {r.failed, r.failed \cup {f}} /\ (ok => b = r.failed)
  BY DEF Asserted, Indexes, Registrations
<1> DEFINE p == IF gone THEN NoChannel ELSE c
           w == IF gone THEN {} ELSE ev
<1>3. p \in Channels \cup {NoChannel} /\ w \in SUBSET Events
  OBVIOUS
<1>4. works => k = Entry(r, f, p, w)
  <2> HIDE DEF op, gone, new
  <2> QED BY <1>1 DEF Ctl, Entry
<1>5. ~works => k = r
  <2> HIDE DEF op, gone, new
  <2> QED BY <1>1 DEF Ctl
<1>6. Updated(r, c, ev) = Enrolled(k, f, c, ev, i, b)
  BY DEF Updated, Enrolled
<1> HIDE DEF k, b, i, ok, op, p, w, works
<1>7. /\ k \in Registrations
      /\ k.fdMap_ = r.fdMap_ /\ k.events_ = r.events_
      /\ k.index_ = r.index_ /\ k.isInLoop_ = r.isInLoop_ /\ k.open = r.open
      /\ works => /\ k.ptr = [r.ptr EXCEPT ![f] = p]
                  /\ k.watched = [r.watched EXCEPT ![f] = w]
      /\ ~works => k.ptr = r.ptr /\ k.watched = r.watched
  <2> HIDE DEF f
  <2>1. CASE works
    <3>1. f \in Fds
      BY <1>1
    <3>2. PICK p1 \in Channels \cup {NoChannel}, w1 \in SUBSET Events : p1 = p /\ w1 = w
      BY <1>3
    <3> HIDE DEF new, gone, index
    <3>3. EntryOf(r, Entry(r, f, p1, w1), f, p1, w1)
      BY <3>1, EntryChanged
    <3> QED BY <1>4, <2>1, <3>2, <3>3 DEF EntryOf
  <2>2. CASE ~works
    BY <1>5, <2>2
  <2> QED BY <2>1, <2>2
<1>8. EnrolledOf(k, Enrolled(k, f, c, ev, i, b), f, c, ev, i, b)
  <2>1. f \in Fds /\ i \in Indexes /\ k \in Registrations
    BY <1>1, <1>2, <1>7
  <2>2. PICK b1 \in SUBSET Fds : b1 = b
    BY <1>2
  <2> HIDE DEF f
  <2>3. EnrolledOf(k, Enrolled(k, f, c, ev, i, b1), f, c, ev, i, b1)
    BY <2>1, MembersUpdated
  <2> QED BY <2>2, <2>3
<1>9. PICK u : u = Enrolled(k, f, c, ev, i, b)
  OBVIOUS
<1>10. UpdateOf(r, u, c, ev)
  BY <1>2, <1>7, <1>8, <1>9 DEF EnrolledOf, UpdateOf, p, w, works, ok
<1> QED BY <1>6, <1>9, <1>10

\* What disableAll() and remove() make of r, called for c.
RetireOf(r, q, c) ==
  LET f == fd_[c]
  IN  /\ q \in Registrations /\ q.open = r.open
      /\ q.fdMap_ = [r.fdMap_ EXCEPT ![f] = NoChannel]
      /\ q.index_ = [r.index_ EXCEPT ![c] = "kNew"]
      /\ q.isInLoop_ = [r.isInLoop_ EXCEPT ![c] = FALSE]
      /\ q.ptr[f] = IF f \in r.open THEN NoChannel ELSE r.ptr[f]
      /\ \A g \in Fds \ {f} : q.ptr[g] = r.ptr[g] /\ q.watched[g] = r.watched[g]
      /\ \A d \in Channels \ {c} : q.events_[d] = r.events_[d]
      /\ q.failed \in {r.failed, r.failed \cup {f}}
      /\ (r.fdMap_[f] = IF r.index_[c] = "kNew" THEN NoChannel ELSE c)
           => q.failed = r.failed

LEMMA RetiredIs ==
  ASSUME fd_ \in [Channels -> Fds], NEW r \in Registrations, NEW c \in Channels
  PROVE  RetireOf(r, Retired(r, c), c)
<1> DEFINE f == fd_[c]
           k(u) == Leaves(u, c)
           ok(u) == u.fdMap_[f] = c /\ u.events_[c] = {} /\ u.index_[c] # "kNew"
<1>1. f \in Fds /\ {} \in SUBSET Events /\ r.index_[c] \in Indexes /\ c # NoChannel
  BY PollerConstants DEF Registrations
<1>2. PICK u : u = Updated(r, c, {})
  OBVIOUS
<1>3. UpdateOf(r, u, c, {})
  BY <1>1, <1>2, UpdatedIs
<1>4. /\ u \in Registrations /\ u.open = r.open
      /\ u.fdMap_ = [r.fdMap_ EXCEPT ![f] = c]
      /\ u.events_ = [r.events_ EXCEPT ![c] = {}]
      /\ \A d \in Channels \ {c} : u.index_[d] = r.index_[d]
      /\ u.index_[c] \in {"kAdded", "kDeleted"}
      /\ u.isInLoop_ = [r.isInLoop_ EXCEPT ![c] = TRUE]
      /\ \A g \in Fds \ {f} : u.ptr[g] = r.ptr[g] /\ u.watched[g] = r.watched[g]
      /\ f \notin r.open => u.ptr[f] = r.ptr[f]
      /\ u.index_[c] = "kDeleted" /\ f \in r.open => u.ptr[f] = NoChannel
      /\ u.failed \in {r.failed, r.failed \cup {f}}
      /\ (r.fdMap_[f] = IF r.index_[c] = "kNew" THEN NoChannel ELSE c)
           => u.failed = r.failed
  <2> HIDE DEF f
  <2>1. /\ u \in Registrations /\ u.open = r.open
        /\ u.fdMap_ = [r.fdMap_ EXCEPT ![f] = c]
        /\ u.events_ = [r.events_ EXCEPT ![c] = {}]
        /\ u.isInLoop_ = [r.isInLoop_ EXCEPT ![c] = TRUE]
        /\ u.failed \in {r.failed, r.failed \cup {f}}
        /\ (r.fdMap_[f] = IF r.index_[c] = "kNew" THEN NoChannel ELSE c)
             => u.failed = r.failed
    BY <1>3 DEF UpdateOf, f
  <2>2. /\ \A d \in Channels \ {c} : u.index_[d] = r.index_[d]
        /\ u.index_[c] \in {"kAdded", "kDeleted"}
        /\ u.index_[c] = "kDeleted" => ~Adds(r.index_[c])
    BY <1>3 DEF UpdateOf, Registrations
  <2>3. \A g \in Fds \ {f} : u.ptr[g] = r.ptr[g] /\ u.watched[g] = r.watched[g]
    BY <1>1, <1>3 DEF UpdateOf, Registrations, f
  <2>4. f \notin r.open => u.ptr[f] = r.ptr[f]
    BY <1>3 DEF UpdateOf, f
  <2>5. ~Adds(r.index_[c]) /\ f \in r.open => u.ptr[f] = NoChannel
    BY <1>1, <1>3 DEF UpdateOf, Registrations, f
  <2> QED BY <2>1, <2>2, <2>3, <2>4, <2>5
<1> DEFINE b == Asserted(u, f, ok(u))
<1>5. b = u.failed
  BY <1>1, <1>4 DEF Asserted, Registrations
<1>6. PICK j : j = k(u)
  OBVIOUS
<1>7. /\ j \in Registrations
      /\ j.fdMap_ = u.fdMap_ /\ j.events_ = u.events_
      /\ j.index_ = u.index_ /\ j.isInLoop_ = u.isInLoop_ /\ j.open = u.open
      /\ \A g \in Fds \ {f} : j.ptr[g] = u.ptr[g] /\ j.watched[g] = u.watched[g]
      /\ j.ptr[f] = IF f \in r.open THEN NoChannel ELSE r.ptr[f]
  <2>1. CASE u.index_[c] = "kAdded" /\ f \in r.open /\ u.ptr[f] # NoChannel
    <3>1. j = Entry(u, f, NoChannel, {})
      BY <1>4, <1>6, <2>1 DEF Leaves, Ctl, Entry
    <3>2. /\ j \in Registrations
          /\ j.ptr = [u.ptr EXCEPT ![f] = NoChannel]
          /\ j.watched = [u.watched EXCEPT ![f] = {}]
          /\ j.fdMap_ = u.fdMap_ /\ j.events_ = u.events_
          /\ j.index_ = u.index_ /\ j.isInLoop_ = u.isInLoop_ /\ j.open = u.open
      <4>1. PICK p \in Channels \cup {NoChannel} : p = NoChannel
        OBVIOUS
      <4>2. PICK w \in SUBSET Events : w = {}
        OBVIOUS
      <4>3. j = Entry(u, f, p, w)
        BY <3>1, <4>1, <4>2
      <4>4. f \in Fds /\ u \in Registrations
        BY <1>1, <1>4
      <4> HIDE DEF f
      <4>5. EntryOf(u, Entry(u, f, p, w), f, p, w)
        BY <4>4, EntryChanged
      <4> QED BY <4>1, <4>2, <4>3, <4>5 DEF EntryOf
    <3> HIDE DEF f
    <3> QED BY <1>1, <1>4, <2>1, <3>2 DEF Registrations
  <2>2. CASE ~(u.index_[c] = "kAdded" /\ f \in r.open /\ u.ptr[f] # NoChannel)
    <3>1. j = u
      BY <1>4, <1>6, <2>2 DEF Leaves, Ctl
    <3>2. f \in r.open => u.ptr[f] = NoChannel
      BY <1>4, <2>2
    <3> QED BY <1>4, <3>1, <3>2
  <2> QED BY <2>1, <2>2
<1>8. Removed(u, c) = Dropped(j, f, c, "kNew", b)
  BY <1>6 DEF Removed, IndexAfter, Dropped
<1>9. PICK q : q = Removed(u, c)
  OBVIOUS
<1>10. /\ q \in Registrations
       /\ q.ptr = j.ptr /\ q.watched = j.watched /\ q.open = j.open
       /\ q.events_ = j.events_
       /\ q.fdMap_ = [j.fdMap_ EXCEPT ![f] = NoChannel]
       /\ q.index_ = [j.index_ EXCEPT ![c] = "kNew"]
       /\ q.isInLoop_ = [j.isInLoop_ EXCEPT ![c] = FALSE]
       /\ q.failed = b
  <2>1. PICK i \in Indexes : i = "kNew"
    BY DEF Indexes
  <2>2. PICK b1 \in SUBSET Fds : b1 = b
    BY <1>4, <1>5 DEF Registrations
  <2>3. f \in Fds /\ j \in Registrations
    BY <1>1, <1>7
  <2> HIDE DEF f, b
  <2>4. DroppedOf(j, Dropped(j, f, c, i, b1), f, c, i, b1)
    BY <2>3, MembersRemoved
  <2> QED BY <1>8, <1>9, <2>1, <2>2, <2>4 DEF DroppedOf
<1> HIDE DEF b, f
<1>11. /\ q.fdMap_ = [r.fdMap_ EXCEPT ![f] = NoChannel]
       /\ q.isInLoop_ = [r.isInLoop_ EXCEPT ![c] = FALSE]
  BY <1>1, <1>4, <1>7, <1>10 DEF Registrations
<1>12. q.index_ = [r.index_ EXCEPT ![c] = "kNew"]
  BY <1>1, <1>4, <1>7, <1>10 DEF Registrations
<1>13. \A d \in Channels \ {c} : q.events_[d] = r.events_[d]
  <2>1. q.events_ = [r.events_ EXCEPT ![c] = {}]
    BY <1>4, <1>7, <1>10
  <2> QED BY <2>1 DEF Registrations
<1>14. RetireOf(r, q, c)
  BY <1>4, <1>5, <1>7, <1>10, <1>11, <1>12, <1>13 DEF RetireOf, f
<1> QED BY <1>2, <1>9, <1>14 DEF Retired

-----------------------------------------------------------------------------
\* No other channel with the descriptor of c thinks that it is registered.
Alone(r, c) == \A d \in Channels \ {c} : fd_[d] = fd_[c] => ~r.isInLoop_[d]

\* A step from r to q that is about f leaves the other descriptors as they were.
Apart(r, q, f) ==
  /\ q \in Registrations /\ Sound(q)
  /\ \A g \in Fds \ {f} : Tidy(r, g) => Tidy(q, g)

\* What is equal at g is as tidy there.
LEMMA TidyFrame ==
  ASSUME fd_ \in [Channels -> Fds], NEW r, NEW q, NEW g \in Fds, Tidy(r, g),
         q.fdMap_[g] = r.fdMap_[g], q.ptr[g] = r.ptr[g], q.watched[g] = r.watched[g],
         g \in q.failed => g \in r.failed,
         \A d \in Channels :
           fd_[d] = g => q.index_[d] = r.index_[d] /\ q.events_[d] = r.events_[d]
  PROVE  Tidy(q, g)
BY DEF Tidy

\* updateChannel, of a channel that is alone on an open descriptor, leaves it tidy.
LEMMA UpdateApart ==
  ASSUME fd_ \in [Channels -> Fds], NEW r \in Registrations, Sound(r),
         NEW c \in Channels, NEW ev \in SUBSET Events, NEW u, UpdateOf(r, u, c, ev)
  PROVE  /\ Apart(r, u, fd_[c])
         /\ u.open = r.open /\ u.isInLoop_ = [r.isInLoop_ EXCEPT ![c] = TRUE]
         /\ Tidy(r, fd_[c]) /\ fd_[c] \in r.open /\ Alone(r, c) => Tidy(u, fd_[c])
<1>0. PICK f \in Fds : f = fd_[c]
  OBVIOUS
<1> DEFINE gone == ~Adds(r.index_[c]) /\ ev = {}
           works == f \in r.open /\ (Adds(r.index_[c]) <=> (r.ptr[f] = NoChannel))
<1>1. /\ u \in Registrations /\ u.open = r.open
      /\ u.fdMap_ = [r.fdMap_ EXCEPT ![f] = c]
      /\ u.events_ = [r.events_ EXCEPT ![c] = ev]
      /\ u.index_ = [r.index_ EXCEPT ![c] = IF gone THEN "kDeleted" ELSE "kAdded"]
      /\ u.isInLoop_ = [r.isInLoop_ EXCEPT ![c] = TRUE]
      /\ works => /\ u.ptr = [r.ptr EXCEPT ![f] = IF gone THEN NoChannel ELSE c]
                  /\ u.watched = [r.watched EXCEPT ![f] = IF gone THEN {} ELSE ev]
      /\ ~works => u.ptr = r.ptr /\ u.watched = r.watched
      /\ u.failed \in {r.failed, r.failed \cup {f}}
      /\ (r.fdMap_[f] = IF r.index_[c] = "kNew" THEN NoChannel ELSE c)
           => u.failed = r.failed
  BY <1>0 DEF UpdateOf
<1>2. c # NoChannel /\ r.index_[c] \in Indexes
  BY PollerConstants DEF Registrations
<1> HIDE DEF gone
<1>3. Sound(u)
  <2>1. \A g \in Fds : u.ptr[g] = r.ptr[g] \/ (g = f /\ f \in r.open /\ u.ptr[g] \in {NoChannel, c})
    BY <1>1 DEF Registrations
  <2>2. \A d \in Channels : r.isInLoop_[d] => u.isInLoop_[d]
    BY <1>1 DEF Registrations
  <2>3. u.isInLoop_[c]
    BY <1>1 DEF Registrations
  <2>4. \A d \in Channels : u.isInLoop_[d] <=> u.index_[d] # "kNew"
    BY <1>1 DEF Registrations, Sound
  <2>5. \A g \in Fds : r.ptr[g] # NoChannel => r.ptr[g] \in Channels
    BY DEF Registrations
  <2> QED BY <1>0, <1>1, <1>2, <2>1, <2>2, <2>3, <2>4, <2>5 DEF Sound
<1>4. ASSUME NEW g \in Fds \ {f}, Tidy(r, g) PROVE Tidy(u, g)
  <2>1. u.fdMap_[g] = r.fdMap_[g] /\ u.ptr[g] = r.ptr[g] /\ u.watched[g] = r.watched[g]
    BY <1>1 DEF Registrations
  <2>2. \A d \in Channels :
          fd_[d] = g => u.index_[d] = r.index_[d] /\ u.events_[d] = r.events_[d]
    BY <1>0, <1>1 DEF Registrations
  <2>3. g \in u.failed => g \in r.failed
    BY <1>1
  <2> QED BY <1>4, <2>1, <2>2, <2>3, TidyFrame
<1>5. ASSUME Tidy(r, f), f \in r.open, Alone(r, c) PROVE Tidy(u, f)
  <2>1. \A d \in Channels \ {c} : fd_[d] = f => r.index_[d] = "kNew"
    BY <1>0, <1>5 DEF Alone, Sound, Registrations
  <2>2. r.fdMap_[f] = IF r.index_[c] = "kNew" THEN NoChannel ELSE c
    <3>1. r.fdMap_[f] \in Channels \cup {NoChannel}
      BY DEF Registrations
    <3> QED BY <1>0, <1>5, <2>1, <3>1 DEF Tidy
  <2>3. works
    BY <1>0, <1>2, <1>5, <2>2 DEF Tidy, Adds, Indexes
  <2>4. /\ u.fdMap_[f] = c /\ f \notin u.failed
        /\ u.ptr[f] = IF gone THEN NoChannel ELSE c
        /\ u.watched[f] = IF gone THEN {} ELSE ev
        /\ u.index_[c] = IF gone THEN "kDeleted" ELSE "kAdded"
        /\ u.events_[c] = ev
    <3>1. u.ptr = [r.ptr EXCEPT ![f] = IF gone THEN NoChannel ELSE c]
      BY <1>1, <2>3
    <3>2. u.watched = [r.watched EXCEPT ![f] = IF gone THEN {} ELSE ev]
      BY <1>1, <2>3
    <3>3. f \notin u.failed
      BY <1>1, <1>5, <2>2 DEF Tidy
    <3>4. u.fdMap_[f] = c /\ u.events_[c] = ev
      BY <1>1 DEF Registrations
    <3>5. u.index_[c] = IF gone THEN "kDeleted" ELSE "kAdded"
      BY <1>1 DEF Registrations
    <3>6. u.ptr[f] = IF gone THEN NoChannel ELSE c
      BY <3>1 DEF Registrations
    <3>7. u.watched[f] = IF gone THEN {} ELSE ev
      BY <3>2 DEF Registrations
    <3> QED BY <3>3, <3>4, <3>5, <3>6, <3>7
  <2>5. \A d \in Channels \ {c} : fd_[d] = f => u.index_[d] = "kNew"
    BY <1>1, <2>1 DEF Registrations
  <2> HIDE DEF works
  <2> QED BY <1>0, <1>2, <2>4, <2>5, PollerConstants DEF Tidy
<1> QED BY <1>0, <1>1, <1>3, <1>4, <1>5 DEF Apart

\* disableAll() and remove(), of a channel that is alone on its descriptor, leave
\* it tidy.
LEMMA RetireApart ==
  ASSUME fd_ \in [Channels -> Fds], NEW r \in Registrations, Sound(r),
         NEW c \in Channels, NEW q, RetireOf(r, q, c)
  PROVE  /\ Apart(r, q, fd_[c])
         /\ q.open = r.open /\ q.isInLoop_ = [r.isInLoop_ EXCEPT ![c] = FALSE]
         /\ Tidy(r, fd_[c]) /\ Alone(r, c) => Tidy(q, fd_[c])
<1>0. PICK f \in Fds : f = fd_[c]
  OBVIOUS
<1>1. /\ q \in Registrations /\ q.open = r.open
      /\ q.fdMap_ = [r.fdMap_ EXCEPT ![f] = NoChannel]
      /\ q.index_ = [r.index_ EXCEPT ![c] = "kNew"]
      /\ q.isInLoop_ = [r.isInLoop_ EXCEPT ![c] = FALSE]
      /\ q.ptr[f] = IF f \in r.open THEN NoChannel ELSE r.ptr[f]
      /\ \A g \in Fds \ {f} : q.ptr[g] = r.ptr[g] /\ q.watched[g] = r.watched[g]
      /\ \A d \in Channels \ {c} : q.events_[d] = r.events_[d]
      /\ q.failed \in {r.failed, r.failed \cup {f}}
      /\ (r.fdMap_[f] = IF r.index_[c] = "kNew" THEN NoChannel ELSE c)
           => q.failed = r.failed
  BY <1>0 DEF RetireOf
<1>2. q.ptr[f] = NoChannel /\ c # NoChannel
  BY <1>0, <1>1, PollerConstants DEF Sound
<1>3. Sound(q)
  <2>1. \A d \in Channels \ {c} : q.isInLoop_[d] = r.isInLoop_[d]
    BY <1>1 DEF Registrations
  <2>2. \A d \in Channels : q.isInLoop_[d] <=> q.index_[d] # "kNew"
    <3>1. ~q.isInLoop_[c] /\ q.index_[c] = "kNew"
      BY <1>1 DEF Registrations
    <3>2. \A d \in Channels \ {c} :
            q.isInLoop_[d] = r.isInLoop_[d] /\ q.index_[d] = r.index_[d]
      BY <1>1 DEF Registrations
    <3> QED BY <3>1, <3>2 DEF Sound
  <2>3. \A g \in Fds : r.ptr[g] # NoChannel => r.ptr[g] \in Channels
    BY DEF Registrations
  <2> QED BY <1>0, <1>1, <1>2, <2>1, <2>2, <2>3 DEF Sound
<1>4. ASSUME NEW g \in Fds \ {f}, Tidy(r, g) PROVE Tidy(q, g)
  <2>1. q.fdMap_[g] = r.fdMap_[g] /\ q.ptr[g] = r.ptr[g] /\ q.watched[g] = r.watched[g]
    BY <1>1 DEF Registrations
  <2>2. \A d \in Channels :
          fd_[d] = g => q.index_[d] = r.index_[d] /\ q.events_[d] = r.events_[d]
    BY <1>0, <1>1 DEF Registrations
  <2>3. g \in q.failed => g \in r.failed
    BY <1>1
  <2> QED BY <1>4, <2>1, <2>2, <2>3, TidyFrame
<1>5. ASSUME Tidy(r, f), Alone(r, c) PROVE Tidy(q, f)
  <2>1. \A d \in Channels \ {c} : fd_[d] = f => r.index_[d] = "kNew"
    BY <1>0, <1>5 DEF Alone, Sound, Registrations
  <2>2. r.fdMap_[f] = IF r.index_[c] = "kNew" THEN NoChannel ELSE c
    <3>1. r.fdMap_[f] \in Channels \cup {NoChannel}
      BY DEF Registrations
    <3> QED BY <1>0, <1>5, <2>1, <3>1 DEF Tidy
  <2>3. q.fdMap_[f] = NoChannel /\ f \notin q.failed
    BY <1>1, <1>5, <2>2 DEF Registrations, Tidy
  <2>4. \A d \in Channels : fd_[d] = f => q.index_[d] = "kNew"
    BY <1>1, <2>1 DEF Registrations
  <2> QED BY <1>2, <2>3, <2>4, PollerConstants DEF Tidy
<1> QED BY <1>0, <1>1, <1>3, <1>4, <1>5 DEF Apart

\* The close of a descriptor that no channel is registered for leaves it tidy.
LEMMA CloseApart ==
  ASSUME fd_ \in [Channels -> Fds], NEW r \in Registrations, Sound(r), NEW f \in Fds
  PROVE  /\ Apart(r, Closed(r, f), f)
         /\ Closed(r, f).open = r.open \ {f} /\ Closed(r, f).isInLoop_ = r.isInLoop_
         /\ Tidy(r, f) /\ (\A d \in Channels : fd_[d] = f => ~r.isInLoop_[d])
              => Tidy(Closed(r, f), f)
<1>0. PICK q : q = Closed(r, f)
  OBVIOUS
<1>1. /\ q \in Registrations
      /\ q.open = r.open \ {f} /\ q.isInLoop_ = r.isInLoop_ /\ q.index_ = r.index_
      /\ q.fdMap_ = r.fdMap_ /\ q.events_ = r.events_ /\ q.failed = r.failed
      /\ q.ptr = [r.ptr EXCEPT ![f] = NoChannel]
      /\ q.watched = [r.watched EXCEPT ![f] = {}]
  BY <1>0 DEF Closed, Registrations
<1>2. /\ q.ptr[f] = NoChannel
      /\ \A g \in Fds \ {f} : q.ptr[g] = r.ptr[g] /\ q.watched[g] = r.watched[g]
  BY <1>1 DEF Registrations
<1>3. Sound(q)
  BY <1>1, <1>2 DEF Sound
<1>4. ASSUME NEW g \in Fds \ {f}, Tidy(r, g) PROVE Tidy(q, g)
  BY <1>1, <1>2, <1>4, TidyFrame
<1>5. ASSUME Tidy(r, f), \A d \in Channels : fd_[d] = f => ~r.isInLoop_[d]
      PROVE  Tidy(q, f)
  <2>1. \A d \in Channels : fd_[d] = f => q.index_[d] = "kNew"
    BY <1>1, <1>5 DEF Sound
  <2> QED BY <1>1, <1>2, <1>5, <2>1, PollerConstants DEF Tidy
<1> QED BY <1>0, <1>1, <1>3, <1>4, <1>5 DEF Apart

\* The opening of a descriptor changes nothing else.
LEMMA OpenApart ==
  ASSUME fd_ \in [Channels -> Fds], NEW r \in Registrations, Sound(r), NEW f \in Fds
  PROVE  /\ Apart(r, Opened(r, f), f)
         /\ Opened(r, f).open = r.open \cup {f} /\ Opened(r, f).isInLoop_ = r.isInLoop_
         /\ Tidy(r, f) => Tidy(Opened(r, f), f)
<1>0. PICK q : q = Opened(r, f)
  OBVIOUS
<1>1. /\ q \in Registrations
      /\ q.open = r.open \cup {f} /\ q.isInLoop_ = r.isInLoop_ /\ q.index_ = r.index_
      /\ q.fdMap_ = r.fdMap_ /\ q.events_ = r.events_ /\ q.failed = r.failed
      /\ q.ptr = r.ptr /\ q.watched = r.watched
  BY <1>0 DEF Opened, Registrations
<1>2. Sound(q)
  BY <1>1 DEF Sound
<1>3. ASSUME NEW g \in Fds, Tidy(r, g) PROVE Tidy(q, g)
  BY <1>1, <1>3, TidyFrame
<1> QED BY <1>0, <1>1, <1>2, <1>3 DEF Apart

\* ~Channel of a channel that has been removed changes nothing.
LEMMA DeleteApart ==
  ASSUME fd_ \in [Channels -> Fds], NEW r \in Registrations, Sound(r),
         NEW c \in Channels
  PROVE  /\ Apart(r, Deleted(r, c), fd_[c])
         /\ Deleted(r, c).open = r.open /\ Deleted(r, c).isInLoop_ = r.isInLoop_
         /\ ~r.isInLoop_[c] => Deleted(r, c) = r
<1>0. PICK q : q = Deleted(r, c)
  OBVIOUS
<1>1. /\ q \in Registrations
      /\ q.open = r.open /\ q.isInLoop_ = r.isInLoop_ /\ q.index_ = r.index_
      /\ q.fdMap_ = r.fdMap_ /\ q.events_ = r.events_
      /\ q.failed \in {r.failed, r.failed \cup {fd_[c]}}
      /\ q.ptr = r.ptr /\ q.watched = r.watched
      /\ ~r.isInLoop_[c] => q.failed = r.failed
  BY <1>0 DEF Deleted, Asserted, Registrations
<1>2. Sound(q)
  BY <1>1 DEF Sound
<1>3. ASSUME NEW g \in Fds \ {fd_[c]}, Tidy(r, g) PROVE Tidy(q, g)
  BY <1>1, <1>3, TidyFrame
<1>4. ~r.isInLoop_[c] => q = r
  BY <1>0 DEF Deleted, Asserted, Registrations
<1> QED BY <1>0, <1>1, <1>2, <1>3, <1>4 DEF Apart
-----------------------------------------------------------------------------
LEMMA ApartTrans ==
  ASSUME NEW r, NEW q, NEW s, NEW f \in Fds, Apart(r, q, f), Apart(q, s, f)
  PROVE  Apart(r, s, f)
BY DEF Apart

\* What is spoiled stays so.
LEMMA SpoiledGrows ==
  ASSUME fd_' = fd_, refused \subseteq refused', torn \subseteq torn'
  PROVE  Spoiled \subseteq Spoiled'
BY DEF Spoiled

LEMMA SpoiledKept ==
  ASSUME fd_' = fd_, refused' = refused, torn' = torn
  PROVE  Spoiled' = Spoiled
BY DEF Spoiled

\* A step about one descriptor, which is left tidy or is spoiled.
LEMMA RegStep ==
  ASSUME PollerInv, fd_' = fd_, NEW f \in Fds, Apart(reg, reg', f),
         Spoiled \subseteq Spoiled', f \in Spoiled' \/ Tidy(reg', f)
  PROVE  reg' \in Registrations /\ Sound(reg)' /\ Mirrors'
<1>1. reg' \in Registrations /\ Sound(reg') /\ \A g \in Fds \ {f} : Tidy(reg, g) => Tidy(reg', g)
  BY DEF Apart
<1>2. Sound(reg)'
  BY <1>1 DEF Sound
<1>3. \A g \in Fds \ Spoiled' : Tidy(reg', g)
  BY <1>1 DEF PollerInv, Mirrors
<1>4. Mirrors'
  BY <1>3 DEF Mirrors, Tidy
<1> QED BY <1>1, <1>2, <1>4

\* Who holds a descriptor that is not spoiled is alone there, and it is open.
LEMMA HolderAlone ==
  ASSUME PollerInv, NEW c \in Channels, life[c] \in Holding, fd_[c] \notin Spoiled
  PROVE  /\ Tidy(reg, fd_[c]) /\ fd_[c] \in reg.open /\ Alone(reg, c)
         /\ \A d \in Channels \ {c} : fd_[d] = fd_[c] => life[d] \notin Holding
<1>1. Tidy(reg, fd_[c]) /\ fd_[c] \in reg.open
  BY DEF PollerInv, PollerTypeOK, Mirrors, Occupancy
<1>2. \A d \in Channels \ {c} : fd_[d] = fd_[c] => life[d] \notin Holding
  BY DEF PollerInv, Occupancy
<1>3. ASSUME NEW d \in Channels \ {c}, fd_[d] = fd_[c], reg.isInLoop_[d] PROVE FALSE
  <2>1. life[d] = "used" \/ d \in torn
    BY <1>3 DEF PollerInv, InUse
  <2>2. d \notin torn
    BY <1>3 DEF Spoiled
  <2> QED BY <1>2, <1>3, <2>1, <2>2 DEF Holding
<1> QED BY <1>1, <1>2, <1>3 DEF Alone

\* Nobody has a closed descriptor that is not spoiled.
LEMMA ClosedVacant ==
  ASSUME PollerInv, NEW f \in Fds, f \notin reg.open, f \notin Spoiled
  PROVE  /\ Tidy(reg, f)
         /\ \A d \in Channels : fd_[d] = f => life[d] \notin Holding /\ ~reg.isInLoop_[d]
<1>1. Tidy(reg, f)
  BY DEF PollerInv, Mirrors
<1>2. ASSUME NEW d \in Channels, fd_[d] = f, life[d] \in Holding PROVE FALSE
  BY <1>2 DEF PollerInv, Occupancy
<1>3. ASSUME NEW d \in Channels, fd_[d] = f, reg.isInLoop_[d] PROVE FALSE
  <2>1. life[d] = "used" \/ d \in torn
    BY <1>3 DEF PollerInv, InUse
  <2>2. d \notin torn
    BY <1>3 DEF Spoiled
  <2> QED BY <1>2, <1>3, <2>1, <2>2 DEF Holding
<1> QED BY <1>1, <1>2, <1>3

\* A channel that was not made yet is in nobody's hands.
LEMMA UnbornUnknown ==
  ASSUME PollerInv, NEW c \in Channels, life[c] = "unborn"
  PROVE  /\ ~reg.isInLoop_[c] /\ c \notin torn /\ c \notin activeChannels_ /\ c # current
         /\ \A k \in Connectors : channel_[k] # c
<1>1. c \notin torn
  BY DEF PollerInv, InUse
<1>2. ~reg.isInLoop_[c]
  BY <1>1 DEF PollerInv, InUse
<1>3. c # current /\ c \notin activeChannels_
  BY <1>2, PollerConstants DEF PollerInv, Held
<1>4. ASSUME NEW k \in Connectors, channel_[k] = c PROVE FALSE
  BY <1>4, PollerConstants DEF PollerInv, Attempts
<1> QED BY <1>1, <1>2, <1>3, <1>4

LEMMA ConstructInv ==
  ASSUME PollerInv, NEW c \in Channels, Construct(c)
  PROVE  PollerInv'
<1>0. PICK f \in Fds : f = fd_[c]
  BY DEF PollerInv, PollerTypeOK
<1>1. /\ life[c] = "unborn" /\ f \notin reg.open
      /\ reg' = Opened(reg, f) /\ life' = [life EXCEPT ![c] = "made"]
      /\ fd_' = fd_ /\ channel_' = channel_ /\ state_' = state_ /\ resets' = resets
      /\ activeChannels_' = activeChannels_ /\ current' = current /\ pc' = pc
      /\ refused' = refused /\ torn' = torn
  BY <1>0 DEF Construct, connectors, loopState
<1>2. PollerTypeOK /\ fd_ \in [Channels -> Fds] /\ reg \in Registrations /\ Sound(reg)
  BY DEF PollerInv, PollerTypeOK
<1>3. Spoiled' = Spoiled
  BY <1>1, SpoiledKept
<1>4. /\ Apart(reg, reg', f) /\ (f \in Spoiled' \/ Tidy(reg', f))
      /\ reg'.open = reg.open \cup {f} /\ reg'.isInLoop_ = reg.isInLoop_
  BY <1>1, <1>2, <1>3, OpenApart DEF PollerInv, Mirrors
<1>5. reg' \in Registrations /\ Sound(reg)' /\ Mirrors'
  BY <1>1, <1>3, <1>4, RegStep
<1>6. life'[c] = "made" /\ \A d \in Channels \ {c} : life'[d] = life[d]
  BY <1>1, <1>2 DEF PollerTypeOK
<1>7. PollerTypeOK'
  BY <1>1, <1>2, <1>5 DEF PollerTypeOK, Lives, Holding
<1>8. /\ ~reg.isInLoop_[c] /\ c \notin torn /\ c # current
      /\ \A k \in Connectors : channel_[k] # c
  BY <1>1, UnbornUnknown
<1>9. f \notin Spoiled => \A d \in Channels : fd_[d] = f => life[d] \notin Holding
  BY <1>1, ClosedVacant
<1>10. Occupancy'
  BY <1>0, <1>1, <1>3, <1>4, <1>6, <1>9 DEF PollerInv, Occupancy, Holding
<1>11. InUse'
  BY <1>1, <1>4, <1>6, <1>8 DEF PollerInv, InUse
<1>12. Attempts'
  BY <1>1, <1>2, <1>6, <1>8 DEF PollerInv, Attempts, PollerTypeOK
<1>13. Held'
  BY <1>1, <1>2, <1>4, <1>6, <1>8 DEF PollerInv, Held, PollerTypeOK
<1> QED BY <1>5, <1>7, <1>10, <1>11, <1>12, <1>13 DEF PollerInv

LEMMA ChangeInv ==
  ASSUME PollerInv, NEW c \in Channels, Change(c)
  PROVE  PollerInv'
<1>0. PICK f \in Fds : f = fd_[c]
  BY DEF PollerInv, PollerTypeOK
<1>1. /\ life[c] \in Holding /\ Plain(c) /\ life' = [life EXCEPT ![c] = "used"]
      /\ fd_' = fd_ /\ channel_' = channel_ /\ state_' = state_ /\ resets' = resets
      /\ activeChannels_' = activeChannels_ /\ current' = current /\ pc' = pc
      /\ refused' = refused /\ torn' = torn
  BY <1>0 DEF Change, connectors, loopState
<1>2. PollerTypeOK /\ fd_ \in [Channels -> Fds] /\ reg \in Registrations /\ Sound(reg)
  BY DEF PollerInv, PollerTypeOK
<1>3. PICK ev \in SUBSET Events : reg' = Updated(reg, c, ev)
  <2>1. reg.events_[c] \in SUBSET Events
    BY <1>2 DEF Registrations
  <2> QED BY <2>1 DEF Change
<1>4. Spoiled' = Spoiled
  BY <1>1, SpoiledKept
<1>5. UpdateOf(reg, reg', c, ev)
  BY <1>2, <1>3, UpdatedIs
<1>6. /\ Apart(reg, reg', fd_[c]) /\ reg'.open = reg.open
      /\ reg'.isInLoop_ = [reg.isInLoop_ EXCEPT ![c] = TRUE]
      /\ Tidy(reg, fd_[c]) /\ fd_[c] \in reg.open /\ Alone(reg, c) => Tidy(reg', fd_[c])
  BY <1>2, <1>5, UpdateApart
<1>7. f \in Spoiled' \/ Tidy(reg', f)
  BY <1>0, <1>1, <1>4, <1>6, HolderAlone
<1>8. reg' \in Registrations /\ Sound(reg)' /\ Mirrors'
  BY <1>0, <1>1, <1>4, <1>6, <1>7, RegStep
<1>9. /\ life'[c] = "used" /\ \A d \in Channels \ {c} : life'[d] = life[d]
      /\ reg'.isInLoop_[c] /\ \A d \in Channels \ {c} : reg'.isInLoop_[d] = reg.isInLoop_[d]
  BY <1>1, <1>2, <1>6 DEF PollerTypeOK, Registrations
<1>10. PollerTypeOK'
  BY <1>1, <1>2, <1>8 DEF PollerTypeOK, Lives, Holding
<1>11. Occupancy'
  BY <1>1, <1>4, <1>6, <1>9 DEF PollerInv, Occupancy, Holding
<1>12. InUse'
  BY <1>1, <1>9 DEF PollerInv, InUse, Holding
<1>13. Attempts'
  BY <1>1, <1>2, <1>9 DEF PollerInv, Attempts, PollerTypeOK, Plain
<1>14. Held'
  BY <1>1, <1>2, <1>9 DEF PollerInv, Held, PollerTypeOK, Holding
<1> QED BY <1>8, <1>10, <1>11, <1>12, <1>13, <1>14 DEF PollerInv

LEMMA RetireInv ==
  ASSUME PollerInv, NEW c \in Channels, Retire(c)
  PROVE  PollerInv'
<1>0. PICK f \in Fds : f = fd_[c]
  BY DEF PollerInv, PollerTypeOK
<1>1. /\ pc = "functors" /\ reg' = Retired(reg, c)
      /\ life[c] \in Holding /\ Plain(c) /\ life' = [life EXCEPT ![c] = "removed"]
      /\ fd_' = fd_ /\ channel_' = channel_ /\ state_' = state_ /\ resets' = resets
      /\ activeChannels_' = activeChannels_ /\ current' = current /\ pc' = pc
      /\ refused' = refused /\ torn' = torn
  BY <1>0 DEF Retire, connectors, loopState
<1>2. PollerTypeOK /\ fd_ \in [Channels -> Fds] /\ reg \in Registrations /\ Sound(reg)
  BY DEF PollerInv, PollerTypeOK
<1>4. Spoiled' = Spoiled
  BY <1>1, SpoiledKept
<1>5. RetireOf(reg, reg', c)
  BY <1>1, <1>2, RetiredIs
<1>6. /\ Apart(reg, reg', fd_[c]) /\ reg'.open = reg.open
      /\ reg'.isInLoop_ = [reg.isInLoop_ EXCEPT ![c] = FALSE]
      /\ Tidy(reg, fd_[c]) /\ Alone(reg, c) => Tidy(reg', fd_[c])
  BY <1>2, <1>5, RetireApart
<1>7. f \in Spoiled' \/ Tidy(reg', f)
  BY <1>0, <1>1, <1>4, <1>6, HolderAlone
<1>8. reg' \in Registrations /\ Sound(reg)' /\ Mirrors'
  BY <1>0, <1>1, <1>4, <1>6, <1>7, RegStep
<1>9. /\ life'[c] = "removed" /\ \A d \in Channels \ {c} : life'[d] = life[d]
      /\ ~reg'.isInLoop_[c] /\ \A d \in Channels \ {c} : reg'.isInLoop_[d] = reg.isInLoop_[d]
  BY <1>1, <1>2, <1>6 DEF PollerTypeOK, Registrations
<1>10. PollerTypeOK'
  BY <1>1, <1>2, <1>8 DEF PollerTypeOK, Lives, Holding
<1>11. Occupancy'
  BY <1>1, <1>4, <1>6, <1>9 DEF PollerInv, Occupancy, Holding
<1>12. InUse'
  BY <1>1, <1>9 DEF PollerInv, InUse, Holding
<1>13. Attempts'
  BY <1>1, <1>2, <1>9 DEF PollerInv, Attempts, PollerTypeOK, Plain
<1>14. Held'
  BY <1>1, <1>2 DEF PollerInv, Held, PollerTypeOK
<1> QED BY <1>8, <1>10, <1>11, <1>12, <1>13, <1>14 DEF PollerInv

LEMMA DestructInv ==
  ASSUME PollerInv, NEW c \in Channels, Destruct(c)
  PROVE  PollerInv'
<1>0. PICK f \in Fds : f = fd_[c]
  BY DEF PollerInv, PollerTypeOK
<1>1. /\ reg' = Closed(Deleted(reg, c), f)
      /\ life[c] \in Holding /\ Plain(c) /\ life' = [life EXCEPT ![c] = "deleted"]
      /\ torn' = IF reg.isInLoop_[c] THEN torn \cup {c} ELSE torn
      /\ fd_' = fd_ /\ channel_' = channel_ /\ state_' = state_ /\ resets' = resets
      /\ activeChannels_' = activeChannels_ /\ current' = current /\ pc' = pc
      /\ refused' = refused
  BY <1>0 DEF Destruct, connectors, loopState
<1>2. PollerTypeOK /\ fd_ \in [Channels -> Fds] /\ reg \in Registrations /\ Sound(reg)
  BY DEF PollerInv, PollerTypeOK
<1>3. /\ Spoiled \subseteq Spoiled'
      /\ reg.isInLoop_[c] => f \in Spoiled'
  <2>1. Spoiled \subseteq Spoiled'
    BY <1>1, SpoiledGrows
  <2>2. reg.isInLoop_[c] => f \in Spoiled'
    BY <1>0, <1>1 DEF Spoiled
  <2> QED BY <2>1, <2>2
<1>4. PICK r : r = Deleted(reg, c)
  OBVIOUS
<1>5. /\ r \in Registrations /\ Sound(r) /\ Apart(reg, r, f)
      /\ r.open = reg.open /\ r.isInLoop_ = reg.isInLoop_
      /\ ~reg.isInLoop_[c] => r = reg
  BY <1>0, <1>2, <1>4, DeleteApart DEF Apart
<1>6. /\ Apart(r, reg', f)
      /\ reg'.open = reg.open \ {f} /\ reg'.isInLoop_ = reg.isInLoop_
      /\ Tidy(r, f) /\ (\A d \in Channels : fd_[d] = f => ~r.isInLoop_[d])
           => Tidy(reg', f)
  BY <1>1, <1>2, <1>4, <1>5, CloseApart
<1>7. f \in Spoiled' \/ Tidy(reg', f)
  <2> SUFFICES ASSUME f \notin Spoiled' PROVE Tidy(reg', f)
    OBVIOUS
  <2>1. ~reg.isInLoop_[c] /\ f \notin Spoiled
    BY <1>3
  <2>2. Tidy(reg, f) /\ Alone(reg, c)
    BY <1>0, <1>1, <2>1, HolderAlone
  <2> QED BY <1>0, <1>5, <1>6, <2>1, <2>2 DEF Alone
<1>8. reg' \in Registrations /\ Sound(reg)' /\ Mirrors'
  BY <1>1, <1>3, <1>5, <1>6, <1>7, ApartTrans, RegStep
<1>9. life'[c] = "deleted" /\ \A d \in Channels \ {c} : life'[d] = life[d]
  BY <1>1, <1>2 DEF PollerTypeOK
<1>10. PollerTypeOK'
  BY <1>1, <1>2, <1>8 DEF PollerTypeOK, Lives, Holding
<1>11. Occupancy'
  <2>1. f \notin Spoiled' => \A d \in Channels \ {c} : fd_[d] = f => life[d] \notin Holding
    BY <1>0, <1>1, <1>3, HolderAlone
  <2> QED BY <1>0, <1>1, <1>3, <1>6, <1>9, <2>1 DEF PollerInv, Occupancy, Holding
<1>12. InUse'
  BY <1>1, <1>6, <1>9 DEF PollerInv, InUse, Holding
<1>13. Attempts'
  BY <1>1, <1>2, <1>9 DEF PollerInv, Attempts, PollerTypeOK, Plain
<1>14. Held'
  BY <1>1, <1>2, <1>6, <1>9 DEF PollerInv, Held, PollerTypeOK, Holding
<1> QED BY <1>8, <1>10, <1>11, <1>12, <1>13, <1>14 DEF PollerInv

\* A Connector's channel_ goes, registered or not.
LEMMA ResetEffect ==
  ASSUME PollerInv, NEW k \in Connectors, Reset(k), fd_' = fd_, refused' = refused
  PROVE  /\ reg' \in Registrations /\ Sound(reg)' /\ Mirrors' /\ Occupancy' /\ InUse'
         /\ reg'.isInLoop_ = reg.isInLoop_ /\ torn' \subseteq Channels
         /\ life' \in [Channels -> Lives]
         /\ \A c \in Channels : life'[c] = IF c = channel_[k] THEN "deleted" ELSE life[c]
         /\ channel_' = [channel_ EXCEPT ![k] = NoChannel]
<1>1. /\ reg' = Replaced(k, reg) /\ life' = LifeWithout(k) /\ torn' = TornWith(k)
      /\ channel_' = [channel_ EXCEPT ![k] = NoChannel]
  BY DEF Reset
<1>2. PollerTypeOK /\ fd_ \in [Channels -> Fds] /\ reg \in Registrations /\ Sound(reg)
  BY DEF PollerInv, PollerTypeOK
<1>3. /\ life' \in [Channels -> Lives]
      /\ \A c \in Channels : life'[c] = IF c = channel_[k] THEN "deleted" ELSE life[c]
  BY <1>1, <1>2 DEF LifeWithout, PollerTypeOK, Lives
<1>4. CASE channel_[k] = NoChannel
  <2>1. reg' = reg /\ torn' = torn
    BY <1>1, <1>4 DEF Replaced, TornWith
  <2>2. Spoiled' = Spoiled
    BY <2>1, SpoiledKept
  <2>3. \A c \in Channels : life'[c] = life[c]
    BY <1>3, <1>4, PollerConstants
  <2>4. Sound(reg)'
    BY <1>2, <2>1 DEF Sound
  <2>5. Mirrors'
    BY <2>1, <2>2 DEF PollerInv, Mirrors, Tidy
  <2>6. Occupancy'
    BY <2>1, <2>2, <2>3 DEF PollerInv, Occupancy
  <2>7. InUse'
    BY <2>1, <2>3 DEF PollerInv, InUse, PollerTypeOK
  <2> QED BY <1>1, <1>2, <1>3, <2>1, <2>4, <2>5, <2>6, <2>7 DEF PollerTypeOK
<1>5. CASE channel_[k] # NoChannel
  <2>0. PICK d \in Channels : d = channel_[k]
    BY <1>2, <1>5 DEF PollerTypeOK
  <2>1. /\ reg' = Deleted(reg, d)
        /\ torn' = IF reg.isInLoop_[d] THEN torn \cup {d} ELSE torn
    BY <1>1, <1>5, <2>0 DEF Replaced, TornWith
  <2>2. PICK f \in Fds : f = fd_[d]
    BY <1>2
  <2>3. Spoiled \subseteq Spoiled' /\ (reg.isInLoop_[d] => f \in Spoiled')
    <3>1. Spoiled \subseteq Spoiled'
      BY <2>1, SpoiledGrows
    <3>2. reg.isInLoop_[d] => f \in Spoiled'
      BY <2>1, <2>2 DEF Spoiled
    <3> QED BY <3>1, <3>2
  <2>4. /\ Apart(reg, reg', f) /\ reg'.open = reg.open /\ reg'.isInLoop_ = reg.isInLoop_
        /\ ~reg.isInLoop_[d] => reg' = reg
    BY <1>2, <2>1, <2>2, DeleteApart
  <2>5. f \in Spoiled' \/ Tidy(reg', f)
    <3> SUFFICES ASSUME f \notin Spoiled' PROVE Tidy(reg', f)
      OBVIOUS
    <3>1. f \notin Spoiled /\ reg' = reg
      BY <2>3, <2>4
    <3> QED BY <3>1 DEF PollerInv, Mirrors
  <2>6. reg' \in Registrations /\ Sound(reg)' /\ Mirrors'
    BY <2>3, <2>4, <2>5, RegStep
  <2>7. Occupancy'
    BY <1>3, <2>0, <2>3, <2>4 DEF PollerInv, Occupancy, Holding
  <2>8. life[d] \in {"used", "spent"}
    BY <2>0, <1>5 DEF PollerInv, Attempts
  <2>9. InUse'
    <3>1. d \notin torn /\ (reg.isInLoop_[d] <=> life[d] = "used")
      BY <2>8 DEF PollerInv, InUse
    <3>2. /\ d \in torn' <=> reg.isInLoop_[d]
          /\ \A c \in Channels \ {d} : c \in torn' <=> c \in torn
      BY <2>1, <3>1
    <3>3. life'[d] = "deleted" /\ \A c \in Channels \ {d} : life'[c] = life[c]
      BY <1>3, <2>0
    <3>4. torn' \subseteq Channels
      BY <1>2, <2>1 DEF PollerTypeOK
    <3> QED BY <2>4, <3>2, <3>3, <3>4 DEF PollerInv, InUse
  <2>10. torn' \subseteq Channels
    BY <1>2, <2>1 DEF PollerTypeOK
  <2> QED BY <1>1, <1>3, <2>4, <2>6, <2>7, <2>9, <2>10
<1> QED BY <1>4, <1>5

LEMMA ResetChannelInv ==
  ASSUME PollerInv, NEW k \in Connectors, resetChannel(k)
  PROVE  PollerInv'
<1>1. /\ pc = "functors" /\ Reset(k) /\ resets[k] > 0
      /\ resets' = [resets EXCEPT ![k] = @ - 1]
      /\ fd_' = fd_ /\ state_' = state_ /\ activeChannels_' = activeChannels_
      /\ current' = current /\ pc' = pc /\ refused' = refused
  BY DEF resetChannel, MayDelete, loopState
<1>2. PollerTypeOK
  BY DEF PollerInv
<1>3. /\ reg' \in Registrations /\ Sound(reg)' /\ Mirrors' /\ Occupancy' /\ InUse'
      /\ reg'.isInLoop_ = reg.isInLoop_ /\ torn' \subseteq Channels
      /\ life' \in [Channels -> Lives]
      /\ \A c \in Channels : life'[c] = IF c = channel_[k] THEN "deleted" ELSE life[c]
      /\ channel_' = [channel_ EXCEPT ![k] = NoChannel]
  BY <1>1, ResetEffect
<1>4. resets' \in [Connectors -> Nat]
  <2>1. resets[k] \in Nat
    BY <1>2 DEF PollerTypeOK
  <2>2. resets[k] - 1 \in Nat
    BY <1>1, <2>1
  <2> QED BY <1>1, <1>2, <2>2 DEF PollerTypeOK
<1>5. PollerTypeOK'
  BY <1>1, <1>2, <1>3, <1>4 DEF PollerTypeOK
<1>6. Attempts'
  BY <1>1, <1>2, <1>3 DEF PollerInv, Attempts, PollerTypeOK
<1>7. Held'
  BY <1>1, <1>2 DEF PollerInv, Held, PollerTypeOK
<1> QED BY <1>3, <1>5, <1>6, <1>7 DEF PollerInv

LEMMA DestroyConnectorInv ==
  ASSUME PollerInv, NEW k \in Connectors, DestroyConnector(k)
  PROVE  PollerInv'
<1>1. /\ channel_[k] = NoChannel \/ current # channel_[k]
      /\ Reset(k) /\ resets' = [resets EXCEPT ![k] = 0]
      /\ state_' = [state_ EXCEPT ![k] = "gone"]
      /\ fd_' = fd_ /\ activeChannels_' = activeChannels_
      /\ current' = current /\ pc' = pc /\ refused' = refused
  BY DEF DestroyConnector, loopState
<1>2. PollerTypeOK
  BY DEF PollerInv
<1>3. /\ reg' \in Registrations /\ Sound(reg)' /\ Mirrors' /\ Occupancy' /\ InUse'
      /\ reg'.isInLoop_ = reg.isInLoop_ /\ torn' \subseteq Channels
      /\ life' \in [Channels -> Lives]
      /\ \A c \in Channels : life'[c] = IF c = channel_[k] THEN "deleted" ELSE life[c]
      /\ channel_' = [channel_ EXCEPT ![k] = NoChannel]
  BY <1>1, ResetEffect
<1>4. PollerTypeOK'
  BY <1>1, <1>2, <1>3 DEF PollerTypeOK
<1>5. Attempts'
  BY <1>1, <1>2, <1>3 DEF PollerInv, Attempts, PollerTypeOK
<1>6. Held'
  BY <1>1, <1>2, <1>3 DEF PollerInv, Held, PollerTypeOK
<1> QED BY <1>3, <1>4, <1>5, <1>6 DEF PollerInv

LEMMA ConnectingInv ==
  ASSUME PollerInv, NEW k \in Connectors, NEW c \in Channels, connecting(k, c)
  PROVE  PollerInv'
<1>0. PICK f \in Fds : f = fd_[c]
  BY DEF PollerInv, PollerTypeOK
<1>1. /\ state_[k] = "kDisconnected" /\ life[c] = "unborn" /\ f \notin reg.open
      /\ state_' = [state_ EXCEPT ![k] = "kConnecting"]
      /\ channel_' = [channel_ EXCEPT ![k] = c]
      /\ reg' = Updated(Replaced(k, Opened(reg, f)), c, {"W"})
      /\ life' = [LifeWithout(k) EXCEPT ![c] = "used"]
      /\ torn' = TornWith(k)
      /\ fd_' = fd_ /\ resets' = resets /\ activeChannels_' = activeChannels_
      /\ current' = current /\ pc' = pc /\ refused' = refused
  BY <1>0 DEF connecting, loopState
<1>2. PollerTypeOK /\ fd_ \in [Channels -> Fds] /\ reg \in Registrations /\ Sound(reg)
  BY DEF PollerInv, PollerTypeOK
<1>3. /\ ~reg.isInLoop_[c] /\ c \notin torn /\ c # current /\ c \notin activeChannels_
      /\ \A j \in Connectors : channel_[j] # c
  BY <1>1, UnbornUnknown
<1>4. channel_[k] # NoChannel =>
        channel_[k] \in Channels /\ life[channel_[k]] = "spent" /\ ~reg.isInLoop_[channel_[k]]
  BY <1>1, <1>2 DEF PollerInv, Attempts, InUse, PollerTypeOK
<1>5. torn' = torn
  BY <1>1, <1>4 DEF TornWith
<1>6. Spoiled' = Spoiled
  BY <1>1, <1>5, SpoiledKept
<1>7. PICK r : r = Opened(reg, f)
  OBVIOUS
<1>8. /\ r \in Registrations /\ Sound(r) /\ Apart(reg, r, f)
      /\ r.open = reg.open \cup {f} /\ r.isInLoop_ = reg.isInLoop_
      /\ Tidy(reg, f) => Tidy(r, f)
  BY <1>2, <1>7, OpenApart DEF Apart
<1>9. Replaced(k, r) = r
  BY <1>2, <1>4, <1>8, DeleteApart DEF Replaced
<1>10. PICK ev \in SUBSET Events : ev = {"W"}
  BY DEF Events
<1>11. UpdateOf(r, reg', c, ev)
  BY <1>1, <1>2, <1>7, <1>8, <1>9, <1>10, UpdatedIs
<1>12. /\ Apart(r, reg', fd_[c]) /\ reg'.open = r.open
       /\ reg'.isInLoop_ = [r.isInLoop_ EXCEPT ![c] = TRUE]
       /\ Tidy(r, fd_[c]) /\ fd_[c] \in r.open /\ Alone(r, c) => Tidy(reg', fd_[c])
  BY <1>2, <1>8, <1>11, UpdateApart
<1>13. f \in Spoiled' \/ Tidy(reg', f)
  <2> SUFFICES ASSUME f \notin Spoiled' PROVE Tidy(reg', f)
    OBVIOUS
  <2>1. /\ Tidy(reg, f)
        /\ \A d \in Channels : fd_[d] = f => life[d] \notin Holding /\ ~reg.isInLoop_[d]
    BY <1>1, <1>6, ClosedVacant
  <2> QED BY <1>0, <1>8, <1>12, <2>1 DEF Alone
<1>14. reg' \in Registrations /\ Sound(reg)' /\ Mirrors'
  BY <1>0, <1>1, <1>6, <1>8, <1>12, <1>13, ApartTrans, RegStep
<1>15. /\ life' \in [Channels -> Lives] /\ life'[c] = "used"
       /\ \A d \in Channels \ {c} : life'[d] = IF d = channel_[k] THEN "deleted" ELSE life[d]
  BY <1>1, <1>2 DEF LifeWithout, PollerTypeOK, Lives, Holding
<1>16. /\ reg'.isInLoop_[c] /\ reg'.open = reg.open \cup {f}
       /\ \A d \in Channels \ {c} : reg'.isInLoop_[d] = reg.isInLoop_[d]
  BY <1>2, <1>8, <1>12 DEF Registrations
<1>17. PollerTypeOK'
  BY <1>1, <1>2, <1>5, <1>14, <1>15 DEF PollerTypeOK
<1>18. Occupancy'
  <2>1. f \notin Spoiled' => \A d \in Channels : fd_[d] = f => life[d] \notin Holding
    BY <1>1, <1>6, ClosedVacant
  <2> QED BY <1>0, <1>1, <1>6, <1>15, <1>16, <2>1 DEF PollerInv, Occupancy, Holding
<1>19. InUse'
  <2>1. \A d \in Channels : d = channel_[k] => d \notin torn /\ ~reg.isInLoop_[d]
    BY <1>4, PollerConstants DEF PollerInv, InUse
  <2>2. \A d \in Channels \ {c} :
          reg'.isInLoop_[d] <=> life'[d] = "used" \/ d \in torn'
    BY <1>5, <1>15, <1>16, <2>1 DEF PollerInv, InUse
  <2>3. \A d \in torn' : life'[d] = "deleted"
    BY <1>2, <1>3, <1>5, <1>15 DEF PollerInv, InUse, PollerTypeOK
  <2> QED BY <1>15, <1>16, <2>2, <2>3 DEF InUse
<1>20. Attempts'
  BY <1>1, <1>2, <1>3, <1>15 DEF PollerInv, Attempts, PollerTypeOK
<1>21. Held'
  BY <1>1, <1>2, <1>3, <1>15, <1>16 DEF PollerInv, Held, PollerTypeOK
<1> QED BY <1>14, <1>17, <1>18, <1>19, <1>20, <1>21 DEF PollerInv

LEMMA StopInLoopInv ==
  ASSUME PollerInv, NEW k \in Connectors, stopInLoop(k)
  PROVE  PollerInv'
<1>0. PICK d : d = channel_[k]
  OBVIOUS
<1>1. /\ pc = "functors" /\ state_[k] = "kConnecting" /\ d # NoChannel
      /\ state_' = [state_ EXCEPT ![k] = "kDisconnected"]
      /\ life' = [life EXCEPT ![d] = "spent"] /\ resets' = [resets EXCEPT ![k] = @ + 1]
      /\ reg' = Closed(Retired(reg, d), fd_[d])
      /\ fd_' = fd_ /\ channel_' = channel_ /\ activeChannels_' = activeChannels_
      /\ current' = current /\ pc' = pc /\ refused' = refused /\ torn' = torn
  BY <1>0 DEF stopInLoop, EndAttempt, loopState
<1>2. PollerTypeOK /\ fd_ \in [Channels -> Fds] /\ reg \in Registrations /\ Sound(reg)
  BY DEF PollerInv, PollerTypeOK
<1>3. d \in Channels /\ life[d] = "used" /\ fd_[d] \in Fds
  BY <1>0, <1>1, <1>2 DEF PollerInv, Attempts, PollerTypeOK
<1>4. Spoiled' = Spoiled
  BY <1>1, SpoiledKept
<1>5. PICK q : q = Retired(reg, d)
  OBVIOUS
<1>6. RetireOf(reg, q, d)
  BY <1>2, <1>3, <1>5, RetiredIs
<1>7. /\ q \in Registrations /\ Sound(q) /\ Apart(reg, q, fd_[d]) /\ q.open = reg.open
      /\ q.isInLoop_ = [reg.isInLoop_ EXCEPT ![d] = FALSE]
      /\ Tidy(reg, fd_[d]) /\ Alone(reg, d) => Tidy(q, fd_[d])
  BY <1>2, <1>3, <1>6, RetireApart DEF Apart
<1>8. /\ Apart(q, reg', fd_[d]) /\ reg'.open = q.open \ {fd_[d]}
      /\ reg'.isInLoop_ = q.isInLoop_
      /\ Tidy(q, fd_[d]) /\ (\A e \in Channels : fd_[e] = fd_[d] => ~q.isInLoop_[e])
           => Tidy(reg', fd_[d])
  BY <1>1, <1>2, <1>3, <1>5, <1>7, CloseApart
<1>9. /\ ~reg'.isInLoop_[d] /\ reg'.open = reg.open \ {fd_[d]}
      /\ \A e \in Channels \ {d} : reg'.isInLoop_[e] = reg.isInLoop_[e]
  BY <1>2, <1>3, <1>7, <1>8 DEF Registrations
<1>10. fd_[d] \in Spoiled' \/ Tidy(reg', fd_[d])
  <2> SUFFICES ASSUME fd_[d] \notin Spoiled' PROVE Tidy(reg', fd_[d])
    OBVIOUS
  <2>1. Tidy(reg, fd_[d]) /\ Alone(reg, d)
    BY <1>3, <1>4, HolderAlone DEF Holding
  <2>2. \A e \in Channels : fd_[e] = fd_[d] => ~q.isInLoop_[e]
    BY <1>8, <1>9, <2>1 DEF Alone
  <2> QED BY <1>7, <1>8, <2>1, <2>2
<1>11. Apart(reg, reg', fd_[d])
  BY <1>3, <1>7, <1>8, ApartTrans
<1>12. reg' \in Registrations /\ Sound(reg)' /\ Mirrors'
  BY <1>1, <1>3, <1>4, <1>10, <1>11, RegStep
<1>13. life'[d] = "spent" /\ \A e \in Channels \ {d} : life'[e] = life[e]
  BY <1>1, <1>2, <1>3 DEF PollerTypeOK
<1>14. resets' \in [Connectors -> Nat]
  <2>1. resets[k] + 1 \in Nat
    BY <1>2 DEF PollerTypeOK
  <2> QED BY <1>1, <1>2, <2>1 DEF PollerTypeOK
<1>15. PollerTypeOK'
  BY <1>1, <1>2, <1>12, <1>14 DEF PollerTypeOK, Lives
<1>16. Occupancy'
  <2>1. fd_[d] \notin Spoiled =>
          \A e \in Channels \ {d} : fd_[e] = fd_[d] => life[e] \notin Holding
    BY <1>3, HolderAlone DEF Holding
  <2> QED BY <1>1, <1>4, <1>9, <1>13, <2>1 DEF PollerInv, Occupancy, Holding
<1>17. InUse'
  BY <1>1, <1>3, <1>9, <1>13 DEF PollerInv, InUse
<1>18. Attempts'
  BY <1>0, <1>1, <1>2, <1>13 DEF PollerInv, Attempts, PollerTypeOK
<1>19. Held'
  BY <1>1, <1>2 DEF PollerInv, Held, PollerTypeOK
<1> QED BY <1>12, <1>15, <1>16, <1>17, <1>18, <1>19 DEF PollerInv

\* The hand-over of an attempt's descriptor to c, once reg is settled: what the
\* two handlers have in common.
LEMMA HandOver ==
  ASSUME PollerInv, NEW k \in Connectors, NEW c \in Channels, Reported(k, c),
         NEW n \in Nat, EndAttempt(k, n, "kConnected", [life EXCEPT ![c] = "used"]),
         Spoiled \subseteq Spoiled', refused' \subseteq Fds,
         reg' \in Registrations, Sound(reg)', Mirrors',
         reg'.open = reg.open \/ (reg'.open = reg.open \ {fd_[c]} /\ fd_[c] \in Spoiled'),
         reg'.isInLoop_ = [reg.isInLoop_ EXCEPT ![c] = TRUE, ![channel_[k]] = FALSE]
  PROVE  PollerInv'
<1>0. PICK d : d = channel_[k]
  OBVIOUS
<1>1. /\ pc = "events" /\ current = d /\ d # NoChannel
      /\ life[c] = "unborn" /\ fd_[c] = fd_[d] /\ state_[k] = "kConnecting"
      /\ state_' = [state_ EXCEPT ![k] = "kConnected"]
      /\ life' = [life EXCEPT ![c] = "used", ![d] = "spent"]
      /\ resets' = [resets EXCEPT ![k] = @ + n]
      /\ fd_' = fd_ /\ channel_' = channel_ /\ activeChannels_' = activeChannels_
      /\ current' = current /\ pc' = pc /\ torn' = torn
  BY <1>0 DEF Reported, EndAttempt, loopState
<1>2. PollerTypeOK /\ fd_ \in [Channels -> Fds] /\ reg \in Registrations
  BY DEF PollerInv, PollerTypeOK
<1>3. d \in Channels /\ life[d] = "used" /\ d # c /\ d \notin activeChannels_ /\ d \notin torn
  BY <1>0, <1>1, <1>2 DEF PollerInv, Attempts, Held, InUse, PollerTypeOK
<1>4. /\ ~reg.isInLoop_[c] /\ c \notin torn /\ c # current /\ c \notin activeChannels_
      /\ \A j \in Connectors : channel_[j] # c
  BY <1>1, UnbornUnknown
<1>5. /\ life'[c] = "used" /\ life'[d] = "spent"
      /\ \A e \in Channels \ {c, d} : life'[e] = life[e]
  BY <1>1, <1>2, <1>3 DEF PollerTypeOK
<1>6. /\ reg'.isInLoop_[c] /\ ~reg'.isInLoop_[d]
      /\ \A e \in Channels \ {c, d} : reg'.isInLoop_[e] = reg.isInLoop_[e]
  BY <1>0, <1>2, <1>3 DEF Registrations
<1>7. resets' \in [Connectors -> Nat]
  <2>1. resets[k] + n \in Nat
    BY <1>2 DEF PollerTypeOK
  <2> QED BY <1>1, <1>2, <2>1 DEF PollerTypeOK
<1>8. PollerTypeOK'
  BY <1>1, <1>2, <1>7 DEF PollerTypeOK, Lives, Holding
<1>9. Occupancy'
  <2>1. fd_[d] \notin Spoiled =>
          /\ fd_[d] \in reg.open
          /\ \A e \in Channels \ {d} : fd_[e] = fd_[d] => life[e] \notin Holding
    BY <1>3, HolderAlone DEF Holding
  <2>2. \A e \in Channels : life'[e] \in Holding => e = c \/ (e # d /\ life[e] \in Holding)
    BY <1>5 DEF Holding
  <2>3. ASSUME NEW e \in Channels, life'[e] \in Holding, fd_[e] \notin Spoiled'
        PROVE  /\ fd_[e] \in reg'.open
               /\ \A g \in Channels : life'[g] \in Holding /\ fd_[g] = fd_[e] => g = e
    <3>1. fd_[e] \notin Spoiled
      BY <2>3
    <3>2. CASE e = c
      <4>1. fd_[d] \notin Spoiled /\ reg'.open = reg.open
        BY <1>1, <2>3, <3>1, <3>2
      <4> QED BY <1>1, <2>1, <2>2, <3>2, <4>1
    <3>3. CASE e # c /\ fd_[e] # fd_[d]
      BY <1>1, <2>2, <2>3, <3>1, <3>3 DEF PollerInv, Occupancy
    <3>4. CASE e # c /\ fd_[e] = fd_[d]
      BY <2>1, <2>2, <2>3, <3>1, <3>4
    <3> QED BY <3>2, <3>3, <3>4
  <2> QED BY <1>1, <2>3 DEF Occupancy
<1>10. InUse'
  <2>1. \A e \in Channels : reg'.isInLoop_[e] <=> life'[e] = "used" \/ e \in torn'
    BY <1>1, <1>3, <1>5, <1>6 DEF PollerInv, InUse
  <2>2. \A e \in torn' : life'[e] = "deleted"
    BY <1>1, <1>2, <1>3, <1>4, <1>5 DEF PollerInv, InUse, PollerTypeOK
  <2> QED BY <2>1, <2>2 DEF InUse
<1>11. Attempts'
  BY <1>0, <1>1, <1>2, <1>4, <1>5 DEF PollerInv, Attempts, PollerTypeOK
<1>12. Held'
  BY <1>0, <1>1, <1>2, <1>3, <1>4, <1>5, <1>6 DEF PollerInv, Held, Attempts, PollerTypeOK
<1> QED BY <1>8, <1>9, <1>10, <1>11, <1>12 DEF PollerInv

LEMMA HandleWriteInv ==
  ASSUME PollerInv, NEW k \in Connectors, NEW c \in Channels, handleWrite(k, c)
  PROVE  PollerInv'
<1>0. PICK d : d = channel_[k]
  OBVIOUS
<1>1. /\ Reported(k, c) /\ EndAttempt(k, 1, "kConnected", [life EXCEPT ![c] = "used"])
      /\ reg' = Updated(Retired(reg, d), c, {"R"}) /\ refused' = refused
  BY <1>0 DEF handleWrite
<1>2. /\ current = d /\ d # NoChannel /\ life[c] = "unborn" /\ fd_[c] = fd_[d]
      /\ state_[k] = "kConnecting" /\ fd_' = fd_ /\ torn' = torn
  BY <1>0, <1>1 DEF Reported, EndAttempt
<1>3. PollerTypeOK /\ fd_ \in [Channels -> Fds] /\ reg \in Registrations /\ Sound(reg)
  BY DEF PollerInv, PollerTypeOK
<1>4. d \in Channels /\ life[d] = "used" /\ fd_[d] \in Fds /\ d # c
  BY <1>0, <1>2, <1>3 DEF PollerInv, Attempts, PollerTypeOK
<1>5. Spoiled' = Spoiled
  BY <1>1, <1>2, SpoiledKept
<1>6. PICK q : q = Retired(reg, d)
  OBVIOUS
<1>7. RetireOf(reg, q, d)
  BY <1>3, <1>4, <1>6, RetiredIs
<1>8. /\ q \in Registrations /\ Sound(q) /\ Apart(reg, q, fd_[d]) /\ q.open = reg.open
      /\ q.isInLoop_ = [reg.isInLoop_ EXCEPT ![d] = FALSE]
      /\ Tidy(reg, fd_[d]) /\ Alone(reg, d) => Tidy(q, fd_[d])
  BY <1>3, <1>4, <1>7, RetireApart DEF Apart
<1>9. PICK ev \in SUBSET Events : ev = {"R"}
  BY DEF Events
<1>10. UpdateOf(q, reg', c, ev)
  BY <1>1, <1>3, <1>6, <1>8, <1>9, UpdatedIs
<1>11. /\ Apart(q, reg', fd_[c]) /\ reg'.open = q.open
       /\ reg'.isInLoop_ = [q.isInLoop_ EXCEPT ![c] = TRUE]
       /\ Tidy(q, fd_[c]) /\ fd_[c] \in q.open /\ Alone(q, c) => Tidy(reg', fd_[c])
  <2>1. q \in Registrations /\ Sound(q)
    BY <1>8
  <2> QED BY <1>3, <1>10, <2>1, UpdateApart
<1>12. fd_[d] \in Spoiled' \/ Tidy(reg', fd_[d])
  <2> SUFFICES ASSUME fd_[d] \notin Spoiled' PROVE Tidy(reg', fd_[d])
    OBVIOUS
  <2>1. Tidy(reg, fd_[d]) /\ Alone(reg, d) /\ fd_[d] \in reg.open
    BY <1>4, <1>5, HolderAlone DEF Holding
  <2>2. \A e \in Channels : fd_[e] = fd_[d] => ~q.isInLoop_[e]
    BY <1>3, <1>4, <1>8, <2>1 DEF Alone, Registrations
  <2>3. Alone(q, c)
    BY <1>2, <2>2 DEF Alone
  <2> QED BY <1>2, <1>8, <1>11, <2>1, <2>3
<1>13. Apart(reg, reg', fd_[d])
  BY <1>2, <1>4, <1>8, <1>11, ApartTrans
<1>14. reg' \in Registrations /\ Sound(reg)' /\ Mirrors'
  BY <1>2, <1>4, <1>5, <1>12, <1>13, RegStep
<1>15. reg'.isInLoop_ = [reg.isInLoop_ EXCEPT ![c] = TRUE, ![channel_[k]] = FALSE]
  BY <1>0, <1>3, <1>4, <1>8, <1>11 DEF Registrations
<1>16. reg'.open = reg.open
  BY <1>8, <1>11
<1>17. refused' \subseteq Fds
  BY <1>1, <1>3 DEF PollerTypeOK
<1> QED BY <1>1, <1>5, <1>14, <1>15, <1>16, <1>17, HandOver

LEMMA HandleErrorAndWriteInv ==
  ASSUME PollerInv, NEW k \in Connectors, NEW c \in Channels, handleErrorAndWrite(k, c)
  PROVE  PollerInv'
<1>0. PICK d : d = channel_[k]
  OBVIOUS
<1>1. /\ Reported(k, c) /\ EndAttempt(k, 2, "kConnected", [life EXCEPT ![c] = "used"])
      /\ reg' = Updated(Retired(Closed(Retired(reg, d), fd_[d]), d), c, {"R"})
      /\ refused' = refused \cup {fd_[d]}
  BY <1>0 DEF handleErrorAndWrite
<1>2. /\ current = d /\ d # NoChannel /\ life[c] = "unborn" /\ fd_[c] = fd_[d]
      /\ state_[k] = "kConnecting" /\ fd_' = fd_ /\ torn' = torn
  BY <1>0, <1>1 DEF Reported, EndAttempt
<1>3. PollerTypeOK /\ fd_ \in [Channels -> Fds] /\ reg \in Registrations /\ Sound(reg)
  BY DEF PollerInv, PollerTypeOK
<1>4. d \in Channels /\ life[d] = "used" /\ fd_[d] \in Fds /\ d # c
  BY <1>0, <1>2, <1>3 DEF PollerInv, Attempts, PollerTypeOK
<1>5. Spoiled \subseteq Spoiled' /\ fd_[d] \in Spoiled'
  <2>1. Spoiled \subseteq Spoiled'
    BY <1>1, <1>2, SpoiledGrows
  <2>2. fd_[d] \in Spoiled'
    BY <1>1 DEF Spoiled
  <2> QED BY <2>1, <2>2
<1>6. PICK q : q = Retired(reg, d)
  OBVIOUS
<1>7. RetireOf(reg, q, d)
  BY <1>3, <1>4, <1>6, RetiredIs
<1>8. /\ q \in Registrations /\ Sound(q) /\ Apart(reg, q, fd_[d]) /\ q.open = reg.open
      /\ q.isInLoop_ = [reg.isInLoop_ EXCEPT ![d] = FALSE]
  BY <1>3, <1>4, <1>7, RetireApart DEF Apart
<1>9. PICK r : r = Closed(q, fd_[d])
  OBVIOUS
<1>10. /\ r \in Registrations /\ Sound(r) /\ Apart(q, r, fd_[d])
       /\ r.open = q.open \ {fd_[d]} /\ r.isInLoop_ = q.isInLoop_
  BY <1>3, <1>4, <1>8, <1>9, CloseApart DEF Apart
<1>11. PICK s : s = Retired(r, d)
  OBVIOUS
<1>12. RetireOf(r, s, d)
  BY <1>3, <1>4, <1>10, <1>11, RetiredIs
<1>13. /\ s \in Registrations /\ Sound(s) /\ Apart(r, s, fd_[d]) /\ s.open = r.open
       /\ s.isInLoop_ = [r.isInLoop_ EXCEPT ![d] = FALSE]
  BY <1>3, <1>4, <1>10, <1>12, RetireApart DEF Apart
<1>14. PICK ev \in SUBSET Events : ev = {"R"}
  BY DEF Events
<1>15. UpdateOf(s, reg', c, ev)
  BY <1>1, <1>3, <1>6, <1>9, <1>11, <1>13, <1>14, UpdatedIs
<1>16. /\ Apart(s, reg', fd_[d]) /\ reg'.open = s.open
       /\ reg'.isInLoop_ = [s.isInLoop_ EXCEPT ![c] = TRUE]
  <2>1. s \in Registrations /\ Sound(s)
    BY <1>13
  <2>2. /\ Apart(s, reg', fd_[c]) /\ reg'.open = s.open
        /\ reg'.isInLoop_ = [s.isInLoop_ EXCEPT ![c] = TRUE]
    BY <1>3, <1>15, <2>1, UpdateApart
  <2> QED BY <1>2, <2>2
<1>17. Apart(reg, reg', fd_[d])
  <2>1. Apart(reg, r, fd_[d])
    BY <1>4, <1>8, <1>10, ApartTrans
  <2>2. Apart(reg, s, fd_[d])
    BY <1>4, <1>13, <2>1, ApartTrans
  <2> QED BY <1>4, <1>16, <2>2, ApartTrans
<1>18. reg' \in Registrations /\ Sound(reg)' /\ Mirrors'
  BY <1>2, <1>4, <1>5, <1>17, RegStep
<1>19. reg'.isInLoop_ = [reg.isInLoop_ EXCEPT ![c] = TRUE, ![channel_[k]] = FALSE]
  <2>1. s.isInLoop_ = [reg.isInLoop_ EXCEPT ![d] = FALSE]
    BY <1>3, <1>4, <1>8, <1>10, <1>13 DEF Registrations
  <2> QED BY <1>0, <1>3, <1>4, <1>16, <2>1 DEF Registrations
<1>20. reg'.open = reg.open \ {fd_[c]} /\ fd_[c] \in Spoiled'
  BY <1>2, <1>5, <1>8, <1>10, <1>13, <1>16
<1>21. refused' \subseteq Fds
  BY <1>1, <1>3, <1>4 DEF PollerTypeOK
<1> QED BY <1>1, <1>5, <1>18, <1>19, <1>20, <1>21, HandOver

\* The loop's own steps change only what it holds pointers to.
LEMMA LoopInv ==
  ASSUME PollerInv, UNCHANGED objects, Held',
         activeChannels_' \subseteq Channels, current' \in Channels \cup {NoChannel},
         pc' \in {"poll", "events", "functors"}
  PROVE  PollerInv'
<1>1. /\ fd_' = fd_ /\ life' = life /\ reg' = reg /\ channel_' = channel_
      /\ state_' = state_ /\ resets' = resets /\ refused' = refused /\ torn' = torn
  BY DEF objects, connectors
<1>2. Spoiled' = Spoiled
  BY <1>1, SpoiledKept
<1>3. PollerTypeOK'
  BY <1>1 DEF PollerInv, PollerTypeOK
<1>4. Sound(reg)' /\ Mirrors'
  BY <1>1, <1>2 DEF PollerInv, Sound, Mirrors, Tidy
<1>5. Occupancy' /\ InUse' /\ Attempts'
  BY <1>1, <1>2 DEF PollerInv, Occupancy, InUse, Attempts
<1> QED BY <1>3, <1>4, <1>5 DEF PollerInv

LEMMA PollInv == ASSUME PollerInv, Poll PROVE PollerInv'
<1>1. /\ pc = "poll" /\ pc' = "events" /\ activeChannels_' \subseteq Registered
      /\ current' = current
  BY DEF Poll
<1>2. reg \in Registrations /\ current = NoChannel /\ fd_ \in [Channels -> Fds]
  BY <1>1 DEF PollerInv, PollerTypeOK, Held
<1>3. \A c \in Registered : c \in Channels /\ reg.isInLoop_[c]
  <2> SUFFICES ASSUME NEW c \in Registered PROVE c \in Channels /\ reg.isInLoop_[c]
    OBVIOUS
  <2>1. PICK f \in Fds : c = reg.ptr[f] /\ c # NoChannel
    BY DEF Registered
  <2>2. c \in Channels
    BY <1>2, <2>1 DEF Registrations
  <2> QED BY <2>1, <2>2 DEF PollerInv, Sound
<1>4. UNCHANGED objects /\ reg' = reg
  BY DEF Poll, objects
<1>5. Held'
  BY <1>1, <1>2, <1>3, <1>4, PollerConstants DEF Held
<1>6. activeChannels_' \subseteq Channels /\ current' \in Channels \cup {NoChannel}
  BY <1>1, <1>2, <1>3
<1> QED BY <1>1, <1>4, <1>5, <1>6, LoopInv

LEMMA HandleEventsInv ==
  ASSUME PollerInv, NEW c \in Channels, HandleEvents(c)
  PROVE  PollerInv'
<1>1. /\ pc = "events" /\ pc' = pc /\ c \in activeChannels_ /\ current' = c
      /\ activeChannels_' = activeChannels_ \ {c}
      /\ reg' = reg /\ life' = life /\ channel_' = channel_ /\ state_' = state_
  BY DEF HandleEvents, objects, connectors
<1>2. UNCHANGED objects
  BY DEF HandleEvents
<1>3. reg.isInLoop_[c] /\ c # NoChannel
  BY <1>1, PollerConstants DEF PollerInv, Held
<1>4. ASSUME NEW k \in Connectors, c = channel_[k] PROVE state_[k] # "kDisconnected"
  <2>1. life[c] # "spent"
    BY <1>3 DEF PollerInv, InUse
  <2> QED BY <1>3, <1>4, <2>1 DEF PollerInv, Attempts
<1>5. Held'
  BY <1>1, <1>3, <1>4 DEF PollerInv, Held
<1>6. activeChannels_' \subseteq Channels
  BY <1>1 DEF PollerInv, PollerTypeOK
<1> QED BY <1>1, <1>2, <1>5, <1>6, LoopInv

LEMMA PendingFunctorsInv == ASSUME PollerInv, PendingFunctors PROVE PollerInv'
<1>1. /\ activeChannels_ = {} /\ activeChannels_' = activeChannels_
      /\ current' = NoChannel /\ pc' = "functors"
  BY DEF PendingFunctors
<1>2. UNCHANGED objects
  BY DEF PendingFunctors
<1>3. Held'
  BY <1>1 DEF Held
<1> QED BY <1>1, <1>2, <1>3, LoopInv

LEMMA EndPendingInv == ASSUME PollerInv, EndPending PROVE PollerInv'
<1>1. /\ pc = "functors" /\ pc' = "poll"
      /\ activeChannels_' = activeChannels_ /\ current' = current
  BY DEF EndPending
<1>2. UNCHANGED objects
  BY DEF EndPending
<1>3. activeChannels_ = {} /\ current = NoChannel
  BY <1>1 DEF PollerInv, Held
<1>4. Held'
  BY <1>1, <1>3 DEF Held
<1> QED BY <1>1, <1>2, <1>3, <1>4, LoopInv

\* Every step keeps the invariant.
LEMMA PollerNextInv == PollerInv /\ [PollerNext]_pollerVars => PollerInv'
<1> SUFFICES ASSUME PollerInv, [PollerNext]_pollerVars PROVE PollerInv'
  OBVIOUS
<1>1. CASE \E c \in Channels :
             Construct(c) \/ Change(c) \/ Retire(c) \/ Destruct(c) \/ HandleEvents(c)
  BY <1>1, ConstructInv, ChangeInv, RetireInv, DestructInv, HandleEventsInv
<1>2. CASE \E k \in Connectors, c \in Channels :
             connecting(k, c) \/ handleWrite(k, c) \/ handleErrorAndWrite(k, c)
  BY <1>2, ConnectingInv, HandleWriteInv, HandleErrorAndWriteInv
<1>3. CASE \E k \in Connectors : stopInLoop(k) \/ resetChannel(k) \/ DestroyConnector(k)
  BY <1>3, StopInLoopInv, ResetChannelInv, DestroyConnectorInv
<1>4. CASE Poll \/ PendingFunctors \/ EndPending
  BY <1>4, PollInv, PendingFunctorsInv, EndPendingInv
<1>5. CASE UNCHANGED pollerVars
  <2>1. UNCHANGED objects /\ UNCHANGED loopState /\ UNCHANGED connectors
    BY <1>5 DEF pollerVars, objects
  <2>2. Held'
    BY <2>1 DEF PollerInv, Held, objects, loopState, connectors
  <2>3. /\ activeChannels_' \subseteq Channels /\ current' \in Channels \cup {NoChannel}
        /\ pc' \in {"poll", "events", "functors"}
    BY <2>1 DEF PollerInv, PollerTypeOK, loopState
  <2> QED BY <2>1, <2>2, <2>3, LoopInv
<1> QED BY <1>1, <1>2, <1>3, <1>4, <1>5 DEF PollerNext

\* Sound, Mirrors, Occupancy, InUse, Attempts and Held hold of every reachable
\* state of Poller and its channels, whatever the owners and Connectors do.
THEOREM PollerInductive == PollerSpec => []PollerInv
BY PollerInitInv, PollerNextInv, PTL DEF PollerSpec

\* fdMap_, index_ and the kernel's set agree about every descriptor that was
\* neither handed over closed nor had its channel deleted while registered, for
\* every set of channels, of descriptors and of Connectors.
THEOREM MapsAgree == PollerSpec => []RegistrationMirrors
<1>1. PollerInv => RegistrationMirrors
  BY DEF PollerInv, Sound, Mirrors, Tidy, RegistrationMirrors
<1> QED BY <1>1, PollerInductive, PTL

\* A pointer that epoll or the loop holds is to a channel that exists, or to one
\* that its owner deleted while it was registered: never to one that had left the
\* Poller, nor, on a refused descriptor, to one that was never added.
THEOREM NoDanglingChannel == PollerSpec => []PointersLive
<1>1. ASSUME PollerInv PROVE PointersLive
  <2>1. \A c \in Channels : reg.isInLoop_[c] => c \in Alive \cup torn
    BY <1>1 DEF PollerInv, InUse, Alive
  <2>2. \A c \in Registered : c \in Channels /\ reg.isInLoop_[c]
    <3> SUFFICES ASSUME NEW c \in Registered PROVE c \in Channels /\ reg.isInLoop_[c]
      OBVIOUS
    <3>1. PICK f \in Fds : c = reg.ptr[f] /\ c # NoChannel
      BY DEF Registered
    <3>2. c \in Channels
      BY <1>1, <3>1 DEF PollerInv, PollerTypeOK, Registrations
    <3> QED BY <1>1, <3>1, <3>2 DEF PollerInv, Sound
  <2>3. \A c \in activeChannels_ : c \in Channels /\ reg.isInLoop_[c]
    BY <1>1 DEF PollerInv, PollerTypeOK, Held
  <2>4. current # NoChannel => current \in Alive \cup torn
    BY <1>1, <2>1 DEF PollerInv, PollerTypeOK, Held, Alive
  <2> QED BY <2>1, <2>2, <2>3, <2>4 DEF PointersLive
<1> QED BY <1>1, PollerInductive, PTL

\* Every assertion of updateChannel, removeChannel and ~Channel that fails is
\* about a descriptor that was handed over closed or whose channel was deleted
\* while it was registered: no other sequence of calls reaches one.
THEOREM AssertionsTraced == PollerSpec => []AssertionsHold
<1>1. PollerInv => AssertionsHold
  BY DEF PollerInv, PollerTypeOK, Registrations, Mirrors, Tidy, AssertionsHold
<1> QED BY <1>1, PollerInductive, PTL
=============================================================================
