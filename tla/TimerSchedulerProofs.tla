------------------------ MODULE TimerSchedulerProofs ------------------------
(***************************************************************************)
(* Proofs about TimerScheduler, for every set of calling threads, every    *)
(* number of timers and every choice of expirations and intervals.         *)
(***************************************************************************)
EXTENDS TimerScheduler, QueueLemmas

\* Whatever the loop thread holds was handed to addTimerInLoop, and nothing
\* concerns a timer that was not constructed.
Known ==
  /\ timers_ \subseteq added /\ activeTimers_ \subseteq added
  /\ batch \subseteq added /\ due \subseteq batch
  /\ added \subseteq 1..created /\ cancelled \subseteq 1..created
  /\ \A a \in Threads : adding[a] \in 0..created
  /\ \A k \in DOMAIN functors : functors[k][2] \in 1..created

\* A timer reaches the loop once: it is under construction on one thread, or
\* waits in one functor with no call that concerns it in front, or was added.
\* A cancellation that counts comes after that.
HandedOverOnce ==
  /\ \A a \in Threads : adding[a] # 0 =>
       /\ adding[a] \notin added \cup cancelled
       /\ \A b \in Threads : adding[b] = adding[a] => b = a
       /\ \A k \in DOMAIN functors : functors[k][2] # adding[a]
  /\ \A k \in DOMAIN functors : functors[k][1] = "add" =>
       /\ functors[k][2] \notin added \cup cancelled
       /\ \A j \in 1..(k - 1) : functors[j][2] # functors[k][2]

\* Where handleRead is, and that the timers it took out are not put back
\* before reset().
Handling ==
  /\ pc = "idle" => batch = {}
  /\ pc \in {"idle", "reset"} => due = {}
  /\ pc # "idle" => ~reported
  /\ callingExpiredTimers_ <=> pc \in {"calling", "callback"}
  /\ batch \cap timers_ = {}

\* A timer cancelled by a callback of its own batch is remembered by id.
Remembered ==
  UniqueIds => \A t \in batch \cap cancelled : id[t] \in cancelingTimers_

\* The timers about to be called have expired.
DueExpired == \A t \in due : expiration[t] <= now

IInv ==
  /\ TypeOK /\ Known /\ HandedOverOnce /\ Handling
  /\ SetsMirror /\ Remembered /\ CancelIsFinal
  /\ TimerfdCovers /\ DueExpired

-----------------------------------------------------------------------------
\* The functor at the head of the queue, and the queue behind it.
LEMMA HeadFunctor ==
  ASSUME TypeOK, functors # <<>>
  PROVE  /\ Head(functors) = functors[1] /\ 1 \in DOMAIN functors
         /\ Head(functors)[1] \in {"add", "cancel"} /\ Head(functors)[2] \in Timers
         /\ Tail(functors) \in Seq({"add", "cancel"} \X Timers)
         /\ \A k \in DOMAIN Tail(functors) :
              /\ k \in Nat \ {0} /\ k + 1 \in DOMAIN functors
              /\ Tail(functors)[k] = functors[k + 1]
<1> DEFINE S == {"add", "cancel"} \X Timers
<1>1. functors \in Seq(S)
  BY DEF TypeOK
<1> HIDE DEF S
<1>2. /\ Head(functors) = functors[1] /\ 1 \in DOMAIN functors /\ Head(functors) \in S
      /\ Tail(functors) \in Seq(S)
      /\ \A k \in DOMAIN Tail(functors) : k + 1 \in DOMAIN functors
                                          /\ Tail(functors)[k] = functors[k + 1]
  BY <1>1, TailOfQueue
<1>3. DOMAIN Tail(functors) \subseteq Nat \ {0}
  BY <1>2, LenProperties
<1>4. Head(functors)[1] \in {"add", "cancel"} /\ Head(functors)[2] \in Timers
  BY <1>2 DEF S
<1> QED BY <1>2, <1>3, <1>4 DEF S

\* What stands in the queue once an entry is put behind it.
LEMMA EndFunctor ==
  ASSUME TypeOK, NEW op \in {"add", "cancel"}, NEW t \in Timers
  PROVE  /\ Append(functors, <<op, t>>) \in Seq({"add", "cancel"} \X Timers)
         /\ \E n \in Nat :
              /\ DOMAIN functors = 1..n
              /\ DOMAIN Append(functors, <<op, t>>) = 1..(n + 1)
              /\ \A k \in 1..n : Append(functors, <<op, t>>)[k] = functors[k]
              /\ Append(functors, <<op, t>>)[n + 1] = <<op, t>>
<1> DEFINE S == {"add", "cancel"} \X Timers
<1>1. functors \in Seq(S) /\ <<op, t>> \in S
  BY DEF TypeOK
<1> HIDE DEF S
<1>2. Len(functors) \in Nat
  BY <1>1, LenProperties
<1> QED BY <1>1, <1>2, EndOfQueue DEF S

\* resetTimerfd never arms for a time before the epoch, nor disarms.
LEMMA ArmedType ==
  ASSUME now \in Nat, NEW e \in Nat
  PROVE  Armed(e) \in Nat \ {0}
BY TimerConstants DEF Armed

\* timers_.begin() exists and is no later than any other.
LEMMA EarliestType ==
  ASSUME TypeOK, timers_ # {}
  PROVE  Earliest \in Nat /\ \A t \in timers_ : Earliest <= expiration[t]
<1> DEFINE E == {expiration[t] : t \in timers_}
<1>1. E \in SUBSET Nat /\ E # {}
  BY DEF TypeOK
<1>2. \E x \in E : \A y \in E : x <= y
  <2> HIDE DEF E
  <2> QED BY <1>1, LeastNumber
<1>3. \E e \in E : \A t \in timers_ : e <= expiration[t]
  BY <1>2
<1> QED BY <1>1, <1>3 DEF Earliest

\* addTimerInLoop keeps the types of what it changes.
LEMMA AddTypes ==
  ASSUME TypeOK, NEW t \in Timers, NEW e \in Nat, addTimerInLoop(t, e)
  PROVE  /\ timers_' \subseteq Timers /\ activeTimers_' \subseteq Timers
         /\ deadline' \in Nat /\ readable' \in BOOLEAN /\ added' \subseteq Timers
<1>1. timers_' \subseteq Timers /\ activeTimers_' \subseteq Timers /\ added' \subseteq Timers
  BY DEF TypeOK, addTimerInLoop
<1>2. CASE EarliestChanged(e)
  <2>1. deadline' = Armed(e) /\ readable' = FALSE
    BY <1>2 DEF addTimerInLoop, resetTimerfd
  <2>2. Armed(e) \in Nat
    BY ArmedType DEF TypeOK
  <2> QED BY <1>1, <2>1, <2>2
<1>3. CASE ~EarliestChanged(e)
  <2>1. UNCHANGED <<deadline, readable>>
    BY <1>3 DEF addTimerInLoop, timerfd
  <2> QED BY <1>1, <2>1 DEF TypeOK
<1> QED BY <1>2, <1>3

\* The invariant holds of a new TimerScheduler.
LEMMA InitInv == Init => IInv
<1> SUFFICES ASSUME Init PROVE IInv
  OBVIOUS
<1> USE TimerConstants DEF Init
<1>1. TypeOK
  <2>1. functors \in Seq({"add", "cancel"} \X Timers)
    OBVIOUS
  <2>2. /\ created \in 0..MaxTimers /\ adding \in [Threads -> 0..MaxTimers]
        /\ deadline \in Nat
    BY DEF Off
  <2> QED BY <2>1, <2>2 DEF TypeOK
<1>2. Known /\ HandedOverOnce
  BY DEF Known, HandedOverOnce
<1>3. Handling /\ SetsMirror /\ Remembered /\ CancelIsFinal /\ TimerfdCovers /\ DueExpired
  BY DEF Handling, SetsMirror, Remembered, CancelIsFinal, TimerfdCovers, DueExpired
<1> QED BY <1>1, <1>2, <1>3 DEF IInv

\* Every step keeps the types.
LEMMA TypeStep == TypeOK /\ Known /\ [Next]_vars => TypeOK'
<1> SUFFICES ASSUME TypeOK, Known, [Next]_vars PROVE TypeOK'
  OBVIOUS
<1> USE TimerConstants DEF objects, timerfd, maps, handling
<1>1. ASSUME NEW a \in Threads, NEW e \in Expirations, NEW i \in Intervals, addTimer(a, e, i)
      PROVE  TypeOK'
  <2>1. created + 1 \in Timers /\ e \in Nat /\ i \in Nat /\ nextId_ + 1 \in Nat
    BY <1>1 DEF addTimer, TypeOK, Timers
  <2>2. id' \in [Timers -> Nat] /\ expiration' \in [Timers -> Nat] /\ interval' \in [Timers -> Nat]
    BY <1>1, <2>1 DEF addTimer, TypeOK
  <2>3. created' \in 0..MaxTimers /\ adding' \in [Threads -> 0..MaxTimers]
    BY <1>1, <2>1 DEF addTimer, TypeOK, Timers
  <2> QED BY <1>1, <2>2, <2>3 DEF addTimer, TypeOK
<1>2. ASSUME NEW a \in Threads, handOver(a) PROVE TypeOK'
  <2>1. adding[a] \in Timers
    BY <1>2 DEF handOver, TypeOK, Timers
  <2>2. nextId_' \in Nat /\ adding' \in [Threads -> 0..MaxTimers]
    BY <1>2, <2>1 DEF handOver, TypeOK
  <2>3. /\ timers_' \subseteq Timers /\ activeTimers_' \subseteq Timers
        /\ deadline' \in Nat /\ readable' \in BOOLEAN /\ added' \subseteq Timers
    <3>1. CASE a = Loop
      <4>1. addTimerInLoop(adding[a], expiration[adding[a]])
        BY <1>2, <3>1 DEF handOver
      <4>2. expiration[adding[a]] \in Nat
        BY <2>1 DEF TypeOK
      <4> QED BY <2>1, <4>1, <4>2, AddTypes
    <3>2. CASE a # Loop
      BY <1>2, <3>2 DEF handOver, TypeOK
    <3> QED BY <3>1, <3>2
  <2>4. functors' \in Seq({"add", "cancel"} \X Timers)
    <3>1. functors' = functors \/ functors' = Append(functors, <<"add", adding[a]>>)
      BY <1>2 DEF handOver
    <3>2. Append(functors, <<"add", adding[a]>>) \in Seq({"add", "cancel"} \X Timers)
      BY <2>1, EndFunctor
    <3> QED BY <3>1, <3>2 DEF TypeOK
  <2> QED BY <1>2, <2>2, <2>3, <2>4 DEF handOver, TypeOK
<1>3. ASSUME NEW t \in Timers, cancelTimer(t) PROVE TypeOK'
  BY <1>3 DEF cancelTimer, cancelTimerInLoop, TypeOK
<1>4. ASSUME NEW t \in Timers, cancelTimerForeign(t) PROVE TypeOK'
  <2>1. functors' \in Seq({"add", "cancel"} \X Timers)
    <3>1. functors' = Append(functors, <<"cancel", t>>)
      BY <1>4 DEF cancelTimerForeign
    <3> QED BY <3>1, EndFunctor
  <2> QED BY <1>4, <2>1 DEF cancelTimerForeign, TypeOK
<1>5. CASE RunFunctor
  <2> DEFINE t == Head(functors)[2]
  <2>1. functors # <<>> /\ functors' = Tail(functors)
    BY <1>5 DEF RunFunctor
  <2>2. t \in Timers /\ functors' \in Seq({"add", "cancel"} \X Timers)
    BY <2>1, HeadFunctor
  <2>3. expiration[t] \in Nat
    BY <2>2 DEF TypeOK
  <2>4. \/ addTimerInLoop(t, expiration[t]) /\ UNCHANGED <<cancelingTimers_, cancelled>>
        \/ cancelTimerInLoop(t, TRUE) /\ UNCHANGED <<timerfd, added>>
    BY <1>5 DEF RunFunctor
  <2>5. UNCHANGED <<now, nextId_, objects, adding, handling, reported>>
    BY <1>5 DEF RunFunctor
  <2> HIDE DEF t
  <2>6. /\ timers_' \subseteq Timers /\ activeTimers_' \subseteq Timers
        /\ deadline' \in Nat /\ readable' \in BOOLEAN /\ added' \subseteq Timers
        /\ cancelingTimers_' \subseteq Nat /\ cancelled' \subseteq Timers
    <3>1. CASE addTimerInLoop(t, expiration[t]) /\ UNCHANGED <<cancelingTimers_, cancelled>>
      BY <2>2, <2>3, <3>1, AddTypes DEF TypeOK
    <3>2. CASE cancelTimerInLoop(t, TRUE) /\ UNCHANGED <<timerfd, added>>
      BY <2>2, <3>2 DEF cancelTimerInLoop, TypeOK
    <3> QED BY <2>4, <3>1, <3>2
  <2> QED BY <2>2, <2>5, <2>6 DEF TypeOK
<1>6. CASE Tick \/ Fire \/ Report
  <2>1. now' \in Nat /\ deadline' \in Nat
    BY <1>6 DEF Tick, Fire, Report, TypeOK, Off
  <2>2. readable' \in BOOLEAN /\ reported' \in BOOLEAN
    BY <1>6 DEF Tick, Fire, Report, TypeOK
  <2>3. UNCHANGED <<nextId_, objects, adding, maps, cancelingTimers_, handling,
                    functors, added, cancelled>>
    BY <1>6 DEF Tick, Fire, Report
  <2> QED BY <2>1, <2>2, <2>3 DEF TypeOK
<1>7. CASE handleRead
  BY <1>7 DEF handleRead, Expired, StillActive, TypeOK
<1>8. ASSUME NEW t \in Timers, run(t) PROVE TypeOK'
  BY <1>8 DEF run, TypeOK
<1>9. ASSUME NEW t \in Timers, resetOne(t) PROVE TypeOK'
  <2> DEFINE e == hnow + interval[t]
  <2>1. e \in Nat
    BY DEF TypeOK
  <2>2. batch' \subseteq Timers
    BY <1>9 DEF resetOne, TypeOK
  <2>3. /\ timers_' \subseteq Timers /\ activeTimers_' \subseteq Timers
        /\ deadline' \in Nat /\ readable' \in BOOLEAN /\ added' \subseteq Timers
        /\ expiration' \in [Timers -> Nat]
    <3>1. CASE Rearms(t)
      <4>1. addTimerInLoop(t, e) /\ expiration' = [expiration EXCEPT ![t] = e]
        BY <1>9, <3>1 DEF resetOne
      <4> HIDE DEF e
      <4> QED BY <2>1, <4>1, AddTypes DEF TypeOK
    <3>2. CASE ~Rearms(t)
      BY <1>9, <3>2 DEF resetOne, TypeOK
    <3> QED BY <3>1, <3>2
  <2> QED BY <1>9, <2>2, <2>3 DEF resetOne, TypeOK
<1>10. CASE CallbackReturns \/ CallbacksDone
  BY <1>10 DEF CallbackReturns, CallbacksDone, TypeOK
<1>11. CASE resetDone
  <2>1. deadline' \in Nat /\ readable' \in BOOLEAN
    <3>1. CASE timers_ # {}
      <4>1. deadline' = Armed(Earliest) /\ readable' = FALSE
        BY <1>11, <3>1 DEF resetDone, resetTimerfd
      <4> QED BY <3>1, <4>1, EarliestType, ArmedType DEF TypeOK
    <3>2. CASE timers_ = {}
      BY <1>11, <3>2 DEF resetDone, TypeOK
    <3> QED BY <3>1, <3>2
  <2> QED BY <1>11, <2>1 DEF resetDone, TypeOK
<1>12. CASE UNCHANGED vars
  BY <1>12 DEF vars, TypeOK
<1> QED
  BY <1>1, <1>2, <1>3, <1>4, <1>5, <1>6, <1>7, <1>8, <1>9, <1>10, <1>11, <1>12 DEF Next

-----------------------------------------------------------------------------
\* Every step keeps track of the timers.
LEMMA KnownStep == TypeOK /\ Known /\ Handling /\ [Next]_vars => Known'
<1> SUFFICES ASSUME TypeOK, Known, Handling, [Next]_vars PROVE Known'
  OBVIOUS
<1> USE DEF objects, timerfd, maps, handling
<1>0. created \in Nat /\ added \subseteq 1..created
  BY DEF TypeOK, Known
\* Steps that put no timer anywhere.
<1>1. ASSUME UNCHANGED <<created, adding, functors, added>>,
             cancelled' \subseteq 1..created,
             timers_' \subseteq timers_, activeTimers_' \subseteq activeTimers_,
             batch' \subseteq added, due' \subseteq batch'
      PROVE  Known'
  BY <1>1 DEF Known
<1>2. ASSUME NEW a \in Threads, NEW e \in Expirations, NEW i \in Intervals, addTimer(a, e, i)
      PROVE  Known'
  <2>1. /\ created' = created + 1 /\ adding' = [adding EXCEPT ![a] = created + 1]
        /\ UNCHANGED <<timers_, activeTimers_, batch, due, added, cancelled, functors>>
    BY <1>2 DEF addTimer
  <2>2. 1..created \subseteq 1..created'
    BY <1>0, <2>1
  <2>3. \A b \in Threads : adding'[b] \in 0..created'
    BY <1>0, <2>1 DEF Known, TypeOK
  <2> QED BY <2>1, <2>2, <2>3 DEF Known
<1>3. ASSUME NEW a \in Threads, handOver(a) PROVE Known'
  <2>1. adding[a] \in 1..created /\ adding[a] \in Timers
    BY <1>3 DEF handOver, Known, TypeOK, Timers
  <2>2. UNCHANGED <<created, batch, due, cancelled>> /\ adding' = [adding EXCEPT ![a] = 0]
    BY <1>3 DEF handOver
  <2>3. \A b \in Threads : adding'[b] \in 0..created'
    BY <1>0, <2>2 DEF Known, TypeOK
  <2>4. CASE a = Loop
    <3>1. addTimerInLoop(adding[a], expiration[adding[a]]) /\ UNCHANGED functors
      BY <1>3, <2>4 DEF handOver
    <3> QED BY <2>1, <2>2, <2>3, <3>1 DEF addTimerInLoop, Known
  <2>5. CASE a # Loop
    <3>1. /\ functors' = Append(functors, <<"add", adding[a]>>)
          /\ UNCHANGED <<timers_, activeTimers_, added>>
      BY <1>3, <2>5 DEF handOver
    <3>2. PICK n \in Nat :
               /\ DOMAIN functors = 1..n /\ DOMAIN functors' = 1..(n + 1)
               /\ \A k \in 1..n : functors'[k] = functors[k]
               /\ functors'[n + 1] = <<"add", adding[a]>>
      BY <2>1, <3>1, EndFunctor
    <3>3. \A k \in DOMAIN functors' : functors'[k][2] \in 1..created
      BY <2>1, <3>2 DEF Known
    <3> QED BY <2>2, <2>3, <3>1, <3>3 DEF Known
  <2> QED BY <2>4, <2>5
<1>4. ASSUME NEW t \in Timers, cancelTimer(t) PROVE Known'
  <2>1. t \in 1..created
    BY <1>0, <1>4 DEF cancelTimer, Returned, Timers
  <2> QED BY <1>1, <1>4, <2>1 DEF cancelTimer, cancelTimerInLoop, Known
<1>5. ASSUME NEW t \in Timers, cancelTimerForeign(t) PROVE Known'
  <2>1. /\ functors' = Append(functors, <<"cancel", t>>)
        /\ UNCHANGED <<timers_, activeTimers_, added, cancelled, created, batch, due,
                       adding>>
    BY <1>5 DEF cancelTimerForeign
  <2>2. t \in 1..created
    BY <1>0, <1>5 DEF cancelTimerForeign, Returned, Timers
  <2>3. PICK n \in Nat :
             /\ DOMAIN functors = 1..n /\ DOMAIN functors' = 1..(n + 1)
             /\ \A k \in 1..n : functors'[k] = functors[k]
             /\ functors'[n + 1] = <<"cancel", t>>
    BY <2>1, EndFunctor
  <2>4. \A k \in DOMAIN functors' : functors'[k][2] \in 1..created
    BY <2>2, <2>3 DEF Known
  <2> QED BY <2>1, <2>4 DEF Known
<1>6. CASE RunFunctor
  <2> DEFINE t == Head(functors)[2]
  <2>1. functors # <<>> /\ functors' = Tail(functors)
    BY <1>6 DEF RunFunctor
  <2>2. \/ addTimerInLoop(t, expiration[t]) /\ UNCHANGED cancelled
        \/ cancelTimerInLoop(t, TRUE) /\ UNCHANGED <<timerfd, added>>
    BY <1>6 DEF RunFunctor
  <2>3. UNCHANGED <<created, batch, due, adding>>
    BY <1>6 DEF RunFunctor
  <2>4. t \in 1..created
    BY <2>1, HeadFunctor DEF Known
  <2>5. \A k \in DOMAIN functors' : functors'[k][2] \in 1..created
    BY <2>1, HeadFunctor DEF Known
  <2> HIDE DEF t
  <2> QED BY <2>2, <2>3, <2>4, <2>5 DEF Known, addTimerInLoop, cancelTimerInLoop
<1>7. CASE Tick \/ Fire \/ Report \/ CallbackReturns \/ CallbacksDone
  BY <1>1, <1>7 DEF Tick, Fire, Report, CallbackReturns, CallbacksDone, Known
<1>8. CASE resetDone
  BY <1>1, <1>8 DEF resetDone, Known
<1>9. CASE handleRead
  BY <1>1, <1>9 DEF handleRead, Expired, StillActive, Known
<1>10. ASSUME NEW t \in Timers, run(t) PROVE Known'
  BY <1>1, <1>10 DEF run, Known
<1>11. ASSUME NEW t \in Timers, resetOne(t) PROVE Known'
  <2>1. /\ UNCHANGED <<created, functors, adding, due>>
        /\ batch' = batch \ {t} /\ t \in batch /\ due = {} /\ UNCHANGED cancelled
    BY <1>11 DEF resetOne, Handling
  <2>2. CASE Rearms(t)
    BY <1>11, <2>1, <2>2 DEF resetOne, addTimerInLoop, Known
  <2>3. CASE ~Rearms(t)
    BY <1>11, <2>1, <2>3 DEF resetOne, Known
  <2> QED BY <2>2, <2>3
<1>12. CASE UNCHANGED vars
  BY <1>12 DEF vars, Known
<1> QED
  BY <1>2, <1>3, <1>4, <1>5, <1>6, <1>7, <1>8, <1>9, <1>10, <1>11, <1>12 DEF Next

\* A timer is handed over once, whoever adds it and whoever cancels it.
LEMMA HandOverStep ==
  TypeOK /\ Known /\ HandedOverOnce /\ Handling /\ [Next]_vars => HandedOverOnce'
<1> SUFFICES ASSUME TypeOK, Known, HandedOverOnce, Handling, [Next]_vars
             PROVE  HandedOverOnce'
  OBVIOUS
<1> USE DEF objects, timerfd, maps, handling
<1>0. created \in Nat /\ added \subseteq 1..created
  BY DEF TypeOK, Known
\* Steps that neither hand over nor cancel.
<1>1. ASSUME UNCHANGED <<adding, functors, added, cancelled>> PROVE HandedOverOnce'
  BY <1>1 DEF HandedOverOnce
<1>2. ASSUME NEW a \in Threads, NEW e \in Expirations, NEW i \in Intervals, addTimer(a, e, i)
      PROVE  HandedOverOnce'
  <2>1. /\ adding' = [adding EXCEPT ![a] = created + 1] /\ adding[a] = 0
        /\ UNCHANGED <<functors, added, cancelled>>
    BY <1>2 DEF addTimer
  <2>2. /\ created + 1 \notin added \cup cancelled
        /\ \A b \in Threads : adding[b] # created + 1
        /\ \A k \in DOMAIN functors : functors[k][2] # created + 1
    BY <1>0 DEF Known
  <2>3. \A b \in Threads : adding'[b] = IF b = a THEN created + 1 ELSE adding[b]
    BY <2>1 DEF TypeOK
  <2> QED BY <2>1, <2>2, <2>3 DEF HandedOverOnce
<1>3. ASSUME NEW a \in Threads, handOver(a) PROVE HandedOverOnce'
  <2> DEFINE t == adding[a]
  <2>1. t # 0 /\ t \in Timers
    BY <1>3 DEF handOver, TypeOK, Timers
  <2>2. \A b \in Threads : adding'[b] = IF b = a THEN 0 ELSE adding[b]
    BY <1>3 DEF handOver, TypeOK
  <2>3. /\ t \notin added \cup cancelled
        /\ \A b \in Threads : adding[b] = t => b = a
        /\ \A k \in DOMAIN functors : functors[k][2] # t
    BY <2>1 DEF HandedOverOnce
  <2>4. cancelled' = cancelled
    BY <1>3 DEF handOver
  <2>5. CASE a = Loop
    <3>1. added' = added \cup {t} /\ functors' = functors
      BY <1>3, <2>5 DEF handOver, addTimerInLoop
    <3> HIDE DEF t
    <3> QED BY <2>1, <2>2, <2>3, <2>4, <3>1 DEF HandedOverOnce
  <2>6. CASE a # Loop
    <3>1. /\ functors' = Append(functors, <<"add", t>>)
          /\ added' = added
      BY <1>3, <2>6 DEF handOver
    <3>2. PICK n \in Nat :
               /\ DOMAIN functors = 1..n /\ DOMAIN functors' = 1..(n + 1)
               /\ \A k \in 1..n : functors'[k] = functors[k]
               /\ functors'[n + 1] = <<"add", t>>
      BY <2>1, <3>1, EndFunctor
    <3> HIDE DEF t
    <3>3. \A b \in Threads : adding'[b] # 0 =>
            /\ adding'[b] \notin added' \cup cancelled'
            /\ \A c \in Threads : adding'[c] = adding'[b] => c = b
            /\ \A k \in DOMAIN functors' : functors'[k][2] # adding'[b]
      <4> SUFFICES ASSUME NEW b \in Threads, adding'[b] # 0
                   PROVE  /\ adding'[b] \notin added' \cup cancelled'
                          /\ \A c \in Threads : adding'[c] = adding'[b] => c = b
                          /\ \A k \in DOMAIN functors' : functors'[k][2] # adding'[b]
        OBVIOUS
      <4>1. b # a /\ adding'[b] = adding[b] /\ adding[b] # t
        BY <2>2, <2>3
      <4>2. \A k \in 1..n : functors'[k][2] # adding[b]
        BY <3>2, <4>1 DEF HandedOverOnce
      <4>3. functors'[n + 1][2] # adding[b]
        BY <3>2, <4>1
      <4>4. \A k \in DOMAIN functors' : functors'[k][2] # adding'[b]
        BY <3>2, <4>1, <4>2, <4>3
      <4> QED BY <2>2, <2>4, <3>1, <4>1, <4>4 DEF HandedOverOnce
    <3>4. \A k \in DOMAIN functors' : functors'[k][1] = "add" =>
            /\ functors'[k][2] \notin added' \cup cancelled'
            /\ \A j \in 1..(k - 1) : functors'[j][2] # functors'[k][2]
      <4>1. ASSUME NEW k \in 1..n, functors'[k][1] = "add"
            PROVE  /\ functors'[k][2] \notin added' \cup cancelled'
                   /\ \A j \in 1..(k - 1) : functors'[j][2] # functors'[k][2]
        BY <2>4, <3>1, <3>2, <4>1 DEF HandedOverOnce
      <4>2. /\ functors'[n + 1][2] \notin added' \cup cancelled'
            /\ \A j \in 1..n : functors'[j][2] # functors'[n + 1][2]
        BY <2>3, <2>4, <3>1, <3>2
      <4> QED BY <3>2, <4>1, <4>2
    <3> QED BY <3>3, <3>4 DEF HandedOverOnce
  <2> QED BY <2>5, <2>6
<1>4. ASSUME NEW t \in Timers, cancelTimer(t) PROVE HandedOverOnce'
  <2>1. /\ UNCHANGED <<adding, functors, added>>
        /\ cancelled' = cancelled \/ (cancelled' = cancelled \cup {t} /\ t \in added)
    BY <1>4 DEF cancelTimer, cancelTimerInLoop
  <2> QED BY <2>1 DEF HandedOverOnce
<1>5. ASSUME NEW t \in Timers, cancelTimerForeign(t) PROVE HandedOverOnce'
  <2>1. /\ functors' = Append(functors, <<"cancel", t>>)
        /\ UNCHANGED <<adding, added, cancelled>>
        /\ \A a \in Threads : adding[a] # t
    BY <1>5 DEF cancelTimerForeign, Returned
  <2>2. PICK n \in Nat :
             /\ DOMAIN functors = 1..n /\ DOMAIN functors' = 1..(n + 1)
             /\ \A k \in 1..n : functors'[k] = functors[k]
             /\ functors'[n + 1] = <<"cancel", t>>
    BY <2>1, EndFunctor
  <2>3. \A a \in Threads : adding[a] # 0 => \A k \in DOMAIN functors' : functors'[k][2] # adding[a]
    BY <2>1, <2>2 DEF HandedOverOnce
  <2>4. ASSUME NEW k \in DOMAIN functors', functors'[k][1] = "add"
        PROVE  /\ functors'[k][2] \notin added \cup cancelled
               /\ \A j \in 1..(k - 1) : functors'[j][2] # functors'[k][2]
    <3>1. k \in 1..n
      BY <2>2, <2>4
    <3> QED BY <2>2, <2>4, <3>1 DEF HandedOverOnce
  <2> QED BY <2>1, <2>3, <2>4 DEF HandedOverOnce
<1>6. CASE RunFunctor
  <2> DEFINE t == Head(functors)[2]
             op == Head(functors)[1]
  <2>1. functors # <<>> /\ functors' = Tail(functors) /\ adding' = adding
    BY <1>6 DEF RunFunctor
  <2>2. \/ op = "add" /\ added' = added \cup {t} /\ cancelled' = cancelled
        \/ op = "cancel" /\ added' = added /\ cancelled' = cancelled \cup {t}
    BY <1>6 DEF RunFunctor, addTimerInLoop, cancelTimerInLoop
  <2>3. /\ t = functors[1][2] /\ op = functors[1][1] /\ 1 \in DOMAIN functors
        /\ \A k \in DOMAIN functors' : k \in Nat \ {0} /\ k + 1 \in DOMAIN functors
                                       /\ functors'[k] = functors[k + 1]
    BY <2>1, HeadFunctor
  <2> HIDE DEF t, op
  <2>4. \A a \in Threads : adding[a] # 0 =>
          /\ adding[a] # t
          /\ \A k \in DOMAIN functors' : functors'[k][2] # adding[a]
    BY <2>3 DEF HandedOverOnce
  <2>5. ASSUME NEW k \in DOMAIN functors', functors'[k][1] = "add"
        PROVE  /\ functors'[k][2] \notin added \cup cancelled /\ functors'[k][2] # t
               /\ \A j \in 1..(k - 1) : functors'[j][2] # functors'[k][2]
    <3>1. /\ k \in Nat \ {0} /\ k + 1 \in DOMAIN functors /\ functors'[k] = functors[k + 1]
          /\ functors[k + 1][1] = "add"
      BY <2>3, <2>5
    <3>2. /\ functors[k + 1][2] \notin added \cup cancelled
          /\ \A j \in 1..k : functors[j][2] # functors[k + 1][2]
      BY <3>1 DEF HandedOverOnce
    <3>3. \A j \in 1..(k - 1) : j \in DOMAIN functors' /\ functors'[j] = functors[j + 1]
                                /\ j + 1 \in 1..k
      <4>1. functors' \in Seq({"add", "cancel"} \X Timers)
        BY <2>1, HeadFunctor
      <4>2. DOMAIN functors' = 1..Len(functors') /\ Len(functors') \in Nat
        BY <4>1, LenProperties
      <4> QED BY <2>3, <3>1, <4>2
    <3> QED BY <2>3, <3>1, <3>2, <3>3
  <2> QED BY <2>1, <2>2, <2>4, <2>5 DEF HandedOverOnce
<1>7. CASE Tick \/ Fire \/ Report \/ CallbackReturns \/ CallbacksDone
  BY <1>1, <1>7 DEF Tick, Fire, Report, CallbackReturns, CallbacksDone
<1>8. CASE resetDone \/ handleRead
  BY <1>1, <1>8 DEF resetDone, handleRead
<1>9. ASSUME NEW t \in Timers, run(t) PROVE HandedOverOnce'
  BY <1>1, <1>9 DEF run
<1>10. ASSUME NEW t \in Timers, resetOne(t) PROVE HandedOverOnce'
  <2>1. UNCHANGED <<adding, functors, cancelled>> /\ t \in batch
        /\ (added' = added \/ added' = added \cup {t})
    BY <1>10 DEF resetOne, addTimerInLoop
  <2>2. added' = added
    BY <2>1 DEF Known
  <2> QED BY <1>1, <2>1, <2>2
<1>11. CASE UNCHANGED vars
  BY <1>1, <1>11 DEF vars
<1> QED
  BY <1>2, <1>3, <1>4, <1>5, <1>6, <1>7, <1>8, <1>9, <1>10, <1>11 DEF Next

\* handleRead goes through its phases; only reset() puts its timers back.
LEMMA HandlingStep ==
  TypeOK /\ Known /\ HandedOverOnce /\ Handling /\ [Next]_vars => Handling'
<1> SUFFICES ASSUME TypeOK, Known, HandedOverOnce, Handling, [Next]_vars PROVE Handling'
  OBVIOUS
<1> USE DEF objects, timerfd, maps, handling
\* Steps outside handleRead that only take timers away, or put one there
\* that the loop thread has not seen.
<1>1. ASSUME UNCHANGED <<pc, batch, due, callingExpiredTimers_, reported>>,
             \A t \in timers_' : t \in timers_ \/ t \notin added
      PROVE  Handling'
  BY <1>1 DEF Handling, Known
<1>2. ASSUME NEW a \in Threads, NEW e \in Expirations, NEW i \in Intervals, addTimer(a, e, i)
      PROVE  Handling'
  BY <1>1, <1>2 DEF addTimer
<1>3. ASSUME NEW a \in Threads, handOver(a) PROVE Handling'
  <2>1. adding[a] \notin added
    BY <1>3 DEF handOver, HandedOverOnce
  <2>2. timers_' = timers_ \/ timers_' = timers_ \cup {adding[a]}
    BY <1>3 DEF handOver, addTimerInLoop
  <2> QED BY <1>1, <1>3, <2>1, <2>2 DEF handOver
<1>4. ASSUME NEW t \in Timers, cancelTimer(t) \/ cancelTimerForeign(t) PROVE Handling'
  BY <1>1, <1>4 DEF cancelTimer, cancelTimerForeign, cancelTimerInLoop
<1>5. CASE RunFunctor
  <2>1. functors # <<>>
    BY <1>5 DEF RunFunctor
  <2>2. Head(functors)[1] = "add" => Head(functors)[2] \notin added
    BY <2>1, HeadFunctor DEF HandedOverOnce
  <2>3. \/ timers_' = timers_ \cup {Head(functors)[2]} /\ Head(functors)[1] = "add"
        \/ timers_' \subseteq timers_
    BY <1>5 DEF RunFunctor, addTimerInLoop, cancelTimerInLoop
  <2> QED BY <1>1, <1>5, <2>2, <2>3 DEF RunFunctor
<1>6. CASE Tick \/ Fire
  BY <1>1, <1>6 DEF Tick, Fire
<1>7. CASE Report \/ CallbackReturns \/ CallbacksDone \/ resetDone
  BY <1>7 DEF Report, CallbackReturns, CallbacksDone, resetDone, Handling
<1>8. CASE handleRead
  BY <1>8 DEF handleRead, Handling
<1>9. ASSUME NEW t \in Timers, run(t) PROVE Handling'
  BY <1>9 DEF run, Handling
<1>10. ASSUME NEW t \in Timers, resetOne(t) PROVE Handling'
  BY <1>10 DEF resetOne, addTimerInLoop, Handling
<1>11. CASE UNCHANGED vars
  BY <1>1, <1>11 DEF vars
<1> QED
  BY <1>2, <1>3, <1>4, <1>5, <1>6, <1>7, <1>8, <1>9, <1>10, <1>11 DEF Next

-----------------------------------------------------------------------------
\* A constructed timer keeps its id, so ids that are unique were unique.
LEMMA IdsKept ==
  ASSUME TypeOK, [Next]_vars
  PROVE  /\ \A t \in 1..created : id'[t] = id[t]
         /\ UniqueIds' => UniqueIds
<1> USE DEF objects
<1>1. created \in Nat
  BY DEF TypeOK
<1>2. created' \in Nat /\ created <= created' /\ \A t \in 1..created : id'[t] = id[t]
  <2>1. ASSUME NEW a \in Threads, NEW e \in Expirations, NEW i \in Intervals, addTimer(a, e, i)
        PROVE  created' = created + 1 /\ \A t \in 1..created : id'[t] = id[t]
    <3>1. created' = created + 1 /\ id' = [id EXCEPT ![created + 1] = nextId_ + 1]
      BY <2>1 DEF addTimer
    <3>2. \A t \in 1..created : t \in Timers /\ t # created + 1
      BY TimerConstants DEF TypeOK, Timers
    <3> QED BY <3>1, <3>2 DEF TypeOK
  <2>2. \/ \E a \in Threads, e \in Expirations, i \in Intervals : addTimer(a, e, i)
        \/ UNCHANGED <<created, id>>
    BY DEF Next, handOver, cancelTimer, cancelTimerForeign, RunFunctor, Tick, Fire, Report,
        handleRead, run, resetOne, CallbackReturns, CallbacksDone, resetDone, vars
  <2> QED BY <1>1, <2>1, <2>2
<1>3. 1..created \subseteq 1..created'
  BY <1>1, <1>2
<1> QED BY <1>2, <1>3 DEF UniqueIds

\* With unique ids the timer found under an id is the timer itself.
LEMMA FoundById ==
  ASSUME Known, UniqueIds, activeTimers_ = timers_, NEW t \in 1..created
  PROVE  {u \in activeTimers_ : id[u] = id[t]} = timers_ \cap {t}
BY DEF Known, UniqueIds

\* addTimerInLoop and cancelTimerInLoop treat the two sets alike.
LEMMA MirrorKept ==
  ASSUME Known, UniqueIds, activeTimers_ = timers_, NEW t \in 1..created
  PROVE  /\ \A e : addTimerInLoop(t, e) =>
              activeTimers_' = timers_' /\ timers_' = timers_ \cup {t}
         /\ \A b : cancelTimerInLoop(t, b) =>
              activeTimers_' = timers_' /\ timers_' = timers_ \ {t}
<1>1. {u \in activeTimers_ : id[u] = id[t]} = timers_ \cap {t}
  BY FoundById
<1>2. (\E u \in activeTimers_ : id[u] = id[t]) => t \in timers_
  BY <1>1
<1> QED BY <1>1, <1>2 DEF addTimerInLoop, cancelTimerInLoop

\* The two sets stay mirrors of each other.
LEMMA MirrorStep ==
  TypeOK /\ Known /\ SetsMirror /\ [Next]_vars => SetsMirror'
<1> SUFFICES ASSUME TypeOK, Known, SetsMirror, [Next]_vars, UniqueIds'
             PROVE  activeTimers_' = timers_'
  BY DEF SetsMirror
<1> USE DEF objects, timerfd, maps, handling
<1>0. created \in Nat /\ UniqueIds /\ activeTimers_ = timers_
  BY IdsKept DEF TypeOK, SetsMirror
<1>1. ASSUME NEW t \in 1..created, NEW e, addTimerInLoop(t, e)
      PROVE  activeTimers_' = timers_'
  BY <1>0, <1>1, MirrorKept
<1>2. ASSUME NEW t \in 1..created, NEW b, cancelTimerInLoop(t, b)
      PROVE  activeTimers_' = timers_'
  BY <1>0, <1>2, MirrorKept
<1>3. CASE UNCHANGED maps
  BY <1>0, <1>3
<1>4. ASSUME NEW a \in Threads, handOver(a) PROVE activeTimers_' = timers_'
  <2>1. adding[a] \in 1..created
    BY <1>0, <1>4 DEF handOver, Known
  <2>2. UNCHANGED maps \/ addTimerInLoop(adding[a], expiration[adding[a]])
    BY <1>4 DEF handOver
  <2> QED BY <1>1, <1>3, <2>1, <2>2
<1>5. ASSUME NEW t \in Timers, cancelTimer(t) PROVE activeTimers_' = timers_'
  <2>1. t \in 1..created /\ cancelTimerInLoop(t, t \in added)
    BY <1>0, <1>5 DEF cancelTimer, Returned, Timers
  <2> QED BY <1>2, <2>1
<1>6. CASE RunFunctor
  <2> DEFINE t == Head(functors)[2]
  <2>1. functors # <<>> /\ (addTimerInLoop(t, expiration[t]) \/ cancelTimerInLoop(t, TRUE))
    BY <1>6 DEF RunFunctor
  <2>2. t \in 1..created
    BY <2>1, HeadFunctor DEF Known
  <2> HIDE DEF t
  <2> QED BY <1>1, <1>2, <2>1, <2>2
<1>7. CASE handleRead
  <2>1. Expired \subseteq timers_
    BY DEF Expired
  <2>2. StillActive = timers_ \ Expired
    BY <1>0, <2>1 DEF StillActive, UniqueIds, Known
  <2> QED BY <1>7, <2>2 DEF handleRead
<1>8. ASSUME NEW t \in Timers, resetOne(t) PROVE activeTimers_' = timers_'
  <2>1. t \in 1..created /\ (UNCHANGED maps \/ addTimerInLoop(t, hnow + interval[t]))
    BY <1>8 DEF resetOne, Known
  <2> QED BY <1>1, <1>3, <2>1
<1> QED
  BY <1>3, <1>4, <1>5, <1>6, <1>7, <1>8
  DEF Next, addTimer, cancelTimerForeign, Tick, Fire, Report, run, CallbackReturns,
      CallbacksDone, resetDone, vars

\* What was cancelled stays out, the timers of the running batch included.
LEMMA CancelStep ==
  TypeOK /\ Known /\ HandedOverOnce /\ Handling /\ SetsMirror /\ Remembered
    /\ CancelIsFinal /\ [Next]_vars => Remembered' /\ CancelIsFinal'
<1> SUFFICES ASSUME TypeOK, Known, HandedOverOnce, Handling, SetsMirror, Remembered,
                    CancelIsFinal, [Next]_vars, UniqueIds'
             PROVE  /\ \A t \in batch' \cap cancelled' : id'[t] \in cancelingTimers_'
                    /\ cancelled' \cap timers_' = {}
  BY DEF Remembered, CancelIsFinal
<1> DEFINE Goal == /\ \A t \in batch' \cap cancelled' : id'[t] \in cancelingTimers_'
                   /\ cancelled' \cap timers_' = {}
<1> USE DEF objects, timerfd, maps, handling
<1>0. /\ created \in Nat /\ UniqueIds /\ activeTimers_ = timers_
      /\ cancelled \cap timers_ = {}
      /\ \A t \in batch \cap cancelled : id[t] \in cancelingTimers_
      /\ batch \subseteq 1..created /\ timers_ \subseteq 1..created
      /\ \A t \in 1..created : id'[t] = id[t]
  BY IdsKept DEF TypeOK, SetsMirror, Remembered, CancelIsFinal, Known
\* Steps that cancel nothing and put no cancelled timer back.
<1>1. ASSUME UNCHANGED <<cancelled, cancelingTimers_>>, batch' \subseteq batch,
             \A t \in timers_' : t \in timers_ \/ t \notin cancelled
      PROVE  Goal
  BY <1>0, <1>1
\* A cancellation on the loop thread.
<1>2. ASSUME NEW t \in 1..created, NEW b, cancelTimerInLoop(t, b), batch' = batch,
             pc = "idle" \/ callingExpiredTimers_
      PROVE  Goal
  <2>1. timers_' = timers_ \ {t}
    BY <1>0, <1>2, MirrorKept
  <2>2. cancelled' \subseteq cancelled \cup {t} /\ cancelingTimers_ \subseteq cancelingTimers_'
    BY <1>2 DEF cancelTimerInLoop
  <2>3. t \in batch => id[t] \in cancelingTimers_'
    <3> SUFFICES ASSUME t \in batch PROVE id[t] \in cancelingTimers_'
      OBVIOUS
    <3>1. t \notin timers_ /\ callingExpiredTimers_
      BY <1>2 DEF Handling
    <3>2. {u \in activeTimers_ : id[u] = id[t]} = {}
      BY <1>0, <3>1, FoundById
    <3> QED BY <1>2, <3>1, <3>2 DEF cancelTimerInLoop
  <2>4. \A u \in batch' \cap cancelled' : id'[u] \in cancelingTimers_'
    BY <1>0, <1>2, <2>2, <2>3
  <2> QED BY <1>0, <2>1, <2>2, <2>4
<1>3. ASSUME NEW a \in Threads, handOver(a) PROVE Goal
  <2>1. adding[a] \notin cancelled
    BY <1>3 DEF handOver, HandedOverOnce
  <2>2. timers_' = timers_ \/ timers_' = timers_ \cup {adding[a]}
    BY <1>3 DEF handOver, addTimerInLoop
  <2>3. UNCHANGED <<cancelled, cancelingTimers_, batch>>
    BY <1>3 DEF handOver
  <2> HIDE DEF Goal
  <2> QED BY <1>1, <2>1, <2>2, <2>3
<1>4. ASSUME NEW t \in Timers, cancelTimer(t) PROVE Goal
  <2>1. t \in 1..created /\ cancelTimerInLoop(t, t \in added) /\ batch' = batch
    BY <1>0, <1>4 DEF cancelTimer, Returned, Timers
  <2>2. pc = "idle" \/ callingExpiredTimers_
    BY <1>4 DEF cancelTimer, LoopCanCall, Handling
  <2> HIDE DEF Goal
  <2> QED BY <1>2, <2>1, <2>2
<1>5. ASSUME RunFunctor PROVE Goal
  <2> DEFINE t == Head(functors)[2]
  <2>1. /\ functors # <<>> /\ pc = "idle" /\ batch' = batch
        /\ \/ /\ Head(functors)[1] = "add" /\ addTimerInLoop(t, expiration[t])
              /\ UNCHANGED <<cancelingTimers_, cancelled>>
           \/ cancelTimerInLoop(t, TRUE)
    BY <1>5 DEF RunFunctor
  <2>2. t \in 1..created
    BY <2>1, HeadFunctor DEF Known
  <2>3. Head(functors)[1] = "add" => t \notin cancelled
    BY <2>1, HeadFunctor DEF HandedOverOnce
  <2> HIDE DEF t, Goal
  <2>4. CASE cancelTimerInLoop(t, TRUE)
    BY <1>2, <2>1, <2>2, <2>4
  <2>5. CASE /\ Head(functors)[1] = "add" /\ addTimerInLoop(t, expiration[t])
             /\ UNCHANGED <<cancelingTimers_, cancelled>>
    <3>1. timers_' = timers_ \cup {t}
      BY <2>5 DEF addTimerInLoop
    <3> QED BY <1>1, <2>1, <2>3, <2>5, <3>1
  <2> QED BY <2>1, <2>4, <2>5
<1>6. CASE handleRead
  <2>1. batch' \subseteq timers_ /\ timers_' \subseteq timers_ /\ cancelled' = cancelled
    BY <1>6 DEF handleRead, Expired
  <2> QED BY <1>0, <2>1
<1>7. ASSUME NEW t \in Timers, resetOne(t) PROVE Goal
  <2>1. /\ t \in batch /\ batch' = batch \ {t} /\ UNCHANGED <<cancelled, cancelingTimers_>>
        /\ timers_' = timers_ \/ (Rearms(t) /\ timers_' = timers_ \cup {t})
    BY <1>7 DEF resetOne, addTimerInLoop
  <2>2. Rearms(t) => t \notin cancelled
    BY <1>0, <2>1 DEF Rearms
  <2> HIDE DEF Goal
  <2> QED BY <1>1, <2>1, <2>2
<1>8. ASSUME UNCHANGED <<cancelled, cancelingTimers_, batch, timers_>> PROVE Goal
  <2> HIDE DEF Goal
  <2> QED BY <1>1, <1>8
<1> QED
  BY <1>3, <1>4, <1>5, <1>6, <1>7, <1>8
  DEF Next, addTimer, cancelTimerForeign, Tick, Fire, Report, run, CallbackReturns,
      CallbacksDone, resetDone, vars

-----------------------------------------------------------------------------
\* The timerfd is armed early enough for timer t.
Covered(t) ==
  readable \/ (deadline # Off /\ (deadline <= expiration[t] \/ deadline <= now + Grace))

\* A timerfd armed for e covers every timer that is not earlier.
LEMMA ArmedCovers ==
  ASSUME now \in Nat, NEW e \in Nat, deadline' = Armed(e), now' = now,
         NEW t, expiration'[t] \in Nat, e <= expiration'[t]
  PROVE  Covered(t)'
BY TimerConstants DEF Covered, Armed, Off

\* addTimerInLoop re-arms exactly when it has to.
LEMMA AddCovers ==
  ASSUME TypeOK, NEW t \in Timers, addTimerInLoop(t, expiration[t]),
         UNCHANGED <<expiration, now>>, \A u \in timers_ : Covered(u)
  PROVE  \A u \in timers_' : Covered(u)'
<1>0. /\ now \in Nat /\ expiration \in [Timers -> Nat] /\ timers_ \subseteq Timers
      /\ deadline \in Nat /\ expiration[t] \in Nat
  BY DEF TypeOK
<1>1. timers_' = timers_ \cup {t}
  BY DEF addTimerInLoop
<1>2. CASE EarliestChanged(expiration[t])
  <2>1. deadline' = Armed(expiration[t])
    BY <1>2 DEF addTimerInLoop, resetTimerfd
  <2>2. \A u \in timers_' : expiration'[u] \in Nat /\ expiration[t] <= expiration'[u]
    BY <1>0, <1>1, <1>2 DEF EarliestChanged
  <2> QED BY <1>0, <2>1, <2>2, ArmedCovers
<1>3. CASE ~EarliestChanged(expiration[t])
  <2>1. UNCHANGED <<deadline, readable>>
    BY <1>3 DEF addTimerInLoop, timerfd
  <2>2. PICK u \in timers_ : ~(expiration[t] <= expiration[u])
    BY <1>3 DEF EarliestChanged
  <2>3. Covered(u) /\ expiration[u] \in Nat /\ expiration[u] <= expiration[t]
    BY <1>0, <2>2
  <2>4. Covered(t)
    BY <1>0, <2>3, TimerConstants DEF Covered
  <2> QED BY <1>1, <2>1, <2>4 DEF Covered
<1> QED BY <1>2, <1>3

\* A waiting timer stays waited for.
LEMMA CoverStep ==
  TypeOK /\ Known /\ Handling /\ TimerfdCovers /\ [Next]_vars => TimerfdCovers'
<1> SUFFICES ASSUME TypeOK, Known, Handling, TimerfdCovers, [Next]_vars,
                    pc' = "idle", ~reported'
             PROVE  \A t \in timers_' : Covered(t)'
  BY DEF TimerfdCovers, Covered
<1> USE DEF objects, timerfd, maps, handling
<1>0. /\ now \in Nat /\ created \in Nat /\ expiration \in [Timers -> Nat]
      /\ deadline \in Nat /\ timers_ \subseteq Timers /\ timers_ \subseteq 1..created
  BY DEF TypeOK, Known
<1>1. pc = "idle" /\ ~reported => \A t \in timers_ : Covered(t)
  BY DEF TimerfdCovers, Covered
\* Steps that add no timer and leave the timerfd alone.
<1>2. ASSUME UNCHANGED <<pc, reported, deadline, readable, now>>, timers_' \subseteq timers_,
             \A t \in timers_ : expiration'[t] = expiration[t]
      PROVE  \A t \in timers_' : Covered(t)'
  BY <1>1, <1>2 DEF Covered
<1>3. ASSUME NEW a \in Threads, NEW e \in Expirations, NEW i \in Intervals, addTimer(a, e, i)
      PROVE  \A t \in timers_' : Covered(t)'
  <2>1. /\ UNCHANGED <<pc, reported, deadline, readable, now, timers_>>
        /\ expiration' = [expiration EXCEPT ![created + 1] = e]
    BY <1>3 DEF addTimer
  <2>2. \A t \in timers_ : expiration'[t] = expiration[t]
    BY <1>0, <2>1
  <2> QED BY <1>2, <2>1, <2>2
<1>4. ASSUME NEW a \in Threads, handOver(a) PROVE \A t \in timers_' : Covered(t)'
  <2>1. UNCHANGED <<pc, reported, now, expiration>> /\ adding[a] \in Timers
    BY <1>4 DEF handOver, TypeOK, Timers
  <2>2. \/ addTimerInLoop(adding[a], expiration[adding[a]])
        \/ UNCHANGED <<timers_, deadline, readable>>
    BY <1>4 DEF handOver
  <2> QED BY <1>1, <1>2, <2>1, <2>2, AddCovers
<1>5. ASSUME NEW t \in Timers, cancelTimer(t) \/ cancelTimerForeign(t)
      PROVE  \A u \in timers_' : Covered(u)'
  BY <1>2, <1>5 DEF cancelTimer, cancelTimerForeign, cancelTimerInLoop
<1>6. CASE RunFunctor
  <2> DEFINE t == Head(functors)[2]
  <2>1. /\ functors # <<>> /\ UNCHANGED <<pc, reported, now, expiration>>
        /\ \/ addTimerInLoop(t, expiration[t])
           \/ cancelTimerInLoop(t, TRUE) /\ UNCHANGED <<deadline, readable>>
    BY <1>6 DEF RunFunctor
  <2>2. t \in Timers
    BY <2>1, HeadFunctor
  <2> HIDE DEF t
  <2>3. CASE addTimerInLoop(t, expiration[t])
    BY <1>1, <2>1, <2>2, <2>3, AddCovers
  <2>4. CASE cancelTimerInLoop(t, TRUE) /\ UNCHANGED <<deadline, readable>>
    BY <1>2, <2>1, <2>4 DEF cancelTimerInLoop
  <2> QED BY <2>1, <2>3, <2>4
<1>7. CASE Tick \/ Fire
  <2>1. UNCHANGED <<pc, reported, expiration, timers_>>
    BY <1>7 DEF Tick, Fire
  <2>2. \/ now' = now + 1 /\ UNCHANGED <<deadline, readable>>
        \/ now' = now /\ readable'
    BY <1>7 DEF Tick, Fire
  <2> SUFFICES ASSUME NEW t \in timers_ PROVE Covered(t)'
    BY <2>1
  <2>3. Covered(t)
    BY <1>1, <2>1
  <2> QED BY <1>0, <2>1, <2>2, <2>3, TimerConstants DEF Covered
<1>8. CASE resetDone
  <2>1. UNCHANGED <<now, expiration, timers_>>
    BY <1>8 DEF resetDone
  <2> SUFFICES ASSUME NEW t \in timers_ PROVE Covered(t)'
    BY <2>1
  <2>2. deadline' = Armed(Earliest)
    BY <1>8 DEF resetDone, resetTimerfd
  <2>3. Earliest \in Nat /\ Earliest <= expiration'[t] /\ expiration'[t] \in Nat
    BY <1>0, <2>1, EarliestType
  <2> QED BY <1>0, <2>1, <2>2, <2>3, ArmedCovers
<1>9. CASE UNCHANGED vars
  BY <1>2, <1>9 DEF vars
<1>10. pc' # "idle" \/ reported' \/ ~(Report \/ handleRead \/ CallbackReturns \/ CallbacksDone)
  BY DEF Report, handleRead, CallbackReturns, CallbacksDone
<1>11. ASSUME NEW t \in Timers PROVE ~run(t) /\ ~resetOne(t)
  BY DEF run, resetOne
<1> QED
  BY <1>3, <1>4, <1>5, <1>6, <1>7, <1>8, <1>9, <1>10, <1>11 DEF Next

\* The timers of the batch stay expired until they are called.
LEMMA DueStep ==
  TypeOK /\ Known /\ Handling /\ DueExpired /\ [Next]_vars => DueExpired'
<1> SUFFICES ASSUME TypeOK, Known, Handling, DueExpired, [Next]_vars PROVE DueExpired'
  OBVIOUS
<1> USE DEF objects, handling
<1>0. /\ now \in Nat /\ created \in Nat /\ expiration \in [Timers -> Nat]
      /\ due \subseteq Timers /\ due \subseteq 1..created
  BY DEF TypeOK, Known
<1>1. ASSUME NEW a \in Threads, NEW e \in Expirations, NEW i \in Intervals, addTimer(a, e, i)
      PROVE  DueExpired'
  <2>1. expiration' = [expiration EXCEPT ![created + 1] = e] /\ UNCHANGED <<due, now>>
    BY <1>1 DEF addTimer
  <2> QED BY <1>0, <2>1 DEF DueExpired
<1>2. CASE Tick
  <2>1. UNCHANGED <<expiration, due>> /\ now' = now + 1
    BY <1>2 DEF Tick
  <2> QED BY <1>0, <2>1 DEF DueExpired
<1>3. CASE handleRead
  BY <1>0, <1>3 DEF handleRead, Expired, DueExpired, TypeOK
<1>4. ASSUME NEW t \in Timers, resetOne(t) PROVE DueExpired'
  BY <1>4 DEF resetOne, Handling, DueExpired
<1>5. ASSUME NEW t \in Timers, run(t) PROVE DueExpired'
  BY <1>5 DEF run, DueExpired
<1>6. CASE UNCHANGED <<expiration, due, now>>
  BY <1>6 DEF DueExpired
<1> QED
  BY <1>1, <1>2, <1>3, <1>4, <1>5, <1>6
  DEF Next, handOver, cancelTimer, cancelTimerForeign, RunFunctor, Fire, Report,
      CallbackReturns, CallbacksDone, resetDone, vars

\* Every step keeps the inductive invariant.
LEMMA NextInv == IInv /\ [Next]_vars => IInv'
BY TypeStep, KnownStep, HandOverStep, HandlingStep, MirrorStep, CancelStep, CoverStep,
   DueStep
DEF IInv

-----------------------------------------------------------------------------
\* Types of the scheduler's members, its timers and the timerfd.
THEOREM TypeCorrect == Spec => []TypeOK
BY InitInv, NextInv, PTL DEF Spec, IInv

\* timers_ and activeTimers_ hold the same timers through every interleaving
\* of additions, cancellations, expirations and repetitions, as long as
\* addTimer's ids are unique.
THEOREM MapsMirror == Spec => []SetsMirror
BY InitInv, NextInv, PTL DEF Spec, IInv

\* A cancelled timer never returns to timers_: not from the functor that adds
\* it, not from reset() at the end of the batch it is in.
THEOREM CancelWins == Spec => []CancelIsFinal
BY InitInv, NextInv, PTL DEF Spec, IInv

\* The loop never waits in epoll_wait with a timer nobody will wake it for.
THEOREM TimerfdArmed == Spec => []TimerfdCovers
BY InitInv, NextInv, PTL DEF Spec, IInv

\* run(t) is called for expired timers only, whatever the other threads and
\* the callbacks of the same batch do between extraction and call.
THEOREM NoEarlyCallback == Spec => NeverEarly
<1>1. IInv /\ [Next]_vars => [\A t \in Timers : run(t) => expiration[t] <= now]_vars
  BY DEF IInv, DueExpired, run
<1> QED BY <1>1, InitInv, NextInv, PTL DEF Spec, NeverEarly
=============================================================================
