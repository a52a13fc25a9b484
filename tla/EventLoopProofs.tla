-------------------------- MODULE EventLoopProofs --------------------------
(***************************************************************************)
(* Proofs about EventLoop, for every set of threads and channels, every    *)
(* initial size of events_ and every number of functors.                   *)
(***************************************************************************)
EXTENDS EventLoop, QueueLemmas, FiniteSetTheorems

\* Where a functor in tasks_ is not going to be taken by the iteration under
\* way, so that the next epoll_wait has to be woken for it.
Missed == {"setup", "run", "functor", "check", "polling"}

\* NoLostWakeup is not inductive: that epoll_wait is entered with a wakeup
\* on the way depends on every point since the last swap, and that a functor
\* queued by a functor is followed by a wakeup depends on the flag.
WakeInv ==
  /\ callingPendingFunctors_ <=> loopPc \in {"swap", "run", "functor"}
  /\ LoopThread \in pushed => loopPc \in {"setup", "handler", "functor", "exited"}
  /\ loopPc \in Missed /\ ~(Elements(tasks_) \subseteq preLoop) => WakePending

IInv == TypeOK /\ WakeInv
-----------------------------------------------------------------------------
\* The constructed loop satisfies the invariant.
LEMMA InitInv == Init => IInv
<1> SUFFICES ASSUME Init PROVE IInv
  OBVIOUS
<1>1. TypeOK
  <2>1. /\ tasks_ \in Seq(Tasks) /\ batch \in Seq(Tasks) /\ executed \in Seq(Tasks)
    BY DEF Init
  <2>2. created \in 0..MaxTasks /\ eventsSize \in Nat \ {0}
    BY LoopConstants DEF Init
  <2> QED BY <2>1, <2>2 DEF Init, TypeOK, LoopPcs
<1>2. Elements(tasks_) = {}
  BY DEF Init, Elements
<1>3. WakeInv
  BY <1>2 DEF Init, WakeInv, Missed
<1> QED BY <1>1, <1>3 DEF IInv

\* The types are preserved by every step.
LEMMA TypeStep == TypeOK /\ [Next]_vars => TypeOK'
<1> SUFFICES ASSUME TypeOK, [Next]_vars PROVE TypeOK'
  OBVIOUS
<1> USE LoopConstants DEF TypeOK, Tasks, Threads, LoopPcs, kernel, history
<1>1. ASSUME NEW t \in Threads, Push(t) PROVE TypeOK'
  BY <1>1 DEF Push, Queued
<1>2. ASSUME NEW t \in Threads, Wakeup(t) PROVE TypeOK'
  BY <1>2 DEF Wakeup, wakeup
<1>3. ASSUME NEW t \in Threads, runInLoop(t) PROVE TypeOK'
  <2>1. CASE queueInLoop(t)
    BY <1>1, <2>1 DEF queueInLoop
  <2>2. CASE ~queueInLoop(t)
    <3>1. /\ created < MaxTasks
          /\ created' = created + 1
          /\ inlined' = inlined \cup {created + 1}
          /\ UNCHANGED <<tasks_, callingPendingFunctors_, quit_, activeChannels_,
                         eventsSize, ready, rdlist, loopPc, batch, pushed,
                         executed, preLoop>>
      BY <1>3, <2>2 DEF runInLoop
    <3> QED BY <3>1
  <2> QED BY <2>1, <2>2
<1>4. ASSUME NEW t \in Threads, quit(t) PROVE TypeOK'
  BY <1>4 DEF quit
<1>5. ASSUME NEW c \in Channels, Arrive(c) PROVE TypeOK'
  BY <1>5 DEF Arrive
<1>6. CASE StartLoop
  BY <1>6 DEF StartLoop
<1>7. CASE CheckQuit
  BY <1>7 DEF CheckQuit, Continues
<1>8. CASE Poll
  BY <1>8 DEF Poll, Unreported, Reports, Resized
<1>9. CASE PollTimeout
  BY <1>9 DEF PollTimeout
<1>10. ASSUME NEW c \in Channels \cup {Event}, HandleEvents(c) PROVE TypeOK'
  BY <1>10 DEF HandleEvents
<1>11. CASE Return
  BY <1>11 DEF Return
<1>12. CASE BeginPending
  BY <1>12 DEF BeginPending
<1>13. CASE Swap
  BY <1>13 DEF Swap, Taken
<1>14. CASE RunTask
  BY <1>14, MoveHead DEF RunTask
<1>15. CASE EndPending
  BY <1>15 DEF EndPending
<1>16. CASE UNCHANGED vars
  BY <1>16 DEF vars
<1> QED
  BY <1>1, <1>2, <1>3, <1>4, <1>5, <1>6, <1>7, <1>8, <1>9, <1>10, <1>11,
     <1>12, <1>13, <1>14, <1>15, <1>16
  DEF Next, LoopStep, doPendingFunctors, queueInLoop

-----------------------------------------------------------------------------
\* Emptying or shortening a queue, and appending to one.
LEMMA ElementsOfQueue ==
  /\ Elements(<<>>) = {}
  /\ \A S : \A s \in Seq(S) : \A e \in S : Elements(Append(s, e)) = Elements(s) \cup {e}
<1>1. Elements(<<>>) = {}
  BY DEF Elements
<1>2. ASSUME NEW S, NEW s \in Seq(S), NEW e \in S
      PROVE  Elements(Append(s, e)) = Elements(s) \cup {e}
  BY AppendProperties, LenProperties DEF Elements
<1> QED BY <1>1, <1>2

\* A step keeps the wakeup invariant.
LEMMA WakeStep == IInv /\ [Next]_vars => WakeInv'
<1> SUFFICES ASSUME IInv, [Next]_vars PROVE WakeInv'
  OBVIOUS
<1> USE DEF WakeInv, WakePending, NeedsWakeup, isInLoopThread, Missed
<1>0. TypeOK /\ WakeInv
  BY DEF IInv
<1>1. ASSUME NEW t \in Threads, Push(t) PROVE WakeInv'
  <2>1. Elements(tasks_') = Elements(tasks_) \cup {created + 1}
    <3>1. tasks_ \in Seq(Tasks)
      BY <1>0 DEF TypeOK
    <3>2. created + 1 \in Tasks
      <4>1. created \in 0..MaxTasks
        BY <1>0 DEF TypeOK
      <4>2. created < MaxTasks
        BY <1>1 DEF Push, Queued
      <4> QED BY <4>1, <4>2, LoopConstants DEF Tasks
    <3>3. tasks_' = Append(tasks_, created + 1)
      BY <1>1 DEF Push, Queued
    <3> HIDE DEF Elements
    <3> QED BY <3>1, <3>2, <3>3, ElementsOfQueue
  <2>2. CASE t # LoopThread
    BY <1>0, <1>1, <2>1, <2>2 DEF Push, Queued, CanCall
  <2>3. CASE t = LoopThread /\ loopPc = "setup"
    <3>1. ~(Elements(tasks_') \subseteq preLoop')
            => ~(Elements(tasks_) \subseteq preLoop)
      BY <1>1, <2>1, <2>3 DEF Push, Queued
    <3> QED BY <1>0, <1>1, <2>3, <3>1 DEF Push, Queued, CanCall, kernel
  <2>4. CASE t = LoopThread /\ loopPc # "setup"
    BY <1>0, <1>1, <2>4 DEF Push, Queued, CanCall, kernel
  <2> QED BY <2>2, <2>3, <2>4
<1>2. ASSUME NEW t \in Threads, Wakeup(t) PROVE WakeInv'
  BY <1>0, <1>2 DEF Wakeup, wakeup, kernel, history
<1>3. ASSUME NEW t \in Threads, runInLoop(t) PROVE WakeInv'
  <2>1. CASE queueInLoop(t)
    BY <1>1, <2>1 DEF queueInLoop
  <2>2. CASE ~queueInLoop(t)
    BY <1>0, <1>3, <2>2 DEF runInLoop, kernel
  <2> QED BY <2>1, <2>2
<1>4. ASSUME NEW t \in Threads, quit(t) PROVE WakeInv'
  BY <1>0, <1>4 DEF quit, kernel, history
<1>5. ASSUME NEW c \in Channels, Arrive(c) PROVE WakeInv'
  BY <1>0, <1>5 DEF Arrive, history
<1>6. CASE StartLoop
  BY <1>0, <1>6 DEF StartLoop, kernel, history
<1>7. CASE CheckQuit
  BY <1>0, <1>7 DEF CheckQuit, Continues, kernel, history
<1>8. CASE Poll
  BY <1>0, <1>8 DEF Poll, Unreported, history
<1>9. CASE PollTimeout
  BY <1>0, <1>9 DEF PollTimeout, kernel, history
<1>10. ASSUME NEW c \in Channels \cup {Event}, HandleEvents(c) PROVE WakeInv'
  BY <1>0, <1>10 DEF HandleEvents, history
<1>11. CASE Return
  BY <1>0, <1>11 DEF Return, kernel, history
<1>12. CASE BeginPending
  BY <1>0, <1>12 DEF BeginPending, kernel, history
<1>13. CASE Swap
  BY <1>0, <1>13, ElementsOfQueue DEF Swap, Taken, kernel, history
<1>14. CASE RunTask
  BY <1>0, <1>14 DEF RunTask, kernel
<1>15. CASE EndPending
  BY <1>0, <1>15 DEF EndPending, kernel, history
<1>16. CASE UNCHANGED vars
  BY <1>0, <1>16 DEF vars, kernel, history
<1> QED
  BY <1>1, <1>2, <1>3, <1>4, <1>5, <1>6, <1>7, <1>8, <1>9, <1>10, <1>11,
     <1>12, <1>13, <1>14, <1>15, <1>16
  DEF Next, LoopStep, doPendingFunctors, queueInLoop

\* The inductive invariant of loop() and queueInLoop: a functor that the
\* iteration under way will not take has its wakeup on the way.
THEOREM LoopInvariant == Spec => []IInv
<1>1. IInv /\ [Next]_vars => IInv'
  BY TypeStep, WakeStep DEF IInv
<1> QED BY InitInv, <1>1, PTL DEF Spec

\* Every variable keeps its type, for every number of threads and functors.
THEOREM LoopTypes == Spec => []TypeOK
BY LoopInvariant, PTL DEF IInv

\* No interleaving of queueInLoop with the loop loses a wakeup.
THEOREM LoopWakes == Spec => []NoLostWakeup
<1>1. IInv => NoLostWakeup
  BY DEF IInv, WakeInv, NoLostWakeup, Missed
<1> QED BY LoopInvariant, <1>1, PTL

-----------------------------------------------------------------------------
\* What an iteration leaves, with the types.
CleanInv == TypeOK /\ IterationClean

\* Every step keeps it: dispatch empties activeChannels_ before the functors
\* run, and the batch is run to its end before the next poll.
LEMMA CleanStep == CleanInv /\ [Next]_vars => CleanInv'
<1> SUFFICES ASSUME CleanInv, [Next]_vars PROVE IterationClean'
  BY TypeStep DEF CleanInv
<1> USE DEF IterationClean, kernel, history
<1>0. TypeOK /\ IterationClean
  BY DEF CleanInv
<1> DEFINE Goal == IterationClean'
<1>1. ASSUME NEW t \in Threads, Push(t) PROVE Goal
  BY <1>0, <1>1 DEF Push, Queued
<1>2. ASSUME NEW t \in Threads, Wakeup(t) PROVE Goal
  BY <1>0, <1>2 DEF Wakeup, wakeup
<1>3. ASSUME NEW t \in Threads, runInLoop(t) PROVE Goal
  <2>1. CASE queueInLoop(t)
    BY <1>1, <2>1 DEF queueInLoop
  <2>2. CASE ~queueInLoop(t)
    BY <1>0, <1>3, <2>2 DEF runInLoop
  <2> QED BY <2>1, <2>2
<1>4. ASSUME NEW t \in Threads, quit(t) PROVE Goal
  BY <1>0, <1>4 DEF quit
<1>5. ASSUME NEW c \in Channels, Arrive(c) PROVE Goal
  BY <1>0, <1>5 DEF Arrive
<1>6. CASE StartLoop
  BY <1>0, <1>6 DEF StartLoop
<1>7. CASE CheckQuit
  BY <1>0, <1>7 DEF CheckQuit, Continues
<1>8. CASE Poll
  BY <1>0, <1>8 DEF Poll, Unreported, Reports
<1>9. CASE PollTimeout
  BY <1>0, <1>9 DEF PollTimeout
<1>10. ASSUME NEW c \in Channels \cup {Event}, HandleEvents(c) PROVE Goal
  BY <1>0, <1>10 DEF HandleEvents
<1>11. CASE Return
  BY <1>0, <1>11 DEF Return
<1>12. CASE BeginPending
  BY <1>0, <1>12 DEF BeginPending
<1>13. CASE Swap
  BY <1>0, <1>13 DEF Swap, Taken
<1>14. CASE RunTask
  BY <1>0, <1>14 DEF RunTask
<1>15. CASE EndPending
  BY <1>0, <1>15 DEF EndPending
<1>16. CASE UNCHANGED vars
  BY <1>0, <1>16 DEF vars
<1> QED
  BY <1>1, <1>2, <1>3, <1>4, <1>5, <1>6, <1>7, <1>8, <1>9, <1>10, <1>11,
     <1>12, <1>13, <1>14, <1>15, <1>16
  DEF Next, LoopStep, doPendingFunctors, queueInLoop

\* It holds of every reachable state.
LEMMA CleanInvariant == Spec => []CleanInv
<1>1. Init => CleanInv
  BY InitInv DEF Init, CleanInv, IInv, IterationClean
<1> QED BY <1>1, CleanStep, PTL DEF Spec

\* An iteration leaves nothing to the next one.
THEOREM LoopIterationClean == Spec => []IterationClean
BY CleanInvariant, PTL DEF CleanInv

-----------------------------------------------------------------------------
\* Every step of the loop is a step of the abstract queue or leaves it alone:
\* the swap moves functors from the second half of the abstract queue to the
\* first, which must be empty then.
LEMMA QueueStep ==
  CleanInv /\ [Next]_vars => [Queue!Next]_(Queue!vars)
<1> SUFFICES ASSUME CleanInv, [Next]_vars
             PROVE  [Queue!Next]_(Queue!vars)
  OBVIOUS
<1> USE DEF kernel, history
<1>0. /\ batch \in Seq(Tasks) /\ tasks_ \in Seq(Tasks)
      /\ created \in 0..MaxTasks /\ MaxTasks \in Nat
  BY LoopConstants DEF CleanInv, TypeOK
<1>1. ASSUME NEW t \in Threads, Push(t) PROVE Queue!Queue
  <2>1. created + 1 \in Tasks
    BY <1>0, <1>1 DEF Push, Queued, Tasks
  <2>2. batch \o Append(tasks_, created + 1) = Append(batch \o tasks_, created + 1)
    BY <1>0, <2>1, AppendToConcat
  <2> QED BY <1>1, <2>2 DEF Push, Queued, Queue!Queue
<1>2. ASSUME NEW t \in Threads, runInLoop(t) PROVE Queue!Queue \/ Queue!Inline
  <2>1. CASE queueInLoop(t)
    BY <1>1, <2>1 DEF queueInLoop
  <2>2. CASE ~queueInLoop(t)
    BY <1>2, <2>2 DEF runInLoop, Queue!Inline
  <2> QED BY <2>1, <2>2
<1>3. ASSUME RunTask PROVE Queue!Execute
  <2>1. /\ batch \o tasks_ # <<>>
        /\ Head(batch \o tasks_) = Head(batch)
        /\ Tail(batch \o tasks_) = Tail(batch) \o tasks_
    BY <1>0, <1>3, HeadOfConcat DEF RunTask
  <2> QED BY <1>3, <2>1 DEF RunTask, Queue!Execute
<1>4. CASE Swap
  <2>1. batch \o tasks_ = tasks_ /\ tasks_ \o <<>> = tasks_
    BY <1>0, <1>4, ConcatEmptySeq DEF Swap, Taken, CleanInv, IterationClean
  <2> QED BY <1>4, <2>1 DEF Swap, Taken, Queue!vars
<1>5. ASSUME NEW t \in Threads, Wakeup(t) \/ quit(t) PROVE UNCHANGED Queue!vars
  BY <1>5 DEF Wakeup, wakeup, quit, Queue!vars
<1>6. ASSUME NEW c \in Channels \cup {Event}, Arrive(c) \/ HandleEvents(c)
      PROVE  UNCHANGED Queue!vars
  BY <1>6 DEF Arrive, HandleEvents, Queue!vars
<1>7. CASE StartLoop \/ CheckQuit \/ Return \/ PollTimeout
  BY <1>7 DEF StartLoop, CheckQuit, Return, PollTimeout, Queue!vars
<1>8. CASE Poll \/ BeginPending \/ EndPending
  BY <1>8 DEF Poll, Unreported, BeginPending, EndPending, Queue!vars
<1>9. CASE UNCHANGED vars
  BY <1>9 DEF vars, Queue!vars
<1> QED
  BY <1>1, <1>2, <1>3, <1>4, <1>5, <1>6, <1>7, <1>8, <1>9
  DEF Next, LoopStep, doPendingFunctors, queueInLoop, Queue!Next

\* Refinement: the loop with its threads, mutex and batches implements the
\* abstract queue.
THEOREM LoopImplementsQueue == Spec => QueueSpec
<1>1. Init => Queue!Init
  BY ConcatEmptySeq DEF Init, Queue!Init
<1>2. QED BY <1>1, QueueStep, CleanInvariant, PTL
     DEF Spec, QueueSpec, Queue!Spec

\* The numbers of the functors executed and still queued increase, and none
\* is above the number of functors handed over.
QueueInv == Below(Queue!History, created) /\ Queue!InOrderOnce

\* Every step of the abstract queue keeps its order.
LEMMA QueueInvStep ==
  TypeOK /\ QueueInv /\ [Queue!Next]_(Queue!vars) => QueueInv'
<1> SUFFICES ASSUME TypeOK, QueueInv, [Queue!Next]_(Queue!vars) PROVE QueueInv'
  OBVIOUS
<1> DEFINE pending == batch \o tasks_
<1>0. pending \in Seq(Nat) /\ executed \in Seq(Nat) /\ created \in Nat
  <2>1. batch \in Seq(Nat) /\ tasks_ \in Seq(Nat)
    BY LoopConstants DEF TypeOK, Tasks
  <2>2. executed \in Seq(Nat) /\ created \in Nat
    BY LoopConstants DEF TypeOK, Tasks
  <2> QED BY <2>1, <2>2
<1>1. Queue!History = executed \o pending /\ (Queue!History)' = executed' \o pending'
  BY DEF Queue!History
<1>2. Below(executed \o pending, created) /\ Increasing(executed \o pending)
  BY <1>1 DEF QueueInv, Queue!InOrderOnce, Increasing
<1>3. ASSUME Below(executed' \o pending', created'), Increasing(executed' \o pending')
      PROVE  QueueInv'
  BY <1>1, <1>3 DEF QueueInv, Queue!InOrderOnce, Increasing
<1>4. CASE Queue!Queue
  <2>1. /\ created' = created + 1 /\ executed' = executed
        /\ pending' = Append(pending, created + 1)
    BY <1>4 DEF Queue!Queue
  <2> HIDE DEF pending
  <2>2. executed \o Append(pending, created + 1) = Append(executed \o pending, created + 1)
    BY <1>0, AppendToConcat
  <2>3. executed \o pending \in Seq(Nat)
    BY <1>0
  <2>4. /\ Below(Append(executed \o pending, created + 1), created + 1)
        /\ Increasing(Append(executed \o pending, created + 1))
    BY <1>0, <1>2, <2>3, AppendNext
  <2> QED BY <1>3, <2>1, <2>2, <2>4
<1>5. CASE Queue!Inline
  <2>1. created' = created + 1 /\ executed' = executed /\ pending' = pending
    BY <1>5 DEF Queue!Inline
  <2> HIDE DEF pending
  <2>2. Below(executed \o pending, created + 1)
    BY <1>0, <1>2 DEF Below
  <2> QED BY <1>2, <1>3, <2>1, <2>2
<1>6. CASE Queue!Execute
  <2>1. /\ created' = created /\ pending # <<>>
        /\ executed' = Append(executed, Head(pending)) /\ pending' = Tail(pending)
    BY <1>6 DEF Queue!Execute
  <2> HIDE DEF pending
  <2>2. Append(executed, Head(pending)) \o Tail(pending) = executed \o pending
    BY <1>0, <2>1, MoveHead
  <2> QED BY <1>2, <1>3, <2>1, <2>2
<1>7. CASE UNCHANGED Queue!vars
  <2>1. created' = created /\ executed' = executed /\ pending' = pending
    BY <1>7 DEF Queue!vars
  <2> HIDE DEF pending
  <2> QED BY <1>2, <1>3, <2>1
<1> QED BY <1>4, <1>5, <1>6, <1>7 DEF Queue!Next

\* Queued functors are executed in the order of the calls and at most once.
THEOREM LoopInOrder == Spec => []Queue!InOrderOnce
<1>1. Init => QueueInv
  BY ConcatEmptySeq DEF Init, QueueInv, Queue!InOrderOnce, Queue!History, Below
<1>2. CleanInv /\ [Next]_vars /\ QueueInv => QueueInv'
  BY QueueStep, QueueInvStep DEF CleanInv
<1> QED BY <1>1, <1>2, CleanInvariant, PTL DEF Spec, QueueInv
=============================================================================
