----------------------------- MODULE ThreadPool -----------------------------
(***************************************************************************)
(* base::ThreadPool: workers sleep on cv_ until there is a task or the     *)
(* pool stops; submit() adds a task under mutex_ and notifies one worker   *)
(* after the unlock; the destructor stores stop_ without mutex_, notifies  *)
(* all workers and joins them.                                             *)
(*                                                                         *)
(* cv_.wait(lock, pred) is the loop "while (!pred()) wait": the test, the  *)
(* atomic release-and-sleep and the re-acquisition are steps of their own, *)
(* and a sleeper may wake without a notification.  Tasks are numbered in   *)
(* the order in which submit() queued them.                                *)
(***************************************************************************)
EXTENDS Naturals, Sequences, FiniteSets

CONSTANTS
  Workers,          \* the pool's threads
  Submitters,       \* the other threads that call submit()
  Nobody,           \* mutex_ is free
  MaxTasks          \* bound: tasks accepted by submit()

ASSUME PoolConstants ==
  /\ Workers \cap Submitters = {}
  /\ Nobody \notin Workers
  /\ MaxTasks \in Nat
ASSUME FiniteWorkers == IsFiniteSet(Workers) /\ IsFiniteSet(Submitters)

Threads == Workers \cup Submitters

VARIABLES
  tasks_,           \* guarded by mutex_
  stop_,
  mutex_,           \* the worker that holds it, or Nobody
  wpc,              \* where each worker is
  notifying,        \* threads in submit() between the unlock and notify_one
  rejected,         \* threads whose submit() threw
  dtor,             \* where the destructor is
  submitted,        \* history: number of tasks accepted
  started           \* history: tasks handed to a worker, in order

poolVars == <<tasks_, stop_, mutex_, wpc, notifying, rejected, dtor, submitted,
          started>>

WorkerPcs == {"lock", "test", "sleep", "waiting", "stop?", "pop", "run", "exit"}

PoolInit ==
  /\ tasks_ = <<>>
  /\ stop_ = FALSE
  /\ mutex_ = Nobody
  /\ wpc = [w \in Workers |-> "lock"]
  /\ notifying = {}
  /\ rejected = {}
  /\ dtor = "alive"
  /\ submitted = 0
  /\ started = <<>>

Goto(w, pc) == wpc' = [wpc EXCEPT ![w] = pc]

-----------------------------------------------------------------------------
(* A worker.                                                               *)

\* unique_lock lock(mutex_), or the re-acquisition when wait() returns.
Lock(w) ==
  /\ wpc[w] = "lock"
  /\ mutex_ = Nobody
  /\ mutex_' = w
  /\ Goto(w, "test")
  /\ UNCHANGED <<tasks_, stop_, notifying, rejected, dtor, submitted, started>>

\* wait() is left on any wakeup.
MutantShouldWake == TRUE

\* Workers wake only to stop.
MutantShouldWakeToStop == stop_

\* The predicate of cv_.wait.
ShouldWake == stop_ \/ tasks_ # <<>>

Test(w) ==
  /\ wpc[w] = "test"
  /\ Goto(w, IF ShouldWake THEN "stop?" ELSE "sleep")
  /\ UNCHANGED <<tasks_, stop_, mutex_, notifying, rejected, dtor, submitted,
                 started>>

\* The predicate was false: wait() gives up mutex_ and sleeps in one step.
Sleep(w) ==
  /\ wpc[w] = "sleep"
  /\ mutex_' = Nobody
  /\ Goto(w, "waiting")
  /\ UNCHANGED <<tasks_, stop_, notifying, rejected, dtor, submitted, started>>

\* wait() may return without a notification.
SpuriousWakeup(w) ==
  /\ wpc[w] = "waiting"
  /\ Goto(w, "lock")
  /\ UNCHANGED <<tasks_, stop_, mutex_, notifying, rejected, dtor, submitted,
                 started>>

\* if (stop_) return;
TestStop(w) ==
  /\ wpc[w] = "stop?"
  /\ Goto(w, IF stop_ THEN "exit" ELSE "pop")
  /\ mutex_' = IF stop_ THEN Nobody ELSE mutex_
  /\ UNCHANGED <<tasks_, stop_, notifying, rejected, dtor, submitted, started>>

\* The front is copied and left in the queue.
MutantPopped == tasks_

\* tasks_.pop()
Popped == Tail(tasks_)

\* front(), pop(), unlock.
Pop(w) ==
  /\ wpc[w] = "pop"
  /\ started' = Append(started, Head(tasks_))
  /\ tasks_' = Popped
  /\ mutex_' = Nobody
  /\ Goto(w, "run")
  /\ UNCHANGED <<stop_, notifying, rejected, dtor, submitted>>

\* task() returns.
Finish(w) ==
  /\ wpc[w] = "run"
  /\ w \notin notifying
  /\ Goto(w, "lock")
  /\ UNCHANGED <<tasks_, stop_, mutex_, notifying, rejected, dtor, submitted,
                 started>>

-----------------------------------------------------------------------------
(* submit(), by a thread outside the pool or by a task.                    *)

CanSubmit(t) ==
  /\ t \notin notifying \cup rejected
  /\ t \in Workers => wpc[t] = "run"
  /\ mutex_ = Nobody

Submit(t) ==
  /\ CanSubmit(t)
  /\ ~stop_
  /\ submitted < MaxTasks
  /\ submitted' = submitted + 1
  /\ tasks_' = Append(tasks_, submitted + 1)
  /\ notifying' = notifying \cup {t}
  /\ UNCHANGED <<stop_, mutex_, wpc, rejected, dtor, started>>

\* A stopped pool takes no task: submit() throws.
SubmitThrows(t) ==
  /\ CanSubmit(t)
  /\ stop_
  /\ rejected' = rejected \cup {t}
  /\ UNCHANGED <<tasks_, stop_, mutex_, wpc, notifying, dtor, submitted,
                 started>>

Asleep == {w \in Workers : wpc[w] = "waiting"}

\* submit() notifies only when the queue was empty.
MutantWakeable == IF Len(tasks_) = 1 THEN Asleep ELSE {}

\* The threads notify_one chooses from.
Wakeable == Asleep

\* cv_.notify_one(), after the unlock: wakes one sleeper if there is one.
NotifyOne(t) ==
  /\ t \in notifying
  /\ notifying' = notifying \ {t}
  /\ \/ Wakeable = {} /\ UNCHANGED wpc
     \/ \E w \in Wakeable : Goto(w, "lock")
  /\ UNCHANGED <<tasks_, stop_, mutex_, rejected, dtor, submitted, started>>

-----------------------------------------------------------------------------
(* The destructor.                                                         *)

\* stop_ = true, without mutex_.
Stop ==
  /\ dtor = "alive"
  /\ stop_' = TRUE
  /\ dtor' = "stopping"
  /\ UNCHANGED <<tasks_, mutex_, wpc, notifying, rejected, submitted, started>>

\* cv_.notify_all()
NotifyAll ==
  /\ dtor = "stopping"
  /\ wpc' = [w \in Workers |-> IF w \in Asleep THEN "lock" ELSE wpc[w]]
  /\ dtor' = "joining"
  /\ UNCHANGED <<tasks_, stop_, mutex_, notifying, rejected, submitted, started>>

\* Every worker.join() has returned.
Join ==
  /\ dtor = "joining"
  /\ \A w \in Workers : wpc[w] = "exit"
  /\ dtor' = "joined"
  /\ UNCHANGED <<tasks_, stop_, mutex_, wpc, notifying, rejected, submitted,
                 started>>

-----------------------------------------------------------------------------
WorkerStep(w) ==
  Lock(w) \/ Test(w) \/ Sleep(w) \/ TestStop(w) \/ Pop(w) \/ Finish(w)

Destroy == Stop \/ NotifyAll \/ Join

PoolNext ==
  \/ \E w \in Workers : WorkerStep(w) \/ SpuriousWakeup(w)
  \/ \E t \in Threads : Submit(t) \/ SubmitThrows(t) \/ NotifyOne(t)
  \/ Destroy

PoolSpec == PoolInit /\ [][PoolNext]_poolVars

(***************************************************************************)
(* Fairness: a thread that can run is scheduled, tasks return, submit()    *)
(* goes on to its notification, and a destructor that has begun goes on.   *)
(* Nothing makes a sleeper wake by itself.                                 *)
(***************************************************************************)
Fairness ==
  /\ \A w \in Workers : WF_poolVars(WorkerStep(w))
  /\ \A t \in Threads : WF_poolVars(NotifyOne(t))
  /\ WF_poolVars(NotifyAll \/ Join)

FairPoolSpec == PoolSpec /\ Fairness

-----------------------------------------------------------------------------
\* Types: tasks_ and the tasks handed to workers are tasks that submit()
\* accepted; mutex_ has at most one owner, a worker.
PoolTypeOK ==
  /\ tasks_ \in Seq(1..MaxTasks)
  /\ stop_ \in BOOLEAN
  /\ mutex_ \in Workers \cup {Nobody}
  /\ wpc \in [Workers -> WorkerPcs]
  /\ notifying \subseteq Threads
  /\ rejected \subseteq Threads
  /\ dtor \in {"alive", "stopping", "joining", "joined"}
  /\ submitted \in 0..MaxTasks
  /\ started \in Seq(1..MaxTasks)

\* Every accepted task is handed to exactly one worker, in the order of the
\* submissions: what was handed out followed by what is queued is 1, 2, ...
\* up to the number of accepted tasks.
HandedOutInOrder ==
  started \o tasks_ = [i \in 1..submitted |-> i]

\* mutex_ is held exactly by the worker between lock and unlock, and a
\* worker that passed the predicate finds a task to pop.
CriticalSection ==
  /\ \A w \in Workers : wpc[w] \in {"test", "sleep", "stop?", "pop"} <=> mutex_ = w
  /\ \A w \in Workers : wpc[w] = "pop" => tasks_ # <<>>

\* No worker oversleeps: as long as the pool runs and some worker sleeps,
\* there are as many workers on their way to the queue, or notifications on
\* their way to a worker, as there are tasks queued.
OnTheirWay == {w \in Workers : wpc[w] \in {"lock", "test", "stop?", "pop"}}

NoOversleep ==
  ~stop_ /\ Asleep # {} =>
    Len(tasks_) <= Cardinality(OnTheirWay) + Cardinality(notifying)

\* An accepted task is started unless the pool is stopped first.
TaskStarts ==
  \A i \in 1..MaxTasks :
    i \in {tasks_[k] : k \in DOMAIN tasks_}
      ~> i \in {started[k] : k \in DOMAIN started} \/ stop_

\* "Notify all waiting threads to stop" (ThreadPool.h:54): the destructor
\* returns.
DestructorReturns == dtor = "stopping" ~> dtor = "joined"
=============================================================================
