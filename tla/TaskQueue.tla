----------------------------- MODULE TaskQueue -----------------------------
(***************************************************************************)
(* What EventLoop::queueInLoop and EventLoop::runInLoop promise to their   *)
(* callers, with no threads, no mutex, no eventfd and no batches in it:    *)
(* a functor handed over is kept, is executed at most once, and functors   *)
(* that were queued are executed in the order in which they were queued.   *)
(* A functor that runInLoop executes on the spot overtakes the queue.      *)
(*                                                                         *)
(* Functors are numbered in the order in which they are handed over.       *)
(***************************************************************************)
EXTENDS Naturals, Sequences

CONSTANT MaxTasks        \* bound: how many functors are handed over in all

VARIABLES
  created,               \* number of functors handed over so far
  pending,               \* the queued functors that have not started
  executed,              \* the queued functors that have started, in order
  inlined                \* the functors runInLoop executed on the spot

vars == <<created, pending, executed, inlined>>

Init ==
  /\ created = 0
  /\ pending = <<>>
  /\ executed = <<>>
  /\ inlined = {}

\* queueInLoop, or runInLoop off the loop thread.
Queue ==
  /\ created < MaxTasks
  /\ created' = created + 1
  /\ pending' = Append(pending, created + 1)
  /\ UNCHANGED <<executed, inlined>>

\* runInLoop on the loop thread.
Inline ==
  /\ created < MaxTasks
  /\ created' = created + 1
  /\ inlined' = inlined \cup {created + 1}
  /\ UNCHANGED <<pending, executed>>

\* The loop starts the functor that has waited longest.
Execute ==
  /\ pending # <<>>
  /\ executed' = Append(executed, Head(pending))
  /\ pending' = Tail(pending)
  /\ UNCHANGED <<created, inlined>>

Next == Queue \/ Inline \/ Execute

Spec == Init /\ [][Next]_vars

-----------------------------------------------------------------------------
History == executed \o pending

\* In submission order and at most once: reading what was executed and then
\* what is still queued, the submission numbers strictly increase.
InOrderOnce ==
  \A i, j \in DOMAIN History : i < j => History[i] < History[j]
=============================================================================
