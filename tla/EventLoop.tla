----------------------------- MODULE EventLoop -----------------------------
(***************************************************************************)
(* net::reactor::EventLoop: the loop thread alternates between epoll_wait, *)
(* the channel callbacks and the functors that any thread may queue with   *)
(* queueInLoop / runInLoop.  A thread that queues a functor first appends  *)
(* it to tasks_ under mutex_ and then, after the unlock, decides whether   *)
(* to write the eventfd; the loop may do anything in between.              *)
(*                                                                         *)
(* Every epoll registration is edge triggered (Poller::update adds         *)
(* EPOLLET): a descriptor is reported once per arrival and only while it   *)
(* is readable.  `ready' is the level (there is something to read),        *)
(* `rdlist' is the kernel's list of descriptors to report.                 *)
(***************************************************************************)
EXTENDS Naturals, Sequences, FiniteSets

CONSTANTS
  Callers,          \* the threads other than the loop thread
  LoopThread,       \* the thread that constructed the EventLoop
  Channels,         \* the I/O channels
  Event,            \* eventChannel_, the channel of the eventfd
  MaxTasks,         \* bound: functors handed over in all
  InitialEvents     \* size of Poller::events_ at construction (16)

ASSUME LoopConstants ==
  /\ LoopThread \notin Callers
  /\ Event \notin Channels
  /\ MaxTasks \in Nat
  /\ InitialEvents \in Nat \ {0}
ASSUME FiniteChannels == IsFiniteSet(Channels)

Threads == Callers \cup {LoopThread}
Tasks == 1..MaxTasks

VARIABLES
  tasks_,                   \* functors queued, guarded by mutex_
  callingPendingFunctors_,
  quit_,
  activeChannels_,          \* reported by poll, callback not yet called
  eventsSize,               \* Poller::events_.size()
  ready,                    \* channels with something to read (kernel)
  rdlist,                   \* channels epoll has still to report (kernel)
  loopPc,                   \* where the loop thread is
  batch,                    \* local `tasks' of doPendingFunctors, not started
  pushed,                   \* threads between the unlock and the wakeup test
  created,                  \* history: functors handed over
  executed,                 \* history: functors taken from a batch, in order
  inlined,                  \* history: functors runInLoop called on the spot
  preLoop                   \* history: queued by the owner before loop()

kernel == <<ready, rdlist>>
history == <<created, executed, inlined, preLoop>>
vars == <<tasks_, callingPendingFunctors_, quit_, activeChannels_, eventsSize,
          kernel, loopPc, batch, pushed, history>>

LoopPcs == {"setup", "check", "polling", "dispatch", "handler",
            "swap", "run", "functor", "exited"}

Init ==
  /\ tasks_ = <<>>
  /\ callingPendingFunctors_ = FALSE
  /\ quit_ = FALSE
  /\ activeChannels_ = {}
  /\ eventsSize = InitialEvents
  /\ ready = {}
  /\ rdlist = {}
  /\ loopPc = "setup"
  /\ batch = <<>>
  /\ pushed = {}
  /\ created = 0
  /\ executed = <<>>
  /\ inlined = {}
  /\ preLoop = {}

-----------------------------------------------------------------------------
(* The threads' side.                                                      *)

isInLoopThread(t) == t = LoopThread

\* User code runs on t: always for a foreign thread; on the loop thread
\* before loop(), after it, and inside a channel callback or a functor.
\* A thread that is inside queueInLoop is busy.
CanCall(t) ==
  /\ t \notin pushed
  /\ isInLoopThread(t) => loopPc \in {"setup", "handler", "functor", "exited"}

\* tasks_ as a stack.
MutantQueued(q, f) == <<f>> \o q

\* tasks_.push_back(cb)
Queued(q, f) == Append(q, f)

\* queueInLoop up to the unlock.
Push(t) ==
  /\ CanCall(t)
  /\ created < MaxTasks
  /\ created' = created + 1
  /\ tasks_' = Queued(tasks_, created + 1)
  /\ pushed' = pushed \cup {t}
  /\ preLoop' = IF isInLoopThread(t) /\ loopPc = "setup"
                THEN preLoop \cup {created + 1} ELSE preLoop
  /\ UNCHANGED <<callingPendingFunctors_, quit_, activeChannels_, eventsSize,
                 kernel, loopPc, batch, executed, inlined>>

\* The loop thread need not be woken from a functor: it is awake.
MutantNeedsWakeup(t) == ~isInLoopThread(t)

\* The test of queueInLoop after the unlock.
NeedsWakeup(t) == ~isInLoopThread(t) \/ callingPendingFunctors_

\* wakeup() adds to the eventfd, which makes it readable and puts it on the
\* epoll ready list.
wakeup ==
  /\ ready' = ready \cup {Event}
  /\ rdlist' = rdlist \cup {Event}

\* The rest of queueInLoop.
Wakeup(t) ==
  /\ t \in pushed
  /\ pushed' = pushed \ {t}
  /\ IF NeedsWakeup(t) THEN wakeup ELSE UNCHANGED kernel
  /\ UNCHANGED <<tasks_, callingPendingFunctors_, quit_, activeChannels_,
                 eventsSize, loopPc, batch, history>>

queueInLoop(t) == Push(t)

\* runInLoop on the loop thread calls the functor at once; on any other
\* thread it is queueInLoop.
runInLoop(t) ==
  \/ /\ isInLoopThread(t)
     /\ CanCall(t)
     /\ created < MaxTasks
     /\ created' = created + 1
     /\ inlined' = inlined \cup {created + 1}
     /\ UNCHANGED <<tasks_, callingPendingFunctors_, quit_, activeChannels_,
                    eventsSize, kernel, loopPc, batch, pushed, executed,
                    preLoop>>
  \/ ~isInLoopThread(t) /\ queueInLoop(t)

\* quit() stores the flag and does not wake the loop.
quit(t) ==
  /\ CanCall(t)
  /\ ~quit_
  /\ quit_' = TRUE
  /\ UNCHANGED <<tasks_, callingPendingFunctors_, activeChannels_, eventsSize,
                 kernel, loopPc, batch, pushed, history>>

-----------------------------------------------------------------------------
(* The kernel's side.                                                      *)

\* Something arrives on an I/O channel: level and edge.
Arrive(c) ==
  /\ c \notin ready \/ c \notin rdlist
  /\ ready' = ready \cup {c}
  /\ rdlist' = rdlist \cup {c}
  /\ UNCHANGED <<tasks_, callingPendingFunctors_, quit_, activeChannels_,
                 eventsSize, loopPc, batch, pushed, history>>

-----------------------------------------------------------------------------
(* The loop thread: loop(), Poller::poll, doPendingFunctors.               *)

\* The owner calls loop().
StartLoop ==
  /\ loopPc = "setup"
  /\ LoopThread \notin pushed
  /\ loopPc' = "check"
  /\ UNCHANGED <<tasks_, callingPendingFunctors_, quit_, activeChannels_,
                 eventsSize, kernel, batch, pushed, history>>

\* while (true)
MutantContinues == TRUE

\* while (!quit_)
Continues == ~quit_

CheckQuit ==
  /\ loopPc = "check"
  /\ loopPc' = IF Continues THEN "polling" ELSE "exited"
  /\ UNCHANGED <<tasks_, callingPendingFunctors_, quit_, activeChannels_,
                 eventsSize, kernel, batch, pushed, history>>

\* What epoll_wait may report: at most events_.size() of the listed channels
\* that are still readable.
Reports ==
  LET candidates == rdlist \cap ready
  IN  {S \in SUBSET candidates :
         S # {} /\ (Cardinality(S) = eventsSize
                    \/ (S = candidates /\ Cardinality(S) < eventsSize))}

\* events_ doubles when a report filled it.
Resized(n) == IF n = eventsSize THEN 2 * eventsSize ELSE eventsSize

\* What epoll keeps for the next call.  A listed channel that is no longer
\* readable is dropped without a report.
Unreported(S) == (rdlist \cap ready) \ S

\* poll() returns with events.
Poll ==
  /\ loopPc = "polling"
  /\ \E S \in Reports :
       /\ activeChannels_' = S
       /\ rdlist' = Unreported(S)
       /\ eventsSize' = Resized(Cardinality(S))
  /\ loopPc' = "dispatch"
  /\ UNCHANGED <<tasks_, callingPendingFunctors_, quit_, ready, batch, pushed,
                 history>>

\* poll() returns with none: its 2000 ms passed, or a signal interrupted it.
PollTimeout ==
  /\ loopPc = "polling"
  /\ loopPc' = "dispatch"
  /\ UNCHANGED <<tasks_, callingPendingFunctors_, quit_, activeChannels_,
                 eventsSize, kernel, batch, pushed, history>>

\* channel->handleEvents(): a channel's callback reads until there is
\* nothing left and then runs user code; the eventfd's callback is
\* EventLoop::handleRead, which resets the counter and returns.
HandleEvents(c) ==
  /\ loopPc = "dispatch"
  /\ c \in activeChannels_
  /\ activeChannels_' = activeChannels_ \ {c}
  /\ ready' = ready \ {c}
  /\ loopPc' = IF c = Event THEN "dispatch" ELSE "handler"
  /\ UNCHANGED <<tasks_, callingPendingFunctors_, quit_, eventsSize, rdlist,
                 batch, pushed, history>>

\* A callback or a functor returns to the loop.
Return ==
  /\ loopPc \in {"handler", "functor"}
  /\ LoopThread \notin pushed
  /\ loopPc' = IF loopPc = "handler" THEN "dispatch" ELSE "run"
  /\ UNCHANGED <<tasks_, callingPendingFunctors_, quit_, activeChannels_,
                 eventsSize, kernel, batch, pushed, history>>

\* All callbacks called: doPendingFunctors begins.
BeginPending ==
  /\ loopPc = "dispatch"
  /\ activeChannels_ = {}
  /\ callingPendingFunctors_' = TRUE
  /\ loopPc' = "swap"
  /\ UNCHANGED <<tasks_, quit_, activeChannels_, eventsSize, kernel, batch,
                 pushed, history>>

\* The queue is cleared before the swap.
MutantTaken == <<>>

\* What doPendingFunctors swaps into its local vector.
Taken == tasks_

\* tasks.swap(tasks_) under mutex_.
Swap ==
  /\ loopPc = "swap"
  /\ batch' = Taken
  /\ tasks_' = <<>>
  /\ loopPc' = "run"
  /\ UNCHANGED <<callingPendingFunctors_, quit_, activeChannels_, eventsSize,
                 kernel, pushed, history>>

\* task()
RunTask ==
  /\ loopPc = "run"
  /\ batch # <<>>
  /\ executed' = Append(executed, Head(batch))
  /\ batch' = Tail(batch)
  /\ loopPc' = "functor"
  /\ UNCHANGED <<tasks_, callingPendingFunctors_, quit_, activeChannels_,
                 eventsSize, kernel, pushed, created, inlined, preLoop>>

EndPending ==
  /\ loopPc = "run"
  /\ batch = <<>>
  /\ callingPendingFunctors_' = FALSE
  /\ loopPc' = "check"
  /\ UNCHANGED <<tasks_, quit_, activeChannels_, eventsSize, kernel, batch,
                 pushed, history>>

-----------------------------------------------------------------------------
doPendingFunctors == BeginPending \/ Swap \/ RunTask \/ EndPending

\* What the loop thread does by itself, woken by an event and not by the
\* 2000 ms limit of epoll_wait.
LoopStep ==
  \/ StartLoop
  \/ CheckQuit
  \/ Poll
  \/ \E c \in Channels \cup {Event} : HandleEvents(c)
  \/ Return
  \/ doPendingFunctors

Next ==
  \/ LoopStep
  \/ PollTimeout
  \/ \E t \in Threads : queueInLoop(t) \/ Wakeup(t) \/ runInLoop(t) \/ quit(t)
  \/ \E c \in Channels : Arrive(c)

Spec == Init /\ [][Next]_vars

(***************************************************************************)
(* Fairness.  The operating system schedules every thread that can run;    *)
(* callbacks and functors return (the loop makes no progress otherwise).   *)
(* A thread inside queueInLoop goes on to the wakeup.  PromptSpec gives    *)
(* epoll_wait no time limit, so that nothing is delivered thanks to it;    *)
(* the properties that rest on the limit the code passes, 2000 ms, say so  *)
(* with WF_vars(PollTimeout).                                              *)
(***************************************************************************)
Fairness ==
  /\ WF_vars(LoopStep)
  /\ \A t \in Threads : WF_vars(Wakeup(t))

PromptSpec == Spec /\ Fairness

-----------------------------------------------------------------------------
Elements(s) == {s[i] : i \in DOMAIN s}

\* Types: every functor in tasks_ or in a batch is one that was handed over,
\* activeChannels_ holds channels of this loop only.
TypeOK ==
  /\ tasks_ \in Seq(Tasks)
  /\ callingPendingFunctors_ \in BOOLEAN
  /\ quit_ \in BOOLEAN
  /\ activeChannels_ \subseteq Channels \cup {Event}
  /\ eventsSize \in Nat \ {0}
  /\ ready \subseteq Channels \cup {Event}
  /\ rdlist \subseteq Channels \cup {Event}
  /\ loopPc \in LoopPcs
  /\ batch \in Seq(Tasks)
  /\ pushed \subseteq Threads
  /\ created \in 0..MaxTasks
  /\ executed \in Seq(Tasks)
  /\ inlined \subseteq Tasks
  /\ preLoop \subseteq Tasks

\* The loop will be woken: the eventfd is readable and due to be reported,
\* or a thread is about to write it.
WakePending ==
  \/ Event \in ready \cap rdlist
  \/ \E t \in pushed : NeedsWakeup(t)

\* No lost wakeup: while the loop is in epoll_wait with functors in tasks_
\* that were queued since loop() could be running, its wakeup is on the way.
\* (queueInLoop writes the eventfd after the unlock, handleRead resets it
\* before doPendingFunctors takes the queue.)
NoLostWakeup ==
  loopPc = "polling" /\ ~(Elements(tasks_) \subseteq preLoop) => WakePending

\* The comment on queueInLoop, "put the callback in the task queue and wake
\* the loop thread" (EventLoop.cc:101), for every functor: epoll_wait is
\* never entered with a functor queued and no wakeup on the way.
QueueWakesLoop ==
  loopPc = "polling" /\ tasks_ # <<>> => WakePending

\* Between iterations nothing is left of the last one: poll is entered with
\* an empty activeChannels_ (a channel destroyed by a functor is not called)
\* and with no functor of an earlier batch unexecuted, and the flag that
\* forces a wakeup is set exactly while a batch is taken and executed.
IterationClean ==
  /\ loopPc \notin {"dispatch", "handler"} => activeChannels_ = {}
  /\ loopPc \notin {"run", "functor"} => batch = <<>>
  /\ callingPendingFunctors_ <=> loopPc \in {"swap", "run", "functor"}

\* The loop implements the abstract queue: in order, at most once.
Queue == INSTANCE TaskQueue WITH pending <- batch \o tasks_
QueueSpec == Queue!Spec

\* Every queued functor is executed unless the loop is left first: one queued
\* while the loop may be running without the help of the 2000 ms limit, one
\* that the owner queued before loop(), which wakes nobody, thanks to it.
TaskRuns ==
  /\ \A i \in Tasks :
       i \in Elements(tasks_) \ preLoop
         ~> i \in Elements(executed) \/ loopPc = "exited"
  /\ WF_vars(PollTimeout) =>
       \A i \in Tasks :
         i \in Elements(tasks_) ~> i \in Elements(executed) \/ loopPc = "exited"

\* quit() is obeyed: loop() returns, although quit() wakes nobody, thanks to
\* the limit.
QuitLeavesLoop ==
  WF_vars(PollTimeout) => (quit_ ~> loopPc = "exited")
=============================================================================
