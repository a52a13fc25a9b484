--------------------------- MODULE TimerScheduler ---------------------------
(***************************************************************************)
(* timer::TimerScheduler: timers_ (ordered by expiration) and its mirror   *)
(* activeTimers_ (keyed by id) live on the loop thread; addTimer and       *)
(* cancelTimer may be called by any thread and reach the loop through      *)
(* EventLoop::runInLoop, at once on the loop thread and through the        *)
(* functor queue from any other.  One timerfd is armed for the earliest    *)
(* timer.                                                                  *)
(*                                                                         *)
(* A timer object is a number 1, 2, ... in the order of construction; its  *)
(* id is what addTimer computed from nextId_.  Time is a counter.          *)
(***************************************************************************)
EXTENDS Naturals, Sequences

CONSTANTS
  Foreign,        \* threads other than the loop thread that add and cancel
  Loop,           \* the loop thread
  MaxTimers,      \* bound: timers created
  MaxTime,        \* bound: the clock stops here
  Expirations,    \* the time points runAt, runAfter and runEvery ask for
  Intervals,      \* repetition intervals, 0 for a one-shot timer
  Grace           \* the 100 ms resetTimerfd uses for a time already passed

ASSUME TimerConstants ==
  /\ Loop \notin Foreign
  /\ MaxTimers \in Nat
  /\ MaxTime \in Nat
  /\ Expirations \subseteq Nat
  /\ Intervals \subseteq Nat
  /\ Grace \in Nat \ {0}

Timers == 1..MaxTimers
Threads == Foreign \cup {Loop}
Off == 0                    \* a disarmed timerfd

VARIABLES
  now,                      \* CLOCK_MONOTONIC
  nextId_,
  created,                  \* number of timer objects constructed
  id, expiration, interval, \* the fields of each timer object
  adding,                   \* adding[a]: the timer thread a is adding, or 0
  timers_,
  activeTimers_,            \* the timers in the map, found by id
  cancelingTimers_,         \* ids
  callingExpiredTimers_,
  deadline,                 \* when the timerfd fires, or Off
  readable,                 \* the timerfd has fired and was not read
  reported,                 \* epoll reported it, handleRead is still to come
  pc,                       \* where the loop thread is in handleRead
  hnow, batch, due,         \* handleRead's now, its timers, those not yet run
  functors,                 \* queued calls <<"add", t>> and <<"cancel", t>>
  added,                    \* history: timers addTimerInLoop has seen
  cancelled                 \* history: timers whose cancellation must hold

objects == <<created, id, expiration, interval>>
timerfd == <<deadline, readable>>
maps == <<timers_, activeTimers_>>
handling == <<pc, hnow, batch, due, callingExpiredTimers_>>
vars == <<now, nextId_, objects, adding, maps, cancelingTimers_, handling,
          timerfd, reported, functors, added, cancelled>>

Init ==
  /\ now = 0
  /\ nextId_ = 0
  /\ created = 0
  /\ id = [t \in Timers |-> 0]
  /\ expiration = [t \in Timers |-> 0]
  /\ interval = [t \in Timers |-> 0]
  /\ adding = [a \in Threads |-> 0]
  /\ timers_ = {}
  /\ activeTimers_ = {}
  /\ cancelingTimers_ = {}
  /\ callingExpiredTimers_ = FALSE
  /\ deadline = Off
  /\ readable = FALSE
  /\ reported = FALSE
  /\ pc = "idle"
  /\ hnow = 0
  /\ batch = {}
  /\ due = {}
  /\ functors = <<>>
  /\ added = {}
  /\ cancelled = {}

-----------------------------------------------------------------------------
(* Operations on the loop thread, as relations between the states before   *)
(* and after.                                                              *)

\* What resetTimerfd arms: a time that has passed becomes Grace from now.
Armed(e) == IF e <= now THEN now + Grace ELSE e

\* timerfd_settime replaces the deadline and clears an unread expiration.
resetTimerfd(e) == deadline' = Armed(e) /\ readable' = FALSE

\* The timerfd is armed once, when the first timer arrives.
MutantEarliestChanged(e) == timers_ = {}

\* addTimerInLoop re-arms for a timer that is not later than the others.
EarliestChanged(e) == \A t \in timers_ : e <= expiration[t]

\* addTimerInLoop for timer t expiring at e.
addTimerInLoop(t, e) ==
  /\ timers_' = timers_ \cup {t}
  /\ activeTimers_' = IF \E u \in activeTimers_ : id[u] = id[t]
                      THEN activeTimers_ ELSE activeTimers_ \cup {t}
  /\ IF EarliestChanged(e) THEN resetTimerfd(e) ELSE UNCHANGED timerfd
  /\ added' = added \cup {t}

\* cancelTimerInLoop: the timer found under t's id is erased from both sets;
\* one that is not there while callbacks run is remembered for reset().
cancelTimerInLoop(t, counts) ==
  LET found == {u \in activeTimers_ : id[u] = id[t]}
  IN  /\ timers_' = timers_ \ found
      /\ activeTimers_' = activeTimers_ \ found
      /\ cancelingTimers_' = IF found = {} /\ callingExpiredTimers_
                             THEN cancelingTimers_ \cup {id[t]}
                             ELSE cancelingTimers_
      /\ cancelled' = IF counts THEN cancelled \cup {t} ELSE cancelled

\* User code runs on the loop thread: other callbacks, or a timer's own.
LoopCanCall == pc \in {"idle", "callback"} /\ adding[Loop] = 0

-----------------------------------------------------------------------------
(* addTimer and cancelTimer.                                               *)

\* addTimer constructs the timer with id nextId_.load() + 1 ...
addTimer(a, e, i) ==
  /\ created < MaxTimers
  /\ adding[a] = 0
  /\ a = Loop => LoopCanCall
  /\ LET t == created + 1
     IN  /\ created' = t
         /\ id' = [id EXCEPT ![t] = nextId_ + 1]
         /\ expiration' = [expiration EXCEPT ![t] = e]
         /\ interval' = [interval EXCEPT ![t] = i]
         /\ adding' = [adding EXCEPT ![a] = t]
  /\ UNCHANGED <<now, nextId_, maps, cancelingTimers_, handling, timerfd,
                 reported, functors, added, cancelled>>

\* ... then stores the id and hands the timer to the loop.
handOver(a) ==
  /\ adding[a] # 0
  /\ nextId_' = id[adding[a]]
  /\ adding' = [adding EXCEPT ![a] = 0]
  /\ IF a = Loop
     THEN /\ addTimerInLoop(adding[a], expiration[adding[a]])
          /\ UNCHANGED functors
     ELSE /\ functors' = Append(functors, <<"add", adding[a]>>)
          /\ UNCHANGED <<maps, timerfd, added>>
  /\ UNCHANGED <<now, objects, cancelingTimers_, handling, reported, cancelled>>

\* The caller has the TimerId once addTimer returned.
Returned(t) == t <= created /\ \A a \in Threads : adding[a] # t

\* cancelTimer on the loop thread, which may overtake the functor that adds
\* the timer: the cancellation then finds nothing.
cancelTimer(t) ==
  /\ LoopCanCall
  /\ Returned(t)
  /\ cancelTimerInLoop(t, t \in added)
  /\ UNCHANGED <<now, nextId_, objects, adding, handling, timerfd, reported,
                 functors, added>>

\* cancelTimer on another thread (bound: one such call in the queue at a
\* time for each timer).
cancelTimerForeign(t) ==
  /\ Foreign # {}
  /\ Returned(t)
  /\ \A k \in DOMAIN functors : functors[k] # <<"cancel", t>>
  /\ functors' = Append(functors, <<"cancel", t>>)
  /\ UNCHANGED <<now, nextId_, objects, adding, maps, cancelingTimers_,
                 handling, timerfd, reported, added, cancelled>>

\* doPendingFunctors, after all reported channels were handled.
RunFunctor ==
  /\ pc = "idle" /\ adding[Loop] = 0 /\ ~reported
  /\ functors # <<>>
  /\ functors' = Tail(functors)
  /\ LET op == Head(functors)[1]
         t == Head(functors)[2]
     IN  \/ /\ op = "add"
            /\ addTimerInLoop(t, expiration[t])
            /\ UNCHANGED <<cancelingTimers_, cancelled>>
         \/ /\ op = "cancel"
            /\ cancelTimerInLoop(t, TRUE)
            /\ UNCHANGED <<timerfd, added>>
  /\ UNCHANGED <<now, nextId_, objects, adding, handling, reported>>

-----------------------------------------------------------------------------
(* The clock, the timerfd and epoll.                                       *)

Tick ==
  /\ now < MaxTime
  /\ now' = now + 1
  /\ UNCHANGED <<nextId_, objects, adding, maps, cancelingTimers_, handling,
                 timerfd, reported, functors, added, cancelled>>

Fire ==
  /\ deadline # Off
  /\ deadline <= now
  /\ deadline' = Off
  /\ readable' = TRUE
  /\ UNCHANGED <<now, nextId_, objects, adding, maps, cancelingTimers_,
                 handling, reported, functors, added, cancelled>>

Report ==
  /\ pc = "idle" /\ adding[Loop] = 0
  /\ readable /\ ~reported
  /\ reported' = TRUE
  /\ UNCHANGED <<now, nextId_, objects, adding, maps, cancelingTimers_,
                 handling, timerfd, functors, added, cancelled>>

-----------------------------------------------------------------------------
(* handleRead.                                                             *)

\* Every timer of the set, whether it has expired or not.
MutantExpired == timers_

\* extractExpiredTimers: upper_bound(Entry(now, nullptr)) is the first timer
\* that expires at now or later.
Expired == {t \in timers_ : expiration[t] < now}

\* activeTimers_ keeps the expired timers.
MutantStillActive == activeTimers_

\* What extractExpiredTimers leaves in activeTimers_, from which it erases by
\* id.
StillActive == {u \in activeTimers_ : \A t \in Expired : id[t] # id[u]}

\* Read the timerfd, take the expired timers out of both sets,
\* forget earlier cancellations.
handleRead ==
  /\ pc = "idle" /\ adding[Loop] = 0
  /\ reported
  /\ reported' = FALSE
  /\ readable' = FALSE
  /\ hnow' = now
  /\ batch' = Expired
  /\ due' = Expired
  /\ timers_' = timers_ \ Expired
  /\ activeTimers_' = StillActive
  /\ callingExpiredTimers_' = TRUE
  /\ cancelingTimers_' = {}
  /\ pc' = "calling"
  /\ UNCHANGED <<now, nextId_, objects, adding, deadline, functors, added,
                 cancelled>>

\* The next callback, in the order of the expirations.
run(t) ==
  /\ pc = "calling"
  /\ t \in due
  /\ \A u \in due : expiration[t] <= expiration[u]
  /\ due' = due \ {t}
  /\ pc' = "callback"
  /\ UNCHANGED <<now, nextId_, objects, adding, maps, cancelingTimers_, hnow,
                 batch, callingExpiredTimers_, timerfd, reported, functors,
                 added, cancelled>>

CallbackReturns ==
  /\ pc = "callback" /\ adding[Loop] = 0
  /\ pc' = "calling"
  /\ UNCHANGED <<now, nextId_, objects, adding, maps, cancelingTimers_, hnow,
                 batch, due, callingExpiredTimers_, timerfd, reported,
                 functors, added, cancelled>>

CallbacksDone ==
  /\ pc = "calling"
  /\ due = {}
  /\ callingExpiredTimers_' = FALSE
  /\ pc' = "reset"
  /\ UNCHANGED <<now, nextId_, objects, adding, maps, cancelingTimers_, hnow,
                 batch, due, timerfd, reported, functors, added, cancelled>>

\* Cancellations by callbacks are not looked at.
MutantRearms(t) == interval[t] > 0

\* reset() re-arms a repeating timer unless a callback cancelled it.
Rearms(t) == interval[t] > 0 /\ id[t] \notin cancelingTimers_

resetOne(t) ==
  /\ pc = "reset"
  /\ t \in batch
  /\ batch' = batch \ {t}
  /\ IF Rearms(t)
     THEN /\ expiration' = [expiration EXCEPT ![t] = hnow + interval[t]]
          /\ addTimerInLoop(t, hnow + interval[t])
     ELSE UNCHANGED <<expiration, maps, timerfd, added>>
  /\ UNCHANGED <<now, nextId_, created, id, interval, adding,
                 cancelingTimers_, pc, hnow, due, callingExpiredTimers_,
                 reported, functors, cancelled>>

\* The end of reset(): arm the timerfd for the earliest timer left.
Earliest == CHOOSE e \in {expiration[t] : t \in timers_} :
              \A t \in timers_ : e <= expiration[t]

resetDone ==
  /\ pc = "reset"
  /\ batch = {}
  /\ IF timers_ # {} THEN resetTimerfd(Earliest) ELSE UNCHANGED timerfd
  /\ pc' = "idle"
  /\ UNCHANGED <<now, nextId_, objects, adding, maps, cancelingTimers_, hnow,
                 batch, due, callingExpiredTimers_, reported, functors,
                 added, cancelled>>

-----------------------------------------------------------------------------
Next ==
  \/ \E a \in Threads, e \in Expirations, i \in Intervals : addTimer(a, e, i)
  \/ \E a \in Threads : handOver(a)
  \/ \E t \in Timers : cancelTimer(t) \/ cancelTimerForeign(t)
  \/ RunFunctor
  \/ Tick \/ Fire \/ Report
  \/ handleRead
  \/ \E t \in Timers : run(t) \/ resetOne(t)
  \/ CallbackReturns \/ CallbacksDone \/ resetDone

Spec == Init /\ [][Next]_vars

-----------------------------------------------------------------------------
\* Types: both sets and the batch hold timers that exist, no time is negative
\* (resetTimerfd clamps a time that has passed).
TypeOK ==
  /\ now \in Nat
  /\ nextId_ \in Nat
  /\ created \in 0..MaxTimers
  /\ id \in [Timers -> Nat]
  /\ expiration \in [Timers -> Nat]
  /\ interval \in [Timers -> Nat]
  /\ adding \in [Threads -> 0..MaxTimers]
  /\ timers_ \subseteq Timers
  /\ activeTimers_ \subseteq Timers
  /\ cancelingTimers_ \subseteq Nat
  /\ callingExpiredTimers_ \in BOOLEAN
  /\ deadline \in Nat
  /\ readable \in BOOLEAN
  /\ reported \in BOOLEAN
  /\ pc \in {"idle", "calling", "callback", "reset"}
  /\ hnow \in Nat
  /\ batch \subseteq Timers
  /\ due \subseteq Timers
  /\ functors \in Seq({"add", "cancel"} \X Timers)
  /\ added \subseteq Timers
  /\ cancelled \subseteq Timers

\* "generate a unique ID" (TimerScheduler.cc:55): no two timers share an id.
UniqueIds ==
  \A t, u \in 1..created : t # u => id[t] # id[u]

\* The two sets hold the same timers (the assertions on their sizes in
\* addTimerInLoop and extractExpiredTimers) as long as ids are unique.
SetsMirror == UniqueIds => activeTimers_ = timers_

\* A timer that is waiting is waited for: whenever the loop can go back to
\* epoll_wait with timers left, the timerfd is readable, or armed no later
\* than each of them, or armed at most Grace from now.
TimerfdCovers ==
  pc = "idle" /\ ~reported =>
    \A t \in timers_ :
      \/ readable
      \/ deadline # Off /\ (deadline <= expiration[t] \/ deadline <= now + Grace)

\* Cancelling is final: once cancelTimerInLoop has dealt with a timer, the
\* timer is never in timers_ again, not even when the cancellation came from
\* a callback of the batch the timer is in, nor when another thread cancels a
\* timer it has just added, whose two functors are queued in that order.  Left
\* out is a call on the loop thread that overtakes the functor of the adding
\* thread.
CancelIsFinal == UniqueIds => cancelled \cap timers_ = {}

\* No callback is called before the timer's expiration, repeating or not.
NeverEarly ==
  [][\A t \in Timers : run(t) => expiration[t] <= now]_vars

\* assert(it == timers_.end() || now < it->first) in extractExpiredTimers
\* (TimerScheduler.cc:161): what is left expires later than now.
LeftExpiresLater ==
  [][handleRead => \A t \in timers_' : now < expiration[t]]_vars
=============================================================================
