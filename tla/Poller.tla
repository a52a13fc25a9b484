------------------------------- MODULE Poller -------------------------------
(***************************************************************************)
(* net::reactor::Poller with the Channels of one loop: fdMap_, each        *)
(* channel's index_ and isInLoop_, the kernel's epoll set, which holds     *)
(* bare pointers to channels, and the descriptors, which are reused.       *)
(*                                                                         *)
(* Two kinds of owners have channels.  TcpConnection, Acceptor,            *)
(* TimerScheduler and EventLoop have one from the opening of a descriptor  *)
(* to its close.  A Connector has one for each attempt; its descriptor goes*)
(* to a TcpConnection, with a channel of its own, or is closed, and        *)
(* channel_ is deleted later, by a functor.                                *)
(*                                                                         *)
(* A failing assertion is noted under its descriptor and the program goes  *)
(* on, as it does where assertions are compiled out.                       *)
(***************************************************************************)
EXTENDS Naturals

CONSTANTS
  Channels,       \* channel objects, each made at most once
  Fds,            \* descriptors
  Connectors,
  NoChannel

ASSUME PollerConstants == NoChannel \notin Channels

VARIABLES
  fd_,            \* [Channels -> Fds]
  life,           \* see Lives
  reg,            \* what Poller, Channels and the kernel know of each other
  channel_,       \* of each Connector
  state_,         \* of each Connector; "gone": it was destroyed
  resets,         \* the resetChannel functors of each that are queued
  activeChannels_,
  current,        \* the channel whose handler runs
  pc,             \* "poll", "events" or "functors"
  refused,        \* history: descriptors handed over after they were closed
  torn            \* history: channels deleted while isInLoop_

connectors == <<channel_, state_, resets>>
loopState == <<activeChannels_, current, pc>>
pollerVars == <<fd_, life, reg, connectors, loopState, refused, torn>>

Events == {"R", "W"}

\* A channel of a Connector is "used" until it has left the Poller, then
\* "spent"; the others hold their descriptor in all of Holding.
Holding == {"made", "used", "removed"}
Lives == Holding \cup {"unborn", "spent", "deleted"}

\* The fields of reg: the Poller's map, the epoll set with the pointer and the
\* events of each entry, the members of the channels, the open descriptors and
\* those for which an assertion failed.
PollerInit ==
  /\ fd_ \in [Channels -> Fds]
  /\ life = [c \in Channels |-> "unborn"]
  /\ reg = [fdMap_    |-> [f \in Fds |-> NoChannel],
            ptr       |-> [f \in Fds |-> NoChannel],
            watched   |-> [f \in Fds |-> {}],
            events_   |-> [c \in Channels |-> {}],
            index_    |-> [c \in Channels |-> "kNew"],
            isInLoop_ |-> [c \in Channels |-> FALSE],
            open      |-> {},
            failed    |-> {}]
  /\ channel_ = [k \in Connectors |-> NoChannel]
  /\ state_ = [k \in Connectors |-> "kDisconnected"]
  /\ resets = [k \in Connectors |-> 0]
  /\ activeChannels_ = {}
  /\ current = NoChannel
  /\ pc = "functors"
  /\ refused = {} /\ torn = {}

-----------------------------------------------------------------------------
(* The operations, on r, a value of reg.                                   *)

\* An assertion about descriptor f.
Asserted(r, f, ok) == IF ok THEN r.failed ELSE r.failed \cup {f}

\* Poller::update, epoll_ctl: EBADF, EEXIST and ENOENT are only logged.
Ctl(r, op, c, ev) ==
  LET f == fd_[c]
      works == f \in r.open /\ ((op = "ADD") <=> (r.ptr[f] = NoChannel))
      gone == op = "DEL"
  IN  IF works
      THEN [r EXCEPT !.ptr[f] = IF gone THEN NoChannel ELSE c,
                     !.watched[f] = IF gone THEN {} ELSE ev]
      ELSE r

\* A channel that is back from kDeleted is only modified.
MutantAdds(index) == index = "kNew"

Adds(index) == index \in {"kNew", "kDeleted"}

\* Channel::enableRead and the like, with Poller::updateChannel.
Updated(r, c, ev) ==
  LET index == r.index_[c]
      f == fd_[c]
      ok == r.fdMap_[f] = IF index = "kNew" THEN NoChannel ELSE c
      op == IF Adds(index) THEN "ADD" ELSE IF ev = {} THEN "DEL" ELSE "MOD"
  IN  [Ctl(r, op, c, ev) EXCEPT
         !.fdMap_[f] = c,
         !.events_[c] = ev,
         !.index_[c] = IF op = "DEL" THEN "kDeleted" ELSE "kAdded",
         !.isInLoop_[c] = TRUE,
         !.failed = Asserted(r, f, ok)]

\* A registered descriptor is taken out of epoll.
Leaves(r, c) == IF r.index_[c] = "kAdded" THEN Ctl(r, "DEL", c, {}) ELSE r

\* The channel remembers that it was registered.
MutantIndexAfter(index) == index

IndexAfter(index) == "kNew"

\* Channel::remove with Poller::removeChannel.
Removed(r, c) ==
  LET f == fd_[c]
      ok == r.fdMap_[f] = c /\ r.events_[c] = {} /\ r.index_[c] # "kNew"
  IN  [Leaves(r, c) EXCEPT
         !.fdMap_[f] = NoChannel,
         !.index_[c] = IndexAfter(@),
         !.isInLoop_[c] = FALSE,
         !.failed = Asserted(r, f, ok)]

\* disableAll() and remove(), as connectionDestroyed, getSocket and the
\* destructors do.
Retired(r, c) == Removed(Updated(r, c, {}), c)

\* A descriptor is opened; it is closed, and the kernel drops its entry.
Opened(r, f) == [r EXCEPT !.open = @ \cup {f}]
Closed(r, f) == [r EXCEPT !.open = @ \ {f}, !.ptr[f] = NoChannel, !.watched[f] = {}]

\* ~Channel.
Deleted(r, c) == [r EXCEPT !.failed = Asserted(r, fd_[c], ~r.isInLoop_[c])]

-----------------------------------------------------------------------------
(* The owners other than Connectors.                                       *)

\* No Connector has it.
Plain(c) == \A k \in Connectors : channel_[k] # c

\* A new channel for a descriptor just opened.
Construct(c) ==
  /\ life[c] = "unborn" /\ fd_[c] \notin reg.open
  /\ reg' = Opened(reg, fd_[c])
  /\ life' = [life EXCEPT ![c] = "made"]
  /\ UNCHANGED <<fd_, connectors, loopState, refused, torn>>

\* enableRead, disableRead, enableWrite, disableWrite, from a handler or a
\* functor: of a connection that was destroyed too.
Change(c) ==
  /\ pc # "poll"
  /\ life[c] \in Holding /\ Plain(c)
  /\ \E ev \in Events :
       \/ reg' = Updated(reg, c, reg.events_[c] \cup {ev})
       \/ life[c] = "used" /\ reg' = Updated(reg, c, reg.events_[c] \ {ev})
  /\ life' = [life EXCEPT ![c] = "used"]
  /\ UNCHANGED <<fd_, connectors, loopState, refused, torn>>

\* connectionDestroyed, which a reset connection runs twice, and the like.
Retire(c) ==
  /\ pc = "functors"
  /\ life[c] \in Holding /\ Plain(c)
  /\ reg' = Retired(reg, c)
  /\ life' = [life EXCEPT ![c] = "removed"]
  /\ UNCHANGED <<fd_, connectors, loopState, refused, torn>>

\* The owner goes, and channel and descriptor with it: removed before, or not,
\* as when ~TcpClient lets go of an open connection.
Destruct(c) ==
  /\ life[c] \in Holding /\ Plain(c)
  /\ reg' = Closed(Deleted(reg, c), fd_[c])
  /\ life' = [life EXCEPT ![c] = "deleted"]
  /\ torn' = IF reg.isInLoop_[c] THEN torn \cup {c} ELSE torn
  /\ UNCHANGED <<fd_, connectors, loopState, refused>>

-----------------------------------------------------------------------------
(* Connectors.                                                             *)

\* channel_ is deleted, whatever it is, r being what is left of reg.
Replaced(k, r) ==
  LET d == channel_[k] IN IF d = NoChannel THEN r ELSE Deleted(r, d)
TornWith(k) ==
  LET d == channel_[k]
  IN  IF d # NoChannel /\ reg.isInLoop_[d] THEN torn \cup {d} ELSE torn
LifeWithout(k) ==
  [c \in Channels |-> IF c = channel_[k] THEN "deleted" ELSE life[c]]

\* connect() and connecting(), startInLoop's assertion being TcpClient's.
connecting(k, c) ==
  /\ pc # "poll" /\ state_[k] = "kDisconnected"
  /\ life[c] = "unborn" /\ fd_[c] \notin reg.open
  /\ state_' = [state_ EXCEPT ![k] = "kConnecting"]
  /\ channel_' = [channel_ EXCEPT ![k] = c]
  /\ reg' = Updated(Replaced(k, Opened(reg, fd_[c])), c, {"W"})
  /\ life' = [LifeWithout(k) EXCEPT ![c] = "used"]
  /\ torn' = TornWith(k)
  /\ UNCHANGED <<fd_, resets, loopState, refused>>

\* An attempt ends: n times getSocket, each with its resetChannel functor, and
\* channel_ is spent.
EndAttempt(k, n, after, lives) ==
  /\ state_[k] = "kConnecting" /\ channel_[k] # NoChannel
  /\ state_' = [state_ EXCEPT ![k] = after]
  /\ life' = [lives EXCEPT ![channel_[k]] = "spent"]
  /\ resets' = [resets EXCEPT ![k] = @ + n]
  /\ UNCHANGED <<fd_, channel_, loopState, torn>>

stopInLoop(k) ==
  LET d == channel_[k] IN
  /\ pc = "functors"
  /\ EndAttempt(k, 1, "kDisconnected", life)
  /\ reg' = Closed(Retired(reg, d), fd_[d])
  /\ UNCHANGED refused

\* An event of channel_, and c becomes the channel of the new connection.
Reported(k, c) ==
  /\ pc = "events" /\ current = channel_[k] /\ channel_[k] # NoChannel
  /\ life[c] = "unborn" /\ fd_[c] = fd_[channel_[k]]

\* handleWrite, onNewConnection and connectionEstablished.
handleWrite(k, c) ==
  /\ Reported(k, c)
  /\ EndAttempt(k, 1, "kConnected", [life EXCEPT ![c] = "used"])
  /\ reg' = Updated(Retired(reg, channel_[k]), c, {"R"})
  /\ UNCHANGED refused

\* handleError and handleWrite in one event: the descriptor is closed before
\* it is handed over, and the new channel's ADD fails.
handleErrorAndWrite(k, c) ==
  LET d == channel_[k]
      r == Closed(Retired(reg, d), fd_[d])
  IN  /\ Reported(k, c)
      /\ EndAttempt(k, 2, "kConnected", [life EXCEPT ![c] = "used"])
      /\ reg' = Updated(Retired(r, d), c, {"R"})
      /\ refused' = refused \cup {fd_[d]}

\* getSocket deletes the channel at once.
MutantMayDelete == pc # "poll"

\* Deletion is left to a functor: a handler of the channel may be running.
MayDelete == pc = "functors"

\* channel_ goes: reg, torn and the channel's life after it.
Reset(k) ==
  /\ reg' = Replaced(k, reg)
  /\ life' = LifeWithout(k)
  /\ torn' = TornWith(k)
  /\ channel_' = [channel_ EXCEPT ![k] = NoChannel]

\* By the time it runs, channel_ may be the channel of the next attempt.
resetChannel(k) ==
  /\ MayDelete /\ resets[k] > 0
  /\ Reset(k)
  /\ resets' = [resets EXCEPT ![k] = @ - 1]
  /\ UNCHANGED <<fd_, state_, loopState, refused>>

\* ~Connector, on any thread, but not while its channel's handlers run: they
\* hold it, being tied.  Its functors must not run any more.
DestroyConnector(k) ==
  /\ state_[k] # "gone"
  /\ channel_[k] = NoChannel \/ current # channel_[k]
  /\ Reset(k)
  /\ state_' = [state_ EXCEPT ![k] = "gone"]
  /\ resets' = [resets EXCEPT ![k] = 0]
  /\ UNCHANGED <<fd_, loopState, refused>>

-----------------------------------------------------------------------------
(* The loop.                                                               *)

Registered == {reg.ptr[f] : f \in Fds} \ {NoChannel}

objects == <<fd_, life, reg, connectors, refused, torn>>

\* epoll_wait and fillActiveChannels: entries without events are reported
\* too, for errors.
Poll ==
  /\ pc = "poll"
  /\ activeChannels_' \in SUBSET Registered
  /\ pc' = "events"
  /\ UNCHANGED <<current, objects>>

HandleEvents(c) ==
  /\ pc = "events" /\ c \in activeChannels_
  /\ activeChannels_' = activeChannels_ \ {c}
  /\ current' = c
  /\ UNCHANGED <<pc, objects>>

PendingFunctors ==
  /\ pc = "events" /\ activeChannels_ = {}
  /\ current' = NoChannel
  /\ pc' = "functors"
  /\ UNCHANGED <<activeChannels_, objects>>

EndPending ==
  /\ pc = "functors"
  /\ pc' = "poll"
  /\ UNCHANGED <<activeChannels_, current, objects>>

PollerNext ==
  \/ \E c \in Channels :
       Construct(c) \/ Change(c) \/ Retire(c) \/ Destruct(c) \/ HandleEvents(c)
  \/ \E k \in Connectors, c \in Channels :
       connecting(k, c) \/ handleWrite(k, c) \/ handleErrorAndWrite(k, c)
  \/ \E k \in Connectors : stopInLoop(k) \/ resetChannel(k) \/ DestroyConnector(k)
  \/ Poll \/ PendingFunctors \/ EndPending

PollerSpec == PollerInit /\ [][PollerNext]_pollerVars

-----------------------------------------------------------------------------
Alive == {c \in Channels : life[c] \notin {"unborn", "deleted"}}

\* The descriptors that were handed over closed, or whose channel was deleted
\* while it was registered: two things that the library does.
Spoiled == refused \cup {fd_[c] : c \in torn}

\* The Poller's map, the channels' index_ and the kernel's set agree, under
\* descriptor reuse, hand-overs and repeated removals: kNew is in neither,
\* kDeleted in the map only, kAdded in both, with the channel's own pointer
\* and the events it asks for; no entry is left for anyone else.  A refused
\* hand-over or the deletion of a registered channel upsets the one descriptor
\* it is about, and no other.
RegistrationMirrors ==
  \A f \in Fds \ Spoiled :
    /\ reg.ptr[f] \in {NoChannel, reg.fdMap_[f]}
    /\ \A c \in Channels :
         fd_[c] = f =>
           /\ reg.index_[c] = "kNew" <=> reg.fdMap_[f] # c
           /\ reg.index_[c] = "kAdded" <=> reg.ptr[f] = c
           /\ reg.index_[c] = "kAdded" => reg.watched[f] = reg.events_[c]
           /\ reg.isInLoop_[c] <=> reg.index_[c] # "kNew"

\* Every pointer that epoll holds, or reported and still to be called, is to
\* a channel that exists, for refused descriptors too, unless the channel was
\* deleted while it was registered: a channel that has left the Poller is in
\* nobody's hands when it is deleted.
PointersLive ==
  Registered \cup activeChannels_ \cup ({current} \ {NoChannel}) \subseteq Alive \cup torn

\* An assertion of updateChannel, removeChannel or ~Channel fails only about a
\* descriptor that was handed over closed or whose channel was deleted while it
\* was registered.
AssertionsHold == reg.failed \subseteq Spoiled

\* updateChannel asserts that a new channel's descriptor is not in fdMap_, and
\* ~Channel that it is not registered: no assertion fails at all.
NoAssertionFails == reg.failed = {}

\* epoll never holds a pointer to a channel that is gone.
NoDanglingPointer == Registered \subseteq Alive
=============================================================================
