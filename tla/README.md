# A verification development for LouisNet

LouisNet (`src/`) is a C++17 network library in the main/sub reactor style: one
event loop per thread on top of edge-triggered `epoll`, a TCP server and client,
timers, a thread pool, buffers and a small HTTP server. This directory holds TLA+
modules that model its parts, TLC configurations that check them on small
instances, and TLAPS proofs of all the safety properties of the passing runs for
every value of the constants. Paths below are relative to the repository's own `src/` directory
(`net/TcpServer.cc` is `src/src/net/TcpServer.cc` here).

## 1. Inventory

| Component | State it keeps | Operations | Interacts with |
|---|---|---|---|
| `EventLoop` (`net/reactor/EventLoop`) | `tasks_` under `mutex_`, `quit_`, `callingPendingFunctors_`, `activeChannels_`, an eventfd | `loop`, `quit`, `runInLoop`, `queueInLoop`, timers | every thread queues functors on it; it calls channels and functors |
| `Poller` | `fdMap_`, `events_` (grows) | `poll`, `updateChannel`, `removeChannel` | the kernel's epoll, always `EPOLLET` |
| `Channel` | interest, returned events, `index_`, callbacks, `tie_` | `handleEvents`, enable/disable, `remove` | belongs to one loop |
| `EventLoopThreadPool` | `subLoops_`, `next_` | `start`, `getNextLoop`, destructor | starts the I/O threads |
| `TcpServer` | `connections_` by descriptor | `setThreadNum`, `start`, `onNewConnection`, `removeConnection`, destructor | main loop, I/O loops, `TcpConnection` |
| `Acceptor` | `listening_`, the listening channel | `listen`, `handleRead` | calls `TcpServer::onNewConnection` |
| `TcpConnection` | `state_`, `outputBuffer_`, the channel | `send`, `shutdown` (any thread), four event handlers, establish/destroy | its loop, the server or client, user callbacks |
| `Connector`, `TcpClient` | `connected_`, `state_`, `channel_`; `connection_` | `connect`, `disconnect`, `stop`, destructor | the loop, from any thread |
| `TimerScheduler` | `timers_`, `activeTimers_`, `cancelingTimers_`, `nextId_`, a timerfd | `addTimer`, `cancelTimer` (any thread), `handleRead` | the loop |
| `ThreadPool` (`base/`) | `tasks_`, `stop_`, `mutex_`, `cv_` | `submit`, worker, destructor | its workers |
| `Buffer` (`base/`) | a vector and two indices | append, prepend, consume, retrieve, `readFd` | every connection has two |
| `HttpServer`, `HttpParser`, `HttpContext`, `HttpResponse` | per connection: parser state, the request being built, the response, in the connection's `context_` | `onConnection`, `onMessage`, `parseRequest`, `onRequest`, `resetContext`, the setters, `toString` | the callbacks of a `TcpServer`; `send` and `shutdown` of a `TcpConnection` |
| `Socket`, `SocketsOps`, `InetAddress`, `Logger`, `CurrentThread` | none of interest | wrappers | |

Where it is hard:

* **interleavings**: `queueInLoop` decides about the wakeup after the unlock;
  `addTimer`, `send`, `shutdown`, `Connector::start/stop` test and store shared
  variables on any thread; destructors run beside threads that are still at work;
* **edge triggering**: whatever is not read, written or accepted when reported,
  and not re-armed, is never reported again;
* **lifetimes**: functors holding a bare `this`, `shared_ptr`s in maps and queues,
  descriptors that are reused as soon as the last pointer goes;
* **repetition**: a reset closes a connection two or three times in one event,
  an error event comes together with a write event, channels are removed twice;
* **pieces**: a pipeline of requests arrives cut anywhere, and parser, request and
  response are kept between the requests;
* **boundaries**: a timer that expires exactly now, `events_` exactly full, room
  in a buffer exactly enough.

`PROJECT.json` lists these under `hazards`, each at its line with the properties
aimed at it.

## 2. Modules

| Module | Models | Abstract view |
|---|---|---|
| `EventLoop` | `EventLoop`, `Poller::poll`, the eventfd and epoll | `TaskQueue` |
| `ThreadPool` | `base::ThreadPool`, the condition variable | |
| `TimerScheduler` | `TimerScheduler`, `Timer`, the timerfd | |
| `TcpConnection` | `TcpConnection`, `Channel::handler`, `Poller::updateChannel`, one socket | |
| `TcpServer` | `TcpServer`, `Acceptor`, `EventLoopThreadPool`, all their loops | |
| `TcpClient` | `TcpClient`, `Connector` | |
| `Buffer` | `base::Buffer` byte by byte | `ByteQueue` |
| `Poller` | `Poller`'s map, the `Channel`s of one loop, the kernel's epoll set, their owners | |
| `HttpParser` | `HttpParser::parseCString` turn by turn | |
| `HttpServer` | `HttpServer`, `HttpResponse`, on top of `HttpParser` (which it extends) | |
| `EventLoopProofs`, `TimerSchedulerProofs`, `TcpConnectionProofs`, `TcpServerProofs`, `TcpClientProofs`, `HttpServerProofs` | proofs about the module of that name | |
| `BaseProofs` | proofs about `ThreadPool`, `Buffer` and `Poller`, whose specifications are named apart so that one module can extend them all (`PoolSpec`, `BufferSpec`, `PollerSpec`) | |
| `QueueLemmas` | what `Append`, `Head`, `Tail` and `\o` do to the queues of all of them, and induction over the numbers | |
| `MC*` | instances for TLC (symmetry only where no liveness is checked) | |

**Interaction.** Each module keeps of its neighbours what it needs. What a loop owes its
callers (functors kept, in order, once, promptly) is established in `EventLoop`; the other
modules rely on it and model a loop as a queue of functors executed in batches.
`TcpServer` keeps of a connection its descriptor, loop, `state_` and registration;
`TcpConnection` keeps of the server that each close callback leads to one
`connectionDestroyed` on the connection's loop. `Poller` has all the channels of a loop
and takes of their owners, Connectors included, what they do to channels. `TcpConnection`
assumes that its channel alone has its descriptor; `Poller` shows for which descriptors
that is so. `HttpServer` composes `HttpParser` with what a connection promises: input in
order, `send()` that takes nothing after `shutdown()`, and the order of handlers in one
event.

**State and steps.** A definition that models a function has its name, variables have the
names of the members they model, and `PROJECT.json` maps each definition to its lines.
Steps are cut where other threads can see a difference:

* *EventLoop*: `queueInLoop` is `Push` (up to the unlock) and `Wakeup` (the test and the
  write to the eventfd). The loop thread goes through `CheckQuit`, `Poll`/`PollTimeout`,
  `HandleEvents` once per reported channel, `BeginPending`, `Swap`, `RunTask` per functor,
  `EndPending`. Inside a callback or a functor the loop thread calls `queueInLoop`,
  `runInLoop` and `quit` like any thread. `ready` is the level of each descriptor,
  `rdlist` the kernel's list of those to report.
* *ThreadPool*: `cv_.wait(lock, pred)` is `Test`, `Sleep` (release and sleep in one step),
  wakeup, `Lock`. `submit` is the critical section and `NotifyOne`; the destructor is
  `Stop` (no mutex), `NotifyAll`, `Join`.
* *TimerScheduler*: `addTimer` is the load of `nextId_` with the construction, and
  `handOver` (the store and `runInLoop`). `handleRead` is the extraction, one `run` per
  callback (which may add and cancel), and `reset` timer by timer. A timer is a number,
  time is a counter.
* *TcpConnection*: bytes are numbered as `sendInLoop` takes them, so the history `wire`
  shows order, loss and repetition. The socket is a send buffer of `SndCap` bytes, a count
  of unread messages, FIN, reset and `SO_ERROR`; `noSpace` is the kernel's promise to
  report writability again. A call on another thread is the test of `state_` and then the
  rest. The application is assumed to ignore `SIGPIPE`.
* *TcpServer*: `onNewConnection` is `AcceptOne` (up to `runInLoop`) and `Store`. A
  connection exists as long as `Held`: a map entry, a functor or a local variable points
  to it, and its descriptor is taken for as long. `~TcpServer` is `DestroyOne` per
  connection, then the members' destructors: the callbacks, which are declared last, then
  the pool (`QuitLoop`, `JoinAll`). `lateCall` records a connection that calls back in
  between. `accept()` returns the lowest free descriptor.
* *TcpClient*: `start`/`stop` off the loop are the store to `connected_` and the queueing.
  A failing `assert` sets `failed` and ends the run, so that each assertion can be asked
  about on its own; so does a call of a `TcpClient` that is gone. `disconnect()` on the
  other thread is the lock with `shutdown()`'s test of `state_` (`disconnectForeign`),
  then the store, the functor and the unlock (`shutdownForeign`); on the loop thread it is
  one step. `handleClose` ends with the user's callback, and `closeCallback_`, which waits
  for `mutex_`, resets `connection_`: in between `disconnect()` still reaches the closed
  connection. `channel_->tie()` keeps the Connector alive from the first handler of an
  event to the last (`Guarded`), but not the `TcpClient` it calls. `restart()` is called
  by nothing and left out.
* *Buffer*: the vector with stale bytes and all; `Copy` is `std::copy`. `passed` records
  the bytes that last went in or out. The abstract queue says that they went in or came
  out at an end and that the rest is untouched, whichever operation it was; it does not
  say which end and how many bytes go with which operation.
* *Poller*: the record `reg` holds `fdMap_`, the epoll set (pointer and events of each
  descriptor) and the members of the channels; `Updated` and `Removed` are `updateChannel`
  and `removeChannel` with what `epoll_ctl` makes of the call, an ignored error included.
  `Retire` is `disableAll()` and `remove()`, which `connectionDestroyed` and `getSocket`
  do, some of them twice. There are two kinds of owners. Most have a channel from the
  opening of a descriptor to its close (`Construct`, `Change`, `Retire`, `Destruct`), and
  may go with the channel still registered. A Connector makes a channel per attempt
  (`connecting`), gives the descriptor up (`stopInLoop`) or hands it over (`handleWrite`),
  also after `handleError` has closed it (`handleErrorAndWrite`), and leaves the deletion
  to `resetChannel`, which deletes whatever `channel_` is by then. A failing assertion is
  noted with its descriptor and the program goes on, as with `NDEBUG`: `refused` and
  `torn` record the two causes.
* *HttpParser, HttpServer*: input is a sequence of symbols. CR, LF and body bytes are
  symbols of their own, so that input can break off anywhere, between CR and LF too; the
  text of a line has no effect before its end and is one symbol. Each turn of
  `parseCString` and of `onMessage`'s loop is a step. The context is there or is the
  `nullptr` that `onConnection` leaves; `send()` and `shutdown()` are the connection's
  `state_` and what it took.

## 3. Runs

Bounds are in the `.cfg` files. Passing runs:

| Run | Shows |
|---|---|
| `loop` | `NoLostWakeup` (with an event array of one entry and more ready channels than that); `QueueSpec`: functors run in order, at most once; `TaskRuns`: with no limit on `epoll_wait`, a functor queued once the loop runs still runs, and with the limit every functor does; `QuitLeavesLoop` |
| `pool` | `HandedOutInOrder`, `CriticalSection` (a worker never pops an empty queue, the mutex excludes), `NoOversleep`, `TaskStarts` |
| `timer` | `SetsMirror`, `TimerfdCovers`, `CancelIsFinal`, `NeverEarly` |
| `conn` | `StreamInOrder`, `OutputWatched`, `InputWatched`, `FinAfterData`, `LocalTeardownClean`; under fairness `ShutdownCompletes` and `ClosedIsDestroyed` |
| `server` | `OpenIsTracked`, `ReleasedIsClean`, `WaitingIsReported`, `TypeOK` (`next_` stays an index of `subLoops_`) and, for a server without I/O threads, `SingleTeardownClean`; under fairness `ClosedIsReleased` |
| `client` | `AssertionsHold`, `SocketsOwned`, `ConnectionCurrent`, `DisconnectSafe` (neither `disconnect()` on another thread nor the functor it leaves works on a connection that is gone), `StopIsFinal`, `AttemptEnds` |
| `buffer` | `RoomIsMade`, `QueueSpec` |
| `poller` | `RegistrationMirrors` (map, `index_` and epoll agree about every descriptor that is not spoiled), `PointersLive` (no pointer in epoll, in `activeChannels_` or under execution outlives a channel that had left the Poller), `AssertionsHold` (assertions fail only about spoiled descriptors) |
| `http` | `RequestsAsSent` (what the handlers get is what was sent, however it was cut), `AnswersInOrder`, `CompleteIsAnswered`, `OnMessageEnds` (on all input but a partial or a rejected line) |

Runs that find the code and what is said of it in disagreement (each is a finding in
`PROJECT.json`, with the line quoted):

| Run | What happens |
|---|---|
| `pool_join` | `DestructorReturns`: `stop_` is stored without the mutex; a worker between test and sleep misses the notification and the destructor hangs |
| `client_refused` | `HandsOverConnected`: a refused connection is closed and then handed over as connected |
| `http_spin` | `OnMessageReturns`: a piece of a line keeps `onMessage` in its loop; the thread never reads the rest |

Other promises of comments and assertions that the models do not keep are stated in the
modules without a standing run; to see one, name it as the `INVARIANT` (or `PROPERTY`) of
a copy of the component's `.cfg`:

| Definition | What happens |
|---|---|
| `EventLoop!QueueWakesLoop` | a functor queued by the owner before `loop()` is not woken for |
| `TimerScheduler!UniqueIds` | two threads get the same timer id |
| `TimerScheduler!LeftExpiresLater` | a timer that expires exactly now stays in the set and fails an assertion |
| `TcpConnection!DestructedDisconnected` | a late `shutdown()` on another thread stores `kDisconnecting` over `kDisconnected`; the destructor's assertion fails |
| `TcpConnection!NoDanglingFunctor` | functors with a bare `this` outlive the connection |
| `TcpConnection!DestroyedStaysOut` | after such a store, a `send()` still queued registers the channel again |
| `TcpServer!TeardownDestroysAll` | `~TcpServer` queues `connectionDestroyed` on loops that quit before executing it |
| `TcpServer!CallbacksOutliveLoops` | I/O threads call back into a `TcpServer` whose callbacks are destroyed |
| `TcpClient!NoLiveChannelDeleted` | a late `resetChannel` deletes the channel of the next attempt |
| `TcpClient!ConnectsAgain` | `connect()` after a closed connection fails an assertion |
| `TcpClient!RemovesOwn` | a reset runs the close callback twice; the second fails an assertion |
| `TcpClient!NoDanglingConnector` | `~TcpClient` leaves a functor with a bare pointer to the `Connector` |
| `TcpClient!CallbacksOutlived` | a connection, or an attempt whose event is being handled, calls back into a `TcpClient` that is gone |
| `TcpClient!OpenOutlives` | the functor of `~TcpClient` held the open connection last; the assertion of `~TcpConnection` fails |
| `Poller!NoAssertionFails` | a refused hand-over leaves an entry in `fdMap_`, and the next channel with that descriptor fails an assertion; so does `~Channel` of a registered channel |
| `Poller!NoDanglingPointer` | a late `resetChannel`, or `~Connector`, deletes a channel that epoll still points to |
| `Buffer!HeadroomKept` | `prepend` uses up the headroom that a comment calls guaranteed |
| `HttpServer!MissingContextReturns` | a reset with unread input: `any_cast` of the `nullptr` context throws instead of the return the comment announces |
| `HttpServer!ResponsesVersioned` | every answer but the first of a connection starts without a version unless the handler sets it |
| `HttpServer!ResponsesFramed` | the 404 announces 10 bytes and has 9 |

The passing properties leave exactly these out. `SetsMirror` and `CancelIsFinal` are
stated under `UniqueIds`, and `CancelIsFinal` does not count a call on the loop thread
that overtakes the functor which adds the timer. `AssertionsHold` of the client allows a
failed assertion only after a second `connect()`, a reset or the destructor, and the other
client properties speak of a program that has not failed one. `ConnectionCurrent` allows
`connection_` to be the closed connection from the store of `kDisconnected` to the end of
the same `handleClose`. `RegistrationMirrors` and `AssertionsHold` of the poller leave out
the descriptors in `Spoiled`: those handed over after they were closed (`client_refused`)
and those of channels deleted while registered (`torn`); `PointersLive` leaves out the
`torn` channels only. `startInLoop`'s assertion is a guard in `Poller` and a failure in
`TcpClient`. `ShutdownCompletes` counts a connection that is already destroyed as
complete; `LocalTeardownClean` speaks of connections that no other thread has called.
`OpenIsTracked` excludes the time after the main loop was left, and `ReleasedIsClean` a
connection whose own loop was left. `OnMessageEnds` excludes exactly the input of
`http_spin`.

**Bounds.** Three functors, two foreign threads, two channels with an array of one: enough
for a functor to be queued at each point between push, swap and poll by two threads, and
for a report that does not fit. Three workers, two submitters and three tasks: a
notification can go to a worker that is not the one that could take the task, and a task
can submit another. Two timers on a clock of a few ticks cover before, at and after `now`,
and a batch with one timer cancelling another. A send buffer of one byte and messages of
up to two make every write partial, full or refused; three bytes leave room for a direct
write that could overtake a buffered one. Three connections over two descriptors force
reuse and exhaustion, with none, one and two I/O threads; two closes per connection are
what a reset makes. Three calls of `connect()` and two of `stop()` meet in every order,
with a `disconnect()` at any point. Four channels over two descriptors, and one Connector:
each descriptor is handed on, connected or refused, and reused while channels removed
earlier still exist, and a late `resetChannel` meets the channel of a second attempt. Two
messages on one connection, out of six well-formed kinds (with and without a body, keeping
and ending the connection, a body of CR LF, repeated headers) and five broken ones, cut at
every place; `Huge` is more than ever arrives. A buffer with headroom 2, capacity 2 and an
`extrabuf` of 3 passes through all its boundaries within a few operations. Counters in the
models (tasks, connections, bytes, messages, errors) are capped in the guards, by
constants with `Max` in their name.

Deadlock is checked for the buffer and the poller. In the other models the system may
really stop: a loop that was left, a pool that was joined, a connection that was
destructed, a server that was torn down, a client whose assertion failed, an HTTP
connection that was closed, the timers' clock at its bound.

**Fairness.** `WF` on a loop's own steps: the operating system schedules threads that can
run, and callbacks return. `EventLoop`'s `PromptSpec` gives `epoll_wait` no limit;
`TaskRuns` and `QuitLeavesLoop` add `WF` on `PollTimeout` as a hypothesis, because the
code passes 2000 ms. A thread inside `queueInLoop`, `submit`, `connect()`, `stop()` or
`disconnect()` finishes the call. Nothing makes a caller call, a peer close or a sleeper
wake. `TcpConnection` assumes that a peer that has not reset goes on reading (`Drain`).
`TcpServer` has `WF` on each loop's steps and on the destructor's, and lets the
application go on to `start()` and `loop()` but not to quit. `HttpServer` has `WF` on
`onMessage` alone: a client need neither send nor close. `TcpClient` has `SF` on its two
event handlers: between two polls the loop is elsewhere, so the handler is not enabled
continuously, but the channel stays ready and epoll reports it at the next poll.

## 4. Proofs

TLAPS checks, for every value of the constants allowed by the named assumptions:

* `EventLoopProofs` (from `LoopConstants`, `FiniteChannels`). `LoopTypes`, `LoopWakes`,
  `LoopIterationClean`, `LoopImplementsQueue` and `LoopInOrder`. `NoLostWakeup` speaks
  only of a loop inside `epoll_wait` and is not inductive: the wakeup must have been on
  the way at every point since the swap. `WakeInv` says so for all places where the
  current iteration will no longer take a functor (`Missed`), ties
  `callingPendingFunctors_` to the loop's place, since a functor's own `queueInLoop`
  depends on it, and says where the loop thread can be inside `queueInLoop`. The
  interesting step is `HandleEvents` of the eventfd: it takes the wakeup away, but the
  loop is then on its way to the swap. The refinement maps the abstract queue to `batch \o
  tasks_`: the swap is a stutter because the batch is empty by then. `LoopInOrder` follows
  from the refinement: `QueueInv` (numbers executed below numbers pending, both
  increasing) is kept by every step of the abstract queue.
* `BaseProofs`, the thread pool (from `PoolConstants`, `FiniteWorkers`):
  `PoolTypeCorrect`, `TasksInOrder`, `MutualExclusion`, `WorkersWake`. `CriticalSection`
  says that a worker about to pop finds a task, which rests on a test some steps earlier:
  `PredicateHolds` keeps what the worker saw for as long as it holds `mutex_`.
  `NoOversleep` is a count, queued tasks against awake workers and pending notifications,
  and is inductive with it: `Sleep` needs that the queue is empty, `NotifyOne` that it
  passes its unit on to the worker it wakes.
* `BaseProofs`, the poller (from `PollerConstants`): `PollerInductive`, `MapsAgree`,
  `NoDanglingChannel`, `AssertionsTraced`, for any channels, descriptors and Connectors.
  The owners break their own rules, so the invariant says what is left. `Sound` holds
  whatever they do: an entry of epoll is under its channel's own, open descriptor, and the
  channel thinks that it is registered. `Mirrors` is `RegistrationMirrors` with the
  assertions, descriptor by descriptor, for those not spoiled; it needs `Occupancy` (such
  a descriptor has one holder at a time, who keeps it open) and `InUse` (exactly the
  channels in use, and those torn, think that they are registered). `Attempts` ties
  `channel_` to `state_`: what `resetChannel` deletes is spent, or registered and then
  torn. `Held` is why a functor may delete a spent channel and a handler may not. Lemmas
  about the operations on `reg` show once that each touches one descriptor only.
* `BaseProofs`, the buffer (from `BufferConstants`): `BufferTypes`, `BufferMakesRoom` and
  `BufferImplementsQueue`. `WellFormed` is inductive as it is; the work is in the lemmas
  that say what each operation does to the readable bytes (`StoreFacts`, `MovedFacts`,
  `RoomFacts`, `ConsumedFacts`, `PrependedFacts`, `ScatteredFacts`).
* `TimerSchedulerProofs` (from `TimerConstants`): `MapsMirror`, `CancelWins`,
  `TimerfdArmed`, `NoEarlyCallback` (an action property). `CancelIsFinal` needs three
  strengthenings: the functor that adds a timer comes once and before any call about it
  (`HandedOverOnce`), timers under way are not in the set (`Handling`), and a cancellation
  by a callback of the same batch is in `cancelingTimers_` until `reset` (`Remembered`).
  `NeverEarly` needs `DueExpired`, since time passes between extraction and callback.
* `TcpConnectionProofs` (from `ConnConstants`): `TypesCorrect`, `StreamCorrect`,
  `OutputNeverForgotten`, `InputNeverForgotten`, `FinIsLast`, `TeardownClean`, for any
  interleaving of calls on other threads. `OutputWatched` and `FinAfterData` are two sides
  of `Writing`: an open connection with output watches for `EPOLLOUT`, one that watches
  has a write scheduled, one that was shut does not watch; its case of `handleWrite` needs
  `Phase`, because the callback at its end may send. `Established` gives that an open
  connection is registered. `TeardownClean` needs that behind the first
  `connectionDestroyed` in the queue there is nothing else (`Teardown`).
* `TcpServerProofs` (from `ServerConstants`): `TypeCorrect`, `ConnectionsTracked`,
  `ReleasedClean`, `WaitingReported`, `SingleTeardown`, for any number of I/O loops,
  descriptors, connections and repeated closes. `connections_` is indexed by descriptors
  that are reused, so that `OpenIsTracked` stands and falls with `FdsUnique`: connections
  that are held have different descriptors, and a queued removal holds its connection.
  `Tracked` says that a connection which still needs `connectionDestroyed` is in the map
  or has the functor queued; `Functors` says what each queued functor implies (established
  first, removal and destruction only after `handleClose` until `~TcpServer` runs);
  `Stages` orders the starting and leaving of the loops. Most actions touch one connection
  (`Touches`): lemma `TouchStep` shows once that the others are left in peace, and each
  action is left with what concerns its own connection.
* `TcpClientProofs` (from `ClientConstants`): `TypeCorrect`, `ClientAssertions`,
  `NoSocketLeaks`, `PointerCurrent`, `DisconnectReaches` and `StoppedForGood` (an action
  property), for any number of `connect()` and `stop()` calls and of repeated closes. The
  functors of several calls are queued at once, and `connected_` is stored before the
  functor that goes with it is queued. `Counted` bounds the sockets made and the
  `startInLoop`s still to come by the `connect()` calls: with a single call, no second
  attempt can meet the first one's `resetChannel`. `Phase` says what each `state_` of the
  `Connector` has: the one socket that is watched, or has just been given up between two
  handlers of one event, belongs to `kConnecting`, and connections exist only in
  `kConnected`, which is final. `Queued` says what a queued functor implies, `Downs` that
  a connection which is down was closed, `Closing` what holds between the two halves of
  `handleClose`. For `DisconnectSafe`, `Shuts` says that `mutex_` keeps `connection_` what
  `disconnect()` has found until its functor is queued, hence ahead of
  `connectionDestroyed`, and that no such functor comes behind that. For `StopIsFinal`,
  `Stops` says that behind a stop which no `connect()` followed there is no `startInLoop`,
  queued or about to be, that would still find itself wanted. All of it holds until an
  assertion fails; after that nothing runs.
* `HttpServerProofs` (from `HttpConstants`): `HandedOutAsSent`, `AnsweredInOrder` and
  `HttpTypeCorrect`, for every set of messages with bodies of at most two bytes (`stoul`
  knows "0", "1", "2" and "-1"), every number of them and every way to cut the stream.
  `HttpConstants` says what a message is (texts, bytes, and a body as long as a valid
  `content-length` announces; a broken message is any other) and that no client sends as
  many bytes as `stoul` makes of "-1". `RequestsAsSent` says nothing about a message that
  is half parsed; `Position` does. It names the place in the stream up to which the parser
  has consumed the input, and what it has built by then: nothing at the start of a message
  (`AtStart`), the request line and the first k headers (`InHeaders`), a beginning of the
  body (`InBody`), all of it (`Done`), or it has met what is broken (`Failed`). The buffer
  is a `Window` of the stream at that place, and grows and shrinks with it. That the next
  line in the window is the next line of the message is the layout of the stream
  (`StreamIs`): where each line, the empty line and the body of the i-th message stand.
  `Position` holds as long as the connection is open or the messages so far were intact:
  behind a broken message the parser may take anything for a request, and `Open` says that
  nothing of that is sent. `HttpTypeCorrect` does not depend on `Position` and holds
  behind broken messages too.

The theorems are about `Spec` (`PoolSpec`, `BufferSpec`, `PollerSpec`), hence about every
specification with fairness on top of it.

**Induction over data.** The library's induction theorems cannot be instantiated here, but
their first-order consequence can be cited: a set of numbers that is not empty has a least
element (`LeastNumber`). `EveryNumber` is induction by way of the least counterexample.
With it `HttpServerProofs` shows what `FlattenSeq` computes for every sequence of
sequences (`FlattenAppend`, `FlattenLayout`).

Only model-checked:

* all liveness (`TaskRuns`, `QuitLeavesLoop`, `TaskStarts`, `ShutdownCompletes`,
  `ClosedIsDestroyed`, `ClosedIsReleased`, `AttemptEnds`, `CompleteIsAnswered`,
  `OnMessageEnds`): fairness and `ENABLED` are outside the prover's reach;
* the bounds of `TcpConnection`'s byte counters (`taken` against `offered`): a sum over
  the queued `send()`s. The proofs need no bound and use natural numbers (`Types`).

`IterationClean`, the order of the abstract queue and the type invariants of `EventLoop`,
`ThreadPool`, `TimerScheduler`, `TcpClient`, `HttpServer`, `Poller` and `Buffer` are
proved and have no standing run. `TypeOK` of `TcpConnection` documents the variables and
has none either; name it in a copy of the `.cfg` to check it. That a timer fires
eventually is not checked at all: the clock is bounded.

## 5. Not modelled

Not modelled: `HttpResponse::toString` and `InetAddress` (formatting),
`Socket`/`SocketsOps` (system calls), `Logger`, `CurrentThread`, the examples. Of the
modelled parts: callbacks that throw, a `tie()` by the application (the library's own, of
the Connector, is modelled), lengths of HTTP bodies other than 0, 1, 2 and "-1",
`setThreadNum()` after `start()`, `Connector::restart()` (called by nothing), the result a
`ThreadPool` task passes through its future.

Open ends, should the development be continued: the sum behind `TcpConnection`'s byte
bounds, which the induction above would reach, and a composition of `TcpConnection` with
`TcpServer` in one module, whose interface is now a shared convention (one
`connectionDestroyed` per close callback).

## 6. Running

    tlc -config MCEventLoop.cfg MCEventLoop
    tlapm EventLoopProofs.tla
