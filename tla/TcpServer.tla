----------------------------- MODULE TcpServer -----------------------------
(***************************************************************************)
(* net::TcpServer with its Acceptor and its EventLoopThreadPool: the main  *)
(* loop accepts connections and deals them out to the I/O loops, an I/O    *)
(* loop that sees a connection close has the main loop take it out of      *)
(* connections_, which sends it back to be destroyed; ~TcpServer tears all *)
(* of it down on the main thread while the I/O threads still run.          *)
(*                                                                         *)
(* Loop 0 is mainLoop_, loops 1..threadNum_ are subLoops_.  A loop is the  *)
(* functors queued on it and where its thread is in EventLoop::loop(); how *)
(* functors are queued and woken for is module EventLoop.  A connection is *)
(* its file descriptor, its loop, state_ and whether its channel is        *)
(* registered; what happens on it is module TcpConnection.  It exists as   *)
(* long as the map, a queued functor or a local variable holds a           *)
(* shared_ptr to it, and its descriptor is taken for as long.              *)
(***************************************************************************)
EXTENDS Integers, Sequences, FiniteSets, SequencesExt

CONSTANTS
  MaxThreads,            \* bound: I/O threads
  Fds,                   \* file descriptors the process may use
  MaxConns,              \* bound: connections that arrive
  MaxCloses,             \* bound: handleClose calls on one connection
  MaxErrors              \* bound: transient failures of accept()

ASSUME ServerConstants ==
  /\ MaxThreads \in Nat
  /\ MaxConns \in Nat /\ MaxCloses \in Nat /\ MaxErrors \in Nat
  /\ Fds \subseteq Nat \ {0}

VARIABLES
  backlog,               \* connections in the listen queue
  arrived,               \* connections that have arrived in all
  errors,                \* transient failures of accept() so far
  listening_,
  acceptEdge,            \* the listening socket is on epoll's ready list
  created,               \* TcpConnection objects made so far
  conn,                  \* what each of them is
  closes,                \* history: handleClose calls on each
  connections_,          \* by descriptor; 0: no entry
  next_,
  threadNum_,            \* I/O threads; 0: the main loop does everything
  pc,                    \* where each loop's thread is
  tasks,                 \* functors queued on each loop
  batch,                 \* functors left of the batch each loop executes
  quit_,
  phase,                 \* of the TcpServer object
  lateCall               \* history: a callback came after its std::function

Loops == 0..MaxThreads
Conns == 1..MaxConns
States == {"none", "kConnecting", "kConnected", "kDisconnected"}

listener == <<backlog, arrived, errors, listening_, acceptEdge>>
objects == <<created, conn, closes, connections_, next_>>
loopState == <<pc, tasks, batch, quit_>>
server == <<phase, threadNum_, lateCall>>
vars == <<listener, objects, loopState, server>>

Init ==
  /\ backlog = 0 /\ arrived = 0 /\ errors = 0
  /\ listening_ = FALSE /\ acceptEdge = FALSE
  /\ created = 0
  /\ conn = [c \in Conns |-> [state |-> "none", fd |-> 0, loop |-> 0,
                              registered |-> FALSE]]
  /\ closes = [c \in Conns |-> 0]
  /\ connections_ = [f \in Fds |-> 0]
  /\ next_ = 0 /\ threadNum_ = 0
  /\ pc = [l \in Loops |-> "before"]
  /\ tasks = [l \in Loops |-> <<>>]
  /\ batch = [l \in Loops |-> 0]
  /\ quit_ = [l \in Loops |-> FALSE]
  /\ phase = "new" /\ lateCall = FALSE

-----------------------------------------------------------------------------
\* A functor on the main loop does not keep its connection alive.
MutantHeld(c) ==
  \/ \E f \in Fds : connections_[f] = c
  \/ \E l \in Loops \ {0} : <<"established", c>> \in ToSet(tasks[l])
                            \/ <<"destroyed", c>> \in ToSet(tasks[l])
  \/ pc[0] = "store" /\ c = created

\* Someone holds a shared_ptr to the connection: the map, a functor, or
\* onNewConnection on the main thread.
Held(c) ==
  \/ \E f \in Fds : connections_[f] = c
  \/ \E l \in Loops : c \in {t[2] : t \in ToSet(tasks[l])}
  \/ pc[0] = "store" /\ c = created

\* The descriptors that are not in use; accept() returns the lowest.
FreeFds == Fds \ {conn[c].fd : c \in {d \in 1..created : Held(d)}}

\* The application chooses the number of I/O threads before it calls start().
setThreadNum(n) ==
  /\ phase = "new"
  /\ threadNum_' = n
  /\ UNCHANGED <<listener, objects, loopState, phase, lateCall>>

\* start() on the main thread: the I/O threads run, the acceptor listens.
start ==
  /\ phase = "new"
  /\ phase' = "running"
  /\ pc' = [l \in Loops |-> IF l \in 1..threadNum_ THEN "pending" ELSE "before"]
  /\ listening_' = TRUE
  /\ UNCHANGED <<backlog, arrived, errors, acceptEdge, objects, tasks, batch,
                 quit_, threadNum_, lateCall>>

\* The application calls loop() on the main thread.
RunMainLoop ==
  /\ phase = "running" /\ pc[0] = "before"
  /\ pc' = [pc EXCEPT ![0] = "pending"]
  /\ UNCHANGED <<listener, objects, tasks, batch, quit_, server>>

\* The application quits the main loop, from wherever.
QuitMain ==
  /\ phase = "running" /\ ~quit_[0]
  /\ quit_' = [quit_ EXCEPT ![0] = TRUE]
  /\ UNCHANGED <<listener, objects, pc, tasks, batch, server>>

-----------------------------------------------------------------------------
(* Acceptor and onNewConnection, on the main loop.                         *)

\* A connection completes its handshake; epoll is told.
ConnArrives ==
  /\ listening_ /\ arrived < MaxConns
  /\ arrived' = arrived + 1
  /\ backlog' = backlog + 1
  /\ acceptEdge' = TRUE
  /\ UNCHANGED <<errors, listening_, objects, loopState, server>>

\* The channel of the listening socket is reported, once in an iteration:
\* Acceptor::handleRead.
Report ==
  /\ pc[0] = "poll" /\ acceptEdge
  /\ acceptEdge' = FALSE
  /\ pc' = [pc EXCEPT ![0] = "accept"]
  /\ UNCHANGED <<backlog, arrived, errors, listening_, objects, tasks, batch,
                 quit_, server>>

\* subLoops_[next_], or the main loop when there are no I/O threads.
getNextLoop == IF threadNum_ = 0 THEN 0 ELSE next_ + 1

\* next_ wraps one late.
MutantAdvanced(n) == IF n + 1 > threadNum_ THEN 0 ELSE n + 1

Advanced(n) ==
  IF threadNum_ = 0 THEN n ELSE IF n + 1 >= threadNum_ THEN 0 ELSE n + 1

\* connectionEstablished: the channel is registered for reading.
Established(c) ==
  [c EXCEPT !.state = "kConnected", !.registered = TRUE]

\* onNewConnection up to the hand-over to the I/O loop.
AcceptOne(f) ==
  LET c == created + 1
      fresh == [state |-> "kConnecting", fd |-> f, loop |-> getNextLoop,
                registered |-> FALSE]
  IN  /\ pc[0] = "accept"
      /\ backlog > 0
      /\ f \in FreeFds /\ \A g \in FreeFds : f <= g
      /\ backlog' = backlog - 1
      /\ created' = c
      /\ next_' = Advanced(next_)
      /\ pc' = [pc EXCEPT ![0] = "store"]
      /\ \/ /\ getNextLoop = 0                   \* runInLoop: at once
            /\ conn' = [conn EXCEPT ![c] = Established(fresh)]
            /\ UNCHANGED tasks
         \/ /\ getNextLoop # 0
            /\ conn' = [conn EXCEPT ![c] = fresh]
            /\ tasks' = [tasks EXCEPT ![getNextLoop] =
                           Append(@, <<"established", c>>)]
      /\ UNCHANGED <<arrived, errors, listening_, acceptEdge, closes,
                     connections_, batch, quit_, server>>

\* onNewConnection's last statement.
Store ==
  /\ pc[0] = "store"
  /\ connections_' = [connections_ EXCEPT ![conn[created].fd] = created]
  /\ pc' = [pc EXCEPT ![0] = "accept"]
  /\ UNCHANGED <<listener, created, conn, closes, next_, tasks, batch, quit_,
                 server>>

\* EAGAIN ends Acceptor::handleRead.
AcceptEmpty ==
  /\ pc[0] = "accept" /\ backlog = 0
  /\ pc' = [pc EXCEPT ![0] = "events"]
  /\ UNCHANGED <<listener, objects, tasks, batch, quit_, server>>

\* The interest is left as it was.
MutantRearmed(n) == FALSE

\* disableRead() and enableRead(): the socket is added to epoll again, which
\* looks at the n connections that wait.
Rearmed(n) == n > 0

\* accept() fails: no descriptor is left, or something transient, which may
\* have cost a waiting connection.
AcceptFails ==
  /\ pc[0] = "accept" /\ backlog > 0
  /\ \/ FreeFds = {} /\ backlog' = backlog /\ UNCHANGED errors
     \/ /\ errors < MaxErrors
        /\ errors' = errors + 1
        /\ backlog' \in {backlog, backlog - 1}
  /\ acceptEdge' = Rearmed(backlog')
  /\ pc' = [pc EXCEPT ![0] = "events"]
  /\ UNCHANGED <<arrived, listening_, objects, tasks, batch, quit_, server>>

-----------------------------------------------------------------------------
(* EventLoop::loop() on every loop.                                        *)

\* `while (!quit_)', once the functors of the last batch, if any, have run.  A
\* loop of the pool is a local variable of its thread: the functors it still
\* holds are dropped when the thread leaves loop().
CheckQuit(l) ==
  /\ pc[l] = "pending" /\ batch[l] = 0
  /\ \/ ~quit_[l] /\ pc' = [pc EXCEPT ![l] = "poll"] /\ UNCHANGED tasks
     \/ /\ quit_[l]
        /\ pc' = [pc EXCEPT ![l] = "exited"]
        /\ tasks' = IF l = 0 THEN tasks ELSE [tasks EXCEPT ![l] = <<>>]
  /\ UNCHANGED <<listener, objects, batch, quit_, server>>

\* The map entry is left where it is.
MutantErased(map, c) == map

\* connections_.erase(conn->fd()).
Erased(map, c) == [map EXCEPT ![conn[c].fd] = 0]

\* The connection is taken out of the map and forgotten.
MutantSentBack(q, c) == q

\* ioLoop->queueInLoop([conn]() { conn->connectionDestroyed(); })
SentBack(q, c) == [q EXCEPT ![conn[c].loop] = Append(@, <<"destroyed", c>>)]

\* connectionCallback_ and closeCallback_ of a connection are lambdas that call
\* members of the TcpServer.
CallsServer == lateCall' = (lateCall \/ phase = "quitting")

\* TcpConnection::handleClose for an event on c, and its close callback
\* removeConnection: on the main loop at once, else as a functor of it.  A
\* reset closes a connection more than once.
handleClose(l, c) ==
  /\ pc[l] \in {"poll", "events"}
  /\ conn[c].loop = l /\ conn[c].registered
  /\ closes[c] < MaxCloses
  /\ closes' = [closes EXCEPT ![c] = @ + 1]
  /\ conn' = [conn EXCEPT ![c].state = "kDisconnected"]
  /\ \/ /\ l = 0
        /\ connections_' = Erased(connections_, c)
        /\ tasks' = SentBack(tasks, c)
     \/ /\ l # 0
        /\ tasks' = [tasks EXCEPT ![0] = Append(@, <<"remove", c>>)]
        /\ UNCHANGED connections_
  /\ CallsServer
  /\ UNCHANGED <<listener, created, next_, pc, batch, quit_, phase, threadNum_>>

\* The events are handled; doPendingFunctors takes the functors queued so far.
\* An iteration that finds no event, no functor and no quit_ changes nothing
\* and is left out.
TakeBatch(l) ==
  /\ pc[l] \in {"poll", "events"}
  /\ pc[l] = "events" \/ tasks[l] # <<>> \/ quit_[l]
  /\ pc' = [pc EXCEPT ![l] = "pending"]
  /\ batch' = [batch EXCEPT ![l] = Len(tasks[l])]
  /\ UNCHANGED <<listener, objects, tasks, quit_, server>>

\* The next functor of the batch is the one named.
Runs(l, name, c) ==
  /\ pc[l] = "pending" /\ batch[l] > 0
  /\ Head(tasks[l]) = <<name, c>>
  /\ batch' = [batch EXCEPT ![l] = @ - 1]

connectionEstablished(l, c) ==
  /\ Runs(l, "established", c)
  /\ conn' = [conn EXCEPT ![c] = Established(@)]
  /\ tasks' = [tasks EXCEPT ![l] = Tail(@)]
  /\ CallsServer
  /\ UNCHANGED <<listener, created, closes, connections_, next_, pc, quit_,
                 phase, threadNum_>>

removeConnectionInLoop(c) ==
  /\ Runs(0, "remove", c)
  /\ connections_' = Erased(connections_, c)
  /\ tasks' = SentBack([tasks EXCEPT ![0] = Tail(@)], c)
  /\ UNCHANGED <<listener, created, conn, closes, next_, pc, quit_, server>>

\* state_ is left as it was.
MutantDestroyed(c) == [c EXCEPT !.registered = FALSE]

\* connectionDestroyed: the channel leaves the Poller.
Destroyed(c) ==
  [c EXCEPT !.state = "kDisconnected", !.registered = FALSE]

connectionDestroyed(l, c) ==
  /\ Runs(l, "destroyed", c)
  /\ conn' = [conn EXCEPT ![c] = Destroyed(@)]
  /\ tasks' = [tasks EXCEPT ![l] = Tail(@)]
  /\ UNCHANGED <<listener, created, closes, connections_, next_, pc, quit_,
                 server>>

-----------------------------------------------------------------------------
(* ~TcpServer on the main thread, once loop() has returned.                *)

\* One turn of the destructor's loop: runInLoop(connectionDestroyed).
DestroyOne(f) ==
  LET c == connections_[f]
  IN  /\ phase = "running" /\ pc[0] = "exited"
      /\ c # 0
      /\ connections_' = [connections_ EXCEPT ![f] = 0]
      /\ \/ /\ conn[c].loop = 0
            /\ conn' = [conn EXCEPT ![c] = Destroyed(@)]
            /\ UNCHANGED tasks
         \/ /\ conn[c].loop # 0
            /\ tasks' = SentBack(tasks, c)
            /\ UNCHANGED conn
      /\ UNCHANGED <<listener, created, closes, next_, pc, batch, quit_, server>>

\* The callbacks and the empty map are gone; ~EventLoopThreadPool follows.
DestroyMembers ==
  /\ phase = "running" /\ pc[0] = "exited"
  /\ \A f \in Fds : connections_[f] = 0
  /\ phase' = "quitting"
  /\ UNCHANGED <<listener, objects, loopState, threadNum_, lateCall>>

QuitLoop(l) ==
  /\ phase = "quitting"
  /\ l \in 1..threadNum_ /\ ~quit_[l]
  /\ quit_' = [quit_ EXCEPT ![l] = TRUE]
  /\ UNCHANGED <<listener, objects, pc, tasks, batch, server>>

\* All threads are joined; ~Acceptor stops listening; then the main loop's
\* ~EventLoop drops the functors left on it.
JoinAll ==
  /\ phase = "quitting"
  /\ \A l \in 1..threadNum_ : quit_[l] /\ pc[l] = "exited"
  /\ phase' = "gone"
  /\ listening_' = FALSE /\ acceptEdge' = FALSE
  /\ tasks' = [tasks EXCEPT ![0] = <<>>]
  /\ UNCHANGED <<backlog, arrived, errors, objects, pc, batch, quit_,
                 threadNum_, lateCall>>

-----------------------------------------------------------------------------
\* A step of loop l's thread.
LoopStep(l) ==
  \/ CheckQuit(l) \/ TakeBatch(l)
  \/ \E c \in Conns : connectionEstablished(l, c) \/ connectionDestroyed(l, c)

\* What the main thread does besides.
MainStep ==
  \/ LoopStep(0)
  \/ Report \/ Store \/ AcceptEmpty \/ AcceptFails
  \/ \E f \in Fds : AcceptOne(f)
  \/ \E c \in Conns : removeConnectionInLoop(c)

Destructor ==
  \/ \E f \in Fds : DestroyOne(f)
  \/ DestroyMembers
  \/ \E l \in Loops : QuitLoop(l)
  \/ JoinAll

Next ==
  \/ \E n \in 0..MaxThreads : setThreadNum(n)
  \/ start \/ RunMainLoop \/ QuitMain
  \/ ConnArrives
  \/ MainStep
  \/ \E l \in Loops \ {0} : LoopStep(l)
  \/ \E l \in Loops, c \in Conns : handleClose(l, c)
  \/ Destructor

Spec == Init /\ [][Next]_vars

\* The main thread and the I/O threads keep running, as long as there is
\* something their code has to do next.
FairSpec ==
  /\ Spec
  /\ WF_vars(start) /\ WF_vars(RunMainLoop)
  /\ WF_vars(MainStep) /\ WF_vars(Destructor)
  /\ \A l \in Loops \ {0} : WF_vars(LoopStep(l))

-----------------------------------------------------------------------------
\* Types: next_ is an index of subLoops_, connections_ maps descriptors to
\* connections, and a batch is a prefix of the functors queued on its loop.
TypeOK ==
  /\ backlog \in 0..MaxConns /\ arrived \in 0..MaxConns
  /\ errors \in 0..MaxErrors
  /\ listening_ \in BOOLEAN /\ acceptEdge \in BOOLEAN
  /\ created \in 0..MaxConns
  /\ conn \in [Conns -> [state : States, fd : Fds \cup {0}, loop : Loops,
                         registered : BOOLEAN]]
  /\ closes \in [Conns -> 0..MaxCloses]
  /\ connections_ \in [Fds -> 0..MaxConns]
  /\ threadNum_ \in 0..MaxThreads
  /\ next_ \in 0..(IF threadNum_ = 0 THEN 0 ELSE threadNum_ - 1)
  /\ pc \in [Loops -> {"before", "poll", "accept", "store", "events",
                       "pending", "exited"}]
  /\ tasks \in [Loops -> Seq({"established", "remove", "destroyed"} \X Conns)]
  /\ batch \in [Loops -> Nat] /\ \A l \in Loops : batch[l] <= Len(tasks[l])
  /\ quit_ \in [Loops -> BOOLEAN] /\ lateCall \in BOOLEAN
  /\ phase \in {"new", "running", "quitting", "gone"}

\* A connection that exists and has not been closed is in connections_ under
\* its own descriptor, unless ~TcpServer is at work: a late or repeated
\* removal of a connection that had the same descriptor never takes out
\* another one.
OpenIsTracked ==
  \A c \in 1..created :
    (conn[c].state # "kDisconnected" /\ pc[0] # "exited"
       /\ ~(pc[0] = "store" /\ c = created))
    => connections_[conn[c].fd] = c

\* No connection object goes away while the Poller of a running loop has its
\* channel or while state_ is not kDisconnected, as ~TcpConnection asserts:
\* every way out of the map leads through connectionDestroyed.
ReleasedIsClean ==
  \A c \in 1..created :
    (~Held(c) /\ pc[conn[c].loop] # "exited")
    => ~conn[c].registered /\ conn[c].state = "kDisconnected"

\* Edge triggering loses no connection: while the main loop is not inside
\* Acceptor::handleRead, connections wait only if epoll will report them.
WaitingIsReported ==
  (backlog > 0 /\ pc[0] \notin {"accept", "store"}) => acceptEdge \/ phase = "gone"

\* A connection that was closed is taken out of the map, destroyed on its
\* loop and released (for good, so that all are released again and again).
ClosedIsReleased ==
  []<>(\A c \in 1..created : closes[c] > 0 => ~Held(c))

\* Without I/O threads runInLoop acts at once: ~TcpServer leaves no connection
\* open behind it, and none of its callbacks is called after it is gone.
SingleTeardownClean ==
  threadNum_ = 0 =>
    /\ phase = "gone" => \A c \in 1..created : conn[c].state = "kDisconnected"
    /\ ~lateCall

\* The same with I/O threads, as the comments of ~TcpServer promise
\* (TcpServer.cc:30 and :35).  It does not hold: a loop that finds quit_ set
\* leaves without executing the connectionDestroyed queued on it.
TeardownDestroysAll ==
  phase = "gone" => \A c \in 1..created : conn[c].state = "kDisconnected"

\* No connection calls back into a TcpServer whose std::functions are gone.
\* It does not hold with I/O threads: the callbacks are declared after
\* threadPool_, hence destroyed before its threads are joined.
CallbacksOutliveLoops == ~lateCall
=============================================================================
