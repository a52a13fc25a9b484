----------------------------- MODULE TcpClient -----------------------------
(***************************************************************************)
(* net::TcpClient and its Connector: a non-blocking connect() watched for  *)
(* by a helper channel, handed over to a TcpConnection when it succeeds,   *)
(* stopped from any thread while it is under way, and shut down through    *)
(* connection_, which mutex_ protects.  The loop thread runs the handlers  *)
(* and the functors; one other thread uses the client too.                 *)
(*                                                                         *)
(* Sockets are numbered in the order of the attempts.  An assertion that   *)
(* fails ends the program: `failed' names it, and nothing happens any more;*)
(* so does a callback into a TcpClient that was destroyed ("~TcpClient").  *)
(***************************************************************************)
EXTENDS Naturals, Sequences, SequencesExt

CONSTANTS
  MaxStarts,             \* bound: calls of connect()
  MaxStops,              \* bound: calls of stop()
  MaxCloses              \* handleClose calls on a connection: a reset makes two

ASSUME ClientConstants ==
  /\ MaxStarts \in Nat /\ MaxStops \in Nat /\ MaxCloses \in Nat

VARIABLES
  connected_, state_,    \* Connector
  channel_,              \* the socket channel_ is for; 0: no channel
  registered,            \* sockets whose helper channel the Poller has
  sock,                  \* what has become of each socket
  made,                  \* sockets made so far
  connection_,           \* TcpClient: the socket of the connection; 0: none
  conn,                  \* the TcpConnection on each socket
  closes,                \* history: handleClose calls on each
  handed,                \* history: what each socket was when handed over
  closing,               \* the connection whose handleClose runs; 0: none
  tasks, batch, pc,      \* the loop: functors, rest of the batch, place
  call,                  \* what the other thread is in the middle of
  target,                \* the connection its disconnect() has got hold of
  starts, stops,         \* calls of connect() and stop() so far
  stopped,               \* history: a stop() after the last connect() has run
  alive,                 \* the TcpClient, and with it the Connector, exists
  rebound,               \* ~TcpClient has replaced the close callback
  failed                 \* the assertion that failed

Socks == 1..MaxStarts

connector == <<connected_, state_, channel_, registered>>
sockets == <<sock, made>>
client == <<connection_, conn, closes, handed, closing>>
loop == <<tasks, batch, pc>>
user == <<call, target, starts, stops, stopped>>
object == <<alive, rebound>>
vars == <<connector, sockets, client, loop, user, object, failed>>

Init ==
  /\ connected_ = FALSE /\ state_ = "kDisconnected"
  /\ channel_ = 0 /\ registered = {}
  /\ sock = [s \in Socks |-> "none"] /\ made = 0
  /\ connection_ = 0
  /\ conn = [s \in Socks |-> "none"]
  /\ closes = [s \in Socks |-> 0]
  /\ handed = [s \in Socks |-> "no"] /\ closing = 0
  /\ tasks = <<>> /\ batch = 0 /\ pc = "poll"
  /\ call = "none" /\ target = 0 /\ starts = 0 /\ stops = 0 /\ stopped = FALSE
  /\ alive = TRUE /\ rebound = FALSE
  /\ failed = "none"

-----------------------------------------------------------------------------
(* Connector, on the loop thread.  q is what the functors are by then.     *)

\* The channel stays in the Poller.
MutantReleased == registered

\* disableAll() and remove() on channel_.
Released == registered \ {channel_}

\* getSocket: the channel leaves the Poller and is to be deleted later.
getSocket(q) ==
  /\ registered' = Released
  /\ tasks' = Append(q, <<"reset", 0>>)
  /\ UNCHANGED channel_

\* enableWrite() is forgotten.
MutantWatched(s) == registered

\* enableWrite() on the new channel.
Watched(s) == registered \cup {s}

\* connect(): refused at once, or under way (or done) and watched for.
connect(q) ==
  LET s == made + 1
  IN  /\ made' = s
      /\ tasks' = q
      /\ \/ /\ sock' = [sock EXCEPT ![s] = "closed"]
            /\ UNCHANGED <<state_, channel_, registered>>
         \/ /\ \E answer \in {"syn", "up"} : sock' = [sock EXCEPT ![s] = answer]
            /\ state_' = "kConnecting"
            /\ channel_' = s
            /\ registered' = Watched(s)

\* stop() is not looked at again.
MutantWanted(want) == TRUE

\* startInLoop goes on only if no stop() came in between.
Wanted(want) == want

\* startInLoop, connected_ being want.
startInLoop(want, q) ==
  \/ /\ state_ # "kDisconnected"
     /\ failed' = "startInLoop"
     /\ UNCHANGED <<state_, channel_, registered, sockets, tasks>>
  \/ /\ state_ = "kDisconnected" /\ ~Wanted(want)
     /\ tasks' = q
     /\ UNCHANGED <<state_, channel_, registered, sockets, failed>>
  \/ /\ state_ = "kDisconnected" /\ Wanted(want)
     /\ connect(q)
     /\ UNCHANGED failed

\* The socket is left open.
MutantClosed(s) == sock

Closed(s) == [sock EXCEPT ![s] = "closed"]

\* stopInLoop gives a connection that is under way up, and only that.
stopInLoop(q) ==
  \/ /\ state_ = "kConnecting"
     /\ state_' = "kDisconnected"
     /\ getSocket(q)
     /\ sock' = Closed(channel_)
  \/ /\ state_ # "kConnecting"
     /\ tasks' = q
     /\ UNCHANGED <<state_, channel_, registered, sock>>

-----------------------------------------------------------------------------
(* The other thread, and the application's code on the loop thread.        *)

Runs == failed = "none"

connectForeign ==
  /\ Runs /\ alive /\ call = "none" /\ starts < MaxStarts
  /\ starts' = starts + 1 /\ stopped' = FALSE
  /\ connected_' = TRUE
  /\ call' = "start"
  /\ UNCHANGED <<state_, channel_, registered, sockets, client, loop, target,
                 stops, object, failed>>

stopForeign ==
  /\ Runs /\ alive /\ call = "none" /\ stops < MaxStops
  /\ stops' = stops + 1
  /\ connected_' = FALSE
  /\ call' = "stop"
  /\ UNCHANGED <<state_, channel_, registered, sockets, client, loop, target,
                 starts, stopped, object, failed>>

\* runInLoop or queueInLoop, after the assignment to connected_.
QueueForeign ==
  /\ Runs /\ call \in {"start", "stop"}
  /\ tasks' = Append(tasks, <<call, starts>>)
  /\ call' = "none"
  /\ UNCHANGED <<connector, sockets, client, batch, pc, target, starts, stops,
                 stopped, object, failed>>

\* disconnect() keeps the pointer and calls shutdown() after the unlock.
MutantUnlocked == TRUE

\* disconnect() holds mutex_ until shutdown() has returned.
Unlocked == call # "shutdown"

\* disconnect() has something to shut down: shutdown() tests state_.
Connected == connection_ # 0 /\ conn[connection_] = "up"

\* disconnect() on the other thread: the lock, and shutdown() up to its test.
disconnectForeign ==
  /\ Runs /\ alive /\ call = "none" /\ Connected
  /\ call' = "shutdown" /\ target' = connection_
  /\ UNCHANGED <<connector, sockets, client, loop, starts, stops, stopped,
                 object, failed>>

\* The rest of it: the store to state_, whatever it is by now, and the functor
\* with the bare pointer; then the unlock.
shutdownForeign ==
  /\ Runs /\ call = "shutdown"
  /\ conn' = [conn EXCEPT ![target] = "fin"]
  /\ tasks' = Append(tasks, <<"shutdown", target>>)
  /\ call' = "none" /\ target' = 0
  /\ UNCHANGED <<connector, sockets, connection_, closes, handed, closing, batch,
                 pc, starts, stops, stopped, object, failed>>

\* The application's code on the loop thread: a callback, the one of a close
\* included, or a functor.  None runs between two handlers of one event.
InCallback == pc # "write"

\* disconnect() on the loop thread: shutdownInLoop runs at once.
disconnectOnLoop ==
  /\ Runs /\ alive /\ InCallback /\ Unlocked /\ Connected
  /\ conn' = [conn EXCEPT ![connection_] = "fin"]
  /\ UNCHANGED <<connector, sockets, connection_, closes, handed, closing, loop,
                 user, object, failed>>

\* connect() on the loop thread runs startInLoop at once.
connectInLoop ==
  /\ Runs /\ alive /\ InCallback /\ starts < MaxStarts
  /\ starts' = starts + 1 /\ stopped' = FALSE
  /\ connected_' = TRUE
  /\ startInLoop(TRUE, tasks)
  /\ UNCHANGED <<client, batch, pc, call, target, stops, object>>

\* stop() on the loop thread queues stopInLoop all the same.
stopOnLoop ==
  /\ Runs /\ alive /\ InCallback /\ stops < MaxStops
  /\ stops' = stops + 1
  /\ connected_' = FALSE
  /\ tasks' = Append(tasks, <<"stop", starts>>)
  /\ UNCHANGED <<state_, channel_, registered, sockets, client, batch, pc, call,
                 target, starts, stopped, object, failed>>

\* The channel is tied to the Connector: handleEvents holds it from the first
\* handler of an event to the last.
Guarded == pc = "write"

\* ~TcpClient on the other thread: the close callback of a connection is to
\* be replaced, a connection under way to be stopped; then connector_ goes,
\* and the channel it may still have with it, unless an event holds it.
Destroy ==
  /\ Runs /\ alive /\ call = "none"
  /\ alive' = FALSE
  /\ \/ /\ connection_ # 0
        /\ tasks' = Append(tasks, <<"rebind", connection_>>)
        /\ UNCHANGED connected_
     \/ /\ connection_ = 0
        /\ connected_' = FALSE
        /\ tasks' = Append(tasks, <<"stop", starts>>)
  /\ \/ Guarded /\ UNCHANGED <<channel_, failed>>
     \/ /\ ~Guarded
        /\ failed' = IF channel_ \in registered THEN "~Channel" ELSE failed
        /\ channel_' = 0
  /\ UNCHANGED <<state_, registered, sockets, client, batch, pc, user, rebound>>

-----------------------------------------------------------------------------
(* The network, and the events it causes.                                  *)

Answer(s) ==
  /\ Runs /\ sock[s] = "syn"
  /\ \E answer \in {"up", "refused"} : sock' = [sock EXCEPT ![s] = answer]
  /\ UNCHANGED <<connector, made, client, loop, user, object, failed>>

\* EPOLLERR, before EPOLLOUT of the same event.
handleError ==
  /\ Runs /\ alive /\ pc = "poll"
  /\ channel_ \in registered /\ sock[channel_] = "refused"
  /\ state_ = "kConnecting"
  /\ getSocket(tasks)
  /\ sock' = Closed(channel_)
  /\ pc' = "write"
  /\ UNCHANGED <<connected_, state_, made, client, batch, user, object, failed>>

\* The socket becomes the client's connection, established at once.
onNewConnection(s) ==
  /\ handed' = [handed EXCEPT ![s] = sock[s]]
  /\ connection_' = s
  /\ conn' = [conn EXCEPT ![s] = "up"]

\* EPOLLOUT.  The Connector is there, the TcpClient behind its callback may be
\* gone.
handleWrite ==
  /\ Runs
  /\ \/ alive /\ pc = "poll" /\ channel_ \in registered /\ sock[channel_] = "up"
     \/ Guarded
  /\ state_ = "kConnecting"
  /\ state_' = "kConnected"
  /\ getSocket(tasks)
  /\ \/ alive /\ onNewConnection(channel_) /\ UNCHANGED failed
     \/ ~alive /\ failed' = "~TcpClient" /\ UNCHANGED <<handed, connection_, conn>>
  /\ pc' = "poll"
  /\ UNCHANGED <<connected_, sockets, closes, closing, batch, user, object>>

\* TcpConnection::handleClose up to the end of the connection callback.
handleClose(s) ==
  /\ Runs /\ pc = "poll"
  /\ conn[s] \in {"up", "fin", "down"} /\ sock[s] = "up" /\ closes[s] < MaxCloses
  /\ closes' = [closes EXCEPT ![s] = @ + 1]
  /\ conn' = [conn EXCEPT ![s] = "down"]
  /\ pc' = "close" /\ closing' = s
  /\ UNCHANGED <<connector, sockets, connection_, handed, tasks, batch, user,
                 object, failed>>

\* The pointer to the closed connection is kept.
MutantForgotten == connection_

Forgotten == 0

\* onRemoveConnection, which waits for mutex_, then removeConnection.
onRemoveConnection ==
  /\ alive /\ Unlocked
  /\ \/ /\ connection_ # closing
        /\ failed' = "onRemoveConnection"
        /\ UNCHANGED <<connection_, tasks>>
     \/ /\ connection_ = closing
        /\ connection_' = Forgotten
        /\ tasks' = Append(tasks, <<"destroy", closing>>)
        /\ UNCHANGED failed

\* The rest of handleClose: the close callback is onRemoveConnection, of a
\* client that may be gone, or what ~TcpClient has put in its place.
closeCallback_ ==
  /\ Runs /\ pc = "close"
  /\ \/ onRemoveConnection
     \/ /\ ~alive /\ ~rebound
        /\ failed' = "~TcpClient"
        /\ UNCHANGED <<connection_, tasks>>
     \/ /\ ~alive /\ rebound
        /\ tasks' = Append(tasks, <<"destroy", closing>>)
        /\ UNCHANGED <<connection_, failed>>
  /\ pc' = "poll" /\ closing' = 0
  /\ UNCHANGED <<connector, sockets, conn, closes, handed, batch, user, object>>

-----------------------------------------------------------------------------
(* The functors.                                                           *)

TakeBatch ==
  /\ Runs /\ pc = "poll"
  /\ pc' = "pending"
  /\ batch' = Len(tasks)
  /\ UNCHANGED <<connector, sockets, client, tasks, user, object, failed>>

EndBatch ==
  /\ Runs /\ pc = "pending" /\ batch = 0
  /\ pc' = "poll"
  /\ UNCHANGED <<connector, sockets, client, tasks, batch, user, object, failed>>

\* The next functor, about socket s or made by the s-th connect().
Takes(name, s) ==
  /\ Runs /\ pc = "pending" /\ batch > 0
  /\ Head(tasks) = <<name, s>>
  /\ batch' = batch - 1
  /\ UNCHANGED pc

RunStart ==
  /\ \E n \in 0..MaxStarts : Takes("start", n)
  /\ alive
  /\ startInLoop(connected_, Tail(tasks))
  /\ UNCHANGED <<connected_, client, user, object>>

RunStop ==
  /\ \E n \in 0..MaxStarts : Takes("stop", n)
  /\ alive
  /\ stopInLoop(Tail(tasks))
  /\ stopped' = (Head(tasks)[2] = starts)
  /\ UNCHANGED <<connected_, made, client, call, target, starts, stops, object,
                 failed>>

\* resetChannel deletes the channel, which asserts that no Poller has it.
resetChannel ==
  /\ Takes("reset", 0) /\ alive
  /\ tasks' = Tail(tasks)
  /\ failed' = IF channel_ \in registered THEN "~Channel" ELSE failed
  /\ channel_' = 0
  /\ UNCHANGED <<connected_, state_, registered, sockets, client, user, object>>

\* connectionDestroyed; the functor was the last to hold the connection.
connectionDestroyed(s) ==
  /\ Takes("destroy", s)
  /\ tasks' = Tail(tasks)
  /\ conn' = [conn EXCEPT ![s] = "gone"]
  /\ sock' = Closed(s)
  /\ UNCHANGED <<connector, made, connection_, closes, handed, closing, user,
                 object, failed>>

\* shutdownInLoop only shuts the write side, which TcpConnection models; it
\* must find the connection.
shutdownInLoop(s) ==
  /\ Takes("shutdown", s)
  /\ tasks' = Tail(tasks)
  /\ UNCHANGED <<connector, sockets, client, user, object, failed>>

\* ~TcpClient's functor replaces the close callback and lets go of the
\* connection, which is open: nobody holds it then, unless the application does,
\* and ~TcpConnection asserts that it is closed.
Rebind(s) ==
  /\ Takes("rebind", s)
  /\ tasks' = Tail(tasks)
  /\ rebound' = TRUE
  /\ \/ UNCHANGED failed
     \/ ~alive /\ failed' = "~TcpConnection"
  /\ UNCHANGED <<connector, sockets, client, user, alive>>

LoopStep ==
  \/ handleError \/ handleWrite \/ closeCallback_
  \/ TakeBatch \/ EndBatch
  \/ RunStart \/ RunStop \/ resetChannel
  \/ \E s \in Socks : connectionDestroyed(s) \/ shutdownInLoop(s) \/ Rebind(s)

Next ==
  \/ connectForeign \/ stopForeign \/ QueueForeign
  \/ disconnectForeign \/ shutdownForeign
  \/ connectInLoop \/ stopOnLoop \/ disconnectOnLoop
  \/ Destroy
  \/ \E s \in Socks : Answer(s)
  \/ LoopStep
  \/ \E s \in Socks : handleClose(s)

Spec == Init /\ [][Next]_vars

\* The loop runs and its poll() reports a channel that stays ready, a call
\* that was begun is finished, the network answers.
FairSpec ==
  /\ Spec
  /\ WF_vars(LoopStep) /\ SF_vars(handleError) /\ SF_vars(handleWrite)
  /\ WF_vars(QueueForeign) /\ WF_vars(shutdownForeign)
  /\ \A s \in Socks : WF_vars(Answer(s))

-----------------------------------------------------------------------------
\* Types: the Connector is in one of its three states and every functor is
\* one the code queues.
TypeOK ==
  /\ connected_ \in BOOLEAN
  /\ state_ \in {"kDisconnected", "kConnecting", "kConnected"}
  /\ channel_ \in 0..MaxStarts /\ registered \in SUBSET Socks
  /\ sock \in [Socks -> {"none", "syn", "up", "refused", "closed"}]
  /\ made \in 0..MaxStarts
  /\ connection_ \in 0..MaxStarts
  /\ conn \in [Socks -> {"none", "up", "fin", "down", "gone"}]
  /\ closes \in [Socks -> 0..MaxCloses]
  /\ handed \in [Socks -> {"no", "up", "closed"}] /\ closing \in 0..MaxStarts
  /\ tasks \in Seq({"start", "stop", "reset", "rebind", "destroy", "shutdown"}
                     \X (0..MaxStarts))
  /\ batch \in 0..Len(tasks)
  /\ pc \in {"poll", "write", "close", "pending"}
  /\ call \in {"none", "start", "stop", "shutdown"} /\ target \in 0..MaxStarts
  /\ starts \in 0..MaxStarts /\ stops \in 0..MaxStops
  /\ stopped \in BOOLEAN /\ alive \in BOOLEAN /\ rebound \in BOOLEAN
  /\ failed \in {"none", "startInLoop", "onRemoveConnection", "~Channel", "~TcpClient",
                 "~TcpConnection"}

\* However connect(), stop(), the handlers and the functors meet, an assertion
\* fails only if connect() was called a second time, a connection was closed
\* twice (a reset), or the client destroyed.
AssertionsHold ==
  failed # "none" => starts > 1 \/ ~alive \/ \E s \in Socks : closes[s] > 1

\* A socket is open only as long as somebody is responsible for closing it:
\* the Connector while it watches it, or a TcpConnection; never both.
SocketsOwned ==
  Runs =>
    \A s \in 1..made :
      LET watched == alive /\ state_ = "kConnecting" /\ channel_ = s
                       /\ s \in registered
          connected == conn[s] \in {"up", "fin", "down"}
      IN  /\ sock[s] # "closed" => watched \/ connected
          /\ ~(watched /\ connected)

\* connection_ is the connection that has not been closed; a closed one it is
\* only from the store of kDisconnected, over the user's callback, to the reset
\* at the end of the same handleClose.
ConnectionCurrent ==
  (alive /\ Runs) =>
    \A s \in Socks :
      connection_ = s <=>
        /\ conn[s] # "none"
        /\ closes[s] = 0 \/ (closes[s] = 1 /\ closing = s)

\* disconnect() on another thread never works on a connection that is gone,
\* although shutdown() tests, stores and queues a bare pointer while the loop
\* thread closes, removes and destroys the connection: not in the call, and not
\* in the functor that the call has left behind.
DisconnectSafe ==
  Runs =>
    /\ call = "shutdown" => conn[target] # "gone"
    /\ \A s \in Socks : <<"shutdown", s>> \in ToSet(tasks) => conn[s] # "gone"

\* Once stopInLoop has run, no connection is made before the next connect().
StopIsFinal ==
  [][ stopped /\ stopped' => connection_' \in {connection_, 0} ]_vars

\* A connection attempt comes to an end: it succeeds, is refused or stopped,
\* unless an assertion or the destructor ends the Connector.
AttemptEnds ==
  state_ = "kConnecting" ~> state_ # "kConnecting" \/ failed # "none" \/ ~alive

\* handleWrite is said to take out the connected socket: what it hands over
\* is connected.
HandsOverConnected == \A s \in Socks : handed[s] # "closed"

\* ~Channel asserts that it is not registered: a queued resetChannel never
\* meets the channel of a later attempt.
NoLiveChannelDeleted == failed # "~Channel"

\* TcpClient numbers its connections, one after the other: connect() fails
\* startInLoop's assertion only while an attempt is under way or a connection
\* is open.
ConnectsAgain ==
  failed = "startInLoop" => connection_ # 0 \/ channel_ \in registered

\* onRemoveConnection asserts that the connection is the client's own.
RemovesOwn == failed # "onRemoveConnection"

\* ~TcpClient is said to replace the close callback: no connection, and no
\* attempt, calls back into a client that is gone.
CallbacksOutlived == failed # "~TcpClient"

\* ~TcpConnection asserts that the connection was closed: one that is open is
\* not destroyed with the client.
OpenOutlives == failed # "~TcpConnection"

\* ~TcpClient is said to stop the Connector: no functor that holds a bare
\* pointer to it outlives it.
NoDanglingConnector ==
  ~alive => {t[1] : t \in ToSet(tasks)} \cap {"start", "stop", "reset"} = {}
=============================================================================
