--------------------------- MODULE TcpConnection ---------------------------
(***************************************************************************)
(* net::TcpConnection on its I/O loop: the handlers Channel::handler calls *)
(* for the events epoll reported, the output path (sendInLoop, handleWrite,*)
(* shutdownInLoop), the close path (handleClose, handleError,              *)
(* connectionDestroyed), and other threads calling send() and shutdown(),  *)
(* which read and write state_ without synchronisation and queue lambdas   *)
(* holding a raw `this'.                                                   *)
(*                                                                         *)
(* Bytes are numbered in the order in which sendInLoop takes them.  The    *)
(* socket is a send buffer of SndCap bytes that the peer drains, a count   *)
(* of unread messages, the peer's FIN, a reset, and SO_ERROR; epoll is     *)
(* edge triggered and reports the socket when `edge' is set.               *)
(***************************************************************************)
EXTENDS Naturals, Sequences

CONSTANTS
  Foreign,        \* threads other than the I/O loop's that use the connection
  MaxBytes,       \* bound: bytes passed to send()
  MaxLen,         \* bound: bytes in one send()
  MaxMessages,    \* bound: messages the peer sends
  SndCap          \* size of the socket's send buffer

ASSUME ConnConstants ==
  /\ MaxBytes \in Nat
  /\ MaxLen \in Nat \ {0}
  /\ MaxMessages \in Nat
  /\ SndCap \in Nat \ {0}

VARIABLES
  state_,
  interest,       \* channel_->events(): "R" and "W"
  index,          \* channel_'s state in the Poller
  outputBuffer_,
  offered,        \* history: bytes passed to send()
  taken,          \* history: bytes sendInLoop has taken, and numbered
  wire,           \* history: bytes the socket accepted, in order
  unread, peerFin, rst, soError,        \* socket: receiving side
  inflight, noSpace, finSent,           \* socket: sending side
  edge,           \* the socket is on epoll's ready list
  received,       \* messages the peer has sent
  closed,         \* history: handleClose was called
  pc, after,      \* where the loop is; where a user callback returns to
  calls,          \* the running handler and those still to be called
  functors,       \* tasks_ of the loop
  batch,          \* functors left of the batch being executed
  calling,        \* what each foreign thread is in the middle of
  removals,       \* closeCallback_ calls the server has not acted upon
  destroyed,      \* connectionDestroyed has run
  alive           \* the object exists

socketIn == <<unread, peerFin, rst, soError, received>>
channel == <<interest, index>>
output == <<outputBuffer_, taken, wire, inflight, finSent>>
control == <<pc, after, closed, calls, batch>>
callers == <<calling, offered>>
lifetime == <<removals, destroyed, alive>>
vars == <<state_, channel, output, noSpace, edge, socketIn, control, functors,
          callers, lifetime>>

Init ==
  /\ state_ = "kConnecting"
  /\ interest = {} /\ index = "kNew"
  /\ outputBuffer_ = <<>> /\ offered = 0 /\ taken = 0 /\ wire = <<>>
  /\ unread = 0 /\ peerFin = FALSE /\ rst = FALSE /\ soError = FALSE
  /\ inflight = 0 /\ noSpace = FALSE /\ finSent = FALSE
  /\ edge = FALSE
  /\ received = 0
  /\ pc = "loop" /\ after = "loop" /\ closed = FALSE /\ calls = <<>>
  /\ functors = <<<<"established", 0>>>>
  /\ batch = 0
  /\ calling = [f \in Foreign |-> "nothing"]
  /\ removals = 0 /\ destroyed = FALSE /\ alive = TRUE

-----------------------------------------------------------------------------
(* The socket and epoll.                                                   *)

isWriting == "W" \in interest
Free == SndCap - inflight
Broken == rst \/ finSent          \* write() fails with EPIPE or ECONNRESET

\* read() returning 0 is taken for EAGAIN.
MutantAtEof == unread = 0 /\ rst

\* read() returns 0, or fails with ECONNRESET.
AtEof == unread = 0 /\ (peerFin \/ rst)

\* What epoll finds for a socket watched for `watched' with `free' bytes of
\* room in its send buffer.
Events(watched, free) ==
  (IF "R" \in watched /\ (unread > 0 \/ peerFin \/ rst) THEN {"IN"} ELSE {})
  \cup (IF "W" \in watched /\ (free > 0 \/ Broken) THEN {"OUT"} ELSE {})
  \cup (IF soError THEN {"ERR"} ELSE {})
  \cup (IF rst \/ (peerFin /\ finSent) THEN {"HUP"} ELSE {})

\* Channel::update through Poller::updateChannel: EPOLL_CTL_ADD and MOD look
\* at the socket at once; looking at a full one asks for a later wakeup.
Update(watched, free) ==
  /\ interest' = watched
  /\ IF index = "kAdded" /\ watched = {}
     THEN index' = "kDeleted" /\ edge' = FALSE /\ UNCHANGED noSpace
     ELSE /\ index' = "kAdded"
          /\ edge' = (edge \/ Events(watched, free) # {})
          /\ noSpace' = (noSpace \/ free = 0)

\* Something happens on the socket that epoll is told of.
Notify == edge' = (edge \/ index = "kAdded")

Arrive ==
  /\ received < MaxMessages /\ ~peerFin /\ ~rst
  /\ received' = received + 1
  /\ unread' = unread + 1
  /\ Notify
  /\ UNCHANGED <<state_, channel, output, noSpace, peerFin, rst, soError,
                 control, functors, callers, lifetime>>

PeerCloses ==
  /\ ~peerFin /\ ~rst
  /\ peerFin' = TRUE
  /\ Notify
  /\ UNCHANGED <<state_, channel, output, noSpace, unread, rst, soError,
                 received, control, functors, callers, lifetime>>

PeerResets ==
  /\ ~rst
  /\ rst' = TRUE /\ soError' = TRUE
  /\ Notify
  /\ UNCHANGED <<state_, channel, output, noSpace, unread, peerFin, received,
                 control, functors, callers, lifetime>>

\* The peer acknowledges a byte.  epoll is told only if a writer met a full
\* buffer since the last time, and only if it watches for EPOLLOUT.
Drain ==
  /\ inflight > 0 /\ ~rst
  /\ inflight' = inflight - 1
  /\ noSpace' = FALSE
  /\ edge' = (edge \/ (noSpace /\ isWriting /\ index = "kAdded"))
  /\ UNCHANGED <<state_, channel, outputBuffer_, taken, wire, finSent,
                 socketIn, control, functors, callers, lifetime>>

-----------------------------------------------------------------------------
(* send and shutdown on the loop thread.                                   *)

Numbers(k, n) == [i \in 1..n |-> k + i]
Least(m, n) == IF m < n THEN m ELSE n

\* What a direct write() takes of len bytes.
Written(len) == Least(len, Free)

\* The whole message is buffered again after a partial write.
MutantUnsent(data, nwrote) == data

\* What is left of data behind the bytes written.
Unsent(data, nwrote) == SubSeq(data, nwrote + 1, Len(data))

\* EPOLLOUT is left alone.
MutantStartsWriting(remaining) == FALSE

\* Whether sendInLoop enables EPOLLOUT for what is left.
StartsWriting(remaining) == remaining > 0 /\ ~isWriting

\* sendInLoop(len), queue being the functors then queued: nothing on a
\* connection that is closed; written at once if nothing is waiting, given up
\* if that fails; what is left goes to the output buffer and EPOLLOUT is
\* watched for.
sendInLoop(len, queue) ==
  LET direct == ~isWriting /\ outputBuffer_ = <<>>
      nwrote == IF direct THEN Written(len) ELSE 0
      data == Numbers(taken, len)
  IN  IF state_ = "kDisconnected" \/ (direct /\ Broken)
      THEN functors' = queue /\ UNCHANGED <<output, channel, noSpace, edge>>
      ELSE /\ taken' = taken + len
           /\ wire' = wire \o SubSeq(data, 1, nwrote)
           /\ inflight' = inflight + nwrote
           /\ functors' = IF nwrote = len
                          THEN Append(queue, <<"writeComplete", 0>>) ELSE queue
           /\ outputBuffer_' = outputBuffer_ \o Unsent(data, nwrote)
           /\ IF StartsWriting(len - nwrote)
              THEN Update(interest \cup {"W"}, Free - nwrote)
              ELSE UNCHANGED <<channel, noSpace, edge>>
           /\ UNCHANGED finSent

\* shutdown() does not wait for the output buffer.
MutantCanShutWrite == TRUE

CanShutWrite == ~isWriting

\* shutdownInLoop: SHUT_WR once nothing is being written.
shutdownInLoop ==
  /\ finSent' = (finSent \/ CanShutWrite)
  /\ edge' = (edge \/ (CanShutWrite /\ ~finSent /\ peerFin /\ index = "kAdded"))
  /\ UNCHANGED <<outputBuffer_, taken, wire, inflight, channel, noSpace>>

Offer(len) == offered + len <= MaxBytes /\ offered' = offered + len

\* User code on the loop thread, inside a callback.
UserSends(len) ==
  /\ pc = "user"
  /\ state_ = "kConnected"
  /\ Offer(len)
  /\ sendInLoop(len, functors)
  /\ UNCHANGED <<state_, socketIn, control, calling, lifetime>>

UserShutsDown ==
  /\ pc = "user"
  /\ state_ = "kConnected"
  /\ state_' = "kDisconnecting"
  /\ shutdownInLoop
  /\ UNCHANGED <<socketIn, control, functors, callers, lifetime>>

UserReturns ==
  /\ pc = "user"
  /\ pc' = after /\ after' = "loop"
  /\ UNCHANGED <<state_, channel, output, noSpace, edge, socketIn, closed, calls,
                 batch, functors, callers, lifetime>>

-----------------------------------------------------------------------------
(* send and shutdown on another thread: the test of state_ and what follows *)
(* are two steps.                                                          *)

ForeignBegins(f, op) ==
  /\ alive
  /\ calling[f] = "nothing"
  /\ state_ = "kConnected"
  /\ calling' = [calling EXCEPT ![f] = op]
  /\ UNCHANGED <<state_, channel, output, noSpace, edge, socketIn, control,
                 functors, offered, lifetime>>

ForeignSends(f, len) ==
  /\ calling[f] = "send"
  /\ Offer(len)
  /\ functors' = Append(functors, <<"send", len>>)
  /\ calling' = [calling EXCEPT ![f] = "done"]
  /\ UNCHANGED <<state_, channel, output, noSpace, edge, socketIn, control,
                 lifetime>>

ForeignShutsDown(f) ==
  /\ calling[f] = "shutdown"
  /\ state_' = "kDisconnecting"
  /\ functors' = Append(functors, <<"shutdown", 0>>)
  /\ calling' = [calling EXCEPT ![f] = "done"]
  /\ UNCHANGED <<channel, output, noSpace, edge, socketIn, control, offered,
                 lifetime>>

-----------------------------------------------------------------------------
(* The loop: events.                                                       *)

\* Channel::handler: which callbacks are called for the events, and in which
\* order.
Handlers(ev) ==
  (IF "HUP" \in ev /\ "IN" \notin ev THEN <<"close">> ELSE <<>>)
  \o (IF "ERR" \in ev THEN <<"error">> ELSE <<>>)
  \o (IF "IN" \in ev THEN <<"read">> ELSE <<>>)
  \o (IF "OUT" \in ev THEN <<"write">> ELSE <<>>)

Report ==
  /\ pc = "loop" /\ calls = <<>> /\ batch = 0 /\ alive
  /\ edge
  /\ edge' = FALSE
  /\ noSpace' = (noSpace \/ Free = 0)
  /\ calls' = Handlers(Events(interest, Free))
  /\ UNCHANGED <<state_, channel, output, socketIn, pc, after, closed, batch, functors,
                 callers, lifetime>>

\* The handler is running: it is the first of those called.
Running(handler) == pc = "loop" /\ calls # <<>> /\ Head(calls) = handler

\* User code is called, and returns to where the handler goes on.
Callback(place) == pc' = "user" /\ after' = place

\* The connection is closed but not marked so.
MutantClosedState == state_

ClosedState == "kDisconnected"

\* handleClose up to the user's connection callback.
handleClose ==
  /\ state_' = ClosedState
  /\ closed' = TRUE
  /\ Callback("closing")

\* handleClose's second callback: the server takes the connection out of its
\* map and queues connectionDestroyed on this loop.  The handler is done.
CloseCallback ==
  /\ pc = "closing"
  /\ removals' = removals + 1
  /\ pc' = "loop"
  /\ calls' = Tail(calls)
  /\ UNCHANGED <<state_, channel, output, noSpace, edge, socketIn, after, closed,
                 batch, functors, callers, destroyed, alive>>

\* handleError reads SO_ERROR, which clears it, and closes.
handleError ==
  /\ Running("close") \/ Running("error")
  /\ soError' = IF Running("error") THEN FALSE ELSE soError
  /\ handleClose
  /\ UNCHANGED <<channel, output, noSpace, edge, unread, peerFin, rst,
                 received, calls, batch, functors, callers, lifetime>>

\* handleRead reads once and returns.
MutantAfterMessage == Tail(calls)

\* handleRead goes on reading after the message callback.
AfterMessage == calls

\* One turn of handleRead's loop: a message is read and the message callback
\* called; end of file or ECONNRESET closes; EAGAIN ends the loop.
handleRead ==
  /\ Running("read")
  /\ \/ /\ unread > 0
        /\ \E n \in 1..unread : unread' = unread - n
        /\ calls' = AfterMessage
        /\ Callback("loop")
        /\ UNCHANGED <<state_, closed, soError>>
     \/ /\ AtEof
        /\ soError' = FALSE
        /\ handleClose
        /\ UNCHANGED <<unread, calls>>
     \/ /\ unread = 0 /\ ~AtEof
        /\ calls' = Tail(calls)
        /\ UNCHANGED <<state_, pc, after, closed, unread, soError>>
  /\ UNCHANGED <<channel, output, noSpace, edge, peerFin, rst, received,
                 batch, functors, callers, lifetime>>

\* One turn of handleWrite's loop.  Its early return without EPOLLOUT does not
\* happen: only handleWrite and connectionDestroyed stop watching for it, and
\* neither runs between the report and this handler.
handleWrite ==
  /\ Running("write") /\ isWriting
  /\ \/ /\ outputBuffer_ = <<>>                  \* all written
        /\ Update(interest \ {"W"}, Free)
        /\ Callback("flushed")
        /\ UNCHANGED <<state_, closed, soError, calls, outputBuffer_, wire, inflight>>
     \/ /\ outputBuffer_ # <<>> /\ ~Broken /\ Free > 0
        /\ LET n == Least(Len(outputBuffer_), Free)
           IN  /\ wire' = wire \o SubSeq(outputBuffer_, 1, n)
               /\ outputBuffer_' = SubSeq(outputBuffer_, n + 1, Len(outputBuffer_))
               /\ inflight' = inflight + n
        /\ UNCHANGED <<state_, channel, noSpace, edge, soError, calls, pc, after, closed>>
     \/ /\ outputBuffer_ # <<>> /\ ~Broken /\ Free = 0      \* EAGAIN: re-arm
        /\ Update(interest, Free)
        /\ calls' = Tail(calls)
        /\ UNCHANGED <<state_, soError, pc, after, closed, outputBuffer_, wire, inflight>>
     \/ /\ outputBuffer_ # <<>> /\ Broken                   \* handleError
        /\ soError' = FALSE
        /\ handleClose
        /\ UNCHANGED <<channel, noSpace, edge, calls, outputBuffer_, wire, inflight>>
  /\ UNCHANGED <<taken, finSent, unread, peerFin, rst, received, batch,
                 functors, callers, lifetime>>

\* A shutdown() that met unsent output is not completed.
MutantShutsDownNow == FALSE

ShutsDownNow == state_ = "kDisconnecting"

\* The end of handleWrite, after the write-complete callback.
Flushed ==
  /\ pc = "flushed"
  /\ pc' = "loop"
  /\ calls' = Tail(calls)
  /\ IF ShutsDownNow
     THEN shutdownInLoop
     ELSE UNCHANGED <<output, channel, noSpace, edge>>
  /\ UNCHANGED <<state_, socketIn, after, closed, batch, functors, callers, lifetime>>

-----------------------------------------------------------------------------
(* The loop: functors, and the end of the connection.                      *)

BeginBatch ==
  /\ pc = "loop" /\ calls = <<>> /\ batch = 0 /\ alive
  /\ functors # <<>>
  /\ batch' = Len(functors)
  /\ UNCHANGED <<state_, channel, output, noSpace, edge, socketIn, pc, after, closed,
                 calls, functors, callers, lifetime>>

\* The loop takes the next functor of the batch.
Take(name) ==
  /\ pc = "loop" /\ batch > 0 /\ alive
  /\ Head(functors)[1] = name
  /\ batch' = batch - 1

connectionEstablished ==
  /\ Take("established")
  /\ functors' = Tail(functors)
  /\ state_' = "kConnected"
  /\ Update(interest \cup {"R"}, Free)
  /\ Callback("loop")
  /\ UNCHANGED <<output, socketIn, closed, calls, callers, lifetime>>

RunSend ==
  /\ Take("send")
  /\ sendInLoop(Head(functors)[2], Tail(functors))
  /\ UNCHANGED <<state_, socketIn, pc, after, closed, calls, callers, lifetime>>

RunShutdown ==
  /\ Take("shutdown")
  /\ functors' = Tail(functors)
  /\ shutdownInLoop
  /\ UNCHANGED <<state_, socketIn, pc, after, closed, calls, callers, lifetime>>

RunWriteComplete ==
  /\ Take("writeComplete")
  /\ functors' = Tail(functors)
  /\ Callback("loop")
  /\ UNCHANGED <<state_, channel, output, noSpace, edge, socketIn, closed,
                 calls, callers, lifetime>>

\* disableAll() and remove() on the channel.
connectionDestroyed ==
  /\ Take("destroy")
  /\ functors' = Tail(functors)
  /\ state_' = "kDisconnected"
  /\ interest' = {} /\ index' = "kNew" /\ edge' = FALSE
  /\ destroyed' = TRUE
  /\ UNCHANGED <<output, noSpace, socketIn, pc, after, closed, calls, callers,
                 removals, alive>>

\* The server's removeConnection and removeConnectionInLoop.
ServerRemoves ==
  /\ removals > 0
  /\ removals' = removals - 1
  /\ functors' = Append(functors, <<"destroy", 0>>)
  /\ UNCHANGED <<state_, channel, output, noSpace, edge, socketIn,
                 control, callers, destroyed, alive>>

\* The last shared_ptr goes: the server's is gone, no callback or functor of
\* the current batch holds one, no thread is inside a call on the object and
\* no connectionDestroyed is queued or about to be.
Destruct ==
  /\ alive /\ destroyed
  /\ pc = "loop" /\ calls = <<>> /\ batch = 0
  /\ removals = 0 /\ \A k \in DOMAIN functors : functors[k][1] # "destroy"
  /\ \A f \in Foreign : calling[f] \in {"nothing", "done"}
  /\ alive' = FALSE
  /\ UNCHANGED <<state_, channel, output, noSpace, edge, socketIn,
                 control, functors, callers, removals, destroyed>>

-----------------------------------------------------------------------------
Handler ==
  \/ handleError \/ handleRead \/ handleWrite \/ Flushed
  \/ CloseCallback \/ UserReturns

Functor ==
  \/ BeginBatch \/ connectionEstablished \/ RunSend \/ RunShutdown
  \/ RunWriteComplete \/ connectionDestroyed

LoopStep == Report \/ Handler \/ Functor

Next ==
  \/ LoopStep
  \/ \E len \in 1..MaxLen : UserSends(len)
  \/ UserShutsDown
  \/ \E f \in Foreign :
       \/ \E op \in {"send", "shutdown"} : ForeignBegins(f, op)
       \/ \E len \in 1..MaxLen : ForeignSends(f, len)
       \/ ForeignShutsDown(f)
  \/ Arrive \/ PeerCloses \/ PeerResets \/ Drain
  \/ ServerRemoves \/ Destruct

Spec == Init /\ [][Next]_vars

(***************************************************************************)
(* Fairness: the loop runs (EventLoop: events are reported and functors    *)
(* executed), callbacks return, the server's own loop runs too, and the    *)
(* peer goes on reading unless it resets.                                  *)
(***************************************************************************)
FairSpec ==
  Spec /\ WF_vars(LoopStep) /\ WF_vars(ServerRemoves) /\ WF_vars(Drain)

-----------------------------------------------------------------------------
FunctorNames ==
  {"established", "send", "shutdown", "writeComplete", "destroy"}

\* Types: the socket never holds more than its send buffer, no more bytes
\* are buffered or written than send() was given, and the batch being
\* executed is a prefix of the functors queued.
TypeOK ==
  /\ state_ \in {"kConnecting", "kConnected", "kDisconnecting", "kDisconnected"}
  /\ interest \subseteq {"R", "W"}
  /\ index \in {"kNew", "kAdded", "kDeleted"}
  /\ outputBuffer_ \in Seq(1..MaxBytes)
  /\ offered \in 0..MaxBytes
  /\ taken \in 0..MaxBytes
  /\ wire \in Seq(1..MaxBytes)
  /\ unread \in 0..MaxMessages /\ received \in 0..MaxMessages
  /\ {peerFin, rst, soError, noSpace, finSent, edge} \subseteq BOOLEAN
  /\ inflight \in 0..SndCap
  /\ pc \in {"loop", "user", "closing", "flushed"}
  /\ after \in {"loop", "closing", "flushed"}
  /\ calls \in Seq({"close", "error", "read", "write"})
  /\ functors \in Seq(FunctorNames \X (0..MaxLen))
  /\ batch \in 0..Len(functors)
  /\ calling \in [Foreign -> {"nothing", "send", "shutdown", "done"}]
  /\ removals \in Nat /\ closed \in BOOLEAN
  /\ {destroyed, alive} \subseteq BOOLEAN

\* The byte stream: what the socket accepted followed by what is buffered is
\* every byte sendInLoop took, once and in order, whatever mixture of direct
\* and buffered writes, callbacks and threads produced it.
StreamInOrder == wire \o outputBuffer_ = Numbers(0, taken)

\* Buffered output is never forgotten: EPOLLOUT is watched for, and the
\* handler is about to run, or epoll has the socket on its list, or the
\* buffer is full and the peer's next acknowledgement will put it there.
WriteScheduled ==
  \/ \E k \in DOMAIN calls : calls[k] = "write"
  \/ edge
  \/ Free = 0 /\ noSpace

OutputWatched ==
  outputBuffer_ # <<>> /\ ~closed /\ ~rst
    => isWriting /\ WriteScheduled

\* Unread input is never forgotten under edge triggering: the read handler
\* is running or due, or epoll has the socket on its list.
InputWatched ==
  (unread > 0 \/ peerFin) /\ ~closed /\ index = "kAdded"
    => \/ edge
       \/ \E k \in DOMAIN calls : calls[k] = "read"

\* shutdown() sends the FIN only behind the data: when the write side of an
\* open connection is shut nothing is left in the output buffer, and nothing
\* is added to it later.
FinAfterData == finSent /\ ~closed => outputBuffer_ = <<>>

\* A connection that shutdown() was called on sends its FIN, or is closed and
\* destroyed (connectionDestroyed may come before a late store of another
\* thread's shutdown()).
ShutdownCompletes ==
  state_ = "kDisconnecting" ~> finSent \/ state_ = "kDisconnected" \/ destroyed

\* A connection that the peer closed or reset is destroyed.
ClosedIsDestroyed == (peerFin \/ rst) ~> destroyed

\* A connection that only its own loop thread used is torn down cleanly,
\* however often and by whichever handlers it was closed: after
\* connectionDestroyed its channel is not registered again and state_ is what
\* the destructor asserts, and no functor of its own is left behind it.
LocalTeardownClean ==
  (\A f \in Foreign : calling[f] = "nothing") =>
    /\ destroyed => index = "kNew" /\ state_ = "kDisconnected"
    /\ ~alive => functors = <<>>

\* After connectionDestroyed the channel stays out of the Poller, whichever
\* threads use the connection.
DestroyedStaysOut == destroyed => index = "kNew"

\* "when the destructor is called, make sure the connection is disconnected"
\* (TcpConnection.cc:47): the assertion in ~TcpConnection.
DestructedDisconnected == ~alive => state_ = "kDisconnected"

\* No functor that holds a raw `this' outlives the object.
NoDanglingFunctor == ~alive => functors = <<>>
=============================================================================
