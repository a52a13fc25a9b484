------------------------ MODULE TcpConnectionProofs ------------------------
(***************************************************************************)
(* Proofs about TcpConnection, for every set of threads, every number and  *)
(* length of messages and every size of the socket's buffer.               *)
(***************************************************************************)
EXTENDS TcpConnection, QueueLemmas

Functors == FunctorNames \X (0..MaxLen)

HandlerNames == {"close", "error", "read", "write"}

\* TypeOK, except that bytes are any numbers: that no more of them are taken
\* than were offered is a sum over the queued send()s.
Types ==
  /\ state_ \in {"kConnecting", "kConnected", "kDisconnecting", "kDisconnected"}
  /\ interest \subseteq {"R", "W"}
  /\ index \in {"kNew", "kAdded", "kDeleted"}
  /\ outputBuffer_ \in Seq(Nat) /\ wire \in Seq(Nat)
  /\ taken \in Nat /\ offered \in Nat
  /\ unread \in Nat /\ received \in Nat
  /\ peerFin \in BOOLEAN /\ rst \in BOOLEAN /\ soError \in BOOLEAN
  /\ noSpace \in BOOLEAN /\ finSent \in BOOLEAN /\ edge \in BOOLEAN
  /\ inflight \in 0..SndCap
  /\ pc \in {"loop", "user", "closing", "flushed"}
  /\ after \in {"loop", "closing", "flushed"}
  /\ calls \in Seq(HandlerNames)
  /\ functors \in Seq(Functors)
  /\ batch \in 0..Len(functors)
  /\ calling \in [Foreign -> {"nothing", "send", "shutdown", "done"}]
  /\ removals \in Nat /\ closed \in BOOLEAN
  /\ destroyed \in BOOLEAN /\ alive \in BOOLEAN

HasFunctor(q, name) == \E k \in DOMAIN q : q[k][1] = name
Queued(name) == HasFunctor(functors, name)
Due(handler) == Has(calls, handler)

\* The end of handleWrite, from its callback on: the "write" in front of
\* calls is not going to write any more.
Finishing == pc = "flushed" \/ after = "flushed"

\* Where the loop may be.
Phase ==
  /\ after # "loop" => pc = "user"
  /\ Finishing => calls # <<>> /\ Head(calls) = "write"
  /\ pc = "closing" \/ after = "closing" => calls # <<>> /\ closed
  /\ calls # <<>> => batch = 0

\* connectionEstablished is the first functor, before anything else happens
\* to the connection; from then on an open connection is registered and
\* watched for input.
Established ==
  /\ state_ = "kConnecting" =>
       /\ functors = <<<<"established", 0>>>>
       /\ calls = <<>> /\ pc = "loop" /\ after = "loop"
       /\ interest = {} /\ index = "kNew" /\ ~edge /\ ~closed /\ ~finSent
       /\ \A f \in Foreign : calling[f] = "nothing"
       /\ outputBuffer_ = <<>>
  /\ state_ # "kConnecting" => ~Queued("established")
  /\ state_ # "kConnecting" /\ ~closed => "R" \in interest /\ index = "kAdded"

\* Only a closed connection is removed and destroyed.
Closing ==
  /\ removals > 0 \/ Queued("destroy") \/ destroyed => closed
  /\ ~alive => destroyed

\* What OutputWatched and FinAfterData rest on: an open connection with
\* buffered output is watching for EPOLLOUT, one that watches has its next
\* write scheduled, and one whose write side is shut does not watch again.
Writing ==
  ~closed =>
    /\ finSent => ~isWriting /\ outputBuffer_ = <<>>
    /\ outputBuffer_ # <<>> => isWriting
    /\ isWriting /\ ~rst =>
         (~Finishing /\ Due("write")) \/ edge \/ (Free = 0 /\ noSpace)

\* What LocalTeardownClean rests on: closing is final, and behind the first
\* connectionDestroyed in the queue there is nothing else.
Local == \A f \in Foreign : calling[f] = "nothing"

OnlyDestroy(q) == \A k \in DOMAIN q : q[k][1] = "destroy"
DestroyLast(q) ==
  \A i, j \in DOMAIN q : i < j /\ q[i][1] = "destroy" => q[j][1] = "destroy"

Teardown ==
  Local =>
    /\ closed => state_ = "kDisconnected"
    /\ DestroyLast(functors)
    /\ destroyed =>
         /\ index = "kNew" /\ interest = {} /\ ~edge
         /\ calls = <<>> /\ pc = "loop"
         /\ OnlyDestroy(functors)
    /\ ~alive => functors = <<>> /\ removals = 0

IInv ==
  /\ Types /\ Phase /\ Established /\ Closing /\ Writing /\ InputWatched
  /\ Teardown /\ StreamInOrder
-----------------------------------------------------------------------------
\* The constructed connection satisfies the invariant.
LEMMA InitInv == Init => IInv
<1> SUFFICES ASSUME Init PROVE IInv
  OBVIOUS
<1>1. <<"established", 0>> \in Functors
  BY ConnConstants DEF Functors, FunctorNames
<1>2. functors \in Seq(Functors) /\ Len(functors) = 1 /\ functors[1] = <<"established", 0>>
  BY <1>1 DEF Init
<1>3. Types
  <2>1. /\ outputBuffer_ \in Seq(Nat) /\ wire \in Seq(Nat)
        /\ calls \in Seq(HandlerNames)
    BY DEF Init
  <2>2. inflight \in 0..SndCap /\ batch \in 0..Len(functors)
    BY <1>2, ConnConstants DEF Init
  <2>3. calling \in [Foreign -> {"nothing", "send", "shutdown", "done"}]
    BY DEF Init
  <2> QED BY <1>2, <2>1, <2>2, <2>3 DEF Init, Types
<1>4. Phase /\ Established /\ Writing /\ InputWatched
  BY DEF Init, Phase, Finishing, Established, Writing, isWriting, InputWatched
<1>5. \A k \in DOMAIN functors : functors[k][1] = "established"
  BY <1>2 DEF Init
<1>6. Closing /\ Teardown
  BY <1>5 DEF Init, Closing, Queued, HasFunctor, Teardown, DestroyLast
<1>7. StreamInOrder
  <2>1. <<>> \o <<>> = [i \in 1..0 |-> 0 + i]
    OBVIOUS
  <2> QED BY <2>1 DEF Init, StreamInOrder, Numbers
<1> QED BY <1>3, <1>4, <1>6, <1>7 DEF IInv

-----------------------------------------------------------------------------
\* Bytes are numbered on: the numbers of two messages in a row.
LEMMA NumbersGoOn ==
  ASSUME NEW k \in Nat, NEW n \in Nat
  PROVE  /\ Numbers(0, k) \in Seq(Nat)
         /\ Numbers(k, n) \in Seq(Nat) /\ Len(Numbers(k, n)) = n
         /\ Numbers(0, k) \o Numbers(k, n) = Numbers(0, k + n)
<1>1. /\ Numbers(0, k) \in Seq(Nat) /\ Len(Numbers(0, k)) = k
      /\ Numbers(k, n) \in Seq(Nat) /\ Len(Numbers(k, n)) = n
      /\ Numbers(0, k + n) \in Seq(Nat) /\ Len(Numbers(0, k + n)) = k + n
      /\ \A i \in 1..k : Numbers(0, k)[i] = i
      /\ \A i \in 1..n : Numbers(k, n)[i] = k + i
      /\ \A i \in 1..(k + n) : Numbers(0, k + n)[i] = i
  BY DEF Numbers
<1> HIDE DEF Numbers
<1>2. Numbers(0, k) \o Numbers(k, n) = Numbers(0, k + n)
  <2> DEFINE p == Numbers(0, k)
             q == Numbers(k, n)
             b == Numbers(0, k + n)
  <2>1. /\ p \in Seq(Nat) /\ Len(p) = k /\ \A i \in 1..k : p[i] = i
        /\ q \in Seq(Nat) /\ Len(q) = n /\ \A i \in 1..n : q[i] = k + i
        /\ b \in Seq(Nat) /\ Len(b) = k + n /\ \A i \in 1..(k + n) : b[i] = i
    BY <1>1
  <2> HIDE DEF p, q, b
  <2>2. /\ p \o q \in Seq(Nat) /\ Len(p \o q) = k + n
        /\ \A i \in 1..(k + n) : (p \o q)[i] = IF i <= k THEN p[i] ELSE q[i - k]
    BY <2>1, ConcatProperties
  <2>3. ASSUME NEW i \in 1..(k + n) PROVE (p \o q)[i] = b[i]
    <3>1. CASE i <= k
      BY <2>1, <2>2, <3>1
    <3>2. CASE ~(i <= k)
      <4>1. i - k \in 1..n
        BY <3>2
      <4> QED BY <2>1, <2>2, <3>2, <4>1
    <3> QED BY <3>1, <3>2
  <2>4. p \o q = b
    BY <2>1, <2>2, <2>3, SeqEqual
  <2> QED BY <2>4 DEF p, q, b
<1> QED BY <1>1, <1>2

\* What a direct write() takes.
LEMMA WrittenIs ==
  ASSUME Types, NEW len \in Nat
  PROVE  /\ Free \in 0..SndCap
         /\ Written(len) \in 0..len /\ Written(len) <= Free
         /\ Written(len) < len => Written(len) = Free
         /\ inflight + Written(len) \in 0..SndCap
BY ConnConstants DEF Types, Free, Written, Least

\* sendInLoop takes all of the message or nothing of it, and splits it
\* between the socket and the output buffer.
LEMMA SendTakes ==
  ASSUME Types, StreamInOrder, NEW len \in 0..MaxLen, NEW queue,
         sendInLoop(len, queue)
  PROVE  /\ outputBuffer_' \in Seq(Nat) /\ wire' \in Seq(Nat) /\ taken' \in Nat
         /\ inflight' \in 0..SndCap /\ finSent' = finSent
         /\ wire' \o outputBuffer_' = Numbers(0, taken')
<1>1. CASE UNCHANGED output
  BY <1>1 DEF output, Types, StreamInOrder
<1>2. CASE ~UNCHANGED output
  <2> DEFINE direct == ~isWriting /\ outputBuffer_ = <<>>
             nwrote == IF direct THEN Written(len) ELSE 0
             data == Numbers(taken, len)
             x == SubSeq(data, 1, nwrote)
             y == SubSeq(data, nwrote + 1, Len(data))
  <2>1. /\ taken' = taken + len
        /\ wire' = wire \o x
        /\ inflight' = inflight + nwrote
        /\ outputBuffer_' = outputBuffer_ \o y
        /\ finSent' = finSent
    BY <1>2 DEF sendInLoop, Unsent
  <2>2. /\ taken \in Nat /\ len \in Nat /\ inflight \in 0..SndCap
        /\ wire \in Seq(Nat) /\ outputBuffer_ \in Seq(Nat)
    BY ConnConstants DEF Types
  <2>3. /\ data \in Seq(Nat) /\ Len(data) = len
        /\ Numbers(0, taken) \o data = Numbers(0, taken + len)
    BY <2>2, NumbersGoOn
  <2>4. nwrote \in 0..len /\ inflight + nwrote \in 0..SndCap
    BY <2>2, WrittenIs
  <2>5. x \in Seq(Nat) /\ y \in Seq(Nat) /\ x \o y = data
    <3> HIDE DEF data, nwrote
    <3> QED BY <2>3, <2>4, CutInTwo
  <2>6. outputBuffer_ = <<>> \/ x = <<>>
    <3>1. CASE direct
      BY <3>1
    <3>2. CASE ~direct
      BY <3>2
    <3> QED BY <3>1, <3>2
  <2>7. (wire \o x) \o (outputBuffer_ \o y) = (wire \o outputBuffer_) \o data
    <3> HIDE DEF x, y, data
    <3>1. Cat(Cat(wire, x), Cat(outputBuffer_, y)) = Cat(Cat(wire, outputBuffer_), Cat(x, y))
      BY <2>2, <2>5, <2>6, Splice
    <3> QED BY <2>5, <3>1 DEF Cat
  <2> HIDE DEF x, y, data, nwrote
  <2>8. outputBuffer_' \in Seq(Nat) /\ wire' \in Seq(Nat)
    BY <2>1, <2>2, <2>5
  <2> QED BY <2>1, <2>2, <2>3, <2>4, <2>7, <2>8 DEF StreamInOrder
<1> QED BY <1>1, <1>2

\* sendInLoop only adds EPOLLOUT to what is watched and one functor to the
\* queue.
LEMMA SendWatches ==
  ASSUME Types, NEW len \in 0..MaxLen, NEW queue \in Seq(Functors),
         sendInLoop(len, queue)
  PROVE  /\ interest' \in {interest, interest \cup {"W"}}
         /\ index' \in {index, "kAdded"}
         /\ noSpace' \in BOOLEAN /\ edge' \in BOOLEAN
         /\ functors' \in {queue, Append(queue, <<"writeComplete", 0>>)}
         /\ functors' \in Seq(Functors) /\ Len(functors') >= Len(queue)
         /\ state_ = "kDisconnected" =>
              functors' = queue /\ UNCHANGED <<output, channel, noSpace, edge>>
<1>1. functors' \in {queue, Append(queue, <<"writeComplete", 0>>)}
  BY DEF sendInLoop
<1>2. <<"writeComplete", 0>> \in Functors
  BY ConnConstants DEF Functors, FunctorNames
<1>3. functors' \in Seq(Functors) /\ Len(functors') >= Len(queue)
  BY <1>1, <1>2, EndOfQueue
<1>4. CASE UNCHANGED <<channel, noSpace, edge>>
  BY <1>1, <1>3, <1>4 DEF Types, sendInLoop, channel
<1>5. CASE ~UNCHANGED <<channel, noSpace, edge>>
  <2>1. PICK free : Update(interest \cup {"W"}, free)
    BY <1>5 DEF sendInLoop
  <2> QED BY <1>1, <1>3, <1>5, <2>1 DEF Types, sendInLoop, Update
<1> QED BY <1>4, <1>5

\* The handlers called are handlers; read and write are among them exactly
\* for input and output events.
LEMMA HandlersAre ==
  ASSUME NEW ev
  PROVE  /\ Handlers(ev) \in Seq(HandlerNames)
         /\ Has(Handlers(ev), "read") <=> "IN" \in ev
         /\ Has(Handlers(ev), "write") <=> "OUT" \in ev
<1> DEFINE a == IF "HUP" \in ev /\ "IN" \notin ev THEN <<"close">> ELSE <<>>
           b == IF "ERR" \in ev THEN <<"error">> ELSE <<>>
           c == IF "IN" \in ev THEN <<"read">> ELSE <<>>
           d == IF "OUT" \in ev THEN <<"write">> ELSE <<>>
<1>1. /\ a \in Seq(HandlerNames) /\ b \in Seq(HandlerNames)
      /\ c \in Seq(HandlerNames) /\ d \in Seq(HandlerNames)
  <2>1. /\ <<>> \in Seq(HandlerNames)
        /\ <<"close">> \in Seq(HandlerNames) /\ <<"error">> \in Seq(HandlerNames)
        /\ <<"read">> \in Seq(HandlerNames) /\ <<"write">> \in Seq(HandlerNames)
    BY DEF HandlerNames
  <2> QED BY <2>1
<1>2. /\ ~Has(a, "read") /\ ~Has(a, "write") /\ ~Has(b, "read") /\ ~Has(b, "write")
      /\ ~Has(c, "write") /\ ~Has(d, "read")
      /\ Has(c, "read") <=> "IN" \in ev
      /\ Has(d, "write") <=> "OUT" \in ev
  <2>1. ~Has(<<>>, "read") /\ ~Has(<<>>, "write")
    BY DEF Has
  <2>2. /\ ~Has(<<"close">>, "read") /\ ~Has(<<"close">>, "write")
        /\ ~Has(<<"error">>, "read") /\ ~Has(<<"error">>, "write")
        /\ ~Has(<<"read">>, "write") /\ ~Has(<<"write">>, "read")
    BY DEF Has
  <2>3. Has(<<"read">>, "read") /\ Has(<<"write">>, "write")
    BY DEF Has
  <2> QED BY <2>1, <2>2, <2>3
<1>3. Handlers(ev) = Cat(Cat(Cat(a, b), c), d)
  BY DEF Handlers, Cat
<1> HIDE DEF a, b, c, d
<1>4. /\ Cat(a, b) \in Seq(HandlerNames)
      /\ Cat(Cat(a, b), c) \in Seq(HandlerNames)
  BY <1>1, CatHas
<1> QED BY <1>1, <1>2, <1>3, <1>4, CatHas

\* The functor the loop takes is the first of the queue.
LEMMA TakenIs ==
  ASSUME Types, NEW name, Take(name)
  PROVE  /\ functors # <<>> /\ functors[1][1] = name /\ 1 \in DOMAIN functors
         /\ Head(functors) \in Functors
         /\ Tail(functors) \in Seq(Functors)
         /\ Len(Tail(functors)) = Len(functors) - 1
         /\ batch' \in 0..Len(Tail(functors))
         /\ \A k \in DOMAIN Tail(functors) :
              k + 1 \in DOMAIN functors /\ Tail(functors)[k] = functors[k + 1]
<1>1. functors \in Seq(Functors) /\ batch \in 0..Len(functors) /\ batch > 0
  BY DEF Types, Take
<1>2. Len(functors) \in Nat /\ functors # <<>>
  BY <1>1, LenProperties
<1>3. /\ Head(functors) \in Functors /\ Head(functors) = functors[1] /\ 1 \in DOMAIN functors
      /\ Tail(functors) \in Seq(Functors)
      /\ Len(Tail(functors)) = Len(functors) - 1
      /\ \A k \in DOMAIN Tail(functors) :
           k + 1 \in DOMAIN functors /\ Tail(functors)[k] = functors[k + 1]
  BY <1>1, <1>2, TailOfQueue
<1> QED BY <1>1, <1>2, <1>3 DEF Take

\* handleWrite moves bytes from the front of the output buffer to the socket.
LEMMA WriteMoves ==
  ASSUME Types, handleWrite
  PROVE  /\ outputBuffer_' \in Seq(Nat) /\ wire' \in Seq(Nat)
         /\ inflight' \in 0..SndCap /\ taken' = taken
         /\ wire' \o outputBuffer_' = wire \o outputBuffer_
<1>0. /\ outputBuffer_ \in Seq(Nat) /\ wire \in Seq(Nat) /\ inflight \in 0..SndCap
      /\ taken' = taken
  BY DEF Types, handleWrite
<1>1. CASE UNCHANGED <<outputBuffer_, wire, inflight>>
  BY <1>0, <1>1
<1>2. CASE ~UNCHANGED <<outputBuffer_, wire, inflight>>
  <2> DEFINE n == Least(Len(outputBuffer_), Free)
             x == SubSeq(outputBuffer_, 1, n)
             y == SubSeq(outputBuffer_, n + 1, Len(outputBuffer_))
  <2>1. wire' = wire \o x /\ outputBuffer_' = y /\ inflight' = inflight + n
    BY <1>2 DEF handleWrite
  <2>2. n \in 0..Len(outputBuffer_) /\ inflight + n \in 0..SndCap
    BY <1>0, LenProperties, ConnConstants DEF Least, Free
  <2>3. x \in Seq(Nat) /\ y \in Seq(Nat) /\ x \o y = outputBuffer_
    <3> HIDE DEF n
    <3> QED BY <1>0, <2>2, CutInTwo
  <2> HIDE DEF n, x, y
  <2>4. (wire \o x) \o y = wire \o (x \o y)
    <3>1. Cat(Cat(wire, x), y) = Cat(wire, Cat(x, y))
      BY <1>0, <2>3, CatAssociative
    <3> QED BY <3>1 DEF Cat
  <2>5. wire \o x \in Seq(Nat)
    BY <1>0, <2>3
  <2> QED BY <1>0, <2>1, <2>2, <2>3, <2>4, <2>5
<1> QED BY <1>1, <1>2

\* The types are preserved by every step.
LEMMA TypeStep == IInv /\ [Next]_vars => Types'
<1> SUFFICES ASSUME IInv, [Next]_vars PROVE Types'
  OBVIOUS
<1>0. Types /\ StreamInOrder /\ Phase
  BY DEF IInv
<1>a. /\ outputBuffer_ \in Seq(Nat) /\ wire \in Seq(Nat)
      /\ calls \in Seq(HandlerNames) /\ functors \in Seq(Functors)
  BY <1>0 DEF Types
<1>b. calls # <<>> => Tail(calls) \in Seq(HandlerNames)
  BY <1>a, HeadTailProperties
<1> USE ConnConstants DEF socketIn, channel, output, control, callers, lifetime
<1>1. CASE Arrive
  BY <1>0, <1>1 DEF Arrive, Notify, Types
<1>2. CASE PeerCloses
  BY <1>0, <1>2 DEF PeerCloses, Notify, Types
<1>3. CASE PeerResets
  BY <1>0, <1>3 DEF PeerResets, Notify, Types
<1>4. CASE Drain
  <2>1. inflight' \in 0..SndCap
    BY <1>0, <1>4 DEF Drain, Types
  <2>2. edge' \in BOOLEAN /\ noSpace' \in BOOLEAN
    BY <1>0, <1>4 DEF Drain, Types
  <2> QED BY <1>0, <1>4, <2>1, <2>2 DEF Drain, Types
<1>5. ASSUME NEW len \in 1..MaxLen, UserSends(len) PROVE Types'
  <2>1. sendInLoop(len, functors) /\ len \in 0..MaxLen
    BY <1>5 DEF UserSends
  <2>2. /\ outputBuffer_' \in Seq(Nat) /\ wire' \in Seq(Nat) /\ taken' \in Nat
        /\ inflight' \in 0..SndCap /\ finSent' = finSent
    BY <1>0, <2>1, SendTakes
  <2>3. /\ interest' \in {interest, interest \cup {"W"}}
        /\ index' \in {index, "kAdded"}
        /\ noSpace' \in BOOLEAN /\ edge' \in BOOLEAN
        /\ functors' \in Seq(Functors) /\ Len(functors') >= Len(functors)
    BY <1>0, <1>a, <2>1, SendWatches
  <2>4. batch' \in 0..Len(functors') /\ offered' \in Nat
    BY <1>0, <1>5, <2>3, LenProperties DEF UserSends, Offer, Types
  <2> QED BY <1>0, <1>5, <2>2, <2>3, <2>4 DEF UserSends, Types
<1>6. CASE UserShutsDown
  BY <1>0, <1>6 DEF UserShutsDown, shutdownInLoop, Types
<1>7. CASE UserReturns
  BY <1>0, <1>7 DEF UserReturns, Types
<1>8. ASSUME NEW f \in Foreign, NEW op \in {"send", "shutdown"}, ForeignBegins(f, op)
      PROVE  Types'
  BY <1>0, <1>8 DEF ForeignBegins, Types
<1>9. ASSUME NEW f \in Foreign, NEW len \in 1..MaxLen, ForeignSends(f, len)
      PROVE  Types'
  <2>1. <<"send", len>> \in Functors
    BY DEF Functors, FunctorNames
  <2>2. functors' \in Seq(Functors) /\ Len(functors') = Len(functors) + 1
    BY <1>a, <1>9, <2>1, EndOfQueue DEF ForeignSends
  <2>3. batch' \in 0..Len(functors') /\ offered' \in Nat
    BY <1>0, <1>9, <2>2, LenProperties DEF ForeignSends, Offer, Types
  <2> QED BY <1>0, <1>9, <2>2, <2>3 DEF ForeignSends, Types
<1>10. ASSUME NEW f \in Foreign, ForeignShutsDown(f) PROVE Types'
  <2>1. <<"shutdown", 0>> \in Functors
    BY DEF Functors, FunctorNames
  <2>2. functors' \in Seq(Functors) /\ Len(functors') = Len(functors) + 1
    BY <1>a, <1>10, <2>1, EndOfQueue DEF ForeignShutsDown
  <2>3. batch' \in 0..Len(functors')
    BY <1>0, <1>10, <2>2, LenProperties DEF ForeignShutsDown, Types
  <2> QED BY <1>0, <1>10, <2>2, <2>3 DEF ForeignShutsDown, Types
<1>11. CASE Report
  <2>1. calls' \in Seq(HandlerNames)
    BY <1>11, HandlersAre DEF Report
  <2>2. edge' \in BOOLEAN /\ noSpace' \in BOOLEAN
    BY <1>0, <1>11 DEF Report, Types
  <2> QED BY <1>0, <1>11, <2>1, <2>2 DEF Report, Types
<1>12. CASE CloseCallback
  <2>1. calls' \in Seq(HandlerNames)
    BY <1>0, <1>12, <1>b DEF CloseCallback, Phase
  <2> QED BY <1>0, <1>12, <2>1 DEF CloseCallback, Types
<1>13. CASE handleError
  BY <1>0, <1>13 DEF handleError, handleClose, ClosedState, Callback, Types
<1>14. CASE handleRead
  <2>1. calls' \in Seq(HandlerNames)
    BY <1>a, <1>b, <1>14 DEF handleRead, Running, AfterMessage
  <2>2. unread' \in Nat
    BY <1>0, <1>14 DEF handleRead, Types
  <2>3. /\ state_' \in {state_, "kDisconnected"}
        /\ closed' \in BOOLEAN /\ soError' \in BOOLEAN
        /\ pc' \in {"loop", "user", "closing", "flushed"}
        /\ after' \in {"loop", "closing", "flushed"}
    BY <1>0, <1>14 DEF handleRead, handleClose, ClosedState, Callback, Types
  <2>4. UNCHANGED <<channel, output, noSpace, edge, peerFin, rst, received,
                    batch, functors, callers, lifetime>>
    BY <1>14 DEF handleRead
  <2> QED BY <1>0, <2>1, <2>2, <2>3, <2>4 DEF Types
<1>15. CASE handleWrite
  <2>1. calls' \in Seq(HandlerNames)
    BY <1>a, <1>b, <1>15 DEF handleWrite, Running
  <2>2. /\ interest' \subseteq {"R", "W"} /\ index' \in {"kNew", "kAdded", "kDeleted"}
        /\ noSpace' \in BOOLEAN /\ edge' \in BOOLEAN
    BY <1>0, <1>15 DEF handleWrite, Update, Types
  <2>3. /\ outputBuffer_' \in Seq(Nat) /\ wire' \in Seq(Nat)
        /\ inflight' \in 0..SndCap
    BY <1>0, <1>15, WriteMoves DEF Types
  <2>4. /\ state_' \in {state_, "kDisconnected"}
        /\ closed' \in BOOLEAN /\ soError' \in BOOLEAN
        /\ pc' \in {"loop", "user", "closing", "flushed"}
        /\ after' \in {"loop", "closing", "flushed"}
    BY <1>0, <1>15 DEF handleWrite, handleClose, ClosedState, Callback, Types
  <2>5. UNCHANGED <<taken, finSent, unread, peerFin, rst, received, batch,
                    functors, callers, lifetime>>
    BY <1>15 DEF handleWrite
  <2> QED BY <1>0, <2>1, <2>2, <2>3, <2>4, <2>5 DEF Types
<1>16. CASE Flushed
  <2>1. calls' \in Seq(HandlerNames)
    BY <1>0, <1>16, <1>b DEF Flushed, Phase, Finishing
  <2>2. finSent' \in BOOLEAN /\ edge' \in BOOLEAN
    BY <1>0, <1>16 DEF Flushed, shutdownInLoop, Types
  <2>3. /\ pc' = "loop"
        /\ UNCHANGED <<state_, outputBuffer_, taken, wire, inflight, channel, noSpace,
                       socketIn, after, closed, batch, functors, callers, lifetime>>
    BY <1>16 DEF Flushed, shutdownInLoop
  <2> QED BY <1>0, <2>1, <2>2, <2>3 DEF Types
<1>17. CASE BeginBatch
  BY <1>0, <1>17 DEF BeginBatch, Types
<1>18. CASE connectionEstablished
  BY <1>0, <1>18, TakenIs DEF connectionEstablished, Update, Callback, Types
<1>19. CASE RunSend
  <2>1. /\ Tail(functors) \in Seq(Functors) /\ batch' \in 0..Len(Tail(functors))
        /\ Head(functors)[2] \in 0..MaxLen
    BY <1>0, <1>19, TakenIs DEF RunSend, Functors
  <2>2. sendInLoop(Head(functors)[2], Tail(functors))
    BY <1>19 DEF RunSend
  <2>3. /\ outputBuffer_' \in Seq(Nat) /\ wire' \in Seq(Nat) /\ taken' \in Nat
        /\ inflight' \in 0..SndCap /\ finSent' = finSent
    BY <1>0, <2>1, <2>2, SendTakes
  <2>4. /\ interest' \in {interest, interest \cup {"W"}}
        /\ index' \in {index, "kAdded"}
        /\ noSpace' \in BOOLEAN /\ edge' \in BOOLEAN
        /\ functors' \in Seq(Functors) /\ Len(functors') >= Len(Tail(functors))
    BY <1>0, <2>1, <2>2, SendWatches
  <2>5. batch' \in 0..Len(functors')
    BY <2>1, <2>4, LenProperties
  <2> QED BY <1>0, <1>19, <2>3, <2>4, <2>5 DEF RunSend, Types
<1>20. CASE RunShutdown
  BY <1>0, <1>20, TakenIs DEF RunShutdown, shutdownInLoop, Types
<1>21. CASE RunWriteComplete
  BY <1>0, <1>21, TakenIs DEF RunWriteComplete, Callback, Types
<1>22. CASE connectionDestroyed
  <2>1. functors' \in Seq(Functors) /\ batch' \in 0..Len(functors')
    BY <1>0, <1>22, TakenIs DEF connectionDestroyed
  <2> QED BY <1>0, <1>22, <2>1 DEF connectionDestroyed, Types
<1>23. CASE ServerRemoves
  <2>1. <<"destroy", 0>> \in Functors
    BY DEF Functors, FunctorNames
  <2>2. functors' \in Seq(Functors) /\ Len(functors') = Len(functors) + 1
    BY <1>a, <1>23, <2>1, EndOfQueue DEF ServerRemoves
  <2>3. batch' \in 0..Len(functors') /\ removals' \in Nat
    BY <1>0, <1>23, <2>2, LenProperties DEF ServerRemoves, Types
  <2> QED BY <1>0, <1>23, <2>2, <2>3 DEF ServerRemoves, Types
<1>24. CASE Destruct
  <2>1. /\ alive' \in BOOLEAN
        /\ UNCHANGED <<state_, channel, output, noSpace, edge, socketIn, control,
                       functors, callers, removals, destroyed>>
    BY <1>24 DEF Destruct
  <2> QED BY <1>0, <2>1 DEF Types
<1>25. CASE UNCHANGED vars
  BY <1>0, <1>25 DEF vars, Types
<1> QED
  BY <1>1, <1>2, <1>3, <1>4, <1>5, <1>6, <1>7, <1>8, <1>9, <1>10, <1>11, <1>12,
     <1>13, <1>14, <1>15, <1>16, <1>17, <1>18, <1>19, <1>20, <1>21, <1>22, <1>23,
     <1>24, <1>25
  DEF Next, LoopStep, Handler, Functor

\* Bytes enter the stream through sendInLoop and are moved by handleWrite.
LEMMA StreamStep == IInv /\ [Next]_vars => StreamInOrder'
<1> SUFFICES ASSUME IInv, [Next]_vars PROVE StreamInOrder'
  OBVIOUS
<1>0. Types /\ StreamInOrder
  BY DEF IInv
<1>1. ASSUME NEW len \in 1..MaxLen, UserSends(len) PROVE StreamInOrder'
  <2>1. len \in 0..MaxLen /\ sendInLoop(len, functors)
    BY <1>1 DEF UserSends
  <2> QED BY <1>0, <2>1, SendTakes DEF StreamInOrder
<1>2. CASE RunSend
  <2>1. Head(functors)[2] \in 0..MaxLen
    BY <1>0, <1>2, TakenIs DEF RunSend, Functors
  <2>2. sendInLoop(Head(functors)[2], Tail(functors))
    BY <1>2 DEF RunSend
  <2> QED BY <1>0, <2>1, <2>2, SendTakes DEF StreamInOrder
<1>3. CASE handleWrite
  BY <1>0, <1>3, WriteMoves DEF StreamInOrder
<1>4. CASE UNCHANGED <<wire, outputBuffer_, taken>>
  BY <1>0, <1>4 DEF StreamInOrder
<1> QED
  BY <1>1, <1>2, <1>3, <1>4
  DEF Next, LoopStep, Handler, Functor, output, Arrive, PeerCloses, PeerResets,
      Drain, UserShutsDown, shutdownInLoop, UserReturns, ForeignBegins,
      ForeignSends, ForeignShutsDown, Report, CloseCallback, handleError,
      handleRead, Flushed, BeginBatch, connectionEstablished, RunShutdown,
      RunWriteComplete, connectionDestroyed, ServerRemoves, Destruct, vars

-----------------------------------------------------------------------------
\* Where the loop may be is preserved.
LEMMA PhaseStep == IInv /\ [Next]_vars => Phase'
<1> SUFFICES ASSUME IInv, [Next]_vars PROVE Phase'
  OBVIOUS
<1>0. Types /\ Phase
  BY DEF IInv
<1> USE DEF Phase, Finishing
<1>1. CASE UserReturns
  BY <1>0, <1>1 DEF UserReturns, Types
<1>2. CASE Report
  BY <1>0, <1>2 DEF Report
<1>3. CASE CloseCallback
  BY <1>0, <1>3 DEF CloseCallback
<1>4. CASE handleError
  BY <1>0, <1>4 DEF handleError, handleClose, Callback, Running
<1>5. CASE handleRead
  BY <1>0, <1>5 DEF handleRead, handleClose, Callback, Running, AfterMessage
<1>6. CASE handleWrite
  BY <1>0, <1>6 DEF handleWrite, handleClose, Callback, Running
<1>7. CASE Flushed
  BY <1>0, <1>7 DEF Flushed
<1>8. CASE BeginBatch
  BY <1>0, <1>8 DEF BeginBatch
<1>9. ASSUME NEW name, Take(name), calls' = calls, closed' = closed,
             UNCHANGED <<pc, after>> \/ Callback("loop")
      PROVE  Phase'
  <2>1. calls = <<>> /\ pc = "loop"
    BY <1>0, <1>9 DEF Take, Types
  <2> QED BY <1>0, <1>9, <2>1 DEF Take, Callback
<1>10. CASE connectionEstablished
  BY <1>9, <1>10 DEF connectionEstablished
<1>11. CASE RunSend
  BY <1>9, <1>11 DEF RunSend
<1>12. CASE RunShutdown
  BY <1>9, <1>12 DEF RunShutdown
<1>13. CASE RunWriteComplete
  BY <1>9, <1>13 DEF RunWriteComplete
<1>14. CASE connectionDestroyed
  BY <1>9, <1>14 DEF connectionDestroyed
<1>15. CASE UNCHANGED control
  BY <1>0, <1>15 DEF control
<1> QED
  BY <1>1, <1>2, <1>3, <1>4, <1>5, <1>6, <1>7, <1>8, <1>10, <1>11, <1>12, <1>13,
     <1>14, <1>15
  DEF Next, LoopStep, Handler, Functor, control, Arrive, PeerCloses, PeerResets,
      Drain, UserSends, UserShutsDown, ForeignBegins, ForeignSends,
      ForeignShutsDown, ServerRemoves, Destruct, vars

-----------------------------------------------------------------------------
\* What a queue of functors holds after one was added or taken.
LEMMA FunctorsAfter ==
  ASSUME NEW q \in Seq(Functors), NEW name
  PROVE  /\ \A e \in Functors :
              HasFunctor(Append(q, e), name) => HasFunctor(q, name) \/ e[1] = name
         /\ q # <<>> /\ HasFunctor(Tail(q), name) => HasFunctor(q, name)
         /\ ~HasFunctor(<<>>, name)
<1>1. ASSUME NEW e \in Functors, HasFunctor(Append(q, e), name)
      PROVE  HasFunctor(q, name) \/ e[1] = name
  <2>1. /\ DOMAIN q = 1..Len(q) /\ DOMAIN Append(q, e) = 1..(Len(q) + 1)
        /\ \A k \in 1..Len(q) : Append(q, e)[k] = q[k]
        /\ Append(q, e)[Len(q) + 1] = e /\ Len(q) \in Nat
    BY EndOfQueue, LenProperties
  <2>2. PICK k \in 1..(Len(q) + 1) : Append(q, e)[k][1] = name
    BY <1>1, <2>1 DEF HasFunctor
  <2>3. CASE k = Len(q) + 1
    BY <2>1, <2>2, <2>3
  <2>4. CASE k # Len(q) + 1
    <3>1. k \in 1..Len(q)
      BY <2>1, <2>4
    <3> QED BY <2>1, <2>2, <3>1 DEF HasFunctor
  <2> QED BY <2>3, <2>4
<1>2. ASSUME q # <<>>, HasFunctor(Tail(q), name) PROVE HasFunctor(q, name)
  BY <1>2, TailOfQueue DEF HasFunctor
<1>3. ~HasFunctor(<<>>, name)
  BY DEF HasFunctor
<1> QED BY <1>1, <1>2, <1>3

\* A step takes the first functor, adds one of its own kind, or leaves the
\* queue alone.
LEMMA QueueStep ==
  ASSUME Types, [Next]_vars, NEW name
  PROVE  Queued(name)' =>
           \/ Queued(name)
           \/ name = "writeComplete"
           \/ name = "send" /\ \E f \in Foreign : calling[f] = "send"
           \/ name = "shutdown" /\ \E f \in Foreign : calling[f] = "shutdown"
           \/ name = "destroy" /\ removals > 0
<1>0. functors \in Seq(Functors)
  BY DEF Types
<1>a. /\ <<"writeComplete", 0>> \in Functors /\ <<"shutdown", 0>> \in Functors
      /\ <<"destroy", 0>> \in Functors
      /\ \A len \in 1..MaxLen : <<"send", len>> \in Functors
  BY ConnConstants DEF Functors, FunctorNames
<1> USE DEF Queued
<1>1. ASSUME NEW len \in 1..MaxLen, UserSends(len)
      PROVE  HasFunctor(functors', name) => HasFunctor(functors, name) \/ name = "writeComplete"
  <2>1. functors' \in {functors, Append(functors, <<"writeComplete", 0>>)}
    BY <1>1 DEF UserSends, sendInLoop
  <2>2. HasFunctor(Append(functors, <<"writeComplete", 0>>), name)
          => HasFunctor(functors, name) \/ name = "writeComplete"
    BY <1>0, <1>a, FunctorsAfter
  <2> QED BY <2>1, <2>2
<1>2. CASE RunSend
  <2>1. functors # <<>> /\ Tail(functors) \in Seq(Functors)
    BY <1>2, TakenIs DEF RunSend
  <2>2. functors' \in {Tail(functors), Append(Tail(functors), <<"writeComplete", 0>>)}
    BY <1>2 DEF RunSend, sendInLoop
  <2>3. HasFunctor(Append(Tail(functors), <<"writeComplete", 0>>), name)
          => HasFunctor(Tail(functors), name) \/ name = "writeComplete"
    BY <1>a, <2>1, FunctorsAfter
  <2>4. HasFunctor(Tail(functors), name) => HasFunctor(functors, name)
    BY <1>0, <2>1, FunctorsAfter
  <2> QED BY <2>2, <2>3, <2>4
<1>3. ASSUME NEW f \in Foreign, NEW len \in 1..MaxLen, ForeignSends(f, len)
      PROVE  HasFunctor(functors', name) =>
               HasFunctor(functors, name) \/ (name = "send" /\ calling[f] = "send")
  BY <1>0, <1>a, <1>3, FunctorsAfter DEF ForeignSends
<1>4. ASSUME NEW f \in Foreign, ForeignShutsDown(f)
      PROVE  HasFunctor(functors', name) =>
               HasFunctor(functors, name) \/ (name = "shutdown" /\ calling[f] = "shutdown")
  BY <1>0, <1>a, <1>4, FunctorsAfter DEF ForeignShutsDown
<1>5. CASE ServerRemoves
  BY <1>0, <1>a, <1>5, FunctorsAfter DEF ServerRemoves
<1>6. ASSUME NEW nm, Take(nm), functors' = Tail(functors)
      PROVE  HasFunctor(functors', name) => HasFunctor(functors, name)
  BY <1>0, <1>6, TakenIs, FunctorsAfter
<1>7. CASE functors' = functors
  BY <1>7
<1> QED
  BY <1>1, <1>2, <1>3, <1>4, <1>5, <1>6, <1>7
  DEF Next, LoopStep, Handler, Functor, Arrive, PeerCloses, PeerResets,
      Drain, UserShutsDown, UserReturns, ForeignBegins, Report, CloseCallback,
      handleError, handleRead, handleWrite, Flushed, BeginBatch,
      connectionEstablished, RunShutdown, RunWriteComplete, connectionDestroyed,
      Destruct, vars

\* connectionEstablished runs once, first.
LEMMA EstablishedOnce ==
  ASSUME IInv, Take("established")
  PROVE  state_ = "kConnecting" /\ Tail(functors) = <<>>
<1>1. Types /\ Established
  BY DEF IInv
<1>2. Queued("established")
  BY <1>1, TakenIs DEF Queued, HasFunctor
<1>3. state_ = "kConnecting"
  BY <1>1, <1>2 DEF Established
<1>4. functors = <<<<"established", 0>>>>
  BY <1>1, <1>3 DEF Established
<1> QED BY <1>3, <1>4

\* Before it nothing happens to the connection but what the peer does.
LEMMA EstablishedStep == IInv /\ [Next]_vars => Established'
<1> SUFFICES ASSUME IInv, [Next]_vars PROVE Established'
  OBVIOUS
<1>0. Types /\ Phase /\ Established /\ Closing
  BY DEF IInv
\* A connection that has begun stays so.
<1>1. ASSUME state_ # "kConnecting", state_' # "kConnecting",
             ~closed' => "R" \in interest' /\ index' = "kAdded"
      PROVE  Established'
  <2>1. ~Queued("established")
    BY <1>0, <1>1 DEF Established
  <2>2. ~Queued("established")'
    BY <1>0, <2>1, QueueStep
  <2> QED BY <1>1, <2>2 DEF Established
<1>2. ASSUME state_ # "kConnecting", UNCHANGED <<state_, interest, index>>,
             closed => closed'
      PROVE  Established'
  <2>1. ~closed' => "R" \in interest' /\ index' = "kAdded"
    BY <1>0, <1>2 DEF Established
  <2> QED BY <1>1, <1>2, <2>1
\* One that has not begun is in its initial state, except for the peer.
<1>3. ASSUME state_ = "kConnecting" PROVE Established'
  <2>1. /\ functors = <<<<"established", 0>>>>
        /\ calls = <<>> /\ pc = "loop" /\ after = "loop"
        /\ interest = {} /\ index = "kNew" /\ edge = FALSE /\ closed = FALSE
        /\ finSent = FALSE /\ outputBuffer_ = <<>>
        /\ \A f \in Foreign : calling[f] = "nothing"
        /\ removals = 0 /\ ~destroyed
    BY <1>0, <1>3 DEF Established, Closing, Types
  <2>2. CASE connectionEstablished
    <3>1. functors' = <<>> /\ state_' = "kConnected"
      BY <2>2, EstablishedOnce DEF connectionEstablished
    <3>2. "R" \in interest' /\ index' = "kAdded"
      BY <2>1, <2>2 DEF connectionEstablished, Update
    <3>3. ~Queued("established")'
      BY <3>1 DEF Queued, HasFunctor
    <3> QED BY <3>1, <3>2, <3>3 DEF Established
  <2>3. CASE /\ UNCHANGED <<state_, functors, calls, pc, after, interest, index, closed,
                            finSent, outputBuffer_, calling>>
             /\ edge' = FALSE
    BY <1>3, <2>1, <2>3 DEF Established, Queued
  <2>4. \A name \in {"send", "shutdown", "writeComplete", "destroy"} : ~Take(name)
    BY <2>1 DEF Take
  <2>5. CASE Arrive \/ PeerCloses \/ PeerResets \/ Drain \/ BeginBatch \/ UNCHANGED vars
    BY <2>1, <2>3, <2>5 DEF Arrive, PeerCloses, PeerResets, Drain, BeginBatch, vars, Notify,
                            channel, output, control, callers
  <2>6. /\ \A len \in 1..MaxLen : ~UserSends(len)
        /\ ~UserShutsDown /\ ~UserReturns /\ ~Flushed /\ ~CloseCallback /\ ~Report
    BY <2>1 DEF UserSends, UserShutsDown, UserReturns, Flushed, CloseCallback, Report
  <2>7. ~handleError /\ ~handleRead /\ ~handleWrite
    BY <2>1 DEF handleError, handleRead, handleWrite, Running
  <2>8. ~RunSend /\ ~RunShutdown /\ ~RunWriteComplete /\ ~connectionDestroyed
    BY <2>4 DEF RunSend, RunShutdown, RunWriteComplete, connectionDestroyed
  <2>9. \A f \in Foreign :
          /\ \A op \in {"send", "shutdown"} : ~ForeignBegins(f, op)
          /\ \A len \in 1..MaxLen : ~ForeignSends(f, len)
          /\ ~ForeignShutsDown(f)
    BY <1>3, <2>1 DEF ForeignBegins, ForeignSends, ForeignShutsDown
  <2>10. ~ServerRemoves /\ ~Destruct
    BY <2>1 DEF ServerRemoves, Destruct
  <2> QED
    BY <2>2, <2>5, <2>6, <2>7, <2>8, <2>9, <2>10 DEF Next, LoopStep, Handler, Functor
<1>4. ASSUME state_ # "kConnecting" PROVE Established'
  <2>0. ~closed => "R" \in interest /\ index = "kAdded"
    BY <1>0, <1>4 DEF Established
  <2>1. ASSUME NEW len, NEW queue, sendInLoop(len, queue)
        PROVE  ~closed => "R" \in interest' /\ index' = "kAdded"
    <3>1. UNCHANGED channel \/ \E free : Update(interest \cup {"W"}, free)
      BY <2>1 DEF sendInLoop
    <3> QED BY <2>0, <3>1 DEF Update, channel
  <2>2. ASSUME NEW len \in 1..MaxLen, UserSends(len) PROVE Established'
    BY <1>1, <1>4, <2>1, <2>2 DEF UserSends, control
  <2>3. CASE RunSend
    BY <1>1, <1>4, <2>1, <2>3 DEF RunSend
  <2>4. CASE handleWrite
    <3>1. /\ state_' \in {state_, "kDisconnected"}
          /\ closed => closed'
      BY <2>4 DEF handleWrite, handleClose, ClosedState
    <3>2. \/ UNCHANGED channel
          \/ \E w \in {interest, interest \ {"W"}} : Update(w, Free)
      BY <2>4 DEF handleWrite
    <3> QED BY <1>1, <1>4, <2>0, <3>1, <3>2 DEF Update, channel
  <2>5. CASE handleRead
    <3>1. /\ state_' \in {state_, "kDisconnected"} /\ UNCHANGED channel
          /\ closed => closed'
      BY <2>5 DEF handleRead, handleClose, ClosedState
    <3> QED BY <1>1, <1>4, <2>0, <3>1 DEF channel
  <2>6. CASE handleError
    <3>1. /\ state_' \in {state_, "kDisconnected"} /\ UNCHANGED channel
          /\ closed => closed'
      BY <2>6 DEF handleError, handleClose, ClosedState
    <3> QED BY <1>1, <1>4, <2>0, <3>1 DEF channel
  <2>7. CASE connectionDestroyed
    <3>1. Queued("destroy")
      BY <1>0, <2>7, TakenIs DEF connectionDestroyed, Queued, HasFunctor
    <3>2. closed'
      BY <1>0, <2>7, <3>1 DEF Closing, connectionDestroyed
    <3> QED BY <1>1, <1>4, <2>7, <3>2 DEF connectionDestroyed
  <2>8. ~connectionEstablished
    BY <1>4, EstablishedOnce DEF connectionEstablished
  <2>9. CASE UserShutsDown \/ \E f \in Foreign : ForeignShutsDown(f)
    <3>1. state_' = "kDisconnecting" /\ UNCHANGED <<channel, closed>>
      BY <2>9 DEF UserShutsDown, ForeignShutsDown, shutdownInLoop, control
    <3> QED BY <1>1, <1>4, <2>0, <3>1 DEF channel
  <2>10. CASE UNCHANGED <<state_, interest, index, closed>>
    BY <1>2, <1>4, <2>10
  <2> QED
    BY <2>2, <2>3, <2>4, <2>5, <2>6, <2>7, <2>8, <2>9, <2>10
    DEF Next, LoopStep, Handler, Functor, Arrive, PeerCloses, PeerResets, Drain,
        UserReturns, ForeignBegins, ForeignSends, Report, CloseCallback, Flushed,
        shutdownInLoop, BeginBatch, RunShutdown, RunWriteComplete, ServerRemoves,
        Destruct, vars, channel, control
<1> QED BY <1>3, <1>4

-----------------------------------------------------------------------------
\* closed is never reset.
LEMMA ClosedKept == [Next]_vars /\ closed => closed'
BY DEF Next, LoopStep, Handler, Functor, Arrive, PeerCloses, PeerResets, Drain,
       UserSends, UserShutsDown, UserReturns, ForeignBegins, ForeignSends,
       ForeignShutsDown, Report, CloseCallback, handleError, handleRead,
       handleWrite, handleClose, Flushed, BeginBatch, connectionEstablished,
       RunSend, RunShutdown, RunWriteComplete, connectionDestroyed,
       ServerRemoves, Destruct, vars, control

\* closed is set before the connection is removed.
LEMMA ClosingStep == IInv /\ [Next]_vars => Closing'
<1> SUFFICES ASSUME IInv, [Next]_vars PROVE Closing'
  OBVIOUS
<1>0. Types /\ Phase /\ Closing
  BY DEF IInv
<1>1. closed => closed'
  BY ClosedKept
<1>2. Queued("destroy")' => closed'
  BY <1>0, <1>1, QueueStep DEF Closing
<1>3. CASE CloseCallback
  BY <1>0, <1>1, <1>2, <1>3 DEF CloseCallback, Closing, Phase
<1>4. CASE connectionDestroyed
  <2>1. Queued("destroy")
    BY <1>0, <1>4, TakenIs DEF connectionDestroyed, Queued, HasFunctor
  <2> QED BY <1>0, <1>1, <1>4, <2>1 DEF Closing, connectionDestroyed
<1>5. CASE ServerRemoves
  BY <1>0, <1>1, <1>2, <1>5 DEF ServerRemoves, Closing, Types
<1>6. CASE Destruct
  BY <1>0, <1>1, <1>2, <1>6 DEF Destruct, Closing
<1>7. CASE UNCHANGED lifetime
  BY <1>0, <1>1, <1>2, <1>7 DEF Closing, lifetime
<1> QED
  BY <1>3, <1>4, <1>5, <1>6, <1>7
  DEF Next, LoopStep, Handler, Functor, Arrive, PeerCloses, PeerResets, Drain,
      UserSends, UserShutsDown, UserReturns, ForeignBegins, ForeignSends,
      ForeignShutsDown, Report, handleError, handleRead,
      handleWrite, Flushed, BeginBatch, connectionEstablished,
      RunSend, RunShutdown, RunWriteComplete, vars

-----------------------------------------------------------------------------
\* A message is written, given up on a broken connection, or left in the
\* buffer with EPOLLOUT watched for; a full socket was noticed.
LEMMA SendWrites ==
  ASSUME Types, Writing, NEW len \in 0..MaxLen, NEW queue, sendInLoop(len, queue),
         ~closed, UNCHANGED <<pc, after, calls, rst, closed>>
  PROVE  Writing'
<1> USE DEF Writing, isWriting, Finishing, Due, Free
<1>0. /\ finSent => ~isWriting /\ outputBuffer_ = <<>>
      /\ outputBuffer_ # <<>> => isWriting
      /\ isWriting /\ ~rst => (~Finishing /\ Due("write")) \/ edge \/ (Free = 0 /\ noSpace)
  OBVIOUS
<1>1. CASE UNCHANGED <<output, channel, noSpace, edge>>
  BY <1>0, <1>1 DEF output, channel
<1>2. CASE ~UNCHANGED <<output, channel, noSpace, edge>>
  <2> DEFINE direct == ~isWriting /\ outputBuffer_ = <<>>
             nwrote == IF direct THEN Written(len) ELSE 0
             data == Numbers(taken, len)
  <2>1. /\ ~(direct /\ Broken)
        /\ inflight' = inflight + nwrote /\ finSent' = finSent
        /\ outputBuffer_' = outputBuffer_ \o SubSeq(data, nwrote + 1, Len(data))
        /\ IF StartsWriting(len - nwrote)
           THEN Update(interest \cup {"W"}, Free - nwrote)
           ELSE UNCHANGED <<channel, noSpace, edge>>
    BY <1>2 DEF sendInLoop, Unsent
  <2>2. len \in Nat /\ inflight \in 0..SndCap /\ taken \in Nat /\ SndCap \in Nat
    BY ConnConstants DEF Types
  <2>3. CASE direct /\ Written(len) = len
    <3>1. nwrote = len
      BY <2>3
    <3>2. UNCHANGED channel
      BY <2>1, <2>2, <3>1 DEF StartsWriting
    <3>3. outputBuffer_' = <<>>
      <4>1. data \in Seq(Nat) /\ Len(data) = len
        BY <2>2, NumbersGoOn
      <4>2. SubSeq(data, len + 1, len) = <<>>
        BY <2>2, SubSeqEmpty
      <4> QED BY <2>1, <2>3, <3>1, <4>1, <4>2
    <3> QED BY <2>1, <2>3, <3>2, <3>3 DEF channel
  <2>4. CASE direct /\ Written(len) # len
    <3>1. nwrote = Free /\ len - nwrote > 0
      <4>1. /\ Written(len) \in 0..len
            /\ Written(len) < len => Written(len) = Free
        BY <2>2, WrittenIs
      <4> HIDE DEF Free
      <4> QED BY <2>2, <2>4, <4>1
    <3>2. Update(interest \cup {"W"}, 0)
      BY <2>1, <2>2, <2>4, <3>1 DEF StartsWriting
    <3>3. "W" \in interest' /\ noSpace'
      BY <3>2 DEF Update
    <3>4. Free' = 0
      BY <2>1, <2>2, <3>1
    <3>5. ~finSent'
      BY <2>1, <2>4 DEF Broken
    <3> QED BY <3>3, <3>4, <3>5
  <2>5. CASE ~direct
    <3>1. isWriting
      BY <1>0, <2>5
    <3>2. nwrote = 0 /\ UNCHANGED <<interest, noSpace, edge, finSent>>
      BY <2>1, <2>5, <3>1 DEF StartsWriting, channel
    <3>3. Free' = Free
      <4> HIDE DEF nwrote
      <4> QED BY <2>1, <2>2, <3>2
    <3> QED BY <1>0, <3>1, <3>2, <3>3
  <2> QED BY <2>3, <2>4, <2>5
<1> QED BY <1>1, <1>2

\* shutdownInLoop sends the FIN only if nothing is buffered.
LEMMA ShutdownWrites ==
  ASSUME Writing, shutdownInLoop, ~closed,
         UNCHANGED <<pc, after, calls, rst, closed>>
  PROVE  Writing'
BY DEF Writing, shutdownInLoop, CanShutWrite, isWriting, Finishing, Due, Free, channel

\* Every step keeps the output path's invariant.
LEMMA WritingStep == IInv /\ [Next]_vars => Writing'
<1> SUFFICES ASSUME IInv, [Next]_vars, ~closed' PROVE Writing'
  BY DEF Writing
<1>0. Types /\ Phase /\ Established /\ Closing /\ Writing
  BY DEF IInv
<1>a. ~closed
  BY ClosedKept
<1>b. /\ finSent => ~isWriting /\ outputBuffer_ = <<>>
      /\ outputBuffer_ # <<>> => isWriting
      /\ isWriting /\ ~rst => (~Finishing /\ Due("write")) \/ edge \/ (Free = 0 /\ noSpace)
  BY <1>0, <1>a DEF Writing
<1>c. calls \in Seq(HandlerNames)
  BY <1>0 DEF Types
\* What most steps are: they leave the output path alone.
<1>d. ASSUME UNCHANGED <<interest, outputBuffer_, finSent, inflight, noSpace, rst>>,
             edge => edge', Due("write") => Due("write")', Finishing' = Finishing
      PROVE  Writing'
  BY <1>b, <1>d DEF Writing, isWriting, Free
<1>1. CASE Arrive \/ PeerCloses
  BY <1>1, <1>d DEF Arrive, PeerCloses, Notify, channel, output, control, Due, Finishing
<1>2. CASE PeerResets
  BY <1>b, <1>2 DEF PeerResets, channel, output, Writing, isWriting
<1>3. CASE Drain
  <2>1. isWriting => index = "kAdded"
    BY <1>0, <1>a DEF Established, isWriting
  <2>2. inflight \in 0..SndCap /\ SndCap \in Nat
    BY <1>0, ConnConstants DEF Types
  <2> QED BY <1>b, <1>3, <2>1, <2>2
          DEF Drain, Writing, isWriting, Free, Finishing, Due, channel, control, socketIn
<1>4. ASSUME NEW len \in 1..MaxLen, UserSends(len) PROVE Writing'
  <2>1. len \in 0..MaxLen /\ UNCHANGED <<pc, after, calls, rst, closed>>
    BY <1>4 DEF UserSends, control, socketIn
  <2> QED BY <1>0, <1>4, <1>a, <2>1, SendWrites DEF UserSends
<1>5. CASE UserShutsDown
  <2>1. UNCHANGED <<pc, after, calls, rst, closed>>
    BY <1>5 DEF UserShutsDown, control, socketIn
  <2> QED BY <1>0, <1>5, <1>a, <2>1, ShutdownWrites DEF UserShutsDown
<1>6. CASE UserReturns
  <2>1. Finishing' = Finishing
    BY <1>0, <1>6 DEF UserReturns, Finishing, Types
  <2> QED BY <1>6, <1>d, <2>1 DEF UserReturns, channel, output, socketIn, Due
<1>7. CASE Report
  <2>1. ~Finishing'
    BY <1>0, <1>7 DEF Report, Phase, Finishing
  <2>2. Due("write")' <=> "OUT" \in Events(interest, Free)
    BY <1>7, HandlersAre DEF Report, Due
  <2>3. isWriting /\ (Free > 0 \/ Broken) => Due("write")'
    BY <2>2 DEF Events, isWriting
  <2>4. Free \in Nat
    BY <1>0, WrittenIs DEF Types
  <2>5. UNCHANGED <<interest, outputBuffer_, finSent, inflight, rst>>
    BY <1>7 DEF Report, channel, output, socketIn
  <2>6. Free = 0 => noSpace'
    BY <1>7 DEF Report
  <2> QED BY <1>b, <2>1, <2>3, <2>4, <2>5, <2>6 DEF Writing, isWriting, Free
<1>8. CASE CloseCallback \/ handleError
  BY <1>0, <1>8 DEF CloseCallback, handleError, handleClose, Phase
<1>9. CASE handleRead
  <2>1. UNCHANGED <<interest, outputBuffer_, finSent, inflight, noSpace, rst, edge>>
    BY <1>9 DEF handleRead, channel, output
  <2>2. ~Finishing /\ ~Finishing'
    BY <1>0, <1>9 DEF handleRead, handleClose, Callback, Running, Phase, Finishing
  <2>3. Due("write") => Due("write")'
    <3>1. calls' = calls \/ calls' = Tail(calls)
      BY <1>9 DEF handleRead, AfterMessage
    <3>2. calls # <<>> /\ Head(calls) = "read"
      BY <1>9 DEF handleRead, Running
    <3> QED BY <1>c, <3>1, <3>2, TailHas DEF Due
  <2>4. Finishing' = Finishing
    BY <2>2 DEF Finishing
  <2> QED BY <1>d, <2>1, <2>3, <2>4
<1>10. CASE handleWrite
  <2>1. /\ isWriting /\ calls # <<>> /\ Head(calls) = "write" /\ pc = "loop"
        /\ UNCHANGED <<finSent, rst>>
    BY <1>10 DEF handleWrite, Running
  <2>2. ~Finishing /\ Due("write") /\ ~finSent
    <3>1. Due("write")
      BY <1>c, <2>1, TailOfQueue DEF Due, Has
    <3> QED BY <1>0, <1>b, <2>1, <3>1 DEF Phase, Finishing
  <2>3. CASE outputBuffer_ = <<>>
    BY <1>10, <2>1, <2>2, <2>3 DEF handleWrite, Update, Writing, isWriting
  <2>4. CASE UNCHANGED <<channel, noSpace, edge, calls, pc, after>>
    BY <2>1, <2>2, <2>4 DEF Writing, isWriting, channel, Due, Finishing
  <2>5. CASE Update(interest, Free) /\ Free = 0 /\ inflight' = inflight
    BY <2>1, <2>2, <2>5 DEF Writing, isWriting, Update, Free
  <2> QED BY <1>10, <2>3, <2>4, <2>5 DEF handleWrite, handleClose
<1>11. CASE Flushed
  <2>1. /\ Finishing
        /\ shutdownInLoop \/ UNCHANGED <<output, channel, noSpace, edge>>
        /\ UNCHANGED rst
    BY <1>11 DEF Flushed, Finishing, socketIn
  <2>2. isWriting /\ ~rst => edge \/ (Free = 0 /\ noSpace)
    BY <1>b, <2>1
  <2>3. CASE shutdownInLoop
    BY <1>b, <2>1, <2>2, <2>3
    DEF Writing, shutdownInLoop, CanShutWrite, isWriting, Free, channel
  <2>4. CASE UNCHANGED <<output, channel, noSpace, edge>>
    BY <1>b, <2>1, <2>2, <2>4 DEF Writing, isWriting, Free, channel, output
  <2> QED BY <2>1, <2>3, <2>4
<1>12. CASE connectionEstablished
  <2>1. state_ = "kConnecting"
    BY <1>12, EstablishedOnce DEF connectionEstablished
  <2>2. ~finSent /\ ~isWriting /\ outputBuffer_ = <<>>
    BY <1>0, <2>1 DEF Established, isWriting
  <2>3. interest' = interest \cup {"R"} /\ UNCHANGED <<finSent, outputBuffer_>>
    BY <1>12 DEF connectionEstablished, Update, output
  <2> QED BY <2>2, <2>3 DEF Writing, isWriting
<1>13. CASE RunSend
  <2>1. Head(functors)[2] \in 0..MaxLen
    BY <1>0, <1>13, TakenIs DEF RunSend, Functors
  <2>2. /\ sendInLoop(Head(functors)[2], Tail(functors))
        /\ UNCHANGED <<pc, after, calls, rst, closed>>
    BY <1>13 DEF RunSend, socketIn
  <2> QED BY <1>0, <1>a, <2>1, <2>2, SendWrites
<1>14. CASE RunShutdown
  <2>1. shutdownInLoop /\ UNCHANGED <<pc, after, calls, rst, closed>>
    BY <1>14 DEF RunShutdown, socketIn
  <2> QED BY <1>0, <1>a, <2>1, ShutdownWrites
<1>15. CASE RunWriteComplete
  <2>1. Finishing' = Finishing
    BY <1>0, <1>15 DEF RunWriteComplete, Take, Callback, Phase, Finishing
  <2> QED BY <1>15, <1>d, <2>1 DEF RunWriteComplete, channel, output, socketIn, Due
<1>16. CASE connectionDestroyed
  <2>1. Queued("destroy")
    BY <1>0, <1>16, TakenIs DEF connectionDestroyed, Queued, HasFunctor
  <2> QED BY <1>0, <1>a, <2>1 DEF Closing
<1>17. CASE UNCHANGED <<channel, output, noSpace, edge, socketIn, pc, after, calls>>
  BY <1>17, <1>d DEF channel, output, socketIn, Due, Finishing
<1> QED
  BY <1>1, <1>2, <1>3, <1>4, <1>5, <1>6, <1>7, <1>8, <1>9, <1>10, <1>11, <1>12,
     <1>13, <1>14, <1>15, <1>16, <1>17
  DEF Next, LoopStep, Handler, Functor, ForeignBegins, ForeignSends,
      ForeignShutsDown, BeginBatch, ServerRemoves, Destruct, vars, control

-----------------------------------------------------------------------------
\* Every step keeps unread input on the loop's or on epoll's list.
LEMMA InputStep == IInv /\ [Next]_vars => InputWatched'
<1> SUFFICES ASSUME IInv, [Next]_vars, ~closed', index' = "kAdded", unread' > 0 \/ peerFin'
             PROVE  edge' \/ Has(calls', "read")
  BY DEF InputWatched, Has
<1>0. Types /\ Phase /\ Established /\ Closing /\ InputWatched
  BY DEF IInv
<1>a. ~closed
  BY ClosedKept
<1>b. calls \in Seq(HandlerNames)
  BY <1>0 DEF Types
<1>c. index = "kAdded" /\ (unread > 0 \/ peerFin) => edge \/ Has(calls, "read")
  BY <1>0, <1>a DEF InputWatched, Has
\* What most steps are: nothing arrives, and nothing due is dropped.
<1>d. ASSUME index = "kAdded", unread' = unread, peerFin' = peerFin, edge => edge',
             Has(calls, "read") => Has(calls', "read")
      PROVE  edge' \/ Has(calls', "read")
  BY <1>c, <1>d
<1>e. ASSUME index = "kAdded", unread' = unread, peerFin' = peerFin, edge => edge',
             calls' = Tail(calls), calls # <<>>, Head(calls) = "write"
      PROVE  edge' \/ Has(calls', "read")
  BY <1>b, <1>c, <1>e, TailHas
<1>1. CASE Arrive \/ PeerCloses
  BY <1>1 DEF Arrive, PeerCloses, Notify, channel
<1>2. CASE PeerResets
  BY <1>2, <1>d DEF PeerResets, Notify, channel, control
<1>3. CASE Drain
  BY <1>3, <1>d DEF Drain, channel, control, socketIn
<1>4. ASSUME NEW len, NEW queue, sendInLoop(len, queue), state_ # "kConnecting",
             UNCHANGED <<unread, peerFin, calls>>
      PROVE  edge' \/ Has(calls', "read")
  <2>1. index = "kAdded"
    BY <1>0, <1>4, <1>a DEF Established
  <2>2. UNCHANGED edge \/ \E free : Update(interest \cup {"W"}, free)
    BY <1>4 DEF sendInLoop
  <2>3. edge => edge'
    BY <2>2 DEF Update
  <2> QED BY <1>4, <1>d, <2>1, <2>3
<1>5. ASSUME NEW len \in 1..MaxLen, UserSends(len) PROVE edge' \/ Has(calls', "read")
  BY <1>4, <1>5 DEF UserSends, socketIn, control
<1>6. CASE RunSend
  <2>1. state_ # "kConnecting"
    BY <1>0, <1>6, TakenIs DEF RunSend, Established
  <2> QED BY <1>4, <1>6, <2>1 DEF RunSend, socketIn
<1>7. CASE UserShutsDown \/ RunShutdown
  BY <1>7, <1>d DEF UserShutsDown, RunShutdown, shutdownInLoop, socketIn, control, channel
<1>8. CASE Report
  <2>1. "R" \in interest
    BY <1>0, <1>8, <1>a DEF Report, Established, Types
  <2>2. "IN" \in Events(interest, Free)
    BY <1>8, <2>1 DEF Report, Events, socketIn
  <2> QED BY <1>8, <2>2, HandlersAre DEF Report
<1>9. CASE CloseCallback \/ handleError
  BY <1>0, <1>9 DEF CloseCallback, handleError, handleClose, Phase
<1>10. CASE handleRead
  <2>1. Has(calls, "read")
    BY <1>10, <1>b, TailOfQueue DEF handleRead, Running, Has
  <2>2. ~(unread = 0 /\ ~AtEof)
    BY <1>10 DEF handleRead, AtEof
  <2> QED BY <1>10, <2>1, <2>2 DEF handleRead, handleClose, AfterMessage
<1>11. CASE handleWrite
  <2>1. /\ calls # <<>> /\ Head(calls) = "write" /\ UNCHANGED <<unread, peerFin>>
        /\ calls' = calls \/ calls' = Tail(calls)
        /\ \/ UNCHANGED channel /\ UNCHANGED edge
           \/ \E w \in {interest, interest \ {"W"}} : Update(w, Free)
    BY <1>11 DEF handleWrite, Running
  <2>2. index = "kAdded" /\ "R" \in interest
    BY <1>0, <1>11, <1>a DEF handleWrite, isWriting, Established
  <2>3. edge => edge'
    BY <2>1, <2>2 DEF Update
  <2> QED BY <1>d, <1>e, <2>1, <2>2, <2>3
<1>12. CASE Flushed
  <2>1. /\ calls # <<>> /\ Head(calls) = "write" /\ calls' = Tail(calls)
        /\ UNCHANGED <<unread, peerFin, index>>
        /\ edge => edge'
    BY <1>0, <1>12 DEF Flushed, shutdownInLoop, Phase, Finishing, channel, socketIn
  <2> QED BY <1>e, <2>1
<1>13. CASE connectionEstablished
  BY <1>13 DEF connectionEstablished, Update, Events, socketIn
<1>14. CASE connectionDestroyed
  BY <1>14 DEF connectionDestroyed
<1>15. CASE UNCHANGED <<index, edge, unread, peerFin, calls>>
  BY <1>15, <1>d
<1> QED
  BY <1>1, <1>2, <1>3, <1>5, <1>6, <1>7, <1>8, <1>9, <1>10, <1>11, <1>12, <1>13,
     <1>14, <1>15
  DEF Next, LoopStep, Handler, Functor, UserReturns, ForeignBegins, ForeignSends,
      ForeignShutsDown, BeginBatch, RunWriteComplete, ServerRemoves, Destruct, vars,
      channel, control, socketIn

-----------------------------------------------------------------------------
\* The order of the queue under additions and removals.
LEMMA DestroyOrder ==
  ASSUME NEW q \in Seq(Functors)
  PROVE  /\ q # <<>> /\ DestroyLast(q) => DestroyLast(Tail(q))
         /\ q # <<>> /\ DestroyLast(q) /\ q[1][1] = "destroy" => OnlyDestroy(Tail(q))
         /\ q # <<>> /\ OnlyDestroy(q) => OnlyDestroy(Tail(q)) /\ q[1][1] = "destroy"
         /\ DestroyLast(q) => DestroyLast(Append(q, <<"destroy", 0>>))
         /\ OnlyDestroy(q) => OnlyDestroy(Append(q, <<"destroy", 0>>))
         /\ OnlyDestroy(q) => DestroyLast(q)
         /\ OnlyDestroy(q) /\ ~HasFunctor(q, "destroy") => q = <<>>
         /\ \A e \in Functors :
              ~HasFunctor(q, "destroy") => DestroyLast(Append(q, e))
<1>1. Len(q) \in Nat /\ DOMAIN q = 1..Len(q)
  BY LenProperties
<1>2. ASSUME q # <<>>
      PROVE  /\ DestroyLast(q) => DestroyLast(Tail(q))
             /\ DestroyLast(q) /\ q[1][1] = "destroy" => OnlyDestroy(Tail(q))
             /\ OnlyDestroy(q) => OnlyDestroy(Tail(q)) /\ q[1][1] = "destroy"
  <2>1. /\ 1 \in DOMAIN q /\ Tail(q) \in Seq(Functors) /\ Len(Tail(q)) = Len(q) - 1
        /\ \A k \in DOMAIN Tail(q) : k + 1 \in DOMAIN q /\ Tail(q)[k] = q[k + 1]
    BY <1>2, TailOfQueue
  <2>2. DOMAIN Tail(q) = 1..(Len(q) - 1)
    BY <2>1, LenProperties
  <2>3. ASSUME DestroyLast(q) PROVE DestroyLast(Tail(q))
    <3> SUFFICES ASSUME NEW i \in DOMAIN Tail(q), NEW j \in DOMAIN Tail(q), i < j,
                        Tail(q)[i][1] = "destroy"
                 PROVE  Tail(q)[j][1] = "destroy"
      BY DEF DestroyLast
    <3>1. i + 1 < j + 1
      BY <1>1, <2>2
    <3> QED BY <2>1, <2>3, <3>1 DEF DestroyLast
  <2>4. ASSUME DestroyLast(q), q[1][1] = "destroy" PROVE OnlyDestroy(Tail(q))
    <3> SUFFICES ASSUME NEW k \in DOMAIN Tail(q) PROVE Tail(q)[k][1] = "destroy"
      BY DEF OnlyDestroy
    <3>1. 1 < k + 1
      BY <1>1, <2>2
    <3> QED BY <2>1, <2>4, <3>1 DEF DestroyLast
  <2>5. OnlyDestroy(q) => OnlyDestroy(Tail(q)) /\ q[1][1] = "destroy"
    BY <2>1 DEF OnlyDestroy
  <2> QED BY <2>3, <2>4, <2>5
<1>3. ASSUME NEW e \in Functors, e[1] = "destroy" \/ ~HasFunctor(q, "destroy"),
             DestroyLast(q)
      PROVE  DestroyLast(Append(q, e))
  <2> DEFINE a == Append(q, e)
  <2>1. /\ DOMAIN a = 1..(Len(q) + 1) /\ a[Len(q) + 1] = e
        /\ \A k \in 1..Len(q) : a[k] = q[k]
    BY EndOfQueue
  <2> SUFFICES ASSUME NEW i \in DOMAIN a, NEW j \in DOMAIN a, i < j, a[i][1] = "destroy"
               PROVE  a[j][1] = "destroy"
    BY DEF DestroyLast
  <2>2. i \in 1..Len(q) /\ a[i] = q[i]
    <3> HIDE DEF a
    <3> QED BY <1>1, <2>1
  <2>3. e[1] = "destroy"
    BY <1>1, <1>3, <2>2 DEF HasFunctor
  <2>4. CASE j = Len(q) + 1
    BY <2>1, <2>3, <2>4
  <2>5. CASE j # Len(q) + 1
    <3>1. j \in 1..Len(q) /\ a[j] = q[j]
      <4> HIDE DEF a
      <4> QED BY <1>1, <2>1, <2>5
    <3> QED BY <1>1, <1>3, <2>2, <3>1 DEF DestroyLast
  <2> QED BY <2>4, <2>5
<1>4. ~HasFunctor(q, "destroy") => DestroyLast(q)
  BY DEF HasFunctor, DestroyLast
<1>5. <<"destroy", 0>> \in Functors
  BY ConnConstants DEF Functors, FunctorNames
<1>6. OnlyDestroy(q) => OnlyDestroy(Append(q, <<"destroy", 0>>))
  <2> DEFINE a == Append(q, <<"destroy", 0>>)
  <2>1. /\ DOMAIN a = 1..(Len(q) + 1) /\ a[Len(q) + 1] = <<"destroy", 0>>
        /\ \A k \in 1..Len(q) : a[k] = q[k]
    BY <1>5, EndOfQueue
  <2> SUFFICES ASSUME OnlyDestroy(q), NEW k \in DOMAIN a PROVE a[k][1] = "destroy"
    BY DEF OnlyDestroy
  <2> HIDE DEF a
  <2>2. CASE k = Len(q) + 1
    BY <2>1, <2>2
  <2>3. CASE k # Len(q) + 1
    <3>1. k \in 1..Len(q)
      BY <1>1, <2>1, <2>3
    <3> QED BY <1>1, <2>1, <3>1 DEF OnlyDestroy
  <2> QED BY <2>2, <2>3
<1>7. OnlyDestroy(q) => DestroyLast(q)
  BY DEF OnlyDestroy, DestroyLast
<1>8. OnlyDestroy(q) /\ ~HasFunctor(q, "destroy") => q = <<>>
  <2>1. q # <<>> => 1 \in DOMAIN q
    BY TailOfQueue
  <2> QED BY <2>1 DEF OnlyDestroy, HasFunctor
<1>9. DestroyLast(q) => DestroyLast(Append(q, <<"destroy", 0>>))
  BY <1>3, <1>5
<1>10. \A e \in Functors : ~HasFunctor(q, "destroy") => DestroyLast(Append(q, e))
  BY <1>3, <1>4
<1> QED BY <1>2, <1>6, <1>7, <1>8, <1>9, <1>10

\* While no other thread has used the connection, no step is one of theirs.
LEMMA LocalKept ==
  ASSUME Types, [Next]_vars, Local'
  PROVE  /\ Local
         /\ \A f \in Foreign :
              /\ \A op \in {"send", "shutdown"} : ~ForeignBegins(f, op)
              /\ \A len \in 1..MaxLen : ~ForeignSends(f, len)
              /\ ~ForeignShutsDown(f)
<1>1. calling \in [Foreign -> {"nothing", "send", "shutdown", "done"}]
  BY DEF Types
<1>2. \A f \in Foreign :
        /\ \A op \in {"send", "shutdown"} : ~ForeignBegins(f, op)
        /\ \A len \in 1..MaxLen : ~ForeignSends(f, len)
        /\ ~ForeignShutsDown(f)
  BY <1>1 DEF ForeignBegins, ForeignSends, ForeignShutsDown, Local
<1>3. calling' = calling
  BY <1>2
  DEF Next, LoopStep, Handler, Functor, Arrive, PeerCloses, PeerResets, Drain,
      UserSends, UserShutsDown, UserReturns, Report, CloseCallback, handleError,
      handleRead, handleWrite, Flushed, BeginBatch, connectionEstablished,
      RunSend, RunShutdown, RunWriteComplete, connectionDestroyed,
      ServerRemoves, Destruct, vars, callers
<1> QED BY <1>2, <1>3 DEF Local

\* Every step keeps the order of the teardown.
LEMMA TeardownStep == IInv /\ [Next]_vars => Teardown'
<1> SUFFICES ASSUME IInv, [Next]_vars, Local' PROVE Teardown'
  BY DEF Teardown
<1>0. Types /\ Phase /\ Established /\ Closing /\ Teardown
  BY DEF IInv
<1>1. /\ Local
      /\ \A f \in Foreign :
              /\ \A op \in {"send", "shutdown"} : ~ForeignBegins(f, op)
              /\ \A len \in 1..MaxLen : ~ForeignSends(f, len)
              /\ ~ForeignShutsDown(f)
  BY <1>0, LocalKept
<1>2. /\ closed => state_ = "kDisconnected"
      /\ DestroyLast(functors)
      /\ destroyed => /\ index = "kNew" /\ interest = {} /\ ~edge
                      /\ calls = <<>> /\ pc = "loop" /\ OnlyDestroy(functors)
      /\ ~alive => functors = <<>> /\ removals = 0
  BY <1>0, <1>1 DEF Teardown
<1>3. /\ functors \in Seq(Functors) /\ <<"writeComplete", 0>> \in Functors
      /\ edge \in BOOLEAN
  BY <1>0, ConnConstants DEF Types, Functors, FunctorNames
<1>4. ~closed => ~destroyed /\ alive /\ ~HasFunctor(functors, "destroy")
  BY <1>0 DEF Closing, Queued
<1>5. destroyed => closed
  BY <1>0 DEF Closing
\* Steps that change none of it.
<1>6. ASSUME UNCHANGED <<state_, closed, functors, destroyed, alive, removals>>,
             destroyed => UNCHANGED <<interest, index, edge, calls, pc>>
      PROVE  Teardown'
  BY <1>2, <1>3, <1>6 DEF Teardown
\* Steps of a connection that stays open.
<1>7. ASSUME ~closed, closed' = closed, DestroyLast(functors'),
             UNCHANGED <<destroyed, alive>>
      PROVE  Teardown'
  BY <1>4, <1>7 DEF Teardown
<1>8. CASE Arrive \/ PeerCloses \/ PeerResets \/ Drain
  <2>1. UNCHANGED <<state_, closed, functors, destroyed, alive, removals,
                    interest, index, calls, pc>>
    BY <1>8 DEF Arrive, PeerCloses, PeerResets, Drain, channel, control, lifetime
  <2>2. destroyed => edge' = edge
    BY <1>2, <1>3, <1>8 DEF Arrive, PeerCloses, PeerResets, Drain, Notify
  <2> QED BY <1>6, <2>1, <2>2
<1>9. ASSUME NEW len \in 1..MaxLen, UserSends(len) PROVE Teardown'
  <2>1. ~closed
    BY <1>2, <1>9 DEF UserSends
  <2>2. functors' \in {functors, Append(functors, <<"writeComplete", 0>>)}
    BY <1>9 DEF UserSends, sendInLoop
  <2>3. DestroyLast(Append(functors, <<"writeComplete", 0>>))
    BY <1>3, <1>4, <2>1, DestroyOrder
  <2>4. DestroyLast(functors')
    BY <1>2, <2>2, <2>3
  <2> QED BY <1>7, <1>9, <2>1, <2>4 DEF UserSends, control, lifetime
<1>10. CASE UserShutsDown
  <2>1. ~closed
    BY <1>2, <1>10 DEF UserShutsDown
  <2> QED BY <1>2, <1>7, <1>10, <2>1 DEF UserShutsDown, control, lifetime
<1>11. CASE UserReturns
  <2>1. ~destroyed
    BY <1>2, <1>11 DEF UserReturns
  <2> QED BY <1>6, <1>11, <2>1 DEF UserReturns, lifetime
<1>12. CASE Report
  <2>1. ~destroyed
    BY <1>2, <1>12 DEF Report
  <2> QED BY <1>6, <1>12, <2>1 DEF Report, lifetime
<1>13. CASE CloseCallback
  <2>1. ~destroyed
    BY <1>2, <1>13 DEF CloseCallback
  <2>2. alive
    BY <1>0, <2>1 DEF Closing
  <2> QED BY <1>2, <1>13, <2>1, <2>2 DEF CloseCallback, Teardown
<1>14. ASSUME calls # <<>>, UNCHANGED <<functors, destroyed, alive>>,
              (UNCHANGED <<state_, closed>>) \/ handleClose
       PROVE  Teardown'
  <2>1. ~destroyed
    BY <1>2, <1>14
  <2>2. alive
    BY <1>0, <2>1 DEF Closing
  <2> QED BY <1>2, <1>14, <2>1, <2>2 DEF handleClose, ClosedState, Teardown
<1>15. CASE handleError
  BY <1>14, <1>15 DEF handleError, Running, lifetime
<1>16. CASE handleRead
  BY <1>14, <1>16 DEF handleRead, Running, lifetime
<1>17. CASE handleWrite
  BY <1>14, <1>17 DEF handleWrite, Running, lifetime
<1>18. CASE Flushed
  <2>1. ~destroyed
    BY <1>2, <1>18 DEF Flushed
  <2> QED BY <1>6, <1>18, <2>1 DEF Flushed, lifetime
<1>19. CASE BeginBatch \/ UNCHANGED vars
  BY <1>6, <1>19 DEF BeginBatch, vars, channel, lifetime, control
<1>20. CASE connectionEstablished
  <2>1. state_ = "kConnecting" /\ Tail(functors) = <<>>
    BY <1>20, EstablishedOnce DEF connectionEstablished
  <2>2. ~closed /\ functors' = <<>>
    BY <1>2, <1>20, <2>1 DEF connectionEstablished
  <2> QED BY <1>7, <1>20, <2>2 DEF connectionEstablished, lifetime, DestroyLast
\* A functor other than connectionDestroyed runs before the first of those.
<1>21. ASSUME NEW name \in {"send", "shutdown", "writeComplete"}, Take(name)
       PROVE  ~destroyed /\ alive
  <2>1. functors # <<>> /\ functors[1][1] = name
    BY <1>0, <1>21, TakenIs
  <2> QED BY <1>2, <1>3, <1>21, <2>1, DestroyOrder DEF Take
<1>22. ASSUME NEW name, Take(name) PROVE DestroyLast(Tail(functors))
  BY <1>0, <1>2, <1>3, <1>22, TakenIs, DestroyOrder
<1>23. CASE RunSend
  <2>1. ~destroyed /\ alive /\ DestroyLast(Tail(functors))
    BY <1>21, <1>22, <1>23 DEF RunSend
  <2>2. CASE functors' = Tail(functors)
    BY <1>2, <1>23, <2>1, <2>2 DEF RunSend, lifetime, Teardown
  <2>3. CASE functors' # Tail(functors)
    <3>1. functors' = Append(Tail(functors), <<"writeComplete", 0>>)
      BY <1>23, <2>3 DEF RunSend, sendInLoop
    <3>2. state_ # "kDisconnected"
      BY <1>23, <2>3 DEF RunSend, sendInLoop
    <3>3. ~closed
      BY <1>2, <3>2
    <3>4. functors # <<>> /\ Tail(functors) \in Seq(Functors)
      BY <1>0, <1>23, TakenIs DEF RunSend
    <3>5. ~HasFunctor(Tail(functors), "destroy")
      BY <1>3, <1>4, <3>3, <3>4, FunctorsAfter
    <3>6. DestroyLast(functors')
      BY <1>3, <3>1, <3>4, <3>5, DestroyOrder
    <3> QED BY <1>7, <1>23, <3>3, <3>6 DEF RunSend, lifetime
  <2> QED BY <2>2, <2>3
<1>24. CASE RunShutdown
  <2>1. ~destroyed /\ alive /\ DestroyLast(Tail(functors))
    BY <1>21, <1>22, <1>24 DEF RunShutdown
  <2> QED BY <1>2, <1>24, <2>1 DEF RunShutdown, lifetime, Teardown
<1>25. CASE RunWriteComplete
  <2>1. ~destroyed /\ alive /\ DestroyLast(Tail(functors))
    BY <1>21, <1>22, <1>25 DEF RunWriteComplete
  <2> QED BY <1>2, <1>25, <2>1 DEF RunWriteComplete, lifetime, Teardown
<1>26. CASE connectionDestroyed
  <2>1. functors # <<>> /\ functors[1][1] = "destroy"
    BY <1>0, <1>26, TakenIs DEF connectionDestroyed
  <2>2. DestroyLast(functors') /\ OnlyDestroy(functors')
    BY <1>2, <1>3, <1>26, <2>1, DestroyOrder DEF connectionDestroyed
  <2>3. calls = <<>> /\ pc = "loop" /\ alive
    BY <1>0, <1>26 DEF connectionDestroyed, Take, Phase, Types
  <2> QED BY <1>26, <2>2, <2>3 DEF connectionDestroyed, Teardown
<1>27. CASE ServerRemoves
  <2>1. alive
    BY <1>2, <1>27 DEF ServerRemoves
  <2>2. /\ DestroyLast(functors')
        /\ destroyed => OnlyDestroy(functors')
    BY <1>2, <1>3, <1>27, DestroyOrder DEF ServerRemoves
  <2>3. UNCHANGED <<state_, closed, destroyed, alive, interest, index, edge, calls, pc>>
    BY <1>27 DEF ServerRemoves, channel, control
  <2> QED BY <1>2, <2>1, <2>2, <2>3 DEF Teardown
<1>28. CASE Destruct
  <2>1. destroyed /\ removals = 0 /\ ~HasFunctor(functors, "destroy")
    BY <1>28 DEF Destruct, HasFunctor
  <2>2. functors = <<>>
    BY <1>2, <1>3, <2>1, DestroyOrder
  <2>3. UNCHANGED <<state_, closed, destroyed, functors, removals, interest, index, edge,
                    calls, pc>>
    BY <1>28 DEF Destruct, channel, control
  <2> QED BY <1>2, <2>1, <2>2, <2>3 DEF Teardown
<1> QED
  BY <1>1, <1>8, <1>9, <1>10, <1>11, <1>12, <1>13, <1>15, <1>16, <1>17, <1>18,
     <1>19, <1>20, <1>23, <1>24, <1>25, <1>26, <1>27, <1>28
  DEF Next, LoopStep, Handler, Functor

-----------------------------------------------------------------------------
\* The invariant is inductive.
LEMMA NextInv == IInv /\ [Next]_vars => IInv'
BY TypeStep, StreamStep, PhaseStep, EstablishedStep, ClosingStep, WritingStep,
   InputStep, TeardownStep
DEF IInv

\* What the invariant gives for the properties that are not parts of it.
LEMMA InvImplies ==
  IInv => OutputWatched /\ FinAfterData /\ LocalTeardownClean
<1> SUFFICES ASSUME IInv PROVE OutputWatched /\ FinAfterData /\ LocalTeardownClean
  OBVIOUS
<1>1. OutputWatched /\ FinAfterData
  BY DEF IInv, Writing, OutputWatched, WriteScheduled, FinAfterData, Due, Has
<1>2. LocalTeardownClean
  BY DEF IInv, Teardown, Closing, Local, LocalTeardownClean
<1> QED BY <1>1, <1>2

\* Types: the socket never holds more than its send buffer, and the batch
\* that doPendingFunctors executes is a prefix of the functors queued.
THEOREM TypesCorrect == Spec => []Types
BY InitInv, NextInv, PTL DEF Spec, IInv

\* The stream is what sendInLoop took, once and in order, whatever mixture of
\* direct and buffered writes, callbacks and threads produced it.
THEOREM StreamCorrect == Spec => []StreamInOrder
BY InitInv, NextInv, PTL DEF Spec, IInv

\* Buffered output of an open connection always has EPOLLOUT watched for and
\* the next write scheduled, by the loop, by epoll or by a full buffer.
THEOREM OutputNeverForgotten == Spec => []OutputWatched
BY InitInv, NextInv, InvImplies, PTL DEF Spec

\* Unread input of an open connection is on epoll's list or being handled:
\* edge triggering misses nothing.
THEOREM InputNeverForgotten == Spec => []InputWatched
BY InitInv, NextInv, PTL DEF Spec, IInv

\* The FIN of shutdown() is sent behind all the data.
THEOREM FinIsLast == Spec => []FinAfterData
BY InitInv, NextInv, InvImplies, PTL DEF Spec

\* A connection that only its loop thread used is torn down cleanly however
\* often it is closed: disconnected, unregistered and with no functor left.
THEOREM TeardownClean == Spec => []LocalTeardownClean
BY InitInv, NextInv, InvImplies, PTL DEF Spec
=============================================================================
