------------------------------- MODULE Buffer -------------------------------
(***************************************************************************)
(* base::Buffer (src/base/Buffer.h, Buffer.cc): the input and output       *)
(* buffer of every TcpConnection.  A vector is divided by two indices into *)
(* a prependable, a readable and a writable region; when the writable      *)
(* region is too short the readable bytes are moved down or the vector is  *)
(* replaced by a larger one.                                               *)
(*                                                                         *)
(* The vector is a sequence: the byte at C++ index k is element k + 1.  A  *)
(* copy between two places is written out, bytes that are no longer        *)
(* readable keep their stale value.  Callers keep to the assertions on     *)
(* their arguments (consume, retrieve..., prepend).                        *)
(***************************************************************************)
EXTENDS Integers, Sequences

CONSTANTS
  Byte,                  \* the byte values that occur
  Zero,                  \* what std::vector<char>(n) is filled with
  kCheapPrepend,         \* 8 in the code
  initialSize,           \* 1024 in the code
  ExtraSize,             \* sizeof(extrabuf), 65536 in the code
  IntSize,               \* sizeof(int32_t)
  MaxLen,                \* bound: bytes of one append or prepend
  MaxReadable            \* bound: readable bytes

ASSUME BufferConstants ==
  /\ Zero \in Byte
  /\ kCheapPrepend \in Nat /\ initialSize \in Nat /\ ExtraSize \in Nat
  /\ IntSize \in Nat \ {0} /\ MaxLen \in Nat /\ MaxReadable \in Nat

VARIABLES
  buf,                   \* buffer_, readerIndex_ and writerIndex_
  passed                 \* the bytes that were put in or returned last

bufferVars == <<buf, passed>>

-----------------------------------------------------------------------------
\* The regions.
Size(b) == Len(b.buffer_)

readableBytes(b) == b.writerIndex_ - b.readerIndex_

writableBytes(b) == Size(b) - b.writerIndex_

prependableBytes(b) == b.readerIndex_

\* The readable bytes, from peek() to writerIt().
Readable(b) == [i \in 1..readableBytes(b) |-> b.buffer_[b.readerIndex_ + i]]

\* std::copy of the bytes of d to C++ index at.
Copy(bytes, d, at) ==
  [k \in 1..Len(bytes) |->
     IF at < k /\ k <= at + Len(d) THEN d[k - at] ELSE bytes[k]]

\* The constructor: an empty buffer of size bytes behind the headroom.
Fresh(size) ==
  [buffer_ |-> [k \in 1..(kCheapPrepend + size) |-> Zero],
   readerIndex_ |-> kCheapPrepend,
   writerIndex_ |-> kCheapPrepend]

\* The readable bytes of b at kCheapPrepend of the given storage.
Moved(b, bytes) ==
  [buffer_ |-> Copy(bytes, Readable(b), kCheapPrepend),
   readerIndex_ |-> kCheapPrepend,
   writerIndex_ |-> kCheapPrepend + readableBytes(b)]

\* Mutant: the headroom is left out of the comparison.
MutantMustGrow(b, len) ==
  writableBytes(b) + prependableBytes(b) < len

\* Would len more bytes not fit even behind readable bytes moved down?
MustGrow(b, len) ==
  writableBytes(b) + prependableBytes(b) < len + kCheapPrepend

makeSpace(b, len) ==
  IF MustGrow(b, len)
  THEN Moved(b, Fresh(readableBytes(b) + len).buffer_)
  ELSE Moved(b, b.buffer_)

ensureWritableBytes(b, len) ==
  IF writableBytes(b) < len THEN makeSpace(b, len) ELSE b

\* append on a buffer b: room is made, the bytes copied, the index moved.
Store(b, d) ==
  [buffer_ |-> Copy(b.buffer_, d, b.writerIndex_),
   readerIndex_ |-> b.readerIndex_,
   writerIndex_ |-> b.writerIndex_ + Len(d)]

Appended(b, d) == Store(ensureWritableBytes(b, Len(d)), d)

\* consume on a buffer b; taking everything resets both indices.
Consumed(b, len) ==
  IF len < readableBytes(b)
  THEN [buffer_ |-> b.buffer_,
        readerIndex_ |-> b.readerIndex_ + len,
        writerIndex_ |-> b.writerIndex_]
  ELSE [buffer_ |-> b.buffer_,
        readerIndex_ |-> kCheapPrepend,
        writerIndex_ |-> kCheapPrepend]

\* ntohl and htonl: the bytes of an integer the other way round.
Swapped(x) == [i \in 1..Len(x) |-> x[Len(x) + 1 - i]]

\* Mutant: the write index is not moved to the end of the vector before what
\* extrabuf holds is appended.
MutantScattered(b, d) ==
  LET writable == writableBytes(b)
  IN IF Len(d) <= writable
     THEN Store(b, d)
     ELSE Appended(b, SubSeq(d, writable + 1, Len(d)))

\* readv into the writable region first and into extrabuf after it: what
\* the buffer is once the bytes d of the socket have been taken in.
Scattered(b, d) ==
  LET writable == writableBytes(b)
  IN IF Len(d) <= writable
     THEN Store(b, d)
     ELSE Appended(Store(b, SubSeq(d, 1, writable)),
                   SubSeq(d, writable + 1, Len(d)))

-----------------------------------------------------------------------------
Strings(n) == UNION {[1..k -> Byte] : k \in 0..n}

Fits(d) == readableBytes(buf) + Len(d) <= MaxReadable

append(d) ==
  /\ Fits(d)
  /\ buf' = Appended(buf, d)
  /\ passed' = d

appendInt32(x) ==
  /\ Fits(x)
  /\ buf' = Appended(buf, Swapped(x))
  /\ passed' = Swapped(x)

consume(len) ==
  /\ len <= readableBytes(buf)
  /\ buf' = Consumed(buf, len)
  /\ UNCHANGED passed

retrieveAsString(len) ==
  /\ len <= readableBytes(buf)
  /\ passed' = SubSeq(Readable(buf), 1, len)
  /\ buf' = Consumed(buf, len)

retrieveInt32 ==
  /\ readableBytes(buf) >= IntSize
  /\ passed' = Swapped(SubSeq(Readable(buf), 1, IntSize))
  /\ buf' = Consumed(buf, IntSize)

\* prepend on a buffer b.
Prepended(b, d) ==
  [buffer_ |-> Copy(b.buffer_, d, b.readerIndex_ - Len(d)),
   readerIndex_ |-> b.readerIndex_ - Len(d),
   writerIndex_ |-> b.writerIndex_]

prepend(d) ==
  /\ Len(d) <= prependableBytes(buf)
  /\ Fits(d)
  /\ buf' = Prepended(buf, d)
  /\ passed' = d

prependInt32(x) ==
  /\ IntSize <= prependableBytes(buf)
  /\ Fits(x)
  /\ buf' = Prepended(buf, Swapped(x))
  /\ passed' = Swapped(x)

\* The most bytes one readv returns: extrabuf is offered only to a buffer
\* whose own writable region is shorter.
Offered(b) ==
  writableBytes(b) + IF writableBytes(b) < ExtraSize THEN ExtraSize ELSE 0

\* readFd; a failed readv changes nothing and is no step here.
readFd(d) ==
  /\ Len(d) <= Offered(buf)
  /\ Fits(d)
  /\ buf' = Scattered(buf, d)
  /\ passed' = d

BufferInit ==
  /\ buf = Fresh(initialSize)
  /\ passed = <<>>

BufferNext ==
  \/ \E d \in Strings(MaxLen) : append(d)
  \/ \E x \in [1..IntSize -> Byte] : appendInt32(x)
  \/ \E len \in 0..MaxReadable : consume(len)
  \/ \E len \in 0..MaxReadable : retrieveAsString(len)
  \/ retrieveInt32
  \/ \E d \in Strings(MaxLen) : prepend(d)
  \/ \E x \in [1..IntSize -> Byte] : prependInt32(x)
  \/ \E d \in Strings(MaxReadable) : readFd(d)

BufferSpec == BufferInit /\ [][BufferNext]_bufferVars

-----------------------------------------------------------------------------
\* The indices divide the vector: 0 <= readerIndex_ <= writerIndex_ <=
\* size(), so no copy leaves the vector.
WellFormed(b) ==
  /\ b \in [buffer_ : Seq(Byte), readerIndex_ : Nat, writerIndex_ : Nat]
  /\ b.readerIndex_ <= b.writerIndex_
  /\ b.writerIndex_ <= Size(b)
  /\ kCheapPrepend <= Size(b)

\* The buffer stays well formed through every operation.
BufferTypeOK ==
  /\ WellFormed(buf)
  /\ passed \in Seq(Byte)

\* The assertions of makeSpace and ensureWritableBytes: whatever is asked
\* for next, bytes are only ever moved down (never onto themselves or up,
\* where std::copy would overwrite what it has yet to read), and the room
\* asked for is there afterwards.
RoomIsMade ==
  \A len \in 1..(MaxReadable + 1) :
    writableBytes(buf) < len =>
      /\ MustGrow(buf, len) \/ kCheapPrepend < buf.readerIndex_
      /\ writableBytes(makeSpace(buf, len)) >= len

\* Seen through its readable bytes, the buffer is a string of bytes: every
\* byte that append, prepend or readFd was given is in it, at the right end,
\* and what is retrieved is what stood at its front.
Queue == INSTANCE ByteQueue WITH content <- Readable(buf),
                                 Input <- Strings(MaxReadable)

QueueSpec == Queue!Spec

\* Buffer.h says of prependableBytes that the read index is always at least
\* kCheapPrepend, so that a header never needs data to be moved.
HeadroomKept == prependableBytes(buf) >= kCheapPrepend
=============================================================================
