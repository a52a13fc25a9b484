-------------------------- MODULE TcpServerProofs --------------------------
(***************************************************************************)
(* Proofs about TcpServer, for every number of I/O threads, descriptors,   *)
(* connections and repeated closes.                                        *)
(***************************************************************************)
EXTENDS TcpServer, QueueLemmas

\* accept() makes a connection of one that waits.
Counted == created + backlog <= arrived

\* The order in which the loops are started and left: ~TcpServer runs on the
\* main thread once its loop has returned, and only it makes an I/O loop
\* return.
Stages ==
  /\ phase = "new" =>
       created = 0 /\ next_ = 0 /\ \A l \in Loops : pc[l] = "before"
  /\ phase \in {"quitting", "gone"} =>
       pc[0] = "exited" /\ \A f \in Fds : connections_[f] = 0
  /\ \A l \in Loops \ {0} : pc[l] = "exited" \/ quit_[l] => phase \in {"quitting", "gone"}
  /\ \A l \in Loops : l > threadNum_ => pc[l] = "before"
  /\ \A l \in Loops : pc[l] # "pending" => batch[l] = 0
  /\ pc[0] = "store" => created # 0

\* A connection has a descriptor and an I/O loop, the main loop when there is
\* no other, and the map has it under that descriptor.
Objects ==
  /\ \A c \in 1..created :
       /\ conn[c].fd \in Fds
       /\ conn[c].loop \in 0..threadNum_ /\ (conn[c].loop = 0 => threadNum_ = 0)
  /\ \A c \in Conns : c > created => ~conn[c].registered
  /\ \A f \in Fds : connections_[f] # 0 =>
       connections_[f] \in 1..created /\ conn[connections_[f]].fd = f

Names == {"established", "remove", "destroyed"}
Calls == Names \X Conns

\* Functor <<name, c>> is queued on loop l.
Queued(l, name, c) == Has(tasks[l], <<name, c>>)

\* Nothing about a connection is queued in front of its connectionEstablished.
EstablishedFirst(q) ==
  \A k \in DOMAIN q : q[k][1] = "established" =>
    \A j \in 1..(k - 1) : q[j][2] # q[k][2]

\* What a queued functor says of its connection: connectionEstablished comes
\* first, removal and destruction come after handleClose, at least until
\* ~TcpServer sends connections away by itself.
Fits(l, name, c) ==
  /\ c \in 1..created
  /\ name = "remove" => l = 0 /\ conn[c].loop # 0
  /\ name # "remove" => l = conn[c].loop
  /\ name = "established" =>
       l # 0 /\ conn[c].state = "kConnecting" /\ ~conn[c].registered
  /\ name # "established" /\ pc[0] # "exited" => conn[c].state = "kDisconnected"

Functors ==
  \A l \in Loops :
    /\ EstablishedFirst(tasks[l])
    /\ \A name \in Names, c \in Conns : Queued(l, name, c) => Fits(l, name, c)

\* A descriptor belongs to one connection at a time.
FdsUnique ==
  \A c, d \in 1..created : Held(c) /\ Held(d) /\ conn[c].fd = conn[d].fd => c = d

\* The map has the connection, or will have it.
InMap(c) == connections_[conn[c].fd] = c \/ (pc[0] = "store" /\ c = created)

\* A connection that still needs connectionDestroyed will get it: it is in
\* the map, or the functor is queued on its loop.
WillBeDestroyed(c) ==
  pc[conn[c].loop] # "exited" /\ (conn[c].registered \/ conn[c].state # "kDisconnected")
  => InMap(c) \/ Queued(conn[c].loop, "destroyed", c)

Tracked == \A c \in 1..created : WillBeDestroyed(c)

\* On the main loop an open connection never leaves the map before it is
\* closed, not even while ~TcpServer runs.
OpenOnMain(c) == conn[c].loop = 0 /\ conn[c].state # "kDisconnected" => InMap(c)

MainTracked == \A c \in 1..created : OpenOnMain(c)

\* Callbacks come late only from I/O loops: a single loop does not run any
\* more when the callbacks are destroyed.
NoLateCall == lateCall => threadNum_ # 0 /\ phase \in {"quitting", "gone"}

IInv ==
  /\ TypeOK /\ Counted /\ Stages /\ Objects /\ Functors /\ FdsUnique
  /\ Tracked /\ MainTracked /\ NoLateCall /\ WaitingIsReported

-----------------------------------------------------------------------------
(* Queues of functors.                                                     *)

Posted(q, l, e) == [q EXCEPT ![l] = Append(@, e)]
Popped(q, l) == [q EXCEPT ![l] = Tail(@)]
Emptied(q, l) == [q EXCEPT ![l] = <<>>]

Queues == [Loops -> Seq(Calls)]

\* queueInLoop: one more entry on one loop.
LEMMA PostedIs ==
  ASSUME NEW q \in Queues, NEW l \in Loops, NEW name \in Names, NEW c \in Conns
  PROVE  /\ Posted(q, l, <<name, c>>) \in Queues
         /\ \A m \in Loops : \A e :
              Has(Posted(q, l, <<name, c>>)[m], e) <=> Has(q[m], e) \/ (m = l /\ e = <<name, c>>)
         /\ \A m \in Loops : Len(q[m]) <= Len(Posted(q, l, <<name, c>>)[m])
<1> DEFINE x == <<name, c>>
<1>1. x \in Calls
  BY DEF Calls
<1> HIDE DEF x
<1>2. q[l] \in Seq(Calls)
  BY DEF Queues
<1>3. /\ Append(q[l], x) \in Seq(Calls) /\ Len(Append(q[l], x)) = Len(q[l]) + 1
      /\ \A e : Has(Append(q[l], x), e) <=> Has(q[l], e) \/ e = x
  BY <1>1, <1>2, EndOfQueue, AppendHas
<1>4. /\ Posted(q, l, x) \in Queues
      /\ \A m \in Loops : Posted(q, l, x)[m] = IF m = l THEN Append(q[l], x) ELSE q[m]
  BY <1>3 DEF Posted, Queues
<1>5. \A m \in Loops : Len(q[m]) <= Len(Posted(q, l, x)[m])
  <2> SUFFICES ASSUME NEW m \in Loops PROVE Len(q[m]) <= Len(Posted(q, l, x)[m])
    OBVIOUS
  <2>1. Len(q[m]) \in Nat
    BY LenProperties DEF Queues
  <2>2. CASE m = l
    <3>1. Posted(q, l, x)[m] = Append(q[l], x)
      BY <1>4, <2>2
    <3> QED BY <1>3, <2>1, <2>2, <3>1
  <2>3. CASE m # l
    BY <1>4, <2>1, <2>3
  <2> QED BY <2>2, <2>3
<1>6. \A m \in Loops : \A e : Has(Posted(q, l, x)[m], e) <=> Has(q[m], e) \/ (m = l /\ e = x)
  <2> SUFFICES ASSUME NEW m \in Loops
               PROVE  \A e : Has(Posted(q, l, x)[m], e) <=> Has(q[m], e) \/ (m = l /\ e = x)
    OBVIOUS
  <2>1. CASE m = l
    <3>1. Posted(q, l, x)[m] = Append(q[l], x)
      BY <1>4, <2>1
    <3> QED BY <1>3, <2>1, <3>1
  <2>2. CASE m # l
    <3>1. Posted(q, l, x)[m] = q[m]
      BY <1>4, <2>2
    <3> QED BY <2>2, <3>1
  <2> QED BY <2>1, <2>2
<1> QED BY <1>4, <1>5, <1>6 DEF x

\* The same for connectionDestroyed.
LEMMA PostedDestroyed ==
  ASSUME NEW q \in Queues, NEW l \in Loops, NEW c \in Conns
  PROVE  \A m \in Loops : \A e :
           Has(Posted(q, l, <<"destroyed", c>>)[m], e)
             <=> Has(q[m], e) \/ (m = l /\ e = <<"destroyed", c>>)
<1>1. PICK name \in Names : name = "destroyed"
  BY DEF Names
<1>2. \A m \in Loops : \A e :
        Has(Posted(q, l, <<name, c>>)[m], e) <=> Has(q[m], e) \/ (m = l /\ e = <<name, c>>)
  BY PostedIs
<1> QED BY <1>1, <1>2

\* The order of a queue is kept: an entry that is not connectionEstablished,
\* or is the first about its connection, is put behind the others.
LEMMA PostedOrder ==
  ASSUME NEW q \in Queues, NEW l \in Loops, NEW name \in Names, NEW c \in Conns,
         \A m \in Loops : EstablishedFirst(q[m]),
         name # "established" \/ \A n \in Names : ~Has(q[l], <<n, c>>)
  PROVE  \A m \in Loops : EstablishedFirst(Posted(q, l, <<name, c>>)[m])
<1> DEFINE x == <<name, c>>
           a == Append(q[l], x)
<1>1. x \in Calls /\ q[l] \in Seq(Calls) /\ x[1] = name /\ x[2] = c
  BY DEF Calls, Queues
<1> HIDE DEF x
<1>2. /\ Len(q[l]) \in Nat /\ DOMAIN q[l] = 1..Len(q[l]) /\ DOMAIN a = 1..(Len(q[l]) + 1)
      /\ \A k \in 1..Len(q[l]) : a[k] = q[l][k]
      /\ a[Len(q[l]) + 1] = x
  BY <1>1, EndOfQueue, LenProperties
<1>3. name = "established" => \A k \in DOMAIN q[l] : q[l][k][2] # c
  <2>1. \A k \in DOMAIN q[l] : q[l][k] \in Calls
    BY <1>1, <1>2, ElementOfSeq
  <2>2. \A k \in DOMAIN q[l] : q[l][k] = <<q[l][k][1], q[l][k][2]>> /\ q[l][k][1] \in Names
    BY <2>1 DEF Calls
  <2> QED BY <2>2 DEF Has
<1> HIDE DEF a
<1>4. EstablishedFirst(a)
  <2> SUFFICES ASSUME NEW k \in DOMAIN a, a[k][1] = "established", NEW j \in 1..(k - 1)
               PROVE  a[j][2] # a[k][2]
    BY DEF EstablishedFirst
  <2>1. CASE k \in 1..Len(q[l])
    BY <1>2, <2>1 DEF EstablishedFirst
  <2>2. CASE k = Len(q[l]) + 1
    BY <1>1, <1>2, <1>3, <2>2
  <2> QED BY <1>2, <2>1, <2>2
<1>5. \A m \in Loops : Posted(q, l, x)[m] = IF m = l THEN a ELSE q[m]
  BY DEF Posted, Queues, a
<1> QED BY <1>4, <1>5 DEF x

\* A functor is taken from the head of one queue.
LEMMA PoppedIs ==
  ASSUME NEW q \in Queues, NEW l \in Loops, q[l] # <<>>,
         \A m \in Loops : EstablishedFirst(q[m])
  PROVE  /\ Popped(q, l) \in Queues
         /\ \A m \in Loops : \A e : Has(Popped(q, l)[m], e) => Has(q[m], e)
         /\ \A m \in Loops : \A e :
              Has(q[m], e) /\ (m # l \/ e # Head(q[l])) => Has(Popped(q, l)[m], e)
         /\ Has(q[l], Head(q[l]))
         /\ \A m \in Loops : EstablishedFirst(Popped(q, l)[m])
         /\ ~Has(Popped(q, l)[l], <<"established", Head(q[l])[2]>>)
         /\ Len(Popped(q, l)[l]) = Len(q[l]) - 1
         /\ \A m \in Loops : m # l => Popped(q, l)[m] = q[m]
<1> DEFINE t == Tail(q[l])
<1>1. q[l] \in Seq(Calls)
  BY DEF Queues
<1>2. /\ Head(q[l]) = q[l][1] /\ 1 \in DOMAIN q[l]
      /\ t \in Seq(Calls) /\ Len(t) = Len(q[l]) - 1
      /\ \A k \in DOMAIN t : k + 1 \in DOMAIN q[l] /\ t[k] = q[l][k + 1]
  BY <1>1, TailOfQueue
<1>3. \A e : Has(t, e) => Has(q[l], e)
  BY <1>1, TailHasNoMore
<1>4. \A e : Has(q[l], e) /\ e # Head(q[l]) => Has(t, e)
  BY <1>1, TailHas
<1> HIDE DEF t
<1>5. DOMAIN t = 1..Len(t) /\ Len(t) \in Nat
  BY <1>2, LenProperties
<1>6. EstablishedFirst(t)
  <2> SUFFICES ASSUME NEW k \in DOMAIN t, t[k][1] = "established", NEW j \in 1..(k - 1)
               PROVE  t[j][2] # t[k][2]
    BY DEF EstablishedFirst
  <2>0. j \in DOMAIN t /\ j + 1 \in 1..k
    BY <1>5
  <2>1. k + 1 \in DOMAIN q[l] /\ t[k] = q[l][k + 1] /\ t[j] = q[l][j + 1] /\ j + 1 \in 1..k
    BY <1>2, <2>0
  <2>2. (k + 1) - 1 = k
    BY <1>5
  <2> QED BY <2>1, <2>2 DEF EstablishedFirst
<1>7. ~Has(t, <<"established", Head(q[l])[2]>>)
  <2> SUFFICES ASSUME NEW k \in DOMAIN t, t[k] = <<"established", Head(q[l])[2]>>
               PROVE  FALSE
    BY DEF Has
  <2>1. /\ k + 1 \in DOMAIN q[l] /\ q[l][k + 1][1] = "established"
        /\ q[l][k + 1][2] = q[l][1][2] /\ 1 \in 1..((k + 1) - 1)
    BY <1>2, <1>5
  <2> QED BY <2>1 DEF EstablishedFirst
<1>8. /\ Popped(q, l) \in Queues
      /\ \A m \in Loops : Popped(q, l)[m] = IF m = l THEN t ELSE q[m]
  BY <1>2 DEF Popped, Queues, t
<1>9. Has(q[l], Head(q[l]))
  BY <1>2 DEF Has
<1> QED BY <1>2, <1>3, <1>4, <1>6, <1>7, <1>8, <1>9

\* ~EventLoop drops what is queued.
LEMMA EmptiedIs ==
  ASSUME NEW q \in Queues, NEW l \in Loops
  PROVE  /\ Emptied(q, l) \in Queues
         /\ \A m \in Loops : Emptied(q, l)[m] = IF m = l THEN <<>> ELSE q[m]
         /\ \A e : ~Has(<<>>, e)
         /\ EstablishedFirst(<<>>)
<1>1. <<>> \in Seq(Calls)
  OBVIOUS
<1>2. (\A e : ~Has(<<>>, e)) /\ EstablishedFirst(<<>>)
  BY DEF Has, EstablishedFirst
<1> QED BY <1>1, <1>2 DEF Emptied, Queues

\* Who holds a shared_ptr to a connection.
Holders ==
  \A c : Held(c) <=> \/ \E f \in Fds : connections_[f] = c
                     \/ \E l \in Loops, name \in Names : Queued(l, name, c)
                     \/ pc[0] = "store" /\ c = created

\* Held, in terms of Queued.
LEMMA HeldIs == TypeOK => Holders
<1> SUFFICES ASSUME TypeOK, NEW c
             PROVE  (\E l \in Loops : c \in {t[2] : t \in ToSet(tasks[l])})
                      <=> \E l \in Loops, name \in Names : Queued(l, name, c)
  BY DEF Held, Holders
<1>1. ASSUME NEW l \in Loops, NEW k \in DOMAIN tasks[l]
      PROVE  tasks[l][k] = <<tasks[l][k][1], tasks[l][k][2]>> /\ tasks[l][k][1] \in Names
  <2>1. tasks[l] \in Seq(Calls)
    BY DEF TypeOK, Calls, Names
  <2>2. tasks[l][k] \in Calls
    BY <2>1, ElementOfSeq, LenProperties
  <2> QED BY <2>2 DEF Calls
<1>2. ASSUME NEW l \in Loops, c \in {t[2] : t \in ToSet(tasks[l])}
      PROVE  \E name \in Names : Queued(l, name, c)
  BY <1>1, <1>2 DEF ToSet, Queued, Has
<1>3. ASSUME NEW l \in Loops, NEW name \in Names, Queued(l, name, c)
      PROVE  c \in {t[2] : t \in ToSet(tasks[l])}
  BY <1>3 DEF ToSet, Queued, Has
<1> QED BY <1>2, <1>3

-----------------------------------------------------------------------------
(* What the steps do.                                                      *)

ConnRec == [state : States, fd : Fds \cup {0}, loop : Loops, registered : BOOLEAN]

\* handleClose on the connection itself.
Closed(r) == [r EXCEPT !.state = "kDisconnected"]

\* Types in the form in which the proofs use them.
LEMMA Basics ==
  ASSUME TypeOK
  PROVE  /\ conn \in [Conns -> ConnRec] /\ tasks \in Queues
         /\ 0 \in Loops /\ created \in Nat /\ 1..created \subseteq Conns
         /\ pc \in [Loops -> {"before", "poll", "accept", "store", "events", "pending", "exited"}]
         /\ connections_ \in [Fds -> 0..MaxConns]
<1>1. conn \in [Conns -> ConnRec] /\ tasks \in Queues
  BY DEF TypeOK, ConnRec, Queues, Calls, Names
<1>2. 0 \in Loops /\ created \in Nat /\ 1..created \subseteq Conns
  BY ServerConstants DEF TypeOK, Loops, Conns
<1> QED BY <1>1, <1>2 DEF TypeOK

\* What connectionEstablished, connectionDestroyed and handleClose do to a
\* connection.
LEMMA ConnUpdates ==
  ASSUME NEW r \in ConnRec
  PROVE  /\ Established(r) \in ConnRec /\ Destroyed(r) \in ConnRec /\ Closed(r) \in ConnRec
         /\ Established(r).fd = r.fd /\ Established(r).loop = r.loop
         /\ Destroyed(r).fd = r.fd /\ Destroyed(r).loop = r.loop
         /\ Closed(r).fd = r.fd /\ Closed(r).loop = r.loop
         /\ Established(r).state = "kConnected" /\ Established(r).registered
         /\ Destroyed(r).state = "kDisconnected" /\ ~Destroyed(r).registered
         /\ Closed(r).state = "kDisconnected" /\ Closed(r).registered = r.registered
BY DEF ConnRec, States, Established, Destroyed, Closed

\* onNewConnection up to the hand-over.
LEMMA AcceptFacts ==
  ASSUME TypeOK, Counted, Stages, NEW f \in Fds, AcceptOne(f)
  PROVE  /\ created + 1 \in Conns /\ created' = created + 1
         /\ getNextLoop \in Loops /\ getNextLoop \in 0..threadNum_
         /\ getNextLoop = 0 => threadNum_ = 0
         /\ \E r \in ConnRec :
              /\ conn' = [conn EXCEPT ![created + 1] = r]
              /\ r.fd = f /\ r.loop = getNextLoop /\ r.state # "kDisconnected"
              /\ getNextLoop # 0 => r.state = "kConnecting" /\ ~r.registered
         /\ tasks' = IF getNextLoop = 0 THEN tasks
                     ELSE Posted(tasks, getNextLoop, <<"established", created + 1>>)
<1>1. created + 1 \in Conns /\ created' = created + 1
  BY ServerConstants DEF AcceptOne, TypeOK, Counted, Conns
<1>2. /\ getNextLoop \in Loops /\ getNextLoop \in 0..threadNum_
      /\ getNextLoop = 0 => threadNum_ = 0
  BY ServerConstants DEF TypeOK, getNextLoop, Loops
<1> DEFINE fresh == [state |-> "kConnecting", fd |-> f, loop |-> getNextLoop,
                     registered |-> FALSE]
<1>3. fresh \in ConnRec /\ Established(fresh) \in ConnRec
  BY <1>2 DEF ConnRec, States, Established
<1>4. CASE getNextLoop = 0
  <2>1. conn' = [conn EXCEPT ![created + 1] = Established(fresh)] /\ tasks' = tasks
    BY <1>4 DEF AcceptOne
  <2>2. /\ Established(fresh).fd = f /\ Established(fresh).loop = getNextLoop
        /\ Established(fresh).state # "kDisconnected"
    BY DEF Established
  <2> HIDE DEF fresh
  <2> QED BY <1>1, <1>2, <1>3, <1>4, <2>1, <2>2
<1>5. CASE getNextLoop # 0
  <2>1. /\ conn' = [conn EXCEPT ![created + 1] = fresh]
        /\ tasks' = Posted(tasks, getNextLoop, <<"established", created + 1>>)
    BY <1>5 DEF AcceptOne, Posted
  <2>2. /\ fresh.fd = f /\ fresh.loop = getNextLoop
        /\ fresh.state = "kConnecting" /\ ~fresh.registered
    OBVIOUS
  <2> HIDE DEF fresh
  <2> QED BY <1>1, <1>2, <1>3, <1>5, <2>1, <2>2
<1> QED BY <1>4, <1>5

\* handleClose and the close callback.
LEMMA CloseFacts ==
  ASSUME TypeOK, Objects, NEW l \in Loops, NEW c \in Conns, handleClose(l, c)
  PROVE  /\ c \in 1..created /\ conn[c].loop = l /\ conn[c].registered
         /\ pc[l] # "exited" /\ pc' = pc /\ created' = created
         /\ conn' = [conn EXCEPT ![c] = Closed(conn[c])]
         /\ \/ /\ l = 0 /\ connections_' = Erased(connections_, c)
               /\ tasks' = Posted(tasks, 0, <<"destroyed", c>>)
            \/ /\ l # 0 /\ connections_' = connections_
               /\ tasks' = Posted(tasks, 0, <<"remove", c>>)
<1>1. /\ conn[c].loop = l /\ conn[c].registered /\ pc[l] # "exited" /\ pc' = pc
      /\ created' = created
  BY DEF handleClose
<1>2. c \in 1..created
  BY <1>1, Basics, ServerConstants DEF Objects, Conns
<1>3. conn' = [conn EXCEPT ![c] = Closed(conn[c])]
  BY Basics DEF handleClose, Closed
<1>4. CASE l = 0
  BY <1>1, <1>2, <1>3, <1>4 DEF handleClose, SentBack, Posted
<1>5. CASE l # 0
  BY <1>1, <1>2, <1>3, <1>5 DEF handleClose, Posted
<1> QED BY <1>4, <1>5

\* The next functor of a batch.
LEMMA RunFacts ==
  ASSUME TypeOK, Functors, NEW l \in Loops, NEW name \in Names, NEW c \in Conns,
         Runs(l, name, c)
  PROVE  /\ tasks[l] # <<>> /\ Head(tasks[l]) = <<name, c>> /\ Queued(l, name, c)
         /\ Fits(l, name, c) /\ pc[l] = "pending" /\ batch[l] > 0
         /\ batch' = [batch EXCEPT ![l] = batch[l] - 1]
<1>1. /\ pc[l] = "pending" /\ batch[l] > 0 /\ Head(tasks[l]) = <<name, c>>
      /\ batch' = [batch EXCEPT ![l] = batch[l] - 1]
  BY DEF Runs
<1>2. tasks[l] # <<>>
  <2>1. batch[l] \in Nat /\ batch[l] <= Len(tasks[l])
    BY DEF TypeOK
  <2>2. Len(<<>>) = 0
    OBVIOUS
  <2> QED BY <1>1, <2>1, <2>2
<1>3. Has(tasks[l], Head(tasks[l]))
  BY <1>2, Basics, PoppedIs DEF Functors
<1> QED BY <1>1, <1>2, <1>3 DEF Functors, Queued

\* connections_.erase.
LEMMA ErasedIs ==
  ASSUME TypeOK, NEW c
  PROVE  /\ Erased(connections_, c) \in [Fds -> 0..MaxConns]
         /\ \A f \in Fds : Erased(connections_, c)[f] =
                           IF f = conn[c].fd THEN 0 ELSE connections_[f]
<1>1. connections_ \in [Fds -> 0..MaxConns] /\ 0 \in 0..MaxConns
  BY ServerConstants DEF TypeOK
<1> QED BY <1>1 DEF Erased

\* removeConnectionInLoop.
LEMMA RemoveFacts ==
  ASSUME TypeOK, Functors, NEW c \in Conns, removeConnectionInLoop(c)
  PROVE  /\ Runs(0, "remove", c) /\ UNCHANGED <<conn, pc, created>>
         /\ connections_' = Erased(connections_, c)
         /\ conn[c].loop \in Loops
         /\ tasks' = Posted(Popped(tasks, 0), conn[c].loop, <<"destroyed", c>>)
BY Basics DEF removeConnectionInLoop, SentBack, Posted, Popped, ConnRec

\* One turn of ~TcpServer's loop.
LEMMA DestroyFacts ==
  ASSUME TypeOK, Objects, NEW f \in Fds, DestroyOne(f)
  PROVE  /\ connections_[f] \in 1..created /\ conn[connections_[f]].fd = f
         /\ pc[0] = "exited" /\ phase = "running" /\ UNCHANGED <<pc, created>>
         /\ connections_' = Erased(connections_, connections_[f])
         /\ LET c == connections_[f]
            IN  \/ /\ conn[c].loop = 0 /\ tasks' = tasks
                   /\ conn' = [conn EXCEPT ![c] = Destroyed(conn[c])]
                \/ /\ conn[c].loop # 0 /\ conn' = conn
                   /\ tasks' = Posted(tasks, conn[c].loop, <<"destroyed", c>>)
<1>1. connections_[f] # 0 /\ pc[0] = "exited" /\ phase = "running" /\ UNCHANGED <<pc, created>>
  BY DEF DestroyOne
<1>2. connections_[f] \in 1..created /\ conn[connections_[f]].fd = f
  BY <1>1 DEF Objects
<1>3. connections_' = Erased(connections_, connections_[f])
  BY <1>2 DEF DestroyOne, Erased
<1>4. LET c == connections_[f]
      IN  \/ /\ conn[c].loop = 0 /\ tasks' = tasks
             /\ conn' = [conn EXCEPT ![c] = Destroyed(conn[c])]
          \/ /\ conn[c].loop # 0 /\ conn' = conn
             /\ tasks' = Posted(tasks, conn[c].loop, <<"destroyed", c>>)
  BY DEF DestroyOne, SentBack, Posted
<1> QED BY <1>1, <1>2, <1>3, <1>4

-----------------------------------------------------------------------------
\* The invariant holds before start().
LEMMA InitInv == Init => IInv
<1> SUFFICES ASSUME Init PROVE IInv
  OBVIOUS
<1> USE ServerConstants DEF Init
<1>1. TypeOK
  <2>1. tasks \in [Loops -> Seq({"established", "remove", "destroyed"} \X Conns)]
    OBVIOUS
  <2>2. conn \in [Conns -> [state : States, fd : Fds \cup {0}, loop : Loops,
                            registered : BOOLEAN]]
    BY DEF States, Loops
  <2>3. batch \in [Loops -> Nat] /\ \A l \in Loops : batch[l] <= Len(tasks[l])
    <3>1. Len(<<>>) = 0
      OBVIOUS
    <3> QED BY <3>1
  <2>4. /\ backlog \in 0..MaxConns /\ arrived \in 0..MaxConns /\ errors \in 0..MaxErrors
        /\ created \in 0..MaxConns /\ threadNum_ \in 0..MaxThreads
        /\ next_ \in 0..(IF threadNum_ = 0 THEN 0 ELSE threadNum_ - 1)
    OBVIOUS
  <2>5. closes \in [Conns -> 0..MaxCloses] /\ connections_ \in [Fds -> 0..MaxConns]
    OBVIOUS
  <2>6. quit_ \in [Loops -> BOOLEAN]
    OBVIOUS
  <2> QED BY <2>1, <2>2, <2>3, <2>4, <2>5, <2>6 DEF TypeOK
<1>2. 0 \in Loops /\ pc[0] = "before"
  BY DEF Loops
<1>3. Counted /\ Stages /\ NoLateCall /\ WaitingIsReported
  BY <1>2 DEF Counted, Stages, NoLateCall, WaitingIsReported
<1>4. Objects /\ Functors /\ FdsUnique /\ Tracked /\ MainTracked
  BY <1>2 DEF Objects, Functors, EstablishedFirst, Queued, Has, FdsUnique, Tracked, MainTracked
<1> QED BY <1>1, <1>3, <1>4 DEF IInv

\* The queues and the batches fit together, from how the step changes them.
LEMMA QueueTypes ==
  ASSUME TypeOK
  PROVE  /\ \A l \in Loops, name \in Names, c \in Conns :
              batch' = batch /\ tasks' = Posted(tasks, l, <<name, c>>) =>
                /\ tasks' \in Queues /\ batch' \in [Loops -> Nat]
                /\ \A m \in Loops : batch'[m] <= Len(tasks'[m])
         /\ batch' = batch /\ tasks' = tasks =>
                /\ tasks' \in Queues /\ batch' \in [Loops -> Nat]
                /\ \A m \in Loops : batch'[m] <= Len(tasks'[m])
<1>1. /\ tasks \in Queues /\ batch \in [Loops -> Nat]
      /\ \A m \in Loops : batch[m] <= Len(tasks[m]) /\ Len(tasks[m]) \in Nat
  BY Basics, LenProperties DEF TypeOK, Queues
<1>2. ASSUME NEW l \in Loops, NEW name \in Names, NEW c \in Conns,
             batch' = batch, tasks' = Posted(tasks, l, <<name, c>>)
      PROVE  /\ tasks' \in Queues /\ batch' \in [Loops -> Nat]
             /\ \A m \in Loops : batch'[m] <= Len(tasks'[m])
  <2>1. tasks' \in Queues /\ \A m \in Loops : Len(tasks[m]) <= Len(tasks'[m])
    BY <1>1, <1>2, PostedIs
  <2>2. \A m \in Loops : Len(tasks'[m]) \in Nat
    BY <2>1, LenProperties DEF Queues
  <2> QED BY <1>1, <1>2, <2>1, <2>2
<1> QED BY <1>1, <1>2

\* A functor was executed, which may have posted another.
LEMMA RunTypes ==
  ASSUME TypeOK, Functors, NEW l \in Loops, NEW name \in Names, NEW c \in Conns,
         Runs(l, name, c)
  PROVE  /\ Popped(tasks, l) \in Queues /\ batch' \in [Loops -> Nat]
         /\ \A m \in Loops : batch'[m] <= Len(Popped(tasks, l)[m])
         /\ \A m \in Loops : Len(Popped(tasks, l)[m]) \in Nat
<1>1. /\ tasks \in Queues /\ batch \in [Loops -> Nat]
      /\ \A m \in Loops : batch[m] <= Len(tasks[m]) /\ Len(tasks[m]) \in Nat
  BY Basics, LenProperties DEF TypeOK, Queues
<1>2. tasks[l] # <<>> /\ batch[l] > 0 /\ batch' = [batch EXCEPT ![l] = batch[l] - 1]
  BY RunFacts
<1>3. /\ Popped(tasks, l) \in Queues /\ Len(Popped(tasks, l)[l]) = Len(tasks[l]) - 1
      /\ \A m \in Loops : m # l => Popped(tasks, l)[m] = tasks[m]
  BY <1>1, <1>2, PoppedIs DEF Functors
<1>4. \A m \in Loops : Len(Popped(tasks, l)[m]) \in Nat
  BY <1>3, LenProperties DEF Queues
<1>5. batch' \in [Loops -> Nat]
  BY <1>1, <1>2
<1>6. \A m \in Loops : batch'[m] <= Len(Popped(tasks, l)[m])
  <2> SUFFICES ASSUME NEW m \in Loops PROVE batch'[m] <= Len(Popped(tasks, l)[m])
    OBVIOUS
  <2>1. CASE m = l
    BY <1>1, <1>2, <1>3, <2>1
  <2>2. CASE m # l
    BY <1>1, <1>2, <1>3, <2>2
  <2> QED BY <2>1, <2>2
<1> QED BY <1>3, <1>4, <1>5, <1>6

\* Arithmetic of a queue of connections that gets shorter.
LEMMA FewerWait ==
  ASSUME NEW a \in Nat, NEW b \in Nat, NEW c \in Nat, NEW d \in Nat, c + b <= a, d <= b
  PROVE  c + d <= a
OBVIOUS

\* The types are kept, and so is the count of the connections.
LEMMA TypeStep ==
  TypeOK /\ Counted /\ Stages /\ Objects /\ Functors /\ [Next]_vars => TypeOK' /\ Counted'
<1> SUFFICES ASSUME TypeOK, Counted, Stages, Objects, Functors, [Next]_vars
             PROVE  TypeOK' /\ Counted'
  OBVIOUS
<1> USE DEF listener, objects, loopState, server
<1>0. /\ created \in Nat /\ backlog \in Nat /\ arrived \in 0..MaxConns /\ MaxConns \in Nat
      /\ 0 \in Loops /\ created + backlog <= arrived
  BY Basics, ServerConstants DEF TypeOK, Counted
\* What remains to be shown in each case, part by part.
<1> DEFINE Listener == /\ backlog' \in 0..MaxConns /\ arrived' \in 0..MaxConns
                       /\ errors' \in 0..MaxErrors
                       /\ listening_' \in BOOLEAN /\ acceptEdge' \in BOOLEAN
           Made == /\ created' \in 0..MaxConns /\ conn' \in [Conns -> ConnRec]
                   /\ closes' \in [Conns -> 0..MaxCloses]
                   /\ connections_' \in [Fds -> 0..MaxConns]
           Dealt == /\ threadNum_' \in 0..MaxThreads
                    /\ next_' \in 0..(IF threadNum_' = 0 THEN 0 ELSE threadNum_' - 1)
           Pcs == pc' \in [Loops -> {"before", "poll", "accept", "store", "events",
                                     "pending", "exited"}]
           Run == /\ tasks' \in Queues /\ batch' \in [Loops -> Nat]
                  /\ \A l \in Loops : batch'[l] <= Len(tasks'[l])
           Flags == /\ quit_' \in [Loops -> BOOLEAN] /\ lateCall' \in BOOLEAN
                    /\ phase' \in {"new", "running", "quitting", "gone"}
<1>1. ASSUME Listener, Made, Dealt, Pcs, Run, Flags PROVE TypeOK'
  BY <1>1 DEF TypeOK, ConnRec, Queues, Calls, Names
<1>2. UNCHANGED <<backlog, arrived, errors, listening_, acceptEdge>> => Listener
  BY DEF TypeOK
<1>3. UNCHANGED <<created, conn, closes, connections_>> => Made
  BY DEF TypeOK, ConnRec
<1>4. UNCHANGED <<threadNum_, next_>> => Dealt
  BY DEF TypeOK
<1>5. pc' = pc => Pcs
  BY DEF TypeOK
<1>6. UNCHANGED <<tasks, batch>> => Run
  BY QueueTypes
<1>7. UNCHANGED <<quit_, lateCall, phase>> => Flags
  BY DEF TypeOK
<1>8. UNCHANGED <<created, backlog, arrived>> => Counted'
  BY DEF Counted
<1> HIDE DEF Listener, Made, Dealt, Pcs, Run, Flags
<1>9. ASSUME NEW n \in 0..MaxThreads, setThreadNum(n) PROVE TypeOK' /\ Counted'
  <2>1. Dealt
    BY <1>9, ServerConstants DEF setThreadNum, Stages, Dealt
  <2>2. Listener /\ Made /\ Pcs /\ Run /\ Flags /\ Counted'
    BY <1>2, <1>3, <1>5, <1>6, <1>7, <1>8, <1>9 DEF setThreadNum
  <2> QED BY <1>1, <2>1, <2>2
<1>10. CASE start
  <2>1. Listener
    BY <1>10 DEF start, TypeOK, Listener
  <2>2. Pcs
    BY <1>10 DEF start, Pcs
  <2>3. Flags
    BY <1>10 DEF start, TypeOK, Flags
  <2>4. Made /\ Dealt /\ Run /\ Counted'
    BY <1>3, <1>4, <1>6, <1>8, <1>10 DEF start
  <2> QED BY <1>1, <2>1, <2>2, <2>3, <2>4
<1>11. CASE RunMainLoop \/ Report \/ AcceptEmpty
  <2>1. Listener
    BY <1>11 DEF RunMainLoop, Report, AcceptEmpty, TypeOK, Listener
  <2>2. Pcs
    BY <1>11 DEF RunMainLoop, Report, AcceptEmpty, TypeOK, Pcs
  <2>3. Made /\ Dealt /\ Run /\ Flags /\ Counted'
    BY <1>3, <1>4, <1>6, <1>7, <1>8, <1>11 DEF RunMainLoop, Report, AcceptEmpty
  <2> QED BY <1>1, <2>1, <2>2, <2>3
<1>12. CASE QuitMain \/ \E l \in Loops : QuitLoop(l)
  <2>1. Flags
    BY <1>12 DEF QuitMain, QuitLoop, TypeOK, Flags
  <2>2. Listener /\ Made /\ Dealt /\ Pcs /\ Run /\ Counted'
    BY <1>2, <1>3, <1>4, <1>5, <1>6, <1>8, <1>12 DEF QuitMain, QuitLoop
  <2> QED BY <1>1, <2>1, <2>2
<1>13. CASE ConnArrives
  <2>1. Listener /\ Counted'
    BY <1>0, <1>13 DEF ConnArrives, TypeOK, Listener, Counted
  <2>2. Made /\ Dealt /\ Pcs /\ Run /\ Flags
    BY <1>3, <1>4, <1>5, <1>6, <1>7, <1>13 DEF ConnArrives
  <2> QED BY <1>1, <2>1, <2>2
<1>14. CASE AcceptFails
  <2>1. /\ backlog' \in {backlog, backlog - 1} /\ backlog > 0 /\ arrived' = arrived
        /\ created' = created /\ listening_' = listening_
    BY <1>14 DEF AcceptFails
  <2>2. errors' \in 0..MaxErrors
    BY <1>14, ServerConstants DEF AcceptFails, TypeOK
  <2>3. Listener /\ Counted'
    <3>0. backlog' \in Nat /\ backlog' <= backlog
      BY <1>0, <2>1
    <3>1. backlog' \in 0..MaxConns /\ created' + backlog' <= arrived'
      <4>1. /\ created \in Nat /\ backlog \in Nat /\ arrived \in Nat /\ arrived <= MaxConns
            /\ MaxConns \in Nat
        BY <1>0
      <4>2. created + backlog <= arrived
        BY <1>0
      <4>3. created' = created /\ arrived' = arrived
        BY <2>1
      <4>4. backlog' \in 0..MaxConns
        BY <3>0, <4>1, <4>2
      <4>5. created + backlog' <= arrived
        BY <3>0, <4>1, <4>2, FewerWait
      <4> QED BY <4>3, <4>4, <4>5
    <3>2. acceptEdge' \in BOOLEAN
      BY <1>14 DEF AcceptFails, Rearmed
    <3> QED BY <2>1, <2>2, <3>1, <3>2 DEF TypeOK, Listener, Counted
  <2>4. Pcs
    BY <1>14 DEF AcceptFails, TypeOK, Pcs
  <2>5. Made /\ Dealt /\ Run /\ Flags
    BY <1>3, <1>4, <1>6, <1>7, <1>14 DEF AcceptFails
  <2> QED BY <1>1, <2>3, <2>4, <2>5
<1>15. ASSUME NEW f \in Fds, AcceptOne(f) PROVE TypeOK' /\ Counted'
  <2>1. /\ created + 1 \in Conns /\ created' = created + 1 /\ getNextLoop \in Loops
        /\ \E r \in ConnRec : conn' = [conn EXCEPT ![created + 1] = r]
        /\ tasks' = IF getNextLoop = 0 THEN tasks
                    ELSE Posted(tasks, getNextLoop, <<"established", created + 1>>)
    BY <1>15, AcceptFacts
  <2>2. /\ backlog > 0 /\ backlog' = backlog - 1 /\ next_' = Advanced(next_)
        /\ pc' = [pc EXCEPT ![0] = "store"]
        /\ UNCHANGED <<arrived, errors, listening_, acceptEdge, closes, connections_, batch,
                       quit_, phase, threadNum_, lateCall>>
    BY <1>15 DEF AcceptOne
  <2>3. Listener /\ Counted'
    BY <1>0, <2>1, <2>2 DEF TypeOK, Listener, Counted
  <2>4. Made
    <3>1. conn' \in [Conns -> ConnRec]
      BY <2>1, Basics
    <3>2. created' \in 0..MaxConns
      BY <1>0, <2>1 DEF Conns
    <3> QED BY <2>2, <3>1, <3>2 DEF TypeOK, Made
  <2>5. Dealt
    BY <2>2, ServerConstants DEF TypeOK, Dealt, Advanced
  <2>6. Pcs
    BY <2>2 DEF TypeOK, Pcs
  <2>7. Run
    BY <2>1, <2>2, QueueTypes DEF Run, Names
  <2> QED BY <1>1, <1>7, <2>2, <2>3, <2>4, <2>5, <2>6, <2>7
<1>16. CASE Store
  <2>1. Made
    BY <1>16 DEF Store, TypeOK, Made, ConnRec
  <2>2. Pcs
    BY <1>16 DEF Store, TypeOK, Pcs
  <2>3. Listener /\ Dealt /\ Run /\ Flags /\ Counted'
    BY <1>2, <1>4, <1>6, <1>7, <1>8, <1>16 DEF Store
  <2> QED BY <1>1, <2>1, <2>2, <2>3
<1>17. ASSUME NEW l \in Loops, CheckQuit(l) PROVE TypeOK' /\ Counted'
  <2>1. Pcs
    BY <1>17 DEF CheckQuit, TypeOK, Pcs
  <2>2. batch' = batch /\ batch[l] = 0 /\ (tasks' = tasks \/ tasks' = Emptied(tasks, l))
    BY <1>17 DEF CheckQuit, Emptied
  <2>3. ASSUME tasks' = Emptied(tasks, l) PROVE Run
    <3>1. /\ tasks' \in Queues
          /\ \A m \in Loops : tasks'[m] = IF m = l THEN <<>> ELSE tasks[m]
      BY <2>3, Basics, EmptiedIs
    <3>2. Len(<<>>) = 0
      OBVIOUS
    <3>3. \A m \in Loops : batch[m] \in Nat /\ batch[m] <= Len(tasks[m])
      BY DEF TypeOK
    <3>4. \A m \in Loops : batch'[m] <= Len(tasks'[m])
      BY <2>2, <3>1, <3>2, <3>3
    <3> QED BY <2>2, <3>1, <3>4 DEF TypeOK, Run
  <2>4. Run
    BY <1>6, <2>2, <2>3
  <2>5. Listener /\ Made /\ Dealt /\ Flags /\ Counted'
    BY <1>2, <1>3, <1>4, <1>7, <1>8, <1>17 DEF CheckQuit
  <2> QED BY <1>1, <2>1, <2>4, <2>5
<1>18. ASSUME NEW l \in Loops, TakeBatch(l) PROVE TypeOK' /\ Counted'
  <2>1. Pcs
    BY <1>18 DEF TakeBatch, TypeOK, Pcs
  <2>2. \A m \in Loops : Len(tasks[m]) \in Nat
    BY Basics, LenProperties DEF Queues
  <2>3. batch' = [batch EXCEPT ![l] = Len(tasks[l])] /\ tasks' = tasks
    BY <1>18 DEF TakeBatch
  <2>4. Run
    BY <2>2, <2>3, Basics DEF TypeOK, Run
  <2>5. Listener /\ Made /\ Dealt /\ Flags /\ Counted'
    BY <1>2, <1>3, <1>4, <1>7, <1>8, <1>18 DEF TakeBatch
  <2> QED BY <1>1, <2>1, <2>4, <2>5
<1>19. ASSUME NEW l \in Loops, NEW c \in Conns, handleClose(l, c) PROVE TypeOK' /\ Counted'
  <2>1. /\ conn' = [conn EXCEPT ![c] = Closed(conn[c])]
        /\ connections_' = Erased(connections_, c) \/ connections_' = connections_
        /\ \E name \in Names : tasks' = Posted(tasks, 0, <<name, c>>)
    BY <1>19, CloseFacts DEF Names
  <2>2. /\ closes[c] < MaxCloses /\ closes' = [closes EXCEPT ![c] = closes[c] + 1]
        /\ UNCHANGED <<backlog, arrived, errors, listening_, acceptEdge, created, next_, pc, batch,
                       quit_, phase, threadNum_>>
        /\ lateCall' = (lateCall \/ phase = "quitting")
    BY <1>19 DEF handleClose, CallsServer
  <2>3. closes' \in [Conns -> 0..MaxCloses]
    BY <2>2, ServerConstants DEF TypeOK
  <2>4. connections_' \in [Fds -> 0..MaxConns]
    BY <2>1, ErasedIs DEF TypeOK
  <2>5. conn' \in [Conns -> ConnRec]
    BY <2>1, Basics, ConnUpdates
  <2>6. Made
    BY <2>2, <2>3, <2>4, <2>5 DEF TypeOK, Made
  <2>7. Run
    BY <1>0, <2>1, <2>2, QueueTypes DEF Run
  <2>8. Flags
    BY <2>2 DEF TypeOK, Flags
  <2> QED BY <1>1, <1>2, <1>4, <1>5, <1>8, <2>2, <2>6, <2>7, <2>8
<1>20. ASSUME NEW l \in Loops, NEW c \in Conns,
              connectionEstablished(l, c) \/ connectionDestroyed(l, c)
       PROVE  TypeOK' /\ Counted'
  <2>1. /\ \E name \in Names : Runs(l, name, c)
        /\ conn' \in {[conn EXCEPT ![c] = Established(conn[c])],
                      [conn EXCEPT ![c] = Destroyed(conn[c])]}
        /\ tasks' = Popped(tasks, l)
        /\ UNCHANGED <<backlog, arrived, errors, listening_, acceptEdge, created, closes,
                       connections_, next_, pc, quit_, phase, threadNum_>>
        /\ lateCall' \in {lateCall, lateCall \/ phase = "quitting"}
    BY <1>20 DEF connectionEstablished, connectionDestroyed, Names, Popped, CallsServer
  <2>2. conn' \in [Conns -> ConnRec]
    BY <2>1, Basics, ConnUpdates
  <2>3. Made
    BY <2>1, <2>2 DEF TypeOK, Made
  <2>4. Run
    BY <2>1, RunTypes DEF Run
  <2>5. Flags
    BY <2>1 DEF TypeOK, Flags
  <2> QED BY <1>1, <1>2, <1>4, <1>5, <1>8, <2>1, <2>3, <2>4, <2>5
<1>21. ASSUME NEW c \in Conns, removeConnectionInLoop(c) PROVE TypeOK' /\ Counted'
  <2>1. /\ Runs(0, "remove", c) /\ connections_' = Erased(connections_, c)
        /\ conn[c].loop \in Loops
        /\ tasks' = Posted(Popped(tasks, 0), conn[c].loop, <<"destroyed", c>>)
    BY <1>21, RemoveFacts
  <2>2. UNCHANGED <<backlog, arrived, errors, listening_, acceptEdge, created, conn, closes,
                    next_, pc, quit_, phase, threadNum_, lateCall>>
    BY <1>21 DEF removeConnectionInLoop
  <2>3. Made
    BY <2>1, <2>2, Basics, ErasedIs DEF TypeOK, Made
  <2>4. /\ Popped(tasks, 0) \in Queues /\ batch' \in [Loops -> Nat]
        /\ \A m \in Loops : batch'[m] <= Len(Popped(tasks, 0)[m])
        /\ \A m \in Loops : Len(Popped(tasks, 0)[m]) \in Nat
    BY <1>0, <2>1, RunTypes DEF Names
  <2>5. /\ tasks' \in Queues
        /\ \A m \in Loops : Len(Popped(tasks, 0)[m]) <= Len(tasks'[m])
    BY <2>1, <2>4, PostedIs DEF Names
  <2>6. \A m \in Loops : Len(tasks'[m]) \in Nat
    BY <2>5, LenProperties DEF Queues
  <2>7. Run
    BY <2>4, <2>5, <2>6 DEF Run
  <2> QED BY <1>1, <1>2, <1>4, <1>5, <1>7, <1>8, <2>2, <2>3, <2>7
<1>22. ASSUME NEW f \in Fds, DestroyOne(f) PROVE TypeOK' /\ Counted'
  <2> DEFINE c == connections_[f]
  <2>1. /\ c \in 1..created /\ connections_' = Erased(connections_, c)
        /\ \/ /\ conn[c].loop = 0 /\ tasks' = tasks
              /\ conn' = [conn EXCEPT ![c] = Destroyed(conn[c])]
           \/ /\ conn[c].loop # 0 /\ conn' = conn
              /\ tasks' = Posted(tasks, conn[c].loop, <<"destroyed", c>>)
    BY <1>22, DestroyFacts
  <2>2. UNCHANGED <<backlog, arrived, errors, listening_, acceptEdge, created, closes, next_, pc,
                    batch, quit_, phase, threadNum_, lateCall>>
    BY <1>22 DEF DestroyOne
  <2> HIDE DEF c
  <2>3. c \in Conns /\ conn[c] \in ConnRec /\ conn[c].loop \in Loops
    BY <2>1, Basics DEF ConnRec
  <2>4. conn' \in [Conns -> ConnRec] /\ connections_' \in [Fds -> 0..MaxConns]
    <3>1. connections_' \in [Fds -> 0..MaxConns]
      BY <2>1, ErasedIs
    <3>2. Destroyed(conn[c]) \in ConnRec /\ conn \in [Conns -> ConnRec]
      BY <2>3, Basics, ConnUpdates
    <3> QED BY <2>1, <2>3, <3>1, <3>2
  <2>5. Made
    BY <2>2, <2>4 DEF TypeOK, Made
  <2>6. Run
    BY <2>1, <2>2, <2>3, QueueTypes DEF Run, Names
  <2> QED BY <1>1, <1>2, <1>4, <1>5, <1>7, <1>8, <2>2, <2>5, <2>6
<1>23. CASE DestroyMembers
  <2>1. Flags
    BY <1>23 DEF DestroyMembers, TypeOK, Flags
  <2>2. Listener /\ Made /\ Dealt /\ Pcs /\ Run /\ Counted'
    BY <1>2, <1>3, <1>4, <1>5, <1>6, <1>8, <1>23 DEF DestroyMembers
  <2> QED BY <1>1, <2>1, <2>2
<1>24. CASE JoinAll
  <2>1. Listener
    BY <1>24 DEF JoinAll, TypeOK, Listener
  <2>2. Flags
    BY <1>24 DEF JoinAll, TypeOK, Flags
  <2>3. tasks' = Emptied(tasks, 0) /\ batch' = batch /\ batch[0] = 0
    BY <1>0, <1>24 DEF JoinAll, Emptied, Stages
  <2>4. /\ tasks' \in Queues
        /\ \A m \in Loops : tasks'[m] = IF m = 0 THEN <<>> ELSE tasks[m]
    BY <1>0, <2>3, Basics, EmptiedIs
  <2>5. Len(<<>>) = 0
    OBVIOUS
  <2>6. Run
    <3>1. \A m \in Loops : batch[m] \in Nat /\ batch[m] <= Len(tasks[m])
      BY DEF TypeOK
    <3>2. \A m \in Loops : batch'[m] <= Len(tasks'[m])
      BY <2>3, <2>4, <2>5, <3>1
    <3> QED BY <2>3, <2>4, <3>2 DEF TypeOK, Run
  <2>7. Made /\ Dealt /\ Pcs /\ Counted'
    BY <1>3, <1>4, <1>5, <1>8, <1>24 DEF JoinAll
  <2> QED BY <1>1, <2>1, <2>2, <2>6, <2>7
<1>25. CASE UNCHANGED vars
  BY <1>1, <1>2, <1>3, <1>4, <1>5, <1>6, <1>7, <1>8, <1>25 DEF vars
<1> QED
  BY <1>0, <1>9, <1>10, <1>11, <1>12, <1>13, <1>14, <1>15, <1>16, <1>17, <1>18, <1>19,
     <1>20, <1>21, <1>22, <1>23, <1>24, <1>25
  DEF Next, MainStep, LoopStep, Destructor

\* Every step keeps the order in which loops are started and left.
LEMMA StagesStep ==
  TypeOK /\ Counted /\ Stages /\ Objects /\ Functors /\ [Next]_vars => Stages'
<1> SUFFICES ASSUME TypeOK, Counted, Stages, Objects, Functors, [Next]_vars PROVE Stages'
  OBVIOUS
<1> USE DEF listener, objects, loopState, server
<1>0. /\ 0 \in Loops /\ created \in Nat
      /\ pc \in [Loops -> {"before", "poll", "accept", "store", "events", "pending", "exited"}]
      /\ quit_ \in [Loops -> BOOLEAN] /\ batch \in [Loops -> Nat]
      /\ threadNum_ \in Nat /\ Loops \subseteq Nat
  BY Basics, ServerConstants DEF TypeOK, Loops
\* Steps that leave the threads where they are and put nothing into the map.
<1>1. ASSUME UNCHANGED <<pc, quit_, batch, phase, threadNum_, next_>>,
             created' = created,
             \A f \in Fds : connections_'[f] = connections_[f] \/ connections_'[f] = 0
      PROVE  Stages'
  BY <1>1 DEF Stages
<1>2. ASSUME NEW n \in 0..MaxThreads, setThreadNum(n) PROVE Stages'
  BY <1>0, <1>2 DEF setThreadNum, Stages
<1>3. CASE start
  <2>1. /\ phase = "new" /\ phase' = "running"
        /\ pc' = [l \in Loops |-> IF l \in 1..threadNum_ THEN "pending" ELSE "before"]
        /\ UNCHANGED <<created, next_, connections_, quit_, batch, threadNum_>>
    BY <1>3 DEF start
  <2>2. \A l \in Loops : batch[l] = 0 /\ (l # 0 => ~quit_[l])
    BY <2>1 DEF Stages
  <2>3. \A l \in Loops : l > threadNum_ => pc'[l] = "before"
    BY <1>0, <2>1
  <2>4. pc'[0] # "store" /\ \A l \in Loops : pc'[l] # "exited"
    BY <1>0, <2>1
  <2> QED BY <2>1, <2>2, <2>3, <2>4 DEF Stages
<1>4. CASE RunMainLoop \/ Report \/ AcceptEmpty \/ AcceptFails
  <2>1. /\ phase # "new" /\ pc[0] # "exited"
        /\ \E x \in {"pending", "accept", "events"} : pc' = [pc EXCEPT ![0] = x]
        /\ pc[0] # "pending"
        /\ UNCHANGED <<created, next_, connections_, quit_, batch, threadNum_, phase>>
    BY <1>0, <1>4 DEF RunMainLoop, Report, AcceptEmpty, AcceptFails, Stages
  <2>2. batch[0] = 0
    BY <1>0, <2>1 DEF Stages
  <2>3. /\ pc'[0] \in {"pending", "accept", "events"}
        /\ \A l \in Loops : l # 0 => pc'[l] = pc[l]
    BY <1>0, <2>1
  <2> QED BY <1>0, <2>1, <2>2, <2>3 DEF Stages
<1>5. CASE QuitMain
  <2>1. quit_' = [quit_ EXCEPT ![0] = TRUE]
        /\ UNCHANGED <<pc, created, next_, connections_, batch, threadNum_, phase>>
    BY <1>5 DEF QuitMain
  <2> QED BY <1>0, <2>1 DEF Stages
<1>6. CASE ConnArrives
  BY <1>1, <1>6 DEF ConnArrives
<1>7. ASSUME NEW f \in Fds, AcceptOne(f) PROVE Stages'
  <2>1. /\ pc[0] = "accept" /\ pc' = [pc EXCEPT ![0] = "store"] /\ created' = created + 1
        /\ UNCHANGED <<connections_, quit_, batch, threadNum_, phase>>
    BY <1>7 DEF AcceptOne
  <2>2. phase # "new" /\ pc'[0] = "store" /\ \A l \in Loops : l # 0 => pc'[l] = pc[l]
    BY <1>0, <2>1 DEF Stages
  <2> QED BY <1>0, <2>1, <2>2 DEF Stages
<1>8. CASE Store
  <2>1. /\ pc[0] = "store" /\ pc' = [pc EXCEPT ![0] = "accept"]
        /\ UNCHANGED <<created, quit_, batch, threadNum_, phase>>
    BY <1>8 DEF Store
  <2>2. phase # "new" /\ pc'[0] = "accept" /\ \A l \in Loops : l # 0 => pc'[l] = pc[l]
    BY <1>0, <2>1 DEF Stages
  <2>3. phase \notin {"quitting", "gone"} /\ batch[0] = 0
    BY <1>0, <2>1 DEF Stages
  <2> QED BY <1>0, <2>1, <2>2, <2>3 DEF Stages
<1>9. ASSUME NEW l \in Loops, CheckQuit(l) PROVE Stages'
  <2>1. /\ pc[l] = "pending" /\ batch[l] = 0
        /\ \/ pc' = [pc EXCEPT ![l] = "poll"]
           \/ quit_[l] /\ pc' = [pc EXCEPT ![l] = "exited"]
        /\ UNCHANGED <<created, next_, connections_, quit_, batch, threadNum_, phase>>
    BY <1>9 DEF CheckQuit
  <2>2. phase # "new" /\ ~(l > threadNum_) /\ (l = 0 => phase \notin {"quitting", "gone"})
    BY <2>1 DEF Stages
  <2>3. /\ pc'[l] \in {"poll", "exited"} /\ (pc'[l] = "exited" => quit_[l])
        /\ \A m \in Loops : m # l => pc'[m] = pc[m]
    BY <1>0, <2>1
  <2> QED BY <1>0, <2>1, <2>2, <2>3 DEF Stages
<1>10. ASSUME NEW l \in Loops, TakeBatch(l) PROVE Stages'
  <2>1. /\ pc[l] \in {"poll", "events"} /\ pc' = [pc EXCEPT ![l] = "pending"]
        /\ batch' = [batch EXCEPT ![l] = Len(tasks[l])]
        /\ UNCHANGED <<created, next_, connections_, quit_, threadNum_, phase>>
    BY <1>10 DEF TakeBatch
  <2>2. phase # "new" /\ ~(l > threadNum_) /\ (l = 0 => phase \notin {"quitting", "gone"})
    BY <2>1 DEF Stages
  <2>3. pc'[l] = "pending" /\ \A m \in Loops : m # l => pc'[m] = pc[m] /\ batch'[m] = batch[m]
    BY <1>0, <2>1
  <2> QED BY <1>0, <2>1, <2>2, <2>3 DEF Stages
<1>11. ASSUME NEW l \in Loops, NEW c \in Conns, handleClose(l, c) PROVE Stages'
  <2>1. connections_' = Erased(connections_, c) \/ connections_' = connections_
    BY <1>11, CloseFacts
  <2>2. UNCHANGED <<created, pc, quit_, batch, phase, threadNum_, next_>>
    BY <1>11 DEF handleClose
  <2>3. \A f \in Fds : connections_'[f] = connections_[f] \/ connections_'[f] = 0
    BY <2>1, ErasedIs
  <2> QED BY <1>1, <2>2, <2>3
\* A functor was executed.
<1>12. ASSUME NEW l \in Loops, NEW name \in Names, NEW c \in Conns, Runs(l, name, c),
              UNCHANGED <<created, pc, quit_, phase, threadNum_, next_>>,
              connections_' = Erased(connections_, c) \/ connections_' = connections_
       PROVE  Stages'
  <2>1. pc[l] = "pending" /\ batch' = [batch EXCEPT ![l] = batch[l] - 1]
    BY <1>12, RunFacts
  <2>2. \A f \in Fds : connections_'[f] = connections_[f] \/ connections_'[f] = 0
    BY <1>12, ErasedIs
  <2>3. \A m \in Loops : m # l => batch'[m] = batch[m]
    BY <1>0, <2>1
  <2> QED BY <1>12, <2>1, <2>2, <2>3 DEF Stages
<1>13. ASSUME NEW l \in Loops, NEW c \in Conns,
              connectionEstablished(l, c) \/ connectionDestroyed(l, c)
       PROVE  Stages'
  <2>1. \E name \in Names : Runs(l, name, c)
    BY <1>13 DEF connectionEstablished, connectionDestroyed, Names
  <2>2. UNCHANGED <<created, pc, quit_, phase, threadNum_, next_, connections_>>
    BY <1>13 DEF connectionEstablished, connectionDestroyed
  <2> QED BY <1>12, <2>1, <2>2
<1>14. ASSUME NEW c \in Conns, removeConnectionInLoop(c) PROVE Stages'
  <2>1. UNCHANGED <<created, pc, quit_, phase, threadNum_, next_>>
    BY <1>14 DEF removeConnectionInLoop
  <2>2. Runs(0, "remove", c) /\ connections_' = Erased(connections_, c)
    BY <1>14, RemoveFacts
  <2> QED BY <1>0, <1>12, <2>1, <2>2 DEF Names
<1>15. ASSUME NEW f \in Fds, DestroyOne(f) PROVE Stages'
  <2>1. UNCHANGED <<created, pc, quit_, batch, phase, threadNum_, next_>>
    BY <1>15 DEF DestroyOne
  <2>2. connections_' = Erased(connections_, connections_[f])
    BY <1>15, DestroyFacts
  <2>3. \A g \in Fds : connections_'[g] = connections_[g] \/ connections_'[g] = 0
    BY <2>2, ErasedIs
  <2> QED BY <1>1, <2>1, <2>3
<1>16. CASE DestroyMembers
  <2>1. /\ phase = "running" /\ pc[0] = "exited" /\ \A f \in Fds : connections_[f] = 0
        /\ phase' = "quitting"
        /\ UNCHANGED <<created, pc, quit_, batch, threadNum_, next_, connections_>>
    BY <1>16 DEF DestroyMembers
  <2> QED BY <2>1 DEF Stages
<1>17. ASSUME NEW l \in Loops, QuitLoop(l) PROVE Stages'
  <2>1. /\ phase = "quitting" /\ quit_' = [quit_ EXCEPT ![l] = TRUE]
        /\ UNCHANGED <<created, pc, phase, batch, threadNum_, next_, connections_>>
    BY <1>17 DEF QuitLoop
  <2> QED BY <2>1 DEF Stages
<1>18. CASE JoinAll
  <2>1. /\ phase = "quitting" /\ phase' = "gone"
        /\ UNCHANGED <<created, pc, quit_, batch, threadNum_, next_, connections_>>
    BY <1>18 DEF JoinAll
  <2> QED BY <2>1 DEF Stages
<1>19. CASE UNCHANGED vars
  BY <1>1, <1>19 DEF vars
<1> QED
  BY <1>0, <1>2, <1>3, <1>4, <1>5, <1>6, <1>7, <1>8, <1>9, <1>10, <1>11, <1>13, <1>14,
     <1>15, <1>16, <1>17, <1>18, <1>19
  DEF Next, MainStep, LoopStep, Destructor

\* Waiting connections stay reported; a single loop calls nothing late.
LEMMA ListenStep ==
  IInv /\ [Next]_vars => WaitingIsReported' /\ NoLateCall'
<1> SUFFICES ASSUME IInv, [Next]_vars PROVE WaitingIsReported' /\ NoLateCall'
  OBVIOUS
<1> USE DEF listener, objects, loopState, server
<1>0. /\ 0 \in Loops /\ backlog \in Nat /\ TypeOK /\ Stages /\ WaitingIsReported /\ NoLateCall
      /\ pc \in [Loops -> {"before", "poll", "accept", "store", "events", "pending", "exited"}]
      /\ Loops \subseteq Nat /\ threadNum_ \in Nat
  <2>1. TypeOK /\ Stages /\ WaitingIsReported /\ NoLateCall
    BY DEF IInv
  <2>2. backlog \in Nat /\ threadNum_ \in Nat /\ Loops \subseteq Nat
    BY <2>1, ServerConstants DEF TypeOK, Loops
  <2> QED BY <2>1, <2>2, Basics
\* Steps of the other parts.
<1>1. ASSUME UNCHANGED <<backlog, acceptEdge>>, phase = "gone" => phase' = "gone",
             pc[0] \in {"accept", "store"} => pc'[0] \in {"accept", "store"}
      PROVE  WaitingIsReported'
  BY <1>0, <1>1 DEF WaitingIsReported
<1>2. UNCHANGED <<threadNum_, lateCall, phase>> => NoLateCall'
  BY <1>0 DEF NoLateCall
\* A callback of a connection, on a loop that runs.
<1>3. ASSUME NEW l \in Loops, pc[l] \notin {"before", "exited"}, CallsServer,
             UNCHANGED <<threadNum_, phase>>
      PROVE  NoLateCall'
  <2>1. l <= threadNum_ /\ (phase = "quitting" => l # 0)
    BY <1>0, <1>3 DEF Stages
  <2>2. phase = "quitting" => threadNum_ # 0
    BY <1>0, <2>1
  <2> QED BY <1>0, <1>3, <2>2 DEF NoLateCall, CallsServer
<1>4. ASSUME NEW n \in 0..MaxThreads, setThreadNum(n) PROVE WaitingIsReported' /\ NoLateCall'
  <2>1. UNCHANGED <<backlog, acceptEdge, phase, pc, lateCall>> /\ phase = "new"
    BY <1>4 DEF setThreadNum
  <2> QED BY <1>0, <1>1, <2>1 DEF NoLateCall
<1>5. CASE start
  <2>1. UNCHANGED <<backlog, acceptEdge, threadNum_, lateCall>> /\ phase = "new"
    BY <1>5 DEF start
  <2>2. pc[0] = "before"
    BY <1>0, <2>1 DEF Stages
  <2> QED BY <1>0, <1>1, <2>1, <2>2 DEF NoLateCall
<1>6. CASE RunMainLoop
  BY <1>0, <1>1, <1>2, <1>6 DEF RunMainLoop
<1>7. CASE QuitMain \/ \E l \in Loops : QuitLoop(l)
  BY <1>1, <1>2, <1>7 DEF QuitMain, QuitLoop
<1>8. CASE ConnArrives
  BY <1>2, <1>8 DEF ConnArrives, WaitingIsReported
<1>9. CASE Report \/ Store \/ \E f \in Fds : AcceptOne(f)
  <2>1. pc'[0] \in {"accept", "store"} /\ UNCHANGED <<threadNum_, lateCall, phase>>
    BY <1>0, <1>9 DEF Report, Store, AcceptOne
  <2> QED BY <1>2, <2>1 DEF WaitingIsReported
<1>10. CASE AcceptEmpty
  <2>1. backlog' = 0 /\ UNCHANGED <<threadNum_, lateCall, phase>>
    BY <1>10 DEF AcceptEmpty
  <2> QED BY <1>2, <2>1 DEF WaitingIsReported
<1>11. CASE AcceptFails
  <2>1. acceptEdge' = (backlog' > 0) /\ UNCHANGED <<threadNum_, lateCall, phase>>
    BY <1>11 DEF AcceptFails, Rearmed
  <2> QED BY <1>2, <2>1 DEF WaitingIsReported
<1>12. ASSUME NEW l \in Loops, CheckQuit(l) \/ TakeBatch(l)
       PROVE  WaitingIsReported' /\ NoLateCall'
  <2>1. /\ pc[l] \in {"pending", "poll", "events"}
        /\ \E x \in {"poll", "exited", "pending"} : pc' = [pc EXCEPT ![l] = x]
        /\ UNCHANGED <<backlog, acceptEdge, threadNum_, lateCall, phase>>
    BY <1>12 DEF CheckQuit, TakeBatch
  <2>2. pc[0] \in {"accept", "store"} => pc'[0] \in {"accept", "store"}
    BY <1>0, <2>1
  <2> QED BY <1>1, <1>2, <2>1, <2>2
<1>13. ASSUME NEW l \in Loops, NEW c \in Conns, handleClose(l, c)
       PROVE  WaitingIsReported' /\ NoLateCall'
  <2>1. /\ pc[l] \notin {"before", "exited"} /\ CallsServer
        /\ UNCHANGED <<backlog, acceptEdge, pc, threadNum_, phase>>
    BY <1>13 DEF handleClose
  <2> QED BY <1>1, <1>3, <2>1
<1>14. ASSUME NEW l \in Loops, NEW c \in Conns, connectionEstablished(l, c)
       PROVE  WaitingIsReported' /\ NoLateCall'
  <2>1. /\ pc[l] \notin {"before", "exited"} /\ CallsServer
        /\ UNCHANGED <<backlog, acceptEdge, pc, threadNum_, phase>>
    BY <1>14 DEF connectionEstablished, Runs
  <2> QED BY <1>1, <1>3, <2>1
<1>15. ASSUME NEW l \in Loops, NEW c \in Conns,
              connectionDestroyed(l, c) \/ removeConnectionInLoop(c)
       PROVE  WaitingIsReported' /\ NoLateCall'
  BY <1>1, <1>2, <1>15 DEF connectionDestroyed, removeConnectionInLoop
<1>16. ASSUME NEW f \in Fds, DestroyOne(f) PROVE WaitingIsReported' /\ NoLateCall'
  BY <1>1, <1>2, <1>16 DEF DestroyOne
<1>17. CASE DestroyMembers
  <2>1. /\ phase = "running" /\ phase' = "quitting"
        /\ UNCHANGED <<backlog, acceptEdge, pc, threadNum_, lateCall>>
    BY <1>17 DEF DestroyMembers
  <2> QED BY <1>0, <1>1, <2>1 DEF NoLateCall
<1>18. CASE JoinAll
  <2>1. phase' = "gone" /\ UNCHANGED <<threadNum_, lateCall>>
    BY <1>18 DEF JoinAll
  <2> QED BY <1>0, <2>1 DEF WaitingIsReported, NoLateCall
<1>19. CASE UNCHANGED vars
  BY <1>1, <1>2, <1>19 DEF vars
<1> QED
  BY <1>0, <1>4, <1>5, <1>6, <1>7, <1>8, <1>9, <1>10, <1>11, <1>12, <1>13, <1>14, <1>15,
     <1>16, <1>17, <1>18, <1>19
  DEF Next, MainStep, LoopStep, Destructor

-----------------------------------------------------------------------------
(* Most steps concern one connection and leave the others alone.           *)

\* The step concerns connection c, which somebody holds.
Touches(c) ==
  /\ c \in 1..created /\ Held(c)
  /\ UNCHANGED <<created, pc, threadNum_>>
  /\ \A d \in Conns : d # c => conn'[d] = conn[d]
  /\ conn'[c].fd = conn[c].fd /\ conn'[c].loop = conn[c].loop
  /\ connections_' = connections_ \/ connections_' = Erased(connections_, c)
  /\ \A l \in Loops : EstablishedFirst(tasks'[l])
  /\ \A l \in Loops, name \in Names, d \in Conns : d # c =>
       (Has(tasks'[l], <<name, d>>) <=> Has(tasks[l], <<name, d>>))

\* What the invariant says of connection c.
Settled(c) ==
  /\ \A l \in Loops, name \in Names : Queued(l, name, c) => Fits(l, name, c)
  /\ WillBeDestroyed(c)
  /\ OpenOnMain(c)

\* What concerns connections, apart from their descriptors.
ConnInv == Objects /\ Functors /\ FdsUnique /\ Tracked /\ MainTracked

\* Somebody holds a connection that is tracked.
LEMMA TrackedIsHeld ==
  ASSUME TypeOK, Objects, NEW c \in 1..created,
         InMap(c) \/ Queued(conn[c].loop, "destroyed", c)
  PROVE  Held(c)
<1>1. conn[c].fd \in Fds
  BY DEF Objects
<1>2. c \in Conns /\ conn[c] \in ConnRec /\ conn[c].loop \in Loops
  BY Basics DEF ConnRec
<1>3. Queued(conn[c].loop, "destroyed", c) => \E l \in Loops, name \in Names : Queued(l, name, c)
  BY <1>2 DEF Names
<1> QED BY <1>1, <1>3, HeldIs DEF InMap, Holders

\* A step that concerns c keeps the invariant if it keeps what that says of c:
\* no other connection has the descriptor of c.
LEMMA TouchStep ==
  ASSUME IInv, TypeOK', NEW c, Touches(c), Settled(c)'
  PROVE  ConnInv'
<1>0. /\ TypeOK /\ Objects /\ Functors /\ FdsUnique /\ Tracked /\ MainTracked
      /\ c \in 1..created /\ Held(c) /\ created' = created /\ pc' = pc /\ threadNum_' = threadNum_
  BY DEF IInv, Touches
<1>1. /\ conn \in [Conns -> ConnRec] /\ 1..created \subseteq Conns /\ created \in Nat
      /\ \A d \in Conns : d # c => conn'[d] = conn[d]
      /\ \A d \in Conns : conn'[d].fd = conn[d].fd /\ conn'[d].loop = conn[d].loop
  BY <1>0, Basics DEF Touches
<1>2. \A f \in Fds : \/ connections_'[f] = connections_[f]
                     \/ connections_'[f] = 0 /\ f = conn[c].fd
  BY <1>0, ErasedIs DEF Touches
<1>3. Objects'
  <2>1. \A d \in 1..created : /\ conn'[d].fd \in Fds
                              /\ conn'[d].loop \in 0..threadNum_
                              /\ conn'[d].loop = 0 => threadNum_ = 0
    BY <1>0, <1>1 DEF Objects
  <2>2. \A d \in Conns : d > created => ~conn'[d].registered
    BY <1>0, <1>1 DEF Objects
  <2>3. \A f \in Fds : connections_'[f] # 0 =>
          connections_'[f] \in 1..created /\ conn'[connections_'[f]].fd = f
    BY <1>0, <1>1, <1>2 DEF Objects
  <2> QED BY <1>0, <2>1, <2>2, <2>3 DEF Objects
<1>4. Functors'
  <2> SUFFICES ASSUME NEW l \in Loops, NEW name \in Names, NEW d \in Conns, Queued(l, name, d)'
               PROVE  Fits(l, name, d)'
    BY DEF Touches, Functors
  <2>1. CASE d = c
    BY <2>1 DEF Settled
  <2>2. CASE d # c
    <3>1. Queued(l, name, d) /\ conn'[d] = conn[d]
      BY <2>2 DEF Touches, Queued
    <3>2. Fits(l, name, d)
      BY <1>0, <3>1 DEF Functors
    <3> QED BY <1>0, <3>1, <3>2 DEF Fits
  <2> QED BY <2>1, <2>2
<1>5. \A d \in 1..created : Held(d)' => Held(d)
  <2> SUFFICES ASSUME NEW d \in 1..created, d # c, Held(d)' PROVE Held(d)
    BY <1>0
  <2>1. \/ \E f \in Fds : connections_'[f] = d
        \/ \E l \in Loops, name \in Names : Queued(l, name, d)'
        \/ pc'[0] = "store" /\ d = created'
    <3>1. Holders'
      BY HeldIs, PTL
    <3> QED BY <3>1 DEF Holders
  <2>2. \/ \E f \in Fds : connections_[f] = d
        \/ \E l \in Loops, name \in Names : Queued(l, name, d)
        \/ pc[0] = "store" /\ d = created
    <3>1. d \in Conns /\ d # 0
      BY <1>1
    <3> QED BY <1>0, <1>2, <2>1, <3>1 DEF Touches, Queued
  <2> QED BY <1>0, <2>2, HeldIs DEF Holders
<1>6. FdsUnique'
  BY <1>0, <1>1, <1>5 DEF FdsUnique
\* The map entry of another connection that is held stays.
<1>7. ASSUME NEW d \in 1..created, d # c, InMap(d) PROVE InMap(d)'
  <2>1. Held(d)
    BY <1>0, <1>7, TrackedIsHeld
  <2>2. conn[d].fd \in Fds /\ conn[d].fd # conn[c].fd /\ conn'[d] = conn[d]
    BY <1>0, <1>1, <1>7, <2>1 DEF FdsUnique, Objects
  <2> QED BY <1>0, <1>2, <1>7, <2>2 DEF InMap
<1>8. ASSUME NEW d \in 1..created PROVE WillBeDestroyed(d)' /\ OpenOnMain(d)'
  <2>1. CASE d = c
    BY <2>1 DEF Settled
  <2>2. CASE d # c
    <3>1. conn'[d] = conn[d] /\ d \in Conns /\ conn[d].loop \in Loops
      BY <1>1, <2>2 DEF ConnRec
    <3>2. Queued(conn[d].loop, "destroyed", d) => Queued(conn[d].loop, "destroyed", d)'
      BY <2>2, <3>1 DEF Touches, Queued, Names
    <3>3. WillBeDestroyed(d) /\ OpenOnMain(d)
      BY <1>0 DEF Tracked, MainTracked
    <3> QED BY <1>0, <1>7, <2>2, <3>1, <3>2, <3>3 DEF WillBeDestroyed, OpenOnMain
  <2> QED BY <2>1, <2>2
<1>9. Tracked' /\ MainTracked'
  BY <1>0, <1>8 DEF Tracked, MainTracked
<1> QED BY <1>3, <1>4, <1>6, <1>9 DEF ConnInv

\* handleClose on an event of c.
LEMMA CloseStep ==
  ASSUME IInv, TypeOK', NEW l \in Loops, NEW c \in Conns, handleClose(l, c)
  PROVE  ConnInv'
<1>0. TypeOK /\ Objects /\ Functors /\ Tracked /\ tasks \in Queues /\ 0 \in Loops
  BY Basics DEF IInv
<1>1. /\ c \in 1..created /\ conn[c].loop = l /\ conn[c].registered
      /\ pc[l] # "exited" /\ pc' = pc /\ created' = created
      /\ conn' = [conn EXCEPT ![c] = Closed(conn[c])]
  BY <1>0, CloseFacts
<1>2. PICK nm \in {"destroyed", "remove"} :
           /\ tasks' = Posted(tasks, 0, <<nm, c>>)
           /\ nm = "destroyed" => l = 0 /\ connections_' = Erased(connections_, c)
           /\ nm = "remove" => l # 0 /\ connections_' = connections_
  BY <1>0, CloseFacts
<1>3. /\ conn \in [Conns -> ConnRec] /\ conn'[c] = Closed(conn[c])
      /\ \A d \in Conns : d # c => conn'[d] = conn[d]
  BY <1>0, <1>1, Basics
<1>4. /\ conn'[c].fd = conn[c].fd /\ conn'[c].loop = l
      /\ conn'[c].state = "kDisconnected" /\ conn'[c].registered
  BY <1>1, <1>3, ConnUpdates
<1>5. \A m \in Loops, name \in Names, d \in Conns :
        Has(tasks'[m], <<name, d>>)
          <=> Has(tasks[m], <<name, d>>) \/ (m = 0 /\ name = nm /\ d = c)
  <2>1. \A m \in Loops : \A e :
          Has(tasks'[m], e) <=> Has(tasks[m], e) \/ (m = 0 /\ e = <<nm, c>>)
    <3>1. nm \in Names
      BY DEF Names
    <3> QED BY <1>0, <1>2, <3>1, PostedIs
  <2> QED BY <2>1
<1>6. InMap(c) \/ Queued(l, "destroyed", c)
  BY <1>0, <1>1 DEF Tracked, WillBeDestroyed
<1>7. Touches(c)
  <2>1. Held(c)
    BY <1>0, <1>1, <1>6, TrackedIsHeld
  <2>2. \A m \in Loops : EstablishedFirst(tasks'[m])
    <3>1. nm \in Names /\ nm # "established"
      BY DEF Names
    <3> QED BY <1>0, <1>2, <3>1, PostedOrder DEF Functors
  <2>3. threadNum_' = threadNum_
    BY DEF handleClose
  <2> QED BY <1>1, <1>2, <1>3, <1>4, <1>5, <2>1, <2>2, <2>3 DEF Touches
<1>8. ASSUME NEW m \in Loops, NEW name \in Names, Queued(m, name, c)' PROVE Fits(m, name, c)'
  <2>1. CASE Queued(m, name, c)
    <3>1. Fits(m, name, c)
      BY <1>0, <2>1 DEF Functors
    <3> QED BY <1>1, <1>4, <3>1 DEF Fits
  <2>2. CASE m = 0 /\ name = nm
    BY <1>1, <1>2, <1>4, <2>2 DEF Fits
  <2> QED BY <1>5, <1>8, <2>1, <2>2 DEF Queued
<1>9. WillBeDestroyed(c)'
  <2>1. CASE nm = "destroyed"
    BY <1>0, <1>2, <1>4, <1>5, <2>1 DEF WillBeDestroyed, Queued, Names
  <2>2. CASE nm = "remove"
    <3>1. InMap(c) => InMap(c)'
      BY <1>1, <1>2, <1>4, <2>2 DEF InMap
    <3>2. Queued(l, "destroyed", c) => Queued(l, "destroyed", c)'
      BY <1>5 DEF Queued, Names
    <3> QED BY <1>4, <1>6, <3>1, <3>2 DEF WillBeDestroyed
  <2> QED BY <2>1, <2>2
<1>10. OpenOnMain(c)'
  BY <1>4 DEF OpenOnMain
<1>11. Settled(c)'
  BY <1>8, <1>9, <1>10 DEF Settled
<1> QED BY <1>7, <1>11, TouchStep

\* Taking a functor about c from the queue of loop l.
LEMMA PopFacts ==
  ASSUME IInv, NEW l \in Loops, NEW nm \in Names, NEW c \in Conns, Runs(l, nm, c)
  PROVE  /\ Popped(tasks, l) \in Queues
         /\ \A m \in Loops : EstablishedFirst(Popped(tasks, l)[m])
         /\ \A m \in Loops, name \in Names, d \in Conns :
              /\ Has(Popped(tasks, l)[m], <<name, d>>) => Queued(m, name, d)
              /\ Queued(m, name, d) /\ ~(m = l /\ name = nm /\ d = c)
                   => Has(Popped(tasks, l)[m], <<name, d>>)
         /\ ~Has(Popped(tasks, l)[l], <<"established", c>>)
         /\ Fits(l, nm, c) /\ pc[l] = "pending" /\ c \in 1..created /\ Held(c)
<1>0. TypeOK /\ Functors /\ tasks \in Queues
  BY Basics DEF IInv
<1>1. /\ tasks[l] # <<>> /\ Head(tasks[l]) = <<nm, c>> /\ Queued(l, nm, c)
      /\ Fits(l, nm, c) /\ pc[l] = "pending"
  BY <1>0, RunFacts
<1>2. /\ Popped(tasks, l) \in Queues
      /\ \A m \in Loops : \A e : Has(Popped(tasks, l)[m], e) => Has(tasks[m], e)
      /\ \A m \in Loops : \A e :
           Has(tasks[m], e) /\ (m # l \/ e # Head(tasks[l])) => Has(Popped(tasks, l)[m], e)
      /\ \A m \in Loops : EstablishedFirst(Popped(tasks, l)[m])
      /\ ~Has(Popped(tasks, l)[l], <<"established", Head(tasks[l])[2]>>)
  BY <1>0, <1>1, PoppedIs DEF Functors
<1>3. \A m \in Loops, name \in Names, d \in Conns :
        /\ Has(Popped(tasks, l)[m], <<name, d>>) => Queued(m, name, d)
        /\ Queued(m, name, d) /\ ~(m = l /\ name = nm /\ d = c)
             => Has(Popped(tasks, l)[m], <<name, d>>)
  <2> SUFFICES ASSUME NEW m \in Loops, NEW name \in Names, NEW d \in Conns
               PROVE  /\ Has(Popped(tasks, l)[m], <<name, d>>) => Queued(m, name, d)
                      /\ Queued(m, name, d) /\ ~(m = l /\ name = nm /\ d = c)
                           => Has(Popped(tasks, l)[m], <<name, d>>)
    OBVIOUS
  <2>1. ~(name = nm /\ d = c) => <<name, d>> # Head(tasks[l])
    BY <1>1
  <2> QED BY <1>2, <2>1 DEF Queued
<1>4. ~Has(Popped(tasks, l)[l], <<"established", c>>)
  BY <1>1, <1>2
<1>5. c \in 1..created /\ Held(c)
  BY <1>0, <1>1, HeldIs DEF Fits, Holders
<1> QED BY <1>1, <1>2, <1>3, <1>4, <1>5

\* connectionEstablished: the last functor of its kind about c.
LEMMA EstablishStep ==
  ASSUME IInv, TypeOK', NEW l \in Loops, NEW c \in Conns, connectionEstablished(l, c)
  PROVE  ConnInv'
<1>0. TypeOK /\ Objects /\ Functors /\ Tracked
  BY DEF IInv
<1>1. /\ Runs(l, "established", c) /\ tasks' = Popped(tasks, l)
      /\ conn' = [conn EXCEPT ![c] = Established(conn[c])]
      /\ UNCHANGED <<created, pc, connections_, threadNum_>>
  BY DEF connectionEstablished, Popped
<1>2. /\ \A m \in Loops : EstablishedFirst(tasks'[m])
      /\ \A m \in Loops, name \in Names, d \in Conns :
           /\ Has(tasks'[m], <<name, d>>) => Queued(m, name, d)
           /\ Queued(m, name, d) /\ ~(m = l /\ name = "established" /\ d = c)
                => Has(tasks'[m], <<name, d>>)
      /\ ~Has(tasks'[l], <<"established", c>>)
      /\ Fits(l, "established", c) /\ pc[l] = "pending" /\ c \in 1..created /\ Held(c)
  BY <1>1, PopFacts DEF Names
<1>3. /\ conn \in [Conns -> ConnRec] /\ conn'[c] = Established(conn[c])
      /\ \A d \in Conns : d # c => conn'[d] = conn[d]
  BY <1>0, <1>1, Basics
<1>4. /\ conn'[c].fd = conn[c].fd /\ conn'[c].loop = conn[c].loop
      /\ conn[c].loop = l /\ l # 0 /\ conn[c].state = "kConnecting"
  BY <1>2, <1>3, ConnUpdates DEF Fits
<1>5. Touches(c)
  BY <1>1, <1>2, <1>3, <1>4 DEF Touches, Queued
<1>6. ASSUME NEW m \in Loops, NEW name \in Names, Queued(m, name, c)' PROVE Fits(m, name, c)'
  <2>1. Queued(m, name, c) /\ Fits(m, name, c)
    BY <1>0, <1>2, <1>6 DEF Queued, Functors
  <2>2. name # "established"
    BY <1>2, <1>4, <1>6, <2>1 DEF Queued, Fits
  <2> QED BY <1>1, <1>4, <2>1, <2>2 DEF Fits
<1>7. WillBeDestroyed(c)'
  <2>1. InMap(c) \/ Queued(l, "destroyed", c)
    BY <1>0, <1>2, <1>4 DEF Tracked, WillBeDestroyed
  <2>2. Queued(l, "destroyed", c) => Queued(l, "destroyed", c)'
    BY <1>2 DEF Queued, Names
  <2> QED BY <1>1, <1>4, <2>1, <2>2 DEF WillBeDestroyed, InMap
<1>8. OpenOnMain(c)'
  BY <1>4 DEF OpenOnMain
<1> QED BY <1>5, <1>6, <1>7, <1>8, TouchStep DEF Settled

\* connectionDestroyed: c needs nothing any more.
LEMMA DestroyedStep ==
  ASSUME IInv, TypeOK', NEW l \in Loops, NEW c \in Conns, connectionDestroyed(l, c)
  PROVE  ConnInv'
<1>0. TypeOK /\ Functors
  BY DEF IInv
<1>1. /\ Runs(l, "destroyed", c) /\ tasks' = Popped(tasks, l)
      /\ conn' = [conn EXCEPT ![c] = Destroyed(conn[c])]
      /\ UNCHANGED <<created, pc, connections_, threadNum_>>
  BY DEF connectionDestroyed, Popped, server
<1>2. /\ \A m \in Loops : EstablishedFirst(tasks'[m])
      /\ \A m \in Loops, name \in Names, d \in Conns :
           /\ Has(tasks'[m], <<name, d>>) => Queued(m, name, d)
           /\ Queued(m, name, d) /\ ~(m = l /\ name = "destroyed" /\ d = c)
                => Has(tasks'[m], <<name, d>>)
      /\ ~Has(tasks'[l], <<"established", c>>)
      /\ Fits(l, "destroyed", c) /\ pc[l] = "pending" /\ c \in 1..created /\ Held(c)
  BY <1>1, PopFacts DEF Names
<1>3. /\ conn \in [Conns -> ConnRec] /\ conn'[c] = Destroyed(conn[c])
      /\ \A d \in Conns : d # c => conn'[d] = conn[d]
  BY <1>0, <1>1, Basics
<1>4. /\ conn'[c].fd = conn[c].fd /\ conn'[c].loop = conn[c].loop
      /\ conn[c].loop = l /\ conn'[c].state = "kDisconnected" /\ ~conn'[c].registered
  BY <1>2, <1>3, ConnUpdates DEF Fits
<1>5. Touches(c)
  BY <1>1, <1>2, <1>3, <1>4 DEF Touches, Queued
<1>6. ASSUME NEW m \in Loops, NEW name \in Names, Queued(m, name, c)' PROVE Fits(m, name, c)'
  <2>1. Queued(m, name, c) /\ Fits(m, name, c)
    BY <1>0, <1>2, <1>6 DEF Queued, Functors
  <2>2. name # "established"
    BY <1>2, <1>4, <1>6, <2>1 DEF Queued, Fits
  <2> QED BY <1>1, <1>4, <2>1, <2>2 DEF Fits
<1>7. WillBeDestroyed(c)' /\ OpenOnMain(c)'
  BY <1>4 DEF WillBeDestroyed, OpenOnMain
<1> QED BY <1>5, <1>6, <1>7, TouchStep DEF Settled

\* removeConnectionInLoop: the map entry of c becomes a connectionDestroyed.
LEMMA RemoveStep ==
  ASSUME IInv, TypeOK', NEW c \in Conns, removeConnectionInLoop(c)
  PROVE  ConnInv'
<1>0. TypeOK /\ Functors /\ 0 \in Loops
  BY Basics DEF IInv
<1>1. /\ Runs(0, "remove", c) /\ UNCHANGED <<conn, pc, created>>
      /\ connections_' = Erased(connections_, c) /\ conn[c].loop \in Loops
      /\ tasks' = Posted(Popped(tasks, 0), conn[c].loop, <<"destroyed", c>>)
  BY <1>0, RemoveFacts
<1> DEFINE q == Popped(tasks, 0)
<1>2. /\ q \in Queues
      /\ \A m \in Loops : EstablishedFirst(q[m])
      /\ \A m \in Loops, name \in Names, d \in Conns :
           /\ Has(q[m], <<name, d>>) => Queued(m, name, d)
           /\ Queued(m, name, d) /\ ~(m = 0 /\ name = "remove" /\ d = c)
                => Has(q[m], <<name, d>>)
      /\ Fits(0, "remove", c) /\ pc[0] = "pending" /\ c \in 1..created /\ Held(c)
  BY <1>0, <1>1, PopFacts DEF Names
<1> HIDE DEF q
<1>3. tasks' = Posted(q, conn[c].loop, <<"destroyed", c>>)
  BY <1>1 DEF q
<1>4. /\ \A m \in Loops : EstablishedFirst(tasks'[m])
      /\ \A m \in Loops : \A e :
           Has(tasks'[m], e) <=> Has(q[m], e) \/ (m = conn[c].loop /\ e = <<"destroyed", c>>)
  <2>1. "destroyed" \in Names /\ "destroyed" # "established"
    BY DEF Names
  <2>2. \A m \in Loops : EstablishedFirst(tasks'[m])
    BY <1>1, <1>2, <1>3, <2>1, PostedOrder
  <2>3. \A m \in Loops : \A e :
          Has(tasks'[m], e) <=> Has(q[m], e) \/ (m = conn[c].loop /\ e = <<"destroyed", c>>)
    BY <1>1, <1>2, <1>3, PostedDestroyed
  <2> QED BY <2>2, <2>3
<1>5. conn[c].loop # 0 /\ conn[c].state = "kDisconnected"
  BY <1>2 DEF Fits
<1>6. Touches(c)
  <2>1. \A m \in Loops, name \in Names, d \in Conns : d # c =>
          (Has(tasks'[m], <<name, d>>) <=> Has(tasks[m], <<name, d>>))
    BY <1>2, <1>4 DEF Queued
  <2>2. threadNum_' = threadNum_
    BY DEF removeConnectionInLoop, server
  <2> QED BY <1>1, <1>2, <1>4, <2>1, <2>2 DEF Touches
<1>7. ASSUME NEW m \in Loops, NEW name \in Names, Queued(m, name, c)' PROVE Fits(m, name, c)'
  <2>1. CASE Queued(m, name, c)
    <3>1. Fits(m, name, c)
      BY <1>0, <2>1 DEF Functors
    <3> QED BY <1>1, <3>1 DEF Fits
  <2>2. CASE m = conn[c].loop /\ name = "destroyed"
    BY <1>1, <1>2, <1>5, <2>2 DEF Fits
  <2>3. Has(q[m], <<name, c>>) \/ (m = conn[c].loop /\ <<name, c>> = <<"destroyed", c>>)
    BY <1>4, <1>7 DEF Queued
  <2> QED BY <1>2, <2>1, <2>2, <2>3
<1>8. WillBeDestroyed(c)' /\ OpenOnMain(c)'
  BY <1>1, <1>4, <1>5 DEF WillBeDestroyed, OpenOnMain, Queued
<1> QED BY <1>6, <1>7, <1>8, TouchStep DEF Settled

\* One turn of ~TcpServer's loop, on the main loop at once or as a functor.
LEMMA DestroyOneStep ==
  ASSUME IInv, TypeOK', NEW f \in Fds, DestroyOne(f)
  PROVE  ConnInv'
<1>0. TypeOK /\ Objects /\ Functors /\ tasks \in Queues
  BY Basics DEF IInv
<1>c. PICK c : c = connections_[f]
  OBVIOUS
<1>1. /\ c \in 1..created /\ pc[0] = "exited" /\ UNCHANGED <<pc, created>>
      /\ connections_' = Erased(connections_, c)
      /\ \/ /\ conn[c].loop = 0 /\ tasks' = tasks
            /\ conn' = [conn EXCEPT ![c] = Destroyed(conn[c])]
         \/ /\ conn[c].loop # 0 /\ conn' = conn
            /\ tasks' = Posted(tasks, conn[c].loop, <<"destroyed", c>>)
  BY <1>0, <1>c, DestroyFacts
<1>2. Held(c)
  BY <1>c DEF Held
<1>3. threadNum_' = threadNum_
  BY DEF DestroyOne, server
<1>4. c \in Conns /\ conn \in [Conns -> ConnRec] /\ conn[c].loop \in Loops
  BY <1>0, <1>1, Basics DEF ConnRec
<1>5. CASE conn[c].loop = 0
  <2>1. tasks' = tasks /\ conn' = [conn EXCEPT ![c] = Destroyed(conn[c])]
    BY <1>1, <1>5
  <2>2. conn'[c] = Destroyed(conn[c]) /\ \A d \in Conns : d # c => conn'[d] = conn[d]
    BY <1>4, <2>1
  <2>3. /\ conn'[c].fd = conn[c].fd /\ conn'[c].loop = 0
        /\ conn'[c].state = "kDisconnected" /\ ~conn'[c].registered
    BY <1>4, <1>5, <2>2, ConnUpdates
  <2>4. Touches(c)
    BY <1>0, <1>1, <1>2, <1>3, <1>5, <2>1, <2>2, <2>3 DEF Touches, Functors
  <2>5. ASSUME NEW m \in Loops, NEW name \in Names, Queued(m, name, c)' PROVE Fits(m, name, c)'
    <3>1. Fits(m, name, c)
      BY <1>0, <1>4, <2>1, <2>5 DEF Functors, Queued
    <3> QED BY <1>1, <1>5, <2>3, <3>1 DEF Fits
  <2>6. WillBeDestroyed(c)' /\ OpenOnMain(c)'
    BY <2>3 DEF WillBeDestroyed, OpenOnMain
  <2> QED BY <2>4, <2>5, <2>6, TouchStep DEF Settled
<1>6. CASE conn[c].loop # 0
  <2>1. tasks' = Posted(tasks, conn[c].loop, <<"destroyed", c>>) /\ conn' = conn
    BY <1>1, <1>6
  <2>2. /\ \A m \in Loops : EstablishedFirst(tasks'[m])
        /\ \A m \in Loops : \A e :
             Has(tasks'[m], e) <=> Has(tasks[m], e) \/ (m = conn[c].loop /\ e = <<"destroyed", c>>)
    <3>1. "destroyed" \in Names /\ "destroyed" # "established"
      BY DEF Names
    <3>2. \A m \in Loops : EstablishedFirst(tasks'[m])
      BY <1>0, <1>4, <2>1, <3>1, PostedOrder DEF Functors
    <3>3. \A m \in Loops : \A e :
            Has(tasks'[m], e) <=> Has(tasks[m], e) \/ (m = conn[c].loop /\ e = <<"destroyed", c>>)
      BY <1>0, <1>4, <2>1, PostedDestroyed
    <3> QED BY <3>2, <3>3
  <2>3. \A m \in Loops, name \in Names, d \in Conns : d # c =>
          (Has(tasks'[m], <<name, d>>) <=> Has(tasks[m], <<name, d>>))
    BY <2>2
  <2>4. Touches(c)
    BY <1>1, <1>2, <1>3, <2>1, <2>2, <2>3 DEF Touches
  <2>5. ASSUME NEW m \in Loops, NEW name \in Names, Queued(m, name, c)' PROVE Fits(m, name, c)'
    <3>1. CASE Queued(m, name, c)
      <4>1. Fits(m, name, c)
        BY <1>0, <1>4, <3>1 DEF Functors
      <4> QED BY <1>1, <2>1, <4>1 DEF Fits
    <3>2. CASE m = conn[c].loop /\ name = "destroyed"
      BY <1>1, <2>1, <3>2 DEF Fits
    <3>3. Queued(m, name, c) \/ (m = conn[c].loop /\ <<name, c>> = <<"destroyed", c>>)
      BY <2>2, <2>5 DEF Queued
    <3> QED BY <3>1, <3>2, <3>3
  <2>6. WillBeDestroyed(c)' /\ OpenOnMain(c)'
    BY <1>4, <1>6, <2>1, <2>2 DEF WillBeDestroyed, OpenOnMain, Queued
  <2> QED BY <2>4, <2>5, <2>6, TouchStep DEF Settled
<1> QED BY <1>5, <1>6

\* onNewConnection: the new connection gets a descriptor that is not in use
\* and waits to be stored.
LEMMA AcceptStep ==
  ASSUME IInv, TypeOK', NEW f \in Fds, AcceptOne(f)
  PROVE  ConnInv'
<1>0. /\ TypeOK /\ Counted /\ Stages /\ Objects /\ Functors /\ FdsUnique /\ Tracked
      /\ MainTracked /\ tasks \in Queues /\ created \in Nat /\ 1..created \subseteq Conns
      /\ conn \in [Conns -> ConnRec] /\ 0 \in Loops
  BY Basics DEF IInv
<1>1. PICK n : n = created + 1
  OBVIOUS
<1>2. PICK k : k = getNextLoop
  OBVIOUS
<1>3. /\ n \in Conns /\ created' = n /\ k \in Loops /\ k \in 0..threadNum_
      /\ k = 0 => threadNum_ = 0
      /\ tasks' = IF k = 0 THEN tasks ELSE Posted(tasks, k, <<"established", n>>)
  BY <1>0, <1>1, <1>2, AcceptFacts
<1>4. PICK r \in ConnRec :
        /\ conn' = [conn EXCEPT ![n] = r]
        /\ r.fd = f /\ r.loop = k /\ r.state # "kDisconnected"
        /\ k # 0 => r.state = "kConnecting" /\ ~r.registered
  BY <1>0, <1>1, <1>2, AcceptFacts
<1>5. /\ pc[0] = "accept" /\ pc'[0] = "store" /\ \A l \in Loops : l # 0 => pc'[l] = pc[l]
      /\ connections_' = connections_ /\ threadNum_' = threadNum_ /\ f \in FreeFds
  BY <1>0 DEF AcceptOne, server, TypeOK
<1>6. conn'[n] = r /\ \A d \in Conns : d # n => conn'[d] = conn[d]
  BY <1>0, <1>3, <1>4
<1>7. /\ 1..created' = 1..created \cup {n} /\ n \notin 1..created
      /\ \A d \in 1..created : d \in Conns /\ conn'[d] = conn[d]
      /\ \A d \in Conns : d > created' => d > created /\ conn'[d] = conn[d]
  BY <1>0, <1>1, <1>3, <1>6 DEF Conns
<1>8. Objects'
  <2>1. \A d \in 1..created' : /\ conn'[d].fd \in Fds
                               /\ conn'[d].loop \in 0..threadNum_
                               /\ conn'[d].loop = 0 => threadNum_ = 0
    BY <1>0, <1>3, <1>4, <1>6, <1>7 DEF Objects
  <2>2. \A d \in Conns : d > created' => ~conn'[d].registered
    BY <1>0, <1>7 DEF Objects
  <2>3. \A g \in Fds : connections_'[g] # 0 =>
          connections_'[g] \in 1..created' /\ conn'[connections_'[g]].fd = g
    BY <1>0, <1>5, <1>7 DEF Objects
  <2> QED BY <1>5, <2>1, <2>2, <2>3 DEF Objects
\* Nothing is queued about a connection that was not there.
<1>9. \A l \in Loops, name \in Names : ~Queued(l, name, n)
  BY <1>0, <1>3, <1>7 DEF Functors, Fits
<1>10. /\ \A l \in Loops : EstablishedFirst(tasks'[l])
       /\ \A l \in Loops, name \in Names, d \in Conns :
            Queued(l, name, d)' <=>
              Queued(l, name, d) \/ (k # 0 /\ l = k /\ name = "established" /\ d = n)
  <2>1. CASE k = 0
    BY <1>0, <1>3, <2>1 DEF Functors, Queued
  <2>2. CASE k # 0
    <3>1. PICK nm \in Names : nm = "established"
      BY DEF Names
    <3>2. tasks' = Posted(tasks, k, <<nm, n>>)
      BY <1>3, <2>2, <3>1
    <3>3. \A l \in Loops : EstablishedFirst(tasks'[l])
      BY <1>0, <1>3, <1>9, <3>2, PostedOrder DEF Functors, Queued
    <3>4. \A l \in Loops : \A e :
            Has(tasks'[l], e) <=> Has(tasks[l], e) \/ (l = k /\ e = <<nm, n>>)
      <4>1. \A l \in Loops : \A e :
              Has(Posted(tasks, k, <<nm, n>>)[l], e)
                <=> Has(tasks[l], e) \/ (l = k /\ e = <<nm, n>>)
        BY <1>0, <1>3, PostedIs
      <4> QED BY <3>2, <4>1
    <3> QED BY <2>2, <3>1, <3>3, <3>4 DEF Queued
  <2> QED BY <2>1, <2>2
<1>11. Functors'
  <2> SUFFICES ASSUME NEW l \in Loops, NEW name \in Names, NEW d \in Conns, Queued(l, name, d)'
               PROVE  Fits(l, name, d)'
    BY <1>10 DEF Functors
  <2>1. CASE Queued(l, name, d)
    <3>1. Fits(l, name, d) /\ d \in 1..created
      BY <1>0, <2>1 DEF Functors, Fits
    <3>2. d \in 1..created' /\ conn'[d] = conn[d] /\ pc[0] # "exited"
      BY <1>5, <1>7, <3>1
    <3> QED BY <3>1, <3>2 DEF Fits
  <2>2. CASE k # 0 /\ l = k /\ name = "established" /\ d = n
    BY <1>4, <1>6, <1>7, <2>2 DEF Fits
  <2> QED BY <1>10, <2>1, <2>2
<1>12. \A d \in 1..created : Held(d)' => Held(d)
  <2> SUFFICES ASSUME NEW d \in 1..created, Held(d)' PROVE Held(d)
    OBVIOUS
  <2>1. \/ \E g \in Fds : connections_'[g] = d
        \/ \E l \in Loops, name \in Names : Queued(l, name, d)'
        \/ pc'[0] = "store" /\ d = created'
    <3>1. Holders'
      BY HeldIs, PTL
    <3> QED BY <3>1 DEF Holders
  <2>2. d # n /\ d \in Conns
    BY <1>7
  <2>3. \/ \E g \in Fds : connections_[g] = d
        \/ \E l \in Loops, name \in Names : Queued(l, name, d)
    BY <1>3, <1>5, <1>10, <2>1, <2>2
  <2> QED BY <1>0, <2>3, HeldIs DEF Holders
<1>13. FdsUnique'
  <2>1. \A d \in 1..created : Held(d) => conn[d].fd # f
    BY <1>5 DEF FreeFds
  <2>2. \A d \in 1..created : Held(d)' => conn'[d].fd # conn'[n].fd
    BY <1>4, <1>6, <1>7, <1>12, <2>1
  <2> QED BY <1>0, <1>7, <1>12, <2>2 DEF FdsUnique
<1>14. ASSUME NEW d \in 1..created' PROVE WillBeDestroyed(d)' /\ OpenOnMain(d)'
  <2>1. CASE d = n
    BY <1>3, <1>5, <2>1 DEF WillBeDestroyed, OpenOnMain, InMap
  <2>2. CASE d \in 1..created
    <3>1. conn'[d] = conn[d] /\ d \in Conns /\ conn[d].loop \in Loops
      BY <1>0, <1>7, <2>2 DEF ConnRec
    <3>2. Queued(conn[d].loop, "destroyed", d) => Queued(conn[d].loop, "destroyed", d)'
      BY <1>10, <3>1 DEF Names
    <3>3. WillBeDestroyed(d) /\ OpenOnMain(d)
      BY <1>0, <2>2 DEF Tracked, MainTracked
    <3>4. InMap(d) => InMap(d)'
      BY <1>5, <3>1 DEF InMap
    <3>5. pc'[conn[d].loop] # "exited" => pc[conn[d].loop] # "exited"
      BY <1>5, <3>1
    <3> QED BY <3>1, <3>2, <3>3, <3>4, <3>5 DEF WillBeDestroyed, OpenOnMain
  <2> QED BY <1>7, <2>1, <2>2
<1> QED BY <1>8, <1>11, <1>13, <1>14 DEF ConnInv, Tracked, MainTracked

\* onNewConnection's last statement: no other connection that is held has the
\* descriptor.
LEMMA StoreStep ==
  ASSUME IInv, TypeOK', Store
  PROVE  ConnInv'
<1>0. /\ TypeOK /\ Stages /\ Objects /\ Functors /\ FdsUnique /\ Tracked /\ MainTracked
      /\ created \in Nat /\ 1..created \subseteq Conns /\ conn \in [Conns -> ConnRec]
      /\ 0 \in Loops /\ connections_ \in [Fds -> 0..MaxConns]
  BY Basics DEF IInv
<1>1. /\ UNCHANGED <<created, conn, tasks, threadNum_>>
      /\ pc[0] = "store" /\ pc'[0] = "accept" /\ \A l \in Loops : l # 0 => pc'[l] = pc[l]
      /\ connections_' = [connections_ EXCEPT ![conn[created].fd] = created]
  BY <1>0 DEF Store, server, TypeOK
<1>2. PICK n : n = created
  OBVIOUS
<1>3. n \in 1..created /\ conn[n].fd \in Fds /\ Held(n)
  BY <1>0, <1>1, <1>2 DEF Stages, Objects, Held
<1>4. \A g \in Fds : connections_'[g] = IF g = conn[n].fd THEN n ELSE connections_[g]
  BY <1>0, <1>1, <1>2, <1>3
<1>5. Objects'
  <2>1. \A g \in Fds : connections_'[g] # 0 =>
          connections_'[g] \in 1..created /\ conn[connections_'[g]].fd = g
    BY <1>0, <1>3, <1>4 DEF Objects
  <2> QED BY <1>0, <1>1, <2>1 DEF Objects
<1>6. Functors'
  <2> SUFFICES ASSUME NEW l \in Loops, NEW name \in Names, NEW d \in Conns, Queued(l, name, d)
               PROVE  Fits(l, name, d)'
    BY <1>0, <1>1 DEF Functors, Queued
  <2>1. Fits(l, name, d)
    BY <1>0 DEF Functors
  <2> QED BY <1>1, <2>1 DEF Fits
<1>7. \A d \in 1..created : Held(d)' => Held(d)
  BY <1>1, <1>3, <1>4 DEF Held
<1>8. FdsUnique'
  BY <1>0, <1>1, <1>7 DEF FdsUnique
<1>9. ASSUME NEW d \in 1..created, InMap(d) PROVE InMap(d)'
  <2>1. CASE d = n
    BY <1>1, <1>3, <1>4, <2>1 DEF InMap
  <2>2. CASE d # n
    <3>1. Held(d) /\ connections_[conn[d].fd] = d
      BY <1>0, <1>2, <1>9, <2>2, TrackedIsHeld DEF InMap
    <3>2. conn[d].fd \in Fds /\ conn[d].fd # conn[n].fd
      BY <1>0, <1>3, <2>2, <3>1 DEF FdsUnique, Objects
    <3> QED BY <1>1, <1>4, <3>1, <3>2 DEF InMap
  <2> QED BY <2>1, <2>2
<1>10. ASSUME NEW d \in 1..created PROVE WillBeDestroyed(d)' /\ OpenOnMain(d)'
  <2>1. conn[d].loop \in Loops /\ (pc'[conn[d].loop] # "exited" => pc[conn[d].loop] # "exited")
    BY <1>0, <1>1 DEF ConnRec
  <2>2. WillBeDestroyed(d) /\ OpenOnMain(d)
    BY <1>0 DEF Tracked, MainTracked
  <2> QED BY <1>1, <1>9, <2>1, <2>2 DEF WillBeDestroyed, OpenOnMain, Queued
<1> QED BY <1>1, <1>5, <1>6, <1>8, <1>10 DEF ConnInv, Tracked, MainTracked

\* The step changes no connection; a loop may have been left, with what was
\* queued on it.
Quiet ==
  /\ UNCHANGED <<created, conn, connections_>>
  /\ threadNum_' = threadNum_ \/ created = 0
  /\ (pc'[0] = "store") = (pc[0] = "store")
  /\ \A l \in Loops :
       /\ pc[l] = "exited" => pc'[l] = "exited"
       /\ tasks'[l] = tasks[l] \/ (tasks'[l] = <<>> /\ pc'[l] = "exited")

\* A quiet step keeps what is said of connections: what a loop drops when it
\* is left concerns connections of that loop only.
LEMMA QuietStep ==
  ASSUME IInv, TypeOK', Quiet
  PROVE  ConnInv'
<1>0. /\ TypeOK /\ Objects /\ Functors /\ FdsUnique /\ Tracked /\ MainTracked
      /\ 1..created \subseteq Conns /\ conn \in [Conns -> ConnRec] /\ 0 \in Loops
  BY Basics DEF IInv
<1>1. UNCHANGED <<created, conn, connections_>> /\ (pc'[0] = "store" <=> pc[0] = "store")
  BY DEF Quiet
<1>2. Objects'
  <2>1. CASE threadNum_' = threadNum_
    BY <1>0, <1>1, <2>1 DEF Objects
  <2>2. CASE created = 0
    BY <1>0, <1>1, <2>2 DEF Objects
  <2> QED BY <2>1, <2>2 DEF Quiet
<1>3. /\ \A l \in Loops : EstablishedFirst(tasks'[l])
      /\ \A l \in Loops, name \in Names, d \in Conns : Queued(l, name, d)' => Queued(l, name, d)
  <2>1. (\A e : ~Has(<<>>, e)) /\ EstablishedFirst(<<>>)
    BY DEF Has, EstablishedFirst
  <2> QED BY <1>0, <2>1 DEF Quiet, Functors, Queued
<1>4. Functors'
  <2> SUFFICES ASSUME NEW l \in Loops, NEW name \in Names, NEW d \in Conns, Queued(l, name, d)
               PROVE  Fits(l, name, d)'
    BY <1>3 DEF Functors
  <2>1. Fits(l, name, d) /\ (pc'[0] # "exited" => pc[0] # "exited")
    BY <1>0 DEF Functors, Quiet
  <2> QED BY <1>1, <2>1 DEF Fits
<1>5. \A d \in 1..created : Held(d)' => Held(d)
  <2>1. Holders /\ Holders'
    BY <1>0, HeldIs, PTL
  <2> QED BY <1>0, <1>1, <1>3, <2>1 DEF Holders
<1>6. FdsUnique'
  BY <1>0, <1>1, <1>5 DEF FdsUnique
<1>7. ASSUME NEW d \in 1..created PROVE WillBeDestroyed(d)' /\ OpenOnMain(d)'
  <2>1. conn[d].loop \in Loops /\ WillBeDestroyed(d) /\ OpenOnMain(d)
    BY <1>0 DEF Tracked, MainTracked, ConnRec
  <2>2. InMap(d) => InMap(d)'
    BY <1>1 DEF InMap
  <2>3. pc'[conn[d].loop] # "exited" =>
          /\ pc[conn[d].loop] # "exited"
          /\ Queued(conn[d].loop, "destroyed", d) => Has(tasks'[conn[d].loop], <<"destroyed", d>>)
    BY <2>1 DEF Quiet, Queued
  <2> QED BY <1>1, <2>1, <2>2, <2>3 DEF WillBeDestroyed, OpenOnMain, Queued
<1> QED BY <1>1, <1>2, <1>4, <1>6, <1>7 DEF ConnInv, Tracked, MainTracked

\* The steps that are quiet.
LEMMA QuietSteps ==
  ASSUME TypeOK, Stages
  PROVE  /\ \A n \in 0..MaxThreads : setThreadNum(n) => Quiet
         /\ start \/ RunMainLoop \/ QuitMain \/ ConnArrives => Quiet
         /\ Report \/ AcceptEmpty \/ AcceptFails => Quiet
         /\ \A l \in Loops : CheckQuit(l) \/ TakeBatch(l) \/ QuitLoop(l) => Quiet
         /\ DestroyMembers \/ JoinAll \/ UNCHANGED vars => Quiet
<1> USE DEF objects, loopState, server
<1>0. /\ 0 \in Loops /\ tasks \in Queues
      /\ pc \in [Loops -> {"before", "poll", "accept", "store", "events", "pending", "exited"}]
  BY Basics
<1>1. UNCHANGED <<created, conn, connections_, threadNum_, pc, tasks>> => Quiet
  BY DEF Quiet
\* One thread takes a step of its loop.
<1>2. ASSUME NEW l \in Loops, pc[l] \notin {"store", "exited"},
             NEW x \in {"poll", "accept", "events", "pending"}, pc' = [pc EXCEPT ![l] = x],
             UNCHANGED <<created, conn, connections_, threadNum_, tasks>>
      PROVE  Quiet
  <2>1. \A m \in Loops : pc'[m] = IF m = l THEN x ELSE pc[m]
    BY <1>0, <1>2
  <2> QED BY <1>0, <1>2, <2>1 DEF Quiet
<1>3. ASSUME NEW n \in 0..MaxThreads, setThreadNum(n) PROVE Quiet
  <2>1. created = 0 /\ UNCHANGED <<created, conn, connections_, pc, tasks>>
    BY <1>3 DEF setThreadNum, Stages
  <2> QED BY <2>1 DEF Quiet
<1>4. CASE start
  <2>1. /\ UNCHANGED <<created, conn, connections_, threadNum_, tasks>>
        /\ \A l \in Loops : pc[l] = "before" /\ pc'[l] \in {"before", "pending"}
    BY <1>4 DEF start, Stages
  <2> QED BY <1>0, <2>1 DEF Quiet
<1>5. CASE RunMainLoop
  BY <1>0, <1>2, <1>5 DEF RunMainLoop
<1>6. CASE QuitMain \/ ConnArrives
  BY <1>1, <1>6 DEF QuitMain, ConnArrives
<1>7. CASE Report
  BY <1>0, <1>2, <1>7 DEF Report
<1>8. CASE AcceptEmpty
  BY <1>0, <1>2, <1>8 DEF AcceptEmpty
<1>9. CASE AcceptFails
  BY <1>0, <1>2, <1>9 DEF AcceptFails
<1>10. ASSUME NEW l \in Loops, CheckQuit(l) PROVE Quiet
  <2>1. pc[l] = "pending" /\ UNCHANGED <<created, conn, connections_, threadNum_>>
    BY <1>10 DEF CheckQuit
  <2>2. CASE pc' = [pc EXCEPT ![l] = "poll"] /\ tasks' = tasks
    BY <1>2, <2>1, <2>2
  <2>3. CASE /\ pc' = [pc EXCEPT ![l] = "exited"]
             /\ tasks' = tasks \/ tasks' = [tasks EXCEPT ![l] = <<>>]
    <3>1. \A m \in Loops : pc'[m] = IF m = l THEN "exited" ELSE pc[m]
      BY <1>0, <2>3
    <3>2. \A m \in Loops : tasks'[m] = tasks[m] \/ (tasks'[m] = <<>> /\ m = l)
      BY <1>0, <2>3 DEF Queues
    <3> QED BY <1>0, <2>1, <3>1, <3>2 DEF Quiet
  <2> QED BY <1>10, <2>2, <2>3 DEF CheckQuit
<1>11. ASSUME NEW l \in Loops, TakeBatch(l) PROVE Quiet
  BY <1>2, <1>11 DEF TakeBatch
<1>12. ASSUME NEW l \in Loops, QuitLoop(l) PROVE Quiet
  BY <1>1, <1>12 DEF QuitLoop
<1>13. CASE DestroyMembers
  BY <1>1, <1>13 DEF DestroyMembers
<1>14. CASE JoinAll
  <2>1. /\ UNCHANGED <<created, conn, connections_, threadNum_, pc>> /\ pc[0] = "exited"
        /\ tasks' = [tasks EXCEPT ![0] = <<>>]
    BY <1>14 DEF JoinAll, Stages
  <2>2. \A m \in Loops : tasks'[m] = tasks[m] \/ (tasks'[m] = <<>> /\ m = 0)
    BY <1>0, <2>1 DEF Queues
  <2> QED BY <1>0, <2>1, <2>2 DEF Quiet
<1>15. CASE UNCHANGED vars
  BY <1>1, <1>15 DEF vars
<1> QED
  BY <1>3, <1>4, <1>5, <1>6, <1>7, <1>8, <1>9, <1>10, <1>11, <1>12, <1>13, <1>14, <1>15

\* Every step keeps the inductive invariant.
LEMMA NextInv == IInv /\ [Next]_vars => IInv'
<1> SUFFICES ASSUME IInv, [Next]_vars PROVE IInv'
  OBVIOUS
<1>0. TypeOK /\ Counted /\ Stages
  BY DEF IInv
<1>1. TypeOK' /\ Counted' /\ Stages' /\ WaitingIsReported' /\ NoLateCall'
  BY <1>0, TypeStep, StagesStep, ListenStep DEF IInv
<1>2. ConnInv'
  <2>1. 0 \in Loops
    BY <1>0, Basics
  <2>2. ASSUME NEW l \in Loops, LoopStep(l) PROVE ConnInv'
    BY <1>0, <1>1, <2>2, QuietSteps, QuietStep, EstablishStep, DestroyedStep DEF LoopStep
  <2>3. CASE MainStep
    BY <1>0, <1>1, <2>1, <2>2, <2>3, QuietSteps, QuietStep, StoreStep, AcceptStep, RemoveStep
    DEF MainStep
  <2>4. CASE Destructor
    BY <1>0, <1>1, <2>4, QuietSteps, QuietStep, DestroyOneStep DEF Destructor
  <2>5. ASSUME NEW l \in Loops, NEW c \in Conns, handleClose(l, c) PROVE ConnInv'
    BY <1>1, <2>5, CloseStep
  <2>6. CASE \/ \E n \in 0..MaxThreads : setThreadNum(n)
             \/ start \/ RunMainLoop \/ QuitMain \/ ConnArrives \/ UNCHANGED vars
    BY <1>0, <1>1, <2>6, QuietSteps, QuietStep
  <2> QED BY <2>2, <2>3, <2>4, <2>5, <2>6 DEF Next
<1> QED BY <1>1, <1>2 DEF IInv, ConnInv

\* IInv holds in every reachable state.
LEMMA InductiveInvariant == Spec => []IInv
BY InitInv, NextInv, PTL DEF Spec

-----------------------------------------------------------------------------
\* Types: next_ always is an index of subLoops_, the map holds connections and
\* a batch is a prefix of the queue of its loop (TcpServer.cc, EventLoop.cc).
THEOREM TypeCorrect == Spec => []TypeOK
<1>1. IInv => TypeOK
  BY DEF IInv
<1> QED BY <1>1, InductiveInvariant, PTL

\* removeConnection erases by descriptor, and as often as the connection is
\* closed: it never takes another connection out of connections_, because a
\* removal in flight keeps its connection, hence its descriptor.
THEOREM ConnectionsTracked == Spec => []OpenIsTracked
<1>1. IInv => OpenIsTracked
  <2> SUFFICES ASSUME IInv, NEW c \in 1..created, conn[c].state # "kDisconnected",
                      pc[0] # "exited", ~(pc[0] = "store" /\ c = created)
               PROVE  connections_[conn[c].fd] = c
    BY DEF OpenIsTracked
  <2>1. TypeOK /\ Stages /\ Functors /\ Tracked
    BY DEF IInv
  <2>2. c \in Conns /\ conn[c].loop \in Loops
    BY <2>1, Basics DEF ConnRec
  <2>3. pc[conn[c].loop] # "exited"
    BY <2>1, <2>2 DEF Stages
  <2>4. ~Queued(conn[c].loop, "destroyed", c)
    BY <2>1, <2>2 DEF Functors, Fits, Names
  <2> QED BY <2>1, <2>3, <2>4 DEF Tracked, WillBeDestroyed, InMap
<1> QED BY <1>1, InductiveInvariant, PTL

\* The shared_ptrs that onNewConnection, removeConnection and ~TcpServer hand
\* on keep every connection alive until connectionDestroyed has run on its
\* loop, as long as that loop runs.
THEOREM ReleasedClean == Spec => []ReleasedIsClean
<1>1. IInv => ReleasedIsClean
  <2> SUFFICES ASSUME IInv, NEW c \in 1..created, ~Held(c), pc[conn[c].loop] # "exited"
               PROVE  ~conn[c].registered /\ conn[c].state = "kDisconnected"
    BY DEF ReleasedIsClean
  <2>1. TypeOK /\ Objects /\ Tracked
    BY DEF IInv
  <2>2. ~(InMap(c) \/ Queued(conn[c].loop, "destroyed", c))
    BY <2>1, TrackedIsHeld
  <2> QED BY <2>1, <2>2 DEF Tracked, WillBeDestroyed
<1> QED BY <1>1, InductiveInvariant, PTL

\* Acceptor::handleRead leaves no waiting connection behind that epoll will
\* not report again: it accepts until EAGAIN, or arms the socket again.
THEOREM WaitingReported == Spec => []WaitingIsReported
<1>1. IInv => WaitingIsReported
  BY DEF IInv
<1> QED BY <1>1, InductiveInvariant, PTL

\* Without I/O threads ~TcpServer closes every connection and no callback of a
\* connection comes after its members are gone.
THEOREM SingleTeardown == Spec => []SingleTeardownClean
<1>1. IInv => SingleTeardownClean
  <2> SUFFICES ASSUME IInv, threadNum_ = 0 PROVE SingleTeardownClean
    BY DEF SingleTeardownClean
  <2>1. TypeOK /\ Stages /\ Objects /\ MainTracked /\ NoLateCall
    BY DEF IInv
  <2>2. ASSUME NEW c \in 1..created, phase = "gone" PROVE conn[c].state = "kDisconnected"
    <3>1. conn[c].loop = 0 /\ conn[c].fd \in Fds
      BY <2>1 DEF Objects
    <3>2. ~InMap(c)
      BY <2>1, <2>2, <3>1 DEF Stages, InMap
    <3> QED BY <2>1, <3>1, <3>2 DEF MainTracked, OpenOnMain
  <2>3. ~lateCall
    BY <2>1 DEF NoLateCall
  <2> QED BY <2>2, <2>3 DEF SingleTeardownClean
<1> QED BY <1>1, InductiveInvariant, PTL
=============================================================================
