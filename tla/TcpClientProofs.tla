-------------------------- MODULE TcpClientProofs --------------------------
(***************************************************************************)
(* Proofs about TcpClient and its Connector, for every number of connect() *)
(* and stop() calls and of repeated closes.                                *)
(***************************************************************************)
EXTENDS TcpClient, QueueLemmas, FiniteSetTheorems

Names == {"start", "stop", "reset", "rebind", "destroy", "shutdown"}
Functors == Names \X (0..MaxStarts)

\* A functor of that name, or that functor, is queued.
HasName(q, name) == \E k \in DOMAIN q : q[k][1] = name

\* The places of the startInLoops in a queue.
StartsIn(q) == {k \in DOMAIN q : q[k][1] = "start"}

\* The startInLoops that are still to come, the one not yet queued included.
Count(q) == Cardinality(StartsIn(q))
StartsDue == Count(tasks) + (IF call = "start" THEN 1 ELSE 0)

\* Every connect() makes at most one attempt.
Counted == made + StartsDue <= starts

\* The state_ of the Connector says what it has: nothing, a socket that its
\* channel watches (or, between the handlers of one event, has just given
\* up), or a connection handed over, which is final.
Phase ==
  /\ state_ # "kDisconnected" => made > 0
  /\ state_ # "kConnected" => connection_ = 0 /\ \A s \in Socks : conn[s] = "none"
  /\ alive =>
       /\ registered # {} => state_ = "kConnecting" /\ registered = {channel_}
       /\ pc = "write" => state_ = "kConnecting"
       /\ state_ = "kConnecting" =>
            /\ channel_ \in 1..made
            /\ pc = "write" => registered = {} /\ sock[channel_] = "closed"
            /\ pc # "write" =>
                 channel_ \in registered /\ sock[channel_] \in {"syn", "up", "refused"}

\* connectionDestroyed or shutdownInLoop of socket s, stopInLoop behind the n-th
\* connect().
DestroyIn(q, s) == Has(q, <<"destroy", s>>)
ShutIn(q, s) == Has(q, <<"shutdown", s>>)
StopIn(q, n) == Has(q, <<"stop", n>>)

\* The stopInLoops in q, each with the number of connect() calls in front of it.
Numbered(q, n) == \A k \in DOMAIN q : q[k][1] = "stop" => q[k][2] <= n

\* What the queued functors say.
Queued ==
  /\ \A s \in Socks :
       DestroyIn(tasks, s) \/ conn[s] = "gone" =>
         /\ conn[s] \in {"fin", "down", "gone"} /\ closes[s] > 0
         /\ alive => connection_ # s
  /\ HasName(tasks, "reset") => made > 0
  /\ alive /\ made <= 1 /\ HasName(tasks, "reset") => registered = {}
  /\ Numbered(tasks, starts)

\* What a connection is says whether it was closed, unless a late store of
\* shutdown() has covered that.
Downs ==
  \A s \in Socks :
    /\ conn[s] \in {"none", "up"} => closes[s] = 0
    /\ conn[s] = "down" => closes[s] > 0

\* handleClose is between its two halves.
Closing ==
  /\ closing # 0 <=> pc = "close"
  /\ closing # 0 => conn[closing] \in {"fin", "down"} /\ closes[closing] > 0

\* No shutdownInLoop of socket s is queued behind its connectionDestroyed.
Ordered(q, s) ==
  \A k \in DOMAIN q : q[k] = <<"destroy", s>> =>
    \A j \in DOMAIN q : j > k => q[j] # <<"shutdown", s>>

\* What DisconnectSafe rests on: the mutex keeps connection_ what disconnect()
\* has found, so its functor is queued ahead of connectionDestroyed.
Shuts ==
  /\ call = "shutdown" => alive /\ target = connection_ /\ connection_ # 0
  /\ \A s \in Socks :
       /\ ShutIn(tasks, s) => conn[s] \in {"fin", "down"}
       /\ Ordered(tasks, s)

\* No startInLoop is queued behind the stopInLoop of the n-th connect().
NoneBehind(q, n) ==
  \A k \in DOMAIN q : q[k] = <<"stop", n>> =>
    \A j \in DOMAIN q : j > k => q[j][1] # "start"

\* What StopIsFinal rests on: behind a stop that no connect() followed there
\* is no startInLoop, queued or about to be, or it will see that it is not
\* wanted.
Stops ==
  /\ stopped => state_ # "kConnecting"
  /\ stopped /\ connected_ => call # "start" /\ ~HasName(tasks, "start")
  /\ connected_ =>
       /\ StopIn(tasks, starts) => call # "start"
       /\ NoneBehind(tasks, starts)

Alright ==
  /\ Phase /\ Queued /\ Downs /\ Stops /\ SocketsOwned /\ ConnectionCurrent
  /\ Closing /\ Shuts

\* Once an assertion has failed nothing happens any more.
IInv == TypeOK /\ Counted /\ AssertionsHold /\ (Runs => Alright)
-----------------------------------------------------------------------------
(* Queues of functors.                                                     *)

\* The startInLoops of a queue can be counted.
LEMMA CountIsNat ==
  ASSUME NEW q \in Seq(Functors)
  PROVE  IsFiniteSet(StartsIn(q)) /\ Count(q) \in Nat
<1>1. DOMAIN q = 1..Len(q) /\ Len(q) \in Nat
  BY LenProperties
<1>2. IsFiniteSet(1..Len(q))
  BY <1>1, FS_Interval
<1>3. StartsIn(q) \subseteq 1..Len(q)
  BY <1>1 DEF StartsIn
<1>4. IsFiniteSet(StartsIn(q))
  BY <1>2, <1>3, FS_Subset
<1> QED BY <1>4, FS_CardinalityType DEF Count

\* One functor more is one startInLoop more, or none.
LEMMA CountPut ==
  ASSUME NEW q \in Seq(Functors), NEW name \in Names, NEW n \in 0..MaxStarts
  PROVE  Count(Append(q, <<name, n>>)) = Count(q) + (IF name = "start" THEN 1 ELSE 0)
<1> DEFINE x == <<name, n>>
           a == Append(q, x)
<1>1. x \in Functors /\ x[1] = name
  BY DEF Functors
<1> HIDE DEF x
<1>2. /\ Len(q) \in Nat /\ DOMAIN q = 1..Len(q) /\ DOMAIN a = 1..(Len(q) + 1)
      /\ \A k \in 1..Len(q) : a[k] = q[k]
      /\ a[Len(q) + 1] = x
  BY <1>1, EndOfQueue, LenProperties
<1> HIDE DEF a
<1>3. IsFiniteSet(StartsIn(q)) /\ Count(q) \in Nat
  BY CountIsNat
<1>4. CASE name = "start"
  <2>1. StartsIn(a) = StartsIn(q) \cup {Len(q) + 1} /\ Len(q) + 1 \notin StartsIn(q)
    BY <1>1, <1>2, <1>4 DEF StartsIn
  <2>2. Cardinality(StartsIn(a)) = Cardinality(StartsIn(q)) + 1
    BY <1>3, <2>1, FS_AddElement
  <2> QED BY <1>4, <2>2 DEF Count, a, x
<1>5. CASE name # "start"
  <2>1. StartsIn(a) = StartsIn(q)
    BY <1>1, <1>2, <1>5 DEF StartsIn
  <2> QED BY <1>3, <1>5, <2>1 DEF Count, a, x
<1> QED BY <1>4, <1>5

\* Taking a functor takes one startInLoop, or none.
LEMMA CountPop ==
  ASSUME NEW q \in Seq(Functors), q # <<>>
  PROVE  Count(q) = Count(Tail(q)) + (IF Head(q)[1] = "start" THEN 1 ELSE 0)
<1> DEFINE t == Tail(q)
<1>1. /\ Head(q) = q[1] /\ 1 \in DOMAIN q
      /\ t \in Seq(Functors)
      /\ \A k \in DOMAIN t : k + 1 \in DOMAIN q /\ t[k] = q[k + 1]
      /\ \A k \in DOMAIN q : k # 1 => k - 1 \in DOMAIN t /\ t[k - 1] = q[k]
  BY TailOfQueue
<1> HIDE DEF t
<1>2. /\ DOMAIN q = 1..Len(q) /\ Len(q) \in Nat
      /\ DOMAIN t = 1..Len(t) /\ Len(t) \in Nat
  BY <1>1, LenProperties
<1>3. /\ IsFiniteSet(StartsIn(q)) /\ Count(q) \in Nat
      /\ IsFiniteSet(StartsIn(t)) /\ Count(t) \in Nat
  BY <1>1, CountIsNat
<1> DEFINE r == StartsIn(q) \ {1}
           f == [k \in StartsIn(t) |-> k + 1]
<1>4. f \in Bijection(StartsIn(t), r)
  <2>1. \A k \in StartsIn(t) : k + 1 \in r
    BY <1>1, <1>2 DEF StartsIn
  <2>2. \A k \in StartsIn(t) : k \in Nat
    BY <1>2 DEF StartsIn
  <2>3. f \in [StartsIn(t) -> r]
    BY <2>1
  <2>4. \A k, j \in StartsIn(t) : f[k] = f[j] => k = j
    BY <2>2
  <2>5. \A k \in r : \E j \in StartsIn(t) : f[j] = k
    <3> SUFFICES ASSUME NEW k \in r PROVE \E j \in StartsIn(t) : f[j] = k
      OBVIOUS
    <3>1. k \in DOMAIN q /\ k # 1 /\ q[k][1] = "start"
      BY DEF StartsIn
    <3>2. k - 1 \in StartsIn(t)
      BY <1>1, <3>1 DEF StartsIn
    <3>3. f[k - 1] = k
      BY <1>2, <3>1, <3>2
    <3> QED BY <3>2, <3>3
  <2> HIDE DEF f, r
  <2>6. f \in Injection(StartsIn(t), r)
    BY <2>3, <2>4 DEF Injection, IsInjective
  <2>7. f \in Surjection(StartsIn(t), r)
    BY <2>3, <2>5 DEF Surjection
  <2> QED BY <2>6, <2>7 DEF Bijection
<1>5. Cardinality(StartsIn(t)) = Cardinality(r)
  <2> HIDE DEF f, r
  <2>1. ExistsBijection(StartsIn(t), r)
    BY <1>4 DEF ExistsBijection
  <2> QED BY <1>3, <2>1, FS_Bijection
<1>6. CASE Head(q)[1] = "start"
  <2>1. 1 \in StartsIn(q)
    BY <1>1, <1>6 DEF StartsIn
  <2>2. Cardinality(r) = Cardinality(StartsIn(q)) - 1
    BY <1>3, <2>1, FS_RemoveElement
  <2> HIDE DEF r
  <2> QED BY <1>3, <1>5, <1>6, <2>2 DEF Count, t
<1>7. CASE Head(q)[1] # "start"
  <2>1. 1 \notin StartsIn(q)
    BY <1>1, <1>7 DEF StartsIn
  <2>2. r = StartsIn(q)
    BY <2>1
  <2> HIDE DEF r
  <2> QED BY <1>3, <1>5, <1>7, <2>2 DEF Count, t
<1> QED BY <1>6, <1>7

\* Queue a is q with functor <<name, n>> put behind it, as far as it matters.
Longer(q, a, name, n) ==
  /\ a \in Seq(Functors) /\ Len(a) = Len(q) + 1
  /\ Count(a) = Count(q) + (IF name = "start" THEN 1 ELSE 0)
  /\ \A m : DestroyIn(a, m) <=> DestroyIn(q, m) \/ (name = "destroy" /\ n = m)
  /\ \A m : StopIn(a, m) <=> StopIn(q, m) \/ (name = "stop" /\ n = m)
  /\ \A m : ShutIn(a, m) <=> ShutIn(q, m) \/ (name = "shutdown" /\ n = m)
  /\ \A m : HasName(a, m) <=> HasName(q, m) \/ name = m
  /\ \A m : Numbered(q, m) /\ (name = "stop" => n <= m) => Numbered(a, m)
  /\ \A m : NoneBehind(q, m) /\ (name = "start" => ~StopIn(q, m)) => NoneBehind(a, m)
  /\ \A m : Ordered(q, m) /\ (name = "shutdown" /\ n = m => ~DestroyIn(q, m))
            => Ordered(a, m)

\* A functor is put behind a queue.
LEMMA PutIs ==
  ASSUME NEW q \in Seq(Functors), NEW name \in Names, NEW n \in 0..MaxStarts
  PROVE  Longer(q, Append(q, <<name, n>>), name, n)
<1> DEFINE x == <<name, n>>
           a == Append(q, x)
<1>1. x \in Functors /\ x[1] = name /\ x[2] = n
  BY DEF Functors
<1>2. \A m : x = <<"stop", m>> => name = "stop"
  OBVIOUS
<1> HIDE DEF x
<1>3. /\ a \in Seq(Functors) /\ Len(a) = Len(q) + 1
      /\ Len(q) \in Nat /\ DOMAIN q = 1..Len(q) /\ DOMAIN a = 1..(Len(q) + 1)
      /\ \A k \in 1..Len(q) : a[k] = q[k]
      /\ a[Len(q) + 1] = x
  BY <1>1, EndOfQueue, LenProperties
<1>4. \A e : Has(a, e) <=> Has(q, e) \/ e = x
  BY <1>1, AppendHas
<1> HIDE DEF a
<1>5. \A m : HasName(a, m) <=> HasName(q, m) \/ name = m
  BY <1>1, <1>3 DEF HasName
<1>6. \A m : Numbered(q, m) /\ (name = "stop" => n <= m) => Numbered(a, m)
  BY <1>1, <1>3 DEF Numbered
<1>7. ASSUME NEW m, NoneBehind(q, m), name = "start" => ~StopIn(q, m)
      PROVE  NoneBehind(a, m)
  <2> PICK y : y = <<"stop", m>>
    OBVIOUS
  <2>1. \A k \in DOMAIN q : q[k] = y => \A j \in DOMAIN q : j > k => q[j][1] # "start"
    BY <1>7 DEF NoneBehind
  <2>2. name = "start" => \A k \in DOMAIN q : q[k] # y
    BY <1>7 DEF StopIn, Has
  <2>3. x = y => name # "start"
    BY <1>2
  <2>4. \A k \in DOMAIN a : a[k] = y => \A j \in DOMAIN a : j > k => a[j][1] # "start"
    BY <1>1, <1>3, <2>1, <2>2, <2>3
  <2> QED BY <2>4 DEF NoneBehind
<1>8. \A m : /\ DestroyIn(a, m) <=> DestroyIn(q, m) \/ (name = "destroy" /\ n = m)
             /\ StopIn(a, m) <=> StopIn(q, m) \/ (name = "stop" /\ n = m)
             /\ ShutIn(a, m) <=> ShutIn(q, m) \/ (name = "shutdown" /\ n = m)
  BY <1>4 DEF DestroyIn, StopIn, ShutIn, x
<1>9. Count(a) = Count(q) + (IF name = "start" THEN 1 ELSE 0)
  BY CountPut DEF a, x
<1>10. ASSUME NEW m, Ordered(q, m), name = "shutdown" /\ n = m => ~DestroyIn(q, m)
       PROVE  Ordered(a, m)
  <2> PICK y : y = <<"destroy", m>>
    OBVIOUS
  <2> PICK z : z = <<"shutdown", m>>
    OBVIOUS
  <2>1. \A k \in DOMAIN q : q[k] = y => \A j \in DOMAIN q : j > k => q[j] # z
    BY <1>10 DEF Ordered
  <2>2. x = z => name = "shutdown" /\ n = m
    BY <1>1
  <2>3. x = z => \A k \in DOMAIN q : q[k] # y
    BY <1>10, <2>2 DEF DestroyIn, Has
  <2>4. \A k \in DOMAIN a : a[k] = y => \A j \in DOMAIN a : j > k => a[j] # z
    <3> SUFFICES ASSUME NEW k \in DOMAIN a, a[k] = y, NEW j \in DOMAIN a, j > k
                 PROVE  a[j] # z
      OBVIOUS
    <3>0. Len(q) \in Nat /\ k \in 1..(Len(q) + 1) /\ j \in 1..(Len(q) + 1)
      BY <1>1, <1>3, LenProperties
    <3>. k \in 1..Len(q)
      BY <3>0
    <3>1. k \in DOMAIN q /\ q[k] = y
      BY <1>3
    <3>2. CASE j \in DOMAIN q
      BY <1>3, <2>1, <3>1, <3>2
    <3>3. CASE j = Len(q) + 1
      BY <1>3, <2>3, <3>1, <3>3
    <3> QED BY <1>3, <3>2, <3>3
  <2> QED BY <2>4 DEF Ordered
<1>11. Longer(q, a, name, n)
  BY <1>3, <1>5, <1>6, <1>7, <1>8, <1>9, <1>10 DEF Longer
<1> QED BY <1>11 DEF a, x

\* Queue t is q without its first functor, <<name, n>>, as far as it matters.
Shorter(q, t, name, n) ==
  /\ t \in Seq(Functors) /\ Len(t) = Len(q) - 1 /\ Count(t) \in Nat
  /\ Count(q) = Count(t) + (IF name = "start" THEN 1 ELSE 0)
  /\ HasName(q, name)
  /\ name = "destroy" => DestroyIn(q, n)
  /\ name = "stop" => StopIn(q, n)
  /\ \A m : DestroyIn(t, m) => DestroyIn(q, m)
  /\ \A m : StopIn(t, m) => StopIn(q, m)
  /\ \A m : ShutIn(t, m) => ShutIn(q, m)
  /\ \A m : HasName(t, m) => HasName(q, m)
  /\ \A m : Numbered(q, m) => Numbered(t, m)
  /\ \A m : NoneBehind(q, m) => NoneBehind(t, m)
  /\ name = "stop" /\ NoneBehind(q, n) => ~HasName(t, "start")
  /\ \A m : Ordered(q, m) => Ordered(t, m)
  /\ name = "destroy" /\ Ordered(q, n) => ~ShutIn(t, n)

\* The first functor of a queue is taken.
LEMMA PopIs ==
  ASSUME NEW q \in Seq(Functors), q # <<>>, NEW name, NEW n, Head(q) = <<name, n>>
  PROVE  Shorter(q, Tail(q), name, n)
<1> DEFINE t == Tail(q)
<1>1. /\ Head(q) = q[1] /\ 1 \in DOMAIN q
      /\ t \in Seq(Functors) /\ Len(t) = Len(q) - 1
      /\ \A k \in DOMAIN t : k + 1 \in DOMAIN q /\ t[k] = q[k + 1]
  BY TailOfQueue
<1>2. \A e : Has(t, e) => Has(q, e)
  BY TailHasNoMore
<1> HIDE DEF t
<1>3. /\ DOMAIN q = 1..Len(q) /\ Len(q) \in Nat
      /\ DOMAIN t = 1..Len(t) /\ Len(t) \in Nat
  BY <1>1, LenProperties
<1>4. HasName(q, name) /\ (name = "destroy" => DestroyIn(q, n)) /\ (name = "stop" => StopIn(q, n))
  <2>1. q[1] = <<name, n>> /\ q[1][1] = name
    BY <1>1
  <2> QED BY <1>1, <2>1 DEF HasName, DestroyIn, StopIn, Has
<1>5. \A m : HasName(t, m) => HasName(q, m)
  BY <1>1 DEF HasName
<1>6. \A m : Numbered(q, m) => Numbered(t, m)
  BY <1>1 DEF Numbered
<1>7. ASSUME NEW m, NoneBehind(q, m)
      PROVE  NoneBehind(t, m) /\ (Head(q) = <<"stop", m>> => ~HasName(t, "start"))
  <2> PICK y : y = <<"stop", m>>
    OBVIOUS
  <2>1. \A k \in DOMAIN q : q[k] = y => \A j \in DOMAIN q : j > k => q[j][1] # "start"
    BY <1>7 DEF NoneBehind
  <2>2. \A k \in DOMAIN t : t[k] = y => \A j \in DOMAIN t : j > k => t[j][1] # "start"
    <3> SUFFICES ASSUME NEW k \in DOMAIN t, t[k] = y, NEW j \in DOMAIN t, j > k
                 PROVE  t[j][1] # "start"
      OBVIOUS
    <3>1. j + 1 > k + 1
      BY <1>3
    <3> QED BY <1>1, <2>1, <3>1
  <2>3. q[1] = y => \A j \in DOMAIN t : t[j][1] # "start"
    <3> SUFFICES ASSUME q[1] = y, NEW j \in DOMAIN t PROVE t[j][1] # "start"
      OBVIOUS
    <3>1. j + 1 > 1
      BY <1>3
    <3> QED BY <1>1, <2>1, <3>1
  <2> QED BY <1>1, <2>2, <2>3 DEF NoneBehind, HasName
<1>8. \A m : /\ DestroyIn(t, m) => DestroyIn(q, m)
             /\ StopIn(t, m) => StopIn(q, m)
             /\ ShutIn(t, m) => ShutIn(q, m)
  BY <1>2 DEF DestroyIn, StopIn, ShutIn
<1>9. Count(t) \in Nat /\ Count(q) = Count(t) + (IF name = "start" THEN 1 ELSE 0)
  <2>1. Count(t) \in Nat /\ Head(q)[1] = name
    BY <1>1, CountIsNat
  <2>2. Count(q) = Count(t) + (IF Head(q)[1] = "start" THEN 1 ELSE 0)
    BY CountPop DEF t
  <2> QED BY <2>1, <2>2
<1>10. ASSUME NEW m, Ordered(q, m)
       PROVE  Ordered(t, m) /\ (Head(q) = <<"destroy", m>> => ~ShutIn(t, m))
  <2> PICK y : y = <<"destroy", m>>
    OBVIOUS
  <2> PICK z : z = <<"shutdown", m>>
    OBVIOUS
  <2>1. \A k \in DOMAIN q : q[k] = y => \A j \in DOMAIN q : j > k => q[j] # z
    BY <1>10 DEF Ordered
  <2>2. \A k \in DOMAIN t : t[k] = y => \A j \in DOMAIN t : j > k => t[j] # z
    <3> SUFFICES ASSUME NEW k \in DOMAIN t, t[k] = y, NEW j \in DOMAIN t, j > k
                 PROVE  t[j] # z
      OBVIOUS
    <3>1. j + 1 > k + 1
      BY <1>3
    <3> QED BY <1>1, <2>1, <3>1
  <2>3. q[1] = y => \A j \in DOMAIN t : t[j] # z
    <3> SUFFICES ASSUME q[1] = y, NEW j \in DOMAIN t PROVE t[j] # z
      OBVIOUS
    <3>1. j + 1 > 1
      BY <1>3
    <3> QED BY <1>1, <2>1, <3>1
  <2>4. Ordered(t, m)
    BY <2>2 DEF Ordered
  <2>5. Head(q) = y => ~ShutIn(t, m)
    BY <1>1, <2>3 DEF ShutIn, Has
  <2> QED BY <2>4, <2>5
<1>11. Shorter(q, t, name, n)
  BY <1>1, <1>4, <1>5, <1>6, <1>7, <1>8, <1>9, <1>10 DEF Shorter
<1> QED BY <1>11 DEF t

-----------------------------------------------------------------------------
(* The steps.                                                              *)

\* The queue holds functors.
LEMMA TasksType ==
  ASSUME TypeOK
  PROVE  tasks \in Seq(Functors) /\ Count(tasks) \in Nat /\ Len(tasks) \in Nat
<1>1. tasks \in Seq(Functors)
  BY DEF TypeOK, Functors, Names
<1> QED BY <1>1, CountIsNat, LenProperties

\* A functor is taken.
LEMMA TakesIs ==
  ASSUME TypeOK, NEW name \in Names, NEW n \in 0..MaxStarts, Takes(name, n)
  PROVE  /\ Shorter(tasks, Tail(tasks), name, n)
         /\ batch' \in 0..Len(Tail(tasks)) /\ Head(tasks)[2] = n
<1>1. tasks \in Seq(Functors) /\ Len(tasks) \in Nat
  BY TasksType
<1>2. /\ batch \in 0..Len(tasks) /\ batch > 0 /\ batch' = batch - 1
      /\ Head(tasks) = <<name, n>>
  BY DEF TypeOK, Takes
<1>3. tasks # <<>>
  BY <1>1, <1>2
<1>4. Shorter(tasks, Tail(tasks), name, n)
  BY <1>1, <1>2, <1>3, PopIs
<1>5. batch' \in 0..Len(Tail(tasks))
  BY <1>1, <1>2, <1>4 DEF Shorter
<1> QED BY <1>2, <1>4, <1>5

\* Nothing is queued, and nothing has failed, at the start.
LEMMA InitInv == Init => IInv
<1> SUFFICES ASSUME Init PROVE IInv
  OBVIOUS
<1> USE ClientConstants
<1>1. TypeOK
  <2>1. tasks \in Seq(Names \X (0..MaxStarts)) /\ batch \in 0..Len(tasks)
    BY DEF Init, Names
  <2>2. made \in 0..MaxStarts /\ stops \in 0..MaxStops /\ closes \in [Socks -> 0..MaxCloses]
    BY DEF Init
  <2> QED BY <2>1, <2>2 DEF Init, TypeOK, Names
<1>2. StartsIn(tasks) = {}
  BY DEF Init, StartsIn
<1>3. Count(tasks) = 0
  BY <1>2, FS_EmptySet DEF Count
<1>4. Counted /\ AssertionsHold
  BY <1>3 DEF Init, Counted, StartsDue, AssertionsHold
<1>5. \A m : ~DestroyIn(tasks, m) /\ ~StopIn(tasks, m) /\ ~ShutIn(tasks, m)
  BY DEF Init, Has, DestroyIn, StopIn, ShutIn
<1>6. \A m : ~HasName(tasks, m) /\ Numbered(tasks, m) /\ NoneBehind(tasks, m)
             /\ Ordered(tasks, m)
  BY DEF Init, HasName, Numbered, NoneBehind, Ordered
<1>7. Phase /\ Downs
  BY DEF Init, Phase, Downs, Socks
<1>8. Queued
  BY <1>5, <1>6 DEF Init, Queued
<1>9. Stops
  BY <1>6 DEF Init, Stops
<1>10. SocketsOwned /\ ConnectionCurrent
  BY DEF Init, SocketsOwned, ConnectionCurrent, Socks
<1>11. Closing /\ Shuts
  BY <1>5, <1>6 DEF Init, Closing, Shuts
<1> QED BY <1>1, <1>4, <1>7, <1>8, <1>9, <1>10, <1>11 DEF IInv, Alright

\* connect() on the other thread, up to the assignment to connected_.
LEMMA ConnectForeignInv ==
  ASSUME IInv, connectForeign
  PROVE  IInv'
<1> USE ClientConstants
<1>1. TypeOK /\ Counted /\ Runs /\ Phase /\ Queued /\ Downs /\ Stops /\ SocketsOwned
      /\ ConnectionCurrent /\ Closing /\ Shuts
  BY DEF IInv, Alright, Runs, connectForeign
<1>2. tasks \in Seq(Functors) /\ Count(tasks) \in Nat /\ Len(tasks) \in Nat
  BY <1>1, TasksType
<1>3. ~StopIn(tasks, starts + 1) /\ NoneBehind(tasks, starts + 1)
      /\ Numbered(tasks, starts + 1)
  <2> PICK n : n = starts + 1
    OBVIOUS
  <2>1. \A k \in DOMAIN tasks : tasks[k][1] = "stop" =>
          tasks[k][2] \in 0..MaxStarts /\ tasks[k][2] <= starts
    BY <1>1, <1>2 DEF Queued, Numbered, Functors
  <2>2. starts \in Nat /\ n = starts + 1
    BY <1>1 DEF TypeOK
  <2>3. \A k \in DOMAIN tasks : tasks[k] # <<"stop", n>>
    BY <2>1, <2>2
  <2>4. ~StopIn(tasks, n) /\ NoneBehind(tasks, n)
    BY <2>3 DEF StopIn, Has, NoneBehind
  <2>5. Numbered(tasks, n)
    BY <2>1, <2>2 DEF Numbered
  <2> QED BY <2>4, <2>5
<1>9. /\ alive /\ call = "none" /\ starts < MaxStarts
      /\ starts' = starts + 1 /\ stopped' = FALSE /\ connected_' = TRUE /\ call' = "start"
      /\ UNCHANGED <<state_, channel_, registered, sock, made, connection_, conn,
                     closes, handed, closing, tasks, batch, pc, target, stops, alive,
                     rebound, failed>>
  BY <1>1, <1>2, <1>3 DEF connectForeign, connector, sockets, client, loop, user,
     object
<1>10. TypeOK'
  <2>1. (connected_ \in BOOLEAN /\ stopped \in BOOLEAN /\ alive \in BOOLEAN /\ rebound \in BOOLEAN)'
    BY <1>1, <1>9 DEF TypeOK
  <2>2. (tasks \in Seq(Names \X (0..MaxStarts)) /\ batch \in 0..Len(tasks))'
    BY <1>1, <1>2, <1>9, <1>3 DEF TypeOK, Functors
  <2>3. (sock \in [Socks -> {"none", "syn", "up", "refused", "closed"}] /\ made \in 0..MaxStarts)'
    BY <1>1, <1>9 DEF TypeOK, Socks, Phase
  <2>4. (conn \in [Socks -> {"none", "up", "fin", "down", "gone"}] /\ closes \in [Socks -> 0..MaxCloses])'
    BY <1>1, <1>9 DEF TypeOK, Socks
  <2>5. (handed \in [Socks -> {"no", "up", "closed"}])'
    BY <1>1, <1>9 DEF TypeOK, Socks, Phase
  <2>6. (state_ \in {"kDisconnected", "kConnecting", "kConnected"} /\ channel_ \in 0..MaxStarts)'
    BY <1>1, <1>9 DEF TypeOK, Socks
  <2>7. (registered \in SUBSET Socks /\ connection_ \in 0..MaxStarts)'
    BY <1>1, <1>9 DEF TypeOK, Socks
  <2>8. (starts \in 0..MaxStarts /\ stops \in 0..MaxStops)'
    BY <1>1, <1>9 DEF TypeOK
  <2>9. (closing \in 0..MaxStarts /\ target \in 0..MaxStarts)'
    BY <1>1, <1>9 DEF TypeOK, Socks
  <2> QED
    BY <1>1, <1>9, <2>1, <2>2, <2>3, <2>4, <2>5, <2>6, <2>7, <2>8, <2>9
       DEF TypeOK, Names, Runs
<1>11. Counted'
  BY <1>1, <1>2, <1>9, <1>3 DEF TypeOK, Counted, StartsDue
<1>12. AssertionsHold'
  BY <1>1, <1>2, <1>9, <1>3 DEF TypeOK, AssertionsHold, Counted, StartsDue, Phase,
     Queued, Downs, ConnectionCurrent, Closing, Runs, Socks
<1>13. Phase'
  BY <1>1, <1>9 DEF TypeOK, Phase, Counted, StartsDue, Runs, Socks
<1>14. Queued'
  BY <1>1, <1>2, <1>9, <1>3 DEF TypeOK, Phase, Queued, Counted, StartsDue,
     ConnectionCurrent, Closing, Runs, Socks
<1>15. Downs'
  BY <1>1, <1>9 DEF TypeOK, Downs, Phase, Shuts, Runs, Socks
<1>16. Stops'
  BY <1>1, <1>2, <1>9, <1>3 DEF TypeOK, Stops, Phase, Queued, Runs
<1>17. SocketsOwned'
  BY <1>1, <1>9 DEF TypeOK, SocketsOwned, Phase, Queued, Counted, StartsDue, Runs,
     Socks
<1>18. ConnectionCurrent'
  BY <1>1, <1>9 DEF TypeOK, ConnectionCurrent, Phase, Queued, Downs, Closing, Runs,
     Socks
<1>19. Closing'
  BY <1>1, <1>9 DEF TypeOK, Closing, Phase, Queued, Downs, Runs, Socks
<1>20. Shuts'
  BY <1>1, <1>2, <1>9, <1>3 DEF TypeOK, Shuts, Phase, Queued, Downs,
     ConnectionCurrent, Runs, Socks
<1> QED BY <1>10, <1>11, <1>12, <1>13, <1>14, <1>15, <1>16, <1>17, <1>18, <1>19, <1>20 DEF IInv, Alright

\* stop() on the other thread, up to the assignment to connected_.
LEMMA StopForeignInv ==
  ASSUME IInv, stopForeign
  PROVE  IInv'
<1> USE ClientConstants
<1>1. TypeOK /\ Counted /\ Runs /\ Phase /\ Queued /\ Downs /\ Stops /\ SocketsOwned
      /\ ConnectionCurrent /\ Closing /\ Shuts
  BY DEF IInv, Alright, Runs, stopForeign
<1>2. tasks \in Seq(Functors) /\ Count(tasks) \in Nat /\ Len(tasks) \in Nat
  BY <1>1, TasksType
<1>9. /\ alive /\ call = "none" /\ stops < MaxStops
      /\ stops' = stops + 1 /\ connected_' = FALSE /\ call' = "stop"
      /\ UNCHANGED <<state_, channel_, registered, sock, made, connection_, conn,
                     closes, handed, closing, tasks, batch, pc, target, starts,
                     stopped, alive, rebound, failed>>
  BY <1>1, <1>2 DEF stopForeign, connector, sockets, client, loop, user, object
<1>10. TypeOK'
  <2>1. (connected_ \in BOOLEAN /\ stopped \in BOOLEAN /\ alive \in BOOLEAN /\ rebound \in BOOLEAN)'
    BY <1>1, <1>9 DEF TypeOK
  <2>2. (tasks \in Seq(Names \X (0..MaxStarts)) /\ batch \in 0..Len(tasks))'
    BY <1>1, <1>2, <1>9 DEF TypeOK, Functors
  <2>3. (sock \in [Socks -> {"none", "syn", "up", "refused", "closed"}] /\ made \in 0..MaxStarts)'
    BY <1>1, <1>9 DEF TypeOK, Socks, Phase
  <2>4. (conn \in [Socks -> {"none", "up", "fin", "down", "gone"}] /\ closes \in [Socks -> 0..MaxCloses])'
    BY <1>1, <1>9 DEF TypeOK, Socks
  <2>5. (handed \in [Socks -> {"no", "up", "closed"}])'
    BY <1>1, <1>9 DEF TypeOK, Socks, Phase
  <2>6. (state_ \in {"kDisconnected", "kConnecting", "kConnected"} /\ channel_ \in 0..MaxStarts)'
    BY <1>1, <1>9 DEF TypeOK, Socks
  <2>7. (registered \in SUBSET Socks /\ connection_ \in 0..MaxStarts)'
    BY <1>1, <1>9 DEF TypeOK, Socks
  <2>8. (starts \in 0..MaxStarts /\ stops \in 0..MaxStops)'
    BY <1>1, <1>9 DEF TypeOK
  <2>9. (closing \in 0..MaxStarts /\ target \in 0..MaxStarts)'
    BY <1>1, <1>9 DEF TypeOK, Socks
  <2> QED
    BY <1>1, <1>9, <2>1, <2>2, <2>3, <2>4, <2>5, <2>6, <2>7, <2>8, <2>9
       DEF TypeOK, Names, Runs
<1>11. Counted'
  BY <1>1, <1>2, <1>9 DEF TypeOK, Counted, StartsDue
<1>12. AssertionsHold'
  BY <1>1, <1>2, <1>9 DEF TypeOK, AssertionsHold, Counted, StartsDue, Phase, Queued,
     Downs, ConnectionCurrent, Closing, Runs, Socks
<1>13. Phase'
  BY <1>1, <1>9 DEF TypeOK, Phase, Counted, StartsDue, Runs, Socks
<1>14. Queued'
  BY <1>1, <1>2, <1>9 DEF TypeOK, Phase, Queued, Counted, StartsDue,
     ConnectionCurrent, Closing, Runs, Socks
<1>15. Downs'
  BY <1>1, <1>9 DEF TypeOK, Downs, Phase, Shuts, Runs, Socks
<1>16. Stops'
  BY <1>1, <1>2, <1>9 DEF TypeOK, Stops, Phase, Queued, Runs
<1>17. SocketsOwned'
  BY <1>1, <1>9 DEF TypeOK, SocketsOwned, Phase, Queued, Counted, StartsDue, Runs,
     Socks
<1>18. ConnectionCurrent'
  BY <1>1, <1>9 DEF TypeOK, ConnectionCurrent, Phase, Queued, Downs, Closing, Runs,
     Socks
<1>19. Closing'
  BY <1>1, <1>9 DEF TypeOK, Closing, Phase, Queued, Downs, Runs, Socks
<1>20. Shuts'
  BY <1>1, <1>2, <1>9 DEF TypeOK, Shuts, Phase, Queued, Downs, ConnectionCurrent,
     Runs, Socks
<1> QED BY <1>10, <1>11, <1>12, <1>13, <1>14, <1>15, <1>16, <1>17, <1>18, <1>19, <1>20 DEF IInv, Alright

\* The functor of that call is queued.
LEMMA QueueForeignInv ==
  ASSUME IInv, QueueForeign
  PROVE  IInv'
<1> USE ClientConstants
<1>1. TypeOK /\ Counted /\ Runs /\ Phase /\ Queued /\ Downs /\ Stops /\ SocketsOwned
      /\ ConnectionCurrent /\ Closing /\ Shuts
  BY DEF IInv, Alright, Runs, QueueForeign
<1>2. tasks \in Seq(Functors) /\ Count(tasks) \in Nat /\ Len(tasks) \in Nat
  BY <1>1, TasksType
<1>3. Longer(tasks, tasks', call, starts)
  <2>1. starts \in 0..MaxStarts /\ call \in Names
    BY <1>1 DEF TypeOK, Socks, Names, QueueForeign
  <2>2. Longer(tasks, Append(tasks, <<call, starts>>), call, starts)
    BY <1>2, <2>1, PutIs
  <2>3. tasks' = Append(tasks, <<call, starts>>)
    BY <1>1 DEF QueueForeign
  <2> QED BY <2>2, <2>3
<1>9. /\ call \in {"start", "stop"} /\ call' = "none"
      /\ tasks' \in Seq(Functors)
      /\ UNCHANGED <<connected_, state_, channel_, registered, sock, made,
                     connection_, conn, closes, handed, closing, batch, pc, target,
                     starts, stops, stopped, alive, rebound, failed>>
  BY <1>1, <1>2, <1>3 DEF QueueForeign, TypeOK, Longer, connector, sockets, client, loop, user, object
<1>10. TypeOK'
  <2>1. (connected_ \in BOOLEAN /\ stopped \in BOOLEAN /\ alive \in BOOLEAN /\ rebound \in BOOLEAN)'
    BY <1>1, <1>9 DEF TypeOK
  <2>2. (tasks \in Seq(Names \X (0..MaxStarts)) /\ batch \in 0..Len(tasks))'
    BY <1>1, <1>2, <1>9, <1>3 DEF TypeOK, Functors, Longer
  <2>3. (sock \in [Socks -> {"none", "syn", "up", "refused", "closed"}] /\ made \in 0..MaxStarts)'
    BY <1>1, <1>9 DEF TypeOK, Socks, Phase
  <2>4. (conn \in [Socks -> {"none", "up", "fin", "down", "gone"}] /\ closes \in [Socks -> 0..MaxCloses])'
    BY <1>1, <1>9 DEF TypeOK, Socks
  <2>5. (handed \in [Socks -> {"no", "up", "closed"}])'
    BY <1>1, <1>9 DEF TypeOK, Socks, Phase
  <2>6. (state_ \in {"kDisconnected", "kConnecting", "kConnected"} /\ channel_ \in 0..MaxStarts)'
    BY <1>1, <1>9 DEF TypeOK, Socks
  <2>7. (registered \in SUBSET Socks /\ connection_ \in 0..MaxStarts)'
    BY <1>1, <1>9 DEF TypeOK, Socks
  <2>8. (starts \in 0..MaxStarts /\ stops \in 0..MaxStops)'
    BY <1>1, <1>9 DEF TypeOK
  <2>9. (closing \in 0..MaxStarts /\ target \in 0..MaxStarts)'
    BY <1>1, <1>9 DEF TypeOK, Socks
  <2> QED
    BY <1>1, <1>9, <2>1, <2>2, <2>3, <2>4, <2>5, <2>6, <2>7, <2>8, <2>9
       DEF TypeOK, Names, Runs
<1>11. Counted'
  BY <1>1, <1>2, <1>9, <1>3 DEF TypeOK, Counted, StartsDue, Longer
<1>12. AssertionsHold'
  BY <1>1, <1>2, <1>9, <1>3 DEF TypeOK, AssertionsHold, Counted, StartsDue, Phase,
     Queued, Downs, ConnectionCurrent, Closing, Runs, Socks, Longer
<1>13. Phase'
  BY <1>1, <1>9 DEF TypeOK, Phase, Counted, StartsDue, Runs, Socks
<1>14. Queued'
  <2>1. /\ \A m : DestroyIn(tasks', m) <=> DestroyIn(tasks, m)
        /\ HasName(tasks', "reset") <=> HasName(tasks, "reset")
    BY <1>9, <1>3 DEF Longer
  <2>2. starts <= starts
    BY <1>1 DEF TypeOK
  <2>3. Numbered(tasks', starts)
    BY <1>1, <1>3, <2>2 DEF Queued, Longer
  <2> QED BY <1>1, <1>9, <2>1, <2>3 DEF Queued
<1>15. Downs'
  BY <1>1, <1>9 DEF TypeOK, Downs, Phase, Shuts, Runs, Socks
<1>16. Stops'
  BY <1>1, <1>2, <1>9, <1>3 DEF TypeOK, Stops, Phase, Queued, Runs, Longer
<1>17. SocketsOwned'
  BY <1>1, <1>9 DEF TypeOK, SocketsOwned, Phase, Queued, Counted, StartsDue, Runs,
     Socks
<1>18. ConnectionCurrent'
  BY <1>1, <1>9 DEF TypeOK, ConnectionCurrent, Phase, Queued, Downs, Closing, Runs,
     Socks
<1>19. Closing'
  BY <1>1, <1>9 DEF TypeOK, Closing, Phase, Queued, Downs, Runs, Socks
<1>20. Shuts'
  BY <1>1, <1>2, <1>9, <1>3 DEF TypeOK, Shuts, Phase, Queued, Downs,
     ConnectionCurrent, Runs, Socks, Longer
<1> QED BY <1>10, <1>11, <1>12, <1>13, <1>14, <1>15, <1>16, <1>17, <1>18, <1>19, <1>20 DEF IInv, Alright

\* disconnect() on the other thread, up to the test in shutdown().
LEMMA DisconnectForeignInv ==
  ASSUME IInv, disconnectForeign
  PROVE  IInv'
<1> USE ClientConstants
<1>1. TypeOK /\ Counted /\ Runs /\ Phase /\ Queued /\ Downs /\ Stops /\ SocketsOwned
      /\ ConnectionCurrent /\ Closing /\ Shuts
  BY DEF IInv, Alright, Runs, disconnectForeign, Connected
<1>2. tasks \in Seq(Functors) /\ Count(tasks) \in Nat /\ Len(tasks) \in Nat
  BY <1>1, TasksType
<1>9. /\ alive /\ call = "none" /\ connection_ # 0
      /\ call' = "shutdown" /\ target' = connection_
      /\ UNCHANGED <<connected_, state_, channel_, registered, sock, made,
                     connection_, conn, closes, handed, closing, tasks, batch, pc,
                     starts, stops, stopped, alive, rebound, failed>>
  BY <1>1, <1>2 DEF disconnectForeign, Connected, connector, sockets, client, loop,
     user, object
<1>10. TypeOK'
  <2>1. (connected_ \in BOOLEAN /\ stopped \in BOOLEAN /\ alive \in BOOLEAN /\ rebound \in BOOLEAN)'
    BY <1>1, <1>9 DEF TypeOK
  <2>2. (tasks \in Seq(Names \X (0..MaxStarts)) /\ batch \in 0..Len(tasks))'
    BY <1>1, <1>2, <1>9 DEF TypeOK, Functors
  <2>3. (sock \in [Socks -> {"none", "syn", "up", "refused", "closed"}] /\ made \in 0..MaxStarts)'
    BY <1>1, <1>9 DEF TypeOK, Socks, Phase
  <2>4. (conn \in [Socks -> {"none", "up", "fin", "down", "gone"}] /\ closes \in [Socks -> 0..MaxCloses])'
    BY <1>1, <1>9 DEF TypeOK, Socks
  <2>5. (handed \in [Socks -> {"no", "up", "closed"}])'
    BY <1>1, <1>9 DEF TypeOK, Socks, Phase
  <2>6. (state_ \in {"kDisconnected", "kConnecting", "kConnected"} /\ channel_ \in 0..MaxStarts)'
    BY <1>1, <1>9 DEF TypeOK, Socks
  <2>7. (registered \in SUBSET Socks /\ connection_ \in 0..MaxStarts)'
    BY <1>1, <1>9 DEF TypeOK, Socks
  <2>8. (starts \in 0..MaxStarts /\ stops \in 0..MaxStops)'
    BY <1>1, <1>9 DEF TypeOK
  <2>9. (closing \in 0..MaxStarts /\ target \in 0..MaxStarts)'
    BY <1>1, <1>9 DEF TypeOK, Socks
  <2> QED
    BY <1>1, <1>9, <2>1, <2>2, <2>3, <2>4, <2>5, <2>6, <2>7, <2>8, <2>9
       DEF TypeOK, Names, Runs
<1>11. Counted'
  BY <1>1, <1>2, <1>9 DEF TypeOK, Counted, StartsDue
<1>12. AssertionsHold'
  BY <1>1, <1>2, <1>9 DEF TypeOK, AssertionsHold, Counted, StartsDue, Phase, Queued,
     Downs, ConnectionCurrent, Closing, Runs, Socks
<1>13. Phase'
  BY <1>1, <1>9 DEF TypeOK, Phase, Counted, StartsDue, Runs, Socks
<1>14. Queued'
  BY <1>1, <1>2, <1>9 DEF TypeOK, Phase, Queued, Counted, StartsDue,
     ConnectionCurrent, Closing, Runs, Socks
<1>15. Downs'
  BY <1>1, <1>9 DEF TypeOK, Downs, Phase, Shuts, Runs, Socks
<1>16. Stops'
  BY <1>1, <1>2, <1>9 DEF TypeOK, Stops, Phase, Queued, Runs
<1>17. SocketsOwned'
  BY <1>1, <1>9 DEF TypeOK, SocketsOwned, Phase, Queued, Counted, StartsDue, Runs,
     Socks
<1>18. ConnectionCurrent'
  BY <1>1, <1>9 DEF TypeOK, ConnectionCurrent, Phase, Queued, Downs, Closing, Runs,
     Socks
<1>19. Closing'
  BY <1>1, <1>9 DEF TypeOK, Closing, Phase, Queued, Downs, Runs, Socks
<1>20. Shuts'
  BY <1>1, <1>2, <1>9 DEF TypeOK, Shuts, Phase, Queued, Downs, ConnectionCurrent,
     Runs, Socks
<1> QED BY <1>10, <1>11, <1>12, <1>13, <1>14, <1>15, <1>16, <1>17, <1>18, <1>19, <1>20 DEF IInv, Alright

\* The rest of that disconnect().
LEMMA ShutdownForeignInv ==
  ASSUME IInv, shutdownForeign
  PROVE  IInv'
<1> USE ClientConstants
<1>1. TypeOK /\ Counted /\ Runs /\ Phase /\ Queued /\ Downs /\ Stops /\ SocketsOwned
      /\ ConnectionCurrent /\ Closing /\ Shuts
  BY DEF IInv, Alright, Runs, shutdownForeign
<1>2. tasks \in Seq(Functors) /\ Count(tasks) \in Nat /\ Len(tasks) \in Nat
  BY <1>1, TasksType
<1>8. target \in Socks /\ target = connection_ /\ alive
  BY <1>1 DEF Shuts, TypeOK, Socks, shutdownForeign
<1> PICK name \in Names : name = "shutdown"
  BY DEF Names
<1>3. Longer(tasks, tasks', name, target)
  <2>1. target \in 0..MaxStarts
    BY <1>1 DEF TypeOK, Socks, Names
  <2>2. Longer(tasks, Append(tasks, <<name, target>>), name, target)
    BY <1>2, <1>8, <2>1, PutIs
  <2>3. tasks' = Append(tasks, <<name, target>>)
    BY <1>1, <1>2, <1>8 DEF shutdownForeign
  <2> QED BY <2>2, <2>3
<1>9. /\ name = "shutdown" /\ tasks' \in Seq(Functors)
      /\ alive /\ target = connection_ /\ target \in Socks
      /\ conn' = [conn EXCEPT ![target] = "fin"]
      /\ call = "shutdown" /\ call' = "none" /\ target' = 0
      /\ UNCHANGED <<connected_, state_, channel_, registered, sock, made,
                     connection_, closes, handed, closing, batch, pc, starts, stops,
                     stopped, alive, rebound, failed>>
  BY <1>1, <1>2, <1>3, <1>8 DEF shutdownForeign, Longer, connector, sockets, client, loop,
     user, object
<1>10. TypeOK'
  <2>1. (connected_ \in BOOLEAN /\ stopped \in BOOLEAN /\ alive \in BOOLEAN /\ rebound \in BOOLEAN)'
    BY <1>1, <1>9 DEF TypeOK
  <2>2. (tasks \in Seq(Names \X (0..MaxStarts)) /\ batch \in 0..Len(tasks))'
    BY <1>1, <1>2, <1>9, <1>3, <1>8 DEF TypeOK, Functors, Longer
  <2>3. (sock \in [Socks -> {"none", "syn", "up", "refused", "closed"}] /\ made \in 0..MaxStarts)'
    BY <1>1, <1>9 DEF TypeOK, Socks, Phase
  <2>4. (conn \in [Socks -> {"none", "up", "fin", "down", "gone"}] /\ closes \in [Socks -> 0..MaxCloses])'
    BY <1>1, <1>9 DEF TypeOK, Socks
  <2>5. (handed \in [Socks -> {"no", "up", "closed"}])'
    BY <1>1, <1>9 DEF TypeOK, Socks, Phase
  <2>6. (state_ \in {"kDisconnected", "kConnecting", "kConnected"} /\ channel_ \in 0..MaxStarts)'
    BY <1>1, <1>9 DEF TypeOK, Socks
  <2>7. (registered \in SUBSET Socks /\ connection_ \in 0..MaxStarts)'
    BY <1>1, <1>9 DEF TypeOK, Socks
  <2>8. (starts \in 0..MaxStarts /\ stops \in 0..MaxStops)'
    BY <1>1, <1>9 DEF TypeOK
  <2>9. (closing \in 0..MaxStarts /\ target \in 0..MaxStarts)'
    BY <1>1, <1>9 DEF TypeOK, Socks
  <2> QED
    BY <1>1, <1>9, <2>1, <2>2, <2>3, <2>4, <2>5, <2>6, <2>7, <2>8, <2>9
       DEF TypeOK, Names, Runs
<1>11. Counted'
  BY <1>1, <1>2, <1>9, <1>3, <1>8 DEF TypeOK, Counted, StartsDue, Longer
<1>12. AssertionsHold'
  BY <1>1, <1>2, <1>9, <1>3, <1>8 DEF TypeOK, AssertionsHold, Counted, StartsDue,
     Phase, Queued, Downs, ConnectionCurrent, Closing, Runs, Socks, Longer
<1>13. Phase'
  BY <1>1, <1>9 DEF TypeOK, Phase, Counted, StartsDue, Runs, Socks
<1>14. Queued'
  BY <1>1, <1>2, <1>9, <1>3, <1>8 DEF TypeOK, Phase, Queued, Counted, StartsDue,
     ConnectionCurrent, Closing, Runs, Socks, Longer
<1>15. Downs'
  BY <1>1, <1>9 DEF TypeOK, Downs, Phase, Shuts, Runs, Socks
<1>16. Stops'
  BY <1>1, <1>2, <1>9, <1>3, <1>8 DEF TypeOK, Stops, Phase, Queued, Runs, Longer
<1>17. SocketsOwned'
  BY <1>1, <1>9 DEF TypeOK, SocketsOwned, Phase, Queued, Counted, StartsDue, Runs,
     Socks
<1>18. ConnectionCurrent'
  BY <1>1, <1>9 DEF TypeOK, ConnectionCurrent, Phase, Queued, Downs, Closing, Runs,
     Socks
<1>19. Closing'
  BY <1>1, <1>9 DEF TypeOK, Closing, Phase, Queued, Downs, Runs, Socks
<1>20. Shuts'
  BY <1>1, <1>2, <1>9, <1>3, <1>8 DEF TypeOK, Shuts, Phase, Queued, Downs,
     ConnectionCurrent, Runs, Socks, Longer
<1> QED BY <1>10, <1>11, <1>12, <1>13, <1>14, <1>15, <1>16, <1>17, <1>18, <1>19, <1>20 DEF IInv, Alright

\* disconnect() on the loop thread.
LEMMA DisconnectOnLoopInv ==
  ASSUME IInv, disconnectOnLoop
  PROVE  IInv'
<1> USE ClientConstants
<1>1. TypeOK /\ Counted /\ Runs /\ Phase /\ Queued /\ Downs /\ Stops /\ SocketsOwned
      /\ ConnectionCurrent /\ Closing /\ Shuts
  BY DEF IInv, Alright, Runs, disconnectOnLoop, Connected
<1>2. tasks \in Seq(Functors) /\ Count(tasks) \in Nat /\ Len(tasks) \in Nat
  BY <1>1, TasksType
<1>8. connection_ \in Socks
  BY <1>1 DEF TypeOK, Socks, disconnectOnLoop, Connected
<1>9. /\ alive /\ connection_ \in Socks /\ conn[connection_] = "up"
      /\ conn' = [conn EXCEPT ![connection_] = "fin"]
      /\ UNCHANGED <<connected_, state_, channel_, registered, sock, made,
                     connection_, closes, handed, closing, tasks, batch, pc, call,
                     target, starts, stops, stopped, alive, rebound, failed>>
  BY <1>1, <1>2, <1>8 DEF disconnectOnLoop, Connected, connector, sockets, client,
     loop, user, object
<1>10. TypeOK'
  <2>1. (connected_ \in BOOLEAN /\ stopped \in BOOLEAN /\ alive \in BOOLEAN /\ rebound \in BOOLEAN)'
    BY <1>1, <1>9 DEF TypeOK
  <2>2. (tasks \in Seq(Names \X (0..MaxStarts)) /\ batch \in 0..Len(tasks))'
    BY <1>1, <1>2, <1>9, <1>8 DEF TypeOK, Functors
  <2>3. (sock \in [Socks -> {"none", "syn", "up", "refused", "closed"}] /\ made \in 0..MaxStarts)'
    BY <1>1, <1>9 DEF TypeOK, Socks, Phase
  <2>4. (conn \in [Socks -> {"none", "up", "fin", "down", "gone"}] /\ closes \in [Socks -> 0..MaxCloses])'
    BY <1>1, <1>9 DEF TypeOK, Socks
  <2>5. (handed \in [Socks -> {"no", "up", "closed"}])'
    BY <1>1, <1>9 DEF TypeOK, Socks, Phase
  <2>6. (state_ \in {"kDisconnected", "kConnecting", "kConnected"} /\ channel_ \in 0..MaxStarts)'
    BY <1>1, <1>9 DEF TypeOK, Socks
  <2>7. (registered \in SUBSET Socks /\ connection_ \in 0..MaxStarts)'
    BY <1>1, <1>9 DEF TypeOK, Socks
  <2>8. (starts \in 0..MaxStarts /\ stops \in 0..MaxStops)'
    BY <1>1, <1>9 DEF TypeOK
  <2>9. (closing \in 0..MaxStarts /\ target \in 0..MaxStarts)'
    BY <1>1, <1>9 DEF TypeOK, Socks
  <2> QED
    BY <1>1, <1>9, <2>1, <2>2, <2>3, <2>4, <2>5, <2>6, <2>7, <2>8, <2>9
       DEF TypeOK, Names, Runs
<1>11. Counted'
  BY <1>1, <1>2, <1>9, <1>8 DEF TypeOK, Counted, StartsDue
<1>12. AssertionsHold'
  BY <1>1, <1>2, <1>9, <1>8 DEF TypeOK, AssertionsHold, Counted, StartsDue, Phase,
     Queued, Downs, ConnectionCurrent, Closing, Runs, Socks
<1>13. Phase'
  BY <1>1, <1>9 DEF TypeOK, Phase, Counted, StartsDue, Runs, Socks
<1>14. Queued'
  BY <1>1, <1>2, <1>9, <1>8 DEF TypeOK, Phase, Queued, Counted, StartsDue,
     ConnectionCurrent, Closing, Runs, Socks
<1>15. Downs'
  BY <1>1, <1>9 DEF TypeOK, Downs, Phase, Shuts, Runs, Socks
<1>16. Stops'
  BY <1>1, <1>2, <1>9, <1>8 DEF TypeOK, Stops, Phase, Queued, Runs
<1>17. SocketsOwned'
  BY <1>1, <1>9 DEF TypeOK, SocketsOwned, Phase, Queued, Counted, StartsDue, Runs,
     Socks
<1>18. ConnectionCurrent'
  BY <1>1, <1>9 DEF TypeOK, ConnectionCurrent, Phase, Queued, Downs, Closing, Runs,
     Socks
<1>19. Closing'
  BY <1>1, <1>9 DEF TypeOK, Closing, Phase, Queued, Downs, Runs, Socks
<1>20. Shuts'
  BY <1>1, <1>2, <1>9, <1>8 DEF TypeOK, Shuts, Phase, Queued, Downs,
     ConnectionCurrent, Runs, Socks
<1> QED BY <1>10, <1>11, <1>12, <1>13, <1>14, <1>15, <1>16, <1>17, <1>18, <1>19, <1>20 DEF IInv, Alright

\* connect() on the loop thread while startInLoop's assertion fails.
LEMMA ConnectInLoopFails ==
  ASSUME IInv, state_ # "kDisconnected", connectInLoop
  PROVE  IInv'
<1> USE ClientConstants
<1>1. TypeOK /\ Counted /\ Runs /\ Phase /\ Queued /\ Downs /\ Stops /\ SocketsOwned
      /\ ConnectionCurrent /\ Closing /\ Shuts
  BY DEF IInv, Alright, Runs, connectInLoop, startInLoop
<1>2. tasks \in Seq(Functors) /\ Count(tasks) \in Nat /\ Len(tasks) \in Nat
  BY <1>1, TasksType
<1>3. ~StopIn(tasks, starts + 1) /\ NoneBehind(tasks, starts + 1)
      /\ Numbered(tasks, starts + 1)
  <2> PICK n : n = starts + 1
    OBVIOUS
  <2>1. \A k \in DOMAIN tasks : tasks[k][1] = "stop" =>
          tasks[k][2] \in 0..MaxStarts /\ tasks[k][2] <= starts
    BY <1>1, <1>2 DEF Queued, Numbered, Functors
  <2>2. starts \in Nat /\ n = starts + 1
    BY <1>1 DEF TypeOK
  <2>3. \A k \in DOMAIN tasks : tasks[k] # <<"stop", n>>
    BY <2>1, <2>2
  <2>4. ~StopIn(tasks, n) /\ NoneBehind(tasks, n)
    BY <2>3 DEF StopIn, Has, NoneBehind
  <2>5. Numbered(tasks, n)
    BY <2>1, <2>2 DEF Numbered
  <2> QED BY <2>4, <2>5
<1>9. /\ starts < MaxStarts /\ state_ # "kDisconnected"
      /\ starts' = starts + 1 /\ stopped' = FALSE /\ connected_' = TRUE
      /\ failed' = "startInLoop"
      /\ UNCHANGED <<state_, channel_, registered, sock, made, connection_, conn,
                     closes, handed, closing, tasks, batch, pc, call, target, stops,
                     alive, rebound>>
  BY <1>1, <1>2, <1>3 DEF connectInLoop, startInLoop, connector, sockets, client,
     loop, user, object
<1>10. TypeOK'
  <2>1. (connected_ \in BOOLEAN /\ stopped \in BOOLEAN /\ alive \in BOOLEAN /\ rebound \in BOOLEAN)'
    BY <1>1, <1>9 DEF TypeOK
  <2>2. (tasks \in Seq(Names \X (0..MaxStarts)) /\ batch \in 0..Len(tasks))'
    BY <1>1, <1>2, <1>9, <1>3 DEF TypeOK, Functors
  <2>3. (sock \in [Socks -> {"none", "syn", "up", "refused", "closed"}] /\ made \in 0..MaxStarts)'
    BY <1>1, <1>9 DEF TypeOK, Socks, Phase
  <2>4. (conn \in [Socks -> {"none", "up", "fin", "down", "gone"}] /\ closes \in [Socks -> 0..MaxCloses])'
    BY <1>1, <1>9 DEF TypeOK, Socks
  <2>5. (handed \in [Socks -> {"no", "up", "closed"}])'
    BY <1>1, <1>9 DEF TypeOK, Socks, Phase
  <2>6. (state_ \in {"kDisconnected", "kConnecting", "kConnected"} /\ channel_ \in 0..MaxStarts)'
    BY <1>1, <1>9 DEF TypeOK, Socks
  <2>7. (registered \in SUBSET Socks /\ connection_ \in 0..MaxStarts)'
    BY <1>1, <1>9 DEF TypeOK, Socks
  <2>8. (starts \in 0..MaxStarts /\ stops \in 0..MaxStops)'
    BY <1>1, <1>9 DEF TypeOK
  <2>9. (closing \in 0..MaxStarts /\ target \in 0..MaxStarts)'
    BY <1>1, <1>9 DEF TypeOK, Socks
  <2> QED
    BY <1>1, <1>9, <2>1, <2>2, <2>3, <2>4, <2>5, <2>6, <2>7, <2>8, <2>9
       DEF TypeOK, Names, Runs
<1>11. Counted'
  BY <1>1, <1>2, <1>9, <1>3 DEF TypeOK, Counted, StartsDue
<1>12. AssertionsHold'
  BY <1>1, <1>2, <1>9, <1>3 DEF TypeOK, AssertionsHold, Counted, StartsDue, Phase,
     Queued, Downs, ConnectionCurrent, Closing, Runs, Socks
<1> QED BY <1>9, <1>10, <1>11, <1>12 DEF IInv, Alright, Runs

\* connect() on the loop thread makes an attempt.
LEMMA ConnectInLoopInv ==
  ASSUME IInv, state_ = "kDisconnected", connectInLoop
  PROVE  IInv'
<1> USE ClientConstants
<1>1. TypeOK /\ Counted /\ Runs /\ Phase /\ Queued /\ Downs /\ Stops /\ SocketsOwned
      /\ ConnectionCurrent /\ Closing /\ Shuts
  BY DEF IInv, Alright, Runs, connectInLoop, startInLoop, connect, Wanted, InCallback
<1>2. tasks \in Seq(Functors) /\ Count(tasks) \in Nat /\ Len(tasks) \in Nat
  BY <1>1, TasksType
<1>3. ~StopIn(tasks, starts + 1) /\ NoneBehind(tasks, starts + 1)
      /\ Numbered(tasks, starts + 1)
  <2> PICK n : n = starts + 1
    OBVIOUS
  <2>1. \A k \in DOMAIN tasks : tasks[k][1] = "stop" =>
          tasks[k][2] \in 0..MaxStarts /\ tasks[k][2] <= starts
    BY <1>1, <1>2 DEF Queued, Numbered, Functors
  <2>2. starts \in Nat /\ n = starts + 1
    BY <1>1 DEF TypeOK
  <2>3. \A k \in DOMAIN tasks : tasks[k] # <<"stop", n>>
    BY <2>1, <2>2
  <2>4. ~StopIn(tasks, n) /\ NoneBehind(tasks, n)
    BY <2>3 DEF StopIn, Has, NoneBehind
  <2>5. Numbered(tasks, n)
    BY <2>1, <2>2 DEF Numbered
  <2> QED BY <2>4, <2>5
<1>6. made + 1 \in Socks
  BY <1>1, <1>2 DEF TypeOK, Counted, StartsDue, Socks, connectInLoop
<1>7. PICK s \in Socks : s = made + 1
  BY <1>6
<1>8. PICK answer \in {"closed", "syn", "up"} :
        /\ sock' = [sock EXCEPT ![s] = answer]
        /\ answer = "closed" => UNCHANGED <<state_, channel_, registered>>
        /\ answer # "closed" =>
             state_' = "kConnecting" /\ channel_' = s /\ registered' = registered \cup {s}
  BY <1>1, <1>7 DEF connectInLoop, startInLoop, connect, Wanted, Watched
<1>9. /\ s = made + 1 /\ s \in Socks /\ made' = s
      /\ state_ = "kDisconnected" /\ alive /\ pc # "write"
      /\ answer \in {"closed", "syn", "up"} /\ sock' = [sock EXCEPT ![s] = answer]
      /\ answer = "closed" => state_' = state_ /\ channel_' = channel_ /\ registered' = registered
      /\ answer # "closed" =>
           state_' = "kConnecting" /\ channel_' = s /\ registered' = registered \cup {s}
      /\ starts < MaxStarts
      /\ starts' = starts + 1 /\ stopped' = FALSE /\ connected_' = TRUE
      /\ UNCHANGED <<connection_, conn, closes, handed, closing, tasks, batch, pc,
                     call, target, stops, alive, rebound, failed>>
  BY <1>1, <1>2, <1>3, <1>7, <1>8 DEF connectInLoop, startInLoop, connect, Wanted,
     InCallback, connector, sockets, client, loop, user, object
<1>10. TypeOK'
  <2>1. (connected_ \in BOOLEAN /\ stopped \in BOOLEAN /\ alive \in BOOLEAN /\ rebound \in BOOLEAN)'
    BY <1>1, <1>9 DEF TypeOK
  <2>2. (tasks \in Seq(Names \X (0..MaxStarts)) /\ batch \in 0..Len(tasks))'
    BY <1>1, <1>2, <1>9, <1>3, <1>7, <1>8 DEF TypeOK, Functors
  <2>3. (sock \in [Socks -> {"none", "syn", "up", "refused", "closed"}] /\ made \in 0..MaxStarts)'
    BY <1>1, <1>9 DEF TypeOK, Socks, Phase
  <2>4. (conn \in [Socks -> {"none", "up", "fin", "down", "gone"}] /\ closes \in [Socks -> 0..MaxCloses])'
    BY <1>1, <1>9 DEF TypeOK, Socks
  <2>5. (handed \in [Socks -> {"no", "up", "closed"}])'
    BY <1>1, <1>9 DEF TypeOK, Socks, Phase
  <2>6. (state_ \in {"kDisconnected", "kConnecting", "kConnected"} /\ channel_ \in 0..MaxStarts)'
    BY <1>1, <1>9 DEF TypeOK, Socks
  <2>7. (registered \in SUBSET Socks /\ connection_ \in 0..MaxStarts)'
    BY <1>1, <1>9 DEF TypeOK, Socks
  <2>8. (starts \in 0..MaxStarts /\ stops \in 0..MaxStops)'
    BY <1>1, <1>9 DEF TypeOK
  <2>9. (closing \in 0..MaxStarts /\ target \in 0..MaxStarts)'
    BY <1>1, <1>9 DEF TypeOK, Socks
  <2> QED
    BY <1>1, <1>9, <2>1, <2>2, <2>3, <2>4, <2>5, <2>6, <2>7, <2>8, <2>9
       DEF TypeOK, Names, Runs
<1>11. Counted'
  BY <1>1, <1>2, <1>9, <1>3, <1>7, <1>8 DEF TypeOK, Counted, StartsDue
<1>12. AssertionsHold'
  BY <1>1, <1>2, <1>9, <1>3, <1>7, <1>8 DEF TypeOK, AssertionsHold, Counted,
     StartsDue, Phase, Queued, Downs, ConnectionCurrent, Closing, Runs, Socks
<1>13. Phase'
  BY <1>1, <1>9 DEF TypeOK, Phase, Counted, StartsDue, Runs, Socks
<1>14. Queued'
  BY <1>1, <1>2, <1>9, <1>3, <1>7, <1>8 DEF TypeOK, Phase, Queued, Counted, StartsDue,
     ConnectionCurrent, Closing, Runs, Socks
<1>15. Downs'
  BY <1>1, <1>9 DEF TypeOK, Downs, Phase, Shuts, Runs, Socks
<1>16. Stops'
  BY <1>1, <1>2, <1>9, <1>3, <1>7, <1>8 DEF TypeOK, Stops, Phase, Queued, Runs
<1>17. SocketsOwned'
  BY <1>1, <1>9 DEF TypeOK, SocketsOwned, Phase, Queued, Counted, StartsDue, Runs,
     Socks
<1>18. ConnectionCurrent'
  BY <1>1, <1>9 DEF TypeOK, ConnectionCurrent, Phase, Queued, Downs, Closing, Runs,
     Socks
<1>19. Closing'
  BY <1>1, <1>9 DEF TypeOK, Closing, Phase, Queued, Downs, Runs, Socks
<1>20. Shuts'
  BY <1>1, <1>2, <1>9, <1>3, <1>7, <1>8 DEF TypeOK, Shuts, Phase, Queued, Downs,
     ConnectionCurrent, Runs, Socks
<1> QED BY <1>10, <1>11, <1>12, <1>13, <1>14, <1>15, <1>16, <1>17, <1>18, <1>19, <1>20 DEF IInv, Alright

\* stop() on the loop thread.
LEMMA StopOnLoopInv ==
  ASSUME IInv, stopOnLoop
  PROVE  IInv'
<1> USE ClientConstants
<1>1. TypeOK /\ Counted /\ Runs /\ Phase /\ Queued /\ Downs /\ Stops /\ SocketsOwned
      /\ ConnectionCurrent /\ Closing /\ Shuts
  BY DEF IInv, Alright, Runs, stopOnLoop
<1>2. tasks \in Seq(Functors) /\ Count(tasks) \in Nat /\ Len(tasks) \in Nat
  BY <1>1, TasksType
<1> PICK name \in Names : name = "stop"
  BY DEF Names
<1>3. Longer(tasks, tasks', name, starts)
  <2>1. starts \in 0..MaxStarts
    BY <1>1 DEF TypeOK, Socks, Names
  <2>2. Longer(tasks, Append(tasks, <<name, starts>>), name, starts)
    BY <1>2, <2>1, PutIs
  <2>3. tasks' = Append(tasks, <<name, starts>>)
    BY <1>1 DEF stopOnLoop
  <2> QED BY <2>2, <2>3
<1>9. /\ stops < MaxStops /\ stops' = stops + 1 /\ connected_' = FALSE /\ name = "stop"
      /\ tasks' \in Seq(Functors)
      /\ UNCHANGED <<state_, channel_, registered, sock, made, connection_, conn,
                     closes, handed, closing, batch, pc, call, target, starts,
                     stopped, alive, rebound, failed>>
  BY <1>1, <1>2, <1>3 DEF stopOnLoop, Longer, connector, sockets, client, loop, user, object
<1>10. TypeOK'
  <2>1. (connected_ \in BOOLEAN /\ stopped \in BOOLEAN /\ alive \in BOOLEAN /\ rebound \in BOOLEAN)'
    BY <1>1, <1>9 DEF TypeOK
  <2>2. (tasks \in Seq(Names \X (0..MaxStarts)) /\ batch \in 0..Len(tasks))'
    BY <1>1, <1>2, <1>9, <1>3 DEF TypeOK, Functors, Longer
  <2>3. (sock \in [Socks -> {"none", "syn", "up", "refused", "closed"}] /\ made \in 0..MaxStarts)'
    BY <1>1, <1>9 DEF TypeOK, Socks, Phase
  <2>4. (conn \in [Socks -> {"none", "up", "fin", "down", "gone"}] /\ closes \in [Socks -> 0..MaxCloses])'
    BY <1>1, <1>9 DEF TypeOK, Socks
  <2>5. (handed \in [Socks -> {"no", "up", "closed"}])'
    BY <1>1, <1>9 DEF TypeOK, Socks, Phase
  <2>6. (state_ \in {"kDisconnected", "kConnecting", "kConnected"} /\ channel_ \in 0..MaxStarts)'
    BY <1>1, <1>9 DEF TypeOK, Socks
  <2>7. (registered \in SUBSET Socks /\ connection_ \in 0..MaxStarts)'
    BY <1>1, <1>9 DEF TypeOK, Socks
  <2>8. (starts \in 0..MaxStarts /\ stops \in 0..MaxStops)'
    BY <1>1, <1>9 DEF TypeOK
  <2>9. (closing \in 0..MaxStarts /\ target \in 0..MaxStarts)'
    BY <1>1, <1>9 DEF TypeOK, Socks
  <2> QED
    BY <1>1, <1>9, <2>1, <2>2, <2>3, <2>4, <2>5, <2>6, <2>7, <2>8, <2>9
       DEF TypeOK, Names, Runs
<1>11. Counted'
  BY <1>1, <1>2, <1>9, <1>3 DEF TypeOK, Counted, StartsDue, Longer
<1>12. AssertionsHold'
  BY <1>1, <1>2, <1>9, <1>3 DEF TypeOK, AssertionsHold, Counted, StartsDue, Phase,
     Queued, Downs, ConnectionCurrent, Closing, Runs, Socks, Longer
<1>13. Phase'
  BY <1>1, <1>9 DEF TypeOK, Phase, Counted, StartsDue, Runs, Socks
<1>14. Queued'
  BY <1>1, <1>2, <1>9, <1>3 DEF TypeOK, Phase, Queued, Counted, StartsDue,
     ConnectionCurrent, Closing, Runs, Socks, Longer
<1>15. Downs'
  BY <1>1, <1>9 DEF TypeOK, Downs, Phase, Shuts, Runs, Socks
<1>16. Stops'
  BY <1>1, <1>2, <1>9, <1>3 DEF TypeOK, Stops, Phase, Queued, Runs, Longer
<1>17. SocketsOwned'
  BY <1>1, <1>9 DEF TypeOK, SocketsOwned, Phase, Queued, Counted, StartsDue, Runs,
     Socks
<1>18. ConnectionCurrent'
  BY <1>1, <1>9 DEF TypeOK, ConnectionCurrent, Phase, Queued, Downs, Closing, Runs,
     Socks
<1>19. Closing'
  BY <1>1, <1>9 DEF TypeOK, Closing, Phase, Queued, Downs, Runs, Socks
<1>20. Shuts'
  BY <1>1, <1>2, <1>9, <1>3 DEF TypeOK, Shuts, Phase, Queued, Downs,
     ConnectionCurrent, Runs, Socks, Longer
<1> QED BY <1>10, <1>11, <1>12, <1>13, <1>14, <1>15, <1>16, <1>17, <1>18, <1>19, <1>20 DEF IInv, Alright

\* ~TcpClient with a connection.
LEMMA DestroyWithConnection ==
  ASSUME IInv, connection_ # 0, Destroy
  PROVE  IInv'
<1> USE ClientConstants
<1>1. TypeOK /\ Counted /\ Runs /\ Phase /\ Queued /\ Downs /\ Stops /\ SocketsOwned
      /\ ConnectionCurrent /\ Closing /\ Shuts
  BY DEF IInv, Alright, Runs, Destroy
<1>2. tasks \in Seq(Functors) /\ Count(tasks) \in Nat /\ Len(tasks) \in Nat
  BY <1>1, TasksType
<1> PICK name \in Names : name = "rebind"
  BY DEF Names
<1>3. Longer(tasks, tasks', name, connection_)
  <2>1. connection_ \in 0..MaxStarts
    BY <1>1 DEF TypeOK, Socks, Names
  <2>2. Longer(tasks, Append(tasks, <<name, connection_>>), name, connection_)
    BY <1>2, <2>1, PutIs
  <2>3. tasks' = Append(tasks, <<name, connection_>>)
    BY <1>1 DEF Destroy
  <2> QED BY <2>2, <2>3
<1>9. /\ alive' = FALSE /\ name = "rebind" /\ tasks' \in Seq(Functors) /\ call = "none"
      /\ pc = "write" => channel_' = channel_ /\ failed' = failed
      /\ pc # "write" => channel_' = 0
      /\ pc # "write" => failed' = IF channel_ \in registered THEN "~Channel" ELSE failed
      /\ UNCHANGED <<connected_, state_, registered, sock, made, connection_, conn,
                     closes, handed, closing, batch, pc, call, target, starts, stops,
                     stopped, rebound>>
  BY <1>1, <1>2, <1>3 DEF Destroy, Guarded, Longer, connector, sockets, client, loop, user, object
<1>10. TypeOK'
  <2>1. (connected_ \in BOOLEAN /\ stopped \in BOOLEAN /\ alive \in BOOLEAN /\ rebound \in BOOLEAN)'
    BY <1>1, <1>9 DEF TypeOK
  <2>2. (tasks \in Seq(Names \X (0..MaxStarts)) /\ batch \in 0..Len(tasks))'
    BY <1>1, <1>2, <1>9, <1>3 DEF TypeOK, Functors, Longer
  <2>3. (sock \in [Socks -> {"none", "syn", "up", "refused", "closed"}] /\ made \in 0..MaxStarts)'
    BY <1>1, <1>9 DEF TypeOK, Socks, Phase
  <2>4. (conn \in [Socks -> {"none", "up", "fin", "down", "gone"}] /\ closes \in [Socks -> 0..MaxCloses])'
    BY <1>1, <1>9 DEF TypeOK, Socks
  <2>5. (handed \in [Socks -> {"no", "up", "closed"}])'
    BY <1>1, <1>9 DEF TypeOK, Socks, Phase
  <2>6. (state_ \in {"kDisconnected", "kConnecting", "kConnected"} /\ channel_ \in 0..MaxStarts)'
    BY <1>1, <1>9 DEF TypeOK, Socks
  <2>7. (registered \in SUBSET Socks /\ connection_ \in 0..MaxStarts)'
    BY <1>1, <1>9 DEF TypeOK, Socks
  <2>8. (starts \in 0..MaxStarts /\ stops \in 0..MaxStops)'
    BY <1>1, <1>9 DEF TypeOK
  <2>9. (closing \in 0..MaxStarts /\ target \in 0..MaxStarts)'
    BY <1>1, <1>9 DEF TypeOK, Socks
  <2> QED
    BY <1>1, <1>9, <2>1, <2>2, <2>3, <2>4, <2>5, <2>6, <2>7, <2>8, <2>9
       DEF TypeOK, Names, Runs
<1>11. Counted'
  BY <1>1, <1>2, <1>9, <1>3 DEF TypeOK, Counted, StartsDue, Longer
<1>12. AssertionsHold'
  BY <1>1, <1>2, <1>9, <1>3 DEF TypeOK, AssertionsHold, Counted, StartsDue, Phase,
     Queued, Downs, ConnectionCurrent, Closing, Runs, Socks, Longer
<1>13. Phase'
  BY <1>1, <1>9 DEF TypeOK, Phase, Counted, StartsDue, Runs, Socks
<1>14. Queued'
  BY <1>1, <1>2, <1>9, <1>3 DEF TypeOK, Phase, Queued, Counted, StartsDue,
     ConnectionCurrent, Closing, Runs, Socks, Longer
<1>15. Downs'
  BY <1>1, <1>9 DEF TypeOK, Downs, Phase, Shuts, Runs, Socks
<1>16. Stops'
  BY <1>1, <1>2, <1>9, <1>3 DEF TypeOK, Stops, Phase, Queued, Runs, Longer
<1>17. SocketsOwned'
  BY <1>1, <1>9 DEF TypeOK, SocketsOwned, Phase, Queued, Counted, StartsDue, Runs,
     Socks
<1>18. ConnectionCurrent'
  BY <1>1, <1>9 DEF TypeOK, ConnectionCurrent, Phase, Queued, Downs, Closing, Runs,
     Socks
<1>19. Closing'
  BY <1>1, <1>9 DEF TypeOK, Closing, Phase, Queued, Downs, Runs, Socks
<1>20. Shuts'
  BY <1>1, <1>2, <1>9, <1>3 DEF TypeOK, Shuts, Phase, Queued, Downs,
     ConnectionCurrent, Runs, Socks, Longer
<1> QED BY <1>10, <1>11, <1>12, <1>13, <1>14, <1>15, <1>16, <1>17, <1>18, <1>19, <1>20 DEF IInv, Alright

\* ~TcpClient without one.
LEMMA DestroyWithout ==
  ASSUME IInv, connection_ = 0, Destroy
  PROVE  IInv'
<1> USE ClientConstants
<1>1. TypeOK /\ Counted /\ Runs /\ Phase /\ Queued /\ Downs /\ Stops /\ SocketsOwned
      /\ ConnectionCurrent /\ Closing /\ Shuts
  BY DEF IInv, Alright, Runs, Destroy
<1>2. tasks \in Seq(Functors) /\ Count(tasks) \in Nat /\ Len(tasks) \in Nat
  BY <1>1, TasksType
<1> PICK name \in Names : name = "stop"
  BY DEF Names
<1>3. Longer(tasks, tasks', name, starts)
  <2>1. starts \in 0..MaxStarts
    BY <1>1 DEF TypeOK, Socks, Names
  <2>2. Longer(tasks, Append(tasks, <<name, starts>>), name, starts)
    BY <1>2, <2>1, PutIs
  <2>3. tasks' = Append(tasks, <<name, starts>>)
    BY <1>1 DEF Destroy
  <2> QED BY <2>2, <2>3
<1>9. /\ alive' = FALSE /\ name = "stop" /\ connected_' = FALSE
      /\ tasks' \in Seq(Functors) /\ call = "none"
      /\ pc = "write" => channel_' = channel_ /\ failed' = failed
      /\ pc # "write" => channel_' = 0
      /\ pc # "write" => failed' = IF channel_ \in registered THEN "~Channel" ELSE failed
      /\ UNCHANGED <<state_, registered, sock, made, connection_, conn, closes,
                     handed, closing, batch, pc, call, target, starts, stops, stopped,
                     rebound>>
  BY <1>1, <1>2, <1>3 DEF Destroy, Guarded, Longer, connector, sockets, client, loop, user, object
<1>10. TypeOK'
  <2>1. (connected_ \in BOOLEAN /\ stopped \in BOOLEAN /\ alive \in BOOLEAN /\ rebound \in BOOLEAN)'
    BY <1>1, <1>9 DEF TypeOK
  <2>2. (tasks \in Seq(Names \X (0..MaxStarts)) /\ batch \in 0..Len(tasks))'
    BY <1>1, <1>2, <1>9, <1>3 DEF TypeOK, Functors, Longer
  <2>3. (sock \in [Socks -> {"none", "syn", "up", "refused", "closed"}] /\ made \in 0..MaxStarts)'
    BY <1>1, <1>9 DEF TypeOK, Socks, Phase
  <2>4. (conn \in [Socks -> {"none", "up", "fin", "down", "gone"}] /\ closes \in [Socks -> 0..MaxCloses])'
    BY <1>1, <1>9 DEF TypeOK, Socks
  <2>5. (handed \in [Socks -> {"no", "up", "closed"}])'
    BY <1>1, <1>9 DEF TypeOK, Socks, Phase
  <2>6. (state_ \in {"kDisconnected", "kConnecting", "kConnected"} /\ channel_ \in 0..MaxStarts)'
    BY <1>1, <1>9 DEF TypeOK, Socks
  <2>7. (registered \in SUBSET Socks /\ connection_ \in 0..MaxStarts)'
    BY <1>1, <1>9 DEF TypeOK, Socks
  <2>8. (starts \in 0..MaxStarts /\ stops \in 0..MaxStops)'
    BY <1>1, <1>9 DEF TypeOK
  <2>9. (closing \in 0..MaxStarts /\ target \in 0..MaxStarts)'
    BY <1>1, <1>9 DEF TypeOK, Socks
  <2> QED
    BY <1>1, <1>9, <2>1, <2>2, <2>3, <2>4, <2>5, <2>6, <2>7, <2>8, <2>9
       DEF TypeOK, Names, Runs
<1>11. Counted'
  BY <1>1, <1>2, <1>9, <1>3 DEF TypeOK, Counted, StartsDue, Longer
<1>12. AssertionsHold'
  BY <1>1, <1>2, <1>9, <1>3 DEF TypeOK, AssertionsHold, Counted, StartsDue, Phase,
     Queued, Downs, ConnectionCurrent, Closing, Runs, Socks, Longer
<1>13. Phase'
  BY <1>1, <1>9 DEF TypeOK, Phase, Counted, StartsDue, Runs, Socks
<1>14. Queued'
  BY <1>1, <1>2, <1>9, <1>3 DEF TypeOK, Phase, Queued, Counted, StartsDue,
     ConnectionCurrent, Closing, Runs, Socks, Longer
<1>15. Downs'
  BY <1>1, <1>9 DEF TypeOK, Downs, Phase, Shuts, Runs, Socks
<1>16. Stops'
  BY <1>1, <1>2, <1>9, <1>3 DEF TypeOK, Stops, Phase, Queued, Runs, Longer
<1>17. SocketsOwned'
  BY <1>1, <1>9 DEF TypeOK, SocketsOwned, Phase, Queued, Counted, StartsDue, Runs,
     Socks
<1>18. ConnectionCurrent'
  BY <1>1, <1>9 DEF TypeOK, ConnectionCurrent, Phase, Queued, Downs, Closing, Runs,
     Socks
<1>19. Closing'
  BY <1>1, <1>9 DEF TypeOK, Closing, Phase, Queued, Downs, Runs, Socks
<1>20. Shuts'
  BY <1>1, <1>2, <1>9, <1>3 DEF TypeOK, Shuts, Phase, Queued, Downs,
     ConnectionCurrent, Runs, Socks, Longer
<1> QED BY <1>10, <1>11, <1>12, <1>13, <1>14, <1>15, <1>16, <1>17, <1>18, <1>19, <1>20 DEF IInv, Alright

\* The network answers.
LEMMA AnswerInv ==
  ASSUME IInv, NEW s \in Socks, Answer(s)
  PROVE  IInv'
<1> USE ClientConstants
<1>1. TypeOK /\ Counted /\ Runs /\ Phase /\ Queued /\ Downs /\ Stops /\ SocketsOwned
      /\ ConnectionCurrent /\ Closing /\ Shuts
  BY DEF IInv, Alright, Runs, Answer
<1>2. tasks \in Seq(Functors) /\ Count(tasks) \in Nat /\ Len(tasks) \in Nat
  BY <1>1, TasksType
<1>3. PICK answer \in {"up", "refused"} : sock' = [sock EXCEPT ![s] = answer]
  BY DEF Answer
<1>9. /\ sock[s] = "syn" /\ sock' = [sock EXCEPT ![s] = answer]
      /\ UNCHANGED <<connected_, state_, channel_, registered, made, connection_,
                     conn, closes, handed, closing, tasks, batch, pc, call, target,
                     starts, stops, stopped, alive, rebound, failed>>
  BY <1>1, <1>2, <1>3 DEF Answer, connector, sockets, client, loop, user, object
<1>10. TypeOK'
  <2>1. (connected_ \in BOOLEAN /\ stopped \in BOOLEAN /\ alive \in BOOLEAN /\ rebound \in BOOLEAN)'
    BY <1>1, <1>9 DEF TypeOK
  <2>2. (tasks \in Seq(Names \X (0..MaxStarts)) /\ batch \in 0..Len(tasks))'
    BY <1>1, <1>2, <1>9, <1>3 DEF TypeOK, Functors
  <2>3. (sock \in [Socks -> {"none", "syn", "up", "refused", "closed"}] /\ made \in 0..MaxStarts)'
    BY <1>1, <1>9 DEF TypeOK, Socks, Phase
  <2>4. (conn \in [Socks -> {"none", "up", "fin", "down", "gone"}] /\ closes \in [Socks -> 0..MaxCloses])'
    BY <1>1, <1>9 DEF TypeOK, Socks
  <2>5. (handed \in [Socks -> {"no", "up", "closed"}])'
    BY <1>1, <1>9 DEF TypeOK, Socks, Phase
  <2>6. (state_ \in {"kDisconnected", "kConnecting", "kConnected"} /\ channel_ \in 0..MaxStarts)'
    BY <1>1, <1>9 DEF TypeOK, Socks
  <2>7. (registered \in SUBSET Socks /\ connection_ \in 0..MaxStarts)'
    BY <1>1, <1>9 DEF TypeOK, Socks
  <2>8. (starts \in 0..MaxStarts /\ stops \in 0..MaxStops)'
    BY <1>1, <1>9 DEF TypeOK
  <2>9. (closing \in 0..MaxStarts /\ target \in 0..MaxStarts)'
    BY <1>1, <1>9 DEF TypeOK, Socks
  <2> QED
    BY <1>1, <1>9, <2>1, <2>2, <2>3, <2>4, <2>5, <2>6, <2>7, <2>8, <2>9
       DEF TypeOK, Names, Runs
<1>11. Counted'
  BY <1>1, <1>2, <1>9, <1>3 DEF TypeOK, Counted, StartsDue
<1>12. AssertionsHold'
  BY <1>1, <1>2, <1>9, <1>3 DEF TypeOK, AssertionsHold, Counted, StartsDue, Phase,
     Queued, Downs, ConnectionCurrent, Closing, Runs, Socks
<1>13. Phase'
  BY <1>1, <1>9 DEF TypeOK, Phase, Counted, StartsDue, Runs, Socks
<1>14. Queued'
  BY <1>1, <1>2, <1>9, <1>3 DEF TypeOK, Phase, Queued, Counted, StartsDue,
     ConnectionCurrent, Closing, Runs, Socks
<1>15. Downs'
  BY <1>1, <1>9 DEF TypeOK, Downs, Phase, Shuts, Runs, Socks
<1>16. Stops'
  BY <1>1, <1>2, <1>9, <1>3 DEF TypeOK, Stops, Phase, Queued, Runs
<1>17. SocketsOwned'
  BY <1>1, <1>9 DEF TypeOK, SocketsOwned, Phase, Queued, Counted, StartsDue, Runs,
     Socks
<1>18. ConnectionCurrent'
  BY <1>1, <1>9 DEF TypeOK, ConnectionCurrent, Phase, Queued, Downs, Closing, Runs,
     Socks
<1>19. Closing'
  BY <1>1, <1>9 DEF TypeOK, Closing, Phase, Queued, Downs, Runs, Socks
<1>20. Shuts'
  BY <1>1, <1>2, <1>9, <1>3 DEF TypeOK, Shuts, Phase, Queued, Downs,
     ConnectionCurrent, Runs, Socks
<1> QED BY <1>10, <1>11, <1>12, <1>13, <1>14, <1>15, <1>16, <1>17, <1>18, <1>19, <1>20 DEF IInv, Alright

\* EPOLLERR.
LEMMA HandleErrorInv ==
  ASSUME IInv, handleError
  PROVE  IInv'
<1> USE ClientConstants
<1>1. TypeOK /\ Counted /\ Runs /\ Phase /\ Queued /\ Downs /\ Stops /\ SocketsOwned
      /\ ConnectionCurrent /\ Closing /\ Shuts
  BY DEF IInv, Alright, Runs, handleError, getSocket, Released, Closed
<1>2. tasks \in Seq(Functors) /\ Count(tasks) \in Nat /\ Len(tasks) \in Nat
  BY <1>1, TasksType
<1> PICK name \in Names : name = "reset"
  BY DEF Names
<1>3. Longer(tasks, tasks', name, 0)
  <2>1. 0 \in 0..MaxStarts
    BY <1>1 DEF TypeOK, Socks, Names
  <2>2. Longer(tasks, Append(tasks, <<name, 0>>), name, 0)
    BY <1>2, <2>1, PutIs
  <2>3. tasks' = Append(tasks, <<name, 0>>)
    BY <1>1 DEF handleError, getSocket
  <2> QED BY <2>2, <2>3
<1>9. /\ name = "reset" /\ tasks' \in Seq(Functors)
      /\ alive /\ pc = "poll" /\ channel_ \in registered /\ state_ = "kConnecting"
      /\ registered' = registered \ {channel_}
      /\ sock' = [sock EXCEPT ![channel_] = "closed"]
      /\ pc' = "write"
      /\ UNCHANGED <<connected_, state_, channel_, made, connection_, conn, closes,
                     handed, closing, batch, call, target, starts, stops, stopped,
                     alive, rebound, failed>>
  BY <1>1, <1>2, <1>3 DEF handleError, getSocket, Released, Closed, Longer, connector,
     sockets, client, loop, user, object
<1>10. TypeOK'
  <2>1. (connected_ \in BOOLEAN /\ stopped \in BOOLEAN /\ alive \in BOOLEAN /\ rebound \in BOOLEAN)'
    BY <1>1, <1>9 DEF TypeOK
  <2>2. (tasks \in Seq(Names \X (0..MaxStarts)) /\ batch \in 0..Len(tasks))'
    BY <1>1, <1>2, <1>9, <1>3 DEF TypeOK, Functors, Longer
  <2>3. (sock \in [Socks -> {"none", "syn", "up", "refused", "closed"}] /\ made \in 0..MaxStarts)'
    BY <1>1, <1>9 DEF TypeOK, Socks, Phase
  <2>4. (conn \in [Socks -> {"none", "up", "fin", "down", "gone"}] /\ closes \in [Socks -> 0..MaxCloses])'
    BY <1>1, <1>9 DEF TypeOK, Socks
  <2>5. (handed \in [Socks -> {"no", "up", "closed"}])'
    BY <1>1, <1>9 DEF TypeOK, Socks, Phase
  <2>6. (state_ \in {"kDisconnected", "kConnecting", "kConnected"} /\ channel_ \in 0..MaxStarts)'
    BY <1>1, <1>9 DEF TypeOK, Socks
  <2>7. (registered \in SUBSET Socks /\ connection_ \in 0..MaxStarts)'
    BY <1>1, <1>9 DEF TypeOK, Socks
  <2>8. (starts \in 0..MaxStarts /\ stops \in 0..MaxStops)'
    BY <1>1, <1>9 DEF TypeOK
  <2>9. (closing \in 0..MaxStarts /\ target \in 0..MaxStarts)'
    BY <1>1, <1>9 DEF TypeOK, Socks
  <2> QED
    BY <1>1, <1>9, <2>1, <2>2, <2>3, <2>4, <2>5, <2>6, <2>7, <2>8, <2>9
       DEF TypeOK, Names, Runs
<1>11. Counted'
  BY <1>1, <1>2, <1>9, <1>3 DEF TypeOK, Counted, StartsDue, Longer
<1>12. AssertionsHold'
  BY <1>1, <1>2, <1>9, <1>3 DEF TypeOK, AssertionsHold, Counted, StartsDue, Phase,
     Queued, Downs, ConnectionCurrent, Closing, Runs, Socks, Longer
<1>13. Phase'
  BY <1>1, <1>9 DEF TypeOK, Phase, Counted, StartsDue, Runs, Socks
<1>14. Queued'
  BY <1>1, <1>2, <1>9, <1>3 DEF TypeOK, Phase, Queued, Counted, StartsDue,
     ConnectionCurrent, Closing, Runs, Socks, Longer
<1>15. Downs'
  BY <1>1, <1>9 DEF TypeOK, Downs, Phase, Shuts, Runs, Socks
<1>16. Stops'
  BY <1>1, <1>2, <1>9, <1>3 DEF TypeOK, Stops, Phase, Queued, Runs, Longer
<1>17. SocketsOwned'
  BY <1>1, <1>9 DEF TypeOK, SocketsOwned, Phase, Queued, Counted, StartsDue, Runs,
     Socks
<1>18. ConnectionCurrent'
  BY <1>1, <1>9 DEF TypeOK, ConnectionCurrent, Phase, Queued, Downs, Closing, Runs,
     Socks
<1>19. Closing'
  BY <1>1, <1>9 DEF TypeOK, Closing, Phase, Queued, Downs, Runs, Socks
<1>20. Shuts'
  BY <1>1, <1>2, <1>9, <1>3 DEF TypeOK, Shuts, Phase, Queued, Downs,
     ConnectionCurrent, Runs, Socks, Longer
<1> QED BY <1>10, <1>11, <1>12, <1>13, <1>14, <1>15, <1>16, <1>17, <1>18, <1>19, <1>20 DEF IInv, Alright

\* EPOLLOUT, the TcpClient being gone.
LEMMA HandleWriteGone ==
  ASSUME IInv, ~alive, handleWrite
  PROVE  IInv'
<1> USE ClientConstants
<1>1. TypeOK /\ Counted /\ Runs /\ Phase /\ Queued /\ Downs /\ Stops /\ SocketsOwned
      /\ ConnectionCurrent /\ Closing /\ Shuts
  BY DEF IInv, Alright, Runs, handleWrite, getSocket, Released
<1>2. tasks \in Seq(Functors) /\ Count(tasks) \in Nat /\ Len(tasks) \in Nat
  BY <1>1, TasksType
<1> PICK name \in Names : name = "reset"
  BY DEF Names
<1>3. Longer(tasks, tasks', name, 0)
  <2>1. 0 \in 0..MaxStarts
    BY <1>1 DEF TypeOK, Socks, Names
  <2>2. Longer(tasks, Append(tasks, <<name, 0>>), name, 0)
    BY <1>2, <2>1, PutIs
  <2>3. tasks' = Append(tasks, <<name, 0>>)
    BY <1>1 DEF handleWrite, getSocket
  <2> QED BY <2>2, <2>3
<1>9. /\ name = "reset" /\ tasks' \in Seq(Functors)
      /\ ~alive /\ state_' = "kConnected" /\ registered' = registered \ {channel_}
      /\ failed' = "~TcpClient" /\ pc' = "poll"
      /\ UNCHANGED <<connected_, channel_, sock, made, connection_, conn, closes,
                     handed, closing, batch, call, target, starts, stops, stopped,
                     alive, rebound>>
  BY <1>1, <1>2, <1>3 DEF handleWrite, getSocket, Released, Longer, connector, sockets,
     client, loop, user, object
<1>10. TypeOK'
  <2>1. (connected_ \in BOOLEAN /\ stopped \in BOOLEAN /\ alive \in BOOLEAN /\ rebound \in BOOLEAN)'
    BY <1>1, <1>9 DEF TypeOK
  <2>2. (tasks \in Seq(Names \X (0..MaxStarts)) /\ batch \in 0..Len(tasks))'
    BY <1>1, <1>2, <1>9, <1>3 DEF TypeOK, Functors, Longer
  <2>3. (sock \in [Socks -> {"none", "syn", "up", "refused", "closed"}] /\ made \in 0..MaxStarts)'
    BY <1>1, <1>9 DEF TypeOK, Socks, Phase
  <2>4. (conn \in [Socks -> {"none", "up", "fin", "down", "gone"}] /\ closes \in [Socks -> 0..MaxCloses])'
    BY <1>1, <1>9 DEF TypeOK, Socks
  <2>5. (handed \in [Socks -> {"no", "up", "closed"}])'
    BY <1>1, <1>9 DEF TypeOK, Socks, Phase
  <2>6. (state_ \in {"kDisconnected", "kConnecting", "kConnected"} /\ channel_ \in 0..MaxStarts)'
    BY <1>1, <1>9 DEF TypeOK, Socks
  <2>7. (registered \in SUBSET Socks /\ connection_ \in 0..MaxStarts)'
    BY <1>1, <1>9 DEF TypeOK, Socks
  <2>8. (starts \in 0..MaxStarts /\ stops \in 0..MaxStops)'
    BY <1>1, <1>9 DEF TypeOK
  <2>9. (closing \in 0..MaxStarts /\ target \in 0..MaxStarts)'
    BY <1>1, <1>9 DEF TypeOK, Socks
  <2> QED
    BY <1>1, <1>9, <2>1, <2>2, <2>3, <2>4, <2>5, <2>6, <2>7, <2>8, <2>9
       DEF TypeOK, Names, Runs
<1>11. Counted'
  BY <1>1, <1>2, <1>9, <1>3 DEF TypeOK, Counted, StartsDue, Longer
<1>12. AssertionsHold'
  BY <1>1, <1>2, <1>9, <1>3 DEF TypeOK, AssertionsHold, Counted, StartsDue, Phase,
     Queued, Downs, ConnectionCurrent, Closing, Runs, Socks, Longer
<1> QED BY <1>9, <1>10, <1>11, <1>12 DEF IInv, Alright, Runs

\* EPOLLOUT.
LEMMA HandleWriteInv ==
  ASSUME IInv, alive, handleWrite
  PROVE  IInv'
<1> USE ClientConstants
<1>1. TypeOK /\ Counted /\ Runs /\ Phase /\ Queued /\ Downs /\ Stops /\ SocketsOwned
      /\ ConnectionCurrent /\ Closing /\ Shuts
  BY DEF IInv, Alright, Runs, handleWrite, getSocket, Released
<1>2. tasks \in Seq(Functors) /\ Count(tasks) \in Nat /\ Len(tasks) \in Nat
  BY <1>1, TasksType
<1> PICK name \in Names : name = "reset"
  BY DEF Names
<1>3. Longer(tasks, tasks', name, 0)
  <2>1. 0 \in 0..MaxStarts
    BY <1>1 DEF TypeOK, Socks, Names
  <2>2. Longer(tasks, Append(tasks, <<name, 0>>), name, 0)
    BY <1>2, <2>1, PutIs
  <2>3. tasks' = Append(tasks, <<name, 0>>)
    BY <1>1 DEF handleWrite, getSocket
  <2> QED BY <2>2, <2>3
<1>9. /\ name = "reset" /\ tasks' \in Seq(Functors)
      /\ alive /\ state_ = "kConnecting"
      /\ (pc = "poll" /\ channel_ \in registered /\ sock[channel_] = "up") \/ pc = "write"
      /\ state_' = "kConnected" /\ registered' = registered \ {channel_}
      /\ handed' = [handed EXCEPT ![channel_] = sock[channel_]]
      /\ connection_' = channel_ /\ conn' = [conn EXCEPT ![channel_] = "up"]
      /\ pc' = "poll"
      /\ UNCHANGED <<connected_, channel_, sock, made, closes, closing, batch, call,
                     target, starts, stops, stopped, alive, rebound, failed>>
  BY <1>1, <1>2, <1>3 DEF handleWrite, getSocket, Released, onNewConnection, Guarded, Longer, connector, sockets,
     client, loop, user, object
<1>10. TypeOK'
  <2>1. (connected_ \in BOOLEAN /\ stopped \in BOOLEAN /\ alive \in BOOLEAN /\ rebound \in BOOLEAN)'
    BY <1>1, <1>9 DEF TypeOK
  <2>2. (tasks \in Seq(Names \X (0..MaxStarts)) /\ batch \in 0..Len(tasks))'
    BY <1>1, <1>2, <1>9, <1>3 DEF TypeOK, Functors, Longer
  <2>3. (sock \in [Socks -> {"none", "syn", "up", "refused", "closed"}] /\ made \in 0..MaxStarts)'
    BY <1>1, <1>9 DEF TypeOK, Socks, Phase
  <2>4. (conn \in [Socks -> {"none", "up", "fin", "down", "gone"}] /\ closes \in [Socks -> 0..MaxCloses])'
    BY <1>1, <1>9 DEF TypeOK, Socks
  <2>5. (handed \in [Socks -> {"no", "up", "closed"}])'
    BY <1>1, <1>9 DEF TypeOK, Socks, Phase
  <2>6. (state_ \in {"kDisconnected", "kConnecting", "kConnected"} /\ channel_ \in 0..MaxStarts)'
    BY <1>1, <1>9 DEF TypeOK, Socks
  <2>7. (registered \in SUBSET Socks /\ connection_ \in 0..MaxStarts)'
    BY <1>1, <1>9 DEF TypeOK, Socks
  <2>8. (starts \in 0..MaxStarts /\ stops \in 0..MaxStops)'
    BY <1>1, <1>9 DEF TypeOK
  <2>9. (closing \in 0..MaxStarts /\ target \in 0..MaxStarts)'
    BY <1>1, <1>9 DEF TypeOK, Socks
  <2> QED
    BY <1>1, <1>9, <2>1, <2>2, <2>3, <2>4, <2>5, <2>6, <2>7, <2>8, <2>9
       DEF TypeOK, Names, Runs
<1>11. Counted'
  BY <1>1, <1>2, <1>9, <1>3 DEF TypeOK, Counted, StartsDue, Longer
<1>12. AssertionsHold'
  BY <1>1, <1>2, <1>9, <1>3 DEF TypeOK, AssertionsHold, Counted, StartsDue, Phase,
     Queued, Downs, ConnectionCurrent, Closing, Runs, Socks, Longer
<1>13. Phase'
  BY <1>1, <1>9 DEF TypeOK, Phase, Counted, StartsDue, Runs, Socks
<1>14. Queued'
  BY <1>1, <1>2, <1>9, <1>3 DEF TypeOK, Phase, Queued, Counted, StartsDue,
     ConnectionCurrent, Closing, Runs, Socks, Longer
<1>15. Downs'
  BY <1>1, <1>9 DEF TypeOK, Downs, Phase, Shuts, Runs, Socks
<1>16. Stops'
  BY <1>1, <1>2, <1>9, <1>3 DEF TypeOK, Stops, Phase, Queued, Runs, Longer
<1>17. SocketsOwned'
  BY <1>1, <1>9 DEF TypeOK, SocketsOwned, Phase, Queued, Counted, StartsDue, Runs,
     Socks
<1>18. ConnectionCurrent'
  BY <1>1, <1>9 DEF TypeOK, ConnectionCurrent, Phase, Queued, Downs, Closing, Runs,
     Socks
<1>19. Closing'
  BY <1>1, <1>9 DEF TypeOK, Closing, Phase, Queued, Downs, Runs, Socks
<1>20. Shuts'
  BY <1>1, <1>2, <1>9, <1>3 DEF TypeOK, Shuts, Phase, Queued, Downs,
     ConnectionCurrent, Runs, Socks, Longer
<1> QED BY <1>10, <1>11, <1>12, <1>13, <1>14, <1>15, <1>16, <1>17, <1>18, <1>19, <1>20 DEF IInv, Alright

\* A connection closes, up to the end of its connection callback.
LEMMA HandleCloseInv ==
  ASSUME IInv, NEW s \in Socks, handleClose(s)
  PROVE  IInv'
<1> USE ClientConstants
<1>1. TypeOK /\ Counted /\ Runs /\ Phase /\ Queued /\ Downs /\ Stops /\ SocketsOwned
      /\ ConnectionCurrent /\ Closing /\ Shuts
  BY DEF IInv, Alright, Runs, handleClose
<1>2. tasks \in Seq(Functors) /\ Count(tasks) \in Nat /\ Len(tasks) \in Nat
  BY <1>1, TasksType
<1>9. /\ conn[s] \in {"up", "fin", "down"} /\ sock[s] = "up" /\ closes[s] < MaxCloses
      /\ closes' = [closes EXCEPT ![s] = @ + 1] /\ conn' = [conn EXCEPT ![s] = "down"]
      /\ pc = "poll" /\ pc' = "close" /\ closing' = s
      /\ UNCHANGED <<connected_, state_, channel_, registered, sock, made,
                     connection_, handed, tasks, batch, call, target, starts, stops,
                     stopped, alive, rebound, failed>>
  BY <1>1, <1>2 DEF handleClose, connector, sockets, client, loop, user, object
<1>10. TypeOK'
  <2>1. (connected_ \in BOOLEAN /\ stopped \in BOOLEAN /\ alive \in BOOLEAN /\ rebound \in BOOLEAN)'
    BY <1>1, <1>9 DEF TypeOK
  <2>2. (tasks \in Seq(Names \X (0..MaxStarts)) /\ batch \in 0..Len(tasks))'
    BY <1>1, <1>2, <1>9 DEF TypeOK, Functors
  <2>3. (sock \in [Socks -> {"none", "syn", "up", "refused", "closed"}] /\ made \in 0..MaxStarts)'
    BY <1>1, <1>9 DEF TypeOK, Socks, Phase
  <2>4. (conn \in [Socks -> {"none", "up", "fin", "down", "gone"}] /\ closes \in [Socks -> 0..MaxCloses])'
    BY <1>1, <1>9 DEF TypeOK, Socks
  <2>5. (handed \in [Socks -> {"no", "up", "closed"}])'
    BY <1>1, <1>9 DEF TypeOK, Socks, Phase
  <2>6. (state_ \in {"kDisconnected", "kConnecting", "kConnected"} /\ channel_ \in 0..MaxStarts)'
    BY <1>1, <1>9 DEF TypeOK, Socks
  <2>7. (registered \in SUBSET Socks /\ connection_ \in 0..MaxStarts)'
    BY <1>1, <1>9 DEF TypeOK, Socks
  <2>8. (starts \in 0..MaxStarts /\ stops \in 0..MaxStops)'
    BY <1>1, <1>9 DEF TypeOK
  <2>9. (closing \in 0..MaxStarts /\ target \in 0..MaxStarts)'
    BY <1>1, <1>9 DEF TypeOK, Socks
  <2> QED
    BY <1>1, <1>9, <2>1, <2>2, <2>3, <2>4, <2>5, <2>6, <2>7, <2>8, <2>9
       DEF TypeOK, Names, Runs
<1>11. Counted'
  BY <1>1, <1>2, <1>9 DEF TypeOK, Counted, StartsDue
<1>12. AssertionsHold'
  BY <1>1, <1>2, <1>9 DEF TypeOK, AssertionsHold, Counted, StartsDue, Phase, Queued,
     Downs, ConnectionCurrent, Closing, Runs, Socks
<1>13. Phase'
  BY <1>1, <1>9 DEF TypeOK, Phase, Counted, StartsDue, Runs, Socks
<1>14. Queued'
  <2>1. /\ HasName(tasks, "reset") => made > 0
        /\ alive /\ made <= 1 /\ HasName(tasks, "reset") => registered = {}
        /\ Numbered(tasks, starts)
    BY <1>1 DEF Queued
  <2>2. ASSUME NEW m \in Socks, DestroyIn(tasks, m) \/ conn'[m] = "gone"
        PROVE  /\ conn'[m] \in {"fin", "down", "gone"} /\ closes'[m] > 0
               /\ alive => connection_ # m
    <3>1. DestroyIn(tasks, m) \/ conn[m] = "gone"
      BY <1>1, <1>9, <2>2 DEF TypeOK
    <3>2. /\ conn[m] \in {"fin", "down", "gone"} /\ closes[m] > 0
          /\ alive => connection_ # m
      BY <1>1, <3>1 DEF Queued
    <3>3. closes[m] \in Nat
      BY <1>1 DEF TypeOK
    <3> QED BY <1>1, <1>9, <3>2, <3>3 DEF TypeOK
  <2> QED BY <1>9, <2>1, <2>2 DEF Queued
<1>15. Downs'
  BY <1>1, <1>9 DEF TypeOK, Downs, Phase, Shuts, Runs, Socks
<1>16. Stops'
  BY <1>1, <1>2, <1>9 DEF TypeOK, Stops, Phase, Queued, Runs
<1>17. SocketsOwned'
  BY <1>1, <1>9 DEF TypeOK, SocketsOwned, Phase, Queued, Counted, StartsDue, Runs,
     Socks
<1>18. ConnectionCurrent'
  BY <1>1, <1>9 DEF TypeOK, ConnectionCurrent, Phase, Queued, Downs, Closing, Runs,
     Socks
<1>19. Closing'
  BY <1>1, <1>9 DEF TypeOK, Closing, Phase, Queued, Downs, Runs, Socks
<1>20. Shuts'
  BY <1>1, <1>2, <1>9 DEF TypeOK, Shuts, Phase, Queued, Downs, ConnectionCurrent,
     Runs, Socks
<1> QED BY <1>10, <1>11, <1>12, <1>13, <1>14, <1>15, <1>16, <1>17, <1>18, <1>19, <1>20 DEF IInv, Alright

\* The connection is not the client's any more.
LEMMA CloseCallbackFails ==
  ASSUME IInv, alive, connection_ # closing, closeCallback_
  PROVE  IInv'
<1> USE ClientConstants
<1>1. TypeOK /\ Counted /\ Runs /\ Phase /\ Queued /\ Downs /\ Stops /\ SocketsOwned
      /\ ConnectionCurrent /\ Closing /\ Shuts
  BY DEF IInv, Alright, Runs, closeCallback_, onRemoveConnection
<1>2. tasks \in Seq(Functors) /\ Count(tasks) \in Nat /\ Len(tasks) \in Nat
  BY <1>1, TasksType
<1>9. /\ pc = "close" /\ pc' = "poll" /\ closing' = 0
      /\ alive /\ connection_ # closing /\ failed' = "onRemoveConnection"
      /\ UNCHANGED <<connected_, state_, channel_, registered, sock, made,
                     connection_, conn, closes, handed, tasks, batch, call, target,
                     starts, stops, stopped, alive, rebound>>
  BY <1>1, <1>2 DEF closeCallback_, onRemoveConnection, connector, sockets, client,
     loop, user, object
<1>10. TypeOK'
  <2>1. (connected_ \in BOOLEAN /\ stopped \in BOOLEAN /\ alive \in BOOLEAN /\ rebound \in BOOLEAN)'
    BY <1>1, <1>9 DEF TypeOK
  <2>2. (tasks \in Seq(Names \X (0..MaxStarts)) /\ batch \in 0..Len(tasks))'
    BY <1>1, <1>2, <1>9 DEF TypeOK, Functors
  <2>3. (sock \in [Socks -> {"none", "syn", "up", "refused", "closed"}] /\ made \in 0..MaxStarts)'
    BY <1>1, <1>9 DEF TypeOK, Socks, Phase
  <2>4. (conn \in [Socks -> {"none", "up", "fin", "down", "gone"}] /\ closes \in [Socks -> 0..MaxCloses])'
    BY <1>1, <1>9 DEF TypeOK, Socks
  <2>5. (handed \in [Socks -> {"no", "up", "closed"}])'
    BY <1>1, <1>9 DEF TypeOK, Socks, Phase
  <2>6. (state_ \in {"kDisconnected", "kConnecting", "kConnected"} /\ channel_ \in 0..MaxStarts)'
    BY <1>1, <1>9 DEF TypeOK, Socks
  <2>7. (registered \in SUBSET Socks /\ connection_ \in 0..MaxStarts)'
    BY <1>1, <1>9 DEF TypeOK, Socks
  <2>8. (starts \in 0..MaxStarts /\ stops \in 0..MaxStops)'
    BY <1>1, <1>9 DEF TypeOK
  <2>9. (closing \in 0..MaxStarts /\ target \in 0..MaxStarts)'
    BY <1>1, <1>9 DEF TypeOK, Socks
  <2> QED
    BY <1>1, <1>9, <2>1, <2>2, <2>3, <2>4, <2>5, <2>6, <2>7, <2>8, <2>9
       DEF TypeOK, Names, Runs
<1>11. Counted'
  BY <1>1, <1>2, <1>9 DEF TypeOK, Counted, StartsDue
<1>12. AssertionsHold'
  BY <1>1, <1>2, <1>9 DEF TypeOK, AssertionsHold, Counted, StartsDue, Phase, Queued,
     Downs, ConnectionCurrent, Closing, Runs, Socks
<1> QED BY <1>9, <1>10, <1>11, <1>12 DEF IInv, Alright, Runs

\* The close callback's TcpClient is gone.
LEMMA CloseCallbackGone ==
  ASSUME IInv, ~alive, ~rebound, closeCallback_
  PROVE  IInv'
<1> USE ClientConstants
<1>1. TypeOK /\ Counted /\ Runs /\ Phase /\ Queued /\ Downs /\ Stops /\ SocketsOwned
      /\ ConnectionCurrent /\ Closing /\ Shuts
  BY DEF IInv, Alright, Runs, closeCallback_, onRemoveConnection
<1>2. tasks \in Seq(Functors) /\ Count(tasks) \in Nat /\ Len(tasks) \in Nat
  BY <1>1, TasksType
<1>9. /\ pc = "close" /\ pc' = "poll" /\ closing' = 0
      /\ ~alive /\ failed' = "~TcpClient"
      /\ UNCHANGED <<connected_, state_, channel_, registered, sock, made,
                     connection_, conn, closes, handed, tasks, batch, call, target,
                     starts, stops, stopped, alive, rebound>>
  BY <1>1, <1>2 DEF closeCallback_, onRemoveConnection, connector, sockets, client,
     loop, user, object
<1>10. TypeOK'
  <2>1. (connected_ \in BOOLEAN /\ stopped \in BOOLEAN /\ alive \in BOOLEAN /\ rebound \in BOOLEAN)'
    BY <1>1, <1>9 DEF TypeOK
  <2>2. (tasks \in Seq(Names \X (0..MaxStarts)) /\ batch \in 0..Len(tasks))'
    BY <1>1, <1>2, <1>9 DEF TypeOK, Functors
  <2>3. (sock \in [Socks -> {"none", "syn", "up", "refused", "closed"}] /\ made \in 0..MaxStarts)'
    BY <1>1, <1>9 DEF TypeOK, Socks, Phase
  <2>4. (conn \in [Socks -> {"none", "up", "fin", "down", "gone"}] /\ closes \in [Socks -> 0..MaxCloses])'
    BY <1>1, <1>9 DEF TypeOK, Socks
  <2>5. (handed \in [Socks -> {"no", "up", "closed"}])'
    BY <1>1, <1>9 DEF TypeOK, Socks, Phase
  <2>6. (state_ \in {"kDisconnected", "kConnecting", "kConnected"} /\ channel_ \in 0..MaxStarts)'
    BY <1>1, <1>9 DEF TypeOK, Socks
  <2>7. (registered \in SUBSET Socks /\ connection_ \in 0..MaxStarts)'
    BY <1>1, <1>9 DEF TypeOK, Socks
  <2>8. (starts \in 0..MaxStarts /\ stops \in 0..MaxStops)'
    BY <1>1, <1>9 DEF TypeOK
  <2>9. (closing \in 0..MaxStarts /\ target \in 0..MaxStarts)'
    BY <1>1, <1>9 DEF TypeOK, Socks
  <2> QED
    BY <1>1, <1>9, <2>1, <2>2, <2>3, <2>4, <2>5, <2>6, <2>7, <2>8, <2>9
       DEF TypeOK, Names, Runs
<1>11. Counted'
  BY <1>1, <1>2, <1>9 DEF TypeOK, Counted, StartsDue
<1>12. AssertionsHold'
  BY <1>1, <1>2, <1>9 DEF TypeOK, AssertionsHold, Counted, StartsDue, Phase, Queued,
     Downs, ConnectionCurrent, Closing, Runs, Socks
<1> QED BY <1>9, <1>10, <1>11, <1>12 DEF IInv, Alright, Runs

\* onRemoveConnection and removeConnection.
LEMMA CloseCallbackRemoves ==
  ASSUME IInv, alive, connection_ = closing, closeCallback_
  PROVE  IInv'
<1> USE ClientConstants
<1>1. TypeOK /\ Counted /\ Runs /\ Phase /\ Queued /\ Downs /\ Stops /\ SocketsOwned
      /\ ConnectionCurrent /\ Closing /\ Shuts
  BY DEF IInv, Alright, Runs, closeCallback_, onRemoveConnection, Forgotten, Unlocked
<1>2. tasks \in Seq(Functors) /\ Count(tasks) \in Nat /\ Len(tasks) \in Nat
  BY <1>1, TasksType
<1>8. closing \in Socks
  BY <1>1 DEF Closing, TypeOK, Socks, closeCallback_
<1> PICK name \in Names : name = "destroy"
  BY DEF Names
<1>3. Longer(tasks, tasks', name, closing)
  <2>1. closing \in 0..MaxStarts
    BY <1>1 DEF TypeOK, Socks, Names
  <2>2. Longer(tasks, Append(tasks, <<name, closing>>), name, closing)
    BY <1>2, <1>8, <2>1, PutIs
  <2>3. tasks' = Append(tasks, <<name, closing>>)
    BY <1>1, <1>2, <1>8 DEF closeCallback_, onRemoveConnection
  <2> QED BY <2>2, <2>3
<1>9. /\ pc = "close" /\ pc' = "poll" /\ closing' = 0
      /\ name = "destroy" /\ tasks' \in Seq(Functors) /\ closing \in Socks
      /\ alive /\ connection_ = closing /\ connection_' = 0 /\ call # "shutdown"
      /\ UNCHANGED <<connected_, state_, channel_, registered, sock, made, conn,
                     closes, handed, batch, call, target, starts, stops, stopped,
                     alive, rebound, failed>>
  BY <1>1, <1>2, <1>3, <1>8 DEF closeCallback_, onRemoveConnection, Forgotten,
     Unlocked, Longer, connector, sockets, client, loop, user, object
<1>10. TypeOK'
  <2>1. (connected_ \in BOOLEAN /\ stopped \in BOOLEAN /\ alive \in BOOLEAN /\ rebound \in BOOLEAN)'
    BY <1>1, <1>9 DEF TypeOK
  <2>2. (tasks \in Seq(Names \X (0..MaxStarts)) /\ batch \in 0..Len(tasks))'
    BY <1>1, <1>2, <1>9, <1>3, <1>8 DEF TypeOK, Functors, Longer
  <2>3. (sock \in [Socks -> {"none", "syn", "up", "refused", "closed"}] /\ made \in 0..MaxStarts)'
    BY <1>1, <1>9 DEF TypeOK, Socks, Phase
  <2>4. (conn \in [Socks -> {"none", "up", "fin", "down", "gone"}] /\ closes \in [Socks -> 0..MaxCloses])'
    BY <1>1, <1>9 DEF TypeOK, Socks
  <2>5. (handed \in [Socks -> {"no", "up", "closed"}])'
    BY <1>1, <1>9 DEF TypeOK, Socks, Phase
  <2>6. (state_ \in {"kDisconnected", "kConnecting", "kConnected"} /\ channel_ \in 0..MaxStarts)'
    BY <1>1, <1>9 DEF TypeOK, Socks
  <2>7. (registered \in SUBSET Socks /\ connection_ \in 0..MaxStarts)'
    BY <1>1, <1>9 DEF TypeOK, Socks
  <2>8. (starts \in 0..MaxStarts /\ stops \in 0..MaxStops)'
    BY <1>1, <1>9 DEF TypeOK
  <2>9. (closing \in 0..MaxStarts /\ target \in 0..MaxStarts)'
    BY <1>1, <1>9 DEF TypeOK, Socks
  <2> QED
    BY <1>1, <1>9, <2>1, <2>2, <2>3, <2>4, <2>5, <2>6, <2>7, <2>8, <2>9
       DEF TypeOK, Names, Runs
<1>11. Counted'
  BY <1>1, <1>2, <1>9, <1>3, <1>8 DEF TypeOK, Counted, StartsDue, Longer
<1>12. AssertionsHold'
  BY <1>1, <1>2, <1>9, <1>3, <1>8 DEF TypeOK, AssertionsHold, Counted, StartsDue,
     Phase, Queued, Downs, ConnectionCurrent, Closing, Runs, Socks, Longer
<1>13. Phase'
  BY <1>1, <1>9 DEF TypeOK, Phase, Counted, StartsDue, Runs, Socks
<1>14. Queued'
  <2>1. /\ \A m : DestroyIn(tasks', m) <=> DestroyIn(tasks, m) \/ closing = m
        /\ HasName(tasks', "reset") <=> HasName(tasks, "reset")
        /\ Numbered(tasks, starts) => Numbered(tasks', starts)
    BY <1>3, <1>9 DEF Longer
  <2>2. conn[closing] \in {"fin", "down"} /\ closes[closing] > 0
    BY <1>1, <1>9 DEF Closing, TypeOK, Socks
  <2> QED BY <1>1, <1>9, <2>1, <2>2 DEF Queued, Socks
<1>15. Downs'
  BY <1>1, <1>9 DEF TypeOK, Downs, Phase, Shuts, Runs, Socks
<1>16. Stops'
  BY <1>1, <1>2, <1>9, <1>3, <1>8 DEF TypeOK, Stops, Phase, Queued, Runs, Longer
<1>17. SocketsOwned'
  BY <1>1, <1>9 DEF TypeOK, SocketsOwned, Phase, Queued, Counted, StartsDue, Runs,
     Socks
<1>18. ConnectionCurrent'
  BY <1>1, <1>9 DEF TypeOK, ConnectionCurrent, Phase, Queued, Downs, Closing, Runs,
     Socks
<1>19. Closing'
  BY <1>1, <1>9 DEF TypeOK, Closing, Phase, Queued, Downs, Runs, Socks
<1>20. Shuts'
  BY <1>1, <1>2, <1>9, <1>3, <1>8 DEF TypeOK, Shuts, Phase, Queued, Downs,
     ConnectionCurrent, Runs, Socks, Longer
<1> QED BY <1>10, <1>11, <1>12, <1>13, <1>14, <1>15, <1>16, <1>17, <1>18, <1>19, <1>20 DEF IInv, Alright

\* What ~TcpClient has put in the place of onRemoveConnection.
LEMMA CloseCallbackRebound ==
  ASSUME IInv, ~alive, rebound, closeCallback_
  PROVE  IInv'
<1> USE ClientConstants
<1>1. TypeOK /\ Counted /\ Runs /\ Phase /\ Queued /\ Downs /\ Stops /\ SocketsOwned
      /\ ConnectionCurrent /\ Closing /\ Shuts
  BY DEF IInv, Alright, Runs, closeCallback_, onRemoveConnection
<1>2. tasks \in Seq(Functors) /\ Count(tasks) \in Nat /\ Len(tasks) \in Nat
  BY <1>1, TasksType
<1>8. closing \in Socks
  BY <1>1 DEF Closing, TypeOK, Socks, closeCallback_
<1> PICK name \in Names : name = "destroy"
  BY DEF Names
<1>3. Longer(tasks, tasks', name, closing)
  <2>1. closing \in 0..MaxStarts
    BY <1>1 DEF TypeOK, Socks, Names
  <2>2. Longer(tasks, Append(tasks, <<name, closing>>), name, closing)
    BY <1>2, <1>8, <2>1, PutIs
  <2>3. tasks' = Append(tasks, <<name, closing>>)
    BY <1>1, <1>2, <1>8 DEF closeCallback_, onRemoveConnection
  <2> QED BY <2>2, <2>3
<1>9. /\ pc = "close" /\ pc' = "poll" /\ closing' = 0
      /\ name = "destroy" /\ tasks' \in Seq(Functors) /\ closing \in Socks
      /\ ~alive
      /\ UNCHANGED <<connected_, state_, channel_, registered, sock, made,
                     connection_, conn, closes, handed, batch, call, target, starts,
                     stops, stopped, alive, rebound, failed>>
  BY <1>1, <1>2, <1>3, <1>8 DEF closeCallback_, onRemoveConnection, Longer, connector,
     sockets, client, loop, user, object
<1>10. TypeOK'
  <2>1. (connected_ \in BOOLEAN /\ stopped \in BOOLEAN /\ alive \in BOOLEAN /\ rebound \in BOOLEAN)'
    BY <1>1, <1>9 DEF TypeOK
  <2>2. (tasks \in Seq(Names \X (0..MaxStarts)) /\ batch \in 0..Len(tasks))'
    BY <1>1, <1>2, <1>9, <1>3, <1>8 DEF TypeOK, Functors, Longer
  <2>3. (sock \in [Socks -> {"none", "syn", "up", "refused", "closed"}] /\ made \in 0..MaxStarts)'
    BY <1>1, <1>9 DEF TypeOK, Socks, Phase
  <2>4. (conn \in [Socks -> {"none", "up", "fin", "down", "gone"}] /\ closes \in [Socks -> 0..MaxCloses])'
    BY <1>1, <1>9 DEF TypeOK, Socks
  <2>5. (handed \in [Socks -> {"no", "up", "closed"}])'
    BY <1>1, <1>9 DEF TypeOK, Socks, Phase
  <2>6. (state_ \in {"kDisconnected", "kConnecting", "kConnected"} /\ channel_ \in 0..MaxStarts)'
    BY <1>1, <1>9 DEF TypeOK, Socks
  <2>7. (registered \in SUBSET Socks /\ connection_ \in 0..MaxStarts)'
    BY <1>1, <1>9 DEF TypeOK, Socks
  <2>8. (starts \in 0..MaxStarts /\ stops \in 0..MaxStops)'
    BY <1>1, <1>9 DEF TypeOK
  <2>9. (closing \in 0..MaxStarts /\ target \in 0..MaxStarts)'
    BY <1>1, <1>9 DEF TypeOK, Socks
  <2> QED
    BY <1>1, <1>9, <2>1, <2>2, <2>3, <2>4, <2>5, <2>6, <2>7, <2>8, <2>9
       DEF TypeOK, Names, Runs
<1>11. Counted'
  BY <1>1, <1>2, <1>9, <1>3, <1>8 DEF TypeOK, Counted, StartsDue, Longer
<1>12. AssertionsHold'
  BY <1>1, <1>2, <1>9, <1>3, <1>8 DEF TypeOK, AssertionsHold, Counted, StartsDue,
     Phase, Queued, Downs, ConnectionCurrent, Closing, Runs, Socks, Longer
<1>13. Phase'
  BY <1>1, <1>9 DEF TypeOK, Phase, Counted, StartsDue, Runs, Socks
<1>14. Queued'
  BY <1>1, <1>2, <1>9, <1>3, <1>8 DEF TypeOK, Phase, Queued, Counted, StartsDue,
     ConnectionCurrent, Closing, Runs, Socks, Longer
<1>15. Downs'
  BY <1>1, <1>9 DEF TypeOK, Downs, Phase, Shuts, Runs, Socks
<1>16. Stops'
  BY <1>1, <1>2, <1>9, <1>3, <1>8 DEF TypeOK, Stops, Phase, Queued, Runs, Longer
<1>17. SocketsOwned'
  BY <1>1, <1>9 DEF TypeOK, SocketsOwned, Phase, Queued, Counted, StartsDue, Runs,
     Socks
<1>18. ConnectionCurrent'
  BY <1>1, <1>9 DEF TypeOK, ConnectionCurrent, Phase, Queued, Downs, Closing, Runs,
     Socks
<1>19. Closing'
  BY <1>1, <1>9 DEF TypeOK, Closing, Phase, Queued, Downs, Runs, Socks
<1>20. Shuts'
  BY <1>1, <1>2, <1>9, <1>3, <1>8 DEF TypeOK, Shuts, Phase, Queued, Downs,
     ConnectionCurrent, Runs, Socks, Longer
<1> QED BY <1>10, <1>11, <1>12, <1>13, <1>14, <1>15, <1>16, <1>17, <1>18, <1>19, <1>20 DEF IInv, Alright

\* The functors are taken.
LEMMA TakeBatchInv ==
  ASSUME IInv, TakeBatch
  PROVE  IInv'
<1> USE ClientConstants
<1>1. TypeOK /\ Counted /\ Runs /\ Phase /\ Queued /\ Downs /\ Stops /\ SocketsOwned
      /\ ConnectionCurrent /\ Closing /\ Shuts
  BY DEF IInv, Alright, Runs, TakeBatch
<1>2. tasks \in Seq(Functors) /\ Count(tasks) \in Nat /\ Len(tasks) \in Nat
  BY <1>1, TasksType
<1>9. /\ pc = "poll" /\ pc' = "pending" /\ batch' = Len(tasks)
      /\ UNCHANGED <<connected_, state_, channel_, registered, sock, made,
                     connection_, conn, closes, handed, closing, tasks, call, target,
                     starts, stops, stopped, alive, rebound, failed>>
  BY <1>1, <1>2 DEF TakeBatch, connector, sockets, client, loop, user, object
<1>10. TypeOK'
  <2>1. (connected_ \in BOOLEAN /\ stopped \in BOOLEAN /\ alive \in BOOLEAN /\ rebound \in BOOLEAN)'
    BY <1>1, <1>9 DEF TypeOK
  <2>2. (tasks \in Seq(Names \X (0..MaxStarts)) /\ batch \in 0..Len(tasks))'
    BY <1>1, <1>2, <1>9 DEF TypeOK, Functors
  <2>3. (sock \in [Socks -> {"none", "syn", "up", "refused", "closed"}] /\ made \in 0..MaxStarts)'
    BY <1>1, <1>9 DEF TypeOK, Socks, Phase
  <2>4. (conn \in [Socks -> {"none", "up", "fin", "down", "gone"}] /\ closes \in [Socks -> 0..MaxCloses])'
    BY <1>1, <1>9 DEF TypeOK, Socks
  <2>5. (handed \in [Socks -> {"no", "up", "closed"}])'
    BY <1>1, <1>9 DEF TypeOK, Socks, Phase
  <2>6. (state_ \in {"kDisconnected", "kConnecting", "kConnected"} /\ channel_ \in 0..MaxStarts)'
    BY <1>1, <1>9 DEF TypeOK, Socks
  <2>7. (registered \in SUBSET Socks /\ connection_ \in 0..MaxStarts)'
    BY <1>1, <1>9 DEF TypeOK, Socks
  <2>8. (starts \in 0..MaxStarts /\ stops \in 0..MaxStops)'
    BY <1>1, <1>9 DEF TypeOK
  <2>9. (closing \in 0..MaxStarts /\ target \in 0..MaxStarts)'
    BY <1>1, <1>9 DEF TypeOK, Socks
  <2> QED
    BY <1>1, <1>9, <2>1, <2>2, <2>3, <2>4, <2>5, <2>6, <2>7, <2>8, <2>9
       DEF TypeOK, Names, Runs
<1>11. Counted'
  BY <1>1, <1>2, <1>9 DEF TypeOK, Counted, StartsDue
<1>12. AssertionsHold'
  BY <1>1, <1>2, <1>9 DEF TypeOK, AssertionsHold, Counted, StartsDue, Phase, Queued,
     Downs, ConnectionCurrent, Closing, Runs, Socks
<1>13. Phase'
  BY <1>1, <1>9 DEF TypeOK, Phase, Counted, StartsDue, Runs, Socks
<1>14. Queued'
  BY <1>1, <1>2, <1>9 DEF TypeOK, Phase, Queued, Counted, StartsDue,
     ConnectionCurrent, Closing, Runs, Socks
<1>15. Downs'
  BY <1>1, <1>9 DEF TypeOK, Downs, Phase, Shuts, Runs, Socks
<1>16. Stops'
  BY <1>1, <1>2, <1>9 DEF TypeOK, Stops, Phase, Queued, Runs
<1>17. SocketsOwned'
  BY <1>1, <1>9 DEF TypeOK, SocketsOwned, Phase, Queued, Counted, StartsDue, Runs,
     Socks
<1>18. ConnectionCurrent'
  BY <1>1, <1>9 DEF TypeOK, ConnectionCurrent, Phase, Queued, Downs, Closing, Runs,
     Socks
<1>19. Closing'
  BY <1>1, <1>9 DEF TypeOK, Closing, Phase, Queued, Downs, Runs, Socks
<1>20. Shuts'
  BY <1>1, <1>2, <1>9 DEF TypeOK, Shuts, Phase, Queued, Downs, ConnectionCurrent,
     Runs, Socks
<1> QED BY <1>10, <1>11, <1>12, <1>13, <1>14, <1>15, <1>16, <1>17, <1>18, <1>19, <1>20 DEF IInv, Alright

\* The batch is done.
LEMMA EndBatchInv ==
  ASSUME IInv, EndBatch
  PROVE  IInv'
<1> USE ClientConstants
<1>1. TypeOK /\ Counted /\ Runs /\ Phase /\ Queued /\ Downs /\ Stops /\ SocketsOwned
      /\ ConnectionCurrent /\ Closing /\ Shuts
  BY DEF IInv, Alright, Runs, EndBatch
<1>2. tasks \in Seq(Functors) /\ Count(tasks) \in Nat /\ Len(tasks) \in Nat
  BY <1>1, TasksType
<1>9. /\ pc = "pending" /\ pc' = "poll"
      /\ UNCHANGED <<connected_, state_, channel_, registered, sock, made,
                     connection_, conn, closes, handed, closing, tasks, batch, call,
                     target, starts, stops, stopped, alive, rebound, failed>>
  BY <1>1, <1>2 DEF EndBatch, connector, sockets, client, loop, user, object
<1>10. TypeOK'
  <2>1. (connected_ \in BOOLEAN /\ stopped \in BOOLEAN /\ alive \in BOOLEAN /\ rebound \in BOOLEAN)'
    BY <1>1, <1>9 DEF TypeOK
  <2>2. (tasks \in Seq(Names \X (0..MaxStarts)) /\ batch \in 0..Len(tasks))'
    BY <1>1, <1>2, <1>9 DEF TypeOK, Functors
  <2>3. (sock \in [Socks -> {"none", "syn", "up", "refused", "closed"}] /\ made \in 0..MaxStarts)'
    BY <1>1, <1>9 DEF TypeOK, Socks, Phase
  <2>4. (conn \in [Socks -> {"none", "up", "fin", "down", "gone"}] /\ closes \in [Socks -> 0..MaxCloses])'
    BY <1>1, <1>9 DEF TypeOK, Socks
  <2>5. (handed \in [Socks -> {"no", "up", "closed"}])'
    BY <1>1, <1>9 DEF TypeOK, Socks, Phase
  <2>6. (state_ \in {"kDisconnected", "kConnecting", "kConnected"} /\ channel_ \in 0..MaxStarts)'
    BY <1>1, <1>9 DEF TypeOK, Socks
  <2>7. (registered \in SUBSET Socks /\ connection_ \in 0..MaxStarts)'
    BY <1>1, <1>9 DEF TypeOK, Socks
  <2>8. (starts \in 0..MaxStarts /\ stops \in 0..MaxStops)'
    BY <1>1, <1>9 DEF TypeOK
  <2>9. (closing \in 0..MaxStarts /\ target \in 0..MaxStarts)'
    BY <1>1, <1>9 DEF TypeOK, Socks
  <2> QED
    BY <1>1, <1>9, <2>1, <2>2, <2>3, <2>4, <2>5, <2>6, <2>7, <2>8, <2>9
       DEF TypeOK, Names, Runs
<1>11. Counted'
  BY <1>1, <1>2, <1>9 DEF TypeOK, Counted, StartsDue
<1>12. AssertionsHold'
  BY <1>1, <1>2, <1>9 DEF TypeOK, AssertionsHold, Counted, StartsDue, Phase, Queued,
     Downs, ConnectionCurrent, Closing, Runs, Socks
<1>13. Phase'
  BY <1>1, <1>9 DEF TypeOK, Phase, Counted, StartsDue, Runs, Socks
<1>14. Queued'
  BY <1>1, <1>2, <1>9 DEF TypeOK, Phase, Queued, Counted, StartsDue,
     ConnectionCurrent, Closing, Runs, Socks
<1>15. Downs'
  BY <1>1, <1>9 DEF TypeOK, Downs, Phase, Shuts, Runs, Socks
<1>16. Stops'
  BY <1>1, <1>2, <1>9 DEF TypeOK, Stops, Phase, Queued, Runs
<1>17. SocketsOwned'
  BY <1>1, <1>9 DEF TypeOK, SocketsOwned, Phase, Queued, Counted, StartsDue, Runs,
     Socks
<1>18. ConnectionCurrent'
  BY <1>1, <1>9 DEF TypeOK, ConnectionCurrent, Phase, Queued, Downs, Closing, Runs,
     Socks
<1>19. Closing'
  BY <1>1, <1>9 DEF TypeOK, Closing, Phase, Queued, Downs, Runs, Socks
<1>20. Shuts'
  BY <1>1, <1>2, <1>9 DEF TypeOK, Shuts, Phase, Queued, Downs, ConnectionCurrent,
     Runs, Socks
<1> QED BY <1>10, <1>11, <1>12, <1>13, <1>14, <1>15, <1>16, <1>17, <1>18, <1>19, <1>20 DEF IInv, Alright

\* A startInLoop whose assertion fails.
LEMMA RunStartFails ==
  ASSUME IInv, state_ # "kDisconnected", RunStart
  PROVE  IInv'
<1> USE ClientConstants
<1>1. TypeOK /\ Counted /\ Runs /\ Phase /\ Queued /\ Downs /\ Stops /\ SocketsOwned
      /\ ConnectionCurrent /\ Closing /\ Shuts
  BY DEF IInv, Alright, Runs, RunStart, startInLoop, Takes
<1>2. tasks \in Seq(Functors) /\ Count(tasks) \in Nat /\ Len(tasks) \in Nat
  BY <1>1, TasksType
<1> PICK taken \in Names : taken = "start"
  BY DEF Names
<1>3. PICK n \in 0..MaxStarts : Takes(taken, n)
  BY DEF RunStart
<1>4. /\ Shorter(tasks, Tail(tasks), taken, n)
      /\ batch' \in 0..Len(Tail(tasks)) /\ Head(tasks)[2] = n
  BY <1>1, <1>3, TakesIs
<1>5. PICK t : t = Tail(tasks)
  OBVIOUS
<1>9. /\ Shorter(tasks, t, taken, n) /\ taken = "start"
      /\ batch' \in 0..Len(t)
      /\ state_ # "kDisconnected" /\ failed' = "startInLoop"
      /\ UNCHANGED <<connected_, state_, channel_, registered, sock, made,
                     connection_, conn, closes, handed, closing, tasks, pc, call,
                     target, starts, stops, stopped, alive, rebound>>
  BY <1>1, <1>2, <1>4, <1>5 DEF RunStart, startInLoop, Takes, connector, sockets,
     client, loop, user, object
<1>10. TypeOK'
  <2>1. (connected_ \in BOOLEAN /\ stopped \in BOOLEAN /\ alive \in BOOLEAN /\ rebound \in BOOLEAN)'
    BY <1>1, <1>9 DEF TypeOK
  <2>2. (tasks \in Seq(Names \X (0..MaxStarts)) /\ batch \in 0..Len(tasks))'
    BY <1>1, <1>2, <1>9, <1>4, <1>5 DEF TypeOK, Functors, Shorter
  <2>3. (sock \in [Socks -> {"none", "syn", "up", "refused", "closed"}] /\ made \in 0..MaxStarts)'
    BY <1>1, <1>9 DEF TypeOK, Socks, Phase
  <2>4. (conn \in [Socks -> {"none", "up", "fin", "down", "gone"}] /\ closes \in [Socks -> 0..MaxCloses])'
    BY <1>1, <1>9 DEF TypeOK, Socks
  <2>5. (handed \in [Socks -> {"no", "up", "closed"}])'
    BY <1>1, <1>9 DEF TypeOK, Socks, Phase
  <2>6. (state_ \in {"kDisconnected", "kConnecting", "kConnected"} /\ channel_ \in 0..MaxStarts)'
    BY <1>1, <1>9 DEF TypeOK, Socks
  <2>7. (registered \in SUBSET Socks /\ connection_ \in 0..MaxStarts)'
    BY <1>1, <1>9 DEF TypeOK, Socks
  <2>8. (starts \in 0..MaxStarts /\ stops \in 0..MaxStops)'
    BY <1>1, <1>9 DEF TypeOK
  <2>9. (closing \in 0..MaxStarts /\ target \in 0..MaxStarts)'
    BY <1>1, <1>9 DEF TypeOK, Socks
  <2> QED
    BY <1>1, <1>9, <2>1, <2>2, <2>3, <2>4, <2>5, <2>6, <2>7, <2>8, <2>9
       DEF TypeOK, Names, Runs
<1>11. Counted'
  BY <1>1, <1>2, <1>9, <1>4, <1>5 DEF TypeOK, Counted, StartsDue, Shorter
<1>12. AssertionsHold'
  <2>1. Count(tasks) = Count(t) + 1 /\ Count(t) \in Nat
    BY <1>9 DEF Shorter
  <2>2. made > 0 /\ made \in Nat /\ starts \in Nat
    BY <1>1, <1>9 DEF Phase, TypeOK
  <2>3. starts > 1
    BY <1>1, <2>1, <2>2 DEF Counted, StartsDue
  <2> QED BY <1>9, <2>3 DEF AssertionsHold
<1> QED BY <1>9, <1>10, <1>11, <1>12 DEF IInv, Alright, Runs

\* A startInLoop that is not wanted any more.
LEMMA RunStartIdle ==
  ASSUME IInv, state_ = "kDisconnected", ~connected_, RunStart
  PROVE  IInv'
<1> USE ClientConstants
<1>1. TypeOK /\ Counted /\ Runs /\ Phase /\ Queued /\ Downs /\ Stops /\ SocketsOwned
      /\ ConnectionCurrent /\ Closing /\ Shuts
  BY DEF IInv, Alright, Runs, RunStart, startInLoop, Takes, Wanted
<1>2. tasks \in Seq(Functors) /\ Count(tasks) \in Nat /\ Len(tasks) \in Nat
  BY <1>1, TasksType
<1> PICK taken \in Names : taken = "start"
  BY DEF Names
<1>3. PICK n \in 0..MaxStarts : Takes(taken, n)
  BY DEF RunStart
<1>4. /\ Shorter(tasks, Tail(tasks), taken, n)
      /\ batch' \in 0..Len(Tail(tasks)) /\ Head(tasks)[2] = n
  BY <1>1, <1>3, TakesIs
<1>5. PICK t : t = Tail(tasks)
  OBVIOUS
<1>9. /\ pc = "pending" /\ batch' \in 0..Len(t)
      /\ Shorter(tasks, t, taken, n) /\ taken = "start"
      /\ tasks' = t
      /\ UNCHANGED <<connected_, state_, channel_, registered, sock, made,
                     connection_, conn, closes, handed, closing, pc, call, target,
                     starts, stops, stopped, alive, rebound, failed>>
  BY <1>1, <1>2, <1>4, <1>5 DEF RunStart, startInLoop, Takes, Wanted, connector,
     sockets, client, loop, user, object
<1>10. TypeOK'
  <2>1. (connected_ \in BOOLEAN /\ stopped \in BOOLEAN /\ alive \in BOOLEAN /\ rebound \in BOOLEAN)'
    BY <1>1, <1>9 DEF TypeOK
  <2>2. (tasks \in Seq(Names \X (0..MaxStarts)) /\ batch \in 0..Len(tasks))'
    BY <1>1, <1>2, <1>9, <1>4, <1>5 DEF TypeOK, Functors, Shorter
  <2>3. (sock \in [Socks -> {"none", "syn", "up", "refused", "closed"}] /\ made \in 0..MaxStarts)'
    BY <1>1, <1>9 DEF TypeOK, Socks, Phase
  <2>4. (conn \in [Socks -> {"none", "up", "fin", "down", "gone"}] /\ closes \in [Socks -> 0..MaxCloses])'
    BY <1>1, <1>9 DEF TypeOK, Socks
  <2>5. (handed \in [Socks -> {"no", "up", "closed"}])'
    BY <1>1, <1>9 DEF TypeOK, Socks, Phase
  <2>6. (state_ \in {"kDisconnected", "kConnecting", "kConnected"} /\ channel_ \in 0..MaxStarts)'
    BY <1>1, <1>9 DEF TypeOK, Socks
  <2>7. (registered \in SUBSET Socks /\ connection_ \in 0..MaxStarts)'
    BY <1>1, <1>9 DEF TypeOK, Socks
  <2>8. (starts \in 0..MaxStarts /\ stops \in 0..MaxStops)'
    BY <1>1, <1>9 DEF TypeOK
  <2>9. (closing \in 0..MaxStarts /\ target \in 0..MaxStarts)'
    BY <1>1, <1>9 DEF TypeOK, Socks
  <2> QED
    BY <1>1, <1>9, <2>1, <2>2, <2>3, <2>4, <2>5, <2>6, <2>7, <2>8, <2>9
       DEF TypeOK, Names, Runs
<1>11. Counted'
  BY <1>1, <1>2, <1>9, <1>4, <1>5 DEF TypeOK, Counted, StartsDue, Shorter
<1>12. AssertionsHold'
  BY <1>1, <1>2, <1>9, <1>4, <1>5 DEF TypeOK, AssertionsHold, Counted, StartsDue,
     Phase, Queued, Downs, ConnectionCurrent, Closing, Runs, Socks, Shorter
<1>13. Phase'
  BY <1>1, <1>9 DEF TypeOK, Phase, Counted, StartsDue, Runs, Socks
<1>14. Queued'
  BY <1>1, <1>2, <1>9, <1>4, <1>5 DEF TypeOK, Phase, Queued, Counted, StartsDue,
     ConnectionCurrent, Closing, Runs, Socks, Shorter
<1>15. Downs'
  BY <1>1, <1>9 DEF TypeOK, Downs, Phase, Shuts, Runs, Socks
<1>16. Stops'
  BY <1>1, <1>2, <1>9, <1>4, <1>5 DEF TypeOK, Stops, Phase, Queued, Runs, Shorter
<1>17. SocketsOwned'
  BY <1>1, <1>9 DEF TypeOK, SocketsOwned, Phase, Queued, Counted, StartsDue, Runs,
     Socks
<1>18. ConnectionCurrent'
  BY <1>1, <1>9 DEF TypeOK, ConnectionCurrent, Phase, Queued, Downs, Closing, Runs,
     Socks
<1>19. Closing'
  BY <1>1, <1>9 DEF TypeOK, Closing, Phase, Queued, Downs, Runs, Socks
<1>20. Shuts'
  BY <1>1, <1>2, <1>9, <1>4, <1>5 DEF TypeOK, Shuts, Phase, Queued, Downs,
     ConnectionCurrent, Runs, Socks, Shorter
<1> QED BY <1>10, <1>11, <1>12, <1>13, <1>14, <1>15, <1>16, <1>17, <1>18, <1>19, <1>20 DEF IInv, Alright

\* A startInLoop that makes an attempt.
LEMMA RunStartInv ==
  ASSUME IInv, state_ = "kDisconnected", connected_, RunStart
  PROVE  IInv'
<1> USE ClientConstants
<1>1. TypeOK /\ Counted /\ Runs /\ Phase /\ Queued /\ Downs /\ Stops /\ SocketsOwned
      /\ ConnectionCurrent /\ Closing /\ Shuts
  BY DEF IInv, Alright, Runs, RunStart, startInLoop, connect, Takes, Wanted
<1>2. tasks \in Seq(Functors) /\ Count(tasks) \in Nat /\ Len(tasks) \in Nat
  BY <1>1, TasksType
<1> PICK taken \in Names : taken = "start"
  BY DEF Names
<1>3. PICK n \in 0..MaxStarts : Takes(taken, n)
  BY DEF RunStart
<1>4. /\ Shorter(tasks, Tail(tasks), taken, n)
      /\ batch' \in 0..Len(Tail(tasks)) /\ Head(tasks)[2] = n
  BY <1>1, <1>3, TakesIs
<1>5. PICK t : t = Tail(tasks)
  OBVIOUS
<1>6. made + 1 \in Socks
  BY <1>1, <1>2, <1>4 DEF TypeOK, Counted, StartsDue, Socks, Shorter, RunStart
<1>7. PICK s \in Socks : s = made + 1
  BY <1>6
<1>8. PICK answer \in {"closed", "syn", "up"} :
        /\ sock' = [sock EXCEPT ![s] = answer]
        /\ answer = "closed" => UNCHANGED <<state_, channel_, registered>>
        /\ answer # "closed" =>
             state_' = "kConnecting" /\ channel_' = s /\ registered' = registered \cup {s}
  BY <1>1, <1>7 DEF RunStart, startInLoop, connect, Wanted, Watched
<1>9. /\ pc = "pending" /\ batch' \in 0..Len(t)
      /\ s = made + 1 /\ s \in Socks /\ made' = s
      /\ state_ = "kDisconnected" /\ connected_
      /\ answer \in {"closed", "syn", "up"} /\ sock' = [sock EXCEPT ![s] = answer]
      /\ answer = "closed" => state_' = state_ /\ channel_' = channel_ /\ registered' = registered
      /\ answer # "closed" =>
           state_' = "kConnecting" /\ channel_' = s /\ registered' = registered \cup {s}
      /\ Shorter(tasks, t, taken, n) /\ taken = "start" /\ alive
      /\ tasks' = t
      /\ UNCHANGED <<connected_, connection_, conn, closes, handed, closing, pc, call,
                     target, starts, stops, stopped, alive, rebound, failed>>
  BY <1>1, <1>2, <1>4, <1>5, <1>7, <1>8 DEF RunStart, startInLoop, connect, Takes,
     Wanted, connector, sockets, client, loop, user, object
<1>10. TypeOK'
  <2>1. (connected_ \in BOOLEAN /\ stopped \in BOOLEAN /\ alive \in BOOLEAN /\ rebound \in BOOLEAN)'
    BY <1>1, <1>9 DEF TypeOK
  <2>2. (tasks \in Seq(Names \X (0..MaxStarts)) /\ batch \in 0..Len(tasks))'
    BY <1>1, <1>2, <1>9, <1>4, <1>5, <1>7, <1>8 DEF TypeOK, Functors, Shorter
  <2>3. (sock \in [Socks -> {"none", "syn", "up", "refused", "closed"}] /\ made \in 0..MaxStarts)'
    BY <1>1, <1>9 DEF TypeOK, Socks, Phase
  <2>4. (conn \in [Socks -> {"none", "up", "fin", "down", "gone"}] /\ closes \in [Socks -> 0..MaxCloses])'
    BY <1>1, <1>9 DEF TypeOK, Socks
  <2>5. (handed \in [Socks -> {"no", "up", "closed"}])'
    BY <1>1, <1>9 DEF TypeOK, Socks, Phase
  <2>6. (state_ \in {"kDisconnected", "kConnecting", "kConnected"} /\ channel_ \in 0..MaxStarts)'
    BY <1>1, <1>9 DEF TypeOK, Socks
  <2>7. (registered \in SUBSET Socks /\ connection_ \in 0..MaxStarts)'
    BY <1>1, <1>9 DEF TypeOK, Socks
  <2>8. (starts \in 0..MaxStarts /\ stops \in 0..MaxStops)'
    BY <1>1, <1>9 DEF TypeOK
  <2>9. (closing \in 0..MaxStarts /\ target \in 0..MaxStarts)'
    BY <1>1, <1>9 DEF TypeOK, Socks
  <2> QED
    BY <1>1, <1>9, <2>1, <2>2, <2>3, <2>4, <2>5, <2>6, <2>7, <2>8, <2>9
       DEF TypeOK, Names, Runs
<1>11. Counted'
  <2>1. Count(tasks) = Count(t) + 1 /\ Count(t) \in Nat
    BY <1>9 DEF Shorter
  <2>2. made' = made + 1 /\ made \in Nat /\ starts \in Nat
    BY <1>1, <1>9 DEF TypeOK
  <2> QED BY <1>1, <1>9, <2>1, <2>2 DEF Counted, StartsDue
<1>12. AssertionsHold'
  BY <1>1, <1>2, <1>9, <1>4, <1>5, <1>7, <1>8 DEF TypeOK, AssertionsHold, Counted,
     StartsDue, Phase, Queued, Downs, ConnectionCurrent, Closing, Runs, Socks, Shorter
<1>13. Phase'
  BY <1>1, <1>9 DEF TypeOK, Phase, Counted, StartsDue, Runs, Socks
<1>14. Queued'
  <2>1. /\ \A m : DestroyIn(t, m) => DestroyIn(tasks, m)
        /\ HasName(t, "reset") => HasName(tasks, "reset")
        /\ Numbered(tasks, starts) => Numbered(t, starts)
    BY <1>9 DEF Shorter
  <2>2. made \in Nat
    BY <1>1 DEF TypeOK
  <2> QED BY <1>1, <1>9, <2>1, <2>2 DEF Queued
<1>15. Downs'
  BY <1>1, <1>9 DEF TypeOK, Downs, Phase, Shuts, Runs, Socks
<1>16. Stops'
  BY <1>1, <1>2, <1>9, <1>4, <1>5, <1>7, <1>8 DEF TypeOK, Stops, Phase, Queued, Runs,
     Shorter
<1>17. SocketsOwned'
  BY <1>1, <1>9 DEF TypeOK, SocketsOwned, Phase, Queued, Counted, StartsDue, Runs,
     Socks
<1>18. ConnectionCurrent'
  BY <1>1, <1>9 DEF TypeOK, ConnectionCurrent, Phase, Queued, Downs, Closing, Runs,
     Socks
<1>19. Closing'
  BY <1>1, <1>9 DEF TypeOK, Closing, Phase, Queued, Downs, Runs, Socks
<1>20. Shuts'
  BY <1>1, <1>2, <1>9, <1>4, <1>5, <1>7, <1>8 DEF TypeOK, Shuts, Phase, Queued, Downs,
     ConnectionCurrent, Runs, Socks, Shorter
<1> QED BY <1>10, <1>11, <1>12, <1>13, <1>14, <1>15, <1>16, <1>17, <1>18, <1>19, <1>20 DEF IInv, Alright

\* A stopInLoop with nothing under way.
LEMMA RunStopIdle ==
  ASSUME IInv, state_ # "kConnecting", RunStop
  PROVE  IInv'
<1> USE ClientConstants
<1>1. TypeOK /\ Counted /\ Runs /\ Phase /\ Queued /\ Downs /\ Stops /\ SocketsOwned
      /\ ConnectionCurrent /\ Closing /\ Shuts
  BY DEF IInv, Alright, Runs, RunStop, stopInLoop, Takes
<1>2. tasks \in Seq(Functors) /\ Count(tasks) \in Nat /\ Len(tasks) \in Nat
  BY <1>1, TasksType
<1> PICK taken \in Names : taken = "stop"
  BY DEF Names
<1>3. PICK n \in 0..MaxStarts : Takes(taken, n)
  BY DEF RunStop
<1>4. /\ Shorter(tasks, Tail(tasks), taken, n)
      /\ batch' \in 0..Len(Tail(tasks)) /\ Head(tasks)[2] = n
  BY <1>1, <1>3, TakesIs
<1>5. PICK t : t = Tail(tasks)
  OBVIOUS
<1>9. /\ pc = "pending" /\ batch' \in 0..Len(t)
      /\ Shorter(tasks, t, taken, n) /\ taken = "stop" /\ state_ # "kConnecting"
      /\ tasks' = t /\ stopped' = (n = starts)
      /\ UNCHANGED <<connected_, state_, channel_, registered, sock, made,
                     connection_, conn, closes, handed, closing, pc, call, target,
                     starts, stops, alive, rebound, failed>>
  BY <1>1, <1>2, <1>4, <1>5 DEF RunStop, stopInLoop, Takes, connector, sockets,
     client, loop, user, object
<1>10. TypeOK'
  <2>1. (connected_ \in BOOLEAN /\ stopped \in BOOLEAN /\ alive \in BOOLEAN /\ rebound \in BOOLEAN)'
    BY <1>1, <1>9 DEF TypeOK
  <2>2. (tasks \in Seq(Names \X (0..MaxStarts)) /\ batch \in 0..Len(tasks))'
    BY <1>1, <1>2, <1>9, <1>4, <1>5 DEF TypeOK, Functors, Shorter
  <2>3. (sock \in [Socks -> {"none", "syn", "up", "refused", "closed"}] /\ made \in 0..MaxStarts)'
    BY <1>1, <1>9 DEF TypeOK, Socks, Phase
  <2>4. (conn \in [Socks -> {"none", "up", "fin", "down", "gone"}] /\ closes \in [Socks -> 0..MaxCloses])'
    BY <1>1, <1>9 DEF TypeOK, Socks
  <2>5. (handed \in [Socks -> {"no", "up", "closed"}])'
    BY <1>1, <1>9 DEF TypeOK, Socks, Phase
  <2>6. (state_ \in {"kDisconnected", "kConnecting", "kConnected"} /\ channel_ \in 0..MaxStarts)'
    BY <1>1, <1>9 DEF TypeOK, Socks
  <2>7. (registered \in SUBSET Socks /\ connection_ \in 0..MaxStarts)'
    BY <1>1, <1>9 DEF TypeOK, Socks
  <2>8. (starts \in 0..MaxStarts /\ stops \in 0..MaxStops)'
    BY <1>1, <1>9 DEF TypeOK
  <2>9. (closing \in 0..MaxStarts /\ target \in 0..MaxStarts)'
    BY <1>1, <1>9 DEF TypeOK, Socks
  <2> QED
    BY <1>1, <1>9, <2>1, <2>2, <2>3, <2>4, <2>5, <2>6, <2>7, <2>8, <2>9
       DEF TypeOK, Names, Runs
<1>11. Counted'
  BY <1>1, <1>2, <1>9, <1>4, <1>5 DEF TypeOK, Counted, StartsDue, Shorter
<1>12. AssertionsHold'
  BY <1>1, <1>2, <1>9, <1>4, <1>5 DEF TypeOK, AssertionsHold, Counted, StartsDue,
     Phase, Queued, Downs, ConnectionCurrent, Closing, Runs, Socks, Shorter
<1>13. Phase'
  BY <1>1, <1>9 DEF TypeOK, Phase, Counted, StartsDue, Runs, Socks
<1>14. Queued'
  BY <1>1, <1>2, <1>9, <1>4, <1>5 DEF TypeOK, Phase, Queued, Counted, StartsDue,
     ConnectionCurrent, Closing, Runs, Socks, Shorter
<1>15. Downs'
  BY <1>1, <1>9 DEF TypeOK, Downs, Phase, Shuts, Runs, Socks
<1>16. Stops'
  <2>1. NoneBehind(tasks, n) => ~HasName(t, "start")
    BY <1>9 DEF Shorter
  <2>2. /\ StopIn(t, starts) => StopIn(tasks, starts)
        /\ HasName(t, "start") => HasName(tasks, "start")
        /\ NoneBehind(tasks, starts) => NoneBehind(t, starts)
        /\ StopIn(tasks, n)
    BY <1>9 DEF Shorter
  <2>3. tasks' = t
    BY <1>9
  <2>4. /\ stopped' => state_' # "kConnecting"
        /\ connected_' => (StopIn(tasks', starts') => call' # "start") /\ NoneBehind(tasks', starts')
    BY <1>1, <1>9, <2>2, <2>3 DEF Stops
  <2>5. ASSUME stopped', connected_' PROVE call' # "start" /\ ~HasName(tasks', "start")
    <3>1. n = starts
      BY <1>9, <2>5
    <3> QED BY <1>1, <1>9, <2>1, <2>2, <2>3, <2>5, <3>1 DEF Stops
  <2> QED BY <2>4, <2>5 DEF Stops
<1>17. SocketsOwned'
  BY <1>1, <1>9 DEF TypeOK, SocketsOwned, Phase, Queued, Counted, StartsDue, Runs,
     Socks
<1>18. ConnectionCurrent'
  BY <1>1, <1>9 DEF TypeOK, ConnectionCurrent, Phase, Queued, Downs, Closing, Runs,
     Socks
<1>19. Closing'
  BY <1>1, <1>9 DEF TypeOK, Closing, Phase, Queued, Downs, Runs, Socks
<1>20. Shuts'
  BY <1>1, <1>2, <1>9, <1>4, <1>5 DEF TypeOK, Shuts, Phase, Queued, Downs,
     ConnectionCurrent, Runs, Socks, Shorter
<1> QED BY <1>10, <1>11, <1>12, <1>13, <1>14, <1>15, <1>16, <1>17, <1>18, <1>19, <1>20 DEF IInv, Alright

\* A stopInLoop that gives a connection up.
LEMMA RunStopInv ==
  ASSUME IInv, state_ = "kConnecting", RunStop
  PROVE  IInv'
<1> USE ClientConstants
<1>1. TypeOK /\ Counted /\ Runs /\ Phase /\ Queued /\ Downs /\ Stops /\ SocketsOwned
      /\ ConnectionCurrent /\ Closing /\ Shuts
  BY DEF IInv, Alright, Runs, RunStop, stopInLoop, getSocket, Released, Closed, Takes
<1>2. tasks \in Seq(Functors) /\ Count(tasks) \in Nat /\ Len(tasks) \in Nat
  BY <1>1, TasksType
<1> PICK taken \in Names : taken = "stop"
  BY DEF Names
<1>3. PICK n \in 0..MaxStarts : Takes(taken, n)
  BY DEF RunStop
<1>4. /\ Shorter(tasks, Tail(tasks), taken, n)
      /\ batch' \in 0..Len(Tail(tasks)) /\ Head(tasks)[2] = n
  BY <1>1, <1>3, TakesIs
<1>5. PICK t : t = Tail(tasks)
  OBVIOUS
<1>6. t \in Seq(Functors) /\ Len(t) \in Nat
  BY <1>4, <1>5, LenProperties DEF Shorter
<1> PICK name \in Names : name = "reset"
  BY DEF Names
<1>7. Longer(t, tasks', name, 0)
  <2>1. 0 \in 0..MaxStarts
    BY <1>1 DEF TypeOK, Socks, Names
  <2>2. Longer(t, Append(t, <<name, 0>>), name, 0)
    BY <1>5, <1>6, <2>1, PutIs
  <2>3. tasks' = Append(t, <<name, 0>>)
    BY <1>1, <1>5, <1>6 DEF RunStop, stopInLoop, getSocket
  <2> QED BY <2>2, <2>3
<1>9. /\ pc = "pending" /\ batch' \in 0..Len(t)
      /\ Shorter(tasks, t, taken, n) /\ Longer(t, tasks', name, 0)
      /\ taken = "stop" /\ name = "reset" /\ tasks' \in Seq(Functors)
      /\ state_ = "kConnecting" /\ state_' = "kDisconnected" /\ alive
      /\ registered' = registered \ {channel_} /\ sock' = [sock EXCEPT ![channel_] = "closed"]
      /\ stopped' = (n = starts)
      /\ UNCHANGED <<connected_, channel_, made, connection_, conn, closes, handed,
                     closing, pc, call, target, starts, stops, alive, rebound,
                     failed>>
  BY <1>1, <1>2, <1>4, <1>5, <1>6, <1>7 DEF RunStop, stopInLoop, getSocket, Released,
     Closed, Takes, Longer, connector, sockets, client, loop, user, object
<1>10. TypeOK'
  <2>1. (connected_ \in BOOLEAN /\ stopped \in BOOLEAN /\ alive \in BOOLEAN /\ rebound \in BOOLEAN)'
    BY <1>1, <1>9 DEF TypeOK
  <2>2. (tasks \in Seq(Names \X (0..MaxStarts)) /\ batch \in 0..Len(tasks))'
    BY <1>1, <1>2, <1>9, <1>4, <1>5, <1>6, <1>7 DEF TypeOK, Functors, Shorter, Longer
  <2>3. (sock \in [Socks -> {"none", "syn", "up", "refused", "closed"}] /\ made \in 0..MaxStarts)'
    BY <1>1, <1>9 DEF TypeOK, Socks, Phase
  <2>4. (conn \in [Socks -> {"none", "up", "fin", "down", "gone"}] /\ closes \in [Socks -> 0..MaxCloses])'
    BY <1>1, <1>9 DEF TypeOK, Socks
  <2>5. (handed \in [Socks -> {"no", "up", "closed"}])'
    BY <1>1, <1>9 DEF TypeOK, Socks, Phase
  <2>6. (state_ \in {"kDisconnected", "kConnecting", "kConnected"} /\ channel_ \in 0..MaxStarts)'
    BY <1>1, <1>9 DEF TypeOK, Socks
  <2>7. (registered \in SUBSET Socks /\ connection_ \in 0..MaxStarts)'
    BY <1>1, <1>9 DEF TypeOK, Socks
  <2>8. (starts \in 0..MaxStarts /\ stops \in 0..MaxStops)'
    BY <1>1, <1>9 DEF TypeOK
  <2>9. (closing \in 0..MaxStarts /\ target \in 0..MaxStarts)'
    BY <1>1, <1>9 DEF TypeOK, Socks
  <2> QED
    BY <1>1, <1>9, <2>1, <2>2, <2>3, <2>4, <2>5, <2>6, <2>7, <2>8, <2>9
       DEF TypeOK, Names, Runs
<1>11. Counted'
  BY <1>1, <1>2, <1>9, <1>4, <1>5, <1>6, <1>7 DEF TypeOK, Counted, StartsDue, Shorter,
     Longer
<1>12. AssertionsHold'
  BY <1>1, <1>2, <1>9, <1>4, <1>5, <1>6, <1>7 DEF TypeOK, AssertionsHold, Counted,
     StartsDue, Phase, Queued, Downs, ConnectionCurrent, Closing, Runs, Socks,
     Shorter, Longer
<1>13. Phase'
  BY <1>1, <1>9 DEF TypeOK, Phase, Counted, StartsDue, Runs, Socks
<1>14. Queued'
  BY <1>1, <1>2, <1>9, <1>4, <1>5, <1>6, <1>7 DEF TypeOK, Phase, Queued, Counted,
     StartsDue, ConnectionCurrent, Closing, Runs, Socks, Shorter, Longer
<1>15. Downs'
  BY <1>1, <1>9 DEF TypeOK, Downs, Phase, Shuts, Runs, Socks
<1>16. Stops'
  <2>1. NoneBehind(tasks, n) => ~HasName(t, "start")
    BY <1>9 DEF Shorter
  <2>2. /\ StopIn(t, starts) => StopIn(tasks, starts)
        /\ HasName(t, "start") => HasName(tasks, "start")
        /\ NoneBehind(tasks, starts) => NoneBehind(t, starts)
        /\ StopIn(tasks, n)
    BY <1>9 DEF Shorter
  <2>3. /\ StopIn(tasks', starts) => StopIn(t, starts)
        /\ HasName(tasks', "start") => HasName(t, "start")
        /\ NoneBehind(t, starts) => NoneBehind(tasks', starts)
    BY <1>9 DEF Longer
  <2>4. /\ stopped' => state_' # "kConnecting"
        /\ connected_' => (StopIn(tasks', starts') => call' # "start") /\ NoneBehind(tasks', starts')
    BY <1>1, <1>9, <2>2, <2>3 DEF Stops
  <2>5. ASSUME stopped', connected_' PROVE call' # "start" /\ ~HasName(tasks', "start")
    <3>1. n = starts
      BY <1>9, <2>5
    <3> QED BY <1>1, <1>9, <2>1, <2>2, <2>3, <2>5, <3>1 DEF Stops
  <2> QED BY <2>4, <2>5 DEF Stops
<1>17. SocketsOwned'
  BY <1>1, <1>9 DEF TypeOK, SocketsOwned, Phase, Queued, Counted, StartsDue, Runs,
     Socks
<1>18. ConnectionCurrent'
  BY <1>1, <1>9 DEF TypeOK, ConnectionCurrent, Phase, Queued, Downs, Closing, Runs,
     Socks
<1>19. Closing'
  BY <1>1, <1>9 DEF TypeOK, Closing, Phase, Queued, Downs, Runs, Socks
<1>20. Shuts'
  BY <1>1, <1>2, <1>9, <1>4, <1>5, <1>6, <1>7 DEF TypeOK, Shuts, Phase, Queued, Downs,
     ConnectionCurrent, Runs, Socks, Shorter, Longer
<1> QED BY <1>10, <1>11, <1>12, <1>13, <1>14, <1>15, <1>16, <1>17, <1>18, <1>19, <1>20 DEF IInv, Alright

\* resetChannel deletes a channel that the Poller has.
LEMMA ResetChannelFails ==
  ASSUME IInv, channel_ \in registered, resetChannel
  PROVE  IInv'
<1> USE ClientConstants
<1>1. TypeOK /\ Counted /\ Runs /\ Phase /\ Queued /\ Downs /\ Stops /\ SocketsOwned
      /\ ConnectionCurrent /\ Closing /\ Shuts
  BY DEF IInv, Alright, Runs, resetChannel, Takes
<1>2. tasks \in Seq(Functors) /\ Count(tasks) \in Nat /\ Len(tasks) \in Nat
  BY <1>1, TasksType
<1> PICK taken \in Names : taken = "reset"
  BY DEF Names
<1>3. 0 \in 0..MaxStarts /\ Takes(taken, 0)
  BY DEF Socks, resetChannel
<1>4. /\ Shorter(tasks, Tail(tasks), taken, 0)
      /\ batch' \in 0..Len(Tail(tasks)) /\ Head(tasks)[2] = 0
  BY <1>1, <1>3, TakesIs
<1>5. PICK t : t = Tail(tasks)
  OBVIOUS
<1>9. /\ Shorter(tasks, t, taken, 0) /\ taken = "reset" /\ alive
      /\ batch' \in 0..Len(t)
      /\ channel_ \in registered /\ tasks' = t /\ channel_' = 0 /\ failed' = "~Channel"
      /\ UNCHANGED <<connected_, state_, registered, sock, made, connection_, conn,
                     closes, handed, closing, pc, call, target, starts, stops,
                     stopped, alive, rebound>>
  BY <1>1, <1>2, <1>4, <1>5 DEF resetChannel, Takes, connector, sockets, client, loop,
     user, object
<1>10. TypeOK'
  <2>1. (connected_ \in BOOLEAN /\ stopped \in BOOLEAN /\ alive \in BOOLEAN /\ rebound \in BOOLEAN)'
    BY <1>1, <1>9 DEF TypeOK
  <2>2. (tasks \in Seq(Names \X (0..MaxStarts)) /\ batch \in 0..Len(tasks))'
    BY <1>1, <1>2, <1>9, <1>4, <1>5 DEF TypeOK, Functors, Shorter
  <2>3. (sock \in [Socks -> {"none", "syn", "up", "refused", "closed"}] /\ made \in 0..MaxStarts)'
    BY <1>1, <1>9 DEF TypeOK, Socks, Phase
  <2>4. (conn \in [Socks -> {"none", "up", "fin", "down", "gone"}] /\ closes \in [Socks -> 0..MaxCloses])'
    BY <1>1, <1>9 DEF TypeOK, Socks
  <2>5. (handed \in [Socks -> {"no", "up", "closed"}])'
    BY <1>1, <1>9 DEF TypeOK, Socks, Phase
  <2>6. (state_ \in {"kDisconnected", "kConnecting", "kConnected"} /\ channel_ \in 0..MaxStarts)'
    BY <1>1, <1>9 DEF TypeOK, Socks
  <2>7. (registered \in SUBSET Socks /\ connection_ \in 0..MaxStarts)'
    BY <1>1, <1>9 DEF TypeOK, Socks
  <2>8. (starts \in 0..MaxStarts /\ stops \in 0..MaxStops)'
    BY <1>1, <1>9 DEF TypeOK
  <2>9. (closing \in 0..MaxStarts /\ target \in 0..MaxStarts)'
    BY <1>1, <1>9 DEF TypeOK, Socks
  <2> QED
    BY <1>1, <1>9, <2>1, <2>2, <2>3, <2>4, <2>5, <2>6, <2>7, <2>8, <2>9
       DEF TypeOK, Names, Runs
<1>11. Counted'
  BY <1>1, <1>2, <1>9, <1>4, <1>5 DEF TypeOK, Counted, StartsDue, Shorter
<1>12. AssertionsHold'
  <2>1. HasName(tasks, "reset") /\ registered # {}
    BY <1>9 DEF Shorter
  <2>2. made > 1 /\ made \in Nat /\ starts \in Nat
    BY <1>1, <1>9, <2>1 DEF Queued, TypeOK
  <2>3. starts > 1
    BY <1>1, <1>2, <2>2 DEF Counted, StartsDue
  <2> QED BY <1>9, <2>3 DEF AssertionsHold
<1> QED BY <1>9, <1>10, <1>11, <1>12 DEF IInv, Alright, Runs

\* resetChannel.
LEMMA ResetChannelInv ==
  ASSUME IInv, channel_ \notin registered, resetChannel
  PROVE  IInv'
<1> USE ClientConstants
<1>1. TypeOK /\ Counted /\ Runs /\ Phase /\ Queued /\ Downs /\ Stops /\ SocketsOwned
      /\ ConnectionCurrent /\ Closing /\ Shuts
  BY DEF IInv, Alright, Runs, resetChannel, Takes
<1>2. tasks \in Seq(Functors) /\ Count(tasks) \in Nat /\ Len(tasks) \in Nat
  BY <1>1, TasksType
<1> PICK taken \in Names : taken = "reset"
  BY DEF Names
<1>3. 0 \in 0..MaxStarts /\ Takes(taken, 0)
  BY DEF Socks, resetChannel
<1>4. /\ Shorter(tasks, Tail(tasks), taken, 0)
      /\ batch' \in 0..Len(Tail(tasks)) /\ Head(tasks)[2] = 0
  BY <1>1, <1>3, TakesIs
<1>5. PICK t : t = Tail(tasks)
  OBVIOUS
<1>9. /\ pc = "pending" /\ batch' \in 0..Len(t)
      /\ Shorter(tasks, t, taken, 0) /\ taken = "reset" /\ alive
      /\ channel_ \notin registered /\ tasks' = t /\ channel_' = 0
      /\ UNCHANGED <<connected_, state_, registered, sock, made, connection_, conn,
                     closes, handed, closing, pc, call, target, starts, stops,
                     stopped, alive, rebound, failed>>
  BY <1>1, <1>2, <1>4, <1>5 DEF resetChannel, Takes, connector, sockets, client, loop,
     user, object
<1>10. TypeOK'
  <2>1. (connected_ \in BOOLEAN /\ stopped \in BOOLEAN /\ alive \in BOOLEAN /\ rebound \in BOOLEAN)'
    BY <1>1, <1>9 DEF TypeOK
  <2>2. (tasks \in Seq(Names \X (0..MaxStarts)) /\ batch \in 0..Len(tasks))'
    BY <1>1, <1>2, <1>9, <1>4, <1>5 DEF TypeOK, Functors, Shorter
  <2>3. (sock \in [Socks -> {"none", "syn", "up", "refused", "closed"}] /\ made \in 0..MaxStarts)'
    BY <1>1, <1>9 DEF TypeOK, Socks, Phase
  <2>4. (conn \in [Socks -> {"none", "up", "fin", "down", "gone"}] /\ closes \in [Socks -> 0..MaxCloses])'
    BY <1>1, <1>9 DEF TypeOK, Socks
  <2>5. (handed \in [Socks -> {"no", "up", "closed"}])'
    BY <1>1, <1>9 DEF TypeOK, Socks, Phase
  <2>6. (state_ \in {"kDisconnected", "kConnecting", "kConnected"} /\ channel_ \in 0..MaxStarts)'
    BY <1>1, <1>9 DEF TypeOK, Socks
  <2>7. (registered \in SUBSET Socks /\ connection_ \in 0..MaxStarts)'
    BY <1>1, <1>9 DEF TypeOK, Socks
  <2>8. (starts \in 0..MaxStarts /\ stops \in 0..MaxStops)'
    BY <1>1, <1>9 DEF TypeOK
  <2>9. (closing \in 0..MaxStarts /\ target \in 0..MaxStarts)'
    BY <1>1, <1>9 DEF TypeOK, Socks
  <2> QED
    BY <1>1, <1>9, <2>1, <2>2, <2>3, <2>4, <2>5, <2>6, <2>7, <2>8, <2>9
       DEF TypeOK, Names, Runs
<1>11. Counted'
  BY <1>1, <1>2, <1>9, <1>4, <1>5 DEF TypeOK, Counted, StartsDue, Shorter
<1>12. AssertionsHold'
  BY <1>1, <1>2, <1>9, <1>4, <1>5 DEF TypeOK, AssertionsHold, Counted, StartsDue,
     Phase, Queued, Downs, ConnectionCurrent, Closing, Runs, Socks, Shorter
<1>13. Phase'
  BY <1>1, <1>9 DEF TypeOK, Phase, Counted, StartsDue, Runs, Socks
<1>14. Queued'
  BY <1>1, <1>2, <1>9, <1>4, <1>5 DEF TypeOK, Phase, Queued, Counted, StartsDue,
     ConnectionCurrent, Closing, Runs, Socks, Shorter
<1>15. Downs'
  BY <1>1, <1>9 DEF TypeOK, Downs, Phase, Shuts, Runs, Socks
<1>16. Stops'
  BY <1>1, <1>2, <1>9, <1>4, <1>5 DEF TypeOK, Stops, Phase, Queued, Runs, Shorter
<1>17. SocketsOwned'
  BY <1>1, <1>9 DEF TypeOK, SocketsOwned, Phase, Queued, Counted, StartsDue, Runs,
     Socks
<1>18. ConnectionCurrent'
  BY <1>1, <1>9 DEF TypeOK, ConnectionCurrent, Phase, Queued, Downs, Closing, Runs,
     Socks
<1>19. Closing'
  BY <1>1, <1>9 DEF TypeOK, Closing, Phase, Queued, Downs, Runs, Socks
<1>20. Shuts'
  BY <1>1, <1>2, <1>9, <1>4, <1>5 DEF TypeOK, Shuts, Phase, Queued, Downs,
     ConnectionCurrent, Runs, Socks, Shorter
<1> QED BY <1>10, <1>11, <1>12, <1>13, <1>14, <1>15, <1>16, <1>17, <1>18, <1>19, <1>20 DEF IInv, Alright

\* connectionDestroyed.
LEMMA ConnectionDestroyedInv ==
  ASSUME IInv, NEW s \in Socks, connectionDestroyed(s)
  PROVE  IInv'
<1> USE ClientConstants
<1>1. TypeOK /\ Counted /\ Runs /\ Phase /\ Queued /\ Downs /\ Stops /\ SocketsOwned
      /\ ConnectionCurrent /\ Closing /\ Shuts
  BY DEF IInv, Alright, Runs, connectionDestroyed, Closed, Takes
<1>2. tasks \in Seq(Functors) /\ Count(tasks) \in Nat /\ Len(tasks) \in Nat
  BY <1>1, TasksType
<1> PICK taken \in Names : taken = "destroy"
  BY DEF Names
<1>3. s \in 0..MaxStarts /\ Takes(taken, s)
  BY DEF Socks, connectionDestroyed
<1>4. /\ Shorter(tasks, Tail(tasks), taken, s)
      /\ batch' \in 0..Len(Tail(tasks)) /\ Head(tasks)[2] = s
  BY <1>1, <1>3, TakesIs
<1>5. PICK t : t = Tail(tasks)
  OBVIOUS
<1>6. conn[s] \in {"fin", "down", "gone"} /\ state_ = "kConnected"
  BY <1>1, <1>4 DEF Shorter, Queued, Phase
<1>9. /\ pc = "pending" /\ batch' \in 0..Len(t)
      /\ Shorter(tasks, t, taken, s) /\ taken = "destroy" /\ tasks' = t
      /\ conn[s] \in {"fin", "down", "gone"} /\ state_ = "kConnected"
      /\ conn' = [conn EXCEPT ![s] = "gone"] /\ sock' = [sock EXCEPT ![s] = "closed"]
      /\ UNCHANGED <<connected_, state_, channel_, registered, made, connection_,
                     closes, handed, closing, pc, call, target, starts, stops,
                     stopped, alive, rebound, failed>>
  BY <1>1, <1>2, <1>4, <1>5, <1>6 DEF connectionDestroyed, Closed, Takes, connector,
     sockets, client, loop, user, object
<1>10. TypeOK'
  <2>1. (connected_ \in BOOLEAN /\ stopped \in BOOLEAN /\ alive \in BOOLEAN /\ rebound \in BOOLEAN)'
    BY <1>1, <1>9 DEF TypeOK
  <2>2. (tasks \in Seq(Names \X (0..MaxStarts)) /\ batch \in 0..Len(tasks))'
    BY <1>1, <1>2, <1>9, <1>4, <1>5, <1>6 DEF TypeOK, Functors, Shorter
  <2>3. (sock \in [Socks -> {"none", "syn", "up", "refused", "closed"}] /\ made \in 0..MaxStarts)'
    BY <1>1, <1>9 DEF TypeOK, Socks, Phase
  <2>4. (conn \in [Socks -> {"none", "up", "fin", "down", "gone"}] /\ closes \in [Socks -> 0..MaxCloses])'
    BY <1>1, <1>9 DEF TypeOK, Socks
  <2>5. (handed \in [Socks -> {"no", "up", "closed"}])'
    BY <1>1, <1>9 DEF TypeOK, Socks, Phase
  <2>6. (state_ \in {"kDisconnected", "kConnecting", "kConnected"} /\ channel_ \in 0..MaxStarts)'
    BY <1>1, <1>9 DEF TypeOK, Socks
  <2>7. (registered \in SUBSET Socks /\ connection_ \in 0..MaxStarts)'
    BY <1>1, <1>9 DEF TypeOK, Socks
  <2>8. (starts \in 0..MaxStarts /\ stops \in 0..MaxStops)'
    BY <1>1, <1>9 DEF TypeOK
  <2>9. (closing \in 0..MaxStarts /\ target \in 0..MaxStarts)'
    BY <1>1, <1>9 DEF TypeOK, Socks
  <2> QED
    BY <1>1, <1>9, <2>1, <2>2, <2>3, <2>4, <2>5, <2>6, <2>7, <2>8, <2>9
       DEF TypeOK, Names, Runs
<1>11. Counted'
  BY <1>1, <1>2, <1>9, <1>4, <1>5, <1>6 DEF TypeOK, Counted, StartsDue, Shorter
<1>12. AssertionsHold'
  BY <1>1, <1>2, <1>9, <1>4, <1>5, <1>6 DEF TypeOK, AssertionsHold, Counted,
     StartsDue, Phase, Queued, Downs, ConnectionCurrent, Closing, Runs, Socks, Shorter
<1>13. Phase'
  BY <1>1, <1>9 DEF TypeOK, Phase, Counted, StartsDue, Runs, Socks
<1>14. Queued'
  BY <1>1, <1>2, <1>9, <1>4, <1>5, <1>6 DEF TypeOK, Phase, Queued, Counted, StartsDue,
     ConnectionCurrent, Closing, Runs, Socks, Shorter
<1>15. Downs'
  BY <1>1, <1>9 DEF TypeOK, Downs, Phase, Shuts, Runs, Socks
<1>16. Stops'
  BY <1>1, <1>2, <1>9, <1>4, <1>5, <1>6 DEF TypeOK, Stops, Phase, Queued, Runs,
     Shorter
<1>17. SocketsOwned'
  BY <1>1, <1>9 DEF TypeOK, SocketsOwned, Phase, Queued, Counted, StartsDue, Runs,
     Socks
<1>18. ConnectionCurrent'
  BY <1>1, <1>9 DEF TypeOK, ConnectionCurrent, Phase, Queued, Downs, Closing, Runs,
     Socks
<1>19. Closing'
  BY <1>1, <1>9 DEF TypeOK, Closing, Phase, Queued, Downs, Runs, Socks
<1>20. Shuts'
  BY <1>1, <1>2, <1>9, <1>4, <1>5, <1>6 DEF TypeOK, Shuts, Phase, Queued, Downs,
     ConnectionCurrent, Runs, Socks, Shorter
<1> QED BY <1>10, <1>11, <1>12, <1>13, <1>14, <1>15, <1>16, <1>17, <1>18, <1>19, <1>20 DEF IInv, Alright

\* shutdownInLoop.
LEMMA ShutdownInLoopInv ==
  ASSUME IInv, NEW s \in Socks, shutdownInLoop(s)
  PROVE  IInv'
<1> USE ClientConstants
<1>1. TypeOK /\ Counted /\ Runs /\ Phase /\ Queued /\ Downs /\ Stops /\ SocketsOwned
      /\ ConnectionCurrent /\ Closing /\ Shuts
  BY DEF IInv, Alright, Runs, shutdownInLoop, Takes
<1>2. tasks \in Seq(Functors) /\ Count(tasks) \in Nat /\ Len(tasks) \in Nat
  BY <1>1, TasksType
<1> PICK taken \in Names : taken = "shutdown"
  BY DEF Names
<1>3. s \in 0..MaxStarts /\ Takes(taken, s)
  BY DEF Socks, shutdownInLoop
<1>4. /\ Shorter(tasks, Tail(tasks), taken, s)
      /\ batch' \in 0..Len(Tail(tasks)) /\ Head(tasks)[2] = s
  BY <1>1, <1>3, TakesIs
<1>5. PICK t : t = Tail(tasks)
  OBVIOUS
<1>9. /\ pc = "pending" /\ batch' \in 0..Len(t)
      /\ Shorter(tasks, t, taken, s) /\ taken = "shutdown" /\ tasks' = t
      /\ UNCHANGED <<connected_, state_, channel_, registered, sock, made,
                     connection_, conn, closes, handed, closing, pc, call, target,
                     starts, stops, stopped, alive, rebound, failed>>
  BY <1>1, <1>2, <1>4, <1>5 DEF shutdownInLoop, Takes, connector, sockets, client,
     loop, user, object
<1>10. TypeOK'
  <2>1. (connected_ \in BOOLEAN /\ stopped \in BOOLEAN /\ alive \in BOOLEAN /\ rebound \in BOOLEAN)'
    BY <1>1, <1>9 DEF TypeOK
  <2>2. (tasks \in Seq(Names \X (0..MaxStarts)) /\ batch \in 0..Len(tasks))'
    BY <1>1, <1>2, <1>9, <1>4, <1>5 DEF TypeOK, Functors, Shorter
  <2>3. (sock \in [Socks -> {"none", "syn", "up", "refused", "closed"}] /\ made \in 0..MaxStarts)'
    BY <1>1, <1>9 DEF TypeOK, Socks, Phase
  <2>4. (conn \in [Socks -> {"none", "up", "fin", "down", "gone"}] /\ closes \in [Socks -> 0..MaxCloses])'
    BY <1>1, <1>9 DEF TypeOK, Socks
  <2>5. (handed \in [Socks -> {"no", "up", "closed"}])'
    BY <1>1, <1>9 DEF TypeOK, Socks, Phase
  <2>6. (state_ \in {"kDisconnected", "kConnecting", "kConnected"} /\ channel_ \in 0..MaxStarts)'
    BY <1>1, <1>9 DEF TypeOK, Socks
  <2>7. (registered \in SUBSET Socks /\ connection_ \in 0..MaxStarts)'
    BY <1>1, <1>9 DEF TypeOK, Socks
  <2>8. (starts \in 0..MaxStarts /\ stops \in 0..MaxStops)'
    BY <1>1, <1>9 DEF TypeOK
  <2>9. (closing \in 0..MaxStarts /\ target \in 0..MaxStarts)'
    BY <1>1, <1>9 DEF TypeOK, Socks
  <2> QED
    BY <1>1, <1>9, <2>1, <2>2, <2>3, <2>4, <2>5, <2>6, <2>7, <2>8, <2>9
       DEF TypeOK, Names, Runs
<1>11. Counted'
  BY <1>1, <1>2, <1>9, <1>4, <1>5 DEF TypeOK, Counted, StartsDue, Shorter
<1>12. AssertionsHold'
  BY <1>1, <1>2, <1>9, <1>4, <1>5 DEF TypeOK, AssertionsHold, Counted, StartsDue,
     Phase, Queued, Downs, ConnectionCurrent, Closing, Runs, Socks, Shorter
<1>13. Phase'
  BY <1>1, <1>9 DEF TypeOK, Phase, Counted, StartsDue, Runs, Socks
<1>14. Queued'
  BY <1>1, <1>2, <1>9, <1>4, <1>5 DEF TypeOK, Phase, Queued, Counted, StartsDue,
     ConnectionCurrent, Closing, Runs, Socks, Shorter
<1>15. Downs'
  BY <1>1, <1>9 DEF TypeOK, Downs, Phase, Shuts, Runs, Socks
<1>16. Stops'
  BY <1>1, <1>2, <1>9, <1>4, <1>5 DEF TypeOK, Stops, Phase, Queued, Runs, Shorter
<1>17. SocketsOwned'
  BY <1>1, <1>9 DEF TypeOK, SocketsOwned, Phase, Queued, Counted, StartsDue, Runs,
     Socks
<1>18. ConnectionCurrent'
  BY <1>1, <1>9 DEF TypeOK, ConnectionCurrent, Phase, Queued, Downs, Closing, Runs,
     Socks
<1>19. Closing'
  BY <1>1, <1>9 DEF TypeOK, Closing, Phase, Queued, Downs, Runs, Socks
<1>20. Shuts'
  BY <1>1, <1>2, <1>9, <1>4, <1>5 DEF TypeOK, Shuts, Phase, Queued, Downs,
     ConnectionCurrent, Runs, Socks, Shorter
<1> QED BY <1>10, <1>11, <1>12, <1>13, <1>14, <1>15, <1>16, <1>17, <1>18, <1>19, <1>20 DEF IInv, Alright

\* The close callback is replaced.
LEMMA RebindInv ==
  ASSUME IInv, NEW s \in Socks, failed' = failed, Rebind(s)
  PROVE  IInv'
<1> USE ClientConstants
<1>1. TypeOK /\ Counted /\ Runs /\ Phase /\ Queued /\ Downs /\ Stops /\ SocketsOwned
      /\ ConnectionCurrent /\ Closing /\ Shuts
  BY DEF IInv, Alright, Runs, Rebind, Takes
<1>2. tasks \in Seq(Functors) /\ Count(tasks) \in Nat /\ Len(tasks) \in Nat
  BY <1>1, TasksType
<1> PICK taken \in Names : taken = "rebind"
  BY DEF Names
<1>3. s \in 0..MaxStarts /\ Takes(taken, s)
  BY DEF Socks, Rebind
<1>4. /\ Shorter(tasks, Tail(tasks), taken, s)
      /\ batch' \in 0..Len(Tail(tasks)) /\ Head(tasks)[2] = s
  BY <1>1, <1>3, TakesIs
<1>5. PICK t : t = Tail(tasks)
  OBVIOUS
<1>9. /\ pc = "pending" /\ batch' \in 0..Len(t)
      /\ Shorter(tasks, t, taken, s) /\ taken = "rebind" /\ tasks' = t
      /\ rebound' = TRUE
      /\ UNCHANGED <<connected_, state_, channel_, registered, sock, made,
                     connection_, conn, closes, handed, closing, pc, call, target,
                     starts, stops, stopped, alive, failed>>
  BY <1>1, <1>2, <1>4, <1>5 DEF Rebind, Takes, connector, sockets, client, loop, user,
     object
<1>10. TypeOK'
  <2>1. (connected_ \in BOOLEAN /\ stopped \in BOOLEAN /\ alive \in BOOLEAN /\ rebound \in BOOLEAN)'
    BY <1>1, <1>9 DEF TypeOK
  <2>2. (tasks \in Seq(Names \X (0..MaxStarts)) /\ batch \in 0..Len(tasks))'
    BY <1>1, <1>2, <1>9, <1>4, <1>5 DEF TypeOK, Functors, Shorter
  <2>3. (sock \in [Socks -> {"none", "syn", "up", "refused", "closed"}] /\ made \in 0..MaxStarts)'
    BY <1>1, <1>9 DEF TypeOK, Socks, Phase
  <2>4. (conn \in [Socks -> {"none", "up", "fin", "down", "gone"}] /\ closes \in [Socks -> 0..MaxCloses])'
    BY <1>1, <1>9 DEF TypeOK, Socks
  <2>5. (handed \in [Socks -> {"no", "up", "closed"}])'
    BY <1>1, <1>9 DEF TypeOK, Socks, Phase
  <2>6. (state_ \in {"kDisconnected", "kConnecting", "kConnected"} /\ channel_ \in 0..MaxStarts)'
    BY <1>1, <1>9 DEF TypeOK, Socks
  <2>7. (registered \in SUBSET Socks /\ connection_ \in 0..MaxStarts)'
    BY <1>1, <1>9 DEF TypeOK, Socks
  <2>8. (starts \in 0..MaxStarts /\ stops \in 0..MaxStops)'
    BY <1>1, <1>9 DEF TypeOK
  <2>9. (closing \in 0..MaxStarts /\ target \in 0..MaxStarts)'
    BY <1>1, <1>9 DEF TypeOK, Socks
  <2> QED
    BY <1>1, <1>9, <2>1, <2>2, <2>3, <2>4, <2>5, <2>6, <2>7, <2>8, <2>9
       DEF TypeOK, Names, Runs
<1>11. Counted'
  BY <1>1, <1>2, <1>9, <1>4, <1>5 DEF TypeOK, Counted, StartsDue, Shorter
<1>12. AssertionsHold'
  BY <1>1, <1>2, <1>9, <1>4, <1>5 DEF TypeOK, AssertionsHold, Counted, StartsDue,
     Phase, Queued, Downs, ConnectionCurrent, Closing, Runs, Socks, Shorter
<1>13. Phase'
  BY <1>1, <1>9 DEF TypeOK, Phase, Counted, StartsDue, Runs, Socks
<1>14. Queued'
  BY <1>1, <1>2, <1>9, <1>4, <1>5 DEF TypeOK, Phase, Queued, Counted, StartsDue,
     ConnectionCurrent, Closing, Runs, Socks, Shorter
<1>15. Downs'
  BY <1>1, <1>9 DEF TypeOK, Downs, Phase, Shuts, Runs, Socks
<1>16. Stops'
  BY <1>1, <1>2, <1>9, <1>4, <1>5 DEF TypeOK, Stops, Phase, Queued, Runs, Shorter
<1>17. SocketsOwned'
  BY <1>1, <1>9 DEF TypeOK, SocketsOwned, Phase, Queued, Counted, StartsDue, Runs,
     Socks
<1>18. ConnectionCurrent'
  BY <1>1, <1>9 DEF TypeOK, ConnectionCurrent, Phase, Queued, Downs, Closing, Runs,
     Socks
<1>19. Closing'
  BY <1>1, <1>9 DEF TypeOK, Closing, Phase, Queued, Downs, Runs, Socks
<1>20. Shuts'
  BY <1>1, <1>2, <1>9, <1>4, <1>5 DEF TypeOK, Shuts, Phase, Queued, Downs,
     ConnectionCurrent, Runs, Socks, Shorter
<1> QED BY <1>10, <1>11, <1>12, <1>13, <1>14, <1>15, <1>16, <1>17, <1>18, <1>19, <1>20 DEF IInv, Alright

\* The functor was the last to hold the connection.
LEMMA RebindFails ==
  ASSUME IInv, NEW s \in Socks, ~alive, failed' = "~TcpConnection", Rebind(s)
  PROVE  IInv'
<1> USE ClientConstants
<1>1. TypeOK /\ Counted /\ Runs /\ Phase /\ Queued /\ Downs /\ Stops /\ SocketsOwned
      /\ ConnectionCurrent /\ Closing /\ Shuts
  BY DEF IInv, Alright, Runs, Rebind, Takes
<1>2. tasks \in Seq(Functors) /\ Count(tasks) \in Nat /\ Len(tasks) \in Nat
  BY <1>1, TasksType
<1> PICK taken \in Names : taken = "rebind"
  BY DEF Names
<1>3. s \in 0..MaxStarts /\ Takes(taken, s)
  BY DEF Socks, Rebind
<1>4. /\ Shorter(tasks, Tail(tasks), taken, s)
      /\ batch' \in 0..Len(Tail(tasks)) /\ Head(tasks)[2] = s
  BY <1>1, <1>3, TakesIs
<1>5. PICK t : t = Tail(tasks)
  OBVIOUS
<1>9. /\ pc = "pending" /\ batch' \in 0..Len(t)
      /\ Shorter(tasks, t, taken, s) /\ taken = "rebind" /\ tasks' = t
      /\ rebound' = TRUE /\ ~alive /\ failed' = "~TcpConnection"
      /\ UNCHANGED <<connected_, state_, channel_, registered, sock, made,
                     connection_, conn, closes, handed, closing, pc, call, target,
                     starts, stops, stopped, alive>>
  BY <1>1, <1>2, <1>4, <1>5 DEF Rebind, Takes, connector, sockets, client, loop, user,
     object
<1>10. TypeOK'
  <2>1. (connected_ \in BOOLEAN /\ stopped \in BOOLEAN /\ alive \in BOOLEAN /\ rebound \in BOOLEAN)'
    BY <1>1, <1>9 DEF TypeOK
  <2>2. (tasks \in Seq(Names \X (0..MaxStarts)) /\ batch \in 0..Len(tasks))'
    BY <1>1, <1>2, <1>9, <1>4, <1>5 DEF TypeOK, Functors, Shorter
  <2>3. (sock \in [Socks -> {"none", "syn", "up", "refused", "closed"}] /\ made \in 0..MaxStarts)'
    BY <1>1, <1>9 DEF TypeOK, Socks, Phase
  <2>4. (conn \in [Socks -> {"none", "up", "fin", "down", "gone"}] /\ closes \in [Socks -> 0..MaxCloses])'
    BY <1>1, <1>9 DEF TypeOK, Socks
  <2>5. (handed \in [Socks -> {"no", "up", "closed"}])'
    BY <1>1, <1>9 DEF TypeOK, Socks, Phase
  <2>6. (state_ \in {"kDisconnected", "kConnecting", "kConnected"} /\ channel_ \in 0..MaxStarts)'
    BY <1>1, <1>9 DEF TypeOK, Socks
  <2>7. (registered \in SUBSET Socks /\ connection_ \in 0..MaxStarts)'
    BY <1>1, <1>9 DEF TypeOK, Socks
  <2>8. (starts \in 0..MaxStarts /\ stops \in 0..MaxStops)'
    BY <1>1, <1>9 DEF TypeOK
  <2>9. (closing \in 0..MaxStarts /\ target \in 0..MaxStarts)'
    BY <1>1, <1>9 DEF TypeOK, Socks
  <2> QED
    BY <1>1, <1>9, <2>1, <2>2, <2>3, <2>4, <2>5, <2>6, <2>7, <2>8, <2>9
       DEF TypeOK, Names, Runs
<1>11. Counted'
  BY <1>1, <1>2, <1>9, <1>4, <1>5 DEF TypeOK, Counted, StartsDue, Shorter
<1>12. AssertionsHold'
  BY <1>1, <1>2, <1>9, <1>4, <1>5 DEF TypeOK, AssertionsHold, Counted, StartsDue,
     Phase, Queued, Downs, ConnectionCurrent, Closing, Runs, Socks, Shorter
<1> QED BY <1>9, <1>10, <1>11, <1>12 DEF IInv, Alright, Runs

\* Every step keeps the invariant.
LEMMA NextInv == IInv /\ [Next]_vars => IInv'
<1> SUFFICES ASSUME IInv, [Next]_vars PROVE IInv'
  OBVIOUS
<1>1. CASE UNCHANGED vars
  BY <1>1 DEF IInv, Alright, Phase, Queued, Downs, Stops, TypeOK, Counted, StartsDue,
     AssertionsHold, SocketsOwned, ConnectionCurrent, Closing, Shuts, Runs, vars, connector,
     sockets, client, loop, user, object
<1>2. CASE connectForeign \/ stopForeign \/ QueueForeign \/ stopOnLoop
           \/ disconnectForeign \/ shutdownForeign \/ disconnectOnLoop
  BY <1>2, ConnectForeignInv, StopForeignInv, QueueForeignInv, StopOnLoopInv,
     DisconnectForeignInv, ShutdownForeignInv, DisconnectOnLoopInv
<1>3. CASE connectInLoop
  BY <1>3, ConnectInLoopFails, ConnectInLoopInv
<1>4. CASE Destroy
  BY <1>4, DestroyWithConnection, DestroyWithout
<1>5. CASE \E s \in Socks : Answer(s)
  BY <1>5, AnswerInv
<1>6. CASE \E s \in Socks : handleClose(s)
  BY <1>6, HandleCloseInv
<1>7. CASE handleError \/ handleWrite \/ TakeBatch \/ EndBatch
  <2>1. alive \in BOOLEAN
    BY DEF IInv, TypeOK
  <2> QED BY <1>7, <2>1, HandleErrorInv, HandleWriteGone, HandleWriteInv, TakeBatchInv,
             EndBatchInv
<1>8. CASE RunStart
  <2>1. connected_ \in BOOLEAN
    BY DEF IInv, TypeOK
  <2> QED BY <1>8, <2>1, RunStartFails, RunStartIdle, RunStartInv
<1>9. CASE RunStop
  BY <1>9, RunStopIdle, RunStopInv
<1>10. CASE resetChannel
  BY <1>10, ResetChannelFails, ResetChannelInv
<1>11. CASE \E s \in Socks : connectionDestroyed(s) \/ shutdownInLoop(s) \/ Rebind(s)
  BY <1>11, ConnectionDestroyedInv, ShutdownInLoopInv, RebindInv, RebindFails DEF Rebind
<1>12. CASE closeCallback_
  <2>1. alive \in BOOLEAN /\ rebound \in BOOLEAN
    BY DEF IInv, TypeOK
  <2> QED BY <1>12, <2>1, CloseCallbackFails, CloseCallbackGone, CloseCallbackRemoves,
             CloseCallbackRebound
<1> QED
  BY <1>1, <1>2, <1>3, <1>4, <1>5, <1>6, <1>7, <1>8, <1>9, <1>10, <1>11, <1>12
     DEF Next, LoopStep

\* The inductive invariant holds in every state.
LEMMA Invariant == Spec => []IInv
BY InitInv, NextInv, PTL DEF Spec

-----------------------------------------------------------------------------
(* The theorems.                                                           *)

\* The types of the Connector's and the client's fields, and every queued
\* functor is one the code queues.
THEOREM TypeCorrect == Spec => []TypeOK
<1>1. IInv => TypeOK
  BY DEF IInv
<1> QED BY Invariant, <1>1, PTL

\* The assertions of startInLoop, onRemoveConnection and ~Channel fail, and a
\* callback finds the client gone, only
\* after a second connect(), a second close of one connection, or ~TcpClient.
THEOREM ClientAssertions == Spec => []AssertionsHold
<1>1. IInv => AssertionsHold
  BY DEF IInv
<1> QED BY Invariant, <1>1, PTL

\* Every open socket is watched by the Connector or belongs to a
\* TcpConnection, never to both.
THEOREM NoSocketLeaks == Spec => []SocketsOwned
<1>1. IInv => SocketsOwned
  BY DEF IInv, Alright, SocketsOwned
<1> QED BY Invariant, <1>1, PTL

\* connection_ points to the connection that has not been closed; a closed one
\* it points to only from the store of kDisconnected, over the user's callback,
\* to onRemoveConnection in the same handleClose.
THEOREM PointerCurrent == Spec => []ConnectionCurrent
<1>1. IInv => ConnectionCurrent
  BY DEF IInv, Alright, ConnectionCurrent
<1> QED BY Invariant, <1>1, PTL

\* disconnect() on another thread reaches no connection that is gone, neither in
\* shutdown() nor in the functor that shutdown() queues with a bare pointer.
THEOREM DisconnectReaches == Spec => []DisconnectSafe
<1>1. ASSUME IInv PROVE DisconnectSafe
  <2> SUFFICES ASSUME Runs PROVE DisconnectSafe
    BY DEF DisconnectSafe
  <2>1. TypeOK /\ Queued /\ Shuts
    BY <1>1 DEF IInv, Alright
  <2>2. call = "shutdown" => conn[target] # "gone"
    BY <2>1 DEF TypeOK, Queued, Shuts, Socks
  <2>3. ASSUME NEW s \in Socks, <<"shutdown", s>> \in ToSet(tasks) PROVE conn[s] # "gone"
    <3>1. ShutIn(tasks, s)
      BY <2>3 DEF ShutIn, Has, ToSet
    <3> QED BY <2>1, <3>1 DEF Shuts
  <2> QED BY <2>2, <2>3 DEF DisconnectSafe
<1>2. IInv => DisconnectSafe
  BY <1>1
<1> QED BY Invariant, <1>2, PTL

\* Once stopInLoop has run, nothing becomes the client's connection until the
\* next connect().
THEOREM StoppedForGood == Spec => StopIsFinal
<1> DEFINE Step == stopped /\ stopped' => connection_' \in {connection_, 0}
<1>1. IInv /\ [Next]_vars => [Step]_vars
  <2> SUFFICES ASSUME IInv, Next, stopped PROVE connection_' \in {connection_, 0}
    OBVIOUS
  <2>1. ~handleWrite
    <3>1. Runs => state_ # "kConnecting"
      BY DEF IInv, Alright, Stops
    <3> QED BY <3>1 DEF handleWrite
  <2>2. CASE \E s \in Socks : handleClose(s)
    BY <2>2 DEF handleClose
  <2>3. CASE connectForeign \/ stopForeign \/ QueueForeign \/ connectInLoop \/ stopOnLoop
             \/ disconnectForeign \/ shutdownForeign \/ disconnectOnLoop
    BY <2>3 DEF connectForeign, stopForeign, QueueForeign, connectInLoop, stopOnLoop,
       disconnectForeign, shutdownForeign, disconnectOnLoop, client
  <2>4. CASE Destroy \/ \E s \in Socks : Answer(s)
    BY <2>4 DEF Destroy, Answer, client
  <2>5. CASE LoopStep
    BY <2>1, <2>5 DEF LoopStep, handleError, TakeBatch, EndBatch, RunStart, RunStop,
       resetChannel, connectionDestroyed, shutdownInLoop, Rebind, closeCallback_,
       onRemoveConnection, Forgotten, client
  <2> QED BY <2>2, <2>3, <2>4, <2>5 DEF Next
<1> QED BY Invariant, <1>1, PTL DEF Spec, StopIsFinal
=============================================================================
