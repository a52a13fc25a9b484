---------------------------- MODULE QueueLemmas ----------------------------
(* Facts about queues and numbers that several proofs rest on.             *)
EXTENDS Naturals, Sequences, SequenceTheorems, WellFoundedInduction, TLAPS

\* Appending to the second half appends to the whole.
LEMMA AppendToConcat ==
  ASSUME NEW S, NEW p \in Seq(S), NEW q \in Seq(S), NEW e \in S
  PROVE  p \o Append(q, e) = Append(p \o q, e)
OBVIOUS

\* Taking the head of a queue and putting it behind what was taken before
\* leaves the concatenation as it is.
LEMMA MoveHead ==
  ASSUME NEW S, NEW p \in Seq(S), NEW q \in Seq(S), q # <<>>
  PROVE  /\ Append(p, Head(q)) \in Seq(S)
         /\ Tail(q) \in Seq(S)
         /\ Append(p, Head(q)) \o Tail(q) = p \o q
<1>1. /\ Head(q) \in S /\ Tail(q) \in Seq(S)
      /\ Len(q) \in Nat /\ Len(q) > 0 /\ Head(q) = q[1]
      /\ Len(Tail(q)) = Len(q) - 1
      /\ \A i \in 1..(Len(q) - 1) : Tail(q)[i] = q[i + 1]
  BY HeadTailProperties, EmptySeq, LenProperties
<1>2. Append(p, Head(q)) \in Seq(S)
  BY <1>1
<1> DEFINE a == Append(p, Head(q)) \o Tail(q)
           b == p \o q
<1>3. a \in Seq(S) /\ b \in Seq(S)
  BY <1>1, <1>2
<1>4. Len(a) = Len(b)
  BY <1>1, <1>2
<1>5. \A i \in 1..Len(b) : a[i] = b[i]
  BY <1>1, <1>2
<1>6. a = b
  <2> HIDE DEF a, b
  <2> QED BY <1>3, <1>4, <1>5, SeqEqual
<1> QED BY <1>1, <1>2, <1>6

\* The head and the tail of a concatenation are those of its first part.
LEMMA HeadOfConcat ==
  ASSUME NEW S, NEW p \in Seq(S), NEW q \in Seq(S), p # <<>>
  PROVE  /\ p \o q # <<>>
         /\ Head(p \o q) = Head(p)
         /\ Tail(p \o q) = Tail(p) \o q
<1>1. /\ Tail(p) \in Seq(S)
      /\ Len(p) \in Nat /\ Len(p) > 0
      /\ Len(Tail(p)) = Len(p) - 1
      /\ \A i \in 1..(Len(p) - 1) : Tail(p)[i] = p[i + 1]
  BY HeadTailProperties, EmptySeq, LenProperties
<1> DEFINE c == p \o q
<1>2. /\ c \in Seq(S) /\ Len(c) = Len(p) + Len(q) /\ Len(q) \in Nat
      /\ \A i \in 1..Len(p) : c[i] = p[i]
      /\ \A i \in (Len(p) + 1)..Len(c) : c[i] = q[i - Len(p)]
  BY ConcatProperties, LenProperties
<1>3. c # <<>>
  BY <1>1, <1>2
<1>4. Head(c) = Head(p)
  BY <1>1, <1>2
<1>5. Tail(c) = Tail(p) \o q
  <2>1. /\ Tail(c) \in Seq(S) /\ Len(Tail(c)) = Len(c) - 1
        /\ \A i \in 1..(Len(c) - 1) : Tail(c)[i] = c[i + 1]
    <3> HIDE DEF c
    <3> QED BY <1>2, <1>3, HeadTailProperties, EmptySeq
  <2>2. /\ Tail(p) \o q \in Seq(S) /\ Len(Tail(p) \o q) = Len(c) - 1
        /\ \A i \in 1..(Len(c) - 1) :
             (Tail(p) \o q)[i] = IF i <= Len(p) - 1 THEN p[i + 1]
                                 ELSE q[i - (Len(p) - 1)]
    BY <1>1, <1>2
  <2>3. \A i \in 1..(Len(c) - 1) : Tail(c)[i] = (Tail(p) \o q)[i]
    <3> HIDE DEF c
    <3> QED BY <1>1, <1>2, <2>1, <2>2
  <2> QED
    <3> HIDE DEF c
    <3> QED BY <2>1, <2>2, <2>3, SeqEqual
<1> QED BY <1>3, <1>4, <1>5

\* The entries of a queue after its head was taken.
LEMMA TailOfQueue ==
  ASSUME NEW S, NEW q \in Seq(S), q # <<>>
  PROVE  /\ Head(q) \in S /\ Head(q) = q[1] /\ 1 \in DOMAIN q
         /\ Tail(q) \in Seq(S) /\ Len(Tail(q)) = Len(q) - 1
         /\ \A k \in DOMAIN Tail(q) : k + 1 \in DOMAIN q /\ Tail(q)[k] = q[k + 1]
         /\ \A k \in DOMAIN q : k # 1 => k - 1 \in DOMAIN Tail(q) /\ Tail(q)[k - 1] = q[k]
<1>1. /\ Head(q) \in S /\ Tail(q) \in Seq(S) /\ Len(q) \in Nat /\ Len(q) > 0
      /\ Head(q) = q[1] /\ Len(Tail(q)) = Len(q) - 1
      /\ \A i \in 1..(Len(q) - 1) : Tail(q)[i] = q[i + 1]
  BY HeadTailProperties, EmptySeq, LenProperties
<1>2. DOMAIN q = 1..Len(q) /\ DOMAIN Tail(q) = 1..(Len(q) - 1)
  BY <1>1, LenProperties
<1>3. ASSUME NEW k \in DOMAIN q, k # 1
      PROVE  k - 1 \in DOMAIN Tail(q) /\ Tail(q)[k - 1] = q[k]
  <2>1. k - 1 \in 1..(Len(q) - 1) /\ (k - 1) + 1 = k
    BY <1>1, <1>2, <1>3
  <2> QED BY <1>1, <1>2, <2>1
<1> QED BY <1>1, <1>2, <1>3

\* The entries of a queue after one was put behind it.
LEMMA EndOfQueue ==
  ASSUME NEW S, NEW q \in Seq(S), NEW e \in S
  PROVE  /\ Append(q, e) \in Seq(S) /\ Len(Append(q, e)) = Len(q) + 1
         /\ DOMAIN q = 1..Len(q) /\ DOMAIN Append(q, e) = 1..(Len(q) + 1)
         /\ \A k \in 1..Len(q) : Append(q, e)[k] = q[k]
         /\ Append(q, e)[Len(q) + 1] = e
BY AppendProperties, LenProperties

\* A sequence cut in two.
LEMMA CutInTwo ==
  ASSUME NEW S, NEW s \in Seq(S), NEW n \in 0..Len(s)
  PROVE  /\ SubSeq(s, 1, n) \in Seq(S)
         /\ SubSeq(s, n + 1, Len(s)) \in Seq(S)
         /\ SubSeq(s, 1, n) \o SubSeq(s, n + 1, Len(s)) = s
<1>1. Len(s) \in Nat /\ DOMAIN s = 1..Len(s) /\ \A i \in 1..Len(s) : s[i] \in S
  BY LenProperties
<1>2. SubSeq(s, 1, n) \in Seq(S) /\ SubSeq(s, n + 1, Len(s)) \in Seq(S)
  BY <1>1, SubSeqProperties
<1>3. SubSeq(s, 1, n) \o SubSeq(s, n + 1, Len(s)) = SubSeq(s, 1, Len(s))
  <2>1. 1 \in 1..(Len(s) + 1) /\ n \in (1 - 1)..Len(s) /\ Len(s) \in n..Len(s)
    BY <1>1
  <2> QED BY <2>1, ConcatAdjacentSubSeq
<1>4. SubSeq(s, 1, Len(s)) = s
  BY SubSeqFull
<1> QED BY <1>2, <1>3, <1>4

\* Concatenation as an operator of its own, which the provers do not expand.
Cat(p, q) == p \o q

\* Concatenation is associative.
LEMMA CatAssociative ==
  ASSUME NEW S, NEW p \in Seq(S), NEW q \in Seq(S), NEW r \in Seq(S)
  PROVE  Cat(Cat(p, q), r) = Cat(p, Cat(q, r))
BY DEF Cat

\* Data written in front of a buffer that is empty, or none of it written.
LEMMA Splice ==
  ASSUME NEW S, NEW p \in Seq(S), NEW x \in Seq(S), NEW b \in Seq(S),
         NEW y \in Seq(S), b = <<>> \/ x = <<>>
  PROVE  Cat(Cat(p, x), Cat(b, y)) = Cat(Cat(p, b), Cat(x, y))
<1>1. (p \o x) \o y = p \o (x \o y)
  OBVIOUS
<1>2. (p \o b) \o y = p \o (b \o y)
  OBVIOUS
<1>3. CASE b = <<>>
  <2>1. b \o y = y /\ p \o b = p
    BY <1>3, ConcatEmptySeq
  <2> QED BY <1>1, <2>1 DEF Cat
<1>4. CASE x = <<>>
  <2>1. x \o y = y /\ p \o x = p
    BY <1>4, ConcatEmptySeq
  <2> QED BY <1>2, <2>1 DEF Cat
<1> QED BY <1>3, <1>4

\* What a concatenation holds.
Has(s, e) == \E k \in DOMAIN s : s[k] = e

\* A concatenation holds what its parts hold.
LEMMA CatHas ==
  ASSUME NEW S, NEW p \in Seq(S), NEW q \in Seq(S)
  PROVE  /\ Cat(p, q) \in Seq(S)
         /\ \A e : Has(Cat(p, q), e) <=> Has(p, e) \/ Has(q, e)
<1> DEFINE c == p \o q
<1>1. /\ Len(p) \in Nat /\ DOMAIN p = 1..Len(p)
      /\ Len(q) \in Nat /\ DOMAIN q = 1..Len(q)
  BY LenProperties
<1>2. /\ c \in Seq(S) /\ Len(c) = Len(p) + Len(q)
      /\ \A i \in 1..(Len(p) + Len(q)) : c[i] = IF i <= Len(p) THEN p[i] ELSE q[i - Len(p)]
  BY ConcatProperties
<1> HIDE DEF c
<1>3. DOMAIN c = 1..(Len(p) + Len(q))
  BY <1>2, LenProperties
<1>4. ASSUME NEW e, Has(c, e) PROVE Has(p, e) \/ Has(q, e)
  <2>1. PICK i \in 1..(Len(p) + Len(q)) : c[i] = e
    BY <1>3, <1>4 DEF Has
  <2>2. CASE i <= Len(p)
    BY <1>1, <1>2, <2>1, <2>2 DEF Has
  <2>3. CASE ~(i <= Len(p))
    <3>1. i - Len(p) \in 1..Len(q)
      BY <1>1, <2>3
    <3> QED BY <1>1, <1>2, <2>1, <2>3, <3>1 DEF Has
  <2> QED BY <2>2, <2>3
<1>5. ASSUME NEW e, Has(p, e) PROVE Has(c, e)
  BY <1>1, <1>2, <1>3, <1>5 DEF Has
<1>6. ASSUME NEW e, Has(q, e) PROVE Has(c, e)
  <2>1. PICK i \in 1..Len(q) : q[i] = e
    BY <1>1, <1>6 DEF Has
  <2>2. /\ Len(p) + i \in 1..(Len(p) + Len(q)) /\ ~(Len(p) + i <= Len(p))
        /\ (Len(p) + i) - Len(p) = i
    BY <1>1
  <2>3. c[Len(p) + i] = e
    BY <1>2, <2>1, <2>2
  <2> QED BY <1>3, <2>2, <2>3 DEF Has
<1> QED BY <1>2, <1>4, <1>5, <1>6 DEF c, Cat

\* Taking the head keeps everything else.
LEMMA TailHas ==
  ASSUME NEW S, NEW q \in Seq(S), NEW e, q # <<>>, Head(q) # e
  PROVE  Has(Tail(q), e) <=> Has(q, e)
<1>1. /\ Head(q) = q[1]
      /\ \A k \in DOMAIN Tail(q) : k + 1 \in DOMAIN q /\ Tail(q)[k] = q[k + 1]
      /\ \A k \in DOMAIN q : k # 1 => k - 1 \in DOMAIN Tail(q) /\ Tail(q)[k - 1] = q[k]
  BY TailOfQueue
<1>2. ASSUME Has(Tail(q), e) PROVE Has(q, e)
  BY <1>1, <1>2 DEF Has
<1>3. ASSUME Has(q, e) PROVE Has(Tail(q), e)
  <2>1. PICK k \in DOMAIN q : q[k] = e
    BY <1>3 DEF Has
  <2>2. k # 1
    BY <1>1, <2>1
  <2> QED BY <1>1, <2>1, <2>2 DEF Has
<1> QED BY <1>2, <1>3

\* What a queue holds once an entry is put behind it.
LEMMA AppendHas ==
  ASSUME NEW S, NEW q \in Seq(S), NEW x \in S
  PROVE  \A e : Has(Append(q, x), e) <=> Has(q, e) \/ e = x
<1> DEFINE a == Append(q, x)
<1>1. /\ Len(q) \in Nat /\ DOMAIN q = 1..Len(q) /\ DOMAIN a = 1..(Len(q) + 1)
      /\ \A k \in 1..Len(q) : a[k] = q[k]
      /\ a[Len(q) + 1] = x
  BY EndOfQueue, LenProperties
<1> HIDE DEF a
<1>2. \A e : Has(a, e) <=> Has(q, e) \/ e = x
  BY <1>1 DEF Has
<1> QED BY <1>2 DEF a

\* Taking the head adds nothing.
LEMMA TailHasNoMore ==
  ASSUME NEW S, NEW q \in Seq(S), q # <<>>
  PROVE  \A e : Has(Tail(q), e) => Has(q, e)
<1>1. \A k \in DOMAIN Tail(q) : k + 1 \in DOMAIN q /\ Tail(q)[k] = q[k + 1]
  BY TailOfQueue
<1> QED BY <1>1 DEF Has

\* A sequence s of numbers, none above n, each above those in front of it.
Below(s, n) == \A i \in DOMAIN s : s[i] \in 1..n
Increasing(s) == \A i, j \in DOMAIN s : i < j => s[i] < s[j]

\* Appending the next number keeps both facts.
LEMMA AppendNext ==
  ASSUME NEW s \in Seq(Nat), NEW n \in Nat, Below(s, n), Increasing(s)
  PROVE  LET t == Append(s, n + 1) IN Below(t, n + 1) /\ Increasing(t)
<1> DEFINE t == Append(s, n + 1)
<1>1. /\ DOMAIN s = 1..Len(s)
      /\ Len(s) \in Nat
      /\ DOMAIN t = 1..(Len(s) + 1)
      /\ \A i \in 1..Len(s) : t[i] = s[i]
      /\ t[Len(s) + 1] = n + 1
  BY AppendProperties
<1>2. \A i \in 1..Len(s) : s[i] \in 1..n
  BY <1>1 DEF Below
<1>3. \A i, j \in 1..Len(s) : i < j => s[i] < s[j]
  BY <1>1 DEF Increasing
<1> HIDE DEF t
<1>4. Below(t, n + 1)
  BY <1>1, <1>2 DEF Below
<1>5. Increasing(t)
  BY <1>1, <1>2, <1>3 DEF Increasing
<1> QED BY <1>4, <1>5 DEF t

-----------------------------------------------------------------------------
(* Numbers: induction by way of the least number for which a claim fails.  *)

\* A set of natural numbers that is not empty has a least element.
LEMMA LeastNumber ==
  ASSUME NEW T \in SUBSET Nat, T # {}
  PROVE  \E x \in T : \A y \in T : x <= y
<1>1. IsWellFoundedOn(OpToRel(<, Nat), Nat)
  BY NatLessThanWellFounded
<1>2. \E x \in T : \A y \in T : ~(<<y, x>> \in OpToRel(<, Nat))
  BY <1>1, WFMin
<1>3. ASSUME NEW x \in Nat, NEW y \in Nat, ~(<<y, x>> \in OpToRel(<, Nat))
      PROVE  x <= y
  BY <1>3 DEF OpToRel
<1> QED BY <1>2, <1>3

\* A set with 0 and with the successor of each of its elements has every number.
LEMMA EveryNumber ==
  ASSUME NEW T, NEW n \in Nat, 0 \in T, \A k \in 0..(n - 1) : k \in T => k + 1 \in T
  PROVE  \A k \in 0..n : k \in T
<1> DEFINE U == {k \in 0..n : k \notin T}
<1> SUFFICES ASSUME U # {} PROVE FALSE
  OBVIOUS
<1>1. U \in SUBSET Nat
  OBVIOUS
<1>2. PICK k \in U : \A y \in U : k <= y
  <2> HIDE DEF U
  <2> QED BY <1>1, LeastNumber
<1>3. k \in 0..n /\ k # 0
  OBVIOUS
<1>4. k - 1 \in 0..(n - 1) /\ k - 1 \notin U
  BY <1>2, <1>3
<1>5. k - 1 \in T
  BY <1>3, <1>4
<1>6. (k - 1) + 1 = k
  BY <1>3
<1> QED BY <1>4, <1>5, <1>6
=============================================================================
