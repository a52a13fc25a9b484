-------------------------- MODULE HttpServerProofs --------------------------
(***************************************************************************)
(* Proofs about HttpServer with its parser, for every set of messages and  *)
(* every number of them on one connection.                                 *)
(***************************************************************************)
EXTENDS HttpServer, QueueLemmas

(* The stream: what FlattenSeq computes.  Facts about all prefixes of a    *)
(* sequence are proved by looking at the shortest one that fails.          *)

\* f gives the concatenations of the first entries of s, up to n of them.
Partial(s, n, f) ==
  f = [i \in 1..n |-> IF i = 1 THEN s[i] ELSE Cat(f[i - 1], s[i])]

\* They exist.
LEMMA PartialExists ==
  ASSUME NEW s, NEW n \in Nat
  PROVE  \E f : Partial(s, n, f)
<1> DEFINE T == {k \in 0..n : \E f : Partial(s, k, f)}
<1>1. 0 \in T
  <2> DEFINE g == [i \in 1..0 |-> s[i]]
  <2>1. g = [i \in 1..0 |-> IF i = 1 THEN s[i] ELSE Cat(g[i - 1], s[i])]
    OBVIOUS
  <2>2. Partial(s, 0, g)
    <3> HIDE DEF g
    <3> QED BY <2>1 DEF Partial
  <2> QED BY <2>2
<1>2. ASSUME NEW k \in 0..(n - 1), k \in T PROVE k + 1 \in T
  <2>1. PICK f : Partial(s, k, f)
    BY <1>2
  <2>2. \A i \in 1..k : f[i] = IF i = 1 THEN s[i] ELSE Cat(f[i - 1], s[i])
    BY <2>1 DEF Partial
  <2> DEFINE m == k + 1
             last == IF m = 1 THEN s[m] ELSE Cat(f[m - 1], s[m])
             g == [i \in 1..m |-> IF i = m THEN last ELSE f[i]]
  <2>3. \A i \in 1..m : g[i] = IF i = 1 THEN s[i] ELSE Cat(g[i - 1], s[i])
    <3> SUFFICES ASSUME NEW i \in 1..m
                 PROVE  g[i] = IF i = 1 THEN s[i] ELSE Cat(g[i - 1], s[i])
      OBVIOUS
    <3>1. i # 1 => i - 1 \in 1..m /\ g[i - 1] = f[i - 1]
      OBVIOUS
    <3>2. CASE i = m
      BY <3>1, <3>2
    <3>3. CASE i # m
      <4>1. i \in 1..k /\ g[i] = f[i]
        BY <3>3
      <4> QED BY <2>2, <3>1, <4>1
    <3> QED BY <3>2, <3>3
  <2>4. g = [i \in 1..m |-> IF i = 1 THEN s[i] ELSE Cat(g[i - 1], s[i])]
    <3>1. DOMAIN g = 1..m /\ g = [i \in 1..m |-> g[i]]
      OBVIOUS
    <3> HIDE DEF g
    <3> QED BY <2>3, <3>1
  <2>5. Partial(s, m, g)
    <3> HIDE DEF g, m
    <3> QED BY <2>4 DEF Partial
  <2>6. k + 1 \in 0..n
    OBVIOUS
  <2> QED BY <2>5, <2>6
<1>3. n \in T
  <2> HIDE DEF T
  <2> QED BY <1>1, <1>2, EveryNumber
<1> QED BY <1>3

\* The first n entries of s are sequences, and entries of t too.
Begins(S, s, t, n) == \A i \in 1..n : s[i] \in Seq(S) /\ t[i] = s[i]

\* They are sequences, and those of a sequence with the same beginning agree.
LEMMA PartialAgree ==
  ASSUME NEW S, NEW s, NEW t, NEW n \in Nat, NEW m \in Nat, n <= m,
         Begins(S, s, t, n), NEW f, Partial(s, n, f), NEW g, Partial(t, m, g)
  PROVE  Begins(S, f, g, n)
<1> USE DEF Begins
<1> DEFINE T == {k \in 0..n : k = 0 \/ (f[k] \in Seq(S) /\ g[k] = f[k])}
<1>1. \A i \in 1..n : f[i] = IF i = 1 THEN s[i] ELSE Cat(f[i - 1], s[i])
  BY DEF Partial
<1>2. \A i \in 1..n : g[i] = IF i = 1 THEN t[i] ELSE Cat(g[i - 1], t[i])
  BY DEF Partial
<1>3. 0 \in T
  OBVIOUS
<1>4. ASSUME NEW k \in 0..(n - 1), k \in T PROVE k + 1 \in T
  <2>1. k + 1 \in 1..n /\ (k + 1) - 1 = k
    OBVIOUS
  <2>2. CASE k = 0
    BY <1>1, <1>2, <2>1, <2>2
  <2>3. CASE k # 0
    <3>1. f[k] \in Seq(S) /\ g[k] = f[k]
      BY <1>4, <2>3
    <3>2. f[k + 1] = Cat(f[k], s[k + 1]) /\ g[k + 1] = Cat(g[k], s[k + 1])
      BY <1>1, <1>2, <2>1, <2>3
    <3>3. Cat(f[k], s[k + 1]) \in Seq(S)
      BY <2>1, <3>1, CatHas
    <3> QED BY <2>1, <3>1, <3>2, <3>3
  <2> QED BY <2>2, <2>3
<1>5. \A k \in 0..n : k \in T
  <2> HIDE DEF T
  <2> QED BY <1>3, <1>4, EveryNumber
<1> QED BY <1>5

\* FlattenSeq is the last of them.
LEMMA FlattenIs ==
  ASSUME NEW S, NEW s \in Seq(Seq(S)), s # <<>>
  PROVE  \E f : Partial(s, Len(s), f) /\ FlattenSeq(s) = f[Len(s)]
<1>1. Len(s) \in Nat /\ Len(s) # 0
  BY LenProperties, EmptySeq
<1> DEFINE n == Len(s)
           f == CHOOSE h : Partial(s, n, h)
<1>2. Partial(s, n, f)
  BY <1>1, PartialExists
<1>3. FlattenSeq(s) = f[Len(s)]
  BY <1>1 DEF FlattenSeq, Partial, Cat
<1> QED BY <1>2, <1>3

\* One more entry.
LEMMA FlattenAppend ==
  ASSUME NEW S, NEW s \in Seq(Seq(S)), NEW x \in Seq(S)
  PROVE  /\ FlattenSeq(s) \in Seq(S)
         /\ FlattenSeq(Append(s, x)) = Cat(FlattenSeq(s), x)
<1> DEFINE t == Append(s, x)
           n == Len(s)
<1>1. /\ t \in Seq(Seq(S)) /\ n \in Nat /\ Len(t) = n + 1
      /\ DOMAIN s = 1..n /\ \A i \in 1..n : s[i] \in Seq(S) /\ t[i] = s[i]
      /\ t[n + 1] = x
  BY EndOfQueue, LenProperties
<1>2. t # <<>>
  BY <1>1
<1> HIDE DEF t
<1>3. PICK g : Partial(t, n + 1, g) /\ FlattenSeq(t) = g[n + 1]
  BY <1>1, <1>2, FlattenIs
<1>4. g[n + 1] = IF n + 1 = 1 THEN x ELSE Cat(g[n], x)
  <2>1. n + 1 \in 1..(n + 1) /\ (n + 1) - 1 = n
    BY <1>1
  <2> HIDE DEF n
  <2> QED BY <1>1, <1>3, <2>1 DEF Partial
<1>5. CASE s = <<>>
  <2>1. n = 0
    BY <1>5
  <2>2. FlattenSeq(s) = <<>>
    BY <1>5 DEF FlattenSeq
  <2>3. Cat(<<>>, x) = x
    BY DEF Cat
  <2>4. FlattenSeq(t) = x
    BY <1>3, <1>4, <2>1
  <2> QED BY <2>2, <2>3, <2>4 DEF t
<1>6. CASE s # <<>>
  <2>1. PICK f : Partial(s, n, f) /\ FlattenSeq(s) = f[n]
    BY <1>6, FlattenIs
  <2>2. n # 0 /\ n \in 1..n /\ n <= n + 1 /\ n + 1 \in Nat
    BY <1>1, <1>6, EmptySeq
  <2> HIDE DEF n
  <2>3. \A i \in 1..n : f[i] \in Seq(S) /\ g[i] = f[i]
    <3> PICK m \in Nat : m = n + 1
      BY <2>2
    <3>1. Begins(S, s, t, n)
      BY <1>1 DEF Begins
    <3>2. n \in Nat /\ n <= m
      BY <1>1, <2>2
    <3>3. Partial(t, m, g) /\ Partial(s, n, f)
      BY <1>3, <2>1
    <3>4. Begins(S, f, g, n)
      BY <3>1, <3>2, <3>3, PartialAgree
    <3> QED BY <3>4 DEF Begins
  <2> QED BY <1>1, <1>3, <1>4, <2>1, <2>2, <2>3 DEF t
<1> QED BY <1>5, <1>6

\* The concatenation of the first k entries.
Upto(s, k) == FlattenSeq(SubSeq(s, 1, k))

\* It grows by one entry at a time, up to all of them.
LEMMA UptoGrows ==
  ASSUME NEW S, NEW s \in Seq(Seq(S))
  PROVE  /\ Upto(s, 0) = <<>> /\ Upto(s, Len(s)) = FlattenSeq(s)
         /\ \A k \in 0..Len(s) : Upto(s, k) \in Seq(S)
         /\ \A k \in 0..(Len(s) - 1) : Upto(s, k + 1) = Cat(Upto(s, k), s[k + 1])
<1>1. Len(s) \in Nat /\ DOMAIN s = 1..Len(s)
  BY LenProperties
<1>2. Upto(s, 0) = <<>>
  <2>1. SubSeq(s, 1, 0) = <<>>
    BY <1>1
  <2> QED BY <2>1 DEF Upto, FlattenSeq
<1>3. Upto(s, Len(s)) = FlattenSeq(s)
  <2>1. SubSeq(s, 1, Len(s)) = s
    BY SubSeqFull
  <2> QED BY <2>1 DEF Upto
<1>4. ASSUME NEW k \in 0..Len(s) PROVE SubSeq(s, 1, k) \in Seq(Seq(S))
  BY <1>1, <1>4, CutInTwo
<1>5. ASSUME NEW k \in 0..Len(s) PROVE Upto(s, k) \in Seq(S)
  <2>1. <<>> \in Seq(S)
    OBVIOUS
  <2> QED BY <1>4, <2>1, FlattenAppend DEF Upto
<1>6. ASSUME NEW k \in 0..(Len(s) - 1)
      PROVE  Upto(s, k + 1) = Cat(Upto(s, k), s[k + 1])
  <2>1. k \in 0..Len(s) /\ k + 1 \in 1..Len(s) /\ s[k + 1] \in Seq(S)
    BY <1>1
  <2>2. SubSeq(s, 1, k + 1) = Append(SubSeq(s, 1, k), s[k + 1])
    BY <1>1, <2>1
  <2>3. SubSeq(s, 1, k) \in Seq(Seq(S))
    BY <1>4, <2>1
  <2> QED BY <2>1, <2>2, <2>3, FlattenAppend DEF Upto
<1> QED BY <1>2, <1>3, <1>5, <1>6

\* Sequence c is p with q behind it.
Parts(c, p, q) ==
  /\ Len(c) = Len(p) + Len(q) /\ Len(p) \in Nat /\ Len(q) \in Nat
  /\ \A i \in 1..Len(p) : c[i] = p[i]
  /\ \A i \in 1..Len(q) : c[Len(p) + i] = q[i]

\* The parts of a concatenation.
LEMMA PartsOfCat ==
  ASSUME NEW S, NEW p \in Seq(S), NEW q \in Seq(S)
  PROVE  Parts(Cat(p, q), p, q) /\ Cat(p, q) \in Seq(S)
<1>1. Len(p) \in Nat /\ Len(q) \in Nat
  BY LenProperties
<1>2. /\ p \o q \in Seq(S) /\ Len(p \o q) = Len(p) + Len(q)
      /\ \A i \in 1..(Len(p) + Len(q)) : (p \o q)[i] = IF i <= Len(p) THEN p[i] ELSE q[i - Len(p)]
  BY ConcatProperties
<1>3. ASSUME NEW i \in 1..Len(q) PROVE (p \o q)[Len(p) + i] = q[i]
  <2>1. /\ Len(p) + i \in 1..(Len(p) + Len(q)) /\ ~(Len(p) + i <= Len(p))
        /\ (Len(p) + i) - Len(p) = i
    BY <1>1
  <2> QED BY <1>2, <2>1
<1> QED BY <1>1, <1>2, <1>3 DEF Cat, Parts

\* x stands in q behind the first b entries.
At(q, b, x) == Len(q) >= b + Len(x) /\ \A i \in 1..Len(x) : q[b + i] = x[i]

\* It still does when something is put behind q, and it does when it is put
\* there itself.
LEMMA AtCat ==
  ASSUME NEW S, NEW p \in Seq(S), NEW q \in Seq(S)
  PROVE  /\ At(Cat(p, q), Len(p), q)
         /\ \A b \in Nat : \A x \in Seq(S) : At(p, b, x) => At(Cat(p, q), b, x)
<1>1. /\ Cat(p, q) \in Seq(S) /\ Len(Cat(p, q)) = Len(p) + Len(q)
      /\ Len(p) \in Nat /\ Len(q) \in Nat
      /\ \A i \in 1..Len(p) : Cat(p, q)[i] = p[i]
      /\ \A i \in 1..Len(q) : Cat(p, q)[Len(p) + i] = q[i]
  <2>1. Parts(Cat(p, q), p, q) /\ Cat(p, q) \in Seq(S)
    BY PartsOfCat
  <2> QED BY <2>1 DEF Parts
<1>2. At(Cat(p, q), Len(p), q)
  BY <1>1 DEF At
<1>3. ASSUME NEW b \in Nat, NEW x \in Seq(S), At(p, b, x)
      PROVE  At(Cat(p, q), b, x)
  <2>1. Len(x) \in Nat /\ Len(p) >= b + Len(x) /\ \A i \in 1..Len(x) : p[b + i] = x[i]
    BY <1>3, LenProperties DEF At
  <2>2. \A i \in 1..Len(x) : b + i \in 1..Len(p)
    BY <1>1, <2>1
  <2>3. Len(Cat(p, q)) >= b + Len(x)
    BY <1>1, <2>1
  <2> QED BY <1>1, <2>1, <2>2, <2>3 DEF At
<1> QED BY <1>2, <1>3

\* Where an entry is in the concatenation.
LEMMA FlattenLayout ==
  ASSUME NEW S, NEW s \in Seq(Seq(S)), NEW j \in 1..Len(s)
  PROVE  /\ FlattenSeq(s) \in Seq(S)
         /\ Upto(s, j - 1) \in Seq(S) /\ s[j] \in Seq(S)
         /\ Len(Upto(s, j)) = Len(Upto(s, j - 1)) + Len(s[j])
         /\ At(FlattenSeq(s), Len(Upto(s, j - 1)), s[j])
<1>1. Len(s) \in Nat /\ \A i \in 1..Len(s) : s[i] \in Seq(S)
  BY LenProperties
<1>2. /\ Upto(s, Len(s)) = FlattenSeq(s)
      /\ \A k \in 0..Len(s) : Upto(s, k) \in Seq(S)
      /\ \A k \in 0..(Len(s) - 1) : Upto(s, k + 1) = Cat(Upto(s, k), s[k + 1])
  BY UptoGrows
<1>3. j - 1 \in 0..(Len(s) - 1) /\ (j - 1) + 1 = j /\ j - 1 \in 0..Len(s)
  BY <1>1
<1>4. Upto(s, j - 1) \in Seq(S) /\ s[j] \in Seq(S)
  BY <1>1, <1>2, <1>3
<1>5. Upto(s, j) = Cat(Upto(s, j - 1), s[j])
  BY <1>2, <1>3
<1>6. PICK b \in Nat : b = Len(Upto(s, j - 1))
  BY <1>4, LenProperties
<1>7. Len(Upto(s, j)) = b + Len(s[j]) /\ At(Upto(s, j), b, s[j])
  <2>1. Len(Upto(s, j)) = Len(Upto(s, j - 1)) + Len(s[j])
    <3>1. Parts(Cat(Upto(s, j - 1), s[j]), Upto(s, j - 1), s[j])
      BY <1>4, PartsOfCat
    <3> QED BY <1>5, <3>1 DEF Parts
  <2>2. At(Upto(s, j), Len(Upto(s, j - 1)), s[j])
    BY <1>4, <1>5, AtCat
  <2> QED BY <1>6, <2>1, <2>2
<1>8. PICK x \in Seq(S) : x = s[j]
  BY <1>4
<1> DEFINE T == {k \in 0..Len(s) : k < j \/ At(Upto(s, k), b, x)}
<1>9. 0 \in T
  BY <1>1
<1>10. ASSUME NEW k \in 0..(Len(s) - 1), k \in T PROVE k + 1 \in T
  <2>1. k + 1 \in 0..Len(s) /\ k \in 0..Len(s) /\ k + 1 \in 1..Len(s)
    BY <1>1
  <2>2. CASE k + 1 < j
    BY <2>1, <2>2
  <2>3. CASE k + 1 = j
    BY <1>7, <1>8, <2>1, <2>3
  <2>4. CASE k + 1 > j
    <3>1. At(Upto(s, k), b, x)
      BY <1>10, <2>4
    <3>2. Upto(s, k) \in Seq(S) /\ s[k + 1] \in Seq(S)
      BY <1>1, <1>2, <2>1
    <3>3. Upto(s, k + 1) = Cat(Upto(s, k), s[k + 1])
      BY <1>2
    <3>4. At(Upto(s, k + 1), b, x)
      BY <3>1, <3>2, <3>3, AtCat
    <3> QED BY <2>1, <3>4
  <2>5. k + 1 < j \/ k + 1 = j \/ k + 1 > j
    BY <2>1
  <2> HIDE DEF T
  <2> QED BY <2>2, <2>3, <2>4, <2>5
<1>11. Len(s) \in 0..Len(s)
  BY <1>1
<1>12. At(FlattenSeq(s), b, x)
  <2>1. Len(s) \in T
    <3> HIDE DEF T
    <3> QED BY <1>1, <1>9, <1>10, <1>11, EveryNumber
  <2>2. ~(Len(s) < j)
    BY <1>1
  <2> QED BY <1>2, <2>1, <2>2
<1> QED BY <1>2, <1>4, <1>6, <1>7, <1>8, <1>11, <1>12

\* What stands in the second part stands in the whole, further behind.
LEMMA AtBehind ==
  ASSUME NEW S, NEW p \in Seq(S), NEW q \in Seq(S), NEW b \in Nat, NEW x \in Seq(S),
         At(q, b, x)
  PROVE  At(Cat(p, q), Len(p) + b, x)
<1>1. /\ Len(Cat(p, q)) = Len(p) + Len(q) /\ Len(p) \in Nat /\ Len(q) \in Nat
      /\ \A i \in 1..Len(q) : Cat(p, q)[Len(p) + i] = q[i]
  <2>1. Parts(Cat(p, q), p, q)
    BY PartsOfCat
  <2> QED BY <2>1 DEF Parts
<1>2. Len(x) \in Nat /\ Len(q) >= b + Len(x) /\ \A i \in 1..Len(x) : q[b + i] = x[i]
  BY LenProperties DEF At
<1>3. ASSUME NEW i \in 1..Len(x) PROVE Cat(p, q)[(Len(p) + b) + i] = x[i]
  <2>1. b + i \in 1..Len(q) /\ (Len(p) + b) + i = Len(p) + (b + i)
    BY <1>1, <1>2
  <2> QED BY <1>1, <1>2, <2>1
<1>4. Len(Cat(p, q)) >= (Len(p) + b) + Len(x)
  BY <1>1, <1>2
<1> QED BY <1>3, <1>4 DEF At

\* What stands in something that stands in q stands in q.
LEMMA AtWithin ==
  ASSUME NEW S, NEW q \in Seq(S), NEW b \in Nat, NEW w \in Seq(S), At(q, b, w),
         NEW c \in Nat, NEW x \in Seq(S), At(w, c, x)
  PROVE  At(q, b + c, x)
<1>1. /\ Len(x) \in Nat /\ Len(w) \in Nat /\ Len(q) \in Nat
      /\ Len(q) >= b + Len(w) /\ \A i \in 1..Len(w) : q[b + i] = w[i]
      /\ Len(w) >= c + Len(x) /\ \A i \in 1..Len(x) : w[c + i] = x[i]
  BY LenProperties DEF At
<1>2. ASSUME NEW i \in 1..Len(x) PROVE q[(b + c) + i] = x[i]
  <2>1. c + i \in 1..Len(w) /\ (b + c) + i = b + (c + i)
    BY <1>1
  <2> QED BY <1>1, <2>1
<1>3. Len(q) >= (b + c) + Len(x)
  BY <1>1
<1> QED BY <1>2, <1>3 DEF At

-----------------------------------------------------------------------------
(* Where the parts of a message are in the stream.                         *)

Symbols == Texts \cup Bytes \cup {CR, LF}

\* Neither CR nor LF is a text.
LEMMA LineEndSymbols ==
  /\ CR \in Symbols /\ LF \in Symbols /\ CR # LF
  /\ \A t \in Texts : t # CR /\ t \in Symbols
  /\ \A q \in Seq(Bytes) : q \in Seq(Symbols)
<1>1. \A t \in Texts : t[1] # "byte"
  BY DEF Texts
<1>2. CR[1] = "byte" /\ CR # LF
  BY DEF CR, LF
<1>3. Bytes \subseteq Symbols /\ Texts \subseteq Symbols /\ CR \in Symbols /\ LF \in Symbols
  BY DEF Symbols
<1>4. \A q \in Seq(Bytes) : q \in Seq(Symbols)
  BY <1>3
<1> QED BY <1>1, <1>2, <1>3, <1>4

\* A line of text with its end.
TextLine(t) == <<t, CR, LF>>

\* It is three symbols.
LEMMA TextLineIs ==
  ASSUME NEW t \in Texts
  PROVE  /\ TextLine(t) \in Seq(Symbols) /\ Len(TextLine(t)) = 3
         /\ TextLine(t)[1] = t /\ TextLine(t)[2] = CR /\ TextLine(t)[3] = LF
<1>1. t \in Symbols /\ CR \in Symbols /\ LF \in Symbols
  BY LineEndSymbols
<1> QED BY <1>1 DEF TextLine

\* The header lines of a message.
HeaderLines(hs) == [i \in DOMAIN hs |-> TextLine(hs[i])]

\* Every third symbol begins a header line.
LEMMA HeaderLayout ==
  ASSUME NEW hs \in Seq(Texts)
  PROVE  /\ FlattenSeq(HeaderLines(hs)) \in Seq(Symbols)
         /\ Len(FlattenSeq(HeaderLines(hs))) = 3 * Len(hs)
         /\ \A k \in 1..Len(hs) :
              At(FlattenSeq(HeaderLines(hs)), 3 * (k - 1), TextLine(hs[k]))
<1> DEFINE s == HeaderLines(hs)
           n == Len(hs)
<1>1. n \in Nat /\ DOMAIN hs = 1..n /\ \A i \in 1..n : hs[i] \in Texts
  BY LenProperties
<1>2. \A i \in 1..n : TextLine(hs[i]) \in Seq(Symbols) /\ Len(TextLine(hs[i])) = 3
  BY <1>1, TextLineIs
<1>3. s \in Seq(Seq(Symbols)) /\ Len(s) = n /\ \A i \in 1..n : s[i] = TextLine(hs[i])
  BY <1>1, <1>2 DEF HeaderLines
<1> HIDE DEF s, n
<1>4. /\ Upto(s, 0) = <<>> /\ Upto(s, n) = FlattenSeq(s)
      /\ \A k \in 0..n : Upto(s, k) \in Seq(Symbols)
  BY <1>3, UptoGrows
<1>5. \A k \in 1..n :
        /\ Len(Upto(s, k)) = Len(Upto(s, k - 1)) + Len(s[k])
        /\ At(FlattenSeq(s), Len(Upto(s, k - 1)), s[k])
  BY <1>3, FlattenLayout
<1> DEFINE T == {k \in 0..n : Len(Upto(s, k)) = 3 * k}
<1>6. 0 \in T
  BY <1>1, <1>4
<1>7. ASSUME NEW k \in 0..(n - 1), k \in T PROVE k + 1 \in T
  <2>1. k + 1 \in 1..n /\ (k + 1) - 1 = k /\ k + 1 \in 0..n
    BY <1>1
  <2>2. Len(Upto(s, k + 1)) = Len(Upto(s, k)) + 3
    BY <1>2, <1>3, <1>5, <2>1
  <2> QED BY <1>7, <2>1, <2>2
<1>8. \A k \in 0..n : k \in T
  <2> HIDE DEF T
  <2> QED BY <1>1, <1>6, <1>7, EveryNumber
<1>9. \A k \in 0..n : Len(Upto(s, k)) = 3 * k
  BY <1>8
<1>10. ASSUME NEW k \in 1..n PROVE At(FlattenSeq(s), 3 * (k - 1), TextLine(hs[k]))
  <2>1. k - 1 \in 0..n
    BY <1>1
  <2> QED BY <1>3, <1>5, <1>9, <2>1
<1>11. n \in 0..n
  BY <1>1
<1> QED BY <1>4, <1>9, <1>10, <1>11 DEF s, n
\* A message on the wire, part by part: the header lines end where the empty
\* line begins, and the body follows that.
Laid(s, b, m) ==
  /\ At(s, b, TextLine(m.line))
  /\ \A k \in 1..Len(m.headers) : At(s, b + 3 * k, TextLine(m.headers[k]))
  /\ At(s, b + (3 * Len(m.headers) + 3), <<CR, LF>>)
  /\ At(s, b + (3 * Len(m.headers) + 5), m.body)

\* What the assumption says of one message.
IsMessage(m) == m.line \in Texts /\ m.headers \in Seq(Texts) /\ m.body \in Seq(Bytes)

\* The layout of one message.
LEMMA WireIs ==
  ASSUME NEW m, IsMessage(m)
  PROVE  /\ Wire(m) \in Seq(Symbols) /\ Laid(Wire(m), 0, m)
         /\ Len(Wire(m)) = 3 * Len(m.headers) + 5 + Len(m.body)
<1> DEFINE a == TextLine(m.line)
           h == FlattenSeq(HeaderLines(m.headers))
           e == <<CR, LF>>
           H == Len(m.headers)
           ah == Cat(a, h)
           ahe == Cat(ah, e)
           w == Cat(ahe, m.body)
<1>1. m.line \in Texts /\ m.headers \in Seq(Texts) /\ m.body \in Seq(Symbols)
  BY LineEndSymbols DEF IsMessage
<1>2. a \in Seq(Symbols) /\ Len(a) = 3
  BY <1>1, TextLineIs
<1>3. h \in Seq(Symbols) /\ Len(h) = 3 * H
      /\ \A k \in 1..H : At(h, 3 * (k - 1), TextLine(m.headers[k]))
  BY <1>1, HeaderLayout
<1>4. e \in Seq(Symbols) /\ Len(e) = 2
  BY LineEndSymbols
<1>5. H \in Nat /\ Len(m.body) \in Nat /\ \A k \in 1..H : m.headers[k] \in Texts
  BY <1>1, LenProperties
<1>6. Wire(m) = w
  BY DEF Wire, Cat, TextLine, HeaderLines
<1> HIDE DEF a, h, e, H, ah, ahe, w
<1>7. ah \in Seq(Symbols) /\ Len(ah) = 3 * H + 3
  <2>1. Parts(Cat(a, h), a, h) /\ Cat(a, h) \in Seq(Symbols)
    BY <1>2, <1>3, PartsOfCat
  <2> QED BY <1>2, <1>3, <1>5, <2>1 DEF Parts, ah
<1>8. ahe \in Seq(Symbols) /\ Len(ahe) = 3 * H + 5
  <2>1. Parts(Cat(ah, e), ah, e) /\ Cat(ah, e) \in Seq(Symbols)
    BY <1>4, <1>7, PartsOfCat
  <2> QED BY <1>4, <1>5, <1>7, <2>1 DEF Parts, ahe
<1>9. w \in Seq(Symbols) /\ Len(w) = 3 * H + 5 + Len(m.body)
  <2>1. Parts(Cat(ahe, m.body), ahe, m.body) /\ Cat(ahe, m.body) \in Seq(Symbols)
    BY <1>1, <1>8, PartsOfCat
  <2> QED BY <1>5, <1>8, <2>1 DEF Parts, w
<1>10. ASSUME NEW b \in Nat, NEW x \in Seq(Symbols), At(ah, b, x) PROVE At(w, b, x)
  <2>1. At(ahe, b, x)
    BY <1>4, <1>7, <1>10, AtCat DEF ahe
  <2> QED BY <1>1, <1>8, <2>1, AtCat DEF w
<1>11. At(w, 0, TextLine(m.line))
  <2>1. At(a, 0, a)
    BY <1>2 DEF At
  <2>2. At(ah, 0, a)
    BY <1>2, <1>3, <2>1, AtCat DEF ah
  <2> QED BY <1>2, <1>10, <2>2 DEF a
<1>12. ASSUME NEW k \in 1..H PROVE At(w, 3 * k, TextLine(m.headers[k]))
  <2>1. 3 * (k - 1) \in Nat /\ 3 + 3 * (k - 1) = 3 * k /\ 3 * k \in Nat
    BY <1>5
  <2>2. PICK x \in Seq(Symbols) : x = TextLine(m.headers[k])
    BY <1>5, TextLineIs
  <2>3. At(h, 3 * (k - 1), x)
    BY <1>3, <2>2
  <2>4. At(Cat(a, h), Len(a) + 3 * (k - 1), x)
    BY <1>2, <1>3, <2>1, <2>3, AtBehind
  <2>5. At(ah, 3 * k, x)
    BY <1>2, <2>1, <2>4 DEF ah
  <2> QED BY <1>10, <2>1, <2>2, <2>5
<1>13. At(w, 3 * H + 3, e)
  <2>1. At(ahe, 3 * H + 3, e)
    BY <1>4, <1>7, AtCat DEF ahe
  <2> QED BY <1>1, <1>4, <1>5, <1>8, <2>1, AtCat DEF w
<1>14. At(w, 3 * H + 5, m.body)
  BY <1>1, <1>8, AtCat DEF w
<1>15. Laid(w, 0, m)
  <2>1. 0 + (3 * H + 3) = 3 * H + 3 /\ 0 + (3 * H + 5) = 3 * H + 5
        /\ \A k \in 1..H : 0 + 3 * k = 3 * k
    BY <1>5
  <2> QED BY <1>11, <1>12, <1>13, <1>14, <2>1 DEF Laid, e, H
<1> QED BY <1>6, <1>9, <1>15 DEF H

\* The layout of the whole stream.
LEMMA StreamIs ==
  ASSUME NEW ms \in Seq(Messages), NEW i \in 1..Len(ms), \A m \in Messages : IsMessage(m)
  PROVE  /\ StreamOf(ms) \in Seq(Symbols)
         /\ Len(StreamOf(SubSeq(ms, 1, i - 1))) \in Nat
         /\ Laid(StreamOf(ms), Len(StreamOf(SubSeq(ms, 1, i - 1))), ms[i])
         /\ Len(StreamOf(SubSeq(ms, 1, i))) = Len(StreamOf(SubSeq(ms, 1, i - 1)))
              + (3 * Len(ms[i].headers) + 5 + Len(ms[i].body))
<1> DEFINE Wires(q) == [j \in DOMAIN q |-> Wire(q[j])]
           s == Wires(ms)
           m == ms[i]
           H == Len(m.headers)
<1>1. Len(ms) \in Nat /\ DOMAIN ms = 1..Len(ms) /\ \A j \in 1..Len(ms) : ms[j] \in Messages
  BY LenProperties
<1>2. \A j \in 1..Len(ms) : Wire(ms[j]) \in Seq(Symbols)
  BY <1>1, WireIs
<1>3. s \in Seq(Seq(Symbols)) /\ Len(s) = Len(ms) /\ s[i] = Wire(m)
  BY <1>1, <1>2
<1>4. \A k \in 0..Len(ms) : Wires(SubSeq(ms, 1, k)) = SubSeq(s, 1, k)
  <2> SUFFICES ASSUME NEW k \in 0..Len(ms)
               PROVE  Wires(SubSeq(ms, 1, k)) = SubSeq(s, 1, k)
    OBVIOUS
  <2>1. /\ SubSeq(ms, 1, k) \in Seq(Messages) /\ DOMAIN SubSeq(ms, 1, k) = 1..k
        /\ \A j \in 1..k : SubSeq(ms, 1, k)[j] = ms[j]
    BY <1>1
  <2>2. /\ SubSeq(s, 1, k) = [j \in 1..k |-> s[j]]
    BY <1>1, <1>3
  <2>3. \A j \in 1..k : s[j] = Wire(ms[j])
    BY <1>1
  <2> HIDE DEF s
  <2> QED BY <2>1, <2>2, <2>3
<1>5. \A k \in 0..Len(ms) : StreamOf(SubSeq(ms, 1, k)) = Upto(s, k)
  <2> SUFFICES ASSUME NEW k \in 0..Len(ms) PROVE StreamOf(SubSeq(ms, 1, k)) = Upto(s, k)
    OBVIOUS
  <2>1. Wires(SubSeq(ms, 1, k)) = SubSeq(s, 1, k)
    BY <1>4
  <2>2. StreamOf(SubSeq(ms, 1, k)) = FlattenSeq(Wires(SubSeq(ms, 1, k)))
    BY DEF StreamOf
  <2> HIDE DEF s, Wires
  <2> QED BY <2>1, <2>2 DEF Upto
<1>6. StreamOf(ms) = FlattenSeq(s)
  BY DEF StreamOf
<1> HIDE DEF s
<1>7. /\ FlattenSeq(s) \in Seq(Symbols)
      /\ Upto(s, i - 1) \in Seq(Symbols) /\ s[i] \in Seq(Symbols)
      /\ Len(Upto(s, i)) = Len(Upto(s, i - 1)) + Len(s[i])
      /\ At(FlattenSeq(s), Len(Upto(s, i - 1)), s[i])
  BY <1>3, FlattenLayout
<1>8. PICK b \in Nat : b = Len(Upto(s, i - 1))
  BY <1>7, LenProperties
<1>9. /\ Laid(Wire(m), 0, m) /\ IsMessage(m) /\ Wire(m) \in Seq(Symbols)
      /\ Len(Wire(m)) = 3 * H + 5 + Len(m.body)
  BY <1>1, WireIs
<1>10. PICK w \in Seq(Symbols) : w = Wire(m) /\ At(FlattenSeq(s), b, w)
  BY <1>3, <1>7, <1>8, <1>9
<1>11. H \in Nat /\ \A k \in 1..H : m.headers[k] \in Texts
  BY <1>9, LenProperties DEF IsMessage
<1>12. ASSUME NEW c \in Nat, NEW x \in Seq(Symbols), At(w, 0 + c, x)
       PROVE  At(FlattenSeq(s), b + c, x)
  BY <1>7, <1>10, <1>12, AtWithin
<1>13. Laid(FlattenSeq(s), b, m)
  <2>1. /\ At(w, 0, TextLine(m.line))
        /\ \A k \in 1..H : At(w, 0 + 3 * k, TextLine(m.headers[k]))
        /\ At(w, 0 + (3 * H + 3), <<CR, LF>>)
        /\ At(w, 0 + (3 * H + 5), m.body)
    BY <1>9, <1>10 DEF Laid
  <2>2. At(FlattenSeq(s), b, TextLine(m.line))
    <3>1. TextLine(m.line) \in Seq(Symbols) /\ 0 + 0 = 0 /\ b + 0 = b
      BY <1>9, TextLineIs DEF IsMessage
    <3> QED BY <1>12, <2>1, <3>1
  <2>3. ASSUME NEW k \in 1..H PROVE At(FlattenSeq(s), b + 3 * k, TextLine(m.headers[k]))
    <3>1. TextLine(m.headers[k]) \in Seq(Symbols) /\ 3 * k \in Nat
      BY <1>11, TextLineIs
    <3> QED BY <1>12, <2>1, <3>1
  <2>4. At(FlattenSeq(s), b + (3 * H + 3), <<CR, LF>>)
    <3>1. <<CR, LF>> \in Seq(Symbols) /\ 3 * H + 3 \in Nat
      BY <1>11, LineEndSymbols
    <3> QED BY <1>12, <2>1, <3>1
  <2>5. At(FlattenSeq(s), b + (3 * H + 5), m.body)
    <3>1. m.body \in Seq(Symbols) /\ 3 * H + 5 \in Nat
      BY <1>9, <1>11, LineEndSymbols DEF IsMessage
    <3> QED BY <1>12, <2>1, <3>1
  <2> QED BY <2>2, <2>3, <2>4, <2>5 DEF Laid
<1>14. i - 1 \in 0..Len(ms) /\ i \in 0..Len(ms)
  BY <1>1
<1>15. /\ StreamOf(SubSeq(ms, 1, i - 1)) = Upto(s, i - 1)
       /\ StreamOf(SubSeq(ms, 1, i)) = Upto(s, i)
  BY <1>5, <1>14
<1> QED BY <1>3, <1>6, <1>7, <1>8, <1>9, <1>13, <1>15

\* No message is no stream, and all messages are all of it.
LEMMA StreamEnds ==
  ASSUME NEW ms \in Seq(Messages)
  PROVE  /\ Len(StreamOf(SubSeq(ms, 1, 0))) = 0
         /\ SubSeq(ms, 1, Len(ms)) = ms
<1>1. SubSeq(ms, 1, 0) = <<>>
  BY LenProperties
<1>2. StreamOf(<<>>) = <<>>
  BY DEF StreamOf, FlattenSeq
<1>3. SubSeq(ms, 1, Len(ms)) = ms
  BY SubSeqFull
<1>4. Len(StreamOf(SubSeq(ms, 1, 0))) = 0
  <2>1. StreamOf(SubSeq(ms, 1, 0)) = <<>>
    BY <1>1, <1>2, Zenon
  <2> QED BY <2>1
<1> QED BY <1>3, <1>4

-----------------------------------------------------------------------------
(* The headers of a request.                                               *)

\* The places in hs of the headers with that key.
Places(hs, key) == {i \in 1..Len(hs) : hs[i][2] = key}

\* What Header looks up.
LEMMA HeaderIs ==
  ASSUME NEW hs, NEW key
  PROVE  Header(hs, key) = IF Places(hs, key) = {} THEN "absent"
                           ELSE LET i == Max(Places(hs, key))
                                IN  IF i = 0 THEN "absent" ELSE hs[i][3]
BY DEF Header, SelectLastInSeq, Places

\* A set of numbers up to n that is not empty has a greatest element, its Max.
LEMMA GreatestNumber ==
  ASSUME NEW n \in Nat, NEW T \in SUBSET (1..n), T # {}
  PROVE  Max(T) \in T /\ \A y \in T : y <= Max(T)
<1> DEFINE U == {k \in 0..n : n - k \in T}
<1>1. U \in SUBSET Nat
  OBVIOUS
<1>2. U # {}
  <2>1. PICK x \in T : TRUE
    OBVIOUS
  <2>2. n - x \in 0..n /\ n - (n - x) = x
    OBVIOUS
  <2> QED BY <2>2
<1>3. PICK k \in U : \A y \in U : k <= y
  <2> HIDE DEF U
  <2> QED BY <1>1, <1>2, LeastNumber
<1>4. n - k \in T /\ k \in 0..n
  OBVIOUS
<1>5. ASSUME NEW y \in T PROVE n - k >= y
  <2>1. n - y \in 0..n /\ n - (n - y) = y
    OBVIOUS
  <2>2. n - y \in U
    BY <2>1
  <2>3. k <= n - y
    BY <1>3, <2>2
  <2> QED BY <1>4, <2>1, <2>3
<1>6. \E x \in T : \A y \in T : x >= y
  BY <1>4, <1>5
<1>7. Max(T) \in T /\ \A y \in T : Max(T) >= y
  BY <1>6 DEF Max
<1>8. \A x, y \in T : x >= y => y <= x
  OBVIOUS
<1> QED BY <1>7, <1>8

\* Of two headers with one key the later one counts, of others the order does not.
LEMMA HeaderAppend ==
  ASSUME NEW hs \in Seq(Texts), NEW k \in 1..Len(hs), NEW key
  PROVE  Header(SubSeq(hs, 1, k), key) =
           IF hs[k][2] = key THEN hs[k][3] ELSE Header(SubSeq(hs, 1, k - 1), key)
<1> DEFINE p == SubSeq(hs, 1, k - 1)
           q == SubSeq(hs, 1, k)
<1>1. /\ Len(hs) \in Nat /\ k \in Nat /\ k - 1 \in Nat /\ k # 0
      /\ Len(p) = k - 1 /\ Len(q) = k /\ \A i \in 1..(k - 1) : p[i] = hs[i]
      /\ \A i \in 1..k : q[i] = hs[i]
  BY LenProperties
<1> HIDE DEF p, q
<1>2. Places(q, key) \in SUBSET (1..k) /\ Places(p, key) \in SUBSET (1..(k - 1))
  BY <1>1 DEF Places
<1>3. CASE hs[k][2] = key
  <2>1. k \in Places(q, key)
    BY <1>1, <1>3 DEF Places
  <2>2. Max(Places(q, key)) \in Places(q, key) /\ k <= Max(Places(q, key))
    BY <1>1, <1>2, <2>1, GreatestNumber
  <2>3. Max(Places(q, key)) = k
    BY <1>1, <1>2, <2>2
  <2>4. Header(q, key) = hs[k][3]
    BY <1>1, <2>1, <2>3, HeaderIs
  <2> QED BY <1>3, <2>4 DEF q
<1>4. CASE hs[k][2] # key
  <2>1. Places(q, key) = Places(p, key)
    BY <1>1, <1>4 DEF Places
  <2>2. CASE Places(p, key) = {}
    <3>1. Header(q, key) = "absent" /\ Header(p, key) = "absent"
      BY <2>1, <2>2, HeaderIs
    <3> QED BY <1>4, <3>1 DEF p, q
  <2>3. CASE Places(p, key) # {}
    <3>1. PICK x : x = Max(Places(p, key))
      OBVIOUS
    <3>2. x \in 1..(k - 1)
      BY <1>1, <1>2, <2>3, <3>1, GreatestNumber
    <3>3. q[x] = hs[x] /\ p[x] = hs[x] /\ x # 0
      BY <1>1, <3>2
    <3>4. Header(q, key) = hs[x][3] /\ Header(p, key) = hs[x][3]
      BY <2>1, <2>3, <3>1, <3>3, HeaderIs
    <3> QED BY <1>4, <3>4 DEF p, q
  <2> QED BY <2>2, <2>3
<1> QED BY <1>3, <1>4

\* The headers of a request after the first k lines.
HeadersOf(hs, k) == [key \in Keys |-> Header(SubSeq(hs, 1, k), key)]

\* They grow as parseCString stores them.
LEMMA HeadersGrow ==
  ASSUME NEW hs \in Seq(Texts)
  PROVE  /\ HeadersOf(hs, 0) = EmptyRequest.headers
         /\ HeadersOf(hs, Len(hs)) = [key \in Keys |-> Header(hs, key)]
         /\ \A k \in 1..Len(hs) :
              HeadersOf(hs, k) = [HeadersOf(hs, k - 1) EXCEPT ![hs[k][2]] = hs[k][3]]
<1>1. HeadersOf(hs, 0) = EmptyRequest.headers
  <2>1. SubSeq(hs, 1, 0) = <<>>
    BY LenProperties
  <2>2. \A key \in Keys : Places(<<>>, key) = {}
    BY DEF Places
  <2>3. \A key \in Keys : Header(<<>>, key) = "absent"
    BY <2>2, HeaderIs
  <2>4. EmptyRequest.headers = [key \in Keys |-> "absent"]
    BY DEF EmptyRequest
  <2> QED BY <2>1, <2>3, <2>4 DEF HeadersOf
<1>2. SubSeq(hs, 1, Len(hs)) = hs
  BY SubSeqFull
<1>3. ASSUME NEW k \in 1..Len(hs)
      PROVE  HeadersOf(hs, k) = [HeadersOf(hs, k - 1) EXCEPT ![hs[k][2]] = hs[k][3]]
  <2>1. \A key \in Keys : Header(SubSeq(hs, 1, k), key) =
          IF hs[k][2] = key THEN hs[k][3] ELSE Header(SubSeq(hs, 1, k - 1), key)
    BY HeaderAppend
  <2> QED BY <2>1 DEF HeadersOf
<1> QED BY <1>1, <1>2, <1>3 DEF HeadersOf

-----------------------------------------------------------------------------
(* The inductive invariant: how far the parser is in the current message.  *)

\* The buffer is what was received of the stream behind its first b symbols.
Window(b) ==
  /\ b \in Nat /\ buffer \in Seq(Symbols) /\ delivered \in 0..Len(Stream)
  /\ b + Len(buffer) = delivered
  /\ \A k \in 1..Len(buffer) : buffer[k] = Stream[b + k]

Working == result \in {"parsing", "kNeedMore"}

\* Nothing of the message that starts behind the first b symbols was parsed.
AtStart(b) ==
  /\ Working /\ state_ = "kStartLine" /\ contentLength_ = 0 /\ bodyReceived_ = 0
  /\ request_ = EmptyRequest
  /\ Window(b)

\* The request with the line of m, its first k headers and this body.
Built(m, k, body) == [version |-> m.line[2], path |-> m.line[3],
                        headers |-> HeadersOf(m.headers, k), body |-> body]

\* The line of message m and k of its headers were parsed, and are good.
GoodUpto(m, k) ==
  m.line[1] = "request" /\ \A j \in 1..k : m.headers[j][1] = "header"

InHeaders(b, m, k) ==
  /\ Working /\ state_ = "kHeaders" /\ contentLength_ = 0 /\ bodyReceived_ = 0
  /\ GoodUpto(m, k)
  /\ request_ = Built(m, k, <<>>)
  /\ Window(b + (3 * k + 3))

\* What m announces.
LengthOf(m) == Header(m.headers, "content-length")

\* Where the body of m starts.
BodyAt(b, m) == b + (3 * Len(m.headers) + 5)

\* Some of the body of m was taken, and not all of it.
InBody(b, m) ==
  /\ Working /\ state_ = "kBody"
  /\ GoodUpto(m, Len(m.headers))
  /\ LengthOf(m) \in DOMAIN stoul /\ contentLength_ = stoul[LengthOf(m)]
  /\ bodyReceived_ \in 0..(contentLength_ - 1)
  /\ request_ = Built(m, Len(m.headers), request_.body)
  /\ request_.body \in Seq(Symbols) /\ Len(request_.body) = bodyReceived_
  /\ \A j \in 1..bodyReceived_ : request_.body[j] = Stream[BodyAt(b, m) + j]
  /\ Window(BodyAt(b, m) + bodyReceived_)

\* Message m was parsed, and ends behind the first e symbols.
Done(e, m) ==
  /\ result = "kSuccess"
  /\ WellFormed(m) /\ request_ = Meant(m)
  /\ Window(e)

\* Message m was rejected.
Failed(m) == result = "kError" /\ ~WellFormed(m)

\* The requests handed out so far were the first messages, and the parser is
\* at the start of the next one or in it.
Position ==
  LET n == Len(served)
  IN  /\ n \in 0..Len(messages)
      /\ \/ AtStart(EndOf(n))
         \/ /\ n + 1 \in DOMAIN messages
            /\ \/ \E k \in 0..Len(messages[n + 1].headers) :
                    InHeaders(EndOf(n), messages[n + 1], k)
               \/ InBody(EndOf(n), messages[n + 1])
               \/ Done(EndOf(n + 1), messages[n + 1])
               \/ Failed(messages[n + 1])

\* A sequence of whatever.
IsSeq(s) == \E S : s \in Seq(S)

\* A response that nobody has filled in yet.
Fresh(r) == r = [version |-> r.version, status |-> 200, body |-> 0,
                 headers |-> [k \in ResponseKeys |-> "absent"]]

\* An open connection has answered every request, and ends none.
Open ==
  connState = "kConnected" =>
    /\ Intact(Len(served)) /\ Len(sent) = Len(served)
    /\ \A i \in DOMAIN sent : ~Shuts(sent[i])

\* The client's messages, and the histories.
Shape ==
  /\ messages \in Seq(Messages) /\ Len(messages) \in 1..MaxPipelined
  /\ IsSeq(served) /\ IsSeq(sent)

\* After a broken message is rejected nothing is known of the parser, and
\* nothing that it makes of the rest is sent.
IInv ==
  /\ Shape /\ Fresh(response_) /\ Open
  /\ connState = "kConnected" \/ Intact(Len(served) + 1) => Position
  /\ RequestsAsSent /\ AnswersInOrder

-----------------------------------------------------------------------------
(* The buffer.                                                             *)

\* What stands in the stream where the buffer starts is what it starts with.
LEMMA Ahead ==
  ASSUME NEW b \in Nat, Window(b), NEW x \in Seq(Symbols), At(Stream, b, x)
  PROVE  /\ buffer \in Seq(Symbols) /\ Len(buffer) \in Nat
         /\ \A k \in 1..Len(x) : k <= Len(buffer) => buffer[k] = x[k]
<1>1. buffer \in Seq(Symbols) /\ Len(buffer) \in Nat /\ Len(x) \in Nat
  BY LenProperties DEF Window
<1>2. \A k \in 1..Len(buffer) : buffer[k] = Stream[b + k]
  BY DEF Window
<1>3. \A k \in 1..Len(x) : Stream[b + k] = x[k]
  BY DEF At
<1> QED BY <1>1, <1>2, <1>3

\* The least of a set of numbers is its Min.
LEMMA MinIs ==
  ASSUME NEW T \in SUBSET Nat, NEW x \in T, \A y \in T : x <= y
  PROVE  Min(T) = x
<1>1. Min(T) \in T /\ \A y \in T : Min(T) <= y
  BY DEF Min
<1>2. Min(T) \in Nat /\ Min(T) <= x /\ x <= Min(T)
  BY <1>1
<1> QED BY <1>2

\* Before a line of text, splitLine finds that line or none.
LEMMA TextAhead ==
  ASSUME NEW b \in Nat, NEW t \in Texts, Window(b), At(Stream, b, TextLine(t)),
         LineEnds # {}
  PROVE  /\ Len(buffer) \in Nat /\ Len(buffer) >= 3
         /\ Line = <<t>> /\ Rest = SubSeq(buffer, 4, Len(buffer))
<1>1. /\ TextLine(t) \in Seq(Symbols) /\ Len(TextLine(t)) = 3
      /\ TextLine(t)[1] = t /\ TextLine(t)[2] = CR /\ TextLine(t)[3] = LF
  BY TextLineIs
<1>2. /\ buffer \in Seq(Symbols) /\ Len(buffer) \in Nat
      /\ \A k \in 1..3 : k <= Len(buffer) => buffer[k] = TextLine(t)[k]
  BY <1>1, Ahead
<1>3. /\ 1 <= Len(buffer) => buffer[1] = t
      /\ 2 <= Len(buffer) => buffer[2] = CR
      /\ 3 <= Len(buffer) => buffer[3] = LF
  BY <1>1, <1>2
<1>4. t # CR
  BY LineEndSymbols
<1>5. LineEnds \in SUBSET Nat /\ \A x \in LineEnds : x + 1 <= Len(buffer) /\ 2 <= x
  BY <1>2, <1>3, <1>4 DEF LineEnds
<1>6. Len(buffer) >= 3
  <2>1. PICK x \in LineEnds : x \in Nat /\ x + 1 <= Len(buffer) /\ 2 <= x
    BY <1>5
  <2> QED BY <1>2, <2>1
<1>7. 2 \in LineEnds
  BY <1>2, <1>3, <1>6 DEF LineEnds
<1>8. Min(LineEnds) = 2
  BY <1>5, <1>7, MinIs
<1>9. SubSeq(buffer, 1, 1) = <<t>>
  <2>1. /\ SubSeq(buffer, 1, 1) \in Seq(Symbols) /\ Len(SubSeq(buffer, 1, 1)) = 1
        /\ SubSeq(buffer, 1, 1)[1] = buffer[1]
    BY <1>2, <1>6
  <2>2. <<t>> \in Seq(Symbols) /\ Len(<<t>>) = 1 /\ <<t>>[1] = t
    BY LineEndSymbols
  <2>3. buffer[1] = t
    BY <1>2, <1>3, <1>6
  <2>4. PICK p \in Seq(Symbols) : p = SubSeq(buffer, 1, 1)
    BY <2>1, Zenon
  <2>5. PICK q \in Seq(Symbols) : q = <<t>>
    BY <2>2, Zenon
  <2>6. Len(p) = 1 /\ Len(q) = 1 /\ p[1] = q[1]
    BY <2>1, <2>2, <2>3, <2>4, <2>5
  <2>7. p = q
    BY <2>6, SeqEqual
  <2> QED BY <2>4, <2>5, <2>7
<1> QED BY <1>2, <1>6, <1>8, <1>9 DEF Line, Rest

\* Before the empty line it finds that one or none.
LEMMA BlankAhead ==
  ASSUME NEW b \in Nat, Window(b), At(Stream, b, <<CR, LF>>), LineEnds # {}
  PROVE  /\ Len(buffer) \in Nat /\ Len(buffer) >= 2
         /\ Line = <<>> /\ Rest = SubSeq(buffer, 3, Len(buffer))
<1>1. PICK x \in Seq(Symbols) : x = <<CR, LF>>
  <2>1. <<CR, LF>> \in Seq(Symbols)
    BY LineEndSymbols
  <2> QED BY <2>1, Zenon
<1>2. Len(x) = 2 /\ x[1] = CR /\ x[2] = LF
  BY <1>1
<1>3. /\ buffer \in Seq(Symbols) /\ Len(buffer) \in Nat
      /\ \A k \in 1..2 : k <= Len(buffer) => buffer[k] = x[k]
  BY <1>1, <1>2, Ahead
<1>4. LineEnds \in SUBSET Nat /\ \A y \in LineEnds : y + 1 <= Len(buffer) /\ 1 <= y
  BY <1>3 DEF LineEnds
<1>5. Len(buffer) >= 2
  <2>1. PICK y \in LineEnds : y \in Nat /\ y + 1 <= Len(buffer) /\ 1 <= y
    BY <1>4
  <2> QED BY <1>3, <2>1
<1>6. 1 \in LineEnds
  BY <1>2, <1>3, <1>5 DEF LineEnds
<1>7. Min(LineEnds) = 1
  BY <1>4, <1>6, MinIs
<1>8. SubSeq(buffer, 1, 0) = <<>>
  BY <1>3
<1> QED BY <1>3, <1>5, <1>7, <1>8 DEF Line, Rest

\* Taking the first j symbols moves the window on by j.
LEMMA WindowMoves ==
  ASSUME NEW b \in Nat, Window(b), NEW j \in 0..Len(buffer),
         buffer' = SubSeq(buffer, j + 1, Len(buffer)),
         UNCHANGED <<messages, delivered>>
  PROVE  Window(b + j)'
<1>1. buffer \in Seq(Symbols) /\ Len(buffer) \in Nat
  BY LenProperties DEF Window
<1>2. Stream' = Stream
  BY DEF Stream
<1>3. /\ buffer' \in Seq(Symbols) /\ Len(buffer') = Len(buffer) - j
      /\ \A k \in 1..(Len(buffer) - j) : buffer'[k] = buffer[j + k]
  BY <1>1
<1>4. /\ delivered \in 0..Len(Stream) /\ b + Len(buffer) = delivered
      /\ \A k \in 1..Len(buffer) : buffer[k] = Stream[b + k]
  BY DEF Window
<1>5. ASSUME NEW k \in 1..(Len(buffer) - j) PROVE buffer'[k] = Stream[(b + j) + k]
  <2>1. j + k \in 1..Len(buffer) /\ (b + j) + k = b + (j + k)
    BY <1>1
  <2> QED BY <1>3, <1>4, <2>1
<1>6. (b + j) + Len(buffer') = delivered
  <2>1. PICK l \in Nat : l = Len(buffer)
    BY <1>1
  <2>2. (b + j) + (l - j) = b + l
    BY <2>1
  <2> QED BY <1>3, <1>4, <2>1, <2>2
<1>7. b + j \in Nat
  BY <1>1
<1> QED BY <1>2, <1>3, <1>4, <1>5, <1>6, <1>7 DEF Window

\* Nothing taken, nothing received.
LEMMA WindowStays ==
  ASSUME NEW b, Window(b), UNCHANGED <<messages, delivered, buffer>>
  PROVE  Window(b)'
BY DEF Window, Stream

-----------------------------------------------------------------------------
(* parseCString, turn by turn, in message m behind the first b symbols.    *)

\* Message m is there, and where it ends is what it announces.
Here(b, m) ==
  /\ b \in Nat /\ IsMessage(m)
  /\ LengthOf(m) \in Announced =>
       Len(m.body) = IF LengthOf(m) = "absent" THEN 0 ELSE stoul[LengthOf(m)]
  /\ Stream \in Seq(Symbols) /\ Laid(Stream, b, m)
  /\ Huge \in Nat /\ Huge > 2 /\ Len(Stream) < Huge

\* What it is to be there, without the definitions.
LEMMA HereIs ==
  ASSUME NEW b, NEW m, Here(b, m)
  PROVE  /\ b \in Nat /\ m.line \in Texts /\ m.headers \in Seq(Texts)
         /\ Len(m.headers) \in Nat /\ \A k \in 1..Len(m.headers) : m.headers[k] \in Texts
         /\ m.body \in Seq(Symbols) /\ Len(m.body) \in Nat /\ BodyAt(b, m) \in Nat
<1>1. b \in Nat /\ m.line \in Texts /\ m.headers \in Seq(Texts) /\ m.body \in Seq(Bytes)
  BY DEF Here, IsMessage
<1>2. Len(m.headers) \in Nat /\ \A k \in 1..Len(m.headers) : m.headers[k] \in Texts
  BY <1>1, LenProperties
<1>3. m.body \in Seq(Symbols)
  BY <1>1, LineEndSymbols
<1>4. Len(m.body) \in Nat
  BY <1>3, LenProperties
<1>5. BodyAt(b, m) \in Nat
  BY <1>1, <1>2 DEF BodyAt
<1> QED BY <1>1, <1>2, <1>3, <1>4, <1>5

\* The request line.
LEMMA StartLineStep ==
  ASSUME NEW b, NEW m, Here(b, m), AtStart(b), ParseStartLine, UNCHANGED serverVars
  PROVE  AtStart(b)' \/ InHeaders(b, m, 0)' \/ Failed(m)'
<1>1. /\ b \in Nat /\ m.line \in Texts /\ m.headers \in Seq(Texts)
  BY HereIs
<1>2. At(Stream, b, TextLine(m.line))
  BY DEF Here, Laid
<1>3. /\ state_ = "kStartLine" /\ contentLength_ = 0 /\ bodyReceived_ = 0
      /\ request_ = EmptyRequest /\ Window(b) /\ UNCHANGED <<messages, delivered>>
  BY DEF AtStart, serverVars
<1>4. CASE LineEnds = {} /\ Break("kNeedMore")
  <2>1. result' = "kNeedMore" /\ UNCHANGED <<parser, request_, buffer>>
    BY <1>4 DEF Break
  <2>2. Window(b)'
    BY <1>3, <2>1, WindowStays
  <2> QED BY <1>3, <2>1, <2>2 DEF AtStart, Working, parser
<1>5. ASSUME LineEnds # {}
      PROVE  /\ Len(buffer) \in Nat /\ Len(buffer) >= 3
             /\ Line # <<>> /\ Last(Line) = m.line /\ Rest = SubSeq(buffer, 4, Len(buffer))
  <2>1. /\ Len(buffer) \in Nat /\ Len(buffer) >= 3
        /\ Line = <<m.line>> /\ Rest = SubSeq(buffer, 4, Len(buffer))
    BY <1>1, <1>2, <1>3, <1>5, TextAhead
  <2> QED BY <2>1 DEF Last
<1>6. CASE LineEnds # {} /\ ~IsRequestLine /\ Break("kError")
  <2>1. m.line[1] # "request"
    BY <1>5, <1>6 DEF IsRequestLine
  <2> QED BY <1>6, <2>1 DEF Failed, WellFormed, Break
<1>7. CASE /\ LineEnds # {} /\ IsRequestLine
           /\ request_' = [request_ EXCEPT !.version = Last(Line)[2],
                                           !.path = Last(Line)[3]]
           /\ buffer' = Rest
           /\ state_' = "kHeaders"
           /\ UNCHANGED <<contentLength_, bodyReceived_, result>>
  <2>1. m.line[1] = "request"
    BY <1>5, <1>7 DEF IsRequestLine
  <2>2. Window(b + 3)'
    <3>1. 3 \in 0..Len(buffer) /\ 3 + 1 = 4
      BY <1>5, <1>7
    <3>2. buffer' = SubSeq(buffer, 3 + 1, Len(buffer))
      BY <1>5, <1>7, <3>1
    <3> QED BY <1>1, <1>3, <3>1, <3>2, WindowMoves
  <2>3. request_' = Built(m, 0, <<>>)
    <3>1. HeadersOf(m.headers, 0) = EmptyRequest.headers
      BY <1>1, HeadersGrow
    <3>2. request_' = [EmptyRequest EXCEPT !.version = m.line[2], !.path = m.line[3]]
      BY <1>3, <1>5, <1>7
    <3>3. request_' = [version |-> m.line[2], path |-> m.line[3],
                       headers |-> EmptyRequest.headers, body |-> <<>>]
      BY <3>2 DEF EmptyRequest
    <3> QED BY <3>1, <3>3 DEF Built
  <2>4. GoodUpto(m, 0)
    BY <2>1 DEF GoodUpto
  <2>5. b + (3 * 0 + 3) = b + 3
    BY <1>1
  <2>6. Working' /\ contentLength_' = 0 /\ bodyReceived_' = 0 /\ state_' = "kHeaders"
    BY <1>3, <1>7 DEF AtStart, Working
  <2> QED BY <2>2, <2>3, <2>4, <2>5, <2>6 DEF InHeaders
<1> QED BY <1>4, <1>6, <1>7 DEF ParseStartLine

\* What comes behind k headers: the next one, or the empty line.
LEMMA NextLine ==
  ASSUME NEW b, NEW m, Here(b, m), NEW k \in 0..Len(m.headers), Window(b + (3 * k + 3)),
         LineEnds # {}
  PROVE  \/ /\ k + 1 \in 1..Len(m.headers) /\ m.headers[k + 1] \in Texts
            /\ Len(buffer) \in Nat /\ Len(buffer) >= 3
            /\ Line = <<m.headers[k + 1]>> /\ Rest = SubSeq(buffer, 4, Len(buffer))
         \/ /\ k = Len(m.headers)
            /\ Len(buffer) \in Nat /\ Len(buffer) >= 2
            /\ Line = <<>> /\ Rest = SubSeq(buffer, 3, Len(buffer))
<1>1. /\ b \in Nat /\ Len(m.headers) \in Nat
      /\ \A i \in 1..Len(m.headers) : m.headers[i] \in Texts
  BY HereIs
<1>2. b + (3 * k + 3) \in Nat
  BY <1>1
<1>3. CASE k = Len(m.headers)
  <2>1. At(Stream, b + (3 * k + 3), <<CR, LF>>)
    BY <1>3 DEF Here, Laid
  <2> QED BY <1>2, <1>3, <2>1, BlankAhead
<1>4. CASE k # Len(m.headers)
  <2>1. k + 1 \in 1..Len(m.headers) /\ 3 * (k + 1) = 3 * k + 3
    BY <1>1, <1>4
  <2>2. At(Stream, b + 3 * (k + 1), TextLine(m.headers[k + 1]))
    BY <2>1 DEF Here, Laid
  <2>3. At(Stream, b + (3 * k + 3), TextLine(m.headers[k + 1]))
    BY <2>1, <2>2
  <2> QED BY <1>1, <1>2, <2>1, <2>3, TextAhead
<1> QED BY <1>3, <1>4

\* A header line.
LEMMA HeaderStep ==
  ASSUME NEW b, NEW m, Here(b, m), NEW k \in 0..Len(m.headers), InHeaders(b, m, k),
         ParseHeaderLine, UNCHANGED serverVars
  PROVE  \/ InHeaders(b, m, k)'
         \/ k + 1 \in 0..Len(m.headers) /\ InHeaders(b, m, k + 1)'
         \/ Failed(m)'
<1>1. /\ b \in Nat /\ m.headers \in Seq(Texts) /\ Len(m.headers) \in Nat
  BY HereIs
<1>2. /\ state_ = "kHeaders" /\ contentLength_ = 0 /\ bodyReceived_ = 0 /\ GoodUpto(m, k)
      /\ request_ = Built(m, k, <<>>) /\ Window(b + (3 * k + 3)) /\ Working
      /\ UNCHANGED <<messages, delivered>>
  BY DEF InHeaders, serverVars
<1>3. CASE LineEnds = {} /\ Break("kNeedMore")
  <2>1. result' = "kNeedMore" /\ UNCHANGED <<parser, request_, buffer>>
    BY <1>3 DEF Break
  <2>2. Window(b + (3 * k + 3))'
    BY <1>2, <2>1, WindowStays
  <2> QED BY <1>2, <2>1, <2>2 DEF InHeaders, Working, parser
<1>4. ASSUME LineEnds # {}, Line # <<>>
      PROVE  /\ k + 1 \in 1..Len(m.headers)
             /\ Len(buffer) \in Nat /\ Len(buffer) >= 3
             /\ Len(Line) = 1 /\ Last(Line) = m.headers[k + 1]
             /\ Rest = SubSeq(buffer, 4, Len(buffer))
  <2>1. /\ k + 1 \in 1..Len(m.headers) /\ m.headers[k + 1] \in Texts
        /\ Len(buffer) \in Nat /\ Len(buffer) >= 3
        /\ Line = <<m.headers[k + 1]>> /\ Rest = SubSeq(buffer, 4, Len(buffer))
    BY <1>2, <1>4, NextLine
  <2> QED BY <2>1 DEF Last
<1>5. CASE LineEnds # {} /\ Line # <<>> /\ ~IsHeaderLine /\ Break("kError")
  <2>1. m.headers[k + 1][1] # "header" /\ k + 1 \in 1..Len(m.headers)
    BY <1>4, <1>5 DEF IsHeaderLine
  <2>2. DOMAIN m.headers = 1..Len(m.headers)
    BY <1>1, LenProperties
  <2> QED BY <1>5, <2>1, <2>2 DEF Failed, WellFormed, Break
<1>6. CASE /\ LineEnds # {} /\ IsHeaderLine
           /\ request_' = [request_ EXCEPT !.headers = Stored(KeyOf, Last(Line)[3])]
           /\ buffer' = Rest
           /\ UNCHANGED <<parser, result>>
  <2>1. Line # <<>> /\ Last(Line)[1] = "header"
    BY <1>6 DEF IsHeaderLine
  <2>2. /\ k + 1 \in 1..Len(m.headers) /\ Len(buffer) \in Nat /\ Len(buffer) >= 3
        /\ Len(Line) = 1 /\ Last(Line) = m.headers[k + 1]
        /\ Rest = SubSeq(buffer, 4, Len(buffer))
    BY <1>4, <1>6, <2>1
  <2>3. Window((b + (3 * k + 3)) + 3)'
    <3>1. 3 \in 0..Len(buffer) /\ 3 + 1 = 4 /\ b + (3 * k + 3) \in Nat
      BY <1>1, <2>2
    <3>2. buffer' = SubSeq(buffer, 3 + 1, Len(buffer))
      BY <1>6, <2>2, <3>1
    <3> QED BY <1>2, <3>1, <3>2, WindowMoves
  <2>4. request_' = Built(m, k + 1, <<>>)
    <3>1. PICK h : h = m.headers[k + 1]
      OBVIOUS
    <3>2. (k + 1) - 1 = k
      BY <1>1
    <3>3. HeadersOf(m.headers, k + 1) = [HeadersOf(m.headers, k) EXCEPT ![h[2]] = h[3]]
      BY <1>1, <2>2, <3>1, <3>2, HeadersGrow
    <3>4. KeyOf = h[2] /\ Last(Line)[3] = h[3]
      BY <2>2, <3>1 DEF KeyOf
    <3>5. request_.headers = HeadersOf(m.headers, k)
      BY <1>2 DEF Built
    <3>6. Stored(KeyOf, Last(Line)[3]) = HeadersOf(m.headers, k + 1)
      BY <3>3, <3>4, <3>5 DEF Stored
    <3>7. request_' = [request_ EXCEPT !.headers = HeadersOf(m.headers, k + 1)]
      BY <1>6, <3>6
    <3> QED BY <1>2, <3>7 DEF Built
  <2>5. GoodUpto(m, k + 1)
    <3>1. m.headers[k + 1][1] = "header"
      BY <2>1, <2>2
    <3>2. \A j \in 1..(k + 1) : j \in 1..k \/ j = k + 1
      BY <1>1
    <3> QED BY <1>2, <3>1, <3>2 DEF GoodUpto
  <2>6. (b + (3 * k + 3)) + 3 = b + (3 * (k + 1) + 3) /\ k + 1 \in 0..Len(m.headers)
    BY <1>1, <2>2
  <2>7. Working' /\ contentLength_' = 0 /\ bodyReceived_' = 0 /\ state_' = "kHeaders"
    BY <1>2, <1>6 DEF Working, parser
  <2> QED BY <2>3, <2>4, <2>5, <2>6, <2>7 DEF InHeaders
<1> QED BY <1>3, <1>5, <1>6 DEF ParseHeaderLine

\* The numbers of stoul.
LEMMA Numbers ==
  ASSUME Huge \in Nat, Huge > 2
  PROVE  /\ DOMAIN stoul = {"0", "1", "2", "-1"}
         /\ stoul["0"] = 0 /\ stoul["1"] = 1 /\ stoul["2"] = 2 /\ stoul["-1"] = Huge
         /\ \A n \in DOMAIN stoul : stoul[n] \in Nat
         /\ \A n \in Announced : n = "absent" \/ n \in DOMAIN stoul
         /\ \A n \in DOMAIN stoul : n \in Announced \/ stoul[n] = Huge
         /\ "absent" \notin DOMAIN stoul /\ "absent" \in Announced
<1>1. /\ DOMAIN stoul = {"0", "1", "2", "-1"}
      /\ stoul["0"] = 0 /\ stoul["1"] = 1 /\ stoul["2"] = 2 /\ stoul["-1"] = Huge
  BY DEF stoul
<1> QED BY <1>1 DEF Announced

\* With its headers and its body a request is what the client meant, and
\* the message was well formed if it announced a length.
LEMMA WholeMessage ==
  ASSUME NEW b, NEW m, Here(b, m), GoodUpto(m, Len(m.headers))
  PROVE  /\ Built(m, Len(m.headers), m.body) = Meant(m)
         /\ WellFormed(m) <=> LengthOf(m) \in Announced
<1>1. m.headers \in Seq(Texts) /\ DOMAIN m.headers = 1..Len(m.headers)
  BY HereIs, LenProperties
<1>2. HeadersOf(m.headers, Len(m.headers)) = [key \in Keys |-> Header(m.headers, key)]
  BY <1>1, HeadersGrow
<1>3. Built(m, Len(m.headers), m.body) = Meant(m)
  BY <1>2 DEF Built, Meant
<1>4. WellFormed(m) <=> LengthOf(m) \in Announced
  BY <1>1 DEF WellFormed, GoodUpto, LengthOf
<1> QED BY <1>3, <1>4

\* The empty line.
LEMMA BlankStep ==
  ASSUME NEW b, NEW m, Here(b, m), NEW k \in 0..Len(m.headers), InHeaders(b, m, k),
         ParseBlankLine, UNCHANGED serverVars
  PROVE  InBody(b, m)' \/ Done(BodyAt(b, m) + Len(m.body), m)' \/ Failed(m)'
<1> DEFINE H == Len(m.headers)
           length == request_.headers["content-length"]
<1>1. /\ b \in Nat /\ m.headers \in Seq(Texts) /\ H \in Nat
      /\ m.body \in Seq(Symbols) /\ Len(m.body) \in Nat /\ BodyAt(b, m) \in Nat
  BY HereIs
<1>2. /\ contentLength_ = 0 /\ bodyReceived_ = 0 /\ GoodUpto(m, k) /\ result = "parsing"
      /\ request_ = Built(m, k, <<>>) /\ Window(b + (3 * k + 3)) /\ Working
      /\ UNCHANGED <<messages, delivered>>
  BY DEF InHeaders, serverVars, ParseBlankLine
<1>3. LineEnds # {} /\ Line = <<>> /\ buffer' = Rest /\ UNCHANGED request_
  BY DEF ParseBlankLine
<1>4. /\ k = H /\ Len(buffer) \in Nat /\ Len(buffer) >= 2
      /\ Rest = SubSeq(buffer, 3, Len(buffer))
  <2>1. \A x : <<x>> # <<>>
    OBVIOUS
  <2> QED BY <1>2, <1>3, <2>1, NextLine
<1>5. Window(BodyAt(b, m))'
  <2>1. 2 \in 0..Len(buffer) /\ 2 + 1 = 3 /\ b + (3 * k + 3) \in Nat
    BY <1>1, <1>4
  <2>2. buffer' = SubSeq(buffer, 2 + 1, Len(buffer))
    BY <1>3, <1>4, <2>1
  <2>3. Window((b + (3 * k + 3)) + 2)'
    BY <1>2, <2>1, <2>2, WindowMoves
  <2>4. (b + (3 * k + 3)) + 2 = BodyAt(b, m)
    BY <1>1, <1>4 DEF BodyAt
  <2> QED BY <2>3, <2>4
<1>6. length = LengthOf(m)
  <2>1. HeadersOf(m.headers, H) = [key \in Keys |-> Header(m.headers, key)]
    BY <1>1, HeadersGrow
  <2>2. request_.headers = HeadersOf(m.headers, H)
    BY <1>2, <1>4 DEF Built
  <2>3. "content-length" \in Keys
    BY DEF Keys
  <2> QED BY <2>1, <2>2, <2>3 DEF LengthOf
<1>7. /\ GoodUpto(m, H) /\ Built(m, H, m.body) = Meant(m)
      /\ WellFormed(m) <=> LengthOf(m) \in Announced
  <2>1. GoodUpto(m, H)
    BY <1>2, <1>4
  <2> QED BY <2>1, WholeMessage
<1>8. Huge \in Nat /\ Huge > 2
  BY DEF Here
<1>9. ASSUME LengthOf(m) \in Announced, Len(m.body) = 0, result' = "kSuccess"
      PROVE  Done(BodyAt(b, m) + Len(m.body), m)'
  <2>1. m.body = <<>>
    BY <1>1, <1>9, EmptySeq
  <2>2. request_' = Meant(m)
    BY <1>2, <1>3, <1>4, <1>7, <2>1
  <2>3. BodyAt(b, m) + Len(m.body) = BodyAt(b, m)
    BY <1>1, <1>9
  <2> QED BY <1>5, <1>7, <1>9, <2>2, <2>3 DEF Done
<1>10. CASE length = "absent" /\ result' = "kSuccess" /\ UNCHANGED parser
  <2>1. LengthOf(m) = "absent" /\ "absent" \in Announced
    BY <1>6, <1>10 DEF Announced
  <2>2. Len(m.body) = 0
    BY <2>1 DEF Here
  <2> QED BY <1>9, <1>10, <2>1, <2>2
<1>11. CASE /\ length \notin {"absent"} \cup DOMAIN stoul
            /\ state_' = "kBody" /\ result' = "kError"
            /\ UNCHANGED <<contentLength_, bodyReceived_>>
  <2>1. LengthOf(m) \notin Announced
    BY <1>6, <1>8, <1>11, Numbers
  <2> QED BY <1>7, <1>11, <2>1 DEF Failed
<1>12. CASE /\ length \in DOMAIN stoul
            /\ state_' = "kBody" /\ contentLength_' = stoul[length]
            /\ result' = IF contentLength_' = 0 THEN "kSuccess" ELSE result
            /\ UNCHANGED bodyReceived_
  <2>1. stoul[LengthOf(m)] \in Nat /\ LengthOf(m) \in DOMAIN stoul /\ LengthOf(m) # "absent"
    BY <1>6, <1>8, <1>12, Numbers
  <2>2. CASE contentLength_' = 0
    <3>1. stoul[LengthOf(m)] = 0
      BY <1>6, <1>12, <2>2
    <3>2. LengthOf(m) \in Announced
      BY <1>8, <2>1, <3>1, Numbers
    <3>3. Len(m.body) = 0
      BY <2>1, <3>1, <3>2 DEF Here
    <3> QED BY <1>9, <1>12, <2>2, <3>2, <3>3
  <2>3. CASE contentLength_' # 0
    <3>1. contentLength_' = stoul[LengthOf(m)] /\ bodyReceived_' = 0 /\ result' = result
      BY <1>2, <1>6, <1>12, <2>3
    <3>2. bodyReceived_' \in 0..(contentLength_' - 1)
      BY <2>1, <2>3, <3>1
    <3>3. request_' = Built(m, H, <<>>)
      BY <1>2, <1>3, <1>4
    <3>4. request_'.body = <<>>
      BY <3>3 DEF Built
    <3>5. request_' = Built(m, H, request_'.body)
      BY <3>3, <3>4
    <3>6. request_'.body \in Seq(Symbols) /\ Len(request_'.body) = bodyReceived_'
      BY <3>1, <3>4
    <3>7. \A j \in 1..bodyReceived_' : FALSE
      BY <3>1
    <3>8. BodyAt(b, m) + bodyReceived_' = BodyAt(b, m)
      BY <1>1, <3>1
    <3>9. Working' /\ state_' = "kBody"
      BY <1>2, <1>12, <3>1 DEF Working
    <3> QED BY <1>5, <1>7, <2>1, <3>1, <3>2, <3>5, <3>6, <3>7, <3>8, <3>9 DEF InBody
  <2> QED BY <2>2, <2>3
<1> QED BY <1>10, <1>11, <1>12 DEF ParseBlankLine

\* The body.
LEMMA BodyStep ==
  ASSUME NEW b, NEW m, Here(b, m), InBody(b, m), ParseBody, UNCHANGED serverVars
  PROVE  InBody(b, m)' \/ Done(BodyAt(b, m) + Len(m.body), m)'
<1> DEFINE H == Len(m.headers)
           B == BodyAt(b, m)
           old == request_.body
<1>1. /\ B \in Nat /\ H \in Nat /\ m.body \in Seq(Symbols) /\ Len(m.body) \in Nat
  BY HereIs
<1>2. /\ Working /\ state_ = "kBody" /\ GoodUpto(m, H)
      /\ LengthOf(m) \in DOMAIN stoul /\ contentLength_ = stoul[LengthOf(m)]
      /\ bodyReceived_ \in 0..(contentLength_ - 1) /\ request_ = Built(m, H, old)
      /\ old \in Seq(Symbols) /\ Len(old) = bodyReceived_
      /\ \A j \in 1..bodyReceived_ : old[j] = Stream[B + j]
      /\ Window(B + bodyReceived_)
      /\ UNCHANGED <<messages, delivered>>
  BY DEF InBody, serverVars
<1>3. Huge \in Nat /\ Huge > 2 /\ Len(Stream) < Huge /\ Len(Stream) \in Nat
  BY LenProperties DEF Here
<1>4. contentLength_ \in Nat /\ (LengthOf(m) \in Announced \/ contentLength_ = Huge)
      /\ LengthOf(m) # "absent"
  BY <1>2, <1>3, Numbers
<1>5. /\ buffer \in Seq(Symbols) /\ Len(buffer) \in Nat /\ delivered \in 0..Len(Stream)
      /\ (B + bodyReceived_) + Len(buffer) = delivered
      /\ \A i \in 1..Len(buffer) : buffer[i] = Stream[(B + bodyReceived_) + i]
  BY <1>2, LenProperties DEF Window
<1>6. bodyReceived_ \in Nat /\ Need \in Nat /\ bodyReceived_ + Need = contentLength_
  BY <1>2, <1>4 DEF Need
<1>7. Stream' = Stream
  BY <1>2 DEF Stream
<1> HIDE DEF B, H, old
<1>8. ASSUME NEW j \in 0..Len(buffer)
      PROVE  /\ Cat(old, SubSeq(buffer, 1, j)) \in Seq(Symbols)
             /\ Len(Cat(old, SubSeq(buffer, 1, j))) = bodyReceived_ + j
             /\ \A i \in 1..(bodyReceived_ + j) :
                  Cat(old, SubSeq(buffer, 1, j))[i] = Stream[B + i]
  <2> DEFINE x == SubSeq(buffer, 1, j)
  <2>1. x \in Seq(Symbols) /\ Len(x) = j /\ \A i \in 1..j : x[i] = buffer[i]
    BY <1>5
  <2> HIDE DEF x
  <2>2. Parts(Cat(old, x), old, x) /\ Cat(old, x) \in Seq(Symbols)
    BY <1>2, <2>1, PartsOfCat
  <2>3. /\ Len(Cat(old, x)) = bodyReceived_ + j
        /\ \A i \in 1..bodyReceived_ : Cat(old, x)[i] = old[i]
        /\ \A i \in 1..j : Cat(old, x)[bodyReceived_ + i] = x[i]
    BY <1>2, <2>1, <2>2 DEF Parts
  <2>4. ASSUME NEW i \in 1..(bodyReceived_ + j) PROVE Cat(old, x)[i] = Stream[B + i]
    <3>1. CASE i \in 1..bodyReceived_
      BY <1>2, <2>3, <3>1
    <3>2. CASE i \notin 1..bodyReceived_
      <4>1. PICK l \in 1..j : i = bodyReceived_ + l
        <5>1. i - bodyReceived_ \in 1..j /\ i = bodyReceived_ + (i - bodyReceived_)
          BY <1>6, <3>2
        <5> QED BY <5>1
      <4>2. l \in 1..Len(buffer) /\ (B + bodyReceived_) + l = B + i
        BY <1>1, <1>5, <1>6, <4>1
      <4>3. buffer[l] = Stream[(B + bodyReceived_) + l]
        BY <1>5, <4>2
      <4> QED BY <2>1, <2>3, <4>1, <4>2, <4>3
    <3> QED BY <3>1, <3>2
  <2> QED BY <2>2, <2>3, <2>4 DEF x
<1>9. CASE /\ Len(buffer) >= Need
           /\ request_' = [request_ EXCEPT !.body = @ \o SubSeq(buffer, 1, Need)]
           /\ buffer' = SubSeq(buffer, Need + 1, Len(buffer))
           /\ reset
           /\ result' = "kSuccess"
  <2>1. Need \in 0..Len(buffer)
    BY <1>5, <1>6, <1>9
  <2>2. LengthOf(m) \in Announced
    <3>1. contentLength_ <= delivered
      BY <1>1, <1>5, <1>6, <2>1
    <3>2. contentLength_ < Huge
      BY <1>3, <1>4, <1>5, <3>1
    <3> QED BY <1>3, <1>4, <3>2
  <2>3. Len(m.body) = contentLength_
    BY <1>2, <1>4, <2>2 DEF Here
  <2>4. WellFormed(m) /\ Built(m, H, m.body) = Meant(m)
    BY <1>2, <2>2, WholeMessage DEF H
  <2>5. \A i \in 1..contentLength_ : Stream[B + i] = m.body[i]
    <3>1. At(Stream, B, m.body)
      BY DEF Here, Laid, B, BodyAt
    <3> QED BY <2>3, <3>1 DEF At
  <2>6. PICK new : new = Cat(old, SubSeq(buffer, 1, Need))
    OBVIOUS
  <2>7. /\ new \in Seq(Symbols) /\ Len(new) = contentLength_
        /\ \A i \in 1..contentLength_ : new[i] = Stream[B + i]
    BY <1>6, <1>8, <2>1, <2>6
  <2>8. new = m.body
    <3>1. \A i \in 1..Len(new) : new[i] = m.body[i]
      BY <2>5, <2>7
    <3> QED BY <1>1, <2>3, <2>7, <3>1, SeqEqual
  <2>9. request_' = Meant(m)
    <3>1. request_' = [request_ EXCEPT !.body = new]
      BY <1>9, <2>6 DEF old, Cat
    <3>2. request_' = Built(m, H, new)
      BY <1>2, <3>1 DEF Built
    <3> QED BY <2>4, <2>8, <3>2
  <2>10. PICK c \in Nat : c = B + bodyReceived_
    BY <1>1, <1>6
  <2>11. Window(B + Len(m.body))'
    <3>1. PICK j \in 0..Len(buffer) : j = Need
      BY <2>1
    <3>2. Window(c) /\ buffer' = SubSeq(buffer, j + 1, Len(buffer))
      BY <1>2, <1>9, <2>10, <3>1
    <3>3. Window(c + j)'
      BY <1>2, <3>2, WindowMoves
    <3>4. c + j = B + Len(m.body)
      BY <1>1, <1>6, <2>3, <2>10, <3>1
    <3> QED BY <3>3, <3>4
  <2> QED BY <1>9, <2>4, <2>9, <2>10, <2>11 DEF Done, B
<1>10. CASE Len(buffer) < Need /\ Absorb
  <2>1. /\ request_' = [request_ EXCEPT !.body = @ \o buffer]
        /\ bodyReceived_' = bodyReceived_ + Len(buffer)
        /\ buffer' = <<>> /\ result' = "kNeedMore"
        /\ UNCHANGED <<state_, contentLength_>>
    BY <1>10 DEF Absorb
  <2>2. PICK j \in 0..Len(buffer) : j = Len(buffer)
    BY <1>5
  <2>3. SubSeq(buffer, 1, j) = buffer
    BY <1>5, <2>2, SubSeqFull
  <2>4. PICK new : new = Cat(old, buffer)
    OBVIOUS
  <2>5. /\ new \in Seq(Symbols) /\ Len(new) = bodyReceived_'
        /\ \A i \in 1..bodyReceived_' : new[i] = Stream[B + i]
    BY <1>8, <2>1, <2>2, <2>3, <2>4
  <2>6. request_' = Built(m, H, new) /\ request_'.body = new
    <3>1. request_' = [request_ EXCEPT !.body = new]
      BY <2>1, <2>4 DEF old, Cat
    <3> QED BY <1>2, <3>1 DEF Built
  <2>7. bodyReceived_' \in 0..(contentLength_' - 1)
    BY <1>4, <1>5, <1>6, <1>10, <2>1
  <2>8. Window(B + bodyReceived_)'
    <3>1. PICK c \in Nat : c = B + bodyReceived_
      BY <1>1, <1>6
    <3>2. Window(c) /\ buffer' = SubSeq(buffer, j + 1, Len(buffer))
      BY <1>2, <1>5, <2>1, <2>2, <3>1
    <3>3. Window(c + j)'
      BY <1>2, <3>2, WindowMoves
    <3>4. c + j = B + bodyReceived_'
      BY <1>1, <1>5, <1>6, <2>1, <2>2, <3>1
    <3> QED BY <3>3, <3>4 DEF Window
  <2>9. Working'
    BY <2>1 DEF Working
  <2>10. InBody(b, m)'
    BY <1>2, <1>7, <2>1, <2>5, <2>6, <2>7, <2>8, <2>9 DEF InBody, B, H
  <2> QED BY <2>10
<1> QED BY <1>9, <1>10 DEF ParseBody, old

-----------------------------------------------------------------------------
(* The position in the stream.                                             *)

\* The next message, if there is one, starts where the last one ended.
LEMMA HereNow ==
  ASSUME Shape, NEW n \in Nat, n + 1 \in DOMAIN messages
  PROVE  /\ Here(EndOf(n), messages[n + 1])
         /\ EndOf(n + 1) =
              BodyAt(EndOf(n), messages[n + 1]) + Len(messages[n + 1].body)
<1> DEFINE m == messages[n + 1]
<1>1. /\ messages \in Seq(Messages) /\ Len(messages) \in 1..MaxPipelined
      /\ DOMAIN messages = 1..Len(messages) /\ m \in Messages
  BY LenProperties DEF Shape
<1>2. Huge \in Nat /\ Huge > 2 /\ MaxPipelined \in Nat
  BY HttpConstants
<1>3. \A x \in Messages : IsMessage(x)
  BY HttpConstants DEF IsMessage
<1>4. LengthOf(m) \in Announced =>
        Len(m.body) = IF LengthOf(m) = "absent" THEN 0 ELSE stoul[LengthOf(m)]
  BY <1>1, HttpConstants DEF LengthOf
<1>5. Len(Stream) < Huge
  <2>1. PICK l \in 1..MaxPipelined : l = Len(messages)
    BY <1>1
  <2>2. messages \in [1..l -> Messages]
    BY <1>1, <2>1
  <2> QED BY <2>2, HttpConstants DEF Stream
<1>6. PICK i \in 1..Len(messages) : i = n + 1
  BY <1>1
<1>7. i - 1 = n
  BY <1>6
<1>8. /\ StreamOf(messages) \in Seq(Symbols)
      /\ Len(StreamOf(SubSeq(messages, 1, i - 1))) \in Nat
      /\ Laid(StreamOf(messages), Len(StreamOf(SubSeq(messages, 1, i - 1))), messages[i])
      /\ Len(StreamOf(SubSeq(messages, 1, i))) =
           Len(StreamOf(SubSeq(messages, 1, i - 1)))
             + (3 * Len(messages[i].headers) + 5 + Len(messages[i].body))
  BY <1>1, <1>3, StreamIs
<1>9. /\ Stream \in Seq(Symbols) /\ EndOf(n) \in Nat /\ Laid(Stream, EndOf(n), m)
      /\ EndOf(n + 1) = EndOf(n) + (3 * Len(m.headers) + 5 + Len(m.body))
  BY <1>6, <1>7, <1>8 DEF Stream, EndOf
<1>10. Here(EndOf(n), m)
  BY <1>1, <1>2, <1>3, <1>4, <1>5, <1>9 DEF Here
<1>11. Len(m.headers) \in Nat /\ Len(m.body) \in Nat
  BY <1>10, HereIs
<1>12. EndOf(n + 1) = BodyAt(EndOf(n), m) + Len(m.body)
  <2>1. PICK b \in Nat : b = EndOf(n)
    BY <1>9
  <2>2. PICK h \in Nat : h = Len(m.headers)
    BY <1>11
  <2>3. PICK l \in Nat : l = Len(m.body)
    BY <1>11
  <2>4. \A x, y, z \in Nat : x + (3 * y + 5 + z) = (x + (3 * y + 5)) + z
    OBVIOUS
  <2> HIDE DEF m
  <2>5. b + (3 * h + 5 + l) = (b + (3 * h + 5)) + l
    BY <2>4
  <2>6. EndOf(n + 1) = b + (3 * h + 5 + l)
    BY <1>9, <2>1, <2>2, <2>3
  <2>7. BodyAt(EndOf(n), m) = b + (3 * h + 5)
    BY <2>1, <2>2 DEF BodyAt
  <2>8. EndOf(n + 1) = BodyAt(EndOf(n), m) + Len(m.body)
    BY <2>3, <2>5, <2>6, <2>7
  <2> QED BY <2>8 DEF m
<1> QED BY <1>10, <1>12

\* Behind the last message there is nothing.
LEMMA NothingBehind ==
  ASSUME Shape, Window(EndOf(Len(messages))), Len(StreamOf(messages)) \in Nat
  PROVE  buffer = <<>>
<1>1. messages \in Seq(Messages)
  BY DEF Shape
<1>2. EndOf(Len(messages)) = Len(Stream)
  BY <1>1, StreamEnds DEF EndOf, Stream
<1>3. /\ buffer \in Seq(Symbols) /\ Len(buffer) \in Nat /\ delivered \in 0..Len(Stream)
      /\ Len(Stream) + Len(buffer) = delivered /\ Len(Stream) \in Nat
  BY <1>2, LenProperties DEF Window, Stream
<1>4. Len(buffer) = 0
  BY <1>3
<1> QED BY <1>3, <1>4, EmptySeq

\* More input, and steps between the turns, leave the position as it is.
LEMMA PositionStays ==
  ASSUME Position, \A b : Window(b) => Window(b)',
         UNCHANGED <<parser, request_, messages, served>>,
         result' = result \/ (Working /\ Working')
  PROVE  Position'
<1>1. /\ state_' = state_ /\ contentLength_' = contentLength_
      /\ bodyReceived_' = bodyReceived_ /\ request_' = request_
      /\ messages' = messages /\ served' = served /\ Stream' = Stream
      /\ \A n : EndOf(n)' = EndOf(n)
  BY DEF parser, Stream, EndOf
<1>2. Working => Working'
  BY DEF Working
<1>3. ASSUME NEW b, AtStart(b) PROVE AtStart(b)'
  BY <1>1, <1>2, <1>3 DEF AtStart
<1>4. ASSUME NEW b, NEW m, NEW k, InHeaders(b, m, k) PROVE InHeaders(b, m, k)'
  BY <1>1, <1>2, <1>4 DEF InHeaders
<1>5. ASSUME NEW b, NEW m, InBody(b, m) PROVE InBody(b, m)'
  <2>1. PICK c : c = BodyAt(b, m) + bodyReceived_
    OBVIOUS
  <2>2. Window(c)'
    BY <1>5, <2>1 DEF InBody
  <2>3. Window(BodyAt(b, m) + bodyReceived_)'
    BY <1>1, <2>1, <2>2
  <2> QED BY <1>1, <1>2, <1>5, <2>3 DEF InBody
<1>6. ASSUME NEW e, NEW m, Done(e, m) PROVE Done(e, m)'
  <2>1. result' = "kSuccess"
    BY <1>6 DEF Done, Working
  <2> QED BY <1>1, <1>6, <2>1 DEF Done
<1>7. ASSUME NEW m, Failed(m) PROVE Failed(m)'
  BY <1>7 DEF Failed, Working
<1>8. PICK n : n = Len(served)
  OBVIOUS
<1>9. PICK b : b = EndOf(n)
  OBVIOUS
<1>10. PICK e : e = EndOf(n + 1)
  OBVIOUS
<1>11. PICK m : m = messages[n + 1]
  OBVIOUS
<1>12. /\ n \in 0..Len(messages)
       /\ \/ AtStart(b)
          \/ /\ n + 1 \in DOMAIN messages
             /\ \/ \E k \in 0..Len(m.headers) : InHeaders(b, m, k)
                \/ InBody(b, m) \/ Done(e, m) \/ Failed(m)
  BY <1>8, <1>9, <1>10, <1>11 DEF Position
<1>13. /\ n \in 0..Len(messages)
       /\ \/ AtStart(b)'
          \/ /\ n + 1 \in DOMAIN messages
             /\ \/ \E k \in 0..Len(m.headers) : InHeaders(b, m, k)'
                \/ InBody(b, m)' \/ Done(e, m)' \/ Failed(m)'
  BY <1>3, <1>4, <1>5, <1>6, <1>7, <1>12
<1>14. n = Len(served') /\ b = EndOf(n)' /\ e = EndOf(n + 1)' /\ m = messages'[n + 1]
  BY <1>1, <1>8, <1>9, <1>10, <1>11
<1> QED BY <1>1, <1>13, <1>14 DEF Position

\* A turn of parseCString.
LEMMA PositionParsed ==
  ASSUME Shape, Position, Parse
  PROVE  Position'
<1>1. ParseTurn /\ UNCHANGED serverVars
  BY DEF Parse
<1>2. messages' = messages /\ served' = served /\ delivered' = delivered
      /\ \A n : EndOf(n)' = EndOf(n)
  BY <1>1 DEF serverVars, EndOf
<1>3. result = "parsing"
  BY <1>1 DEF ParseTurn, Exhausted, ParseStartLine, ParseHeaderLine, ParseBlankLine,
              ParseBody
<1>4. PICK n : n = Len(served)
  OBVIOUS
<1>5. n \in 0..Len(messages) /\ n \in Nat
  <2>1. Len(messages) \in Nat
    BY LenProperties DEF Shape
  <2> QED BY <1>4, <2>1 DEF Position
<1>6. PICK b : b = EndOf(n)
  OBVIOUS
<1>7. PICK e : e = EndOf(n + 1)
  OBVIOUS
<1>8. PICK m : m = messages[n + 1]
  OBVIOUS
<1>9. \/ AtStart(b)
      \/ /\ n + 1 \in DOMAIN messages
         /\ (\E k \in 0..Len(m.headers) : InHeaders(b, m, k)) \/ InBody(b, m)
  <2>1. ~Done(e, m) /\ ~Failed(m)
    BY <1>3 DEF Done, Failed
  <2> QED BY <1>4, <1>6, <1>7, <1>8, <2>1 DEF Position
<1>10. ASSUME n + 1 \in DOMAIN messages
       PROVE  Here(b, m) /\ e = BodyAt(b, m) + Len(m.body)
  BY <1>5, <1>6, <1>7, <1>8, <1>10, HereNow
<1>11. SUFFICES \/ AtStart(b)'
                \/ /\ n + 1 \in DOMAIN messages
                   /\ \/ \E k \in 0..Len(m.headers) : InHeaders(b, m, k)'
                      \/ InBody(b, m)' \/ Done(e, m)' \/ Failed(m)'
  <2>1. n = Len(served') /\ b = EndOf(n)' /\ e = EndOf(n + 1)' /\ m = messages'[n + 1]
    BY <1>2, <1>4, <1>6, <1>7, <1>8
  <2> QED BY <1>2, <1>5, <2>1 DEF Position
<1>12. CASE Exhausted
  <2>1. result' = "kNeedMore" /\ UNCHANGED <<parser, request_, buffer>>
    BY <1>12 DEF Exhausted, Break
  <2>2. /\ state_' = state_ /\ contentLength_' = contentLength_ /\ Working'
        /\ bodyReceived_' = bodyReceived_ /\ request_' = request_ /\ Stream' = Stream
    BY <1>2, <2>1 DEF parser, Stream, Working
  <2>3. \A c : Window(c) => Window(c)'
    BY <1>2, <2>1, WindowStays
  <2>4. ASSUME AtStart(b) PROVE AtStart(b)'
    BY <2>2, <2>3, <2>4 DEF AtStart
  <2>5. ASSUME NEW k, InHeaders(b, m, k) PROVE InHeaders(b, m, k)'
    BY <2>2, <2>3, <2>5 DEF InHeaders
  <2>6. ASSUME InBody(b, m) PROVE InBody(b, m)'
    <3>1. PICK c : c = BodyAt(b, m) + bodyReceived_
      OBVIOUS
    <3>2. Window(c)'
      BY <2>3, <2>6, <3>1 DEF InBody
    <3>3. Window(BodyAt(b, m) + bodyReceived_)'
      BY <2>2, <3>1, <3>2
    <3> QED BY <2>2, <2>6, <3>3 DEF InBody
  <2> QED BY <1>9, <2>4, <2>5, <2>6
<1>13. CASE ParseStartLine
  <2>1. AtStart(b)
    BY <1>9, <1>13 DEF ParseStartLine, InHeaders, InBody
  <2>2. n + 1 \in DOMAIN messages
    <3>1. Window(b) /\ buffer # <<>>
      BY <1>13, <2>1 DEF AtStart, ParseStartLine
    <3>2. /\ messages \in Seq(Messages) /\ Len(messages) \in Nat
          /\ DOMAIN messages = 1..Len(messages)
      BY LenProperties DEF Shape
    <3>3. Len(StreamOf(messages)) \in Nat
      <4>1. delivered \in 0..Len(Stream)
        BY <3>1 DEF Window
      <4>2. 1 \in DOMAIN messages
        BY <3>2 DEF Shape
      <4>3. 0 \in Nat /\ 0 + 1 = 1
        OBVIOUS
      <4>4. Here(EndOf(0), messages[1])
        BY <4>2, <4>3, HereNow
      <4> QED BY <4>4, LenProperties DEF Here, Stream
    <3>4. n # Len(messages)
      BY <1>6, <3>1, <3>3, NothingBehind
    <3>5. PICK l \in Nat : l = Len(messages)
      BY <3>2
    <3>6. n + 1 \in 1..l
      BY <1>5, <3>4, <3>5
    <3> QED BY <3>2, <3>5, <3>6
  <2>3. Here(b, m)
    BY <1>10, <2>2
  <2>4. AtStart(b)' \/ InHeaders(b, m, 0)' \/ Failed(m)'
    BY <1>1, <1>13, <2>1, <2>3, StartLineStep
  <2>5. 0 \in 0..Len(m.headers)
    BY <2>3, HereIs
  <2> QED BY <2>2, <2>4, <2>5
<1>14. CASE ParseHeaderLine
  <2>1. n + 1 \in DOMAIN messages /\ \E k \in 0..Len(m.headers) : InHeaders(b, m, k)
    BY <1>9, <1>14 DEF ParseHeaderLine, AtStart, InBody
  <2>2. PICK k \in 0..Len(m.headers) : InHeaders(b, m, k)
    BY <2>1
  <2>3. Here(b, m)
    BY <1>10, <2>1
  <2>4. \/ InHeaders(b, m, k)'
        \/ k + 1 \in 0..Len(m.headers) /\ InHeaders(b, m, k + 1)'
        \/ Failed(m)'
    BY <1>1, <1>14, <2>2, <2>3, HeaderStep
  <2> QED BY <2>1, <2>4
<1>15. CASE ParseBlankLine
  <2>1. n + 1 \in DOMAIN messages /\ \E k \in 0..Len(m.headers) : InHeaders(b, m, k)
    BY <1>9, <1>15 DEF ParseBlankLine, AtStart, InBody
  <2>2. PICK k \in 0..Len(m.headers) : InHeaders(b, m, k)
    BY <2>1
  <2>3. Here(b, m) /\ e = BodyAt(b, m) + Len(m.body)
    BY <1>10, <2>1
  <2>4. InBody(b, m)' \/ Done(BodyAt(b, m) + Len(m.body), m)' \/ Failed(m)'
    BY <1>1, <1>15, <2>2, <2>3, BlankStep
  <2> QED BY <2>1, <2>3, <2>4
<1>16. CASE ParseBody
  <2>1. n + 1 \in DOMAIN messages /\ InBody(b, m)
    BY <1>9, <1>16 DEF ParseBody, AtStart, InHeaders
  <2>2. Here(b, m) /\ e = BodyAt(b, m) + Len(m.body)
    BY <1>10, <2>1
  <2>3. InBody(b, m)' \/ Done(BodyAt(b, m) + Len(m.body), m)'
    BY <1>1, <1>16, <2>1, <2>2, BodyStep
  <2> QED BY <2>1, <2>2, <2>3
<1> QED BY <1>1, <1>12, <1>13, <1>14, <1>15, <1>16 DEF ParseTurn

-----------------------------------------------------------------------------
(* The actions.                                                            *)

\* What Append does to a sequence of whatever.
LEMMA AppendSeq ==
  ASSUME NEW s, IsSeq(s), NEW e
  PROVE  /\ IsSeq(Append(s, e)) /\ Len(s) \in Nat /\ Len(Append(s, e)) = Len(s) + 1
         /\ DOMAIN s = 1..Len(s) /\ DOMAIN Append(s, e) = 1..(Len(s) + 1)
         /\ \A k \in 1..Len(s) : Append(s, e)[k] = s[k]
         /\ Append(s, e)[Len(s) + 1] = e
<1>1. PICK S : s \in Seq(S)
  BY DEF IsSeq
<1>2. PICK T : T = S \cup {e}
  OBVIOUS
<1>3. s \in Seq(T) /\ e \in T
  BY <1>1, <1>2
<1>4. /\ Append(s, e) \in Seq(T) /\ Len(Append(s, e)) = Len(s) + 1
      /\ DOMAIN s = 1..Len(s) /\ DOMAIN Append(s, e) = 1..(Len(s) + 1)
      /\ \A k \in 1..Len(s) : Append(s, e)[k] = s[k]
      /\ Append(s, e)[Len(s) + 1] = e
  BY <1>3, EndOfQueue
<1>5. Len(s) \in Nat
  BY <1>1, LenProperties
<1> QED BY <1>4, <1>5 DEF IsSeq

\* The parts of the invariant that steps without an answer do not touch.
LEMMA NoAnswer ==
  ASSUME IInv, UNCHANGED <<messages, served, sent, response_>>,
         connState' = connState \/ connState' = "kDisconnected",
         Position => Position'
  PROVE  IInv'
<1>1. /\ messages' = messages /\ served' = served /\ sent' = sent
      /\ response_' = response_ /\ \A i : Intact(i)' <=> Intact(i)
  BY DEF Intact
<1>2. Shape' /\ Fresh(response_)'
  BY <1>1 DEF IInv, Shape
<1>3. Open'
  BY <1>1 DEF IInv, Open
<1>4. RequestsAsSent'
  BY <1>1 DEF IInv, RequestsAsSent
<1>5. AnswersInOrder'
  BY <1>1 DEF IInv, AnswersInOrder
<1>6. (connState = "kConnected" \/ Intact(Len(served) + 1) => Position)'
  BY <1>1 DEF IInv
<1> QED BY <1>2, <1>3, <1>4, <1>5, <1>6 DEF IInv

\* What is received is what comes next in the stream.
LEMMA ReceiveStep ==
  ASSUME IInv, NEW n \in 1..(Len(Stream) - delivered), Receive(n)
  PROVE  IInv'
<1>1. /\ buffer' = buffer \o SubSeq(Stream, delivered + 1, delivered + n)
      /\ delivered' = delivered + n
      /\ UNCHANGED <<parser, request_, result, messages, served>>
      /\ UNCHANGED <<messages, served, sent, response_>> /\ connState' = connState
  BY DEF Receive
<1>2. Stream' = Stream
  BY <1>1 DEF Stream
<1>3. Stream \in Seq(Symbols)
  <2>1. Shape /\ 1 \in DOMAIN messages
    BY LenProperties DEF IInv, Shape
  <2>2. 0 \in Nat /\ 0 + 1 = 1
    OBVIOUS
  <2>3. Here(EndOf(0), messages[1])
    BY <2>1, <2>2, HereNow
  <2> QED BY <2>3 DEF Here
<1>4. ASSUME NEW b, Window(b) PROVE Window(b)'
  <2> DEFINE x == SubSeq(Stream, delivered + 1, delivered + n)
  <2>1. /\ buffer \in Seq(Symbols) /\ Len(buffer) \in Nat /\ delivered \in 0..Len(Stream)
        /\ b + Len(buffer) = delivered /\ Len(Stream) \in Nat /\ b \in Nat
        /\ \A k \in 1..Len(buffer) : buffer[k] = Stream[b + k]
    BY <1>3, <1>4, LenProperties DEF Window
  <2>2. /\ x \in Seq(Symbols) /\ Len(x) = n
        /\ \A k \in 1..n : x[k] = Stream[delivered + k]
    <3>1. PICK a \in Nat : a = delivered
      BY <2>1
    <3>2. a + 1 \in Nat /\ a + n \in Nat /\ a + 1 >= 1 /\ a + n <= Len(Stream)
      BY <2>1, <3>1
    <3>3. /\ SubSeq(Stream, a + 1, a + n) \in Seq(Symbols)
          /\ Len(SubSeq(Stream, a + 1, a + n)) = n
          /\ \A k \in 1..n : SubSeq(Stream, a + 1, a + n)[k] = Stream[a + k]
      BY <1>3, <2>1, <3>2
    <3> QED BY <3>1, <3>3
  <2>3. buffer' = Cat(buffer, x)
    BY <1>1 DEF Cat
  <2> HIDE DEF x
  <2>4. Parts(Cat(buffer, x), buffer, x) /\ Cat(buffer, x) \in Seq(Symbols)
    BY <2>1, <2>2, PartsOfCat
  <2>5. /\ buffer' \in Seq(Symbols) /\ Len(buffer') = Len(buffer) + n
        /\ \A k \in 1..Len(buffer) : buffer'[k] = buffer[k]
        /\ \A k \in 1..n : buffer'[Len(buffer) + k] = x[k]
    BY <2>2, <2>3, <2>4 DEF Parts
  <2>6. ASSUME NEW k \in 1..(Len(buffer) + n) PROVE buffer'[k] = Stream[b + k]
    <3>1. CASE k \in 1..Len(buffer)
      BY <2>1, <2>5, <3>1
    <3>2. CASE k \notin 1..Len(buffer)
      <4>1. PICK l \in 1..n : k = Len(buffer) + l
        <5>1. k - Len(buffer) \in 1..n /\ k = Len(buffer) + (k - Len(buffer))
          BY <2>1, <3>2
        <5> QED BY <5>1
      <4>2. delivered + l = b + k
        <5>1. PICK len \in Nat : len = Len(buffer)
          BY <2>1
        <5>2. b + len = delivered /\ k = len + l /\ (b + len) + l = b + (len + l)
          BY <2>1, <4>1, <5>1
        <5> QED BY <5>2
      <4> QED BY <2>2, <2>5, <4>1, <4>2
    <3> QED BY <3>1, <3>2
  <2>7. b + Len(buffer') = delivered' /\ delivered' \in 0..Len(Stream)
    <3>1. PICK l \in Nat : l = Len(buffer)
      BY <2>1
    <3>2. b + l = delivered /\ Len(buffer') = l + n /\ delivered' = delivered + n
      BY <1>1, <2>1, <2>5, <3>1
    <3>3. b + (l + n) = (b + l) + n /\ delivered + n \in 0..Len(Stream)
      BY <2>1
    <3> QED BY <3>2, <3>3
  <2> QED BY <1>2, <2>1, <2>5, <2>6, <2>7 DEF Window
<1>5. Position => Position'
  BY <1>1, <1>4, PositionStays
<1> QED BY <1>1, <1>5, NoAnswer

\* The end of the connection, and the steps that only decide what is next.
LEMMA QuietStep ==
  ASSUME IInv, PeerCloses \/ PeerResets \/ Turn
  PROVE  IInv'
<1>1. /\ UNCHANGED <<parser, request_, messages, served>>
      /\ UNCHANGED <<messages, served, sent, response_>>
      /\ UNCHANGED <<messages, delivered, buffer>>
      /\ connState' = connState \/ connState' = "kDisconnected"
      /\ result' = result \/ (Working /\ Working')
  BY DEF PeerCloses, PeerResets, Disconnected, Turn, parserVars, Working
<1>2. \A b : Window(b) => Window(b)'
  BY <1>1, WindowStays
<1>3. Position => Position'
  BY <1>1, <1>2, PositionStays
<1> QED BY <1>1, <1>3, NoAnswer

\* A turn of parseCString.
LEMMA ParseStep ==
  ASSUME IInv, Parse
  PROVE  IInv'
<1>1. UNCHANGED <<messages, served, sent, response_>> /\ connState' = connState
  BY DEF Parse, serverVars
<1>2. Position => Position'
  BY PositionParsed DEF IInv
<1> QED BY <1>1, <1>2, NoAnswer

\* One more message is intact if it is well formed.
LEMMA IntactNext ==
  ASSUME Shape, NEW n \in Nat
  PROVE  /\ Intact(n + 1) => Intact(n)
         /\ n + 1 \in DOMAIN messages =>
              (Intact(n + 1) <=> Intact(n) /\ WellFormed(messages[n + 1]))
<1>1. DOMAIN messages \in SUBSET Nat
  BY LenProperties DEF Shape
<1>2. \A j \in Nat : j <= n + 1 <=> j <= n \/ j = n + 1
  OBVIOUS
<1> QED BY <1>1, <1>2 DEF Intact

\* A response, and what fills one in: with a version, and without.
Response(v, s, b, h) == [version |-> v, status |-> s, body |-> b, headers |-> h]
Answered(r, x, y, z) == [r EXCEPT !.version = x, !.status = y, !.body = z]
Rejected(r, y, z) == [r EXCEPT !.status = y, !.body = z]

\* Field by field.
LEMMA FilledIn ==
  ASSUME NEW v, NEW s, NEW b, NEW h, NEW x, NEW y, NEW z
  PROVE  /\ Answered(Response(v, s, b, h), x, y, z) = Response(x, y, z, h)
         /\ Rejected(Response(v, s, b, h), y, z) = Response(v, y, z, h)
<1> DEFINE r == [version |-> v, status |-> s, body |-> b, headers |-> h]
<1>1. ASSUME NEW u, NEW p, p = [version |-> u, status |-> s, body |-> b, headers |-> h]
      PROVE  [[p EXCEPT !.status = y] EXCEPT !.body = z]
               = [version |-> u, status |-> y, body |-> z, headers |-> h]
  <2>1. [p EXCEPT !.status = y] = [version |-> u, status |-> y, body |-> b, headers |-> h]
    BY <1>1
  <2>2. [[version |-> u, status |-> y, body |-> b, headers |-> h] EXCEPT !.body = z]
          = [version |-> u, status |-> y, body |-> z, headers |-> h]
    OBVIOUS
  <2> QED BY <2>1, <2>2, Zenon
<1>2. [r EXCEPT !.version = x] = [version |-> x, status |-> s, body |-> b, headers |-> h]
  OBVIOUS
<1>3. /\ [r EXCEPT !.version = x, !.status = y, !.body = z]
           = [[[r EXCEPT !.version = x] EXCEPT !.status = y] EXCEPT !.body = z]
      /\ [r EXCEPT !.status = y, !.body = z] = [[r EXCEPT !.status = y] EXCEPT !.body = z]
  OBVIOUS
<1>4. [[r EXCEPT !.status = y] EXCEPT !.body = z]
        = [version |-> v, status |-> y, body |-> z, headers |-> h]
  BY <1>1
<1>5. [[[r EXCEPT !.version = x] EXCEPT !.status = y] EXCEPT !.body = z]
        = [version |-> x, status |-> y, body |-> z, headers |-> h]
  <2>1. PICK p : p = [r EXCEPT !.version = x]
    OBVIOUS
  <2>2. p = [version |-> x, status |-> s, body |-> b, headers |-> h]
    BY <1>2, <2>1, Zenon
  <2> QED BY <1>1, <2>1, <2>2, Zenon
<1> QED BY <1>3, <1>4, <1>5, Zenon DEF Answered, Rejected, Response

\* What onMessage makes of the handler's answer.
LEMMA AnswerIs ==
  ASSUME Fresh(response_), NEW r, NEW answer \in onRequest(r), NEW v
  PROVE  /\ setHeader(answer, "Connection", v).status =
              (IF r.path = "unregistered" THEN 404 ELSE 200)
         /\ setHeader(answer, "Connection", v).headers["Connection"] = v
<1>1. PICK w : response_ = [version |-> w, status |-> 200, body |-> 0,
                            headers |-> [k \in ResponseKeys |-> "absent"]]
  BY DEF Fresh
<1>2. "Connection" \in ResponseKeys /\ "Content-Length" \in ResponseKeys
  BY DEF ResponseKeys
<1>3. CASE r.path = "unregistered"
  <2>1. answer = [version |-> r.version, status |-> 404, body |-> 9,
                  headers |-> [[k \in ResponseKeys |-> "absent"]
                                 EXCEPT !["Content-Length"] = "10"]]
    <3>1. [response_ EXCEPT !.version = r.version, !.status = 404, !.body = 9]
            = [version |-> r.version, status |-> 404, body |-> 9,
               headers |-> [k \in ResponseKeys |-> "absent"]]
      <4>1. response_ = Response(w, 200, 0, [k \in ResponseKeys |-> "absent"])
        BY <1>1, Zenon DEF Response
      <4>2. Answered(response_, r.version, 404, 9)
              = Response(r.version, 404, 9, [k \in ResponseKeys |-> "absent"])
        BY <4>1, FilledIn
      <4> QED BY <4>2, Zenon DEF Answered, Response
    <3>2. answer = setHeader([version |-> r.version, status |-> 404, body |-> 9,
                              headers |-> [k \in ResponseKeys |-> "absent"]],
                             "Content-Length", "10")
      BY <1>3, <3>1 DEF onRequest
    <3> QED BY <3>2 DEF setHeader
  <2> QED BY <1>2, <1>3, <2>1 DEF setHeader
<1>4. CASE r.path # "unregistered"
  <2>1. \E u : answer = [version |-> u, status |-> 200, body |-> 0,
                         headers |-> [k \in ResponseKeys |-> "absent"]]
    BY <1>1, <1>4 DEF onRequest
  <2> QED BY <1>2, <1>4, <2>1 DEF setHeader
<1> QED BY <1>3, <1>4

\* An answer goes to the message after the answered ones.
LEMMA AnswerSent ==
  ASSUME IInv, connState = "kConnected", NEW n, n = Len(served),
         n + 1 \in DOMAIN messages, NEW a, sent' = Append(sent, a), messages' = messages,
         Intact(n + 1) =>
           /\ a.status = (IF messages[n + 1].line[3] = "unregistered" THEN 404 ELSE 200)
           /\ Shuts(a) <=> ~Persistent(messages[n + 1]),
         ~Intact(n + 1) => a.status = 400,
         connState' = IF Shuts(a) THEN "kDisconnecting" ELSE connState
  PROVE  /\ AnswersInOrder' /\ IsSeq(sent') /\ Len(sent') = n + 1
         /\ connState' = "kConnected" => \A i \in DOMAIN sent' : ~Shuts(sent'[i])
<1>1. Intact(n) /\ Len(sent) = n /\ \A i \in DOMAIN sent : ~Shuts(sent[i])
  BY DEF IInv, Open
<1>2. /\ IsSeq(sent') /\ n \in Nat /\ Len(sent') = n + 1
      /\ DOMAIN sent = 1..n /\ DOMAIN sent' = 1..(n + 1)
      /\ \A k \in 1..n : sent'[k] = sent[k]
      /\ sent'[n + 1] = a
  <2>1. IsSeq(sent)
    BY DEF IInv, Shape
  <2> QED BY <1>1, <2>1, AppendSeq
<1>3. \A i : Intact(i)' <=> Intact(i)
  BY DEF Intact
<1>4. \A i \in DOMAIN sent :
        /\ i \in DOMAIN messages
        /\ Intact(i) =>
             /\ sent[i].status = (IF messages[i].line[3] = "unregistered" THEN 404 ELSE 200)
             /\ Shuts(sent[i]) <=> ~Persistent(messages[i])
        /\ Intact(i - 1) /\ ~Intact(i) => sent[i].status = 400
  BY DEF IInv, AnswersInOrder
<1>5. ASSUME NEW i \in DOMAIN sent'
      PROVE  /\ i \in DOMAIN messages'
             /\ Intact(i)' =>
                  /\ sent'[i].status =
                       (IF messages'[i].line[3] = "unregistered" THEN 404 ELSE 200)
                  /\ Shuts(sent'[i]) <=> ~Persistent(messages'[i])
             /\ Intact(i - 1)' /\ ~Intact(i)' => sent'[i].status = 400
             /\ i < Len(sent') => ~Shuts(sent'[i])
  <2>1. CASE i = n + 1
    <3>1. ~(i < Len(sent'))
      BY <1>2, <2>1
    <3> QED BY <1>2, <1>3, <2>1, <3>1
  <2>2. CASE i # n + 1
    <3>1. i \in 1..n /\ sent'[i] = sent[i]
      BY <1>2, <2>2
    <3> QED BY <1>1, <1>2, <1>3, <1>4, <3>1
  <2> QED BY <2>1, <2>2
<1>6. sent' # <<>> /\ Last(sent') = a
  BY <1>2 DEF Last
<1>7. connState' # "kDisconnected" =>
        (connState' = "kDisconnecting" <=> sent' # <<>> /\ Shuts(Last(sent')))
  BY <1>6
<1>8. connState' = "kConnected" => ~Shuts(a)
  OBVIOUS
<1>9. AnswersInOrder'
  BY <1>5, <1>7 DEF AnswersInOrder, Shuts, Persistent
<1>10. ASSUME connState' = "kConnected", NEW i \in DOMAIN sent' PROVE ~Shuts(sent'[i])
  BY <1>1, <1>2, <1>8, <1>10
<1> QED BY <1>2, <1>9, <1>10

\* The values that an answer leaves behind.
LEMMA ReplyLeaves ==
  ASSUME NEW a, Reply(a)
  PROVE  /\ state_' = "kStartLine" /\ contentLength_' = 0 /\ bodyReceived_' = 0
         /\ request_' = EmptyRequest /\ Fresh(response_') /\ result' = "kNeedMore"
         /\ messages' = messages /\ delivered' = delivered /\ buffer' = buffer
         /\ sent' = IF connState = "kConnected" THEN Append(sent, a) ELSE sent
         /\ connState' = IF connState = "kConnected" /\ Shuts(a)
                         THEN "kDisconnecting" ELSE connState
<1>1. Fresh(response_')
  BY DEF Reply, resetContext, ClearedResponse, Fresh
<1>2. sent' = IF connState = "kConnected" THEN Append(sent, a) ELSE sent
  BY DEF Reply, Taken
<1> QED BY <1>1, <1>2 DEF Reply, resetContext, reset, Cleared

\* On a connection that was shut down the answer is dropped.
LEMMA AnswerDropped ==
  ASSUME AnswersInOrder, connState # "kConnected", UNCHANGED <<messages, sent, connState>>
  PROVE  AnswersInOrder'
<1>1. \A i : Intact(i)' <=> Intact(i)
  BY DEF Intact
<1> QED BY <1>1 DEF AnswersInOrder

\* A request that was parsed is the next message, if no message was broken
\* before it; after its answer the parser is at the start of the one after it.
LEMMA SuccessStep ==
  ASSUME IInv, OnSuccess
  PROVE  IInv'
<1>1. result = "kSuccess" /\ served' = Append(served, request_)
  BY DEF OnSuccess
<1>2. PICK v : v = IF isKeepAlive(request_) THEN "keep-alive" ELSE "close"
  OBVIOUS
<1>3. PICK answer \in onRequest(request_) : Reply(setHeader(answer, "Connection", v))
  BY <1>2 DEF OnSuccess
<1>4. PICK a : a = setHeader(answer, "Connection", v)
  OBVIOUS
<1>5. /\ state_' = "kStartLine" /\ contentLength_' = 0 /\ bodyReceived_' = 0
      /\ request_' = EmptyRequest /\ Fresh(response_') /\ result' = "kNeedMore"
      /\ messages' = messages /\ delivered' = delivered /\ buffer' = buffer
      /\ sent' = IF connState = "kConnected" THEN Append(sent, a) ELSE sent
      /\ connState' = IF connState = "kConnected" /\ Shuts(a)
                      THEN "kDisconnecting" ELSE connState
  BY <1>3, <1>4, ReplyLeaves
<1>6. /\ a.status = (IF request_.path = "unregistered" THEN 404 ELSE 200)
      /\ a.headers["Connection"] = v
  BY <1>3, <1>4, AnswerIs DEF IInv
<1>7. Shuts(a) <=> ~isKeepAlive(request_)
  BY <1>2, <1>6 DEF Shuts
<1>8. Shape /\ IsSeq(served) /\ IsSeq(sent)
  BY DEF IInv, Shape
<1>9. PICK n : n = Len(served)
  OBVIOUS
<1>10. /\ IsSeq(served') /\ n \in Nat /\ Len(served') = n + 1
       /\ DOMAIN served = 1..n /\ DOMAIN served' = 1..(n + 1)
       /\ \A k \in 1..n : served'[k] = served[k]
       /\ served'[n + 1] = request_
  BY <1>1, <1>8, <1>9, AppendSeq
<1>11. (\A i : Intact(i)' <=> Intact(i)) /\ (\A i : EndOf(i)' = EndOf(i))
  BY <1>5 DEF Intact, EndOf
<1>12. PICK m : m = messages[n + 1]
  OBVIOUS
<1>13. PICK e : e = EndOf(n + 1)
  OBVIOUS
<1>14. ASSUME connState = "kConnected" \/ Intact(n + 1)
       PROVE  n + 1 \in DOMAIN messages /\ Done(e, m)
  <2>1. Position
    BY <1>9, <1>14 DEF IInv
  <2>2. \A b : ~AtStart(b)
    BY <1>1 DEF AtStart, Working
  <2>3. \A b, k : ~InHeaders(b, m, k) /\ ~InBody(b, m) /\ ~Failed(m)
    BY <1>1 DEF InHeaders, InBody, Failed, Working
  <2> QED BY <1>9, <1>12, <1>13, <2>1, <2>2, <2>3 DEF Position
<1>15. ASSUME Done(e, m) PROVE request_ = Meant(m) /\ WellFormed(m) /\ Window(e)
  BY <1>15 DEF Done
<1>16. RequestsAsSent'
  <2>1. ASSUME NEW i \in 1..(n + 1), Intact(i)
        PROVE  i \in DOMAIN messages /\ served'[i] = Meant(messages[i])
    <3>1. CASE i = n + 1
      BY <1>10, <1>12, <1>14, <1>15, <2>1, <3>1
    <3>2. CASE i # n + 1
      <4>1. i \in 1..n
        BY <1>10, <3>2
      <4> QED BY <1>10, <2>1, <4>1 DEF IInv, RequestsAsSent
    <3> QED BY <3>1, <3>2
  <2> QED BY <1>5, <1>10, <1>11, <2>1 DEF RequestsAsSent
<1>17. (connState = "kConnected" \/ Intact(Len(served) + 1) => Position)'
  <2> SUFFICES ASSUME connState' = "kConnected" \/ Intact((n + 1) + 1)
               PROVE  Position'
    BY <1>10, <1>11
  <2>1. connState = "kConnected" \/ Intact(n + 1)
    <3>1. n + 1 \in Nat
      BY <1>10
    <3>2. Intact((n + 1) + 1) => Intact(n + 1)
      BY <1>8, <3>1, IntactNext
    <3> QED BY <1>5, <3>2
  <2>2. n + 1 \in DOMAIN messages /\ Window(e)
    BY <1>14, <1>15, <2>1
  <2>3. Window(e)'
    BY <1>5, <2>2, WindowStays
  <2>4. AtStart(e)'
    BY <1>5, <2>3 DEF AtStart, Working
  <2>5. n + 1 \in 0..Len(messages)
    BY <1>8, <1>10, <2>2, LenProperties DEF Shape
  <2>6. e = EndOf(n + 1)'
    BY <1>11, <1>13
  <2> QED BY <1>5, <1>10, <2>4, <2>5, <2>6 DEF Position
<1>18. CASE connState = "kConnected"
  <2>1. n + 1 \in DOMAIN messages /\ request_ = Meant(m) /\ WellFormed(m)
    BY <1>14, <1>15, <1>18
  <2>2. Intact(n + 1)
    <3>1. Intact(n)
      BY <1>9, <1>18 DEF IInv, Open
    <3> QED BY <1>8, <1>10, <1>12, <2>1, <3>1, IntactNext
  <2>3. a.status = (IF messages[n + 1].line[3] = "unregistered" THEN 404 ELSE 200)
    BY <1>6, <1>12, <2>1 DEF Meant
  <2>4. Shuts(a) <=> ~Persistent(messages[n + 1])
    <3>1. /\ request_.version = m.line[2]
          /\ request_.headers["connection"] = Header(m.headers, "connection")
      BY <2>1 DEF Meant, Keys
    <3>2. isKeepAlive(request_) <=> Persistent(m)
      BY <3>1 DEF isKeepAlive, Persistent
    <3> QED BY <1>7, <1>12, <3>2
  <2>5. /\ sent' = Append(sent, a)
        /\ connState' = IF Shuts(a) THEN "kDisconnecting" ELSE connState
    BY <1>5, <1>18
  <2>6. /\ AnswersInOrder' /\ IsSeq(sent') /\ Len(sent') = n + 1
        /\ connState' = "kConnected" => \A i \in DOMAIN sent' : ~Shuts(sent'[i])
    BY <1>5, <1>9, <1>18, <2>1, <2>2, <2>3, <2>4, <2>5, AnswerSent
  <2>7. Open'
    BY <1>10, <1>11, <2>2, <2>6 DEF Open, Shuts
  <2>8. Shape'
    BY <1>5, <1>8, <1>10, <2>6 DEF Shape
  <2> QED BY <1>5, <1>16, <1>17, <2>6, <2>7, <2>8 DEF IInv
<1>19. CASE connState # "kConnected"
  <2>1. sent' = sent /\ connState' = connState
    BY <1>5, <1>19
  <2>2. AnswersInOrder'
    BY <1>5, <1>19, <2>1, AnswerDropped DEF IInv
  <2>3. Open'
    BY <1>19, <2>1 DEF Open
  <2>4. Shape'
    BY <1>5, <1>8, <1>10, <2>1 DEF Shape
  <2> QED BY <1>5, <1>16, <1>17, <2>2, <2>3, <2>4 DEF IInv
<1> QED BY <1>18, <1>19

\* A message that was rejected is the next one, and broken; its answer ends
\* the connection.
LEMMA ErrorStep ==
  ASSUME IInv, OnError
  PROVE  IInv'
<1>1. result = "kError" /\ served' = served
  BY DEF OnError
<1>2. PICK a : a = setHeader([response_ EXCEPT !.status = 400, !.body = 11],
                             "Connection", "close")
  OBVIOUS
<1>3. Reply(a)
  BY <1>2 DEF OnError
<1>4. /\ Fresh(response_') /\ messages' = messages
      /\ sent' = IF connState = "kConnected" THEN Append(sent, a) ELSE sent
      /\ connState' = IF connState = "kConnected" /\ Shuts(a)
                      THEN "kDisconnecting" ELSE connState
  BY <1>3, ReplyLeaves
<1>5. a.status = 400 /\ Shuts(a)
  <2>1. PICK w : response_ = [version |-> w, status |-> 200, body |-> 0,
                              headers |-> [k \in ResponseKeys |-> "absent"]]
    BY DEF IInv, Fresh
  <2>2. "Connection" \in ResponseKeys
    BY DEF ResponseKeys
  <2>3. a = setHeader([version |-> w, status |-> 400, body |-> 11,
                       headers |-> [k \in ResponseKeys |-> "absent"]],
                      "Connection", "close")
    <3>1. response_ = Response(w, 200, 0, [k \in ResponseKeys |-> "absent"])
      BY <2>1, Zenon DEF Response
    <3>2. Rejected(response_, 400, 11)
            = Response(w, 400, 11, [k \in ResponseKeys |-> "absent"])
      BY <3>1, FilledIn
    <3> QED BY <1>2, <3>2, Zenon DEF Rejected, Response
  <2> QED BY <2>2, <2>3 DEF setHeader, Shuts
<1>6. connState' # "kConnected"
  BY <1>4, <1>5
<1>7. PICK n : n = Len(served)
  OBVIOUS
<1>8. (\A i : Intact(i)' <=> Intact(i)) /\ Shape /\ n \in Nat
  <2>1. Shape /\ IsSeq(served)
    BY DEF IInv, Shape
  <2>2. n \in Nat
    BY <1>7, <2>1, AppendSeq
  <2> QED BY <1>4, <2>1, <2>2 DEF Intact
<1>9. ASSUME connState = "kConnected" \/ Intact(n + 1)
      PROVE  n + 1 \in DOMAIN messages /\ ~WellFormed(messages[n + 1])
  <2>1. Position
    BY <1>7, <1>9 DEF IInv
  <2>2. \A b, e, m, k : ~AtStart(b) /\ ~InHeaders(b, m, k) /\ ~InBody(b, m) /\ ~Done(e, m)
    BY <1>1 DEF AtStart, InHeaders, InBody, Done, Working
  <2> QED BY <1>7, <2>1, <2>2 DEF Position, Failed
<1>10. ~Intact(n + 1)
  BY <1>8, <1>9, IntactNext
<1>11. (connState = "kConnected" \/ Intact(Len(served) + 1) => Position)'
  BY <1>1, <1>6, <1>7, <1>8, <1>10
<1>12. RequestsAsSent' /\ Open'
  BY <1>1, <1>4, <1>6, <1>8 DEF IInv, RequestsAsSent, Open
<1>13. CASE connState = "kConnected"
  <2>1. AnswersInOrder' /\ IsSeq(sent')
    BY <1>4, <1>5, <1>7, <1>9, <1>10, <1>13, AnswerSent
  <2>2. Shape'
    BY <1>1, <1>4, <1>8, <2>1 DEF Shape
  <2> QED BY <1>4, <1>11, <1>12, <2>1, <2>2 DEF IInv
<1>14. CASE connState # "kConnected"
  <2>1. sent' = sent /\ connState' = connState
    BY <1>4, <1>14
  <2>2. AnswersInOrder'
    BY <1>4, <1>14, <2>1, AnswerDropped DEF IInv
  <2>3. Shape'
    BY <1>1, <1>4, <1>8, <2>1 DEF Shape
  <2> QED BY <1>4, <1>11, <1>12, <2>2, <2>3 DEF IInv
<1> QED BY <1>13, <1>14

-----------------------------------------------------------------------------
(* Types, whatever the client sent.                                        *)

\* What the types rest on: between two bodies the counters are zero.
TInv ==
  /\ messages \in Seq(Messages) /\ Len(messages) \in 1..MaxPipelined
  /\ buffer \in Seq(Symbols)
  /\ state_ # "kBody" => contentLength_ = 0 /\ bodyReceived_ = 0
  /\ TypeOK

\* The stream is made of symbols.
LEMMA StreamType ==
  ASSUME messages \in Seq(Messages), Len(messages) \in 1..MaxPipelined
  PROVE  Stream \in Seq(Symbols) /\ Len(Stream) \in Nat
<1>1. \A x \in Messages : IsMessage(x)
  BY HttpConstants DEF IsMessage
<1>2. 1 \in 1..Len(messages)
  BY HttpConstants
<1>3. StreamOf(messages) \in Seq(Symbols)
  BY <1>1, <1>2, StreamIs
<1> QED BY <1>3, LenProperties DEF Stream

\* What is left of the buffer behind a line.
LEMMA RestType ==
  ASSUME buffer \in Seq(Symbols), LineEnds # {}
  PROVE  Rest \in Seq(Symbols)
<1>1. Len(buffer) \in Nat
  BY LenProperties
<1>2. LineEnds \in SUBSET Nat /\ \A x \in LineEnds : x + 1 <= Len(buffer)
  BY <1>1 DEF LineEnds
<1>3. PICK x \in LineEnds : \A y \in LineEnds : x <= y
  BY <1>2, LeastNumber
<1>4. Min(LineEnds) = x
  BY <1>2, <1>3, MinIs
<1>5. x \in Nat /\ x + 2 \in 1..(Len(buffer) + 1)
  BY <1>1, <1>2
<1>6. SubSeq(buffer, x + 2, Len(buffer)) \in Seq(Symbols)
  BY <1>1, <1>5
<1> QED BY <1>4, <1>6 DEF Rest

\* Setting a field or a header keeps the fields and the headers of a request.
LEMMA RequestType ==
  ASSUME NEW r, DOMAIN r = DOMAIN EmptyRequest, DOMAIN r.headers = Keys, NEW x, NEW y
  PROVE  /\ DOMAIN [r EXCEPT !.version = x, !.path = y] = DOMAIN EmptyRequest
         /\ DOMAIN [r EXCEPT !.version = x, !.path = y].headers = Keys
         /\ DOMAIN [r EXCEPT !.headers = [r.headers EXCEPT ![x] = y]] = DOMAIN EmptyRequest
         /\ DOMAIN [r EXCEPT !.headers = [r.headers EXCEPT ![x] = y]].headers = Keys
         /\ DOMAIN [r EXCEPT !.body = x] = DOMAIN EmptyRequest
         /\ DOMAIN [r EXCEPT !.body = x].headers = Keys
<1>1. "headers" \in DOMAIN r
  BY DEF EmptyRequest
<1> QED BY <1>1

\* parseCString's counters: what is received of a body is less than what is
\* announced until all of it is there.
LEMMA ParseTypes ==
  ASSUME TInv, Parse
  PROVE  TInv'
<1>1. ParseTurn /\ pc = "onMessage" /\ UNCHANGED serverVars
  BY DEF Parse
<1>2. /\ UNCHANGED <<messages, delivered, pc, connState, context>> /\ Stream' = Stream
  BY <1>1 DEF serverVars, Stream
<1>3. Huge \in Nat /\ Huge > 2
  BY HttpConstants
<1>4. /\ buffer \in Seq(Symbols) /\ Len(buffer) \in Nat
      /\ state_ \in {"kStartLine", "kHeaders", "kBody"}
      /\ contentLength_ \in 0..Huge /\ bodyReceived_ \in 0..contentLength_
      /\ state_ # "kBody" => contentLength_ = 0 /\ bodyReceived_ = 0
      /\ DOMAIN request_ = DOMAIN EmptyRequest /\ DOMAIN request_.headers = Keys
  BY LenProperties DEF TInv, TypeOK
<1>5. SUFFICES /\ buffer' \in Seq(Symbols)
               /\ state_' \in {"kStartLine", "kHeaders", "kBody"}
               /\ contentLength_' \in 0..Huge /\ bodyReceived_' \in 0..contentLength_'
               /\ state_' # "kBody" => contentLength_' = 0 /\ bodyReceived_' = 0
               /\ DOMAIN request_' = DOMAIN EmptyRequest /\ DOMAIN request_'.headers = Keys
               /\ result' \in {"parsing", "kNeedMore", "kSuccess", "kError"}
  BY <1>1, <1>2 DEF TInv, TypeOK
<1>6. ASSUME NEW r \in {"kNeedMore", "kError"}, Break(r)
      PROVE  /\ UNCHANGED <<state_, contentLength_, bodyReceived_, request_, buffer>>
             /\ result' = r
  BY <1>6 DEF Break, parser
<1>7. CASE UNCHANGED <<state_, contentLength_, bodyReceived_, request_, buffer>>
           /\ result' \in {"kNeedMore", "kError"}
  BY <1>4, <1>7
<1>8. CASE Exhausted
  BY <1>6, <1>7, <1>8 DEF Exhausted
<1>9. CASE ParseStartLine
  <2>1. CASE Break("kNeedMore") \/ Break("kError")
    BY <1>6, <1>7, <2>1
  <2>2. CASE /\ LineEnds # {} /\ IsRequestLine /\ result = "parsing"
             /\ state_ = "kStartLine"
             /\ request_' = [request_ EXCEPT !.version = Last(Line)[2],
                                             !.path = Last(Line)[3]]
             /\ buffer' = Rest
             /\ state_' = "kHeaders"
             /\ UNCHANGED <<contentLength_, bodyReceived_, result>>
    <3>1. DOMAIN request_' = DOMAIN EmptyRequest /\ DOMAIN request_'.headers = Keys
      BY <1>4, <2>2, RequestType
    <3>2. buffer' \in Seq(Symbols)
      BY <1>4, <2>2, RestType
    <3> QED BY <1>3, <1>4, <2>2, <3>1, <3>2
  <2> QED BY <1>9, <2>1, <2>2 DEF ParseStartLine
<1>10. CASE ParseHeaderLine
  <2>1. CASE Break("kNeedMore") \/ Break("kError")
    BY <1>6, <1>7, <2>1
  <2>2. CASE /\ LineEnds # {} /\ IsHeaderLine /\ result = "parsing"
             /\ request_' = [request_ EXCEPT !.headers = Stored(KeyOf, Last(Line)[3])]
             /\ buffer' = Rest
             /\ UNCHANGED <<parser, result>>
    <3>1. DOMAIN request_' = DOMAIN EmptyRequest /\ DOMAIN request_'.headers = Keys
      BY <1>4, <2>2, RequestType DEF Stored
    <3>2. buffer' \in Seq(Symbols)
      BY <1>4, <2>2, RestType
    <3> QED BY <1>4, <2>2, <3>1, <3>2 DEF parser
  <2> QED BY <1>10, <2>1, <2>2 DEF ParseHeaderLine
<1>11. CASE ParseBlankLine
  <2>1. buffer' \in Seq(Symbols) /\ request_' = request_ /\ state_ = "kHeaders"
        /\ result = "parsing"
    BY <1>4, <1>11, RestType DEF ParseBlankLine
  <2>2. \/ result' = "kSuccess" /\ UNCHANGED parser
        \/ /\ state_' = "kBody" /\ result' = "kError"
           /\ UNCHANGED <<contentLength_, bodyReceived_>>
        \/ /\ state_' = "kBody" /\ contentLength_' \in 0..Huge
           /\ result' \in {"kSuccess", "parsing"} /\ UNCHANGED bodyReceived_
    <3>1. \A n \in DOMAIN stoul : stoul[n] \in 0..Huge
      BY <1>3 DEF stoul
    <3> QED BY <1>11, <2>1, <3>1 DEF ParseBlankLine
  <2> QED BY <1>3, <1>4, <2>1, <2>2 DEF parser
<1>12. CASE ParseBody
  <2>1. Need \in Nat /\ Need = contentLength_ - bodyReceived_
    BY <1>4 DEF Need
  <2>2. CASE /\ Len(buffer) >= Need
             /\ request_' = [request_ EXCEPT !.body = @ \o SubSeq(buffer, 1, Need)]
             /\ buffer' = SubSeq(buffer, Need + 1, Len(buffer))
             /\ reset
             /\ result' = "kSuccess"
    <3>1. buffer' \in Seq(Symbols)
      BY <1>4, <2>1, <2>2
    <3>2. DOMAIN request_' = DOMAIN EmptyRequest /\ DOMAIN request_'.headers = Keys
      BY <1>4, <2>2, RequestType
    <3> QED BY <1>3, <2>2, <3>1, <3>2 DEF reset
  <2>3. CASE state_ = "kBody" /\ Len(buffer) < Need /\ Absorb
    <3>1. DOMAIN request_' = DOMAIN EmptyRequest /\ DOMAIN request_'.headers = Keys
      BY <1>4, <2>3, RequestType DEF Absorb
    <3>2. bodyReceived_' \in 0..contentLength_'
      BY <1>4, <2>1, <2>3 DEF Absorb
    <3> QED BY <1>4, <2>3, <3>1, <3>2 DEF Absorb
  <2> QED BY <1>12, <2>2, <2>3 DEF ParseBody
<1> QED BY <1>1, <1>8, <1>9, <1>10, <1>11, <1>12 DEF ParseTurn

-----------------------------------------------------------------------------
(* The theorems.                                                           *)

\* A new connection satisfies the invariant.
LEMMA InitInv ==
  ASSUME Init
  PROVE  IInv
<1>1. /\ state_ = "kStartLine" /\ contentLength_ = 0 /\ bodyReceived_ = 0
      /\ request_ = EmptyRequest /\ buffer = <<>> /\ result = "kNeedMore"
      /\ delivered = 0 /\ served = <<>> /\ sent = <<>> /\ connState = "kConnected"
  BY DEF Init, ParserInit
<1>2. PICK l \in 1..MaxPipelined : messages \in [1..l -> Messages]
  BY DEF Init
<1>3. l \in Nat /\ MaxPipelined \in Nat
  BY HttpConstants
<1>4. /\ messages \in Seq(Messages) /\ Len(messages) = l
  BY <1>2, <1>3
<1>5. IsSeq(served) /\ IsSeq(sent) /\ Len(served) = 0 /\ Len(sent) = 0
  <2>1. <<>> \in Seq({}) /\ Len(<<>>) = 0
    OBVIOUS
  <2> QED BY <1>1, <2>1 DEF IsSeq
<1>6. Shape
  BY <1>2, <1>4, <1>5 DEF Shape
<1>7. Fresh(response_)
  BY DEF Init, Fresh
<1>8. Open
  <2>1. DOMAIN messages = 1..l
    BY <1>2
  <2>2. Intact(0)
    BY <1>3, <2>1 DEF Intact
  <2>3. DOMAIN sent = {}
    BY <1>1
  <2> QED BY <1>5, <2>2, <2>3 DEF Open
<1>9. Position
  <2>1. EndOf(0) = 0
    BY <1>4, StreamEnds DEF EndOf
  <2>2. Len(Stream) \in Nat
    <3>1. 0 \in Nat /\ 0 + 1 \in DOMAIN messages
      BY <1>2
    <3>2. Here(EndOf(0), messages[0 + 1])
      BY <1>6, <3>1, HereNow
    <3> QED BY <3>2, LenProperties DEF Here
  <2>3. Window(0)
    <3>1. buffer \in Seq(Symbols) /\ Len(buffer) = 0
      BY <1>1
    <3> QED BY <1>1, <2>2, <3>1 DEF Window
  <2>4. AtStart(EndOf(0))
    BY <1>1, <2>1, <2>3 DEF AtStart, Working
  <2>5. 0 \in 0..Len(messages)
    BY <1>3, <1>4
  <2> QED BY <1>5, <2>4, <2>5 DEF Position
<1>10. RequestsAsSent /\ AnswersInOrder
  <2>1. DOMAIN served = {} /\ DOMAIN sent = {}
    BY <1>1
  <2> QED BY <1>1, <2>1 DEF RequestsAsSent, AnswersInOrder
<1> QED BY <1>6, <1>7, <1>8, <1>9, <1>10 DEF IInv

\* Every step keeps it.
LEMMA NextInv ==
  ASSUME IInv, [Next]_vars
  PROVE  IInv'
<1>1. CASE Next
  <2>1. CASE \E n \in 1..(Len(Stream) - delivered) : Receive(n)
    BY <2>1, ReceiveStep
  <2>2. CASE PeerCloses \/ PeerResets \/ Turn
    BY <2>2, QuietStep
  <2>3. CASE Parse
    BY <2>3, ParseStep
  <2>4. CASE OnSuccess
    BY <2>4, SuccessStep
  <2>5. CASE OnError
    BY <2>5, ErrorStep
  <2> QED BY <1>1, <2>1, <2>2, <2>3, <2>4, <2>5 DEF Next, onMessage
<1>2. CASE UNCHANGED vars
  <2>1. /\ UNCHANGED <<parser, request_, messages, served>>
        /\ UNCHANGED <<messages, served, sent, response_>>
        /\ UNCHANGED <<messages, delivered, buffer>>
        /\ connState' = connState /\ result' = result
    BY <1>2 DEF vars, parserVars, serverVars
  <2>2. \A b : Window(b) => Window(b)'
    BY <2>1, WindowStays
  <2>3. Position => Position'
    BY <2>1, <2>2, PositionStays
  <2> QED BY <2>1, <2>3, NoAnswer
<1> QED BY <1>1, <1>2

\* Whatever pieces a pipeline arrives in, the requests handed to onRequest are
\* the messages that the client sent, in order, each with its own headers and
\* its own body, as long as none was broken.
THEOREM HandedOutAsSent == Spec => []RequestsAsSent
<1>1. Init => IInv
  BY InitInv
<1>2. IInv /\ [Next]_vars => IInv'
  BY NextInv
<1>3. IInv => RequestsAsSent
  BY DEF IInv
<1> QED BY <1>1, <1>2, <1>3, PTL DEF Spec

\* onMessage answers the i-th message with the i-th response, 400 for a broken
\* one; it sends nothing after a response that announces the close, and shuts
\* the connection down exactly when it has announced that.
THEOREM AnsweredInOrder == Spec => []AnswersInOrder
<1>1. Init => IInv
  BY InitInv
<1>2. IInv /\ [Next]_vars => IInv'
  BY NextInv
<1>3. IInv => AnswersInOrder
  BY DEF IInv
<1> QED BY <1>1, <1>2, <1>3, PTL DEF Spec

\* The types of the connection, its parser and its request: the body never
\* outgrows the announced length, so that parseCString's unsigned difference
\* contentLength_ - bodyReceived_ does not wrap, and onMessage leaves no
\* result behind.
THEOREM HttpTypeCorrect == Spec => []TypeOK
<1>1. Init => TInv
  <2> SUFFICES ASSUME Init PROVE TInv
    OBVIOUS
  <2>1. Shape
    BY InitInv DEF IInv
  <2>2. messages \in Seq(Messages) /\ Len(messages) \in 1..MaxPipelined
    BY <2>1 DEF Shape
  <2>3. Len(Stream) \in Nat
    BY <2>2, StreamType
  <2>4. Huge \in Nat
    BY HttpConstants
  <2>5. DOMAIN request_ = DOMAIN EmptyRequest /\ DOMAIN request_.headers = Keys
    BY DEF Init, ParserInit, EmptyRequest
  <2>6. buffer \in Seq(Symbols)
    BY DEF Init, ParserInit
  <2> QED BY <2>2, <2>3, <2>4, <2>5, <2>6 DEF Init, ParserInit, TInv, TypeOK
<1>2. TInv /\ [Next]_vars => TInv'
  <2> SUFFICES ASSUME TInv, [Next]_vars PROVE TInv'
    OBVIOUS
  <2>1. Stream \in Seq(Symbols) /\ Len(Stream) \in Nat
    BY StreamType DEF TInv
  <2>2. ASSUME NEW n \in 1..(Len(Stream) - delivered), Receive(n) PROVE TInv'
    <3>1. delivered \in 0..Len(Stream) /\ buffer \in Seq(Symbols)
      BY DEF TInv, TypeOK
    <3>2. SubSeq(Stream, delivered + 1, delivered + n) \in Seq(Symbols)
      BY <2>1, <3>1
    <3>3. buffer' \in Seq(Symbols)
      BY <2>2, <3>1, <3>2 DEF Receive
    <3>4. delivered' \in 0..Len(Stream) /\ Stream' = Stream
      BY <2>1, <2>2, <3>1 DEF Receive, Stream
    <3>5. pc \in {"idle", "afterError"} /\ pc' \in {"onMessage", "terminated"}
      BY <2>2 DEF Receive
    <3>6. UNCHANGED <<state_, contentLength_, bodyReceived_, request_, result, messages,
                      connState, context>>
      BY <2>2 DEF Receive, parser
    <3> QED BY <3>3, <3>4, <3>5, <3>6 DEF TInv, TypeOK
  <2>3. ASSUME PeerCloses \/ PeerResets PROVE TInv'
    <3>1. /\ UNCHANGED <<state_, contentLength_, bodyReceived_, request_, result, buffer,
                         messages, delivered>>
          /\ connState' = "kDisconnected" /\ context' = "nullptr"
          /\ pc \in {"idle", "afterError"} /\ pc' \in {"closed", "afterError"}
      BY <2>3 DEF PeerCloses, PeerResets, Disconnected, parserVars, parser
    <3>2. Stream' = Stream
      BY <3>1 DEF Stream
    <3> QED BY <3>1, <3>2 DEF TInv, TypeOK
  <2>4. ASSUME Turn PROVE TInv'
    <3>1. /\ UNCHANGED <<state_, contentLength_, bodyReceived_, request_, buffer, messages,
                         delivered, connState, context>>
          /\ \/ pc' = "idle" /\ result' = "kNeedMore"
             \/ pc' = "onMessage" /\ result' = "parsing"
      BY <2>4 DEF Turn, parser
    <3>2. Stream' = Stream
      BY <3>1 DEF Stream
    <3> QED BY <3>1, <3>2 DEF TInv, TypeOK
  <2>5. ASSUME NEW a, Reply(a) PROVE TInv'
    <3>1. /\ state_' = "kStartLine" /\ contentLength_' = 0 /\ bodyReceived_' = 0
          /\ request_' = EmptyRequest /\ result' = "kNeedMore"
          /\ messages' = messages /\ delivered' = delivered /\ buffer' = buffer
          /\ connState' = "kDisconnecting" \/ connState' = connState
      BY <2>5, ReplyLeaves
    <3>2. pc' = "onMessage" /\ context' = context /\ Stream' = Stream
      BY <2>5, <3>1 DEF Reply, AfterReply, Stream
    <3>3. DOMAIN EmptyRequest.headers = Keys /\ Huge \in Nat
      BY HttpConstants DEF EmptyRequest
    <3> QED BY <3>1, <3>2, <3>3 DEF TInv, TypeOK
  <2>6. ASSUME OnSuccess \/ OnError PROVE TInv'
    BY <2>5, <2>6 DEF OnSuccess, OnError
  <2>7. ASSUME UNCHANGED vars PROVE TInv'
    <3>1. /\ UNCHANGED <<state_, contentLength_, bodyReceived_, request_, buffer, result,
                         messages, delivered, pc, connState, context>>
      BY <2>7 DEF vars, parserVars, parser, serverVars
    <3>2. Stream' = Stream
      BY <3>1 DEF Stream
    <3> QED BY <3>1, <3>2 DEF TInv, TypeOK
  <2> QED BY <2>2, <2>3, <2>4, <2>6, <2>7, ParseTypes DEF Next, onMessage
<1>3. TInv => TypeOK
  BY DEF TInv
<1> QED BY <1>1, <1>2, <1>3, PTL DEF Spec

=============================================================================
