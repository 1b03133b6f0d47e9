--------------------------- MODULE SendQueueProofs ---------------------------
(***************************************************************************)
(* What Bytes computes, for any frames and sizes: the sum over a sequence  *)
(* splits wherever the sequence is cut, so it follows the queue's methods. *)
(* How many tokens of a session there are, as the methods move them.  And  *)
(* what a sum over a finite set does when one of its terms changes.        *)
(* Induction is by a least counterexample, from the well-foundedness of    *)
(* the natural numbers.                                                    *)
(***************************************************************************)
EXTENDS SendQueue, SequenceTheorems, FiniteSetTheorems, WellFoundedInduction, TLAPS

(* A non-empty set of natural numbers has a least element.                 *)
LEMMA LeastNatural ==
    ASSUME NEW S, S \subseteq Nat, S # {}
    PROVE  \E x \in S : \A y \in S : x <= y
<1>1. \E x \in S : \A y \in S : ~(<<y, x>> \in OpToRel(<, Nat))
  BY NatLessThanWellFounded, WFMin
<1>2. PICK x \in S : \A y \in S : ~(<<y, x>> \in OpToRel(<, Nat))
  BY <1>1
<1>3. \A y \in S : ~(y < x)
  BY <1>2 DEF OpToRel
<1>. QED BY <1>3, x \in Nat

(* Min returns it: the number of rounds of drop_old is one that makes room. *)
LEMMA MinOfNaturals ==
    ASSUME NEW S, S \subseteq Nat, S # {}
    PROVE  Min(S) \in S
BY LeastNatural DEF Min

(* A set that contains 0 and the successor of each of its members up to n  *)
(* contains every number up to n.                                          *)
LEMMA UpTo ==
    ASSUME NEW n \in Nat, NEW S, 0 \in S,
           \A i \in 0..n : i \in S /\ i < n => i + 1 \in S
    PROVE  0..n \subseteq S
<1> DEFINE bad == (0..n) \ S
<1>1. SUFFICES ASSUME bad # {} PROVE FALSE
  OBVIOUS
<1>2. PICK x \in bad : \A y \in bad : x <= y
  <2>. HIDE DEF bad
  <2>1. bad \subseteq Nat
    BY DEF bad
  <2>. QED BY <1>1, <2>1, LeastNatural
<1>3. x \in 0..n /\ x \notin S /\ x # 0
  BY <1>2
<1>4. x - 1 \in 0..n /\ x - 1 < n
  BY <1>3
<1>5. x - 1 \in S
  BY <1>2, <1>4
<1>. QED BY <1>3, <1>4, <1>5

-----------------------------------------------------------------------------
(* The running sum of a sequence of sizes.                                 *)

IsSum(sum, s) ==
    sum = [i \in 0..Len(s) |-> IF i = 0 THEN 0 ELSE sum[i - 1] + SizeOf(s[i])]

Sum(s) == CHOOSE sum : IsSum(sum, s)

LEMMA BytesSum == \A s : Bytes(s) = Sum(s)[Len(s)]
BY DEF Bytes, Sum, IsSum

Sized(F) == \A f \in F : SizeOf(f) \in Nat

(* Every sequence has a running sum: one for its first i frames extends to *)
(* the next.                                                               *)
Sums(g, s, n) ==
    /\ g \in [0..n -> Nat]
    /\ g[0] = 0
    /\ \A i \in 1..n : g[i] = g[i - 1] + SizeOf(s[i])

LEMMA SumExists ==
    ASSUME NEW F, Sized(F), NEW s \in Seq(F)
    PROVE  Sums(Sum(s), s, Len(s))
<1> DEFINE n == Len(s)
           S == {i \in Nat : \E g : Sums(g, s, i)}
<1>0. n \in Nat /\ \A i \in 1..n : SizeOf(s[i]) \in Nat
  BY LenProperties, ElementOfSeq DEF Sized
<1>1. 0 \in S
  <2>1. Sums([i \in 0..0 |-> 0], s, 0)
    BY DEF Sums
  <2>. QED BY <2>1
<1>2. ASSUME NEW i \in 0..n, i \in S, i < n PROVE i + 1 \in S
  <2>1. PICK g : Sums(g, s, i)
    BY <1>2
  <2> DEFINE h == [j \in 0..i + 1 |-> IF j <= i THEN g[j] ELSE g[i] + SizeOf(s[i + 1])]
  <2>2. i \in Nat /\ SizeOf(s[i + 1]) \in Nat /\ \A j \in 0..i : g[j] \in Nat
    BY <1>0, <1>2, <2>1 DEF Sums
  <2>3. h \in [0..i + 1 -> Nat]
    BY <2>2
  <2>4. h[0] = 0
    BY <2>1, <2>2 DEF Sums
  <2>5. ASSUME NEW j \in 1..i + 1 PROVE h[j] = h[j - 1] + SizeOf(s[j])
    <3>1. CASE j <= i
      <4>1. j \in 1..i /\ j - 1 \in 0..i /\ h[j] = g[j] /\ h[j - 1] = g[j - 1]
        BY <2>2, <3>1
      <4>. HIDE DEF h
      <4>. QED BY <2>1, <4>1 DEF Sums
    <3>2. CASE j = i + 1
      BY <2>2, <3>2
    <3>. QED BY <2>2, <3>1, <3>2
  <2>. HIDE DEF h
  <2>6. Sums(h, s, i + 1)
    BY <2>3, <2>4, <2>5 DEF Sums
  <2>. QED BY <2>2, <2>6
<1>3. n \in S
  <2>. HIDE DEF S
  <2>1. \A i \in 0..n : i \in S /\ i < n => i + 1 \in S
    BY <1>2
  <2>2. n \in Nat
    BY <1>0
  <2>. HIDE DEF n
  <2>3. 0..n \subseteq S
    BY <2>1, <2>2, <1>1, UpTo
  <2>. QED BY <2>2, <2>3
<1>4. PICK g : Sums(g, s, n)
  BY <1>3
<1>5. IsSum(g, s)
  <2> DEFINE h == [i \in 0..n |-> IF i = 0 THEN 0 ELSE g[i - 1] + SizeOf(s[i])]
  <2>1. \A i \in 0..n : g[i] = h[i]
    BY <1>0, <1>4 DEF Sums
  <2>2. g = h
    BY <1>4, <2>1 DEF Sums
  <2>. QED BY <2>2 DEF IsSum
<1>6. IsSum(Sum(s), s)
  BY <1>5 DEF Sum
<1>7. /\ DOMAIN Sum(s) = 0..n /\ Sum(s)[0] = 0
      /\ \A i \in 1..n : Sum(s)[i] = Sum(s)[i - 1] + SizeOf(s[i])
  <2> DEFINE f == Sum(s)
  <2>1. f = [i \in 0..n |-> IF i = 0 THEN 0 ELSE f[i - 1] + SizeOf(s[i])]
    BY <1>6 DEF IsSum
  <2>. HIDE DEF f
  <2>2. DOMAIN f = 0..n /\ \A i \in 0..n : f[i] = IF i = 0 THEN 0 ELSE f[i - 1] + SizeOf(s[i])
    BY <2>1
  <2>3. DOMAIN f = 0..n /\ f[0] = 0 /\ \A i \in 1..n : f[i] = f[i - 1] + SizeOf(s[i])
    BY <1>0, <2>2
  <2>. QED BY <2>3 DEF f
<1>8. \A i \in 0..n : Sum(s)[i] \in Nat
  <2> DEFINE T == {i \in Nat : Sum(s)[i] \in Nat}
  <2>1. 0 \in T
    BY <1>7
  <2>2. ASSUME NEW i \in 0..n, i \in T, i < n PROVE i + 1 \in T
    <3>1. i + 1 \in 1..n /\ (i + 1) - 1 = i
      BY <1>0, <2>2
    <3>2. Sum(s)[i + 1] = Sum(s)[i] + SizeOf(s[i + 1])
      BY <1>7, <3>1
    <3>. QED BY <1>0, <2>2, <3>1, <3>2
  <2>. HIDE DEF T
  <2>3. 0..n \subseteq T
    BY <1>0, <2>1, <2>2, UpTo
  <2>. QED BY <2>3 DEF T
<1>9. Sum(s) = [i \in 0..n |-> Sum(s)[i]]
  <2> DEFINE f == Sum(s)
  <2>1. f = [i \in 0..n |-> IF i = 0 THEN 0 ELSE f[i - 1] + SizeOf(s[i])]
    BY <1>6 DEF IsSum
  <2>. HIDE DEF f
  <2>2. f = [i \in 0..n |-> f[i]]
    BY <2>1
  <2>. QED BY <2>2 DEF f
<1>. QED BY <1>7, <1>8, <1>9 DEF Sums

(* Where two sequences agree, their running sums grow alike.               *)
LEMMA SumsAgree ==
    ASSUME NEW F, Sized(F), NEW s \in Seq(F), NEW t \in Seq(F),
           NEW k \in Nat, NEW n \in Nat, n <= Len(s), n + k <= Len(t),
           \A j \in 1..n : s[j] = t[j + k]
    PROVE  Sum(t)[n + k] = Sum(t)[k] + Sum(s)[n]
<1> DEFINE S == {i \in Nat : Sum(t)[i + k] = Sum(t)[k] + Sum(s)[i]}
<1>0. /\ Len(s) \in Nat /\ Len(t) \in Nat
      /\ \A i \in 0..Len(s) : Sum(s)[i] \in Nat
      /\ \A i \in 0..Len(t) : Sum(t)[i] \in Nat
      /\ Sum(s)[0] = 0
      /\ \A i \in 1..Len(s) : Sum(s)[i] = Sum(s)[i - 1] + SizeOf(s[i]) /\ SizeOf(s[i]) \in Nat
      /\ \A i \in 1..Len(t) : Sum(t)[i] = Sum(t)[i - 1] + SizeOf(t[i])
  BY SumExists, LenProperties, ElementOfSeq DEF Sums, Sized
<1>1. 0 \in S
  <2>1. k \in 0..Len(t) /\ 0 + k = k
    BY <1>0
  <2>2. Sum(t)[k] \in Nat /\ Sum(s)[0] = 0
    BY <1>0, <2>1
  <2>3. Sum(t)[0 + k] = Sum(t)[k] + Sum(s)[0]
    BY <2>1, <2>2
  <2>. QED BY <2>3
<1>2. ASSUME NEW i \in 0..n, i \in S, i < n PROVE i + 1 \in S
  <2>1. /\ i + 1 \in 1..Len(s) /\ (i + 1) - 1 = i /\ i \in 0..Len(s)
        /\ i + 1 + k \in 1..Len(t) /\ (i + 1 + k) - 1 = i + k /\ i + k \in 0..Len(t)
        /\ k \in 0..Len(t)
    BY <1>0, <1>2
  <2>2. Sum(s)[i + 1] = Sum(s)[i] + SizeOf(s[i + 1]) /\ SizeOf(s[i + 1]) \in Nat
    BY <1>0, <2>1
  <2>3. Sum(t)[i + 1 + k] = Sum(t)[i + k] + SizeOf(t[i + 1 + k])
    BY <1>0, <2>1
  <2>4. t[i + 1 + k] = s[i + 1]
    BY <1>2, <2>1
  <2>5. Sum(t)[i + k] = Sum(t)[k] + Sum(s)[i]
    BY <1>2
  <2>6. Sum(t)[k] \in Nat /\ Sum(s)[i] \in Nat
    BY <1>0, <2>1
  <2>7. Sum(t)[i + 1 + k] = Sum(t)[k] + Sum(s)[i + 1]
    BY <2>2, <2>3, <2>4, <2>5, <2>6
  <2>. QED BY <1>2, <2>7
<1>. HIDE DEF S
<1>3. n \in S
  <2>1. \A i \in 0..n : i \in S /\ i < n => i + 1 \in S
    BY <1>2
  <2>2. 0..n \subseteq S
    BY <2>1, <1>1, UpTo
  <2>. QED BY <2>2
<1>. QED BY <1>3 DEF S

-----------------------------------------------------------------------------
(* What the queue's methods do to the sum.                                 *)

LEMMA BytesNat ==
    ASSUME NEW F, Sized(F), NEW s \in Seq(F)
    PROVE  Bytes(s) \in Nat /\ Bytes(<<>>) = 0
<1>1. Bytes(s) \in Nat
  BY SumExists, LenProperties, BytesSum DEF Sums
<1>2. <<>> \in Seq(F) /\ Len(<<>>) = 0
  BY EmptySeq
<1>3. Sum(<<>>)[0] = 0
  BY <1>2, SumExists DEF Sums
<1>. QED BY <1>1, <1>2, <1>3, BytesSum

(* A sequence cut after n frames.                                          *)
LEMMA BytesCut ==
    ASSUME NEW F, Sized(F), NEW s \in Seq(F), NEW n \in 0..Len(s)
    PROVE  /\ Bytes(s) = Bytes(Cut(s, n)) + Bytes(Rest(s, n))
           /\ Bytes(Cut(s, n)) \in Nat /\ Bytes(Rest(s, n)) \in Nat
<1> DEFINE c == Cut(s, n)
           r == Rest(s, n)
<1>0. Len(s) \in Nat /\ \A i \in 1..Len(s) : s[i] \in F
  BY LenProperties, ElementOfSeq
<1>1. c \in Seq(F) /\ Len(c) = n /\ \A i \in 1..n : c[i] = s[i]
  BY <1>0, SubSeqProperties DEF Cut
<1>2. r \in Seq(F) /\ Len(r) = Len(s) - n /\ \A i \in 1..Len(s) - n : r[i] = s[n + i]
  BY <1>0, SubSeqProperties DEF Rest
<1>. HIDE DEF c, r
<1>3. Sum(s)[n + 0] = Sum(s)[0] + Sum(c)[n]
  BY <1>0, <1>1, SumsAgree
<1>4. Sum(s)[(Len(s) - n) + n] = Sum(s)[n] + Sum(r)[Len(s) - n]
  <2> DEFINE m == Len(s) - n
  <2>1. m \in Nat /\ m <= Len(r) /\ m + n <= Len(s) /\ n \in Nat
    BY <1>0, <1>2
  <2>2. \A j \in 1..m : r[j] = s[j + n]
    BY <1>0, <1>2
  <2>. HIDE DEF m
  <2>3. r \in Seq(F)
    BY <1>2
  <2>4. Sum(s)[m + n] = Sum(s)[n] + Sum(r)[m]
    BY <2>1, <2>2, <2>3, SumsAgree
  <2>. QED BY <2>4 DEF m
<1>5. /\ Bytes(s) = Sum(s)[Len(s)] /\ Bytes(c) = Sum(c)[n] /\ Bytes(r) = Sum(r)[Len(s) - n]
      /\ Bytes(c) \in Nat /\ Bytes(r) \in Nat
  BY <1>1, <1>2, BytesSum, BytesNat
<1>6. Sum(s)[0] = 0 /\ (Len(s) - n) + n = Len(s) /\ n + 0 = n
  BY <1>0, SumExists DEF Sums
<1>7. Bytes(s) = Bytes(c) + Bytes(r)
  BY <1>3, <1>4, <1>5, <1>6
<1>. QED BY <1>5, <1>7 DEF c, r

LEMMA BytesAppend ==
    ASSUME NEW F, Sized(F), NEW s \in Seq(F), NEW f \in F
    PROVE  Bytes(Append(s, f)) = Bytes(s) + SizeOf(f)
<1> DEFINE t == Append(s, f)
           n == Len(s)
<1>0. n \in Nat
  BY LenProperties
<1>1. t \in Seq(F) /\ Len(t) = n + 1 /\ t[n + 1] = f /\ \A i \in 1..n : t[i] = s[i]
  BY AppendProperties
<1>. HIDE DEF t
<1>2. Sum(t)[n + 0] = Sum(t)[0] + Sum(s)[n]
  <2>. HIDE DEF n
  <2>. QED BY <1>0, <1>1, SumsAgree DEF n
<1>3. Sum(t)[0] = 0 /\ Sum(t)[n + 1] = Sum(t)[n] + SizeOf(t[n + 1])
  <2>1. Sums(Sum(t), t, n + 1)
    BY <1>1, SumExists
  <2>2. n + 1 \in 1..n + 1 /\ (n + 1) - 1 = n
    BY <1>0
  <2>. QED BY <2>1, <2>2 DEF Sums
<1>4. Bytes(t) = Sum(t)[n + 1] /\ Bytes(s) = Sum(s)[n] /\ Bytes(s) \in Nat
  BY <1>1, BytesSum, BytesNat
<1>. QED BY <1>0, <1>1, <1>2, <1>3, <1>4 DEF t

LEMMA BytesTail ==
    ASSUME NEW F, Sized(F), NEW s \in Seq(F), s # <<>>
    PROVE  /\ Bytes(s) = SizeOf(Head(s)) + Bytes(Tail(s))
           /\ Bytes(Tail(s)) \in Nat /\ SizeOf(Head(s)) \in Nat
<1>0. /\ Len(s) \in Nat /\ Len(s) > 0 /\ Tail(s) \in Seq(F) /\ Len(Tail(s)) = Len(s) - 1
      /\ Head(s) = s[1] /\ s[1] \in F
      /\ \A i \in 1..Len(Tail(s)) : Tail(s)[i] = s[i + 1]
  BY EmptySeq, HeadTailProperties, LenProperties, ElementOfSeq
<1> DEFINE m == Len(s) - 1
<1>1. m \in Nat /\ m <= Len(Tail(s)) /\ m + 1 <= Len(s) /\ \A j \in 1..m : Tail(s)[j] = s[j + 1]
  BY <1>0
<1>. HIDE DEF m
<1>2. Sum(s)[m + 1] = Sum(s)[1] + Sum(Tail(s))[m]
  <2> DEFINE u == Tail(s)
  <2>1. u \in Seq(F) /\ m <= Len(u) /\ \A j \in 1..m : u[j] = s[j + 1]
    BY <1>0, <1>1
  <2>. HIDE DEF u
  <2>2. Sum(s)[m + 1] = Sum(s)[1] + Sum(u)[m]
    BY <1>1, <2>1, SumsAgree
  <2>. QED BY <2>2 DEF u
<1>3. Sum(s)[1] = 0 + SizeOf(s[1])
  <2>1. Sums(Sum(s), s, Len(s)) /\ 1 \in 1..Len(s) /\ 1 - 1 = 0
    BY <1>0, SumExists
  <2>. QED BY <2>1 DEF Sums
<1>4. SizeOf(s[1]) \in Nat /\ Bytes(Tail(s)) \in Nat /\ m + 1 = Len(s)
  <2>1. SizeOf(s[1]) \in Nat
    BY <1>0 DEF Sized
  <2>2. Bytes(Tail(s)) \in Nat
    BY <1>0, BytesNat
  <2>3. m + 1 = Len(s)
    BY <1>0 DEF m
  <2>. QED BY <2>1, <2>2, <2>3
<1>5. Bytes(s) = Sum(s)[m + 1] /\ Bytes(Tail(s)) = Sum(Tail(s))[m]
  BY <1>0, <1>4, BytesSum DEF m
<1>. QED BY <1>0, <1>2, <1>3, <1>4, <1>5

LEMMA BytesFront ==
    ASSUME NEW F, Sized(F), NEW s \in Seq(F), NEW f \in F
    PROVE  Bytes(<<f>> \o s) = SizeOf(f) + Bytes(s)
<1> DEFINE t == <<f>> \o s
<1>1. /\ <<f>> \in Seq(F) /\ Len(<<f>>) = 1 /\ <<f>>[1] = f /\ Len(s) \in Nat
  BY LenProperties
<1>2. /\ t \in Seq(F) /\ Len(t) = Len(s) + 1 /\ t[1] = f
      /\ \A i \in 1..Len(s) : t[i + 1] = s[i]
  BY <1>1, ConcatProperties
<1>. HIDE DEF t
<1>3. t # <<>> /\ Head(t) = f
  BY <1>1, <1>2
<1>4. Tail(t) = s
  <2>1. /\ Tail(t) \in Seq(F) /\ Len(Tail(t)) = Len(s)
        /\ \A i \in 1..Len(s) : Tail(t)[i] = s[i]
    BY <1>1, <1>2, <1>3, HeadTailProperties
  <2>. QED BY <2>1, SeqEqual
<1>. QED BY <1>2, <1>3, <1>4, BytesTail DEF t

-----------------------------------------------------------------------------
(* How many of the tokens entered in a session, given its start.           *)

Positions(s, start) == {i \in DOMAIN s : s[i] >= start}

Recent(s, start) == Cardinality(Positions(s, start))

One(x, start) == IF x >= start THEN 1 ELSE 0

LEMMA PositionsFinite ==
    ASSUME NEW s \in Seq(Int), NEW start \in Int
    PROVE  /\ IsFiniteSet(Positions(s, start)) /\ Recent(s, start) \in Nat
           /\ Positions(s, start) \subseteq 1..Len(s)
<1>1. DOMAIN s = 1..Len(s) /\ Len(s) \in Nat
  BY LenProperties
<1>2. IsFiniteSet(1..Len(s))
  BY <1>1, FS_Interval
<1>3. Positions(s, start) \subseteq 1..Len(s)
  BY <1>1 DEF Positions
<1>. QED BY <1>2, <1>3, FS_Subset, FS_CardinalityType DEF Recent

LEMMA RecentEmpty == \A start : Recent(<<>>, start) = 0
<1>1. \A start : Positions(<<>>, start) = {}
  BY DEF Positions
<1>. QED BY <1>1, FS_EmptySet DEF Recent

LEMMA RecentAppend ==
    ASSUME NEW s \in Seq(Int), NEW x \in Int, NEW start \in Int
    PROVE  Recent(Append(s, x), start) = Recent(s, start) + One(x, start)
<1> DEFINE here == Positions(s, start)
           there == Positions(Append(s, x), start)
           n == Len(s) + 1
<1>1. DOMAIN s = 1..Len(s) /\ Len(s) \in Nat
  BY LenProperties
<1>2. /\ DOMAIN Append(s, x) = 1..n
      /\ \A i \in 1..Len(s) : Append(s, x)[i] = s[i]
      /\ Append(s, x)[n] = x
  BY <1>1, AppendProperties, LenProperties
<1>3. there = IF x >= start THEN here \union {n} ELSE here
  BY <1>1, <1>2 DEF Positions
<1>4. n \notin here
  BY <1>1 DEF Positions
<1>5. IsFiniteSet(here) /\ Cardinality(here) \in Nat
  BY PositionsFinite, FS_CardinalityType
<1>. HIDE DEF here, n
<1>6. Cardinality(here \union {n}) = Cardinality(here) + 1
  BY <1>4, <1>5, FS_AddElement
<1>7. Cardinality(there) = Cardinality(here) + One(x, start)
  BY <1>3, <1>5, <1>6 DEF One
<1>. QED BY <1>7 DEF Recent, here

LEMMA RecentOne ==
    ASSUME NEW x \in Int, NEW start \in Int
    PROVE  Recent(<<x>>, start) = One(x, start)
<1>1. Positions(<<x>>, start) = IF x >= start THEN {1} ELSE {}
  BY DEF Positions
<1>. QED BY <1>1, FS_Singleton, FS_EmptySet DEF Recent, One

LEMMA RecentTail ==
    ASSUME NEW s \in Seq(Int), s # <<>>, NEW start \in Int
    PROVE  Recent(s, start) = One(Head(s), start) + Recent(Tail(s), start)
<1> DEFINE u == Tail(s)
           S == Positions(u, start)
           T == Positions(s, start) \ {1}
           f == [i \in S |-> i + 1]
<1>1. /\ Len(s) \in Nat /\ Len(s) > 0 /\ u \in Seq(Int) /\ Len(u) = Len(s) - 1
      /\ Head(s) = s[1] /\ \A i \in 1..Len(u) : u[i] = s[i + 1]
      /\ DOMAIN s = 1..Len(s) /\ DOMAIN u = 1..Len(u) /\ s[1] \in Int
  BY EmptySeq, HeadTailProperties, LenProperties, ElementOfSeq
<1>. HIDE DEF u
<1>2. S \subseteq Nat /\ T \subseteq Nat
  BY <1>1 DEF Positions
<1>3. ASSUME NEW i \in S PROVE i + 1 \in T
  <2>1. i \in 1..Len(u) /\ u[i] >= start
    BY <1>1, <1>3 DEF Positions
  <2>2. i + 1 \in 1..Len(s) /\ i + 1 # 1
    BY <1>1, <2>1
  <2>3. s[i + 1] >= start
    BY <1>1, <2>1
  <2>. QED BY <1>1, <2>2, <2>3 DEF Positions
<1>4. ASSUME NEW j \in T PROVE j - 1 \in S /\ (j - 1) + 1 = j
  <2>1. j \in 1..Len(s) /\ j # 1 /\ s[j] >= start
    BY <1>1, <1>4 DEF Positions
  <2>2. j - 1 \in 1..Len(u) /\ (j - 1) + 1 = j
    BY <1>1, <2>1
  <2>3. u[j - 1] = s[j]
    BY <1>1, <2>2
  <2>. QED BY <1>1, <2>1, <2>2, <2>3 DEF Positions
<1>5. IsFiniteSet(S)
  BY <1>1, PositionsFinite
<1>. HIDE DEF S, T
<1>6. f \in Bijection(S, T)
  <2>1. f \in [S -> T]
    BY <1>3
  <2>2. \A x, y \in S : f[x] = f[y] => x = y
    BY <1>2
  <2>3. \A j \in T : \E i \in S : f[i] = j
    BY <1>4
  <2>. HIDE DEF f
  <2>. QED BY <2>1, <2>2, <2>3 DEF Bijection, Injection, Surjection, IsInjective
<1>7. IsFiniteSet(T) /\ Cardinality(T) = Cardinality(S) /\ Cardinality(S) \in Nat
  BY <1>5, <1>6, FS_Bijection, FS_CardinalityType DEF ExistsBijection
<1>8. Positions(s, start) = IF s[1] >= start THEN T \union {1} ELSE T
  BY <1>1 DEF Positions, T
<1>9. Cardinality(T \union {1}) = Cardinality(T) + 1
  <2>1. 1 \notin T
    BY DEF T
  <2>. QED BY <1>7, <2>1, FS_AddElement
<1>10. Cardinality(Positions(s, start)) = One(s[1], start) + Cardinality(S)
  BY <1>7, <1>8, <1>9 DEF One
<1>. QED BY <1>1, <1>10 DEF Recent, S, u

(* All of them, and none of them.                                          *)
LEMMA RecentAll ==
    ASSUME NEW s \in Seq(Int), NEW start \in Int, \A i \in 1..Len(s) : s[i] = start
    PROVE  Recent(s, start) = Len(s)
<1>1. DOMAIN s = 1..Len(s) /\ Len(s) \in Nat
  BY LenProperties
<1>2. Positions(s, start) = 1..Len(s)
  BY <1>1 DEF Positions
<1>3. Cardinality(1..Len(s)) = Len(s)
  <2>1. Cardinality(1..Len(s)) = IF 1 > Len(s) THEN 0 ELSE Len(s) - 1 + 1
    <3>1. 1 \in Int /\ Len(s) \in Int
      BY <1>1
    <3>. QED BY <3>1, FS_Interval
  <2>. QED BY <1>1, <2>1
<1>. QED BY <1>2, <1>3 DEF Recent

LEMMA RecentNone ==
    ASSUME NEW s \in Seq(Int), NEW start \in Int, \A i \in 1..Len(s) : s[i] < start
    PROVE  Recent(s, start) = 0
<1>1. DOMAIN s = 1..Len(s) /\ Len(s) \in Nat /\ \A i \in 1..Len(s) : s[i] \in Int
  BY LenProperties, ElementOfSeq
<1>2. Positions(s, start) = {}
  BY <1>1 DEF Positions
<1>. QED BY <1>2, FS_EmptySet DEF Recent

-----------------------------------------------------------------------------
(* Sums over a finite set, of clients or of sockets.  A sum of natural     *)
(* numbers is the number of cells of a table with one column for each.     *)

Pick(s) == CHOOSE x \in s : TRUE

AddUp(it, h, S) ==
    it = [s \in SUBSET S |-> IF s = {} THEN 0 ELSE h[Pick(s)] + it[s \ {Pick(s)}]]

LEMMA SumChosen == \A h, S : SumFunctionOnSet(h, S) = (CHOOSE it : AddUp(it, h, S))[S]
BY DEF SumFunctionOnSet, FoldFunctionOnSet, MapThenFoldSet, AddUp, Pick

(* Induction over the subsets of a finite set, one element at a time.      *)
LEMMA SubsetsByPick ==
    ASSUME NEW S, IsFiniteSet(S), NEW Good, {} \in Good,
           \A s \in SUBSET S : s # {} /\ s \ {Pick(s)} \in Good => s \in Good
    PROVE  SUBSET S \subseteq Good
<1> DEFINE bad == {Cardinality(s) : s \in (SUBSET S) \ Good}
<1>1. SUFFICES ASSUME (SUBSET S) \ Good # {} PROVE FALSE
  OBVIOUS
<1>2. \A s \in SUBSET S : IsFiniteSet(s) /\ Cardinality(s) \in Nat
  BY FS_Subset, FS_CardinalityType
<1>3. bad \subseteq Nat /\ bad # {}
  BY <1>1, <1>2
<1>4. \E n \in bad : \A m \in bad : n <= m
  <2>. HIDE DEF bad
  <2>. QED BY <1>3, LeastNatural
<1>5. PICK s \in (SUBSET S) \ Good : \A m \in bad : Cardinality(s) <= m
  BY <1>4
<1>6. s # {} /\ Pick(s) \in s
  BY <1>5 DEF Pick
<1>7. Cardinality(s \ {Pick(s)}) = Cardinality(s) - 1
  BY <1>2, <1>5, <1>6, FS_RemoveElement
<1>8. s \ {Pick(s)} \in Good
  <2>1. ASSUME s \ {Pick(s)} \notin Good PROVE FALSE
    <3>1. Cardinality(s \ {Pick(s)}) \in bad
      BY <2>1
    <3>2. Cardinality(s) \in Nat
      BY <1>2, <1>5
    <3>. HIDE DEF bad
    <3>. QED BY <3>1, <3>2, <1>5, <1>7
  <2>. QED BY <2>1
<1>. QED BY <1>5, <1>6, <1>8

Column(h, x) == {x} \X (1..h[x])

Cells(h, s) == {p \in s \X Nat : p[2] \in 1..h[p[1]]}

Counted(h, s) == \A x \in s : h[x] \in Nat

LEMMA ColumnSize ==
    ASSUME NEW h, NEW x, h[x] \in Nat
    PROVE  IsFiniteSet(Column(h, x)) /\ Cardinality(Column(h, x)) = h[x]
<1>1. IsFiniteSet(1..h[x]) /\ Cardinality(1..h[x]) = h[x]
  <2>1. /\ IsFiniteSet(1..h[x])
        /\ Cardinality(1..h[x]) = IF 1 > h[x] THEN 0 ELSE h[x] - 1 + 1
    <3>1. 1 \in Int /\ h[x] \in Int
      OBVIOUS
    <3>. QED BY <3>1, FS_Interval
  <2>. QED BY <2>1
<1>2. IsFiniteSet({x}) /\ Cardinality({x}) = 1
  BY FS_Singleton
<1>3. 1 * h[x] = h[x]
  OBVIOUS
<1>. QED BY <1>1, <1>2, <1>3, FS_Product DEF Column

LEMMA CellsSplit ==
    ASSUME NEW h, NEW s, Counted(h, s), NEW x \in s
    PROVE  /\ Cells(h, s) = Cells(h, s \ {x}) \union Column(h, x)
           /\ Cells(h, s \ {x}) \cap Column(h, x) = {}
BY DEF Cells, Column, Counted

LEMMA CellsFinite ==
    ASSUME NEW h, NEW S, IsFiniteSet(S), Counted(h, S)
    PROVE  \A s \in SUBSET S : IsFiniteSet(Cells(h, s)) /\ Cardinality(Cells(h, s)) \in Nat
<1> DEFINE good == {s \in SUBSET S : IsFiniteSet(Cells(h, s))}
<1>1. {} \in good
  <2>1. Cells(h, {}) = {}
    BY DEF Cells
  <2>. QED BY <2>1, FS_EmptySet
<1>2. ASSUME NEW s \in SUBSET S, s # {}, s \ {Pick(s)} \in good PROVE s \in good
  <2>1. Pick(s) \in s
    BY <1>2 DEF Pick
  <2>2. Counted(h, s) /\ h[Pick(s)] \in Nat
    BY <2>1 DEF Counted
  <2>3. Cells(h, s) = Cells(h, s \ {Pick(s)}) \union Column(h, Pick(s))
    BY <2>1, <2>2, CellsSplit
  <2>. QED BY <1>2, <2>2, <2>3, ColumnSize, FS_Union
<1>. HIDE DEF good
<1>3. SUBSET S \subseteq good
  BY <1>1, <1>2, SubsetsByPick
<1>. QED BY <1>3, FS_CardinalityType DEF good

LEMMA CellsStep ==
    ASSUME NEW h, NEW S, IsFiniteSet(S), Counted(h, S), NEW s \in SUBSET S, NEW x \in s
    PROVE  Cardinality(Cells(h, s)) = h[x] + Cardinality(Cells(h, s \ {x}))
<1>1. h[x] \in Nat /\ Counted(h, s) /\ s \ {x} \in SUBSET S
  BY DEF Counted
<1>2. /\ IsFiniteSet(Cells(h, s \ {x})) /\ Cardinality(Cells(h, s \ {x})) \in Nat
      /\ IsFiniteSet(Column(h, x)) /\ Cardinality(Column(h, x)) = h[x]
  BY <1>1, CellsFinite, ColumnSize
<1>3. /\ Cells(h, s) = Cells(h, s \ {x}) \union Column(h, x)
      /\ Cardinality(Cells(h, s \ {x}) \cap Column(h, x)) = 0
  BY <1>1, CellsSplit, FS_EmptySet
<1>4. Cardinality(Cells(h, s)) = Cardinality(Cells(h, s \ {x})) + Cardinality(Column(h, x)) - 0
  <2>. HIDE DEF Cells, Column
  <2>. QED BY <1>2, <1>3, FS_Union
<1>. QED BY <1>1, <1>2, <1>4

(* The library's sum is the number of cells, in whichever order it adds.   *)
LEMMA SumIsCells ==
    ASSUME NEW h, NEW S, IsFiniteSet(S), Counted(h, S)
    PROVE  SumFunctionOnSet(h, S) = Cardinality(Cells(h, S))
<1> DEFINE g == [s \in SUBSET S |-> Cardinality(Cells(h, s))]
           it == CHOOSE f : AddUp(f, h, S)
           good == {s \in SUBSET S : it[s] = g[s]}
<1>0. \A s \in SUBSET S : s # {} => Pick(s) \in s /\ s \ {Pick(s)} \in SUBSET S
  BY DEF Pick
<1>1. \A s \in SUBSET S : g[s] = IF s = {} THEN 0 ELSE h[Pick(s)] + g[s \ {Pick(s)}]
  <2>1. ASSUME NEW s \in SUBSET S, s = {} PROVE g[s] = 0
    <3>1. Cells(h, {}) = {}
      BY DEF Cells
    <3>. QED BY <2>1, <3>1, FS_EmptySet
  <2>2. ASSUME NEW s \in SUBSET S, s # {} PROVE g[s] = h[Pick(s)] + g[s \ {Pick(s)}]
    BY <1>0, <2>2, CellsStep
  <2>. QED BY <2>1, <2>2
<1>2. AddUp(g, h, S)
  <2>1. g = [s \in SUBSET S |-> g[s]]
    OBVIOUS
  <2>. HIDE DEF g
  <2>. QED BY <1>1, <2>1 DEF AddUp
<1>3. AddUp(it, h, S)
  <2>. HIDE DEF g
  <2>. QED BY <1>2
<1>4. \A s \in SUBSET S : it[s] = IF s = {} THEN 0 ELSE h[Pick(s)] + it[s \ {Pick(s)}]
  <2>. HIDE DEF it
  <2>. QED BY <1>3 DEF AddUp
<1>. HIDE DEF it, g
<1>5. {} \in good
  BY <1>1, <1>4
<1>6. ASSUME NEW s \in SUBSET S, s # {}, s \ {Pick(s)} \in good PROVE s \in good
  BY <1>1, <1>4, <1>6
<1>7. SUBSET S \subseteq good
  <2>. HIDE DEF good
  <2>. QED BY <1>5, <1>6, SubsetsByPick
<1>8. it[S] = g[S]
  BY <1>7
<1>. QED BY <1>8, SumChosen DEF it, g

(* What the proofs use of a sum.                                           *)
LEMMA SumProps ==
    ASSUME NEW h, NEW S, IsFiniteSet(S), Counted(h, S)
    PROVE  /\ SumFunctionOnSet(h, S) \in Nat
           /\ \A x \in S : SumFunctionOnSet(h, S) = h[x] + SumFunctionOnSet(h, S \ {x})
<1>1. \A s \in SUBSET S : SumFunctionOnSet(h, s) = Cardinality(Cells(h, s))
  BY SumIsCells, FS_Subset DEF Counted
<1>. QED BY <1>1, CellsStep, CellsFinite

LEMMA SumEqual ==
    ASSUME NEW h, NEW k, NEW S, IsFiniteSet(S), Counted(h, S), \A x \in S : k[x] = h[x]
    PROVE  SumFunctionOnSet(k, S) = SumFunctionOnSet(h, S)
<1>1. Counted(k, S) /\ Cells(k, S) = Cells(h, S)
  BY DEF Cells, Counted
<1>. QED BY <1>1, SumIsCells

(* One term changes.                                                       *)
LEMMA SumOne ==
    ASSUME NEW h, NEW k, NEW S, IsFiniteSet(S), Counted(h, S), NEW x \in S,
           k[x] \in Nat, \A y \in S \ {x} : k[y] = h[y]
    PROVE  SumFunctionOnSet(k, S) = SumFunctionOnSet(h, S) + k[x] - h[x]
<1>1. Counted(k, S) /\ Counted(h, S \ {x}) /\ IsFiniteSet(S \ {x}) /\ h[x] \in Nat
  BY FS_RemoveElement DEF Counted
<1>2. SumFunctionOnSet(k, S \ {x}) = SumFunctionOnSet(h, S \ {x})
  BY <1>1, SumEqual
<1>. QED BY <1>1, <1>2, SumProps
=============================================================================
