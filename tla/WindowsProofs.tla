--------------------------- MODULE WindowsProofs ---------------------------
(***************************************************************************)
(* Proofs about Windows, for any threads, cap, lag and bounds.             *)
(*                                                                         *)
(* First what the sums of totals are, and what a count, a closed window    *)
(* and a set of windows moved out do to them (Sum is a recursive function, *)
(* so its facts come from a finite induction up to MaxTime).  Then four    *)
(* invariants.  Types.  Held: where the windows are, none below the first  *)
(* one still open.  Sessions: in a session that began with no call under   *)
(* way, every call has read the time base of that session, so the backlog  *)
(* counts exactly the items inside.  Entered: every item inside entered in *)
(* some window, and leaves in that one or a later one; so the windows held *)
(* from any n on never take more from the backlog than came after n, and   *)
(* the depth read is never cut off at zero.  From these Exact follows the  *)
(* depth told to the observer through the report of a window.              *)
(***************************************************************************)
EXTENDS Windows, FiniteSetTheorems, WellFoundedInduction, TLAPS

(* A non-empty set of natural numbers has a least element.                 *)
LEMMA LeastNatural ==
    ASSUME NEW S, S \subseteq Nat, S # {}
    PROVE  \E x \in S : \A y \in S : x <= y
<1>1. \E x \in S : \A y \in S : ~(<<y, x>> \in OpToRel(<, Nat))
  BY NatLessThanWellFounded, WFMin
<1>2. PICK x \in S : \A y \in S : ~(<<y, x>> \in OpToRel(<, Nat))
  BY <1>1
<1>3. \A y \in S : ~(y < x)
  BY <1>2 DEF OpToRel
<1>. QED BY <1>3, x \in Nat

LEMMA MinLeast ==
    ASSUME NEW S, S \subseteq Nat, S # {}
    PROVE  Min(S) \in S /\ \A y \in S : Min(S) <= y
BY LeastNatural DEF Min

LEMMA MaxTwo == \A x, y \in Int : Max({x, y}) = IF x >= y THEN x ELSE y
<1> SUFFICES ASSUME NEW x \in Int, NEW y \in Int PROVE Max({x, y}) = IF x >= y THEN x ELSE y
  OBVIOUS
<1> DEFINE m == IF x >= y THEN x ELSE y
<1>1. m \in {x, y} /\ \A z \in {x, y} : m >= z
  OBVIOUS
<1>2. \A n \in {x, y} : (\A z \in {x, y} : n >= z) => n = m
  OBVIOUS
<1>. QED BY <1>1, <1>2 DEF Max

(* A set that contains 0 and the successor of each of its members up to n  *)
(* contains every number up to n.                                          *)
LEMMA NoGap ==
    ASSUME NEW n \in Nat, NEW S, 0 \in S,
           \A i \in 0..n : i \in S /\ i < n => i + 1 \in S
    PROVE  0..n \subseteq S
<1> DEFINE bad == (0..n) \ S
<1>1. SUFFICES ASSUME bad # {} PROVE FALSE
  OBVIOUS
<1>2. PICK x \in bad : \A y \in bad : x <= y
  <2>. HIDE DEF bad
  <2>1. bad \subseteq Nat
    BY DEF bad
  <2>. QED BY <1>1, <2>1, LeastNatural
<1>3. x \in 0..n /\ x \notin S /\ x # 0
  BY <1>2
<1>4. x - 1 \in 0..n /\ x - 1 < n
  BY <1>3
<1>5. x - 1 \in S
  BY <1>2, <1>4
<1>. QED BY <1>3, <1>4, <1>5

-----------------------------------------------------------------------------
(* Sums over windows.                                                      *)

At(w, field, j) == IF j \in DOMAIN w THEN w[j][field] ELSE 0

Counted(w, field) == \A j \in 0..MaxTime : At(w, field, j) \in Int

IsSum(p, w, field) ==
    p = [n \in 0..MaxTime + 1 |->
            IF n = 0 THEN 0
            ELSE p[n - 1] + (IF n - 1 \in DOMAIN w THEN w[n - 1][field] ELSE 0)]

Parts(w, field) == CHOOSE p : IsSum(p, w, field)

LEMMA SumParts == \A w, field : Sum(w, field) = Parts(w, field)[MaxTime + 1]
BY DEF Sum, Parts, IsSum

Runs(p, w, field, n) ==
    /\ p \in [0..n -> Int]
    /\ p[0] = 0
    /\ \A i \in 1..n : p[i] = p[i - 1] + At(w, field, i - 1)

LEMMA PartsRun ==
    ASSUME NEW w, NEW field, Counted(w, field)
    PROVE  Runs(Parts(w, field), w, field, MaxTime + 1)
<1> DEFINE n == MaxTime + 1
           S == {i \in Nat : \E g : Runs(g, w, field, i)}
<1>0. n \in Nat /\ \A i \in 1..n : At(w, field, i - 1) \in Int
  BY WindowsAssumption DEF Counted
<1>1. 0 \in S
  <2>1. Runs([i \in 0..0 |-> 0], w, field, 0)
    BY DEF Runs
  <2>. QED BY <2>1
<1>2. ASSUME NEW i \in 0..n, i \in S, i < n PROVE i + 1 \in S
  <2>1. PICK g : Runs(g, w, field, i)
    BY <1>2
  <2> DEFINE h == [j \in 0..i + 1 |-> IF j <= i THEN g[j] ELSE g[i] + At(w, field, i)]
  <2>2. i \in Nat /\ At(w, field, i) \in Int /\ \A j \in 0..i : g[j] \in Int
    <3>1. i + 1 \in 1..n /\ (i + 1) - 1 = i
      BY <1>0, <1>2
    <3>2. At(w, field, i) \in Int
      BY <1>0, <3>1
    <3>. QED BY <1>0, <2>1, <3>2 DEF Runs
  <2>3. h \in [0..i + 1 -> Int]
    BY <2>2
  <2>4. h[0] = 0
    BY <2>1, <2>2 DEF Runs
  <2>5. ASSUME NEW j \in 1..i + 1 PROVE h[j] = h[j - 1] + At(w, field, j - 1)
    <3>1. CASE j <= i
      <4>1. j \in 1..i /\ j - 1 \in 0..i /\ h[j] = g[j] /\ h[j - 1] = g[j - 1]
        BY <2>2, <3>1
      <4>. HIDE DEF h
      <4>. QED BY <2>1, <4>1 DEF Runs
    <3>2. CASE j = i + 1
      BY <2>2, <3>2
    <3>. QED BY <2>2, <3>1, <3>2
  <2>. HIDE DEF h
  <2>6. Runs(h, w, field, i + 1)
    BY <2>3, <2>4, <2>5 DEF Runs
  <2>. QED BY <2>2, <2>6
<1>3. n \in S
  <2>. HIDE DEF S
  <2>1. \A i \in 0..n : i \in S /\ i < n => i + 1 \in S
    BY <1>2
  <2>2. n \in Nat
    BY <1>0
  <2>. HIDE DEF n
  <2>3. 0..n \subseteq S
    BY <2>1, <2>2, <1>1, NoGap
  <2>. QED BY <2>2, <2>3
<1>4. PICK g : Runs(g, w, field, n)
  BY <1>3
<1>5. IsSum(g, w, field)
  <2> DEFINE h == [i \in 0..n |-> IF i = 0 THEN 0 ELSE g[i - 1] + At(w, field, i - 1)]
  <2>1. \A i \in 0..n : g[i] = h[i]
    BY <1>0, <1>4 DEF Runs
  <2>2. g = h
    BY <1>4, <2>1 DEF Runs
  <2>. QED BY <2>2 DEF IsSum, At
<1>6. IsSum(Parts(w, field), w, field)
  BY <1>5 DEF Parts
<1> DEFINE p == Parts(w, field)
<1>7. p = [i \in 0..n |-> IF i = 0 THEN 0 ELSE p[i - 1] + At(w, field, i - 1)]
  BY <1>6 DEF IsSum, At
<1>. HIDE DEF p
<1>8. p[0] = 0 /\ \A i \in 1..n : p[i] = p[i - 1] + At(w, field, i - 1)
  <2>1. \A i \in 0..n : p[i] = IF i = 0 THEN 0 ELSE p[i - 1] + At(w, field, i - 1)
    BY <1>7
  <2>. QED BY <1>0, <2>1
<1>9. \A i \in 0..n : p[i] \in Int
  <2> DEFINE T == {i \in Nat : p[i] \in Int}
  <2>1. 0 \in T
    BY <1>8
  <2>2. ASSUME NEW i \in 0..n, i \in T, i < n PROVE i + 1 \in T
    <3>1. i + 1 \in 1..n /\ (i + 1) - 1 = i
      BY <1>0, <2>2
    <3>2. p[i + 1] = p[i] + At(w, field, i) /\ At(w, field, i) \in Int
      BY <1>0, <1>8, <3>1
    <3>. QED BY <1>0, <2>2, <3>1, <3>2
  <2>. HIDE DEF T
  <2>3. n \in Nat /\ \A i \in 0..n : i \in T /\ i < n => i + 1 \in T
    BY <1>0, <2>2
  <2>. HIDE DEF n
  <2>4. 0..n \subseteq T
    BY <2>1, <2>3, NoGap
  <2>. QED BY <2>4 DEF T
<1>10. p \in [0..n -> Int]
  BY <1>7, <1>9
<1>. QED BY <1>8, <1>10 DEF Runs, p

(* The sum of sums.                                                        *)
LEMMA SumAdds ==
    ASSUME NEW u, NEW v, NEW w, NEW field, Counted(u, field), Counted(v, field),
           \A j \in 0..MaxTime : At(w, field, j) = At(u, field, j) + At(v, field, j)
    PROVE  /\ Sum(w, field) = Sum(u, field) + Sum(v, field)
           /\ Sum(u, field) \in Int /\ Sum(v, field) \in Int
<1> DEFINE n == MaxTime + 1
           p == Parts(u, field)
           q == Parts(v, field)
           r == Parts(w, field)
<1>0. n \in Nat /\ \A i \in 1..n : i - 1 \in 0..MaxTime
  BY WindowsAssumption
<1>1. Counted(w, field)
  BY DEF Counted
<1>2. /\ Runs(p, u, field, n) /\ Runs(q, v, field, n) /\ Runs(r, w, field, n)
      /\ Sum(u, field) = p[n] /\ Sum(v, field) = q[n] /\ Sum(w, field) = r[n]
  BY <1>1, PartsRun, SumParts
<1>. HIDE DEF p, q, r
<1> DEFINE T == {i \in Nat : i <= n /\ r[i] = p[i] + q[i]}
<1>3. 0 \in T
  BY <1>0, <1>2 DEF Runs
<1>4. ASSUME NEW i \in 0..n, i \in T, i < n PROVE i + 1 \in T
  <2>1. i + 1 \in 1..n /\ (i + 1) - 1 = i /\ i \in 0..MaxTime
    BY <1>0, <1>4
  <2>2. /\ p[i + 1] = p[i] + At(u, field, i) /\ q[i + 1] = q[i] + At(v, field, i)
        /\ r[i + 1] = r[i] + At(w, field, i) /\ p[i] \in Int /\ q[i] \in Int
    BY <1>2, <2>1 DEF Runs
  <2>3. /\ At(w, field, i) = At(u, field, i) + At(v, field, i)
        /\ At(u, field, i) \in Int /\ At(v, field, i) \in Int
    BY <2>1 DEF Counted
  <2>. QED BY <1>0, <1>4, <2>1, <2>2, <2>3
<1>. HIDE DEF T
<1>5. n \in Nat /\ \A i \in 0..n : i \in T /\ i < n => i + 1 \in T
  BY <1>0, <1>4
<1>6. n \in T
  <2>. HIDE DEF n
  <2>1. 0..n \subseteq T
    BY <1>3, <1>5, NoGap
  <2>. QED BY <1>5, <2>1
<1>7. p[n] \in Int /\ q[n] \in Int
  BY <1>0, <1>2 DEF Runs
<1>. QED BY <1>2, <1>6, <1>7 DEF T

(* The sum of counts that are all in one window, or of none.               *)
LEMMA SumOne ==
    ASSUME NEW w, NEW field, NEW k \in 0..MaxTime, Counted(w, field),
           \A j \in 0..MaxTime : j # k => At(w, field, j) = 0
    PROVE  Sum(w, field) = At(w, field, k)
<1> DEFINE n == MaxTime + 1
           p == Parts(w, field)
           x == At(w, field, k)
<1>0. n \in Nat /\ k \in Nat /\ k < n /\ x \in Int
  BY WindowsAssumption DEF Counted
<1>1. Runs(p, w, field, n) /\ Sum(w, field) = p[n]
  BY PartsRun, SumParts
<1>. HIDE DEF p
<1> DEFINE T == {i \in Nat : i <= n /\ p[i] = IF i <= k THEN 0 ELSE x}
<1>3. 0 \in T
  BY <1>0, <1>1 DEF Runs
<1>4. ASSUME NEW i \in 0..n, i \in T, i < n PROVE i + 1 \in T
  <2>1. i + 1 \in 1..n /\ (i + 1) - 1 = i /\ i \in 0..MaxTime
    BY <1>0, <1>4, WindowsAssumption
  <2>2. p[i + 1] = p[i] + At(w, field, i)
    BY <1>1, <2>1 DEF Runs
  <2>3. At(w, field, i) = IF i = k THEN x ELSE 0
    BY <2>1
  <2>. HIDE DEF x, n
  <2>. QED BY <1>0, <1>4, <2>1, <2>2, <2>3
<1>. HIDE DEF T
<1>5. n \in Nat /\ \A i \in 0..n : i \in T /\ i < n => i + 1 \in T
  BY <1>0, <1>4
<1>6. n \in T
  <2>. HIDE DEF n
  <2>1. 0..n \subseteq T
    BY <1>3, <1>5, NoGap
  <2>. QED BY <1>5, <2>1
<1>. QED BY <1>0, <1>1, <1>6 DEF T

(* Windows whose totals are numbers, none after the last moment.           *)
Totals(w) ==
    /\ DOMAIN w \subseteq 0..MaxTime
    /\ \A j \in DOMAIN w : w[j].items \in Nat /\ w[j].delta \in Int

Fields == {"items", "delta"}

LEMMA TotalsCount ==
    ASSUME NEW w, Totals(w), NEW field \in Fields
    PROVE  Counted(w, field) /\ \A j : At(w, field, j) \in Int
BY DEF Totals, Fields, Counted, At

LEMMA SumEmpty ==
    ASSUME NEW w, NEW field, \A j \in 0..MaxTime : At(w, field, j) = 0
    PROVE  Sum(w, field) = 0
<1>1. 0 \in 0..MaxTime /\ Counted(w, field)
  BY WindowsAssumption DEF Counted
<1>. QED BY <1>1, SumOne

LEMMA NoWindow == \A w, field : DOMAIN w = {} => Sum(w, field) = 0
<1> SUFFICES ASSUME NEW w, NEW field, DOMAIN w = {} PROVE Sum(w, field) = 0
  OBVIOUS
<1>1. \A j \in 0..MaxTime : At(w, field, j) = 0
  BY DEF At
<1>. QED BY <1>1, SumEmpty

LEMMA EmptyWindows == DOMAIN Empty = {} /\ Totals(Empty)
BY DEF Empty, Totals

LEMMA SumSame ==
    ASSUME NEW u, NEW w, NEW field, Counted(u, field),
           \A j \in 0..MaxTime : At(w, field, j) = At(u, field, j)
    PROVE  Sum(w, field) = Sum(u, field) /\ Sum(u, field) \in Int
<1>1. \A j \in 0..MaxTime : At(Empty, field, j) = 0
  BY EmptyWindows DEF At
<1>2. Counted(Empty, field) /\ Sum(Empty, field) = 0
  BY <1>1, EmptyWindows, NoWindow DEF Counted
<1>3. \A j \in 0..MaxTime : At(w, field, j) = At(u, field, j) + At(Empty, field, j)
  BY <1>1 DEF Counted
<1>4. Sum(w, field) = Sum(u, field) + Sum(Empty, field) /\ Sum(u, field) \in Int
  BY <1>2, <1>3, SumAdds
<1>. QED BY <1>2, <1>4

LEMMA SumChanged ==
    ASSUME NEW u, NEW w, NEW field, Counted(u, field), NEW k \in 0..MaxTime, NEW x \in Int,
           At(w, field, k) = At(u, field, k) + x,
           \A j \in 0..MaxTime : j # k => At(w, field, j) = At(u, field, j)
    PROVE  Sum(w, field) = Sum(u, field) + x /\ Sum(u, field) \in Int
<1> DEFINE v == [j \in {k} |-> [f \in {field} |-> x]]
<1>1. At(v, field, k) = x /\ \A j \in 0..MaxTime : j # k => At(v, field, j) = 0
  BY DEF At
<1>. HIDE DEF v
<1>2. Counted(v, field)
  BY <1>1 DEF Counted
<1>3. Sum(v, field) = x
  BY <1>1, <1>2, SumOne
<1>4. \A j \in 0..MaxTime : At(w, field, j) = At(u, field, j) + At(v, field, j)
  BY <1>1 DEF Counted
<1>5. Sum(w, field) = Sum(u, field) + Sum(v, field) /\ Sum(u, field) \in Int
  BY <1>2, <1>4, SumAdds
<1>. QED BY <1>3, <1>5

-----------------------------------------------------------------------------
(* What recording, moving out and closing a window do to the totals.       *)

ItemOf(th) == IF Enters(th) THEN 0 ELSE 1

LEMMA AddedTotals ==
    ASSUME Totals(win), NEW th, Target(th) \in 0..MaxTime, Change(th) \in Int
    PROVE  /\ Totals(Added(th)) /\ DOMAIN Added(th) = DOMAIN win \union {Target(th)}
           /\ At(Added(th), "items", Target(th)) = At(win, "items", Target(th)) + ItemOf(th)
           /\ At(Added(th), "delta", Target(th)) = At(win, "delta", Target(th)) + Change(th)
           /\ \A j \in 0..MaxTime : j # Target(th) =>
                /\ At(Added(th), "items", j) = At(win, "items", j)
                /\ At(Added(th), "delta", j) = At(win, "delta", j)
<1> DEFINE k == Target(th)
           old == IF k \in DOMAIN win THEN win[k] ELSE [items |-> 0, delta |-> 0]
           new == [items |-> old.items + ItemOf(th), delta |-> old.delta + Change(th)]
           w == [j \in DOMAIN win \union {k} |-> IF j = k THEN new ELSE win[j]]
<1>1. Added(th) = w
  BY DEF Added, ItemOf
<1>2. /\ old.items \in Nat /\ old.delta \in Int /\ ItemOf(th) \in Nat
      /\ old.items = At(win, "items", k) /\ old.delta = At(win, "delta", k)
  BY DEF Totals, At, ItemOf
<1>. HIDE DEF k, old
<1>3. /\ new.items \in Nat /\ new.delta \in Int
      /\ new.items = At(win, "items", k) + ItemOf(th) /\ new.delta = At(win, "delta", k) + Change(th)
  BY <1>2 DEF k
<1>. HIDE DEF new
<1>4. DOMAIN w = DOMAIN win \union {k} /\ w[k] = new /\ \A j \in DOMAIN win : j # k => w[j] = win[j]
  OBVIOUS
<1>. HIDE DEF w
<1>5. Totals(w)
  BY <1>3, <1>4 DEF Totals, k
<1>6. At(w, "items", k) = new.items /\ At(w, "delta", k) = new.delta
  BY <1>4 DEF At
<1>7. \A j : j # k => At(w, "items", j) = At(win, "items", j) /\ At(w, "delta", j) = At(win, "delta", j)
  BY <1>4 DEF At
<1>. QED BY <1>1, <1>3, <1>4, <1>5, <1>6, <1>7 DEF k

LEMMA WithoutTotals ==
    ASSUME NEW w, Totals(w), NEW k
    PROVE  /\ Totals(Without(w, k)) /\ DOMAIN Without(w, k) = DOMAIN w \ {k}
           /\ \A field \in Fields : \A j :
                At(Without(w, k), field, j) = IF j = k THEN 0 ELSE At(w, field, j)
BY DEF Totals, Without, At, Fields

(* A total of one window is that window.                                   *)
LEMMA TotalOne ==
    ASSUME Totals(win), NEW j \in DOMAIN win, NEW field \in Fields, NEW D, D = {j}
    PROVE  Total([i \in D |-> win[i]])[field] = win[j][field]
<1> DEFINE w == [i \in D |-> win[i]]
<1>1. j \in 0..MaxTime /\ DOMAIN w = {j} /\ w[j] = win[j]
  BY DEF Totals
<1>. HIDE DEF w
<1>2. At(w, field, j) = win[j][field] /\ \A i \in 0..MaxTime : i # j => At(w, field, i) = 0
  BY <1>1 DEF At
<1>3. Counted(w, field)
  BY <1>1, <1>2 DEF Counted, Totals, Fields
<1>4. Sum(w, field) = win[j][field]
  BY <1>1, <1>2, <1>3, SumOne
<1>5. Total(w)[field] = Sum(w, field)
  BY DEF Total, Fields
<1>. QED BY <1>4, <1>5 DEF w

(* When no window held is below the first to close, those moved out keep   *)
(* their totals.                                                           *)
LEMMA MergedTotals ==
    ASSUME Totals(win), NEW k \in Nat, NEW end \in Nat, \A j \in DOMAIN win : k <= j
    PROVE  /\ Totals(Merged(k, end)) /\ DOMAIN Merged(k, end) = Below(end)
           /\ \A field \in Fields : \A j \in DOMAIN Merged(k, end) :
                Merged(k, end)[j][field] = win[j][field]
<1> DEFINE of(j) == {i \in Below(end) : Max({i, k}) = j}
           D == {Max({i, k}) : i \in Below(end)}
           m == [j \in D |-> Total([i \in of(j) |-> win[i]])]
<1>1. Merged(k, end) = m
  BY DEF Merged
<1>2. \A i \in Below(end) : Max({i, k}) = i
  BY MaxTwo DEF Below, Totals
<1>3. D = Below(end) /\ \A j \in Below(end) : of(j) = {j}
  BY <1>2
<1>4. Below(end) \subseteq DOMAIN win
  BY DEF Below
<1>5. ASSUME NEW j \in Below(end), NEW field \in Fields
      PROVE  m[j][field] = win[j][field]
  <2>1. m[j] = Total([i \in of(j) |-> win[i]]) /\ j \in DOMAIN win /\ of(j) = {j}
    BY <1>3, <1>4
  <2>. HIDE DEF of, D
  <2>2. Total([i \in of(j) |-> win[i]])[field] = win[j][field]
    BY <2>1, TotalOne
  <2>. QED BY <2>1, <2>2
<1>6. DOMAIN m = Below(end)
  BY <1>3
<1>. HIDE DEF m
<1>7. Totals(m)
  <2>1. \A j \in DOMAIN m : m[j]["items"] = win[j]["items"] /\ m[j]["delta"] = win[j]["delta"]
    BY <1>5, <1>6 DEF Fields
  <2>. QED BY <1>4, <1>6, <2>1 DEF Totals
<1>. QED BY <1>1, <1>5, <1>6, <1>7

-----------------------------------------------------------------------------
(* What the variables are, and what the actions read of them.              *)

CallAts == {"idle", "clock", "judge", "session", "window", "record"}

CallType ==
    [at : CallAts, t : 0..MaxTime, s : -1..MaxSessions, k : 0..MaxTime, counts : BOOLEAN]

ClockAts ==
    {"idle", "begin", "anchor", "clear", "start", "live", "close", "take", "window",
     "snapshot", "quiet", "depth", "emit", "shed", "recover"}

ClockType(c) ==
    /\ c \in [at : ClockAts, open : BOOLEAN, t : 0..MaxTime, k : Nat, first : Nat,
              end : 0..MaxTime, closing : {c.closing}, total : {c.total},
              value : {NoItem} \union Nat, watch : BOOLEAN]
    /\ c.total.items \in Nat /\ c.total.delta \in Int

(* Nothing read is later than now.                                         *)
Times ==
    /\ st.T <= now /\ clock.t <= now
    /\ \A th \in Threads : call[th].t <= now /\ token[th] <= now

Types ==
    /\ WindowsTypeOK
    /\ call \in [Threads -> CallType]
    /\ ClockType(clock)
    /\ Times
    /\ Totals(win) /\ Totals(clock.closing)
    /\ recorded \in Int /\ told \in Int /\ given \in Int

LEMMA SumInt == \A w, field : Totals(w) /\ field \in Fields => Sum(w, field) \in Int
<1> SUFFICES ASSUME NEW w, NEW field \in Fields, Totals(w) PROVE Sum(w, field) \in Int
  OBVIOUS
<1>1. Counted(w, field)
  BY TotalsCount
<1>. QED BY <1>1, SumSame

LEMMA Sums == \A w : Totals(w) => Sum(w, "items") \in Int /\ Sum(w, "delta") \in Int
BY SumInt DEF Fields

LEMMA WindowOfTime ==
    \A t \in 0..MaxTime : st.T \in Nat =>
        WindowOf(t) \in 0..MaxTime /\ WindowOf(t) = IF t >= st.T THEN t - st.T ELSE 0
<1> SUFFICES ASSUME NEW t \in 0..MaxTime, st.T \in Nat
             PROVE  WindowOf(t) \in 0..MaxTime /\ WindowOf(t) = IF t >= st.T THEN t - st.T ELSE 0
  OBVIOUS
<1>1. MaxTime \in Nat /\ t - st.T \in Int
  BY WindowsAssumption
<1>2. Max({t - st.T, 0}) = IF t - st.T >= 0 THEN t - st.T ELSE 0
  BY <1>1, MaxTwo
<1>. QED BY <1>1, <1>2 DEF WindowOf

LEMMA CountFinite == \A w : Totals(w) => IsFiniteSet(DOMAIN w) /\ Cardinality(DOMAIN w) \in Nat
<1> SUFFICES ASSUME NEW w, Totals(w) PROVE IsFiniteSet(DOMAIN w) /\ Cardinality(DOMAIN w) \in Nat
  OBVIOUS
<1>1. IsFiniteSet(0..MaxTime)
  BY WindowsAssumption, FS_Interval
<1>2. IsFiniteSet(DOMAIN w)
  BY <1>1, FS_Subset DEF Totals
<1>. QED BY <1>2, FS_CardinalityType

(* A call records where it should, by one, and never below zero.           *)
LEMMA RecordTypes ==
    ASSUME Types, NEW th \in Threads
    PROVE  /\ Target(th) \in 0..MaxTime
           /\ Target(th) = IF call[th].k >= st.closed THEN call[th].k ELSE st.closed
           /\ Delta(th) \in {-1, 0, 1} /\ Change(th) \in {-1, 0, 1}
           /\ Change(th) = IF acc.backlog + Delta(th) < 0 THEN 0 ELSE Delta(th)
           /\ acc.backlog + Change(th) \in Nat
           /\ acc.backlog \in Nat
<1>1. call[th].k \in 0..MaxTime /\ st.closed \in 0..MaxTime /\ acc.backlog \in Nat
  BY DEF Types, WindowsTypeOK, CallType
<1>2. Max({call[th].k, st.closed}) = IF call[th].k >= st.closed THEN call[th].k ELSE st.closed
  BY <1>1, MaxTwo
<1>3. Target(th) \in 0..MaxTime
  BY <1>1, <1>2 DEF Target
<1>4. Delta(th) \in {-1, 0, 1}
  BY DEF Delta
<1>5. Change(th) = IF acc.backlog + Delta(th) < 0 THEN 0 ELSE Delta(th)
  <2>1. acc.backlog + Delta(th) < 0 => acc.backlog = 0
    BY <1>1, <1>4
  <2>. QED BY <1>1, <2>1 DEF Change
<1>. QED BY <1>1, <1>2, <1>3, <1>4, <1>5 DEF Target

(* What the clock thread reads of the totals is a number.                  *)
LEMMA ReadTypes ==
    ASSUME Types
    PROVE  /\ Sum(win, "items") \in Int /\ Sum(win, "delta") \in Int
           /\ Sum(clock.closing, "items") \in Int /\ Sum(clock.closing, "delta") \in Int
           /\ Later \in Int /\ Pending \in Nat
           /\ DepthNow \in Nat
           /\ DepthNow = IF acc.backlog - Later >= 0 THEN acc.backlog - Later ELSE 0
<1>1. Totals(win) /\ Totals(clock.closing) /\ acc.backlog \in Nat
  BY DEF Types, WindowsTypeOK
<1>2. /\ Sum(win, "items") \in Int /\ Sum(win, "delta") \in Int
      /\ Sum(clock.closing, "items") \in Int /\ Sum(clock.closing, "delta") \in Int
  BY <1>1, Sums
<1>3. Later \in Int
  BY <1>2 DEF Later
<1>4. Max({acc.backlog - Later, 0}) = IF acc.backlog - Later >= 0 THEN acc.backlog - Later ELSE 0
  BY <1>1, <1>3, MaxTwo
<1>5. Pending \in Nat
  BY <1>1, CountFinite DEF Pending
<1>. QED BY <1>1, <1>2, <1>3, <1>4, <1>5 DEF DepthNow

(* The window closed next, and what it holds.                              *)
LEMMA NextTypes ==
    ASSUME Types
    PROVE  /\ NextWindow \in Nat
           /\ ~watched => /\ NextWindow \in DOMAIN clock.closing \union {clock.end}
                          /\ NextWindow >= clock.k \/ NextWindow = clock.end
                          /\ \A j \in DOMAIN clock.closing : j >= clock.k => NextWindow <= j
           /\ watched => NextWindow = clock.k
<1> DEFINE S == {j \in DOMAIN clock.closing : j >= clock.k} \union {clock.end}
<1>1. /\ clock.k \in Nat /\ clock.end \in Nat /\ DOMAIN clock.closing \subseteq Nat
      /\ watched \in BOOLEAN
  BY DEF Types, ClockType, Totals, WindowsTypeOK
<1>2. S \subseteq Nat /\ S # {}
  BY <1>1
<1>. HIDE DEF S
<1>3. Min(S) \in S /\ \A y \in S : Min(S) <= y
  BY <1>2, MinLeast
<1>4. NextWindow = IF watched THEN clock.k ELSE Min(S)
  BY DEF NextWindow, S
<1>5. Min(S) \in Nat
  BY <1>2, <1>3
<1>6. CASE watched
  BY <1>1, <1>4, <1>6
<1>7. CASE ~watched
  <2>1. /\ Min(S) \in DOMAIN clock.closing \union {clock.end}
        /\ Min(S) >= clock.k \/ Min(S) = clock.end
        /\ \A j \in DOMAIN clock.closing : j >= clock.k => Min(S) <= j
    BY <1>3 DEF S
  <2>. QED BY <1>4, <1>5, <1>7, <2>1
<1>. QED BY <1>1, <1>6, <1>7

(* The bounds are numbers.                                                 *)
Bounds ==
    /\ MaxTime \in Nat /\ MaxSessions \in Nat /\ Cap \in Nat /\ MaxLag \in Nat
    /\ MaxCalls \in Nat

LEMMA BoundsHold == Bounds
BY WindowsAssumption DEF Bounds

LEMMA TypesInit == Init => Types
<1> SUFFICES ASSUME Init PROVE Types
  OBVIOUS
<1>1. Bounds
  BY BoundsHold
<1>2. WindowsTypeOK
  <2>1. /\ st \in [live : BOOLEAN, session : -1..MaxSessions, T : 0..MaxTime, closed : 0..MaxTime,
                   pending : Nat, saturated : BOOLEAN]
    BY <1>1 DEF Init, Bounds
  <2>2. acc \in [session : -1..MaxSessions, backlog : Nat, nonzero : BOOLEAN]
    BY <1>1 DEF Init, Bounds, NewAcc
  <2>3. token \in [Threads -> NoItem..MaxTime] /\ now \in 0..MaxTime
    BY <1>1 DEF Init, Bounds, NoItem
  <2>. QED BY <2>1, <2>2, <2>3 DEF Init, WindowsTypeOK
<1>3. call \in [Threads -> CallType]
  BY <1>1 DEF Init, IdleCall, CallType, CallAts, Bounds
<1>4. ClockType(clock)
  BY <1>1 DEF Init, IdleClock, ClockType, ClockAts, Bounds
<1>5. Times
  BY DEF Init, Times, IdleClock, IdleCall, NoItem
<1>6. Totals(win) /\ Totals(clock.closing)
  BY EmptyWindows DEF Init, IdleClock
<1>. QED BY <1>2, <1>3, <1>4, <1>5, <1>6 DEF Types, Init

LEMMA TypesTick == Types /\ Tick => Types'
<1> SUFFICES ASSUME Types, Tick PROVE Types'
  OBVIOUS
<1>1. /\ now' = now + 1 /\ now < MaxTime /\ now \in Nat
      /\ UNCHANGED <<st, win, acc, call, token, calls, clock, watched, backlogSeen, sure, clean,
                     recorded, told, given>>
  BY DEF Tick, Types, WindowsTypeOK, callVars, seenVars, itemVars
<1>2. WindowsTypeOK'
  BY <1>1, BoundsHold DEF Types, WindowsTypeOK, Bounds
<1>3. Times'
  <2>1. st.T \in Int /\ clock.t \in Int /\ \A th \in Threads : call[th].t \in Int /\ token[th] \in Int
    BY BoundsHold DEF Types, WindowsTypeOK, ClockType, CallType, Bounds, NoItem
  <2>. QED BY <1>1, <2>1 DEF Types, Times
<1>4. (call \in [Threads -> CallType])' /\ ClockType(clock)' /\ Totals(win)' /\ Totals(clock.closing)'
  BY <1>1 DEF Types, ClockType, Totals, CallType
<1>. QED BY <1>1, <1>2, <1>3, <1>4 DEF Types

LEMMA TypesStarts == \A th \in Threads : Types /\ Starts(th) => Types'
<1> SUFFICES ASSUME NEW th \in Threads, Types, Starts(th) PROVE Types'
  OBVIOUS
<1>1. /\ UNCHANGED <<now, st, win, acc, clock, watched, backlogSeen, sure, clean,
                     recorded, told, given>>
      /\ call' = call \/ call' = [call EXCEPT ![th].at = "clock"]
      /\ \/ token' = token
         \/ token' = [token EXCEPT ![th] = NotCounted] \/ token' = [token EXCEPT ![th] = NoItem]
  BY DEF Starts, seenVars, itemVars
<1>2. token \in [Threads -> NoItem..MaxTime] /\ MaxTime \in Nat /\ now \in Nat
      /\ call \in [Threads -> CallType] /\ Times
  BY BoundsHold DEF Types, WindowsTypeOK, Bounds
<1>3. /\ token' \in [Threads -> NoItem..MaxTime]
      /\ \A o \in Threads : token[o] <= now => token'[o] <= now
  BY <1>1, <1>2 DEF NotCounted, NoItem
<1>4. (call \in [Threads -> CallType])' /\ \A o \in Threads : call'[o].t = call[o].t
  BY <1>1, <1>2 DEF CallType, CallAts
<1>5. Times'
  BY <1>1, <1>2, <1>3, <1>4 DEF Times
<1>6. WindowsTypeOK'
  BY <1>1, <1>3 DEF Types, WindowsTypeOK
<1>7. ClockType(clock)' /\ Totals(win)' /\ Totals(clock.closing)'
  BY <1>1 DEF Types, ClockType, Totals
<1>. QED BY <1>1, <1>4, <1>5, <1>6, <1>7 DEF Types

(* A read of the time base changes one field of the call.                  *)
LEMMA TypesReads ==
    \A th \in Threads : \A c \in CallType :
        Types /\ c.t <= now /\ call' = [call EXCEPT ![th] = c]
        /\ UNCHANGED <<now, st, win, acc, token, calls, clock, seenVars, itemVars>> => Types'
<1> SUFFICES ASSUME NEW th \in Threads, NEW c \in CallType, Types, c.t <= now,
                    call' = [call EXCEPT ![th] = c],
                    UNCHANGED <<now, st, win, acc, token, calls, clock, seenVars, itemVars>>
             PROVE  Types'
  OBVIOUS
<1>1. UNCHANGED <<now, st, win, acc, token, clock, watched, backlogSeen, sure, clean,
                  recorded, told, given>>
  BY DEF seenVars, itemVars
<1>2. call \in [Threads -> CallType]
  BY DEF Types
<1>3. (call \in [Threads -> CallType])' /\ \A o \in Threads : call'[o] = IF o = th THEN c ELSE call[o]
  BY <1>2
<1>4. Times'
  BY <1>1, <1>3 DEF Types, Times
<1>5. WindowsTypeOK'
  BY <1>1 DEF Types, WindowsTypeOK
<1>6. ClockType(clock)' /\ Totals(win)' /\ Totals(clock.closing)'
  BY <1>1 DEF Types, ClockType, Totals
<1>. QED BY <1>1, <1>3, <1>4, <1>5, <1>6 DEF Types

(* The four reads, and the call they leave.                                *)
ReadCall(th) ==
    {[[call[th] EXCEPT !.t = now] EXCEPT !.at = "session"],
     [[call[th] EXCEPT !.t = now] EXCEPT !.at = "judge"],
     [[call[th] EXCEPT !.counts = token[th] >= st.T] EXCEPT !.at = "session"],
     [[call[th] EXCEPT !.s = st.session] EXCEPT !.at = "window"],
     [[call[th] EXCEPT !.k = WindowOf(call[th].t)] EXCEPT !.at = "record"]}

LEMMA TypesRead ==
    \A th \in Threads :
        Types /\ (ReadsClock(th) \/ Judges(th) \/ ReadsSession(th) \/ ReadsT(th)) => Types'
<1> SUFFICES ASSUME NEW th \in Threads, Types,
                    ReadsClock(th) \/ Judges(th) \/ ReadsSession(th) \/ ReadsT(th)
             PROVE  Types'
  OBVIOUS
<1>1. PICK c \in ReadCall(th) :
        /\ call' = [call EXCEPT ![th] = c]
        /\ UNCHANGED <<now, st, win, acc, token, calls, clock, seenVars, itemVars>>
  BY DEF ReadsClock, Judges, ReadsSession, ReadsT, Reads, ReadCall
<1>2. /\ call[th] \in CallType /\ call[th].t <= now /\ now \in 0..MaxTime
      /\ st.session \in -1..MaxSessions /\ st.T \in Nat
  BY BoundsHold DEF Types, Times, WindowsTypeOK, Bounds
<1>3. WindowOf(call[th].t) \in 0..MaxTime
  BY <1>2, WindowOfTime DEF CallType
<1>4. c \in CallType /\ c.t <= now
  <2> DEFINE counts == token[th] >= st.T
             k == WindowOf(call[th].t)
  <2>1. counts \in BOOLEAN /\ k \in 0..MaxTime
    BY <1>3
  <2>2. c \in {[[call[th] EXCEPT !.t = now] EXCEPT !.at = "session"],
                [[call[th] EXCEPT !.t = now] EXCEPT !.at = "judge"],
                [[call[th] EXCEPT !.counts = counts] EXCEPT !.at = "session"],
                [[call[th] EXCEPT !.s = st.session] EXCEPT !.at = "window"],
                [[call[th] EXCEPT !.k = k] EXCEPT !.at = "record"]}
    BY DEF ReadCall
  <2>. HIDE DEF counts, k
  <2>3. CASE c = [[call[th] EXCEPT !.t = now] EXCEPT !.at = "session"]
    <3>1. c \in CallType
      BY <1>2, <2>3 DEF CallType, CallAts
    <3>2. c.t = now
      BY <1>2, <2>3 DEF CallType
    <3>. QED BY <1>2, <3>1, <3>2
  <2>4. CASE c = [[call[th] EXCEPT !.t = now] EXCEPT !.at = "judge"]
    <3>1. c \in CallType
      BY <1>2, <2>4 DEF CallType, CallAts
    <3>2. c.t = now
      BY <1>2, <2>4 DEF CallType
    <3>. QED BY <1>2, <3>1, <3>2
  <2>5. CASE c = [[call[th] EXCEPT !.counts = counts] EXCEPT !.at = "session"]
    BY <1>2, <2>1, <2>5 DEF CallType, CallAts
  <2>6. CASE c = [[call[th] EXCEPT !.s = st.session] EXCEPT !.at = "window"]
    BY <1>2, <2>6 DEF CallType, CallAts
  <2>7. CASE c = [[call[th] EXCEPT !.k = k] EXCEPT !.at = "record"]
    BY <1>2, <2>1, <2>7 DEF CallType, CallAts
  <2>. QED BY <2>2, <2>3, <2>4, <2>5, <2>6, <2>7
<1>. QED BY <1>1, <1>4, TypesReads

LEMMA TypesRecords == \A th \in Threads : Types /\ Records(th) => Types'
<1> SUFFICES ASSUME NEW th \in Threads, Types, Records(th) PROVE Types'
  OBVIOUS
<1>1. /\ UNCHANGED <<now, clock, watched, backlogSeen, sure, clean, told, given>>
      /\ Record(th)
      /\ token' = [token EXCEPT ![th] = IF Enters(th) THEN call[th].t ELSE NoItem]
      /\ call' = [call EXCEPT ![th] = IdleCall]
  BY DEF Records, seenVars
<1>2. /\ Target(th) \in 0..MaxTime /\ Change(th) \in Int /\ acc.backlog + Change(th) \in Nat
  BY RecordTypes
<1>3. /\ token \in [Threads -> NoItem..MaxTime] /\ MaxTime \in Nat /\ MaxSessions \in Nat
      /\ now \in Nat /\ call \in [Threads -> CallType] /\ Times /\ Totals(win)
      /\ recorded \in Int
  BY BoundsHold DEF Types, WindowsTypeOK, Bounds
<1>4. call[th].t \in 0..MaxTime /\ call[th].t <= now
  BY <1>3 DEF CallType, Times
<1>5. /\ token' \in [Threads -> NoItem..MaxTime]
      /\ \A o \in Threads : token'[o] <= now
  BY <1>1, <1>3, <1>4 DEF NoItem, Times
<1>6. (call \in [Threads -> CallType])' /\ \A o \in Threads : call'[o].t <= now
  <2>1. IdleCall \in CallType /\ IdleCall.t = 0
    BY <1>3 DEF IdleCall, CallType, CallAts
  <2>. QED BY <1>1, <1>3, <2>1 DEF Times
<1>7. Times'
  <2>1. st'.T = st.T
    BY <1>1 DEF Record, Types, WindowsTypeOK
  <2>. QED BY <1>1, <1>3, <1>5, <1>6, <2>1 DEF Times
<1>8. /\ st' \in [live : BOOLEAN, session : -1..MaxSessions, T : 0..MaxTime, closed : 0..MaxTime,
                  pending : Nat, saturated : BOOLEAN]
      /\ acc' \in [session : -1..MaxSessions, backlog : Nat, nonzero : BOOLEAN]
  <2>1. /\ st \in [live : BOOLEAN, session : -1..MaxSessions, T : 0..MaxTime, closed : 0..MaxTime,
                   pending : Nat, saturated : BOOLEAN]
        /\ acc \in [session : -1..MaxSessions, backlog : Nat, nonzero : BOOLEAN]
    BY DEF Types, WindowsTypeOK
  <2>2. /\ st' \in {st, [st EXCEPT !.saturated = TRUE], [st EXCEPT !.pending = @ + 1]}
        /\ acc' \in {acc, [acc EXCEPT !.backlog = @ + Change(th)]}
    BY <1>1 DEF Record
  <2>3. acc' \in [session : -1..MaxSessions, backlog : Nat, nonzero : BOOLEAN]
    BY <1>2, <2>1, <2>2
  <2>4. CASE st' = st
    BY <2>1, <2>3, <2>4
  <2>5. CASE st' = [st EXCEPT !.saturated = TRUE]
    BY <2>1, <2>3, <2>5
  <2>6. CASE st' = [st EXCEPT !.pending = @ + 1]
    BY <2>1, <2>3, <2>6
  <2>. QED BY <2>2, <2>4, <2>5, <2>6
<1>9. WindowsTypeOK'
  BY <1>1, <1>5, <1>8 DEF Types, WindowsTypeOK
<1>10. Totals(win)'
  <2>1. Totals(Added(th))
    BY <1>2, <1>3, AddedTotals
  <2>2. win' = win \/ win' = Added(th)
    BY <1>1 DEF Record
  <2>. QED BY <1>3, <2>1, <2>2 DEF Totals
<1>11. ClockType(clock)' /\ Totals(clock.closing)' /\ recorded' \in Int
  <2>1. recorded' \in Int
    BY <1>1, <1>3 DEF Record
  <2>. QED BY <1>1, <2>1 DEF Types, ClockType, Totals
<1>. QED BY <1>1, <1>6, <1>7, <1>9, <1>10, <1>11 DEF Types

StType(s) ==
    s \in [live : BOOLEAN, session : -1..MaxSessions, T : 0..MaxTime, closed : 0..MaxTime,
           pending : Nat, saturated : BOOLEAN]

AccType(a) == a \in [session : -1..MaxSessions, backlog : Nat, nonzero : BOOLEAN]

SeenType == {watched, sure, clean} \subseteq BOOLEAN /\ backlogSeen \in Nat

ItemType == recorded \in Int /\ told \in Int /\ given \in Int

(* The clock thread changes no call, and time does not go back.            *)
LEMMA TypesClock ==
    ASSUME Types, UNCHANGED callVars, now' \in 0..MaxTime, now' >= now,
           ClockType(clock'), clock'.t <= now', StType(st'), st'.T <= now', AccType(acc'),
           SeenType', ItemType', Totals(win'), Totals(clock'.closing)
    PROVE  Types'
<1>1. /\ call \in [Threads -> CallType] /\ token \in [Threads -> NoItem..MaxTime]
      /\ now \in Nat /\ Times
  BY BoundsHold DEF Types, WindowsTypeOK, Bounds
<1>2. call' = call /\ token' = token
  BY DEF callVars
<1>3. WindowsTypeOK'
  BY <1>1, <1>2 DEF WindowsTypeOK, StType, AccType, SeenType
<1>4. Times'
  <2>1. MaxTime \in Nat /\ \A th \in Threads : call[th].t \in Int /\ token[th] \in Int
    BY <1>1, BoundsHold DEF CallType, Bounds, NoItem
  <2>2. \A th \in Threads : call[th].t <= now' /\ token[th] <= now'
    BY <1>1, <2>1 DEF Times
  <2>. QED BY <1>2, <2>2 DEF Times
<1>5. (call \in [Threads -> CallType])'
  BY <1>1, <1>2 DEF CallType
<1>6. ClockType(clock)' /\ Totals(win)' /\ Totals(clock.closing)'
  BY DEF ClockType, Totals
<1>. QED BY <1>3, <1>4, <1>5, <1>6 DEF Types, ItemType

LEMMA TypesNow ==
    Types => /\ now \in 0..MaxTime /\ ClockType(clock) /\ clock.t <= now
             /\ StType(st) /\ st.T <= now /\ AccType(acc)
             /\ SeenType /\ ItemType /\ Totals(win) /\ Totals(clock.closing)
             /\ clock.t \in 0..MaxTime /\ st.T \in 0..MaxTime /\ MaxTime \in Nat
             /\ MaxSessions \in Nat
<1> SUFFICES ASSUME Types PROVE /\ now \in 0..MaxTime /\ ClockType(clock) /\ clock.t <= now
             /\ StType(st) /\ st.T <= now /\ AccType(acc)
             /\ SeenType /\ ItemType /\ Totals(win) /\ Totals(clock.closing)
             /\ clock.t \in 0..MaxTime /\ st.T \in 0..MaxTime /\ MaxTime \in Nat
             /\ MaxSessions \in Nat
  OBVIOUS
<1>1. ClockType(clock) /\ StType(st) /\ AccType(acc)
  BY DEF Types, WindowsTypeOK, StType, AccType
<1>2. clock.t \in 0..MaxTime /\ st.T \in 0..MaxTime
  BY <1>1 DEF ClockType, StType
<1>3. SeenType /\ ItemType /\ Totals(win) /\ Totals(clock.closing) /\ now \in 0..MaxTime
  BY DEF Types, WindowsTypeOK, SeenType, ItemType
<1>. QED BY <1>1, <1>2, <1>3, BoundsHold DEF Types, Times, Bounds

LEMMA TypesStepStarts == Types /\ StepStarts => Types'
<1> SUFFICES ASSUME Types, StepStarts PROVE Types'
  OBVIOUS
<1>1. /\ now \in 0..MaxTime /\ ClockType(clock) /\ clock.t <= now
      /\ StType(st) /\ st.T <= now /\ AccType(acc)
      /\ SeenType /\ ItemType /\ Totals(win) /\ Totals(clock.closing)
      /\ clock.t \in 0..MaxTime /\ st.T \in 0..MaxTime /\ MaxTime \in Nat
  BY TypesNow
<1>2. /\ now' = now + 1 /\ now' \in 0..MaxTime
      /\ st' \in {st, [st EXCEPT !.live = FALSE]}
      /\ UNCHANGED <<win, acc, callVars, watched, backlogSeen, sure, recorded, told, given>>
      /\ clean' \in {clean, \A th \in Threads : call[th].at = "idle"}
      /\ clock' \in {[clock EXCEPT !.at = "close", !.t = now'],
                     [clock EXCEPT !.at = "begin", !.t = now', !.open = FALSE],
                     [clock EXCEPT !.open = FALSE], [clock EXCEPT !.at = "begin", !.t = now']}
  BY <1>1 DEF StepStarts, itemVars
<1>3. ClockType(clock') /\ clock'.t \in {clock.t, now'} /\ clock'.closing = clock.closing
  <2>1. CASE clock' = [clock EXCEPT !.at = "close", !.t = now']
    BY <1>1, <1>2, <2>1 DEF ClockType, ClockAts
  <2>2. CASE clock' = [clock EXCEPT !.at = "begin", !.t = now', !.open = FALSE]
    BY <1>1, <1>2, <2>2 DEF ClockType, ClockAts
  <2>3. CASE clock' = [clock EXCEPT !.open = FALSE]
    BY <1>1, <2>3 DEF ClockType
  <2>4. CASE clock' = [clock EXCEPT !.at = "begin", !.t = now']
    BY <1>1, <1>2, <2>4 DEF ClockType, ClockAts
  <2>. QED BY <1>2, <2>1, <2>2, <2>3, <2>4
<1>4. StType(st') /\ st'.T = st.T
  BY <1>1, <1>2 DEF StType
<1>5. AccType(acc') /\ SeenType' /\ ItemType' /\ Totals(win') /\ Totals(clock'.closing)
  <2>1. clean' \in BOOLEAN
    BY <1>1, <1>2 DEF SeenType
  <2>. QED BY <1>1, <1>2, <1>3, <2>1 DEF SeenType, ItemType
<1>6. UNCHANGED callVars /\ clock'.t <= now' /\ st'.T <= now' /\ now' >= now
  BY <1>1, <1>2, <1>3, <1>4
<1>. QED BY <1>2, <1>3, <1>4, <1>5, <1>6, TypesClock

LEMMA TypesBeginsSession == Types /\ BeginsSession => Types'
<1> SUFFICES ASSUME Types, BeginsSession PROVE Types'
  OBVIOUS
<1>1. /\ now \in 0..MaxTime /\ ClockType(clock) /\ clock.t <= now
      /\ StType(st) /\ st.T <= now /\ AccType(acc)
      /\ SeenType /\ ItemType /\ Totals(win) /\ Totals(clock.closing) /\ MaxSessions \in Nat
  BY TypesNow
<1>2. /\ st.session + 1 < MaxSessions /\ st' = [st EXCEPT !.session = @ + 1]
      /\ clock' = [clock EXCEPT !.at = "anchor"]
      /\ UNCHANGED <<now, win, acc, callVars, watched, backlogSeen, sure, clean, recorded, told, given>>
  BY DEF BeginsSession, itemVars, seenVars
<1>3. ClockType(clock') /\ clock'.t = clock.t /\ clock'.closing = clock.closing
  BY <1>1, <1>2 DEF ClockType, ClockAts
<1>4. StType(st') /\ st'.T = st.T
  BY <1>1, <1>2 DEF StType
<1>5. AccType(acc') /\ SeenType' /\ ItemType' /\ Totals(win') /\ Totals(clock'.closing)
  BY <1>1, <1>2, <1>3 DEF SeenType, ItemType
<1>6. UNCHANGED callVars /\ clock'.t <= now' /\ st'.T <= now' /\ now' >= now /\ now' \in 0..MaxTime
  BY <1>1, <1>2, <1>3, <1>4
<1>. QED BY <1>3, <1>4, <1>5, <1>6, TypesClock

LEMMA TypesAnchors == Types /\ Anchors => Types'
<1> SUFFICES ASSUME Types, Anchors PROVE Types'
  OBVIOUS
<1>1. /\ now \in 0..MaxTime /\ ClockType(clock) /\ clock.t <= now
      /\ StType(st) /\ st.T <= now /\ AccType(acc) /\ clock.t \in 0..MaxTime
      /\ SeenType /\ ItemType /\ Totals(win) /\ Totals(clock.closing) /\ MaxSessions \in Nat
  BY TypesNow
<1>2. /\ st' = [st EXCEPT !.T = clock.t]
      /\ clock' = [clock EXCEPT !.at = "clear"]
      /\ UNCHANGED <<now, win, acc, callVars, watched, backlogSeen, sure, clean, recorded, told, given>>
  BY DEF Anchors, itemVars, seenVars
<1>3. ClockType(clock') /\ clock'.t = clock.t /\ clock'.closing = clock.closing
  BY <1>1, <1>2 DEF ClockType, ClockAts
<1>4. StType(st') /\ st'.T = clock.t
  BY <1>1, <1>2 DEF StType
<1>5. AccType(acc') /\ SeenType' /\ ItemType' /\ Totals(win') /\ Totals(clock'.closing)
  BY <1>1, <1>2, <1>3 DEF SeenType, ItemType
<1>6. UNCHANGED callVars /\ clock'.t <= now' /\ st'.T <= now' /\ now' >= now /\ now' \in 0..MaxTime
  BY <1>1, <1>2, <1>3, <1>4
<1>. QED BY <1>3, <1>4, <1>5, <1>6, TypesClock

LEMMA TypesClears == Types /\ Clears => Types'
<1> SUFFICES ASSUME Types, Clears PROVE Types'
  OBVIOUS
<1>1. /\ now \in 0..MaxTime /\ ClockType(clock) /\ clock.t <= now
      /\ StType(st) /\ st.T <= now /\ AccType(acc) /\ clock.t \in 0..MaxTime
      /\ SeenType /\ ItemType /\ Totals(win) /\ Totals(clock.closing) /\ MaxTime \in Nat
  BY TypesNow
<1>2. /\ st' = [st EXCEPT !.closed = 0, !.pending = 0, !.saturated = FALSE]
      /\ clock' = [clock EXCEPT !.at = "start"]
      /\ win' = Empty /\ given' = given + Sum(win, "items")
      /\ UNCHANGED <<now, acc, callVars, watched, backlogSeen, sure, clean, recorded, told>>
  BY DEF Clears, seenVars
<1>3. ClockType(clock') /\ clock'.t = clock.t /\ clock'.closing = clock.closing
  BY <1>1, <1>2 DEF ClockType, ClockAts
<1>4. StType(st') /\ st'.T = st.T
  <2> DEFINE s == [st EXCEPT !.closed = 0]
             u == [s EXCEPT !.pending = 0]
  <2>1. StType(s) /\ s.T = st.T
    BY <1>1 DEF StType
  <2>2. st' = [u EXCEPT !.saturated = FALSE]
    BY <1>2
  <2>. HIDE DEF s
  <2>3. StType(u) /\ u.T = s.T
    BY <2>1 DEF StType
  <2>. HIDE DEF u
  <2>. QED BY <2>1, <2>2, <2>3 DEF StType
<1>5. AccType(acc') /\ SeenType' /\ ItemType' /\ Totals(win') /\ Totals(clock'.closing)
  <2>1. Sum(win, "items") \in Int
    BY ReadTypes
  <2>2. ItemType'
    BY <1>1, <1>2, <2>1 DEF ItemType
  <2>. QED BY <1>1, <1>2, <1>3, <2>2, EmptyWindows DEF SeenType
<1>6. UNCHANGED callVars /\ clock'.t <= now' /\ st'.T <= now' /\ now' >= now /\ now' \in 0..MaxTime
  BY <1>1, <1>2, <1>3, <1>4
<1>. QED BY <1>3, <1>4, <1>5, <1>6, TypesClock

LEMMA TypesStartsAcc == Types /\ StartsAcc => Types'
<1> SUFFICES ASSUME Types, StartsAcc PROVE Types'
  OBVIOUS
<1>1. /\ now \in 0..MaxTime /\ ClockType(clock) /\ clock.t <= now
      /\ StType(st) /\ st.T <= now
      /\ SeenType /\ ItemType /\ Totals(win) /\ Totals(clock.closing)
  BY TypesNow
<1>2. /\ acc' = [NewAcc EXCEPT !.session = st.session]
      /\ clock' = [clock EXCEPT !.at = "live"]
      /\ UNCHANGED <<now, st, win, callVars, watched, backlogSeen, sure, clean, recorded, told, given>>
  BY DEF StartsAcc, seenVars, itemVars
<1>3. ClockType(clock') /\ clock'.t = clock.t /\ clock'.closing = clock.closing
  BY <1>1, <1>2 DEF ClockType, ClockAts
<1>4. AccType(acc')
  BY <1>1, <1>2 DEF StType, AccType, NewAcc
<1>5. SeenType' /\ ItemType' /\ Totals(win') /\ Totals(clock'.closing)
  BY <1>1, <1>2, <1>3 DEF SeenType, ItemType
<1>6. /\ UNCHANGED callVars /\ clock'.t <= now' /\ st'.T <= now' /\ now' >= now /\ now' \in 0..MaxTime
      /\ StType(st')
  BY <1>1, <1>2, <1>3
<1>. QED BY <1>3, <1>4, <1>5, <1>6, TypesClock

LEMMA TypesGoesLive == Types /\ GoesLive => Types'
<1> SUFFICES ASSUME Types, GoesLive PROVE Types'
  OBVIOUS
<1>1. /\ now \in 0..MaxTime /\ ClockType(clock) /\ clock.t <= now
      /\ StType(st) /\ st.T <= now /\ AccType(acc) /\ MaxTime \in Nat
      /\ SeenType /\ ItemType /\ Totals(win) /\ Totals(clock.closing)
  BY TypesNow
<1>2. /\ st' = [st EXCEPT !.live = TRUE]
      /\ clock' = [IdleClock EXCEPT !.open = TRUE]
      /\ watched' = FALSE /\ backlogSeen' = 0 /\ sure' = TRUE
      /\ UNCHANGED <<now, win, acc, callVars, clean, recorded, told, given>>
  BY DEF GoesLive, itemVars
<1>3. ClockType(clock') /\ clock'.t = 0 /\ clock'.closing = Empty
  <2>1. clock' = [at |-> "idle", open |-> TRUE, t |-> 0, k |-> 0, first |-> 0, end |-> 0,
                  closing |-> Empty, total |-> [items |-> 0, delta |-> 0], value |-> 0,
                  watch |-> FALSE]
    BY <1>2 DEF IdleClock
  <2>2. 0 \in 0..MaxTime /\ [items |-> 0, delta |-> 0] \in [items : Nat, delta : Int]
    BY <1>1
  <2>. QED BY <2>1, <2>2 DEF ClockType, ClockAts
<1>4. StType(st') /\ st'.T = st.T
  BY <1>1, <1>2 DEF StType
<1>5. AccType(acc') /\ SeenType' /\ ItemType' /\ Totals(win') /\ Totals(clock'.closing)
  BY <1>1, <1>2, <1>3, EmptyWindows DEF SeenType, ItemType
<1>6. UNCHANGED callVars /\ clock'.t <= now' /\ st'.T <= now' /\ now' >= now /\ now' \in 0..MaxTime
  BY <1>1, <1>2, <1>3, <1>4
<1>. QED BY <1>3, <1>4, <1>5, <1>6, TypesClock

-----------------------------------------------------------------------------
(* Where the windows are.                                                  *)

InWindow == {"snapshot", "quiet", "depth", "emit"}

(* Where the windows are: none held is closed, until it is moved out; the  *)
(* windows moved out are those still to visit, and end with the session's  *)
(* closed ones.                                                            *)
Held ==
    /\ \A j \in DOMAIN win : j >= IF clock.at = "take" THEN clock.k ELSE st.closed
    /\ clock.at = "take" => clock.end = st.closed /\ clock.k < clock.end
    /\ clock.at \in {"window"} \union InWindow => clock.end <= st.closed
    /\ clock.at = "window" =>
         \A j \in DOMAIN clock.closing : clock.k <= j /\ j < clock.end
    /\ clock.at \in InWindow => \A j \in DOMAIN clock.closing : clock.k < j /\ j < clock.end
    /\ clock.at \notin {"window", "shed"} \union InWindow => clock.closing = Empty

LEMMA TypesClosesUntil == Types /\ ClosesUntil => Types'
<1> SUFFICES ASSUME Types, ClosesUntil PROVE Types'
  OBVIOUS
<1>1. /\ now \in 0..MaxTime /\ ClockType(clock) /\ clock.t <= now /\ clock.t \in 0..MaxTime
      /\ StType(st) /\ st.T <= now /\ AccType(acc) /\ st.T \in 0..MaxTime
      /\ SeenType /\ ItemType /\ Totals(win) /\ Totals(clock.closing) /\ MaxTime \in Nat
  BY TypesNow
<1> DEFINE end == WindowOf(clock.t)
<1>2. end \in 0..MaxTime /\ Pending \in Nat /\ st.closed \in Nat
  BY <1>1, WindowOfTime, ReadTypes DEF StType
<1>3. /\ UNCHANGED <<now, win, acc, callVars, watched, backlogSeen, sure, clean, recorded, told, given>>
      /\ clock' \in {[clock EXCEPT !.at = "idle"], [clock EXCEPT !.at = "shed"],
                     [clock EXCEPT !.at = "take", !.k = st.closed, !.first = st.closed, !.end = end]}
      /\ st' \in {st, [st EXCEPT !.closed = end, !.pending = Pending]}
  BY DEF ClosesUntil, itemVars, seenVars
<1>. HIDE DEF end
<1>4. ClockType(clock') /\ clock'.t = clock.t /\ clock'.closing = clock.closing
  <2>1. CASE clock' = [clock EXCEPT !.at = "idle"]
    BY <1>1, <2>1 DEF ClockType, ClockAts
  <2>2. CASE clock' = [clock EXCEPT !.at = "shed"]
    BY <1>1, <2>2 DEF ClockType, ClockAts
  <2>3. CASE clock' = [clock EXCEPT !.at = "take", !.k = st.closed, !.first = st.closed, !.end = end]
    BY <1>1, <1>2, <2>3 DEF ClockType, ClockAts
  <2>. QED BY <1>3, <2>1, <2>2, <2>3
<1>5. StType(st') /\ st'.T = st.T
  BY <1>1, <1>2, <1>3 DEF StType
<1>6. AccType(acc') /\ SeenType' /\ ItemType' /\ Totals(win') /\ Totals(clock'.closing)
  BY <1>1, <1>3, <1>4 DEF SeenType, ItemType
<1>7. UNCHANGED callVars /\ clock'.t <= now' /\ st'.T <= now' /\ now' >= now /\ now' \in 0..MaxTime
  BY <1>1, <1>3, <1>4, <1>5
<1>. QED BY <1>4, <1>5, <1>6, <1>7, TypesClock

(* The windows left in the shard, and those moved out of it.               *)
LEMMA Taken ==
    ASSUME Types, Held, clock.at = "take"
    PROVE  /\ Totals(Merged(clock.k, clock.end)) /\ DOMAIN Merged(clock.k, clock.end) = Below(clock.end)
           /\ Totals([j \in DOMAIN win \ Below(clock.end) |-> win[j]])
           /\ \A field \in Fields : \A j :
                At([i \in DOMAIN win \ Below(clock.end) |-> win[i]], field, j)
                + At(Merged(clock.k, clock.end), field, j) = At(win, field, j)
<1>1. /\ Totals(win) /\ clock.k \in Nat /\ clock.end \in Nat
      /\ \A j \in DOMAIN win : clock.k <= j
  BY BoundsHold DEF Types, ClockType, Held, Totals, Bounds
<1> DEFINE m == Merged(clock.k, clock.end)
           w == [j \in DOMAIN win \ Below(clock.end) |-> win[j]]
<1>2. /\ Totals(m) /\ DOMAIN m = Below(clock.end)
      /\ \A field \in Fields : \A j \in DOMAIN m : m[j][field] = win[j][field]
  BY <1>1, MergedTotals
<1>. HIDE DEF m
<1>3. DOMAIN w = DOMAIN win \ Below(clock.end) /\ \A j \in DOMAIN w : w[j] = win[j]
  OBVIOUS
<1>. HIDE DEF w
<1>4. Totals(w)
  BY <1>1, <1>3 DEF Totals
<1>5. ASSUME NEW field \in Fields, NEW j
      PROVE  At(w, field, j) + At(m, field, j) = At(win, field, j)
  <2>1. DOMAIN m \subseteq DOMAIN win /\ At(win, field, j) \in Int
    BY <1>1, <1>2, TotalsCount DEF Below
  <2>. QED BY <1>2, <1>3, <2>1 DEF At
<1>. QED BY <1>2, <1>4, <1>5 DEF m, w

LEMMA TypesTakes == Types /\ Held /\ Takes => Types'
<1> SUFFICES ASSUME Types, Held, Takes PROVE Types'
  OBVIOUS
<1>1. /\ now \in 0..MaxTime /\ ClockType(clock) /\ clock.t <= now
      /\ StType(st) /\ st.T <= now /\ AccType(acc)
      /\ SeenType /\ ItemType
  BY TypesNow
<1> DEFINE m == Merged(clock.k, clock.end)
           w == [j \in DOMAIN win \ Below(clock.end) |-> win[j]]
<1>2. /\ clock.at = "take"
      /\ clock' = [clock EXCEPT !.at = "window", !.closing = m]
      /\ win' = w
      /\ UNCHANGED <<now, st, acc, callVars, watched, backlogSeen, sure, clean, recorded, told, given>>
  BY DEF Takes, itemVars, seenVars
<1>3. Totals(m) /\ Totals(w)
  BY <1>2, Taken
<1>. HIDE DEF m, w
<1>4. ClockType(clock') /\ clock'.t = clock.t /\ clock'.closing = m
  BY <1>1, <1>2 DEF ClockType, ClockAts
<1>5. SeenType' /\ ItemType' /\ Totals(win') /\ Totals(clock'.closing)
  BY <1>1, <1>2, <1>3, <1>4 DEF SeenType, ItemType
<1>6. /\ UNCHANGED callVars /\ clock'.t <= now' /\ st'.T <= now' /\ now' >= now /\ now' \in 0..MaxTime
      /\ AccType(acc') /\ StType(st')
  BY <1>1, <1>2, <1>4
<1>. QED BY <1>4, <1>5, <1>6, TypesClock

(* The next window's total, as it is reported.                             *)
NextTotal ==
    IF NextWindow \in DOMAIN clock.closing THEN clock.closing[NextWindow]
    ELSE [items |-> 0, delta |-> 0]

Finished == clock.k >= clock.end \/ NextWindow >= clock.end

LEMMA ClosingOne ==
    ASSUME Types, ClosesOne
    PROVE  /\ clock.at = "window"
           /\ UNCHANGED <<now, st, win, acc, callVars, seenVars, recorded, given>>
           /\ NextTotal.items \in Nat /\ NextTotal.delta \in Int
           /\ \A field \in Fields : NextTotal[field] = At(clock.closing, field, NextWindow)
           /\ \/ /\ Finished /\ told' = told
                 /\ clock' = [clock EXCEPT !.at = "idle", !.closing = Empty]
              \/ /\ ~Finished
                 /\ told' = told + NextTotal.items
                 /\ \E at \in {"quiet", "snapshot"} :
                      clock' = [clock EXCEPT !.at = at, !.k = NextWindow, !.total = NextTotal,
                                             !.closing = Without(clock.closing, NextWindow)]
<1>1. Totals(clock.closing)
  BY DEF Types
<1>2. NextTotal.items \in Nat /\ NextTotal.delta \in Int
  BY <1>1 DEF NextTotal, Totals
<1>3. \A field \in Fields : NextTotal[field] = At(clock.closing, field, NextWindow)
  BY DEF NextTotal, At, Fields
<1>4. /\ clock.at = "window"
      /\ UNCHANGED <<now, st, win, acc, callVars, seenVars, recorded, given>>
  BY DEF ClosesOne
<1>5. CASE Finished
  <2>1. told' = told /\ clock' = Done(clock)
    BY <1>5 DEF ClosesOne, Finished
  <2>. QED BY <1>2, <1>3, <1>4, <1>5, <2>1 DEF Done
<1>6. CASE ~Finished
  <2>1. /\ told' = told + NextTotal.items
        /\ clock' \in
             {[clock EXCEPT !.at = at, !.k = NextWindow, !.total = NextTotal,
                            !.closing = Without(@, NextWindow)] :
                at \in {"quiet"} \union (IF NextTotal.items > 0 THEN {"snapshot"} ELSE {})}
    BY <1>6 DEF ClosesOne, Finished, NextTotal
  <2>2. \E at \in {"quiet", "snapshot"} :
          clock' = [clock EXCEPT !.at = at, !.k = NextWindow, !.total = NextTotal,
                                 !.closing = Without(clock.closing, NextWindow)]
    BY <2>1
  <2>. QED BY <1>2, <1>3, <1>4, <1>6, <2>1, <2>2
<1>. QED BY <1>5, <1>6

LEMMA TypesClosesOne == Types /\ ClosesOne => Types'
<1> SUFFICES ASSUME Types, ClosesOne PROVE Types'
  OBVIOUS
<1>1. /\ now \in 0..MaxTime /\ ClockType(clock) /\ clock.t <= now
      /\ StType(st) /\ st.T <= now /\ AccType(acc)
      /\ SeenType /\ ItemType /\ Totals(win) /\ Totals(clock.closing)
  BY TypesNow
<1>2. /\ NextWindow \in Nat /\ NextTotal.items \in Nat /\ NextTotal.delta \in Int
      /\ UNCHANGED <<now, st, win, acc, callVars, watched, backlogSeen, sure, clean, recorded, given>>
  BY ClosingOne, NextTypes DEF seenVars
<1>3. Totals(Without(clock.closing, NextWindow)) /\ Totals(Empty)
  BY <1>1, WithoutTotals, EmptyWindows
<1>4. /\ ClockType(clock') /\ clock'.t = clock.t
      /\ clock'.closing \in {Empty, Without(clock.closing, NextWindow)}
      /\ told' \in {told, told + NextTotal.items}
  <2> DEFINE w == Without(clock.closing, NextWindow)
             k == NextWindow
             total == NextTotal
  <2>1. CASE clock' = [clock EXCEPT !.at = "idle", !.closing = Empty] /\ told' = told
    BY <1>1, <2>1 DEF ClockType, ClockAts
  <2>2. ASSUME NEW at \in {"quiet", "snapshot"}, told' = told + total.items,
               clock' = [clock EXCEPT !.at = at, !.k = k, !.total = total, !.closing = w]
        PROVE  /\ ClockType(clock') /\ clock'.t = clock.t /\ clock'.closing = w
               /\ told' = told + total.items
    <3>. HIDE DEF w, k, total
    <3>1. k \in Nat /\ total.items \in Nat /\ total.delta \in Int
      BY <1>2 DEF k, total
    <3>. QED BY <1>1, <2>2, <3>1 DEF ClockType, ClockAts
  <2>. QED BY <2>1, <2>2, ClosingOne
<1>5. SeenType' /\ ItemType' /\ Totals(win') /\ Totals(clock'.closing)
  BY <1>1, <1>2, <1>3, <1>4 DEF SeenType, ItemType
<1>6. /\ UNCHANGED callVars /\ clock'.t <= now' /\ st'.T <= now' /\ now' >= now /\ now' \in 0..MaxTime
      /\ AccType(acc') /\ StType(st')
  BY <1>1, <1>2, <1>4
<1>. QED BY <1>4, <1>5, <1>6, TypesClock

LEMMA TypesGivesUp == Types /\ GivesUp => Types'
<1> SUFFICES ASSUME Types, GivesUp PROVE Types'
  OBVIOUS
<1>1. /\ now \in 0..MaxTime /\ ClockType(clock) /\ clock.t <= now
      /\ StType(st) /\ st.T <= now /\ AccType(acc)
      /\ SeenType /\ ItemType /\ Totals(win) /\ Totals(clock.closing)
  BY TypesNow
<1>2. /\ clock' = [clock EXCEPT !.at = "shed"]
      /\ UNCHANGED <<now, st, win, acc, callVars, watched, backlogSeen, sure, clean, recorded, told, given>>
  BY DEF GivesUp, seenVars, itemVars
<1>3. ClockType(clock') /\ clock'.t = clock.t /\ clock'.closing = clock.closing
  BY <1>1, <1>2 DEF ClockType, ClockAts
<1>4. SeenType' /\ ItemType' /\ Totals(win') /\ Totals(clock'.closing)
  BY <1>1, <1>2, <1>3 DEF SeenType, ItemType
<1>5. /\ UNCHANGED callVars /\ clock'.t <= now' /\ st'.T <= now' /\ now' >= now /\ now' \in 0..MaxTime
      /\ AccType(acc') /\ StType(st')
  BY <1>1, <1>2, <1>3
<1>. QED BY <1>3, <1>4, <1>5, TypesClock

(* A recovery snapshot tells the backlog of the moment.                    *)
LEMMA TypesSnapshot ==
    ASSUME Types, RecoverySnapshot, watched' = (watched \/ acc.backlog # 0),
           NEW at \in {"quiet", "idle"}, clock' = [clock EXCEPT !.at = at],
           UNCHANGED <<now, st, win, callVars, clean, itemVars>>
    PROVE  Types'
<1>1. /\ now \in 0..MaxTime /\ ClockType(clock) /\ clock.t <= now
      /\ StType(st) /\ st.T <= now /\ AccType(acc)
      /\ SeenType /\ ItemType /\ Totals(win) /\ Totals(clock.closing)
  BY TypesNow
<1>2. /\ acc' = [acc EXCEPT !.nonzero = acc.backlog # 0]
      /\ backlogSeen' = acc.backlog /\ sure' = FALSE
      /\ UNCHANGED <<now, st, win, callVars, clean, recorded, told, given>>
  BY DEF RecoverySnapshot, itemVars
<1>3. ClockType(clock') /\ clock'.t = clock.t /\ clock'.closing = clock.closing
  BY <1>1 DEF ClockType, ClockAts
<1>4. AccType(acc') /\ acc.backlog \in Nat
  <2>1. acc.backlog \in Nat /\ (acc.backlog # 0) \in BOOLEAN
    BY <1>1 DEF AccType
  <2>. QED BY <1>1, <1>2, <2>1 DEF AccType
<1>5. watched' \in BOOLEAN
  BY <1>1 DEF SeenType
<1>6. SeenType' /\ ItemType' /\ Totals(win') /\ Totals(clock'.closing)
  BY <1>1, <1>2, <1>3, <1>4, <1>5 DEF SeenType, ItemType
<1>7. /\ UNCHANGED callVars /\ clock'.t <= now' /\ st'.T <= now' /\ now' >= now /\ now' \in 0..MaxTime
      /\ StType(st')
  BY <1>1, <1>2, <1>3
<1>. QED BY <1>3, <1>4, <1>6, <1>7, TypesClock

LEMMA TypesSnapshotsInWindow == Types /\ SnapshotsInWindow => Types'
BY TypesSnapshot DEF SnapshotsInWindow

LEMMA TypesRecovers == Types /\ Recovers => Types'
BY TypesSnapshot DEF Recovers

LEMMA TypesTestsQuiet == Types /\ TestsQuiet => Types'
<1> SUFFICES ASSUME Types, TestsQuiet PROVE Types'
  OBVIOUS
<1>1. /\ now \in 0..MaxTime /\ ClockType(clock) /\ clock.t <= now
      /\ StType(st) /\ st.T <= now /\ AccType(acc)
      /\ SeenType /\ ItemType /\ Totals(win) /\ Totals(clock.closing)
  BY TypesNow
<1>2. /\ clock' \in {[clock EXCEPT !.at = "window", !.k = @ + 1], [clock EXCEPT !.at = "depth"]}
      /\ watched' \in {FALSE, watched}
      /\ UNCHANGED <<now, st, win, acc, callVars, backlogSeen, sure, clean, recorded, told, given>>
  BY DEF TestsQuiet, itemVars
<1>3. ClockType(clock') /\ clock'.t = clock.t /\ clock'.closing = clock.closing
  <2> DEFINE next == clock.k + 1
  <2>1. next \in Nat
    BY <1>1 DEF ClockType
  <2>2. clock' = [clock EXCEPT !.at = "window", !.k = next]
       \/ clock' = [clock EXCEPT !.at = "depth"]
    BY <1>1, <1>2 DEF ClockType
  <2>. HIDE DEF next
  <2>3. ASSUME clock' = [clock EXCEPT !.at = "window", !.k = next]
        PROVE  ClockType(clock') /\ clock'.t = clock.t /\ clock'.closing = clock.closing
    BY <1>1, <2>1, <2>3 DEF ClockType, ClockAts
  <2>4. ASSUME clock' = [clock EXCEPT !.at = "depth"]
        PROVE  ClockType(clock') /\ clock'.t = clock.t /\ clock'.closing = clock.closing
    BY <1>1, <2>4 DEF ClockType, ClockAts
  <2>. QED BY <2>2, <2>3, <2>4
<1>4. SeenType' /\ ItemType' /\ Totals(win') /\ Totals(clock'.closing)
  BY <1>1, <1>2, <1>3 DEF SeenType, ItemType
<1>5. /\ UNCHANGED callVars /\ clock'.t <= now' /\ st'.T <= now' /\ now' >= now /\ now' \in 0..MaxTime
      /\ AccType(acc') /\ StType(st')
  BY <1>1, <1>2, <1>3
<1>. QED BY <1>3, <1>4, <1>5, TypesClock

LEMMA TypesReadsDepth == Types /\ ReadsDepth => Types'
<1> SUFFICES ASSUME Types, ReadsDepth PROVE Types'
  OBVIOUS
<1>1. /\ now \in 0..MaxTime /\ ClockType(clock) /\ clock.t <= now
      /\ StType(st) /\ st.T <= now /\ AccType(acc)
      /\ SeenType /\ ItemType /\ Totals(win) /\ Totals(clock.closing)
  BY TypesNow
<1> DEFINE value == IF DepthNow = 0 /\ ~acc.nonzero THEN NoItem ELSE DepthNow
           watch == DepthNow # 0 \/ acc.backlog # 0
           nonzero == DepthNow # 0
<1>2. /\ acc' = [acc EXCEPT !.nonzero = nonzero]
      /\ clock' = [clock EXCEPT !.at = "emit", !.value = value, !.watch = watch]
      /\ UNCHANGED <<now, st, win, callVars, watched, backlogSeen, sure, clean, recorded, told, given>>
  BY DEF ReadsDepth, itemVars, seenVars
<1>3. value \in {NoItem} \union Nat /\ watch \in BOOLEAN /\ nonzero \in BOOLEAN
  BY ReadTypes
<1>. HIDE DEF value, watch, nonzero
<1>4. ClockType(clock') /\ clock'.t = clock.t /\ clock'.closing = clock.closing
  BY <1>1, <1>2, <1>3 DEF ClockType, ClockAts
<1>5. AccType(acc')
  BY <1>1, <1>2, <1>3 DEF AccType
<1>6. SeenType' /\ ItemType' /\ Totals(win') /\ Totals(clock'.closing)
  BY <1>1, <1>2, <1>4 DEF SeenType, ItemType
<1>7. /\ UNCHANGED callVars /\ clock'.t <= now' /\ st'.T <= now' /\ now' >= now /\ now' \in 0..MaxTime
      /\ StType(st')
  BY <1>1, <1>2, <1>4
<1>. QED BY <1>4, <1>5, <1>6, <1>7, TypesClock

LEMMA TypesEmitsDepth == Types /\ EmitsDepth => Types'
<1> SUFFICES ASSUME Types, EmitsDepth PROVE Types'
  OBVIOUS
<1>1. /\ now \in 0..MaxTime /\ ClockType(clock) /\ clock.t <= now
      /\ StType(st) /\ st.T <= now /\ AccType(acc)
      /\ SeenType /\ ItemType /\ Totals(win) /\ Totals(clock.closing)
  BY TypesNow
<1>2. /\ watched' = clock.watch
      /\ clock' = [clock EXCEPT !.at = "window", !.k = @ + 1]
      /\ UNCHANGED <<now, st, win, callVars, clean, recorded, told, given>>
  BY DEF EmitsDepth, itemVars
<1>3. ClockType(clock') /\ clock'.t = clock.t /\ clock'.closing = clock.closing
  <2> DEFINE next == clock.k + 1
  <2>1. next \in Nat
    BY <1>1 DEF ClockType
  <2>2. clock' = [clock EXCEPT !.at = "window", !.k = next]
    BY <1>1, <1>2 DEF ClockType
  <2>. HIDE DEF next
  <2>3. ASSUME clock' = [clock EXCEPT !.at = "window", !.k = next]
        PROVE  ClockType(clock') /\ clock'.t = clock.t /\ clock'.closing = clock.closing
    BY <1>1, <2>1, <2>3 DEF ClockType, ClockAts
  <2>. QED BY <2>2, <2>3
<1>4. AccType(acc') /\ sure' \in BOOLEAN /\ backlogSeen' \in Nat
  <2> DEFINE nonzero == acc.backlog # 0
  <2>1. /\ nonzero \in BOOLEAN /\ acc.backlog \in Nat /\ sure \in BOOLEAN /\ backlogSeen \in Nat
        /\ clock.value \in {NoItem} \union Nat
    BY <1>1 DEF AccType, SeenType, ClockType
  <2>2. \/ /\ backlogSeen' = IF clock.value = NoItem THEN backlogSeen ELSE clock.value
           /\ UNCHANGED <<acc, sure>>
        \/ acc' = [acc EXCEPT !.nonzero = nonzero] /\ backlogSeen' = acc.backlog /\ sure' = FALSE
    BY DEF EmitsDepth, RecoverySnapshot
  <2>. HIDE DEF nonzero
  <2>. QED BY <1>1, <2>1, <2>2 DEF AccType
<1>5. SeenType' /\ ItemType' /\ Totals(win') /\ Totals(clock'.closing)
  BY <1>1, <1>2, <1>3, <1>4 DEF SeenType, ItemType, ClockType
<1>6. /\ UNCHANGED callVars /\ clock'.t <= now' /\ st'.T <= now' /\ now' >= now /\ now' \in 0..MaxTime
      /\ StType(st')
  BY <1>1, <1>2, <1>3
<1>. QED BY <1>3, <1>4, <1>5, <1>6, TypesClock

LEMMA TypesSheds == Types /\ Sheds => Types'
<1> SUFFICES ASSUME Types, Sheds PROVE Types'
  OBVIOUS
<1>1. /\ now \in 0..MaxTime /\ ClockType(clock) /\ clock.t <= now
      /\ StType(st) /\ st.T <= now /\ AccType(acc) /\ st.T \in 0..MaxTime /\ MaxTime \in Nat
      /\ SeenType /\ ItemType
  BY TypesNow
<1> DEFINE closed == Max({WindowOf(now), st.closed})
<1>2. /\ given' = given + Sum(win, "items") + Sum(clock.closing, "items")
      /\ win' = Empty
      /\ st' = [st EXCEPT !.closed = closed, !.pending = 0, !.saturated = FALSE]
      /\ clock' = [clock EXCEPT !.at = "recover", !.closing = Empty]
      /\ UNCHANGED <<now, acc, callVars, watched, backlogSeen, sure, clean, recorded, told>>
  BY DEF Sheds, seenVars
<1>3. closed \in 0..MaxTime
  <2>1. WindowOf(now) \in 0..MaxTime /\ st.closed \in 0..MaxTime
    BY <1>1, WindowOfTime DEF StType
  <2>2. closed \in {WindowOf(now), st.closed}
    BY <1>1, <2>1, MaxTwo
  <2>. QED BY <2>1, <2>2
<1>. HIDE DEF closed
<1>4. ClockType(clock') /\ clock'.t = clock.t /\ clock'.closing = Empty
  BY <1>1, <1>2 DEF ClockType, ClockAts
<1>5. StType(st') /\ st'.T = st.T
  <2> DEFINE s == [st EXCEPT !.closed = closed]
             u == [s EXCEPT !.pending = 0]
  <2>1. StType(s) /\ s.T = st.T
    BY <1>1, <1>3 DEF StType
  <2>2. st' = [u EXCEPT !.saturated = FALSE]
    BY <1>2
  <2>. HIDE DEF s
  <2>3. StType(u) /\ u.T = s.T
    BY <2>1 DEF StType
  <2>. HIDE DEF u
  <2>. QED BY <2>1, <2>2, <2>3 DEF StType
<1>6. SeenType' /\ ItemType' /\ Totals(win') /\ Totals(clock'.closing)
  <2>1. Sum(win, "items") \in Int /\ Sum(clock.closing, "items") \in Int
    BY ReadTypes
  <2>2. ItemType'
    BY <1>1, <1>2, <2>1 DEF ItemType
  <2>. QED BY <1>1, <1>2, <1>4, <2>2, EmptyWindows DEF SeenType
<1>7. /\ UNCHANGED callVars /\ clock'.t <= now' /\ st'.T <= now' /\ now' >= now /\ now' \in 0..MaxTime
      /\ AccType(acc')
  BY <1>1, <1>2, <1>4, <1>5
<1>. QED BY <1>4, <1>5, <1>6, <1>7, TypesClock

LEMMA TypesStep == Types /\ Held /\ [Next]_vars => Types'
<1> SUFFICES ASSUME Types, Held, [Next]_vars PROVE Types'
  OBVIOUS
<1>1. CASE Tick
  BY <1>1, TypesTick
<1>2. CASE ClockThread
  BY <1>2, TypesStepStarts, TypesBeginsSession, TypesAnchors, TypesClears, TypesStartsAcc,
     TypesGoesLive, TypesClosesUntil, TypesTakes, TypesClosesOne, TypesGivesUp,
     TypesSnapshotsInWindow, TypesTestsQuiet, TypesReadsDepth, TypesEmitsDepth, TypesSheds,
     TypesRecovers DEF ClockThread
<1>3. CASE \E th \in Threads : Caller(th)
  BY <1>3, TypesStarts, TypesRead, TypesRecords DEF Caller
<1>4. CASE UNCHANGED vars
  <2>1. UNCHANGED callVars /\ UNCHANGED <<now, st, win, acc, clock, watched, backlogSeen, sure, clean,
                                         recorded, told, given>>
    BY <1>4 DEF vars, seenVars, itemVars
  <2>2. /\ now \in 0..MaxTime /\ ClockType(clock) /\ clock.t <= now
        /\ StType(st) /\ st.T <= now /\ AccType(acc)
        /\ SeenType /\ ItemType /\ Totals(win) /\ Totals(clock.closing)
    BY TypesNow
  <2>3. ClockType(clock') /\ SeenType' /\ ItemType'
    BY <2>1, <2>2 DEF SeenType, ItemType
  <2>4. clock' = clock /\ st' = st /\ acc' = acc /\ win' = win /\ now' = now
    BY <2>1
  <2>. QED BY <2>1, <2>2, <2>3, <2>4, TypesClock
<1>. QED BY <1>1, <1>2, <1>3, <1>4 DEF Next

-----------------------------------------------------------------------------
(* What the windows from one of them on amount to.                         *)

(* The windows from n on, and what the windows held from n on amount to.   *)
From(w, n) == [j \in {i \in DOMAIN w : i >= n} |-> w[j]]

HeldFrom(w, c, field, n) == Sum(From(w, n), field) + Sum(From(c, n), field)

LEMMA FromTotals ==
    ASSUME NEW w, Totals(w), NEW n \in Nat, NEW field \in Fields
    PROVE  /\ Totals(From(w, n)) /\ Counted(From(w, n), field)
           /\ \A j \in Nat : At(From(w, n), field, j) = IF j >= n THEN At(w, field, j) ELSE 0
           /\ DOMAIN From(w, n) \subseteq DOMAIN w
           /\ Sum(From(w, n), field) \in Int
<1> DEFINE v == From(w, n)
<1>1. DOMAIN v = {i \in DOMAIN w : i >= n} /\ \A j \in DOMAIN v : v[j] = w[j]
  BY DEF From
<1>. HIDE DEF v
<1>2. Totals(v)
  BY <1>1 DEF Totals
<1>3. Counted(v, field) /\ Sum(v, field) \in Int
  BY <1>2, TotalsCount, SumInt
<1>4. \A j \in Nat : At(v, field, j) = IF j >= n THEN At(w, field, j) ELSE 0
  BY <1>1 DEF At
<1>. QED BY <1>1, <1>2, <1>3, <1>4 DEF v

LEMMA FromEmpty == \A w, n, field : DOMAIN w = {} => Sum(From(w, n), field) = 0
<1> SUFFICES ASSUME NEW w, NEW n, NEW field, DOMAIN w = {} PROVE Sum(From(w, n), field) = 0
  OBVIOUS
<1>1. DOMAIN From(w, n) = {}
  BY DEF From
<1>. QED BY <1>1, NoWindow

LEMMA HeldAll ==
    ASSUME NEW w, NEW c, Totals(w), Totals(c), NEW field \in Fields
    PROVE  /\ HeldFrom(w, c, field, 0) = Sum(w, field) + Sum(c, field)
           /\ \A n \in Nat : HeldFrom(w, c, field, n) \in Int
<1>1. ASSUME NEW u, Totals(u) PROVE Sum(From(u, 0), field) = Sum(u, field)
  <2>1. Counted(u, field)
    BY <1>1, TotalsCount
  <2>2. 0 \in Nat /\ 0..MaxTime \subseteq Nat
    BY BoundsHold DEF Bounds
  <2>3. \A j \in 0..MaxTime : At(From(u, 0), field, j) = At(u, field, j)
    <3>1. \A j \in Nat : At(From(u, 0), field, j) = IF j >= 0 THEN At(u, field, j) ELSE 0
      BY <1>1, <2>2, FromTotals
    <3>. QED BY <2>2, <3>1
  <2>. QED BY <2>1, <2>3, SumSame
<1>2. Sum(From(w, 0), field) = Sum(w, field) /\ Sum(From(c, 0), field) = Sum(c, field)
  BY <1>1
<1>3. ASSUME NEW n \in Nat PROVE HeldFrom(w, c, field, n) \in Int
  <2>1. Sum(From(w, n), field) \in Int /\ Sum(From(c, n), field) \in Int
    BY FromTotals
  <2>. QED BY <2>1 DEF HeldFrom
<1>. QED BY <1>2, <1>3 DEF HeldFrom

(* Changing one window changes what is held from it on.                    *)
LEMMA FromChanged ==
    ASSUME NEW u, NEW w, Totals(u), Totals(w), NEW n \in Nat, NEW field \in Fields,
           NEW k \in 0..MaxTime, NEW x \in Int, At(w, field, k) = At(u, field, k) + x,
           \A j \in 0..MaxTime : j # k => At(w, field, j) = At(u, field, j)
    PROVE  Sum(From(w, n), field) = Sum(From(u, n), field) + (IF k >= n THEN x ELSE 0)
<1>1. /\ Counted(From(u, n), field) /\ 0..MaxTime \subseteq Nat /\ k \in Nat
      /\ \A j \in Nat : At(From(u, n), field, j) = IF j >= n THEN At(u, field, j) ELSE 0
      /\ \A j \in Nat : At(From(w, n), field, j) = IF j >= n THEN At(w, field, j) ELSE 0
      /\ At(u, field, k) \in Int
  BY FromTotals, TotalsCount, BoundsHold DEF Bounds
<1> DEFINE y == IF k >= n THEN x ELSE 0
<1>2. y \in Int /\ At(From(w, n), field, k) = At(From(u, n), field, k) + y
  BY <1>1
<1>3. \A j \in 0..MaxTime : j # k => At(From(w, n), field, j) = At(From(u, n), field, j)
  BY <1>1
<1>. HIDE DEF y
<1>4. Sum(From(w, n), field) = Sum(From(u, n), field) + y
  BY <1>1, <1>2, <1>3, SumChanged
<1>. QED BY <1>4 DEF y

(* What a count amounts to in a field of its total.                        *)
Counts(th, field) == IF field = "items" THEN ItemOf(th) ELSE Change(th)

LEMMA RecordedFrom ==
    ASSUME Types, NEW th \in Threads, NEW n \in Nat, NEW field \in Fields
    PROVE  HeldFrom(Added(th), clock.closing, field, n) =
             HeldFrom(win, clock.closing, field, n)
             + (IF Target(th) >= n THEN Counts(th, field) ELSE 0)
<1>1. Totals(win) /\ Totals(clock.closing) /\ Target(th) \in 0..MaxTime /\ Change(th) \in Int
  BY RecordTypes DEF Types
<1> DEFINE w == Added(th)
           k == Target(th)
           x == Counts(th, field)
<1>2. /\ Totals(w) /\ At(w, field, k) = At(win, field, k) + x
      /\ \A j \in 0..MaxTime : j # k => At(w, field, j) = At(win, field, j)
  BY <1>1, AddedTotals DEF Fields, Counts
<1>3. x \in Int /\ k \in 0..MaxTime
  BY <1>1 DEF Counts, ItemOf
<1>. HIDE DEF w, k, x
<1>4. Sum(From(w, n), field) = Sum(From(win, n), field) + (IF k >= n THEN x ELSE 0)
  BY <1>1, <1>2, <1>3, FromChanged
<1>5. /\ Sum(From(win, n), field) \in Int /\ Sum(From(clock.closing, n), field) \in Int
      /\ (IF k >= n THEN x ELSE 0) \in Int
  BY <1>1, <1>3, FromTotals
<1>6. HeldFrom(w, clock.closing, field, n) =
        HeldFrom(win, clock.closing, field, n) + (IF k >= n THEN x ELSE 0)
  BY <1>4, <1>5 DEF HeldFrom
<1>. QED BY <1>6 DEF w, k, x

LEMMA TakenFrom ==
    ASSUME Types, Held, Takes, NEW n \in Nat, NEW field \in Fields
    PROVE  HeldFrom(win', clock'.closing, field, n) = HeldFrom(win, clock.closing, field, n)
<1>1. clock.at = "take" /\ clock.closing = Empty /\ Totals(win) /\ ClockType(clock)
  BY DEF Takes, Held, InWindow, Types
<1> DEFINE m == Merged(clock.k, clock.end)
           w == [j \in DOMAIN win \ Below(clock.end) |-> win[j]]
<1>2. /\ clock' = [clock EXCEPT !.at = "window", !.closing = m]
      /\ win' = w
  BY DEF Takes
<1>3. Totals(m) /\ Totals(w) /\ \A j : At(w, field, j) + At(m, field, j) = At(win, field, j)
  BY <1>1, Taken
<1>. HIDE DEF m, w
<1>4. clock'.closing = m
  BY <1>1, <1>2 DEF ClockType
<1>5. /\ Counted(From(w, n), field) /\ Counted(From(m, n), field) /\ 0..MaxTime \subseteq Nat
      /\ \A j \in Nat : At(From(w, n), field, j) = IF j >= n THEN At(w, field, j) ELSE 0
      /\ \A j \in Nat : At(From(m, n), field, j) = IF j >= n THEN At(m, field, j) ELSE 0
      /\ \A j \in Nat : At(From(win, n), field, j) = IF j >= n THEN At(win, field, j) ELSE 0
  BY <1>1, <1>3, FromTotals, BoundsHold DEF Bounds
<1>6. \A j \in 0..MaxTime : At(From(win, n), field, j) = At(From(w, n), field, j) + At(From(m, n), field, j)
  BY <1>3, <1>5
<1>7. /\ Sum(From(win, n), field) = Sum(From(w, n), field) + Sum(From(m, n), field)
      /\ Sum(From(w, n), field) \in Int /\ Sum(From(m, n), field) \in Int
  BY <1>5, <1>6, SumAdds
<1>8. Sum(From(clock.closing, n), field) = 0
  BY <1>1, EmptyWindows, FromEmpty
<1>. QED BY <1>2, <1>4, <1>7, <1>8 DEF HeldFrom

(* When no window is left to visit, none is left.                          *)
LEMMA ClosedAll ==
    Types /\ Held /\ clock.at = "window" /\ Finished => DOMAIN clock.closing = {}
<1> SUFFICES ASSUME Types, Held, clock.at = "window", Finished, NEW j \in DOMAIN clock.closing
             PROVE  FALSE
  OBVIOUS
<1>1. clock.k <= j /\ j < clock.end /\ watched \in BOOLEAN
  BY DEF Held, Types, WindowsTypeOK
<1>2. j \in Nat /\ clock.k \in Nat /\ clock.end \in Nat
  BY BoundsHold DEF Types, Totals, ClockType, Bounds
<1>3. NextWindow \in Nat /\ NextWindow <= j
  BY <1>1, <1>2, NextTypes
<1>. QED BY <1>1, <1>2, <1>3 DEF Finished

LEMMA ClosingFrom ==
    ASSUME Types, Held, ClosesOne, NEW n \in Nat, NEW field \in Fields
    PROVE  IF Finished
           THEN HeldFrom(win', clock'.closing, field, n) = HeldFrom(win, clock.closing, field, n)
           ELSE HeldFrom(win', clock'.closing, field, n) =
                  HeldFrom(win, clock.closing, field, n)
                  - (IF NextWindow >= n THEN NextTotal[field] ELSE 0)
<1>1. /\ Totals(win) /\ Totals(clock.closing) /\ ClockType(clock) /\ win' = win
      /\ clock.at = "window"
  BY ClosingOne DEF Types
<1>2. CASE Finished
  <2>1. clock' = [clock EXCEPT !.at = "idle", !.closing = Empty]
    BY <1>2, ClosingOne
  <2>2. clock'.closing = Empty
    BY <1>1, <2>1 DEF ClockType
  <2>3. Sum(From(clock.closing, n), field) = 0 /\ Sum(From(clock'.closing, n), field) = 0
    BY <1>1, <1>2, <2>2, ClosedAll, EmptyWindows, FromEmpty
  <2>. QED BY <1>1, <1>2, <2>3 DEF HeldFrom
<1>3. CASE ~Finished
  <2> DEFINE w == Without(clock.closing, NextWindow)
             k == NextWindow
             total == NextTotal
             x == -At(clock.closing, field, k)
  <2>1. PICK at \in {"quiet", "snapshot"} :
          clock' = [clock EXCEPT !.at = at, !.k = k, !.total = total, !.closing = w]
    BY <1>3, ClosingOne
  <2>2. /\ k \in Nat /\ k < clock.end /\ clock.end \in 0..MaxTime
        /\ total[field] = At(clock.closing, field, k) /\ At(clock.closing, field, k) \in Int
    BY <1>1, <1>3, ClosingOne, NextTypes, TotalsCount DEF Finished, ClockType
  <2>3. /\ Totals(w)
        /\ \A j : At(w, field, j) = IF j = k THEN 0 ELSE At(clock.closing, field, j)
    <3>1. Totals(clock.closing)
      BY <1>1
    <3>. QED BY <3>1, WithoutTotals, ZenonT(30)
  <2>4. k \in 0..MaxTime /\ x \in Int /\ total[field] = -x
        /\ At(w, field, k) = At(clock.closing, field, k) + x
    BY <2>2, <2>3, BoundsHold DEF Bounds
  <2>. HIDE DEF w, k, total, x
  <2>5. clock'.closing = w
    BY <1>1, <2>1 DEF ClockType
  <2>6. Sum(From(w, n), field) = Sum(From(clock.closing, n), field) + (IF k >= n THEN x ELSE 0)
    BY <1>1, <2>3, <2>4, FromChanged
  <2>7. Sum(From(win, n), field) \in Int /\ Sum(From(clock.closing, n), field) \in Int
    BY <1>1, FromTotals
  <2>8. HeldFrom(win', clock'.closing, field, n) =
          HeldFrom(win, clock.closing, field, n) - (IF k >= n THEN total[field] ELSE 0)
    BY <1>1, <2>4, <2>5, <2>6, <2>7 DEF HeldFrom
  <2>. QED BY <1>3, <2>8 DEF k, total
<1>. QED BY <1>2, <1>3

-----------------------------------------------------------------------------
(* Every step keeps the windows where they belong.                         *)

LEMMA HeldInit == Init => Held
BY EmptyWindows DEF Init, Held, IdleClock, InWindow

LEMMA HeldUnchanged ==
    Held /\ UNCHANGED <<win, clock>> /\ st'.closed = st.closed => Held'
BY DEF Held

LEMMA HeldRecords == \A th \in Threads : Types /\ Held /\ Records(th) => Held'
<1> SUFFICES ASSUME NEW th \in Threads, Types, Held, Records(th) PROVE Held'
  OBVIOUS
<1>1. clock' = clock /\ Record(th) /\ StType(st) /\ Totals(win)
  BY TypesNow DEF Records
<1>2. st'.closed = st.closed
  BY <1>1 DEF Record, StType
<1>3. Target(th) \in 0..MaxTime /\ Change(th) \in Int /\ Target(th) >= st.closed
  <2>1. st.closed \in Nat /\ call[th].k \in Nat
    BY <1>1, BoundsHold DEF StType, Types, CallType, Bounds
  <2>. QED BY <2>1, RecordTypes
<1>4. DOMAIN win' \subseteq DOMAIN win \union {Target(th)}
  <2>1. DOMAIN Added(th) = DOMAIN win \union {Target(th)}
    BY <1>1, <1>3, AddedTotals
  <2>2. win' = win \/ win' = Added(th)
    BY <1>1 DEF Record
  <2>. QED BY <2>1, <2>2
<1>5. clock.at = "take" => clock.k <= Target(th)
  <2>1. clock.at = "take" => clock.end = st.closed /\ clock.k < clock.end
    BY DEF Held
  <2>2. clock.k \in Int /\ clock.end \in Int
    BY BoundsHold DEF Types, ClockType, Bounds
  <2>. QED BY <1>3, <2>1, <2>2
<1>6. ASSUME NEW j \in DOMAIN win' PROVE j >= IF clock.at = "take" THEN clock.k ELSE st.closed
  <2>1. CASE j \in DOMAIN win
    BY <2>1 DEF Held
  <2>2. CASE j = Target(th)
    BY <2>2, <1>3, <1>5
  <2>. QED BY <1>4, <2>1, <2>2
<1>. QED BY <1>1, <1>2, <1>6 DEF Held

(* Outside the closing of windows nothing is moved out.                    *)
Apart == {"idle", "begin", "anchor", "clear", "start", "live", "close", "recover"}

LEMMA HeldApart ==
    ASSUME Held, clock'.at \in Apart, clock'.closing = Empty,
           \A j \in DOMAIN win' : j >= st'.closed
    PROVE  Held'
BY DEF Held, Apart, InWindow

LEMMA HeldSession ==
    Types /\ Held
    /\ (StepStarts \/ BeginsSession \/ Anchors \/ Clears \/ StartsAcc \/ GoesLive)
    => Held' /\ clock.closing = Empty /\ clock'.closing = Empty
<1> SUFFICES ASSUME Types, Held,
                    StepStarts \/ BeginsSession \/ Anchors \/ Clears \/ StartsAcc \/ GoesLive
             PROVE  Held' /\ clock.closing = Empty /\ clock'.closing = Empty
  OBVIOUS
<1>1. ClockType(clock) /\ StType(st)
  BY TypesNow
<1>2. clock.at \in {"idle", "begin", "anchor", "clear", "start", "live"}
  BY DEF StepStarts, BeginsSession, Anchors, Clears, StartsAcc, GoesLive
<1>3. clock.closing = Empty /\ \A j \in DOMAIN win : j >= st.closed
  BY <1>2 DEF Held, InWindow
<1>4. clock'.at \in Apart /\ clock'.closing = Empty
  <2>1. CASE StepStarts
    <3>1. clock' \in {[clock EXCEPT !.at = "close", !.t = now'],
                      [clock EXCEPT !.at = "begin", !.t = now', !.open = FALSE],
                      [clock EXCEPT !.open = FALSE], [clock EXCEPT !.at = "begin", !.t = now']}
          /\ clock.at = "idle"
      BY <2>1 DEF StepStarts
    <3>. QED BY <1>1, <1>3, <3>1 DEF ClockType, Apart
  <2>2. CASE GoesLive
    BY <2>2 DEF GoesLive, IdleClock, Apart
  <2>3. CASE BeginsSession \/ Anchors \/ Clears \/ StartsAcc
    <3>1. \E at \in {"anchor", "clear", "start", "live"} : clock' = [clock EXCEPT !.at = at]
      BY <2>3 DEF BeginsSession, Anchors, Clears, StartsAcc
    <3>. QED BY <1>1, <1>3, <3>1 DEF ClockType, Apart
  <2>. QED BY <2>1, <2>2, <2>3
<1>5. win' = Empty \/ (win' = win /\ st'.closed = st.closed)
  BY <1>1 DEF StepStarts, BeginsSession, Anchors, Clears, StartsAcc, GoesLive, StType
<1>6. \A j \in DOMAIN win' : j >= st'.closed
  BY <1>3, <1>5, EmptyWindows
<1>. QED BY <1>3, <1>4, <1>6, HeldApart

LEMMA HeldClosesUntil == Types /\ Held /\ ClosesUntil => Held'
<1> SUFFICES ASSUME Types, Held, ClosesUntil PROVE Held'
  OBVIOUS
<1>1. ClockType(clock) /\ StType(st) /\ clock.at = "close" /\ win' = win
  BY TypesNow DEF ClosesUntil
<1>2. clock.closing = Empty /\ \A j \in DOMAIN win : j >= st.closed
  BY <1>1 DEF Held, InWindow
<1> DEFINE end == WindowOf(clock.t)
<1>3. CASE clock' = [clock EXCEPT !.at = "idle"] /\ st' = st
  <2>1. clock'.at = "idle" /\ clock'.closing = Empty
    BY <1>1, <1>2, <1>3 DEF ClockType
  <2>. QED BY <1>1, <1>2, <1>3, <2>1, HeldApart DEF Apart
<1>4. CASE clock' = [clock EXCEPT !.at = "shed"] /\ st' = st
  <2>1. clock'.at = "shed"
    BY <1>1, <1>4 DEF ClockType
  <2>. QED BY <1>1, <1>2, <1>4, <2>1 DEF Held, InWindow
<1>5. CASE /\ clock' = [clock EXCEPT !.at = "take", !.k = st.closed, !.first = st.closed, !.end = end]
           /\ st' = [st EXCEPT !.closed = end, !.pending = Pending] /\ end > st.closed
  <2>. HIDE DEF end
  <2>1. clock'.at = "take" /\ clock'.k = st.closed /\ clock'.end = end /\ clock'.closing = Empty
    BY <1>1, <1>2, <1>5 DEF ClockType
  <2>2. st'.closed = end
    BY <1>1, <1>5 DEF StType
  <2>. QED BY <1>1, <1>2, <1>5, <2>1, <2>2 DEF Held, InWindow
<1>. QED BY <1>3, <1>4, <1>5 DEF ClosesUntil

LEMMA HeldTakes == Types /\ Held /\ Takes => Held'
<1> SUFFICES ASSUME Types, Held, Takes PROVE Held'
  OBVIOUS
<1> DEFINE m == Merged(clock.k, clock.end)
           w == [j \in DOMAIN win \ Below(clock.end) |-> win[j]]
<1>1. /\ clock.at = "take" /\ ClockType(clock) /\ st' = st
      /\ clock' = [clock EXCEPT !.at = "window", !.closing = m]
      /\ win' = w
  BY TypesNow DEF Takes
<1>2. DOMAIN m = Below(clock.end) /\ DOMAIN w = DOMAIN win \ Below(clock.end)
  BY <1>1, Taken
<1>. HIDE DEF m, w
<1>3. clock'.at = "window" /\ clock'.k = clock.k /\ clock'.end = clock.end /\ clock'.closing = m
  BY <1>1 DEF ClockType
<1>4. /\ clock.end = st.closed /\ \A j \in DOMAIN win : j >= clock.k
      /\ st.closed \in Int /\ DOMAIN win \subseteq Int
  BY <1>1, BoundsHold DEF Held, Types, WindowsTypeOK, Totals, Bounds
<1>5. \A j \in DOMAIN win' : j >= st'.closed
  BY <1>1, <1>2, <1>4 DEF Below
<1>6. \A j \in DOMAIN m : clock.k <= j /\ j < clock.end
  BY <1>2, <1>4 DEF Below
<1>. QED BY <1>1, <1>3, <1>4, <1>5, <1>6 DEF Held, InWindow

LEMMA HeldClosesOne == Types /\ Held /\ ClosesOne => Held'
<1> SUFFICES ASSUME Types, Held, ClosesOne PROVE Held'
  OBVIOUS
<1>1. /\ clock.at = "window" /\ ClockType(clock) /\ st' = st /\ win' = win
      /\ \A j \in DOMAIN win : j >= st.closed
      /\ clock.end <= st.closed
  BY TypesNow, ClosingOne DEF Held, InWindow
<1> DEFINE w == Without(clock.closing, NextWindow)
           k == NextWindow
           total == NextTotal
<1>2. CASE clock' = [clock EXCEPT !.at = "idle", !.closing = Empty]
  <2>1. clock'.at = "idle" /\ clock'.closing = Empty
    BY <1>1, <1>2 DEF ClockType
  <2>. QED BY <1>1, <2>1, HeldApart DEF Apart
<1>3. ASSUME NEW at \in {"quiet", "snapshot"},
             clock' = [clock EXCEPT !.at = at, !.k = k, !.total = total, !.closing = w]
      PROVE  Held'
  <2>1. DOMAIN w = DOMAIN clock.closing \ {k}
    BY WithoutTotals DEF Types
  <2>2. \A j \in DOMAIN clock.closing : k <= j /\ j < clock.end
    <3>1. \A j \in DOMAIN clock.closing : clock.k <= j /\ j < clock.end /\ j \in Nat
      BY <1>1, BoundsHold DEF Held, Types, Totals, Bounds
    <3>2. clock.k \in Nat /\ watched \in BOOLEAN
      BY DEF Types, ClockType, WindowsTypeOK
    <3>. QED BY <3>1, <3>2, NextTypes
  <2>3. k \in Nat /\ \A j \in DOMAIN clock.closing : j \in Nat
    BY NextTypes, BoundsHold DEF Types, Totals, Bounds
  <2>. HIDE DEF w, k, total
  <2>4. clock'.at = at /\ clock'.k = k /\ clock'.end = clock.end /\ clock'.closing = w
    BY <1>1, <1>3 DEF ClockType
  <2>5. \A j \in DOMAIN w : k < j /\ j < clock.end
    BY <2>1, <2>2, <2>3
  <2>. QED BY <1>1, <2>4, <2>5 DEF Held, InWindow
<1>. QED BY <1>2, <1>3, ClosingOne

LEMMA HeldGivesUp == Types /\ Held /\ GivesUp => Held'
<1> SUFFICES ASSUME Types, Held, GivesUp PROVE Held'
  OBVIOUS
<1>1. /\ clock.at = "window" /\ clock' = [clock EXCEPT !.at = "shed"] /\ ClockType(clock)
      /\ st' = st /\ win' = win
  BY TypesNow DEF GivesUp
<1>2. clock'.at = "shed"
  BY <1>1 DEF ClockType
<1>. QED BY <1>1, <1>2 DEF Held, InWindow

LEMMA HeldInWindow ==
    Types /\ Held /\ (SnapshotsInWindow \/ TestsQuiet \/ ReadsDepth \/ EmitsDepth)
    => Held' /\ win' = win /\ clock'.closing = clock.closing /\ st' = st
<1> SUFFICES ASSUME Types, Held, SnapshotsInWindow \/ TestsQuiet \/ ReadsDepth \/ EmitsDepth
             PROVE  Held' /\ win' = win /\ clock'.closing = clock.closing /\ st' = st
  OBVIOUS
<1>1. /\ clock.at \in InWindow /\ ClockType(clock) /\ st' = st /\ win' = win
      /\ DOMAIN clock.closing \subseteq Nat /\ clock.k \in Nat
  <2>1. ClockType(clock) /\ Totals(clock.closing)
    BY TypesNow
  <2>2. clock.k \in Nat /\ DOMAIN clock.closing \subseteq Nat
    BY <2>1, BoundsHold DEF ClockType, Totals, Bounds
  <2>. QED BY <2>1, <2>2 DEF SnapshotsInWindow, TestsQuiet, ReadsDepth, EmitsDepth, InWindow
<1>2. \/ /\ clock'.at \in InWindow /\ clock'.k = clock.k
      \/ /\ clock'.at = "window" /\ clock'.k = clock.k + 1
  <2>1. CASE SnapshotsInWindow
    BY <1>1, <2>1 DEF SnapshotsInWindow, ClockType, InWindow
  <2>2. CASE TestsQuiet
    BY <1>1, <2>2 DEF TestsQuiet, ClockType, InWindow
  <2>3. CASE ReadsDepth
    BY <1>1, <2>3 DEF ReadsDepth, ClockType, InWindow
  <2>4. CASE EmitsDepth
    BY <1>1, <2>4 DEF EmitsDepth, ClockType, InWindow
  <2>. QED BY <2>1, <2>2, <2>3, <2>4
<1>3. clock'.end = clock.end /\ clock'.closing = clock.closing
  <2>1. CASE SnapshotsInWindow
    BY <1>1, <2>1 DEF SnapshotsInWindow, ClockType
  <2>2. CASE TestsQuiet
    BY <1>1, <2>2 DEF TestsQuiet, ClockType
  <2>3. CASE ReadsDepth
    BY <1>1, <2>3 DEF ReadsDepth, ClockType
  <2>4. CASE EmitsDepth
    BY <1>1, <2>4 DEF EmitsDepth, ClockType
  <2>. QED BY <2>1, <2>2, <2>3, <2>4
<1>4. /\ clock.end <= st.closed /\ \A j \in DOMAIN win : j >= st.closed
      /\ \A j \in DOMAIN clock.closing : clock.k < j /\ j < clock.end
  BY <1>1 DEF Held, InWindow
<1>5. CASE clock'.at \in InWindow /\ clock'.k = clock.k
  BY <1>1, <1>3, <1>4, <1>5 DEF Held, InWindow
<1>6. CASE clock'.at = "window" /\ clock'.k = clock.k + 1
  <2>1. \A j \in DOMAIN clock.closing : clock'.k <= j
    BY <1>1, <1>4, <1>6
  <2>. QED BY <1>1, <1>3, <1>4, <1>6, <2>1 DEF Held, InWindow
<1>. QED BY <1>1, <1>2, <1>3, <1>5, <1>6

LEMMA HeldRecovery ==
    Types /\ Held /\ (Sheds \/ Recovers)
    => /\ Held' /\ clock'.closing = Empty
       /\ Recovers => clock.closing = Empty /\ win' = win
<1> SUFFICES ASSUME Types, Held, Sheds \/ Recovers
             PROVE  /\ Held' /\ clock'.closing = Empty
                    /\ Recovers => clock.closing = Empty /\ win' = win
  OBVIOUS
<1>1. ClockType(clock)
  BY TypesNow
<1>2. CASE Sheds
  <2>1. clock' = [clock EXCEPT !.at = "recover", !.closing = Empty] /\ win' = Empty /\ clock.at = "shed"
    BY <1>2 DEF Sheds
  <2>2. clock'.at = "recover" /\ clock'.closing = Empty
    BY <1>1, <2>1 DEF ClockType
  <2>3. \A j \in DOMAIN win' : j >= st'.closed
    BY <2>1, EmptyWindows
  <2>. QED BY <2>1, <2>2, <2>3, HeldApart DEF Apart, Recovers
<1>3. CASE Recovers
  <2>1. clock' = [clock EXCEPT !.at = "idle"] /\ win' = win /\ st' = st /\ clock.at = "recover"
    BY <1>3 DEF Recovers
  <2>2. clock.closing = Empty /\ \A j \in DOMAIN win : j >= st.closed
    BY <2>1 DEF Held, InWindow
  <2>3. clock'.at = "idle" /\ clock'.closing = Empty
    BY <1>1, <2>1, <2>2 DEF ClockType
  <2>. QED BY <2>1, <2>2, <2>3, HeldApart DEF Apart
<1>. QED BY <1>2, <1>3

LEMMA HeldStep == Types /\ Held /\ [Next]_vars => Held'
<1> SUFFICES ASSUME Types, Held, [Next]_vars PROVE Held'
  OBVIOUS
<1>1. CASE Tick
  BY <1>1, HeldUnchanged DEF Tick
<1>2. CASE ClockThread
  BY <1>2, HeldSession, HeldClosesUntil, HeldTakes, HeldClosesOne, HeldGivesUp, HeldInWindow,
     HeldRecovery DEF ClockThread
<1>3. CASE \E th \in Threads : Caller(th)
  <2>1. PICK th \in Threads : Caller(th)
    BY <1>3
  <2>2. CASE Records(th)
    BY <2>2, HeldRecords
  <2>3. CASE ~Records(th)
    <3>1. UNCHANGED <<win, clock, st>>
      BY <2>1, <2>3 DEF Caller, Starts, ReadsClock, Judges, ReadsSession, ReadsT, Reads
    <3>. QED BY <3>1, HeldUnchanged
  <2>. QED BY <2>2, <2>3
<1>4. CASE UNCHANGED vars
  BY <1>4, HeldUnchanged DEF vars
<1>. QED BY <1>1, <1>2, <1>3, <1>4 DEF Next

LEMMA PlacesHold == Spec => [](Types /\ Held)
<1>1. Init => Types /\ Held
  BY TypesInit, HeldInit
<1>2. (Types /\ Held) /\ [Next]_vars => (Types /\ Held)'
  BY TypesStep, HeldStep
<1>. QED BY <1>1, <1>2, PTL DEF Spec

(* Every variable of the windows keeps its type, and neither backlog is    *)
(* ever negative.                                                          *)
THEOREM WindowsTypes == Spec => []WindowsTypeOK
<1>1. Types => WindowsTypeOK
  BY DEF Types
<1>. QED BY <1>1, PlacesHold, PTL

-----------------------------------------------------------------------------
(* Every item recorded is in one place.                                    *)

HeldItems == HeldFrom(win, clock.closing, "items", 0)

ConservedItems == recorded = told + given + HeldItems

LEMMA ItemsHeld ==
    Types => /\ HeldItems = Sum(win, "items") + Sum(clock.closing, "items")
             /\ HeldItems \in Int /\ (ConservedItems <=> ItemsConserved)
<1> SUFFICES ASSUME Types
             PROVE  /\ HeldItems = Sum(win, "items") + Sum(clock.closing, "items")
                    /\ HeldItems \in Int /\ (ConservedItems <=> ItemsConserved)
  OBVIOUS
<1>1. /\ Totals(win) /\ Totals(clock.closing) /\ "items" \in Fields /\ 0 \in Nat
      /\ told \in Int /\ given \in Int
  BY DEF Types, Fields
<1>2. HeldItems = Sum(win, "items") + Sum(clock.closing, "items") /\ HeldItems \in Int
  BY <1>1, HeldAll DEF HeldItems
<1>3. Sum(win, "items") \in Int /\ Sum(clock.closing, "items") \in Int
  BY ReadTypes
<1>4. ConservedItems <=> ItemsConserved
  BY <1>1, <1>2, <1>3 DEF ConservedItems, ItemsConserved
<1>. QED BY <1>2, <1>4

LEMMA ConservedSame ==
    ConservedItems /\ UNCHANGED <<recorded, told, given, win>> /\ clock'.closing = clock.closing
    => ConservedItems'
BY DEF ConservedItems, HeldItems

LEMMA ConservedRecords == \A th \in Threads : Types /\ ConservedItems /\ Records(th) => ConservedItems'
<1> SUFFICES ASSUME NEW th \in Threads, Types, ConservedItems, Records(th) PROVE ConservedItems'
  OBVIOUS
<1>1. Record(th) /\ UNCHANGED <<clock, told, given>>
  BY DEF Records
<1>2. CASE UNCHANGED <<win, recorded>>
  BY <1>1, <1>2, ConservedSame
<1>3. CASE win' = Added(th) /\ recorded' = recorded + ItemOf(th)
  <2>1. Target(th) \in Nat /\ "items" \in Fields /\ 0 \in Nat
    BY RecordTypes, BoundsHold DEF Fields, Bounds
  <2>2. HeldFrom(Added(th), clock.closing, "items", 0) =
          HeldItems + (IF Target(th) >= 0 THEN Counts(th, "items") ELSE 0)
    BY <2>1, RecordedFrom DEF HeldItems
  <2>3. HeldItems' = HeldItems + ItemOf(th)
    BY <1>1, <1>3, <2>1, <2>2 DEF Counts, HeldItems
  <2>4. HeldItems \in Int /\ told \in Int /\ given \in Int /\ ItemOf(th) \in Int
    BY ItemsHeld DEF Types, ItemOf
  <2>. QED BY <1>1, <1>3, <2>3, <2>4 DEF ConservedItems
<1>4. UNCHANGED <<win, recorded>> \/ (win' = Added(th) /\ recorded' = recorded + ItemOf(th))
  BY <1>1 DEF Record, ItemOf
<1>. QED BY <1>2, <1>3, <1>4

LEMMA ConservedTakes == Types /\ Held /\ ConservedItems /\ Takes => ConservedItems'
<1> SUFFICES ASSUME Types, Held, ConservedItems, Takes PROVE ConservedItems'
  OBVIOUS
<1>1. "items" \in Fields /\ 0 \in Nat /\ UNCHANGED <<recorded, told, given>>
  BY DEF Fields, Takes, itemVars
<1>2. HeldItems' = HeldItems
  BY <1>1, TakenFrom DEF HeldItems
<1>. QED BY <1>1, <1>2 DEF ConservedItems

LEMMA ConservedClosesOne == Types /\ Held /\ ConservedItems /\ ClosesOne => ConservedItems'
<1> SUFFICES ASSUME Types, Held, ConservedItems, ClosesOne PROVE ConservedItems'
  OBVIOUS
<1>1. "items" \in Fields /\ 0 \in Nat /\ UNCHANGED <<recorded, given>>
  BY ClosingOne DEF Fields
<1>2. CASE Finished
  <2>1. HeldItems' = HeldItems
    BY <1>1, <1>2, ClosingFrom DEF HeldItems
  <2>2. told' = told
    BY <1>2, ClosingOne
  <2>. QED BY <1>1, <2>1, <2>2 DEF ConservedItems
<1>3. CASE ~Finished
  <2>1. HeldFrom(win', clock'.closing, "items", 0) =
          HeldItems - (IF NextWindow >= 0 THEN NextTotal["items"] ELSE 0)
    BY <1>1, <1>3, ClosingFrom DEF HeldItems
  <2>2. NextWindow \in Nat /\ NextTotal.items \in Nat /\ told' = told + NextTotal.items
    BY <1>3, NextTypes, ClosingOne
  <2>3. HeldItems' = HeldItems - NextTotal.items
    BY <2>1, <2>2 DEF HeldItems
  <2>4. HeldItems \in Int /\ told \in Int /\ given \in Int
    BY ItemsHeld DEF Types
  <2>. QED BY <1>1, <2>2, <2>3, <2>4 DEF ConservedItems
<1>. QED BY <1>2, <1>3

(* What is dropped is given up.                                            *)
LEMMA ConservedDropped ==
    Types /\ Held /\ ConservedItems /\ (Clears \/ Sheds) => ConservedItems'
<1> SUFFICES ASSUME Types, Held, ConservedItems, Clears \/ Sheds PROVE ConservedItems'
  OBVIOUS
<1>1. /\ win' = Empty /\ clock'.closing = Empty /\ UNCHANGED <<recorded, told>>
      /\ given' = given + HeldItems
  <2>1. /\ Sum(win, "items") \in Int /\ Sum(clock.closing, "items") \in Int /\ given \in Int
        /\ HeldItems = Sum(win, "items") + Sum(clock.closing, "items")
    BY ReadTypes, ItemsHeld DEF Types
  <2>2. CASE Clears
    <3>1. clock.closing = Empty /\ clock'.closing = Empty
      BY <2>2, HeldSession
    <3>2. Sum(clock.closing, "items") = 0
      BY <3>1, EmptyWindows, NoWindow
    <3>. QED BY <2>1, <2>2, <3>1, <3>2 DEF Clears
  <2>3. CASE Sheds
    <3>1. clock'.closing = Empty
      BY <2>3, HeldRecovery
    <3>. QED BY <2>1, <2>3, <3>1 DEF Sheds
  <2>. QED BY <2>2, <2>3
<1>2. HeldItems' = 0
  BY <1>1, EmptyWindows, FromEmpty DEF HeldItems, HeldFrom
<1>3. HeldItems \in Int /\ told \in Int /\ given \in Int
  BY ItemsHeld DEF Types
<1>. QED BY <1>1, <1>2, <1>3 DEF ConservedItems

LEMMA ConservedStep == Types /\ Held /\ ConservedItems /\ [Next]_vars => ConservedItems'
<1> SUFFICES ASSUME Types, Held, ConservedItems, [Next]_vars PROVE ConservedItems'
  OBVIOUS
<1>1. CASE Tick
  BY <1>1, ConservedSame DEF Tick, itemVars
<1>2. CASE StepStarts \/ BeginsSession \/ Anchors \/ StartsAcc \/ GoesLive
  <2>1. clock.closing = Empty /\ clock'.closing = Empty
    BY <1>2, HeldSession
  <2>2. UNCHANGED <<recorded, told, given, win>>
    BY <1>2 DEF StepStarts, BeginsSession, Anchors, StartsAcc, GoesLive, itemVars
  <2>. QED BY <2>1, <2>2, ConservedSame
<1>3. CASE Clears \/ Sheds
  BY <1>3, ConservedDropped
<1>4. CASE ClosesUntil \/ GivesUp
  <2>1. ClockType(clock) /\ UNCHANGED <<recorded, told, given, win>>
    BY <1>4, TypesNow DEF ClosesUntil, GivesUp, itemVars
  <2>2. clock'.closing = clock.closing
    BY <1>4, <2>1 DEF ClosesUntil, GivesUp, ClockType
  <2>. QED BY <2>1, <2>2, ConservedSame
<1>5. CASE SnapshotsInWindow \/ TestsQuiet \/ ReadsDepth \/ EmitsDepth
  <2>1. win' = win /\ clock'.closing = clock.closing
    BY <1>5, HeldInWindow
  <2>2. UNCHANGED <<recorded, told, given>>
    BY <1>5 DEF SnapshotsInWindow, TestsQuiet, ReadsDepth, EmitsDepth, itemVars
  <2>. QED BY <2>1, <2>2, ConservedSame
<1>6. CASE Recovers
  <2>1. win' = win /\ clock'.closing = clock.closing
    BY <1>6, HeldRecovery
  <2>. QED BY <1>6, <2>1, ConservedSame DEF Recovers, itemVars
<1>7. CASE Takes
  BY <1>7, ConservedTakes
<1>8. CASE ClosesOne
  BY <1>8, ConservedClosesOne
<1>9. CASE \E th \in Threads : Caller(th)
  <2>1. PICK th \in Threads : Caller(th)
    BY <1>9
  <2>2. CASE Records(th)
    BY <2>2, ConservedRecords
  <2>3. CASE ~Records(th)
    <3>1. UNCHANGED <<win, clock, recorded, told, given>>
      BY <2>1, <2>3 DEF Caller, Starts, ReadsClock, Judges, ReadsSession, ReadsT, Reads, itemVars
    <3>. QED BY <3>1, ConservedSame
  <2>. QED BY <2>2, <2>3
<1>10. CASE UNCHANGED vars
  BY <1>10, ConservedSame DEF vars, itemVars
<1>. QED BY <1>1, <1>2, <1>3, <1>4, <1>5, <1>6, <1>7, <1>8, <1>9, <1>10 DEF Next, ClockThread

(* No item recorded is ever reported twice or forgotten: it is reported in *)
(* one window, held for one, or given up by a Loss or a new session.       *)
THEOREM EveryItemOnce == Spec => []ItemsConserved
<1>1. Init => ConservedItems
  <2>1. SUFFICES ASSUME Init PROVE ConservedItems
    OBVIOUS
  <2>2. win = Empty /\ clock.closing = Empty /\ recorded = 0 /\ told = 0 /\ given = 0
    BY <2>1 DEF Init, IdleClock
  <2>3. HeldItems = 0
    BY <2>2, EmptyWindows, FromEmpty DEF HeldItems, HeldFrom
  <2>. QED BY <2>2, <2>3 DEF ConservedItems
<1>2. (Types /\ Held) /\ ConservedItems /\ [Next]_vars => ConservedItems'
  BY ConservedStep
<1>3. Types /\ ConservedItems => ItemsConserved
  BY ItemsHeld
<1>. QED BY <1>1, <1>2, <1>3, PlacesHold, PTL DEF Spec

-----------------------------------------------------------------------------
(* A session: how it begins, and what its calls have read.                 *)

(* The threads whose item entered in this session.                         *)
Inside == {th \in Threads : token[th] >= st.T}

StartingAts == {"begin", "anchor", "clear", "start", "live"}

Starting == clock.at \in StartingAts

(* What a session is made of, and in which order it begins.                *)
Begins ==
    /\ st.live <=> clock.open
    /\ Starting => ~clock.open
    /\ clock.open \/ clock.at = "live" => acc.session = st.session
    /\ clock.at \in {"clear", "start", "live"} => st.T = clock.t

(* No call of an earlier session is under way while a clean one begins.    *)
CleanStart ==
    clean /\ ~clock.open =>
        /\ \A th \in Threads : call[th].at = "idle"
        /\ Starting => \A th \in Threads : token[th] < clock.t
        /\ clock.at \in {"start", "live"} => win = Empty /\ st.closed = 0 /\ ~st.saturated
        /\ clock.at = "live" => acc.backlog = 0 /\ ~acc.nonzero

(* What a call of this session has read of the time base.                  *)
ReadRight(th) ==
    /\ call[th].at \in {"judge", "session", "window", "record"} =>
         call[th].t >= st.T /\ call[th].t >= token[th]
    /\ call[th].at \in {"session", "window", "record"} /\ ~Enters(th) =>
         (call[th].counts <=> token[th] >= st.T)
    /\ call[th].at \in {"window", "record"} => call[th].s = st.session
    /\ call[th].at = "record" => call[th].k = call[th].t - st.T

CleanSession ==
    clean /\ clock.open =>
        /\ \A th \in Threads : ReadRight(th)
        /\ acc.backlog = Cardinality(Inside)

Sessions == Begins /\ CleanStart /\ CleanSession

(* What the observer was told when the link was last reported empty.       *)
Told ==
    clock.open =>
        IF clock.at # "emit" THEN ~acc.nonzero => backlogSeen = 0
        ELSE /\ clock.value = NoItem => backlogSeen = 0 /\ ~acc.nonzero
             /\ clock.value # NoItem => (acc.nonzero <=> clock.value # 0)

LEMMA InsideFinite == IsFiniteSet(Inside) /\ Cardinality(Inside) \in Nat
<1>1. IsFiniteSet(Inside)
  BY WindowsAssumption, FS_Subset DEF Inside
<1>. QED BY <1>1, FS_CardinalityType

LEMMA SessionsInit == Init => Sessions /\ Told
<1> SUFFICES ASSUME Init PROVE Sessions /\ Told
  OBVIOUS
<1>1. /\ clock.at = "idle" /\ clock.open = FALSE /\ st.live = FALSE
      /\ \A th \in Threads : call[th].at = "idle"
  BY DEF Init, IdleClock, IdleCall
<1>. QED BY <1>1 DEF Sessions, Begins, CleanStart, CleanSession, Starting, StartingAts, Told

(* The steps that report begin no session and change no call.              *)
Reporting ==
    \/ ClosesUntil \/ Takes \/ ClosesOne \/ GivesUp \/ SnapshotsInWindow
    \/ TestsQuiet \/ ReadsDepth \/ EmitsDepth \/ Sheds \/ Recovers

LEMMA ReportingSteps ==
    Types /\ Reporting =>
        /\ ~Starting /\ ~Starting' /\ clock'.open = clock.open
        /\ st'.live = st.live /\ st'.session = st.session /\ st'.T = st.T
        /\ acc'.session = acc.session /\ acc'.backlog = acc.backlog
        /\ UNCHANGED <<call, token, clean>>
<1> SUFFICES ASSUME Types, Reporting
             PROVE  /\ ~Starting /\ ~Starting' /\ clock'.open = clock.open
                    /\ st'.live = st.live /\ st'.session = st.session /\ st'.T = st.T
                    /\ acc'.session = acc.session /\ acc'.backlog = acc.backlog
                    /\ UNCHANGED <<call, token, clean>>
  OBVIOUS
<1>1. ClockType(clock) /\ StType(st) /\ AccType(acc)
  BY TypesNow
<1>2. ~Starting
  BY DEF Reporting, ClosesUntil, Takes, ClosesOne, GivesUp, SnapshotsInWindow, TestsQuiet,
         ReadsDepth, EmitsDepth, Sheds, Recovers, Starting, StartingAts
<1>3. UNCHANGED <<call, token, clean>>
  BY DEF Reporting, ClosesUntil, Takes, ClosesOne, GivesUp, SnapshotsInWindow, TestsQuiet,
         ReadsDepth, EmitsDepth, Sheds, Recovers, callVars, seenVars
<1>4. st'.live = st.live /\ st'.session = st.session /\ st'.T = st.T
  <2>1. CASE ClosesUntil
    BY <1>1, <2>1 DEF ClosesUntil, StType
  <2>2. CASE Sheds
    BY <1>1, <2>2 DEF Sheds, StType
  <2>3. CASE ~ClosesUntil /\ ~Sheds
    BY <2>3 DEF Reporting, Takes, ClosesOne, GivesUp, SnapshotsInWindow, TestsQuiet,
         ReadsDepth, EmitsDepth, Recovers
  <2>. QED BY <2>1, <2>2, <2>3
<1>5. acc'.session = acc.session /\ acc'.backlog = acc.backlog
  <2>1. CASE SnapshotsInWindow \/ EmitsDepth \/ Recovers \/ ReadsDepth
    BY <1>1, <2>1 DEF SnapshotsInWindow, EmitsDepth, Recovers, ReadsDepth, RecoverySnapshot, AccType
  <2>2. CASE ~(SnapshotsInWindow \/ EmitsDepth \/ Recovers \/ ReadsDepth)
    BY <2>2 DEF Reporting, ClosesUntil, Takes, ClosesOne, GivesUp, TestsQuiet, Sheds
  <2>. QED BY <2>1, <2>2
<1>6. ~Starting' /\ clock'.open = clock.open
  <2>1. CASE ClosesUntil
    BY <1>1, <2>1 DEF ClosesUntil, ClockType, Starting, StartingAts
  <2>2. CASE Takes
    BY <1>1, <2>2 DEF Takes, ClockType, Starting, StartingAts
  <2>3. CASE ClosesOne
    <3>1. CASE clock' = [clock EXCEPT !.at = "idle", !.closing = Empty]
      BY <1>1, <3>1 DEF ClockType, Starting, StartingAts
    <3>2. ASSUME NEW at \in {"quiet", "snapshot"},
                 clock' = [clock EXCEPT !.at = at, !.k = NextWindow, !.total = NextTotal,
                                        !.closing = Without(clock.closing, NextWindow)]
          PROVE  ~Starting' /\ clock'.open = clock.open
      BY <1>1, <3>2 DEF ClockType, Starting, StartingAts
    <3>. QED BY <2>3, <3>1, <3>2, ClosingOne
  <2>4. CASE GivesUp
    BY <1>1, <2>4 DEF GivesUp, ClockType, Starting, StartingAts
  <2>5. CASE SnapshotsInWindow
    BY <1>1, <2>5 DEF SnapshotsInWindow, ClockType, Starting, StartingAts
  <2>6. CASE TestsQuiet
    BY <1>1, <2>6 DEF TestsQuiet, ClockType, Starting, StartingAts
  <2>7. CASE ReadsDepth
    BY <1>1, <2>7 DEF ReadsDepth, ClockType, Starting, StartingAts
  <2>8. CASE EmitsDepth
    BY <1>1, <2>8 DEF EmitsDepth, ClockType, Starting, StartingAts
  <2>9. CASE Sheds
    BY <1>1, <2>9 DEF Sheds, ClockType, Starting, StartingAts
  <2>10. CASE Recovers
    BY <1>1, <2>10 DEF Recovers, ClockType, Starting, StartingAts
  <2>. QED BY <2>1, <2>2, <2>3, <2>4, <2>5, <2>6, <2>7, <2>8, <2>9, <2>10 DEF Reporting
<1>. QED BY <1>2, <1>3, <1>4, <1>5, <1>6

LEMMA SessionsReporting == Types /\ Sessions /\ Reporting => Sessions'
<1> SUFFICES ASSUME Types, Sessions, Reporting PROVE Sessions'
  OBVIOUS
<1>1. /\ ~Starting /\ ~Starting' /\ clock'.open = clock.open
      /\ st'.live = st.live /\ st'.session = st.session /\ st'.T = st.T
      /\ acc'.session = acc.session /\ acc'.backlog = acc.backlog
      /\ UNCHANGED <<call, token, clean>>
  BY ReportingSteps
<1>2. Begins'
  BY <1>1 DEF Sessions, Begins, Starting, StartingAts
<1>3. CleanStart'
  BY <1>1 DEF Sessions, CleanStart, Starting, StartingAts
<1>4. Inside' = Inside /\ \A th \in Threads : ReadRight(th) => ReadRight(th)'
  BY <1>1 DEF Inside, ReadRight, Enters
<1>5. CleanSession'
  BY <1>1, <1>4 DEF Sessions, CleanSession
<1>. QED BY <1>2, <1>3, <1>5 DEF Sessions

LEMMA SessionsSame ==
    Sessions /\ UNCHANGED <<st, win, acc, call, token, clock, clean>> => Sessions'
BY DEF Sessions, Begins, CleanStart, CleanSession, ReadRight, Inside, Enters, Starting

LEMMA SessionsStepStarts == Types /\ Sessions /\ StepStarts => Sessions'
<1> SUFFICES ASSUME Types, Sessions, StepStarts PROVE Sessions'
  OBVIOUS
<1>1. /\ ClockType(clock) /\ StType(st) /\ now \in Nat /\ Times
      /\ \A th \in Threads : token[th] \in Int
  BY TypesNow, BoundsHold DEF Types, WindowsTypeOK, Bounds, NoItem
<1>2. /\ clock.at = "idle" /\ now' = now + 1
      /\ UNCHANGED <<win, acc, call, token>>
      /\ clean' = IF clock'.open THEN clean ELSE \A th \in Threads : call[th].at = "idle"
  BY DEF StepStarts, callVars
<1>3. CASE clock.open /\ clock' = [clock EXCEPT !.at = "close", !.t = now'] /\ UNCHANGED st
  <2>1. clock'.at = "close" /\ clock'.open /\ clean' = clean
    BY <1>1, <1>2, <1>3 DEF ClockType
  <2>2. Inside' = Inside /\ \A th \in Threads : ReadRight(th) => ReadRight(th)'
    BY <1>2, <1>3 DEF Inside, ReadRight, Enters
  <2>. QED BY <1>2, <1>3, <2>1, <2>2
           DEF Sessions, Begins, CleanStart, CleanSession, Starting, StartingAts
<1>4. CASE ~clock'.open /\ ~st'.live /\ clock'.at \in {"begin", "idle"}
           /\ (clock'.at = "begin" => clock'.t = now')
  <2>1. clean' => \A th \in Threads : call'[th].at = "idle"
    BY <1>2, <1>4
  <2>2. \A th \in Threads : token'[th] < now'
    BY <1>1, <1>2 DEF Times
  <2>. QED BY <1>4, <2>1, <2>2
           DEF Sessions, Begins, CleanStart, CleanSession, Starting, StartingAts
<1>5. \/ clock.open /\ clock' = [clock EXCEPT !.at = "close", !.t = now'] /\ UNCHANGED st
      \/ /\ ~clock'.open /\ ~st'.live /\ clock'.at \in {"begin", "idle"}
         /\ clock'.at = "begin" => clock'.t = now'
  <2>1. CASE st' = [st EXCEPT !.live = FALSE]
             /\ clock' \in {[clock EXCEPT !.at = "begin", !.t = now', !.open = FALSE],
                            [clock EXCEPT !.open = FALSE]}
    BY <1>1, <1>2, <2>1 DEF ClockType, StType
  <2>2. CASE ~clock.open /\ clock' = [clock EXCEPT !.at = "begin", !.t = now'] /\ UNCHANGED st
    BY <1>1, <1>2, <2>2 DEF ClockType, Sessions, Begins
  <2>. QED BY <2>1, <2>2 DEF StepStarts
<1>. QED BY <1>3, <1>4, <1>5

(* The session's fields are set one after the other, before it is live.    *)
LEMMA SessionsBegins ==
    Types /\ Sessions /\ (BeginsSession \/ Anchors \/ Clears \/ StartsAcc) => Sessions'
<1> SUFFICES ASSUME Types, Sessions, BeginsSession \/ Anchors \/ Clears \/ StartsAcc
             PROVE  Sessions'
  OBVIOUS
<1>1. ClockType(clock) /\ StType(st) /\ Starting
  BY TypesNow DEF BeginsSession, Anchors, Clears, StartsAcc, Starting, StartingAts
<1>2. ~clock.open /\ ~st.live
  BY <1>1 DEF Sessions, Begins
<1>3. /\ clock'.open = clock.open /\ clock'.t = clock.t /\ st'.live = st.live
      /\ UNCHANGED <<call, token, clean>> /\ Starting'
  <2>1. \E at \in {"anchor", "clear", "start", "live"} : clock' = [clock EXCEPT !.at = at]
    BY DEF BeginsSession, Anchors, Clears, StartsAcc
  <2>2. clock'.open = clock.open /\ clock'.t = clock.t /\ Starting'
    BY <1>1, <2>1 DEF ClockType, Starting, StartingAts
  <2>3. st'.live = st.live /\ UNCHANGED <<call, token, clean>>
    BY <1>1 DEF StType, BeginsSession, Anchors, Clears, StartsAcc, callVars, seenVars
  <2>. QED BY <2>2, <2>3
<1>4. Begins'
  <2>1. CASE BeginsSession
    <3>1. clock'.at = "anchor"
      BY <1>1, <2>1 DEF BeginsSession, ClockType
    <3>. QED BY <1>2, <1>3, <3>1 DEF Begins
  <2>2. CASE Anchors
    <3>1. clock'.at = "clear" /\ st'.T = clock.t
      BY <1>1, <2>2 DEF Anchors, ClockType, StType
    <3>. QED BY <1>2, <1>3, <3>1 DEF Begins
  <2>3. CASE Clears
    <3>1. clock.at = "clear" /\ clock'.at = "start" /\ st'.T = st.T
      BY <1>1, <2>3 DEF Clears, ClockType, StType
    <3>. QED BY <1>2, <1>3, <3>1 DEF Begins, Sessions
  <2>4. CASE StartsAcc
    <3>1. clock.at = "start" /\ clock'.at = "live" /\ st' = st /\ acc'.session = st.session
      BY <1>1, <2>4 DEF StartsAcc, ClockType, NewAcc
    <3>. QED BY <1>2, <1>3, <3>1 DEF Begins, Sessions
  <2>. QED BY <2>1, <2>2, <2>3, <2>4
<1>5. CleanStart'
  <2>1. SUFFICES ASSUME clean'
                 PROVE  /\ \A th \in Threads : call'[th].at = "idle"
                        /\ \A th \in Threads : token'[th] < clock'.t
                        /\ clock'.at \in {"start", "live"} => win' = Empty /\ st'.closed = 0 /\ ~st'.saturated
                        /\ clock'.at = "live" => acc'.backlog = 0 /\ ~acc'.nonzero
    BY DEF CleanStart, Starting
  <2>2. /\ \A th \in Threads : call'[th].at = "idle"
        /\ \A th \in Threads : token'[th] < clock'.t
    BY <1>1, <1>2, <1>3, <2>1 DEF Sessions, CleanStart
  <2>3. CASE BeginsSession \/ Anchors
    <3>1. clock'.at \in {"anchor", "clear"}
      BY <1>1, <2>3 DEF BeginsSession, Anchors, ClockType
    <3>. QED BY <2>2, <3>1
  <2>4. CASE Clears
    <3>1. clock'.at = "start" /\ st'.closed = 0 /\ ~st'.saturated /\ win' = Empty
      BY <1>1, <2>4 DEF Clears, ClockType, StType
    <3>. QED BY <2>2, <3>1
  <2>5. CASE StartsAcc
    <3>1. clock.at = "start" /\ st' = st /\ win' = win /\ acc'.backlog = 0 /\ ~acc'.nonzero
      BY <2>5 DEF StartsAcc, NewAcc
    <3>2. win = Empty /\ st.closed = 0 /\ ~st.saturated
      BY <1>2, <1>3, <2>1, <3>1 DEF Sessions, CleanStart
    <3>. QED BY <2>2, <3>1, <3>2
  <2>. QED BY <2>3, <2>4, <2>5
<1>6. CleanSession'
  BY <1>2, <1>3 DEF CleanSession
<1>. QED BY <1>4, <1>5, <1>6 DEF Sessions

(* Nobody is inside when a clean session goes live.                        *)
LEMMA NobodyInside ==
    Types /\ Sessions /\ clean /\ GoesLive =>
        Inside' = {} /\ acc'.backlog = 0 /\ win' = Empty /\ clock'.closing = Empty
<1> SUFFICES ASSUME Types, Sessions, clean, GoesLive
             PROVE  Inside' = {} /\ acc'.backlog = 0 /\ win' = Empty /\ clock'.closing = Empty
  OBVIOUS
<1>1. clock.at = "live" /\ Starting /\ UNCHANGED <<win, acc, token>>
  BY DEF GoesLive, Starting, StartingAts, callVars
<1>2. ~clock.open /\ st.T = clock.t
  BY <1>1 DEF Sessions, Begins
<1>3. win = Empty /\ acc.backlog = 0 /\ \A th \in Threads : token[th] < clock.t
  BY <1>1, <1>2 DEF Sessions, CleanStart
<1>4. st'.T = st.T /\ clock'.closing = Empty
  BY TypesNow DEF GoesLive, StType, IdleClock
<1>5. st.T \in Int /\ \A th \in Threads : token[th] \in Int
  BY BoundsHold DEF Types, WindowsTypeOK, Bounds, NoItem
<1>. QED BY <1>1, <1>2, <1>3, <1>4, <1>5 DEF Inside

LEMMA SessionsGoesLive == Types /\ Sessions /\ GoesLive => Sessions'
<1> SUFFICES ASSUME Types, Sessions, GoesLive PROVE Sessions'
  OBVIOUS
<1>1. /\ clock.at = "live" /\ UNCHANGED <<acc, call, clean>> /\ StType(st)
      /\ st' = [st EXCEPT !.live = TRUE] /\ clock'.at = "idle" /\ clock'.open = TRUE
  BY TypesNow DEF GoesLive, IdleClock, callVars
<1>2. st'.live = TRUE /\ st'.session = st.session
  BY <1>1 DEF StType
<1>3. Begins' /\ CleanStart'
  BY <1>1, <1>2 DEF Sessions, Begins, CleanStart, Starting, StartingAts
<1>4. CleanSession'
  <2>1. SUFFICES ASSUME clean PROVE (\A th \in Threads : ReadRight(th)') /\ acc'.backlog = Cardinality(Inside')
    BY <1>1 DEF CleanSession
  <2>2. Inside' = {} /\ acc'.backlog = 0
    BY <2>1, NobodyInside
  <2>3. \A th \in Threads : call'[th].at = "idle"
    BY <1>1, <2>1 DEF Sessions, Begins, CleanStart, Starting, StartingAts
  <2>4. \A th \in Threads : ReadRight(th)'
    BY <2>3 DEF ReadRight
  <2>. QED BY <2>2, <2>4, FS_EmptySet
<1>. QED BY <1>3, <1>4 DEF Sessions

(* A count of a clean session changes the backlog as it changes who is     *)
(* inside.                                                                 *)
LEMMA RecordedInside ==
    ASSUME Types, Sessions, NEW th \in Threads, Records(th), clean, clock.open
    PROVE  /\ call[th].s = acc.session /\ call[th].t >= st.T /\ call[th].k = call[th].t - st.T
           /\ acc.backlog = Cardinality(Inside) /\ st'.T = st.T
           /\ acc'.backlog = acc.backlog + Change(th)
           /\ \/ /\ Enters(th) /\ Change(th) = 1
                 /\ th \notin Inside /\ Inside' = Inside \union {th} /\ token'[th] = call[th].t
              \/ /\ ~Enters(th) /\ th \in Inside /\ Change(th) = -1
                 /\ Inside' = Inside \ {th} /\ token[th] <= call[th].t
              \/ /\ ~Enters(th) /\ th \notin Inside /\ Change(th) = 0 /\ Inside' = Inside
           /\ acc'.backlog = Cardinality(Inside')
           /\ \A o \in Threads : o # th => token'[o] = token[o]
<1>1. /\ call[th].at = "record" /\ Record(th)
      /\ token' = [token EXCEPT ![th] = IF Enters(th) THEN call[th].t ELSE NoItem]
      /\ token \in [Threads -> NoItem..MaxTime] /\ StType(st) /\ AccType(acc)
  BY TypesNow DEF Records, Types, WindowsTypeOK
<1>2. /\ ReadRight(th) /\ acc.backlog = Cardinality(Inside) /\ acc.session = st.session
  BY DEF Sessions, Begins, CleanSession
<1>3. /\ call[th].s = acc.session /\ call[th].t >= st.T /\ call[th].k = call[th].t - st.T
      /\ call[th].t >= token[th]
      /\ ~Enters(th) => (call[th].counts <=> token[th] >= st.T)
  BY <1>1, <1>2 DEF ReadRight
<1>4. st'.T = st.T /\ acc'.backlog = acc.backlog + Change(th)
  BY <1>1, <1>3 DEF Record, StType, AccType
<1>5. /\ st.T \in Nat /\ call[th].t \in Nat /\ token[th] \in Int /\ NoItem \in Int /\ NoItem < 0
      /\ acc.backlog \in Nat /\ IsFiniteSet(Inside)
      /\ Change(th) = IF acc.backlog + Delta(th) < 0 THEN 0 ELSE Delta(th)
  <2>1. st.T \in Nat /\ call[th].t \in Nat /\ token[th] \in Int
    BY <1>1, BoundsHold DEF StType, Types, CallType, Bounds, NoItem
  <2>. QED BY <2>1, RecordTypes, InsideFinite DEF NoItem
<1>6. /\ token'[th] = IF Enters(th) THEN call[th].t ELSE NoItem
      /\ \A o \in Threads : o # th => token'[o] = token[o]
  BY <1>1
<1>7. Inside' = {o \in Threads : token'[o] >= st.T}
  BY <1>4 DEF Inside
<1>8. CASE Enters(th)
  <2>1. th \notin Inside
    BY <1>5, <1>8 DEF Enters, Inside
  <2>2. Inside' = Inside \union {th}
    BY <1>3, <1>6, <1>7, <1>8 DEF Inside
  <2>3. Delta(th) = 1 /\ Change(th) = 1
    <3>1. Delta(th) = 1
      BY <1>8 DEF Delta
    <3>. QED BY <1>5, <3>1
  <2>4. Cardinality(Inside') = Cardinality(Inside) + 1
    BY <1>5, <2>1, <2>2, FS_AddElement
  <2>. QED BY <1>2, <1>3, <1>4, <1>6, <1>8, <2>1, <2>2, <2>3, <2>4
<1>9. CASE ~Enters(th) /\ th \in Inside
  <2>1. Delta(th) = -1
    BY <1>3, <1>9 DEF Delta, Inside
  <2>2. Inside' = Inside \ {th}
    BY <1>5, <1>6, <1>7, <1>9 DEF Inside
  <2>3. Cardinality(Inside') = Cardinality(Inside) - 1
    BY <1>5, <1>9, <2>2, FS_RemoveElement
  <2>4. Cardinality(Inside') \in Nat
    BY <1>5, <2>2, FS_RemoveElement, FS_CardinalityType
  <2>5. Change(th) = -1
    BY <1>2, <1>5, <2>1, <2>3, <2>4
  <2>. QED BY <1>2, <1>3, <1>4, <1>5, <1>6, <1>9, <2>2, <2>3, <2>5
<1>10. CASE ~Enters(th) /\ th \notin Inside
  <2>1. Delta(th) = 0
    BY <1>3, <1>10 DEF Delta, Inside
  <2>2. Inside' = Inside
    BY <1>5, <1>6, <1>7, <1>10 DEF Inside
  <2>3. Change(th) = 0
    BY <1>5, <2>1
  <2>. QED BY <1>2, <1>3, <1>4, <1>5, <1>6, <1>10, <2>2, <2>3
<1>. QED BY <1>8, <1>9, <1>10

LEMMA SessionsRecords == \A th \in Threads : Types /\ Sessions /\ Records(th) => Sessions'
<1> SUFFICES ASSUME NEW th \in Threads, Types, Sessions, Records(th) PROVE Sessions'
  OBVIOUS
<1>1. /\ call[th].at = "record" /\ Record(th)
      /\ call' = [call EXCEPT ![th] = IdleCall] /\ UNCHANGED <<clock, clean>>
      /\ call \in [Threads -> CallType] /\ StType(st) /\ AccType(acc)
      /\ token' = [token EXCEPT ![th] = IF Enters(th) THEN call[th].t ELSE NoItem]
      /\ token \in [Threads -> NoItem..MaxTime]
  BY TypesNow DEF Records, Types, WindowsTypeOK, seenVars
<1>2. /\ st'.live = st.live /\ st'.session = st.session /\ st'.T = st.T
      /\ acc'.session = acc.session
  BY <1>1 DEF Record, StType, AccType
<1>3. Begins'
  BY <1>1, <1>2 DEF Sessions, Begins, Starting
<1>4. CleanStart'
  <2>1. clean /\ ~clock.open => FALSE
    BY <1>1 DEF Sessions, CleanStart
  <2>. QED BY <1>1, <2>1 DEF CleanStart
<1>5. CleanSession'
  <2>1. SUFFICES ASSUME clean, clock.open
                 PROVE  (\A o \in Threads : ReadRight(o)') /\ acc'.backlog = Cardinality(Inside')
    BY <1>1 DEF CleanSession
  <2>2. acc'.backlog = Cardinality(Inside')
    BY <2>1, RecordedInside
  <2>3. ASSUME NEW o \in Threads PROVE ReadRight(o)'
    <3>1. CASE o = th
      <4>1. call'[o].at = "idle"
        BY <1>1, <3>1 DEF IdleCall
      <4>. QED BY <4>1 DEF ReadRight
    <3>2. CASE o # th
      <4>1. call'[o] = call[o] /\ token'[o] = token[o] /\ ReadRight(o)
        BY <1>1, <2>1, <3>2 DEF Sessions, CleanSession
      <4>. QED BY <1>2, <4>1 DEF ReadRight, Enters
    <3>. QED BY <3>1, <3>2
  <2>. QED BY <2>2, <2>3
<1>. QED BY <1>3, <1>4, <1>5 DEF Sessions

LEMMA SessionsStarts == \A th \in Threads : Types /\ Sessions /\ Starts(th) => Sessions'
<1> SUFFICES ASSUME NEW th \in Threads, Types, Sessions, Starts(th) PROVE Sessions'
  OBVIOUS
<1>1. /\ UNCHANGED <<now, st, win, acc, clock, clean>> /\ ClockType(clock)
      /\ call \in [Threads -> CallType] /\ token \in [Threads -> NoItem..MaxTime]
      /\ clock.t \in Nat
  BY TypesNow, BoundsHold DEF Starts, seenVars, Types, WindowsTypeOK, ClockType, Bounds
<1>2. CASE st.live /\ call' = [call EXCEPT ![th].at = "clock"] /\ UNCHANGED token
  <2>1. clock.open
    BY <1>2 DEF Sessions, Begins
  <2>2. Begins' /\ CleanStart' /\ Inside' = Inside
    BY <1>1, <1>2, <2>1 DEF Sessions, Begins, CleanStart, Starting, Inside
  <2>3. ASSUME NEW o \in Threads, ReadRight(o) PROVE ReadRight(o)'
    <3>1. CASE o = th
      <4>1. call'[o].at = "clock"
        BY <1>1, <1>2, <3>1 DEF CallType
      <4>. QED BY <4>1 DEF ReadRight
    <3>2. CASE o # th
      <4>1. call'[o] = call[o] /\ token'[o] = token[o]
        BY <1>1, <1>2, <3>2
      <4>. QED BY <1>1, <2>3, <4>1 DEF ReadRight, Enters
    <3>. QED BY <3>1, <3>2
  <2>4. CleanSession'
    BY <1>1, <2>2, <2>3 DEF Sessions, CleanSession
  <2>. QED BY <2>2, <2>4 DEF Sessions
<1>3. CASE /\ ~st.live /\ call' = call
           /\ token' = [token EXCEPT ![th] = IF Enters(th) THEN NotCounted ELSE NoItem]
  <2>1. ~clock.open
    BY <1>3 DEF Sessions, Begins
  <2>2. \A o \in Threads : token[o] < clock.t => token'[o] < clock.t
    BY <1>1, <1>3 DEF NotCounted, NoItem
  <2>3. CleanStart'
    BY <1>1, <1>3, <2>2 DEF Sessions, CleanStart, Starting
  <2>4. Begins' /\ CleanSession'
    BY <1>1, <2>1 DEF Sessions, Begins, CleanSession, Starting
  <2>. QED BY <2>3, <2>4 DEF Sessions
<1>. QED BY <1>2, <1>3 DEF Starts

LEMMA SessionsReads ==
    \A th \in Threads :
        Types /\ Sessions /\ (ReadsClock(th) \/ Judges(th) \/ ReadsSession(th) \/ ReadsT(th))
        => Sessions'
<1> SUFFICES ASSUME NEW th \in Threads, Types, Sessions,
                    ReadsClock(th) \/ Judges(th) \/ ReadsSession(th) \/ ReadsT(th)
             PROVE  Sessions'
  OBVIOUS
<1>1. UNCHANGED <<st, win, acc, token, clock, clean>>
  BY DEF ReadsClock, Judges, ReadsSession, ReadsT, Reads, seenVars
<1>2. /\ call \in [Threads -> CallType] /\ Times /\ now \in Nat /\ st.T \in Nat
      /\ call[th].t \in 0..MaxTime /\ token[th] \in Int
  BY BoundsHold DEF Types, WindowsTypeOK, CallType, Bounds, NoItem
<1>3. call[th].at # "idle" /\ \A o \in Threads : o # th => call'[o] = call[o]
  BY <1>2 DEF ReadsClock, Judges, ReadsSession, ReadsT, Reads
<1>4. Begins' /\ CleanStart' /\ Inside' = Inside
  BY <1>1, <1>3 DEF Sessions, Begins, CleanStart, Starting, Inside
<1>5. ASSUME ReadRight(th) PROVE ReadRight(th)'
  <2>1. CASE ReadsClock(th)
    <3>1. call'[th].t = now /\ call'[th].at = IF Enters(th) THEN "session" ELSE "judge"
      BY <1>2, <2>1 DEF ReadsClock, Reads, CallType
    <3>2. now >= st.T /\ now >= token[th]
      BY <1>2 DEF Times
    <3>. QED BY <1>1, <3>1, <3>2 DEF ReadRight, Enters
  <2>2. CASE Judges(th)
    <3> DEFINE counts == token[th] >= st.T
    <3>1. /\ call[th].at = "judge" /\ counts \in BOOLEAN
          /\ call' = [call EXCEPT ![th] = [[call[th] EXCEPT !.counts = counts] EXCEPT !.at = "session"]]
      BY <2>2 DEF Judges, Reads
    <3>. HIDE DEF counts
    <3>2. /\ call'[th].t = call[th].t /\ call'[th].at = "session"
          /\ call'[th].counts = counts
      BY <1>2, <3>1 DEF CallType
    <3>. QED BY <1>1, <1>5, <3>1, <3>2 DEF ReadRight, Enters, counts
  <2>3. CASE ReadsSession(th)
    <3>1. call[th].at = "session"
          /\ call'[th].t = call[th].t /\ call'[th].at = "window"
          /\ call'[th].counts = call[th].counts /\ call'[th].s = st.session
      BY <1>2, <2>3 DEF ReadsSession, Reads, CallType
    <3>. QED BY <1>1, <1>5, <3>1 DEF ReadRight, Enters
  <2>4. CASE ReadsT(th)
    <3>1. call[th].at = "window"
          /\ call'[th].t = call[th].t /\ call'[th].at = "record"
          /\ call'[th].counts = call[th].counts /\ call'[th].s = call[th].s
          /\ call'[th].k = WindowOf(call[th].t)
      BY <1>2, <2>4 DEF ReadsT, Reads, CallType
    <3>2. call[th].t >= st.T => WindowOf(call[th].t) = call[th].t - st.T
      BY <1>2, WindowOfTime
    <3>. QED BY <1>1, <1>5, <3>1, <3>2 DEF ReadRight, Enters
  <2>. QED BY <2>1, <2>2, <2>3, <2>4
<1>6. ASSUME NEW o \in Threads, ReadRight(o) PROVE ReadRight(o)'
  <2>1. CASE o = th
    BY <1>5, <1>6, <2>1
  <2>2. CASE o # th
    BY <1>1, <1>3, <1>6, <2>2 DEF ReadRight, Enters
  <2>. QED BY <2>1, <2>2
<1>7. CleanSession'
  BY <1>1, <1>4, <1>6 DEF Sessions, CleanSession
<1>. QED BY <1>4, <1>7 DEF Sessions

LEMMA SessionsStep == Types /\ Sessions /\ [Next]_vars => Sessions'
<1> SUFFICES ASSUME Types, Sessions, [Next]_vars PROVE Sessions'
  OBVIOUS
<1>1. CASE Tick
  BY <1>1, SessionsSame DEF Tick, callVars, seenVars
<1>2. CASE ClockThread
  BY <1>2, SessionsStepStarts, SessionsBegins, SessionsGoesLive, SessionsReporting
     DEF ClockThread, Reporting
<1>3. CASE \E th \in Threads : Caller(th)
  BY <1>3, SessionsStarts, SessionsReads, SessionsRecords DEF Caller
<1>4. CASE UNCHANGED vars
  BY <1>4, SessionsSame DEF vars, callVars, seenVars
<1>. QED BY <1>1, <1>2, <1>3, <1>4 DEF Next

LEMMA ToldStep == Types /\ Sessions /\ Told /\ [Next]_vars => Told'
<1> SUFFICES ASSUME Types, Sessions, Told, [Next]_vars PROVE Told'
  OBVIOUS
<1>1. ClockType(clock) /\ AccType(acc) /\ acc.backlog \in Nat
  BY TypesNow DEF AccType
<1>2. CASE UNCHANGED <<clock, backlogSeen>> /\ acc'.nonzero = acc.nonzero
  BY <1>2 DEF Told
<1>3. CASE \E th \in Threads : Records(th)
  <2>1. acc'.nonzero = acc.nonzero /\ UNCHANGED <<clock, backlogSeen>>
    BY <1>1, <1>3 DEF Records, Record, AccType, seenVars
  <2>. QED BY <1>2, <2>1
<1>4. CASE \E th \in Threads : Caller(th) /\ ~Records(th)
  <2>1. UNCHANGED <<acc, clock, backlogSeen>>
    BY <1>4 DEF Caller, Starts, ReadsClock, Judges, ReadsSession, ReadsT, Reads, seenVars
  <2>. QED BY <1>2, <2>1
<1>5. CASE StepStarts
  <2>1. UNCHANGED <<acc, backlogSeen>> /\ clock.at = "idle"
    BY <1>5 DEF StepStarts
  <2>2. ~clock'.open \/ (clock.open /\ clock'.at = "close")
    BY <1>1, <1>5 DEF StepStarts, ClockType
  <2>. QED BY <2>1, <2>2 DEF Told
<1>6. CASE BeginsSession \/ Anchors \/ Clears \/ StartsAcc
  <2>1. Starting
    BY <1>6 DEF BeginsSession, Anchors, Clears, StartsAcc, Starting, StartingAts
  <2>2. ~clock.open
    BY <2>1 DEF Sessions, Begins
  <2>3. clock'.open = clock.open
    BY <1>1, <1>6 DEF BeginsSession, Anchors, Clears, StartsAcc, ClockType
  <2>. QED BY <2>2, <2>3 DEF Told
<1>7. CASE GoesLive
  BY <1>7 DEF GoesLive, IdleClock, Told
<1>8. CASE ClosesUntil \/ Takes \/ ClosesOne \/ GivesUp \/ TestsQuiet \/ Sheds
  <2>1. clock'.open = clock.open
    BY <1>8, ReportingSteps DEF Reporting
  <2>2. clock.at # "emit" /\ UNCHANGED <<acc, backlogSeen>>
    BY <1>8 DEF ClosesUntil, Takes, ClosesOne, GivesUp, TestsQuiet, Sheds, seenVars
  <2>3. clock'.at # "emit"
    <3>1. CASE ClosesUntil
      BY <1>1, <3>1 DEF ClosesUntil, ClockType
    <3>2. CASE Takes
      BY <1>1, <3>2 DEF Takes, ClockType
    <3>3. CASE ClosesOne
      <4>1. CASE clock' = [clock EXCEPT !.at = "idle", !.closing = Empty]
        BY <1>1, <4>1 DEF ClockType
      <4>2. ASSUME NEW at \in {"quiet", "snapshot"},
                   clock' = [clock EXCEPT !.at = at, !.k = NextWindow, !.total = NextTotal,
                                          !.closing = Without(clock.closing, NextWindow)]
            PROVE  clock'.at # "emit"
        BY <1>1, <4>2 DEF ClockType
      <4>. QED BY <3>3, <4>1, <4>2, ClosingOne
    <3>4. CASE GivesUp
      BY <1>1, <3>4 DEF GivesUp, ClockType
    <3>5. CASE TestsQuiet
      BY <1>1, <3>5 DEF TestsQuiet, ClockType
    <3>6. CASE Sheds
      BY <1>1, <3>6 DEF Sheds, ClockType
    <3>. QED BY <1>8, <3>1, <3>2, <3>3, <3>4, <3>5, <3>6
  <2>. QED BY <2>1, <2>2, <2>3 DEF Told
<1>9. CASE SnapshotsInWindow \/ Recovers
  <2>1. clock'.at # "emit" /\ backlogSeen' = acc.backlog /\ (acc'.nonzero <=> acc.backlog # 0)
    BY <1>1, <1>9 DEF SnapshotsInWindow, Recovers, RecoverySnapshot, ClockType, AccType
  <2>. QED BY <2>1 DEF Told
<1>10. CASE ReadsDepth
  <2> DEFINE value == IF DepthNow = 0 /\ ~acc.nonzero THEN NoItem ELSE DepthNow
             watch == DepthNow # 0 \/ acc.backlog # 0
  <2>1. /\ clock.at = "depth" /\ backlogSeen' = backlogSeen
        /\ clock' = [clock EXCEPT !.at = "emit", !.value = value, !.watch = watch]
        /\ acc' = [acc EXCEPT !.nonzero = DepthNow # 0]
    BY <1>10 DEF ReadsDepth, seenVars
  <2>2. DepthNow \in Nat /\ NoItem \notin Nat
    BY ReadTypes DEF NoItem
  <2>. HIDE DEF value, watch
  <2>3. clock'.at = "emit" /\ clock'.value = value /\ clock'.open = clock.open
        /\ (acc'.nonzero <=> DepthNow # 0)
    BY <1>1, <2>1 DEF ClockType, AccType
  <2>4. clock.open => (~acc.nonzero => backlogSeen = 0)
    BY <2>1 DEF Told
  <2>. QED BY <2>1, <2>2, <2>3, <2>4 DEF Told, value
<1>11. CASE EmitsDepth
  <2>1. clock.at = "emit" /\ clock'.at = "window" /\ clock'.open = clock.open
    BY <1>1, <1>11 DEF EmitsDepth, ClockType
  <2>2. \/ /\ backlogSeen' = IF clock.value = NoItem THEN backlogSeen ELSE clock.value
           /\ acc' = acc
        \/ backlogSeen' = acc.backlog /\ (acc'.nonzero <=> acc.backlog # 0)
    BY <1>1, <1>11 DEF EmitsDepth, RecoverySnapshot, AccType
  <2>. QED BY <2>1, <2>2 DEF Told
<1>12. CASE Tick \/ UNCHANGED vars
  BY <1>2, <1>12 DEF Tick, vars, seenVars
<1>. QED BY <1>3, <1>4, <1>5, <1>6, <1>7, <1>8, <1>9, <1>10, <1>11, <1>12 DEF Next, ClockThread

-----------------------------------------------------------------------------
(* Every thread inside entered in some window, and leaves in that one or a *)
(* later one: so what the windows from n on hold leaves at least those who *)
(* entered before.                                                         *)

HeldDelta(n) == HeldFrom(win, clock.closing, "delta", n)

EnteredBefore(ent, n) == {th \in Inside : ent[th] < n}

EnteredBy(ent) ==
    /\ \A th \in Inside : ent[th] <= token[th] - st.T \/ ent[th] <= st.closed
    /\ \A n \in Nat : Cardinality(EnteredBefore(ent, n)) <= acc.backlog - HeldDelta(n)

Plain == clean /\ clock.open /\ ~st.saturated

Entered == Plain => \E ent \in [Threads -> Nat] : EnteredBy(ent)

LEMMA HeldDeltaInt == Types => \A n \in Nat : HeldDelta(n) \in Int
<1> SUFFICES ASSUME Types, NEW n \in Nat PROVE HeldDelta(n) \in Int
  OBVIOUS
<1>1. Totals(win) /\ Totals(clock.closing) /\ "delta" \in Fields
  BY DEF Types, Fields
<1>. QED BY <1>1, HeldAll DEF HeldDelta

LEMMA BeforeFinite ==
    ASSUME NEW ent, NEW n PROVE IsFiniteSet(EnteredBefore(ent, n)) /\ Cardinality(EnteredBefore(ent, n)) \in Nat
<1>1. IsFiniteSet(EnteredBefore(ent, n))
  BY InsideFinite, FS_Subset DEF EnteredBefore
<1>. QED BY <1>1, FS_CardinalityType

(* A step that leaves who is inside, and what is held, and closes no less. *)
LEMMA EnteredSame ==
    ASSUME Types, NEW ent \in [Threads -> Nat], EnteredBy(ent), Inside' = Inside,
           UNCHANGED token, st'.T = st.T, st'.closed \in Nat, st'.closed >= st.closed,
           acc'.backlog = acc.backlog, \A n \in Nat : HeldDelta(n)' = HeldDelta(n)
    PROVE  EnteredBy(ent)'
<1>1. \A n : EnteredBefore(ent, n)' = EnteredBefore(ent, n)
  BY DEF EnteredBefore
<1>2. st.closed \in Nat /\ \A th \in Threads : ent[th] \in Nat
  BY BoundsHold DEF Types, WindowsTypeOK, Bounds
<1>3. \A th \in Inside : ent[th] <= st.closed => ent[th] <= st'.closed
  BY <1>2 DEF Inside
<1>. QED BY <1>1, <1>3 DEF EnteredBy

(* Nothing held, and the backlog counts who is inside.                     *)
LEMMA EnteredAfresh ==
    ASSUME win' = Empty, clock'.closing = Empty, acc'.backlog = Cardinality(Inside'),
           st'.closed \in Nat
    PROVE  Entered'
<1> DEFINE ent == [th \in Threads |-> 0]
<1>1. ent \in [Threads -> Nat] /\ \A th \in Threads : ent[th] = 0
  OBVIOUS
<1>. HIDE DEF ent
<1>2. \A n \in Nat : HeldDelta(n)' = 0
  BY EmptyWindows, FromEmpty DEF HeldDelta, HeldFrom
<1>3. IsFiniteSet(Inside') /\ Cardinality(Inside') \in Nat
  <2>1. Inside' \subseteq Threads
    BY DEF Inside
  <2>2. IsFiniteSet(Inside')
    BY <2>1, WindowsAssumption, FS_Subset
  <2>. QED BY <2>2, FS_CardinalityType
<1>4. ASSUME NEW n \in Nat
      PROVE  Cardinality(EnteredBefore(ent, n)') <= acc'.backlog - HeldDelta(n)'
  <2>1. EnteredBefore(ent, n)' \subseteq Inside'
    BY DEF EnteredBefore
  <2>2. Cardinality(EnteredBefore(ent, n)') <= Cardinality(Inside')
    BY <1>3, <2>1, FS_Subset
  <2>. QED BY <1>2, <1>3, <2>2
<1>5. \A th \in Inside' : ent[th] <= st'.closed
  BY <1>1 DEF Inside
<1>. QED BY <1>1, <1>4, <1>5 DEF Entered, EnteredBy

LEMMA EnteredRecords ==
    \A th \in Threads : Types /\ Sessions /\ Entered /\ Records(th) => Entered'
<1> SUFFICES ASSUME NEW th \in Threads, Types, Sessions, Entered, Records(th), Plain'
             PROVE  \E ent \in [Threads -> Nat] : EnteredBy(ent)'
  BY DEF Entered
<1>1. UNCHANGED <<clock, clean>> /\ Record(th) /\ StType(st)
  BY TypesNow DEF Records, seenVars
<1>2. clean /\ clock.open /\ call[th].s = acc.session
  BY <1>1, RecordedInside DEF Plain
<1>3. win' = Added(th) /\ ~st.saturated /\ st'.closed = st.closed
  BY <1>1, <1>2 DEF Record, StType, Plain
<1>4. PICK old \in [Threads -> Nat] : EnteredBy(old)
  BY <1>2, <1>3 DEF Entered, Plain
<1> DEFINE k == Target(th)
           x == Change(th)
<1>5. \A n \in Nat : HeldDelta(n)' = HeldDelta(n) + (IF k >= n THEN x ELSE 0)
  <2>1. TAKE n \in Nat
  <2>2. "delta" \in Fields /\ Counts(th, "delta") = Change(th)
    BY DEF Fields, Counts
  <2>. QED BY <1>1, <1>3, <2>2, RecordedFrom DEF HeldDelta
<1>6. \A n \in Nat : HeldDelta(n) \in Int
  BY HeldDeltaInt
<1>7. /\ k \in Nat /\ x \in Int /\ acc.backlog \in Nat /\ st.closed \in Nat /\ st.T \in Nat
      /\ call[th].t \in Nat /\ call[th].t >= st.T
      /\ k = IF call[th].t - st.T >= st.closed THEN call[th].t - st.T ELSE st.closed
      /\ acc'.backlog = acc.backlog + x /\ st'.T = st.T
      /\ \A o \in Threads : o # th => token'[o] = token[o]
  <2>1. st.closed \in Nat /\ st.T \in Nat /\ call[th].t \in Nat
    BY <1>1, BoundsHold DEF StType, Types, CallType, Bounds
  <2>2. k \in Nat /\ x \in Int /\ acc.backlog \in Nat
    BY RecordTypes, BoundsHold DEF Bounds
  <2>. QED BY <1>2, <2>1, <2>2, RecordTypes, RecordedInside
<1>8. \A o \in Threads : old[o] \in Nat
  OBVIOUS
<1>9. /\ \A o \in Inside : old[o] <= token[o] - st.T \/ old[o] <= st.closed
      /\ \A n \in Nat : Cardinality(EnteredBefore(old, n)) <= acc.backlog - HeldDelta(n)
  BY <1>4 DEF EnteredBy
<1>10. CASE /\ Enters(th) /\ x = 1 /\ th \notin Inside /\ Inside' = Inside \union {th}
            /\ token'[th] = call[th].t
  <2>1. PICK ent \in [Threads -> Nat] : ent[th] = k /\ \A o \in Threads : o # th => ent[o] = old[o]
    <3> DEFINE new == [old EXCEPT ![th] = k]
    <3>1. new \in [Threads -> Nat] /\ new[th] = k /\ \A o \in Threads : o # th => new[o] = old[o]
      BY <1>7
    <3>. QED BY <3>1
  <2>. HIDE DEF k, x
  <2>2. \A o \in Inside' : ent[o] <= token'[o] - st'.T \/ ent[o] <= st'.closed
    BY <1>3, <1>7, <1>9, <1>10, <2>1 DEF Inside
  <2>3. ASSUME NEW n \in Nat
        PROVE  Cardinality(EnteredBefore(ent, n)') <= acc'.backlog - HeldDelta(n)'
    <3>1. /\ IsFiniteSet(EnteredBefore(old, n)) /\ Cardinality(EnteredBefore(old, n)) \in Nat
          /\ th \notin EnteredBefore(old, n)
      BY <1>10, BeforeFinite DEF EnteredBefore
    <3>2. EnteredBefore(ent, n)' = EnteredBefore(old, n) \union (IF k < n THEN {th} ELSE {})
      BY <1>10, <2>1 DEF EnteredBefore, Inside
    <3>3. Cardinality(EnteredBefore(ent, n)') =
            Cardinality(EnteredBefore(old, n)) + (IF k < n THEN 1 ELSE 0)
      <4>1. CASE k < n
        BY <3>1, <3>2, <4>1, FS_AddElement
      <4>2. CASE ~(k < n)
        BY <3>1, <3>2, <4>2
      <4>. QED BY <4>1, <4>2
    <3>4. HeldDelta(n)' = HeldDelta(n) + (IF k >= n THEN x ELSE 0) /\ HeldDelta(n) \in Int
      BY <1>5, <1>6 DEF k, x
    <3>. QED BY <1>7, <1>9, <1>10, <3>1, <3>3, <3>4
  <2>4. EnteredBy(ent)'
    BY <2>2, <2>3 DEF EnteredBy
  <2>. QED BY <2>1, <2>4
<1>11. CASE /\ ~Enters(th) /\ th \in Inside /\ x = -1 /\ Inside' = Inside \ {th}
            /\ token[th] <= call[th].t
  <2>1. old[th] <= k
    <3>1. token[th] \in Int
      BY BoundsHold DEF Types, WindowsTypeOK, Bounds, NoItem
    <3>2. old[th] \in Nat /\ (old[th] <= token[th] - st.T \/ old[th] <= st.closed)
      BY <1>8, <1>9, <1>11
    <3>. HIDE DEF k
    <3>. QED BY <1>7, <1>11, <3>1, <3>2
  <2>. HIDE DEF k, x
  <2>2. \A o \in Inside' : old[o] <= token'[o] - st'.T \/ old[o] <= st'.closed
    BY <1>3, <1>7, <1>9, <1>11 DEF Inside
  <2>3. ASSUME NEW n \in Nat
        PROVE  Cardinality(EnteredBefore(old, n)') <= acc'.backlog - HeldDelta(n)'
    <3>1. IsFiniteSet(EnteredBefore(old, n)) /\ Cardinality(EnteredBefore(old, n)) \in Nat
      BY BeforeFinite
    <3>2. EnteredBefore(old, n)' = EnteredBefore(old, n) \ {th}
      BY <1>11 DEF EnteredBefore
    <3>3. HeldDelta(n)' = HeldDelta(n) + (IF k >= n THEN x ELSE 0) /\ HeldDelta(n) \in Int
      BY <1>5, <1>6 DEF k, x
    <3>4. CASE k < n
      <4>1. th \in EnteredBefore(old, n)
        BY <1>7, <1>8, <1>11, <2>1, <3>4 DEF EnteredBefore
      <4>2. Cardinality(EnteredBefore(old, n)') = Cardinality(EnteredBefore(old, n)) - 1
        BY <3>1, <3>2, <4>1, FS_RemoveElement
      <4>. QED BY <1>7, <1>9, <1>11, <3>1, <3>3, <3>4, <4>2
    <3>5. CASE k >= n
      <4>1. EnteredBefore(old, n)' \subseteq EnteredBefore(old, n)
        BY <3>2
      <4>2. /\ Cardinality(EnteredBefore(old, n)') <= Cardinality(EnteredBefore(old, n))
            /\ IsFiniteSet(EnteredBefore(old, n)')
        BY <3>1, <4>1, FS_Subset
      <4>3. Cardinality(EnteredBefore(old, n)') \in Nat
        BY <4>2, FS_CardinalityType
      <4>4. acc'.backlog - HeldDelta(n)' = acc.backlog - HeldDelta(n)
        BY <1>7, <1>11, <3>3, <3>5
      <4>. QED BY <1>7, <1>9, <3>1, <3>3, <4>2, <4>3, <4>4
    <3>. QED BY <1>7, <3>4, <3>5
  <2>4. EnteredBy(old)'
    BY <2>2, <2>3 DEF EnteredBy
  <2>. QED BY <2>4
<1>12. CASE ~Enters(th) /\ th \notin Inside /\ x = 0 /\ Inside' = Inside
  <2>. HIDE DEF k, x
  <2>1. \A o \in Inside' : old[o] <= token'[o] - st'.T \/ old[o] <= st'.closed
    BY <1>3, <1>7, <1>9, <1>12 DEF Inside
  <2>2. ASSUME NEW n \in Nat
        PROVE  Cardinality(EnteredBefore(old, n)') <= acc'.backlog - HeldDelta(n)'
    <3>1. EnteredBefore(old, n)' = EnteredBefore(old, n)
      BY <1>12 DEF EnteredBefore
    <3>2. HeldDelta(n)' = HeldDelta(n) + (IF k >= n THEN x ELSE 0) /\ HeldDelta(n) \in Int
      BY <1>5, <1>6 DEF k, x
    <3>3. HeldDelta(n)' = HeldDelta(n) /\ acc'.backlog = acc.backlog
      BY <1>7, <1>12, <3>2
    <3>. QED BY <1>9, <3>1, <3>3
  <2>3. EnteredBy(old)'
    BY <2>1, <2>2 DEF EnteredBy
  <2>. QED BY <2>3
<1>. QED BY <1>2, <1>10, <1>11, <1>12, RecordedInside

LEMMA EnteredKept ==
    ASSUME Types, Entered, Plain' => Plain, UNCHANGED token, st'.T = st.T, st'.closed \in Nat,
           st'.closed >= st.closed, acc'.backlog = acc.backlog,
           \A n \in Nat : HeldDelta(n)' = HeldDelta(n)
    PROVE  Entered'
<1>1. SUFFICES ASSUME Plain' PROVE \E ent \in [Threads -> Nat] : EnteredBy(ent)'
  BY DEF Entered
<1>2. PICK ent \in [Threads -> Nat] : EnteredBy(ent)
  BY <1>1 DEF Entered
<1>3. Inside' = Inside
  BY DEF Inside
<1>4. EnteredBy(ent)'
  BY <1>2, <1>3, EnteredSame
<1>. QED BY <1>4

LEMMA HeldDeltaSame ==
    win' = win /\ clock'.closing = clock.closing => \A n \in Nat : HeldDelta(n)' = HeldDelta(n)
BY DEF HeldDelta

LEMMA EnteredIdle ==
    Types /\ Entered /\ UNCHANGED <<st, win, acc, token, clock, clean>> => Entered'
<1> SUFFICES ASSUME Types, Entered, UNCHANGED <<st, win, acc, token, clock, clean>>
             PROVE  Entered'
  OBVIOUS
<1>1. st'.T = st.T /\ st'.closed = st.closed /\ st.closed \in Nat /\ (Plain' => Plain)
  BY BoundsHold DEF Types, WindowsTypeOK, Bounds, Plain
<1>2. \A n \in Nat : HeldDelta(n)' = HeldDelta(n)
  BY HeldDeltaSame
<1>. QED BY <1>1, <1>2, EnteredKept

(* All windows held come after the one that is closed.                     *)
LEMMA FromLater ==
    ASSUME NEW w, Totals(w), NEW field \in Fields, NEW m \in Nat, NEW n \in Nat, n <= m,
           \A j \in DOMAIN w : j >= m
    PROVE  Sum(From(w, n), field) = Sum(From(w, m), field)
<1>1. /\ Counted(From(w, n), field) /\ 0..MaxTime \subseteq Nat
      /\ \A j \in Nat : At(From(w, n), field, j) = IF j >= n THEN At(w, field, j) ELSE 0
      /\ \A j \in Nat : At(From(w, m), field, j) = IF j >= m THEN At(w, field, j) ELSE 0
  BY FromTotals, BoundsHold DEF Bounds
<1>2. \A j \in Nat : j < m => At(w, field, j) = 0
  BY DEF At
<1>3. \A j \in 0..MaxTime : At(From(w, m), field, j) = At(From(w, n), field, j)
  BY <1>1, <1>2
<1>. QED BY <1>1, <1>3, SumSame

LEMMA EnteredClosesOne == Types /\ Held /\ Sessions /\ Entered /\ ClosesOne => Entered'
<1> SUFFICES ASSUME Types, Held, Sessions, Entered, ClosesOne PROVE Entered'
  OBVIOUS
<1>1. /\ UNCHANGED <<st, win, acc, token, clean>> /\ clock.at = "window"
      /\ clock'.open = clock.open /\ st.closed \in Nat /\ "delta" \in Fields
  <2>1. clock'.open = clock.open
    BY ReportingSteps DEF Reporting
  <2>. QED BY <2>1, ClosingOne, BoundsHold
           DEF seenVars, callVars, Types, WindowsTypeOK, Bounds, Fields
<1>2. Plain' => Plain
  BY <1>1 DEF Plain
<1>3. CASE Finished
  <2>1. \A n \in Nat : HeldDelta(n)' = HeldDelta(n)
    BY <1>1, <1>3, ClosingFrom DEF HeldDelta
  <2>. QED BY <1>1, <1>2, <2>1, EnteredKept
<1>4. CASE ~Finished
  <2>1. SUFFICES ASSUME Plain' PROVE \E ent \in [Threads -> Nat] : EnteredBy(ent)'
    BY DEF Entered
  <2>2. PICK ent \in [Threads -> Nat] : EnteredBy(ent)
    BY <1>2, <2>1 DEF Entered
  <2> DEFINE k == NextWindow
             x == NextTotal.delta
             w == Without(clock.closing, k)
  <2>3. PICK at \in {"quiet", "snapshot"} :
          clock' = [clock EXCEPT !.at = at, !.k = k, !.total = NextTotal, !.closing = w]
    BY <1>4, ClosingOne
  <2>4. clock'.closing = w
    BY <2>3 DEF Types, ClockType
  <2>5. /\ k \in Nat /\ k < clock.end /\ clock.end <= st.closed /\ x \in Int
        /\ clock.end \in Nat /\ clock.k \in Nat
        /\ Totals(win) /\ Totals(w) /\ DOMAIN w = DOMAIN clock.closing \ {k}
        /\ Totals(clock.closing)
        /\ \A j \in DOMAIN win : j >= st.closed
    <3>1. NextWindow \in Nat /\ clock.k \in Nat /\ clock.end \in Nat
      BY NextTypes, BoundsHold DEF Types, ClockType, Bounds
    <3>2. k < clock.end
      BY <1>4, <3>1 DEF Finished
    <3>. QED BY <1>1, <3>1, <3>2, ClosingOne, WithoutTotals DEF Held, InWindow, Types
  <2>6. /\ \A j \in DOMAIN win : j >= k + 1
        /\ \A j \in DOMAIN w : j >= k + 1
    <3>1. \A j \in DOMAIN win \union DOMAIN clock.closing : j \in Nat
      BY <2>5, BoundsHold DEF Totals, Bounds
    <3>2. \A j \in DOMAIN clock.closing : clock.k <= j /\ watched \in BOOLEAN
      BY <1>1 DEF Held, Types, WindowsTypeOK
    <3>3. \A j \in DOMAIN clock.closing : k <= j
      BY <2>5, <3>1, <3>2, NextTypes
    <3>. HIDE DEF k, w
    <3>. QED BY <1>1, <2>5, <3>1, <3>3
  <2>7. ASSUME NEW n \in Nat, n <= k
        PROVE  HeldDelta(n)' = HeldDelta(k + 1)
    <3>1. k + 1 \in Nat /\ n <= k + 1 /\ ~(k >= k + 1)
      BY <2>5, <2>7
    <3>2. /\ Sum(From(win, n), "delta") = Sum(From(win, k + 1), "delta")
          /\ Sum(From(w, n), "delta") = Sum(From(w, k + 1), "delta")
      <4>. HIDE DEF k, w
      <4>. QED BY <1>1, <2>5, <2>6, <3>1, FromLater
    <3>3. HeldFrom(win', clock'.closing, "delta", k + 1) =
            HeldFrom(win, clock.closing, "delta", k + 1) - (IF k >= k + 1 THEN NextTotal["delta"] ELSE 0)
      BY <1>1, <1>4, <3>1, ClosingFrom
    <3>4. HeldFrom(win, clock.closing, "delta", k + 1) \in Int
      BY <1>1, <2>5, <3>1, HeldAll
    <3>. HIDE DEF k, w
    <3>5. HeldFrom(win, w, "delta", k + 1) = HeldFrom(win, clock.closing, "delta", k + 1)
      BY <1>1, <2>4, <3>1, <3>3, <3>4
    <3>6. HeldFrom(win, w, "delta", n) = HeldFrom(win, w, "delta", k + 1)
      BY <3>2 DEF HeldFrom
    <3>. QED BY <1>1, <2>4, <3>5, <3>6 DEF HeldDelta
  <2>8. ASSUME NEW n \in Nat, n > k
        PROVE  HeldDelta(n)' = HeldDelta(n)
    <3>1. ~(k >= n)
      BY <2>5, <2>8
    <3>2. HeldFrom(win', clock'.closing, "delta", n) =
            HeldFrom(win, clock.closing, "delta", n) - (IF k >= n THEN NextTotal["delta"] ELSE 0)
      BY <1>1, <1>4, ClosingFrom
    <3>3. HeldFrom(win, clock.closing, "delta", n) \in Int
      BY <1>1, <2>5, HeldAll
    <3>. QED BY <3>1, <3>2, <3>3 DEF HeldDelta
  <2>9. Inside' = Inside /\ \A n : EnteredBefore(ent, n)' = EnteredBefore(ent, n)
    BY <1>1 DEF EnteredBefore, Inside
  <2>10. ASSUME NEW n \in Nat
         PROVE  Cardinality(EnteredBefore(ent, n)') <= acc'.backlog - HeldDelta(n)'
    <3>1. CASE n > k
      BY <1>1, <2>2, <2>8, <2>9, <3>1 DEF EnteredBy
    <3>2. CASE n <= k
      <4>1. k + 1 \in Nat
        BY <2>5
      <4>2. Cardinality(EnteredBefore(ent, k + 1)) <= acc.backlog - HeldDelta(k + 1)
        BY <2>2, <4>1 DEF EnteredBy
      <4>3. EnteredBefore(ent, n) \subseteq EnteredBefore(ent, k + 1)
        <5>1. \A th \in Inside : ent[th] \in Nat
          BY DEF Inside
        <5>. HIDE DEF k
        <5>. QED BY <2>5, <3>2, <5>1 DEF EnteredBefore
      <4>4. Cardinality(EnteredBefore(ent, n)) <= Cardinality(EnteredBefore(ent, k + 1))
        BY <4>3, BeforeFinite, FS_Subset
      <4>5. /\ Cardinality(EnteredBefore(ent, n)) \in Nat
            /\ Cardinality(EnteredBefore(ent, k + 1)) \in Nat
            /\ HeldDelta(k + 1) \in Int /\ acc.backlog \in Nat
        BY <4>1, BeforeFinite, HeldDeltaInt DEF Types, WindowsTypeOK
      <4>6. HeldDelta(n)' = HeldDelta(k + 1) /\ EnteredBefore(ent, n)' = EnteredBefore(ent, n)
            /\ acc' = acc
        BY <1>1, <2>7, <2>9, <3>2
      <4>. HIDE DEF k
      <4>. QED BY <4>2, <4>4, <4>5, <4>6
    <3>. QED BY <2>5, <3>1, <3>2
  <2>11. EnteredBy(ent)'
    BY <1>1, <2>2, <2>9, <2>10 DEF EnteredBy
  <2>. QED BY <2>11
<1>. QED BY <1>3, <1>4

LEMMA EnteredReporting ==
    Types /\ Held /\ Sessions /\ Entered /\ Reporting => Entered'
<1> SUFFICES ASSUME Types, Held, Sessions, Entered, Reporting PROVE Entered'
  OBVIOUS
<1>1. /\ clock'.open = clock.open /\ st'.T = st.T /\ acc'.backlog = acc.backlog
      /\ UNCHANGED <<call, token, clean>>
  BY ReportingSteps
<1>2. StType(st) /\ ClockType(clock) /\ st.closed \in Nat /\ "delta" \in Fields
  BY TypesNow, BoundsHold DEF StType, Bounds, Fields
<1>3. CASE ClosesOne
  BY <1>3, EnteredClosesOne
<1>4. CASE Sheds
  <2>1. SUFFICES ASSUME Plain' PROVE Entered'
    BY DEF Entered
  <2>2. win' = Empty /\ clock'.closing = Empty
    BY <1>4, HeldRecovery DEF Sheds
  <2>3. acc'.backlog = Cardinality(Inside')
    BY <2>1, SessionsReporting DEF Plain, Sessions, CleanSession
  <2>4. st'.closed \in Nat
    BY <1>4, TypesSheds, BoundsHold DEF Types, WindowsTypeOK, Bounds
  <2>. QED BY <2>2, <2>3, <2>4, EnteredAfresh
<1>5. CASE ~ClosesOne /\ ~Sheds
  <2>1. st'.saturated = st.saturated /\ st'.closed \in Nat /\ st'.closed >= st.closed
    <3>1. CASE ClosesUntil
      <4> DEFINE end == WindowOf(clock.t)
      <4>1. end \in Nat
        BY <1>2, TypesNow, WindowOfTime, BoundsHold DEF Bounds
      <4>2. st' = st \/ (st' = [st EXCEPT !.closed = end, !.pending = Pending] /\ end > st.closed)
        BY <3>1 DEF ClosesUntil
      <4>. HIDE DEF end
      <4>3. CASE st' = st
        BY <1>2, <4>3
      <4>4. CASE st' = [st EXCEPT !.closed = end, !.pending = Pending] /\ end > st.closed
        <5>1. st'.closed = end /\ st'.saturated = st.saturated
          BY <1>2, <4>4 DEF StType
        <5>. QED BY <1>2, <4>1, <4>4, <5>1
      <4>. QED BY <4>2, <4>3, <4>4
    <3>2. CASE ~ClosesUntil
      <4>1. st' = st
        BY <1>5, <3>2 DEF Reporting, Takes, GivesUp, SnapshotsInWindow, TestsQuiet, ReadsDepth,
                          EmitsDepth, Recovers
      <4>. QED BY <1>2, <4>1
    <3>. QED BY <3>1, <3>2
  <2>2. \A n \in Nat : HeldDelta(n)' = HeldDelta(n)
    <3>1. CASE Takes
      BY <1>2, <3>1, TakenFrom DEF HeldDelta
    <3>2. CASE ~Takes
      <4>1. win' = win
        BY <1>5, <3>2 DEF Reporting, ClosesUntil, GivesUp, SnapshotsInWindow, TestsQuiet,
                          ReadsDepth, EmitsDepth, Recovers
      <4>2. clock'.closing = clock.closing
        <5>1. CASE ClosesUntil
          BY <1>2, <5>1 DEF ClosesUntil, ClockType
        <5>2. CASE GivesUp
          BY <1>2, <5>2 DEF GivesUp, ClockType
        <5>3. CASE Recovers
          BY <5>3, HeldRecovery
        <5>4. CASE SnapshotsInWindow \/ TestsQuiet \/ ReadsDepth \/ EmitsDepth
          BY <5>4, HeldInWindow
        <5>. QED BY <1>5, <3>2, <5>1, <5>2, <5>3, <5>4 DEF Reporting
      <4>. QED BY <4>1, <4>2, HeldDeltaSame
    <3>. QED BY <3>1, <3>2
  <2>3. Plain' => Plain
    BY <1>1, <2>1 DEF Plain
  <2>. QED BY <1>1, <2>1, <2>2, <2>3, EnteredKept
<1>. QED BY <1>3, <1>4, <1>5

LEMMA EnteredStep == Types /\ Held /\ Sessions /\ Entered /\ [Next]_vars => Entered'
<1> SUFFICES ASSUME Types, Held, Sessions, Entered, [Next]_vars PROVE Entered'
  OBVIOUS
<1>1. CASE Tick \/ UNCHANGED vars
  BY <1>1, EnteredIdle DEF Tick, vars, callVars, seenVars
<1>2. CASE Reporting
  BY <1>2, EnteredReporting
<1>3. CASE BeginsSession \/ Anchors \/ Clears \/ StartsAcc
  <2>1. Starting /\ ClockType(clock)
    BY <1>3, TypesNow DEF BeginsSession, Anchors, Clears, StartsAcc, Starting, StartingAts
  <2>2. clock'.open = clock.open
    BY <1>3, <2>1 DEF BeginsSession, Anchors, Clears, StartsAcc, ClockType
  <2>3. ~clock'.open
    BY <2>1, <2>2 DEF Sessions, Begins
  <2>. QED BY <2>3 DEF Entered, Plain
<1>4. CASE GoesLive
  <2>1. SUFFICES ASSUME Plain' PROVE Entered'
    BY DEF Entered
  <2>2. clean
    BY <1>4, <2>1 DEF GoesLive, Plain
  <2>3. Inside' = {} /\ acc'.backlog = 0 /\ win' = Empty /\ clock'.closing = Empty
    BY <1>4, <2>2, NobodyInside
  <2>4. st'.closed \in Nat
    BY <1>4, TypesGoesLive, BoundsHold DEF Types, WindowsTypeOK, Bounds
  <2>. QED BY <2>3, <2>4, EnteredAfresh, FS_EmptySet
<1>5. CASE StepStarts
  <2>1. SUFFICES ASSUME Plain' PROVE Entered'
    BY DEF Entered
  <2>2. ClockType(clock) /\ StType(st) /\ st.closed \in Nat
    BY TypesNow, BoundsHold DEF StType, Bounds
  <2>3. clock.open /\ clock' = [clock EXCEPT !.at = "close", !.t = now'] /\ st' = st
    BY <1>5, <2>1, <2>2 DEF StepStarts, Plain, ClockType
  <2>4. clock'.open /\ clock'.closing = clock.closing /\ clean' = clean
    BY <1>5, <2>2, <2>3 DEF ClockType, StepStarts
  <2>5. UNCHANGED <<win, acc, token>>
    BY <1>5 DEF StepStarts, callVars
  <2>6. Plain' => Plain
    BY <2>3, <2>4 DEF Plain
  <2>7. \A n \in Nat : HeldDelta(n)' = HeldDelta(n)
    BY <2>4, <2>5, HeldDeltaSame
  <2>. QED BY <2>2, <2>3, <2>5, <2>6, <2>7, EnteredKept
<1>6. CASE \E th \in Threads : Caller(th)
  <2>1. PICK th \in Threads : Caller(th)
    BY <1>6
  <2>2. CASE Records(th)
    BY <2>2, EnteredRecords
  <2>3. CASE Starts(th) /\ ~st.live
    <3>1. ~clock.open /\ clock' = clock
      BY <2>3 DEF Starts, Sessions, Begins
    <3>. QED BY <3>1 DEF Entered, Plain
  <2>4. CASE ~Records(th) /\ ~(Starts(th) /\ ~st.live)
    <3>1. UNCHANGED <<st, win, acc, token, clock, clean>>
      BY <2>1, <2>4 DEF Caller, Starts, ReadsClock, Judges, ReadsSession, ReadsT, Reads, seenVars
    <3>. QED BY <3>1, EnteredIdle
  <2>. QED BY <2>2, <2>3, <2>4
<1>. QED BY <1>1, <1>2, <1>3, <1>4, <1>5, <1>6 DEF Next, ClockThread, Reporting

-----------------------------------------------------------------------------
(* What the observer holds.                                                *)

(* The depth at the last boundary: the backlog without what is held.       *)
Depth == acc.backlog - HeldDelta(0)

HoldsSome == DOMAIN win # {} \/ DOMAIN clock.closing # {}

Between == clock.at \in {"idle", "close", "take", "window"}

(* What the observer holds, step by step through the report of a window;   *)
(* after a recovery snapshot, only once nothing is held.                   *)
Exact ==
    Plain =>
        /\ Between => backlogSeen = Depth \/ (~sure /\ HoldsSome)
        /\ clock.at \in {"quiet", "depth"} /\ sure => backlogSeen + clock.total.delta = Depth
        /\ clock.at = "emit" => IF clock.value = NoItem THEN backlogSeen = 0 /\ Depth = 0
                                ELSE clock.value = Depth

LEMMA DepthTypes ==
    Types => /\ HeldDelta(0) = Later /\ Depth \in Int /\ acc.backlog \in Nat /\ HeldDelta(0) \in Int
             /\ (~HoldsSome => HeldDelta(0) = 0 /\ Depth = acc.backlog)
<1> SUFFICES ASSUME Types
             PROVE  /\ HeldDelta(0) = Later /\ Depth \in Int /\ acc.backlog \in Nat /\ HeldDelta(0) \in Int
                    /\ (~HoldsSome => HeldDelta(0) = 0 /\ Depth = acc.backlog)
  OBVIOUS
<1>1. Totals(win) /\ Totals(clock.closing) /\ acc.backlog \in Nat /\ "delta" \in Fields /\ 0 \in Nat
  BY DEF Types, WindowsTypeOK, Fields
<1>2. HeldDelta(0) = Later /\ HeldDelta(0) \in Int
  BY <1>1, HeldAll DEF HeldDelta, Later
<1>3. ~HoldsSome => HeldDelta(0) = 0
  <2>1. SUFFICES ASSUME DOMAIN win = {}, DOMAIN clock.closing = {} PROVE HeldDelta(0) = 0
    BY DEF HoldsSome
  <2>2. Sum(From(win, 0), "delta") = 0 /\ Sum(From(clock.closing, 0), "delta") = 0
    BY <2>1, FromEmpty
  <2>. QED BY <2>2 DEF HeldDelta, HeldFrom
<1>. QED BY <1>1, <1>2, <1>3 DEF Depth

(* The depth read is never cut off at zero.                                *)
LEMMA DepthCounts == Types /\ Entered /\ Plain => DepthNow = Depth /\ Depth >= 0
<1> SUFFICES ASSUME Types, Entered, Plain PROVE DepthNow = Depth /\ Depth >= 0
  OBVIOUS
<1>1. PICK ent \in [Threads -> Nat] : EnteredBy(ent)
  BY DEF Entered
<1>2. Cardinality(EnteredBefore(ent, 0)) <= acc.backlog - HeldDelta(0)
  BY <1>1 DEF EnteredBy
<1>3. Cardinality(EnteredBefore(ent, 0)) \in Nat
  BY BeforeFinite
<1>4. Depth >= 0
  BY <1>2, <1>3, DepthTypes DEF Depth
<1>5. DepthNow = IF acc.backlog - Later >= 0 THEN acc.backlog - Later ELSE 0
  BY ReadTypes
<1>6. Depth = acc.backlog - Later
  BY DepthTypes DEF Depth
<1>. QED BY <1>4, <1>5, <1>6

LEMMA ExactKept ==
    ASSUME Exact, Plain' => Plain, Depth' = Depth, HoldsSome => HoldsSome',
           UNCHANGED <<clock, backlogSeen, sure>>
    PROVE  Exact'
BY DEF Exact, Between

LEMMA DepthSame ==
    win' = win /\ clock'.closing = clock.closing /\ acc'.backlog = acc.backlog =>
        Depth' = Depth /\ (HoldsSome' <=> HoldsSome)
BY DEF Depth, HeldDelta, HoldsSome

LEMMA ExactIdle ==
    Exact /\ UNCHANGED <<st, win, acc, clock, clean, backlogSeen, sure>> => Exact'
<1> SUFFICES ASSUME Exact, UNCHANGED <<st, win, acc, clock, clean, backlogSeen, sure>> PROVE Exact'
  OBVIOUS
<1>1. Plain' => Plain
  BY DEF Plain
<1>2. Depth' = Depth /\ (HoldsSome' <=> HoldsSome)
  BY DepthSame
<1>. QED BY <1>1, <1>2, ExactKept

LEMMA ExactRecords == \A th \in Threads : Types /\ Sessions /\ Exact /\ Records(th) => Exact'
<1> SUFFICES ASSUME NEW th \in Threads, Types, Sessions, Exact, Records(th), Plain' PROVE Exact'
  BY DEF Exact
<1>1. UNCHANGED <<clock, clean, backlogSeen, sure>> /\ Record(th) /\ StType(st)
  BY TypesNow DEF Records, seenVars
<1>2. clean /\ clock.open /\ call[th].s = acc.session
  BY <1>1, RecordedInside DEF Plain
<1>3. win' = Added(th) /\ ~st.saturated
  BY <1>1, <1>2 DEF Record, StType, Plain
<1>4. /\ Target(th) \in 0..MaxTime /\ Target(th) \in Nat /\ Change(th) \in Int /\ Totals(win)
      /\ acc'.backlog = acc.backlog + Change(th)
  BY <1>2, RecordTypes, RecordedInside, BoundsHold DEF Types, Bounds
<1>5. HoldsSome'
  <2>1. DOMAIN Added(th) = DOMAIN win \union {Target(th)}
    BY <1>4, AddedTotals
  <2>. QED BY <1>3, <2>1 DEF HoldsSome
<1>6. HeldDelta(0)' = HeldDelta(0) + Change(th)
  <2>1. "delta" \in Fields /\ 0 \in Nat /\ Counts(th, "delta") = Change(th)
    BY DEF Fields, Counts
  <2>2. HeldFrom(Added(th), clock.closing, "delta", 0) =
          HeldFrom(win, clock.closing, "delta", 0)
          + (IF Target(th) >= 0 THEN Counts(th, "delta") ELSE 0)
    BY <2>1, RecordedFrom
  <2>. QED BY <1>1, <1>3, <1>4, <2>1, <2>2 DEF HeldDelta
<1>7. Depth' = Depth
  <2>1. HeldDelta(0) \in Int /\ acc.backlog \in Nat
    BY DepthTypes
  <2>2. Depth' = acc'.backlog - HeldDelta(0)'
    BY DEF Depth
  <2>. QED BY <1>4, <1>6, <2>1, <2>2 DEF Depth
<1>8. Plain
  BY <1>2, <1>3 DEF Plain
<1>. QED BY <1>1, <1>5, <1>7, <1>8, ExactKept

(* A step that ends between two windows, with the same told and held.      *)
LEMMA ExactBetween ==
    ASSUME Types, Exact, Plain' => Plain, Depth' = Depth, HoldsSome => HoldsSome',
           UNCHANGED <<backlogSeen, sure>>, Between, Between'
    PROVE  Exact'
BY DEF Exact, Between

LEMMA ExactClosesOne == Types /\ Held /\ Sessions /\ Exact /\ ClosesOne => Exact'
<1> SUFFICES ASSUME Types, Held, Sessions, Exact, ClosesOne, Plain' PROVE Exact'
  BY DEF Exact
<1>1. /\ UNCHANGED <<st, win, acc, clean, backlogSeen, sure>> /\ clock.at = "window" /\ ClockType(clock)
      /\ clock'.open = clock.open /\ "delta" \in Fields /\ 0 \in Nat
  <2>1. clock'.open = clock.open
    BY ReportingSteps DEF Reporting
  <2>. QED BY <2>1, ClosingOne, TypesNow DEF seenVars, Fields
<1>2. Plain /\ Between
  BY <1>1 DEF Plain, Between
<1>3. CASE Finished
  <2>1. clock' = [clock EXCEPT !.at = "idle", !.closing = Empty]
    BY <1>3, ClosingOne
  <2>2. DOMAIN clock.closing = {} /\ clock'.at = "idle"
    BY <1>1, <1>3, <2>1, ClosedAll DEF ClockType
  <2>3. HeldDelta(0)' = HeldDelta(0)
    BY <1>1, <1>3, ClosingFrom DEF HeldDelta
  <2>4. Depth' = Depth /\ (HoldsSome => HoldsSome') /\ Between'
    BY <1>1, <2>2, <2>3 DEF Depth, HoldsSome, Between
  <2>. QED BY <1>1, <1>2, <2>4, ExactBetween
<1>4. CASE ~Finished
  <2>1. PICK at \in {"quiet", "snapshot"} :
          clock' = [clock EXCEPT !.at = at, !.k = NextWindow, !.total = NextTotal,
                                 !.closing = Without(clock.closing, NextWindow)]
    BY <1>4, ClosingOne
  <2>2. clock'.at = at /\ clock'.total = NextTotal
    <3> DEFINE k == NextWindow
               total == NextTotal
               w == Without(clock.closing, k)
    <3>1. clock' = [clock EXCEPT !.at = at, !.k = k, !.total = total, !.closing = w]
      BY <2>1
    <3>. HIDE DEF k, total, w
    <3>2. clock'.at = at /\ clock'.total = total
      BY <1>1, <3>1 DEF ClockType
    <3>. QED BY <3>2 DEF total
  <2>3. sure => backlogSeen = Depth
    BY <1>2 DEF Exact
  <2>4. HeldFrom(win', clock'.closing, "delta", 0) =
          HeldFrom(win, clock.closing, "delta", 0) - (IF NextWindow >= 0 THEN NextTotal["delta"] ELSE 0)
    BY <1>1, <1>4, ClosingFrom
  <2>5. NextWindow \in Nat /\ NextTotal.delta \in Int
    BY NextTypes, ClosingOne
  <2>6. HeldDelta(0)' = HeldDelta(0) - NextTotal.delta
    BY <2>4, <2>5 DEF HeldDelta
  <2>7. Depth' = Depth + NextTotal.delta
    <3>1. HeldDelta(0) \in Int /\ acc.backlog \in Nat
      BY DepthTypes
    <3>2. Depth' = acc.backlog - HeldDelta(0)'
      BY <1>1 DEF Depth
    <3>. QED BY <2>5, <2>6, <3>1, <3>2 DEF Depth
  <2>. QED BY <1>1, <2>2, <2>3, <2>7 DEF Exact, Between
<1>. QED BY <1>3, <1>4

(* A recovery snapshot tells the backlog: exact as soon as nothing is held. *)
LEMMA ExactSnapshot ==
    ASSUME Types, RecoverySnapshot, UNCHANGED win, clock'.closing = clock.closing,
           clock'.at \in {"idle", "window", "quiet"}
    PROVE  Exact'
<1>1. backlogSeen' = acc.backlog /\ sure' = FALSE /\ acc'.backlog = acc.backlog
  BY TypesNow DEF RecoverySnapshot, AccType
<1>2. Depth' = Depth /\ (HoldsSome' <=> HoldsSome)
  BY <1>1, DepthSame
<1>3. ~HoldsSome => Depth = acc.backlog
  BY DepthTypes
<1>. QED BY <1>1, <1>2, <1>3 DEF Exact, Between

LEMMA ExactReporting ==
    Types /\ Held /\ Sessions /\ Told /\ Entered /\ Exact /\ Reporting => Exact'
<1> SUFFICES ASSUME Types, Held, Sessions, Told, Entered, Exact, Reporting, Plain' PROVE Exact'
  BY DEF Exact
<1>1. clock'.open = clock.open /\ acc'.backlog = acc.backlog /\ UNCHANGED <<call, token, clean>>
  BY ReportingSteps
<1>2. StType(st) /\ ClockType(clock) /\ "delta" \in Fields /\ 0 \in Nat
  BY TypesNow DEF Fields
<1>3. CASE Sheds
  <2>1. clock'.at = "recover"
    BY <1>2, <1>3 DEF Sheds, ClockType
  <2>. QED BY <2>1 DEF Exact, Between
<1>4. CASE GivesUp
  <2>1. clock'.at = "shed"
    BY <1>2, <1>4 DEF GivesUp, ClockType
  <2>. QED BY <2>1 DEF Exact, Between
<1>5. CASE ClosesUntil
  <2>1. win' = win /\ clock.at = "close" /\ UNCHANGED <<backlogSeen, sure>>
    BY <1>5 DEF ClosesUntil, seenVars
  <2>2. clock'.closing = clock.closing /\ clock'.at \in {"idle", "shed", "take"}
    BY <1>2, <1>5 DEF ClosesUntil, ClockType
  <2>3. st'.saturated = st.saturated
    BY <1>2, <1>5 DEF ClosesUntil, StType
  <2>4. Depth' = Depth /\ (HoldsSome' <=> HoldsSome)
    BY <1>1, <2>1, <2>2, DepthSame
  <2>5. Plain' => Plain
    BY <1>1, <2>3 DEF Plain
  <2>6. CASE clock'.at = "shed"
    BY <2>6 DEF Exact, Between
  <2>7. CASE clock'.at \in {"idle", "take"}
    BY <2>1, <2>4, <2>5, <2>7, ExactBetween DEF Between
  <2>. QED BY <2>2, <2>6, <2>7
<1>6. CASE Takes
  <2> DEFINE m == Merged(clock.k, clock.end)
             w == [j \in DOMAIN win \ Below(clock.end) |-> win[j]]
  <2>1. /\ clock.at = "take" /\ UNCHANGED <<st, backlogSeen, sure>>
        /\ clock' = [clock EXCEPT !.at = "window", !.closing = m] /\ win' = w
    BY <1>6 DEF Takes, seenVars
  <2>2. DOMAIN m = Below(clock.end) /\ DOMAIN w = DOMAIN win \ Below(clock.end)
    BY <2>1, Taken
  <2>. HIDE DEF m, w
  <2>3. clock'.at = "window" /\ clock'.closing = m
    BY <1>2, <2>1 DEF ClockType
  <2>4. DOMAIN clock.closing = {}
    BY <2>1, EmptyWindows DEF Held, InWindow
  <2>5. HoldsSome => HoldsSome'
    BY <2>1, <2>2, <2>3, <2>4 DEF HoldsSome
  <2>6. HeldDelta(0)' = HeldDelta(0)
    BY <1>2, <1>6, TakenFrom DEF HeldDelta
  <2>7. Depth' = Depth /\ (Plain' => Plain)
    BY <1>1, <2>1, <2>6 DEF Depth, Plain
  <2>. QED BY <2>1, <2>3, <2>5, <2>7, ExactBetween DEF Between
<1>7. CASE ClosesOne
  BY <1>7, ExactClosesOne
<1>8. CASE SnapshotsInWindow
  <2>1. RecoverySnapshot /\ UNCHANGED win /\ clock' = [clock EXCEPT !.at = "quiet"]
    BY <1>8 DEF SnapshotsInWindow
  <2>2. clock'.at = "quiet" /\ clock'.closing = clock.closing
    BY <1>2, <2>1 DEF ClockType
  <2>. QED BY <2>1, <2>2, ExactSnapshot
<1>9. CASE Recovers
  <2>1. RecoverySnapshot /\ UNCHANGED win /\ clock' = [clock EXCEPT !.at = "idle"]
    BY <1>9 DEF Recovers
  <2>2. clock'.at = "idle" /\ clock'.closing = clock.closing
    BY <1>2, <2>1 DEF ClockType
  <2>. QED BY <2>1, <2>2, ExactSnapshot
<1>10. CASE TestsQuiet
  <2>1. /\ win' = win /\ clock'.closing = clock.closing /\ st' = st
        /\ UNCHANGED <<backlogSeen, sure, acc>> /\ clock.at = "quiet"
    BY <1>10, HeldInWindow DEF TestsQuiet
  <2>2. Depth' = Depth /\ (HoldsSome' <=> HoldsSome) /\ Plain
    BY <1>1, <2>1, DepthSame DEF Plain
  <2>3. \/ Quiet /\ clock'.at = "window"
        \/ clock'.at = "depth" /\ clock'.total = clock.total
    BY <1>2, <1>10 DEF TestsQuiet, ClockType
  <2>4. sure => backlogSeen + clock.total.delta = Depth
    BY <2>1, <2>2 DEF Exact
  <2>5. CASE Quiet /\ clock'.at = "window"
    <3>1. backlogSeen = 0 /\ clock.total.delta = 0 /\ acc.backlog = 0
      BY <2>1, <2>2, <2>5 DEF Quiet, Told, Plain
    <3>2. sure => backlogSeen = Depth
      BY <2>4, <3>1
    <3>3. ~HoldsSome => Depth = 0
      BY <3>1, DepthTypes
    <3>4. sure \in BOOLEAN
      BY DEF Types, WindowsTypeOK
    <3>. QED BY <2>1, <2>2, <2>5, <3>1, <3>2, <3>3, <3>4 DEF Exact, Between
  <2>6. CASE clock'.at = "depth" /\ clock'.total = clock.total
    BY <2>1, <2>2, <2>4, <2>6 DEF Exact, Between
  <2>. QED BY <2>3, <2>5, <2>6
<1>11. CASE ReadsDepth
  <2>1. /\ win' = win /\ clock'.closing = clock.closing /\ st' = st
        /\ UNCHANGED <<backlogSeen, sure>> /\ clock.at = "depth"
    BY <1>11, HeldInWindow DEF ReadsDepth, seenVars
  <2>2. Depth' = Depth /\ Plain
    BY <1>1, <2>1, DepthSame DEF Plain
  <2> DEFINE value == IF DepthNow = 0 /\ ~acc.nonzero THEN NoItem ELSE DepthNow
             watch == DepthNow # 0 \/ acc.backlog # 0
  <2>3. clock'.at = "emit" /\ clock'.value = value
    <3>1. clock' = [clock EXCEPT !.at = "emit", !.value = value, !.watch = watch]
      BY <1>11 DEF ReadsDepth
    <3>. HIDE DEF value, watch
    <3>. QED BY <1>2, <3>1 DEF ClockType
  <2>4. DepthNow = Depth /\ DepthNow \in Nat /\ NoItem \notin Nat
    BY <2>2, DepthCounts, ReadTypes DEF NoItem
  <2>5. ~acc.nonzero => backlogSeen = 0
    BY <2>1, <2>2 DEF Told, Plain
  <2>. QED BY <2>1, <2>2, <2>3, <2>4, <2>5 DEF Exact, Between
<1>12. CASE EmitsDepth
  <2>1. /\ win' = win /\ clock'.closing = clock.closing /\ st' = st /\ clock.at = "emit"
        /\ clock'.at = "window"
    BY <1>2, <1>12, HeldInWindow DEF EmitsDepth, ClockType
  <2>2. CASE RecoverySnapshot
    BY <2>1, <2>2, ExactSnapshot
  <2>3. CASE backlogSeen' = (IF clock.value = NoItem THEN backlogSeen ELSE clock.value) /\ acc' = acc
    <3>1. Depth' = Depth /\ Plain
      BY <1>1, <2>1, <2>3, DepthSame DEF Plain
    <3>2. backlogSeen' = Depth
      BY <2>1, <2>3, <3>1 DEF Exact
    <3>. QED BY <2>1, <3>1, <3>2 DEF Exact, Between
  <2>. QED BY <1>12, <2>2, <2>3 DEF EmitsDepth
<1>. QED BY <1>3, <1>4, <1>5, <1>6, <1>7, <1>8, <1>9, <1>10, <1>11, <1>12 DEF Reporting

LEMMA ExactStep ==
    Types /\ Held /\ Sessions /\ Told /\ Entered /\ Exact /\ [Next]_vars => Exact'
<1> SUFFICES ASSUME Types, Held, Sessions, Told, Entered, Exact, [Next]_vars PROVE Exact'
  OBVIOUS
<1>1. CASE Tick \/ UNCHANGED vars
  BY <1>1, ExactIdle DEF Tick, vars, seenVars
<1>2. CASE Reporting
  BY <1>2, ExactReporting
<1>3. CASE BeginsSession \/ Anchors \/ Clears \/ StartsAcc
  <2>1. Starting /\ ClockType(clock)
    BY <1>3, TypesNow DEF BeginsSession, Anchors, Clears, StartsAcc, Starting, StartingAts
  <2>2. clock'.open = clock.open
    BY <1>3, <2>1 DEF BeginsSession, Anchors, Clears, StartsAcc, ClockType
  <2>3. ~clock'.open
    BY <2>1, <2>2 DEF Sessions, Begins
  <2>. QED BY <2>3 DEF Exact, Plain
<1>4. CASE GoesLive
  <2>1. SUFFICES ASSUME Plain' PROVE Exact'
    BY DEF Exact
  <2>2. clean /\ clock'.at = "idle" /\ backlogSeen' = 0
    BY <1>4, <2>1 DEF GoesLive, Plain, IdleClock
  <2>3. acc'.backlog = 0 /\ win' = Empty /\ clock'.closing = Empty
    BY <1>4, <2>2, NobodyInside
  <2>4. HeldDelta(0)' = 0
    BY <2>3, EmptyWindows, FromEmpty DEF HeldDelta, HeldFrom
  <2>5. Depth' = 0
    BY <2>3, <2>4 DEF Depth
  <2>. QED BY <2>2, <2>5 DEF Exact, Between
<1>5. CASE StepStarts
  <2>1. SUFFICES ASSUME Plain' PROVE Exact'
    BY DEF Exact
  <2>2. ClockType(clock) /\ StType(st)
    BY TypesNow
  <2>3. clock.open /\ clock' = [clock EXCEPT !.at = "close", !.t = now'] /\ st' = st /\ clock.at = "idle"
    BY <1>5, <2>1, <2>2 DEF StepStarts, Plain, ClockType
  <2>4. clock'.open /\ clock'.closing = clock.closing /\ clean' = clean /\ clock'.at = "close"
    BY <1>5, <2>2, <2>3 DEF ClockType, StepStarts
  <2>5. UNCHANGED <<win, acc, backlogSeen, sure>>
    BY <1>5 DEF StepStarts
  <2>6. Plain' => Plain
    BY <2>3, <2>4 DEF Plain
  <2>7. Depth' = Depth /\ (HoldsSome' <=> HoldsSome)
    BY <2>4, <2>5, DepthSame
  <2>. QED BY <2>3, <2>4, <2>5, <2>6, <2>7, ExactBetween DEF Between
<1>6. CASE \E th \in Threads : Caller(th)
  <2>1. PICK th \in Threads : Caller(th)
    BY <1>6
  <2>2. CASE Records(th)
    BY <2>2, ExactRecords
  <2>3. CASE ~Records(th)
    <3>1. UNCHANGED <<st, win, acc, clock, clean, backlogSeen, sure>>
      BY <2>1, <2>3 DEF Caller, Starts, ReadsClock, Judges, ReadsSession, ReadsT, Reads, seenVars
    <3>. QED BY <3>1, ExactIdle
  <2>. QED BY <2>2, <2>3
<1>. QED BY <1>1, <1>2, <1>3, <1>4, <1>5, <1>6 DEF Next, ClockThread, Reporting

LEMMA SessionsHold == Spec => [](Sessions /\ Told /\ Entered /\ Exact)
<1>1. Init => Sessions /\ Told
  BY SessionsInit
<1>2. Init => Entered /\ Exact
  BY DEF Init, IdleClock, Entered, Exact, Plain
<1>3. (Types /\ Held) /\ (Sessions /\ Told /\ Entered /\ Exact) /\ [Next]_vars
      => (Sessions /\ Told /\ Entered /\ Exact)'
  BY SessionsStep, ToldStep, EnteredStep, ExactStep
<1>. QED BY <1>1, <1>2, <1>3, PlacesHold, PTL DEF Spec

(* Between two windows of a session that began cleanly, and while no count *)
(* has been refused, the observer holds the depth at the last boundary.    *)
THEOREM DepthIsExact == Spec => []DepthExact
<1>1. Types /\ Exact => DepthExact
  <2>1. SUFFICES ASSUME Types, Exact, clean, sure, clock.open, ~st.saturated,
                        clock.at \in {"idle", "window"}
                 PROVE  backlogSeen = acc.backlog - Later
    BY DEF DepthExact
  <2>2. backlogSeen = Depth
    BY <2>1 DEF Exact, Plain, Between
  <2>. QED BY <2>1, <2>2, DepthTypes DEF Depth
<1>. QED BY <1>1, PlacesHold, SessionsHold, PTL

(* Once every count is reported, the observer holds the number of items of *)
(* this session still inside, whatever was shed or recovered before.       *)
THEOREM DepthCountsItems == Spec => []DepthSettles
<1>1. Types /\ Held /\ Sessions /\ Exact => DepthSettles
  <2>1. SUFFICES ASSUME Types, Held, Sessions, Exact, clean, Settled
                 PROVE  backlogSeen = Cardinality(Inside)
    BY DEF DepthSettles, Inside
  <2>2. /\ clock.open /\ clock.at = "idle" /\ ~st.saturated /\ win = Empty /\ clock.closing = Empty
    BY <2>1 DEF Settled, Held, InWindow
  <2>3. ~HoldsSome
    BY <2>2, EmptyWindows DEF HoldsSome
  <2>4. backlogSeen = Depth /\ Depth = acc.backlog
    BY <2>1, <2>2, <2>3, DepthTypes DEF Exact, Plain, Between
  <2>. QED BY <2>1, <2>2, <2>4 DEF Sessions, CleanSession
<1>. QED BY <1>1, PlacesHold, SessionsHold, PTL
=============================================================================
