--------------------------- MODULE ReporterProofs ---------------------------
(***************************************************************************)
(* Proofs about Reporter, for any queue, any batch and any number of       *)
(* calls, connections and faults.                                          *)
(*                                                                         *)
(* The source: the events that wait for the clock lead from its mirror to  *)
(* the registry (SourceInv).  The pipe: what the queue and the batch hold  *)
(* continues, line by line, what the observer has been shown (PipeInv).    *)
(* The sink: close() leaves none open, although the writer may open one    *)
(* while close() is under way (SinkInv).                                   *)
(***************************************************************************)
EXTENDS Reporter, SequenceTheorems, WellFoundedInduction, TLAPS

(* A set that contains 0 and the successor of each of its members up to n  *)
(* contains every number up to n: there is no least counterexample.        *)
LEMMA UpTo ==
    ASSUME NEW n \in Nat, NEW S, 0 \in S,
           \A i \in 0..n : i \in S /\ i < n => i + 1 \in S
    PROVE  0..n \subseteq S
<1> DEFINE bad == (0..n) \ S
<1>1. SUFFICES ASSUME bad # {} PROVE FALSE
  OBVIOUS
<1>2. PICK x \in bad : \A y \in bad : ~(y < x)
  <2>1. bad \subseteq Nat
    OBVIOUS
  <2>. HIDE DEF bad
  <2>2. \E x \in bad : \A y \in bad : ~(<<y, x>> \in OpToRel(<, Nat))
    BY <1>1, <2>1, NatLessThanWellFounded, WFMin
  <2>3. PICK x \in bad : \A y \in bad : ~(<<y, x>> \in OpToRel(<, Nat))
    BY <2>2
  <2>. QED BY <2>1, <2>3 DEF OpToRel
<1>3. x \in 0..n /\ x \notin S /\ x # 0
  BY <1>2
<1>4. x - 1 \in 0..n /\ x - 1 < x /\ x - 1 < n
  BY <1>3
<1>5. x - 1 \in S
  BY <1>2, <1>4
<1>. QED BY <1>3, <1>4, <1>5

-----------------------------------------------------------------------------
(* Applying a sequence of events.  ApplyAll folds over the indices of the  *)
(* sequence, the last one first.                                           *)

Folded(it, g, evs, n) ==
    it = [s \in SUBSET (1..n) |->
             IF s = {} THEN g ELSE Apply(it[s \ {Max(s)}], evs[Max(s)])]

LEMMA FoldChosen ==
    ASSUME NEW evs, DOMAIN evs = 1..Len(evs)
    PROVE  \A g : ApplyAll(g, evs) = (CHOOSE it : Folded(it, g, evs, Len(evs)))[1..Len(evs)]
BY DEF ApplyAll, FoldLeft, MapThenFoldSet, Folded

LEMMA MaxUpTo ==
    ASSUME NEW n \in Nat, NEW s \in SUBSET (1..n + 1), n + 1 \in s
    PROVE  Max(s) = n + 1 /\ s \ {n + 1} \in SUBSET (1..n)
<1>1. \A y \in s : n + 1 >= y
  OBVIOUS
<1>2. \A x \in s : (\A y \in s : x >= y) => x = n + 1
  OBVIOUS
<1>3. Max(s) = n + 1
  BY <1>1, <1>2 DEF Max
<1>. QED BY <1>3

LEMMA FoldExists ==
    ASSUME NEW g, NEW evs, NEW n \in Nat
    PROVE  \E it : Folded(it, g, evs, n)
<1> DEFINE S == {i \in Nat : \E it : Folded(it, g, evs, i)}
<1>1. 0 \in S
  <2>1. Folded([s \in SUBSET (1..0) |-> g], g, evs, 0)
    BY DEF Folded
  <2>. QED BY <2>1
<1>2. ASSUME NEW i \in 0..n, i \in S, i < n PROVE i + 1 \in S
  <2>1. PICK it : Folded(it, g, evs, i)
    BY <1>2
  <2> DEFINE to == [s \in SUBSET (1..i + 1) |->
                      IF i + 1 \in s THEN Apply(it[s \ {i + 1}], evs[i + 1]) ELSE it[s]]
  <2>2. ASSUME NEW s \in SUBSET (1..i + 1)
        PROVE  to[s] = IF s = {} THEN g ELSE Apply(to[s \ {Max(s)}], evs[Max(s)])
    <3>1. CASE i + 1 \in s
      <4>1. Max(s) = i + 1 /\ s \ {i + 1} \in SUBSET (1..i + 1) /\ i + 1 \notin s \ {i + 1}
        BY <3>1, MaxUpTo
      <4>2. to[s \ {i + 1}] = it[s \ {i + 1}]
        BY <4>1
      <4>. QED BY <3>1, <4>1, <4>2
    <3>2. CASE i + 1 \notin s
      <4>0. i \in Nat /\ \A x \in s : x \in 1..i
        BY <3>2
      <4> DEFINE m == Max(s)
      <4>. HIDE DEF m
      <4>1. s \in SUBSET (1..i) /\ s \ {m} \in SUBSET (1..i + 1) /\ i + 1 \notin s \ {m}
        BY <3>2, <4>0
      <4>. USE DEF m
      <4>2. to[s] = it[s] /\ to[s \ {Max(s)}] = it[s \ {Max(s)}]
        BY <3>2, <4>1
      <4>3. it[s] = IF s = {} THEN g ELSE Apply(it[s \ {Max(s)}], evs[Max(s)])
        BY <2>1, <4>1 DEF Folded
      <4>. QED BY <4>2, <4>3
    <3>. QED BY <3>1, <3>2
  <2>3. Folded(to, g, evs, i + 1)
    <3>1. to = [s \in SUBSET (1..i + 1) |-> to[s]]
      OBVIOUS
    <3>. HIDE DEF to
    <3>. QED BY <2>2, <3>1 DEF Folded
  <2>. QED BY <2>3
<1>. HIDE DEF S
<1>3. 0..n \subseteq S
  BY <1>1, <1>2, UpTo
<1>. QED BY <1>3 DEF S

(* Graphs that follow from one another by the events end in what ApplyAll  *)
(* computes.                                                               *)
LEMMA ApplyAlong ==
    ASSUME NEW E, NEW evs \in Seq(E), NEW h, NEW k \in Nat,
           \A i \in 1..Len(evs) : h[k + i] = Apply(h[k + i - 1], evs[i])
    PROVE  ApplyAll(h[k], evs) = h[k + Len(evs)]
<1> DEFINE n == Len(evs)
           it == CHOOSE f : Folded(f, h[k], evs, n)
           S == {i \in Nat : it[1..i] = h[k + i]}
<1>0. n \in Nat /\ DOMAIN evs = 1..n
  BY LenProperties
<1>1. Folded(it, h[k], evs, n)
  BY <1>0, FoldExists
<1>2. ApplyAll(h[k], evs) = it[1..n]
  BY <1>0, FoldChosen
<1>. HIDE DEF it
<1>3. 0 \in S
  <2>1. {} \in SUBSET (1..n) /\ 1..0 = {} /\ k + 0 = k
    OBVIOUS
  <2>2. it[{}] = h[k]
    BY <1>1, <2>1 DEF Folded
  <2>. QED BY <2>1, <2>2
<1>4. ASSUME NEW i \in 0..n, i \in S, i < n PROVE i + 1 \in S
  <2>0. i \in Nat /\ i + 1 <= n
    BY <1>0, <1>4
  <2>. HIDE DEF n
  <2>1. /\ 1..i + 1 \in SUBSET (1..n) /\ 1..i + 1 # {} /\ i + 1 \in 1..i + 1
        /\ (1..i + 1) \ {i + 1} = 1..i
    <3>1. /\ i + 1 \in 1..i + 1
          /\ \A x \in 1..i + 1 : x \in 1..n
      BY <1>0, <2>0
    <3>2. \A x : x \in (1..i + 1) \ {i + 1} <=> x \in 1..i
      BY <2>0
    <3>. QED BY <3>1, <3>2
  <2>2. Max(1..i + 1) = i + 1
    BY <2>0, <2>1, MaxUpTo
  <2>3. it[1..i + 1] = Apply(it[1..i], evs[i + 1])
    <3>1. \A s \in SUBSET (1..n) :
             it[s] = IF s = {} THEN h[k] ELSE Apply(it[s \ {Max(s)}], evs[Max(s)])
      BY <1>1 DEF Folded
    <3>. QED BY <2>1, <2>2, <3>1
  <2>4. h[k + (i + 1)] = Apply(h[k + (i + 1) - 1], evs[i + 1]) /\ k + (i + 1) - 1 = k + i
    BY <1>0, <2>0 DEF n
  <2>5. it[1..i] = h[k + i]
    BY <1>4
  <2>. QED BY <2>0, <2>3, <2>4, <2>5
<1>. HIDE DEF S, n
<1>5. 0..n \subseteq S
  BY <1>0, <1>3, <1>4, UpTo
<1>6. it[1..n] = h[k + n]
  BY <1>0, <1>5 DEF S
<1>. QED BY <1>2, <1>6 DEF n

-----------------------------------------------------------------------------
(* The writer's loop over the lines it has taken keeps all of them or none *)
(* if they are of one connection.                                          *)

Keeps(f, s) ==
    f = [n \in 0..Len(s) |->
           IF n = 0 THEN <<>>
           ELSE IF OfConnection(s[n]) THEN Append(f[n - 1], s[n]) ELSE f[n - 1]]

LEMMA KeptChosen == \A s : Kept(s) = (CHOOSE f : Keeps(f, s))[Len(s)]
BY DEF Kept, Keeps

LEMMA KeptIs ==
    ASSUME NEW s, Len(s) \in Nat, NEW f, Keeps(f, s)
    PROVE  Kept(s) = f[Len(s)]
<1> DEFINE n == Len(s)
           g == CHOOSE e : Keeps(e, s)
           S == {i \in Nat : g[i] = f[i]}
<1>1. Keeps(g, s)
  OBVIOUS
<1>. HIDE DEF g
<1>2. ASSUME NEW e, Keeps(e, s)
      PROVE  /\ e[0] = <<>>
             /\ \A i \in 0..n : i < n =>
                   e[i + 1] = IF OfConnection(s[i + 1]) THEN Append(e[i], s[i + 1]) ELSE e[i]
  <2>1. \A i \in 0..n : e[i] = IF i = 0 THEN <<>>
           ELSE IF OfConnection(s[i]) THEN Append(e[i - 1], s[i]) ELSE e[i - 1]
    BY <1>2 DEF Keeps
  <2>2. \A i \in 0..n : i < n => i + 1 \in 0..n /\ i + 1 # 0 /\ (i + 1) - 1 = i
    OBVIOUS
  <2>. HIDE DEF n
  <2>3. 0 \in 0..n
    BY DEF n
  <2>. QED BY <2>1, <2>2, <2>3
<1>3. 0 \in S
  BY <1>1, <1>2
<1>4. ASSUME NEW i \in 0..n, i \in S, i < n PROVE i + 1 \in S
  <2>1. f[i + 1] = g[i + 1]
    BY <1>1, <1>2, <1>4
  <2>. QED BY <2>1
<1>. HIDE DEF S
<1>5. 0..n \subseteq S
  BY <1>3, <1>4, UpTo
<1>6. g[n] = f[n]
  BY <1>5 DEF S
<1>. QED BY <1>6, KeptChosen DEF g

LEMMA KeptAll ==
    ASSUME NEW L, NEW s \in Seq(L), \A i \in 1..Len(s) : OfConnection(s[i])
    PROVE  Kept(s) = s
<1> DEFINE f == [n \in 0..Len(s) |-> SubSeq(s, 1, n)]
<1>0. Len(s) \in Nat /\ \A i \in 1..Len(s) : s[i] \in L
  BY LenProperties, ElementOfSeq
<1>1. ASSUME NEW n \in 0..Len(s)
      PROVE  f[n] = IF n = 0 THEN <<>>
                    ELSE IF OfConnection(s[n]) THEN Append(f[n - 1], s[n]) ELSE f[n - 1]
  <2>1. CASE n = 0
    BY <2>1, SubSeqEmpty
  <2>2. CASE n # 0
    <3>1. n \in 1..Len(s) /\ n - 1 \in 0..Len(s) /\ 1 \in 1..n
      BY <1>0, <2>2
    <3>2. SubSeq(s, 1, n) = Append(SubSeq(s, 1, n - 1), s[n])
      BY <1>0, <3>1, SubSeqRecursiveSecond
    <3>. QED BY <2>2, <3>1, <3>2
  <2>. QED BY <2>1, <2>2
<1>2. Keeps(f, s)
  <2>1. f = [n \in 0..Len(s) |-> f[n]]
    OBVIOUS
  <2>. HIDE DEF f
  <2>. QED BY <1>1, <2>1 DEF Keeps
<1>3. Kept(s) = SubSeq(s, 1, Len(s))
  BY <1>0, <1>2, KeptIs
<1>. QED BY <1>3, SubSeqFull

LEMMA KeptNone ==
    ASSUME NEW L, NEW s \in Seq(L), \A i \in 1..Len(s) : ~OfConnection(s[i])
    PROVE  Kept(s) = <<>>
<1> DEFINE f == [n \in 0..Len(s) |-> <<>>]
<1>0. Len(s) \in Nat
  BY LenProperties
<1>1. Keeps(f, s)
  BY <1>0 DEF Keeps
<1>. QED BY <1>0, <1>1, KeptIs

-----------------------------------------------------------------------------
(* Graphs.  An item hangs from items of the graph that are older, so that  *)
(* what is above an item is well defined, and a removal takes with an item *)
(* all that hangs from it.                                                 *)

Kinds == {"element", "link", "span"}

Graphs == UNION {[d -> [kind : Kinds, on : SUBSET Nat]] : d \in SUBSET Nat}

Sound(g, n) ==
    /\ g \in Graphs
    /\ DOMAIN g \subseteq 1..n
    /\ \A i \in DOMAIN g : g[i].on \subseteq {j \in DOMAIN g : j < i}

LEMMA GraphForm ==
    ASSUME NEW g
    PROVE  g \in Graphs <=> /\ g = [i \in DOMAIN g |-> g[i]]
                            /\ DOMAIN g \subseteq Nat
                            /\ \A i \in DOMAIN g : g[i] \in [kind : Kinds, on : SUBSET Nat]
<1> DEFINE Items == [kind : Kinds, on : SUBSET Nat]
<1>. HIDE DEF Items
<1>1. ASSUME NEW d \in SUBSET Nat, g \in [d -> Items]
      PROVE  /\ g = [i \in DOMAIN g |-> g[i]] /\ DOMAIN g \subseteq Nat
             /\ \A i \in DOMAIN g : g[i] \in Items
  BY <1>1
<1>2. ASSUME g = [i \in DOMAIN g |-> g[i]], DOMAIN g \subseteq Nat,
             \A i \in DOMAIN g : g[i] \in Items
      PROVE  DOMAIN g \in SUBSET Nat /\ g \in [DOMAIN g -> Items]
  BY <1>2
<1>. QED BY <1>1, <1>2 DEF Graphs, Items

LEMMA NoGraphSound == \A n \in Nat : Sound(NoGraph, n)
<1>1. DOMAIN NoGraph = {} /\ NoGraph = [i \in DOMAIN NoGraph |-> NoGraph[i]]
  BY DEF NoGraph
<1>. HIDE DEF NoGraph
<1>2. NoGraph \in Graphs
  BY <1>1, GraphForm
<1>. QED BY <1>1, <1>2 DEF Sound

IsAbove(a, g, d) == a = [i \in d |-> {i} \union UNION {a[j] : j \in g[i].on}]

LEMMA AboveChosen == \A g : Above(g) = CHOOSE a : IsAbove(a, g, DOMAIN g)
BY DEF Above, IsAbove

LEMMA AboveClosed ==
    ASSUME NEW g, NEW n \in Nat, Sound(g, n)
    PROVE  \A i \in DOMAIN g : /\ i \in Above(g)[i]
                               /\ \A j \in g[i].on : Above(g)[j] \subseteq Above(g)[i]
<1> DEFINE Upto(m) == {i \in DOMAIN g : i <= m}
           S == {m \in Nat : \E a : IsAbove(a, g, Upto(m))}
<1>0. /\ DOMAIN g \subseteq 1..n
      /\ \A i \in DOMAIN g : g[i].on \subseteq {j \in DOMAIN g : j < i}
  BY DEF Sound
<1>1. 0 \in S
  <2>1. Upto(0) = {}
    BY <1>0
  <2>2. IsAbove([i \in {} |-> {}], g, {})
    BY DEF IsAbove
  <2>. QED BY <2>1, <2>2
<1>2. ASSUME NEW m \in 0..n, m \in S, m < n PROVE m + 1 \in S
  <2>1. PICK a : IsAbove(a, g, Upto(m))
    BY <1>2
  <2> DEFINE b == [i \in Upto(m + 1) |->
                     {i} \union UNION {a[j] : j \in g[i].on}]
  <2>2. \A i \in Upto(m + 1) : \A j \in g[i].on : j \in Upto(m) /\ j \in Upto(m + 1)
    BY <1>0
  <2>3. \A j \in Upto(m) : b[j] = a[j]
    <3>1. \A j \in Upto(m) : a[j] = {j} \union UNION {a[k] : k \in g[j].on}
      BY <2>1 DEF IsAbove
    <3>2. \A j \in Upto(m) : j \in Upto(m + 1)
      BY <1>0
    <3>. HIDE DEF Upto
    <3>. QED BY <3>1, <3>2
  <2>4. IsAbove(b, g, Upto(m + 1))
    <3>1. \A i \in Upto(m + 1) : {a[j] : j \in g[i].on} = {b[j] : j \in g[i].on}
      <4>. HIDE DEF Upto, b
      <4>. QED BY <2>2, <2>3
    <3>2. \A i \in Upto(m + 1) : b[i] = {i} \union UNION {b[j] : j \in g[i].on}
      <4>1. \A i \in Upto(m + 1) : b[i] = {i} \union UNION {a[j] : j \in g[i].on}
        OBVIOUS
      <4>. HIDE DEF Upto, b
      <4>. QED BY <3>1, <4>1
    <3>3. b = [i \in Upto(m + 1) |-> b[i]]
      OBVIOUS
    <3> DEFINE D == Upto(m + 1)
               c(i) == {i} \union UNION {b[j] : j \in g[i].on}
    <3>. HIDE DEF b, Upto
    <3>4. \A i \in D : b[i] = c(i)
      BY <3>2
    <3>5. b = [i \in D |-> b[i]]
      BY <3>3
    <3>. HIDE DEF D, c
    <3>6. b = [i \in D |-> c(i)]
      BY <3>4, <3>5
    <3>. QED BY <3>6 DEF IsAbove, D, c
  <2>. HIDE DEF b, Upto
  <2>5. \E x : IsAbove(x, g, Upto(m + 1))
    BY <2>4
  <2>. QED BY <2>5
<1>3. \E a : IsAbove(a, g, DOMAIN g)
  <2>1. Upto(n) = DOMAIN g
    BY <1>0
  <2>. HIDE DEF S
  <2>2. 0..n \subseteq S
    BY <1>1, <1>2, UpTo
  <2>3. n \in S
    BY <2>2
  <2>. USE DEF S
  <2>. QED BY <2>1, <2>3
<1>4. IsAbove(Above(g), g, DOMAIN g)
  BY <1>3, AboveChosen
<1> DEFINE up == Above(g)
<1>5. \A i \in DOMAIN g : up[i] = {i} \union UNION {up[j] : j \in g[i].on}
  BY <1>4 DEF IsAbove
<1>. HIDE DEF up
<1>6. \A i \in DOMAIN g : i \in up[i] /\ \A j \in g[i].on : up[j] \subseteq up[i]
  BY <1>5
<1>. QED BY <1>6 DEF up

LEMMA RemovedSound ==
    ASSUME NEW g, NEW n \in Nat, Sound(g, n), NEW ids
    PROVE  Sound(Removed(g, ids), n)
<1> DEFINE up == Above(g)
           d == {j \in DOMAIN g : up[j] \cap ids = {}}
           r == [i \in d |-> g[i]]
<1>1. \A i \in DOMAIN g : \A j \in g[i].on : up[j] \subseteq up[i]
  BY AboveClosed
<1>. HIDE DEF up
<1>2. /\ DOMAIN g \subseteq 1..n /\ g \in Graphs
      /\ \A i \in DOMAIN g : g[i].on \subseteq {j \in DOMAIN g : j < i}
  BY DEF Sound
<1>3. d \subseteq DOMAIN g /\ \A i \in d : \A j \in g[i].on : j \in d
  BY <1>1, <1>2
<1>4. r = Removed(g, ids)
  BY DEF Removed, up
<1>. HIDE DEF d
<1>5. DOMAIN r = d /\ \A i \in d : r[i] = g[i]
  OBVIOUS
<1>6. r \in Graphs
  BY <1>2, <1>3, <1>5, GraphForm
<1>. HIDE DEF r
<1>7. Sound(r, n)
  BY <1>2, <1>3, <1>5, <1>6 DEF Sound
<1>. QED BY <1>4, <1>7

LEMMA AddedSound ==
    ASSUME NEW g, NEW n \in Nat, Sound(g, n),
           NEW ev, ev.id = n + 1, ev.kind \in Kinds, ev.on \subseteq DOMAIN g
    PROVE  Sound(Apply(g, ev), n + 1)
<1> DEFINE r == [i \in DOMAIN g \union {n + 1} |->
                   IF i = n + 1 THEN [kind |-> ev.kind, on |-> ev.on] ELSE g[i]]
<1>1. Apply(g, ev) = r
  BY DEF Apply, Kinds
<1>2. /\ DOMAIN g \subseteq 1..n /\ g \in Graphs
      /\ \A i \in DOMAIN g : g[i].on \subseteq {j \in DOMAIN g : j < i}
      /\ \A i \in DOMAIN g : g[i] \in [kind : Kinds, on : SUBSET Nat]
  BY GraphForm DEF Sound
<1>3. \A i \in DOMAIN g : i \in Nat /\ i < n + 1 /\ i \in 1..n + 1
  BY <1>2
<1>4. /\ DOMAIN r = DOMAIN g \union {n + 1} /\ DOMAIN r \subseteq Nat /\ DOMAIN r \subseteq 1..n + 1
      /\ r[n + 1] = [kind |-> ev.kind, on |-> ev.on]
      /\ \A i \in DOMAIN g : r[i] = g[i]
      /\ r = [i \in DOMAIN r |-> r[i]]
  BY <1>3
<1>5. [kind |-> ev.kind, on |-> ev.on] \in [kind : Kinds, on : SUBSET Nat]
  BY <1>3
<1>. HIDE DEF r
<1>6. \A i \in DOMAIN r : r[i] \in [kind : Kinds, on : SUBSET Nat]
  BY <1>2, <1>4, <1>5
<1>7. r \in Graphs
  BY <1>4, <1>6, GraphForm
<1>8. \A i \in DOMAIN r : r[i].on \subseteq {j \in DOMAIN r : j < i}
  BY <1>2, <1>3, <1>4
<1>. QED BY <1>1, <1>4, <1>7, <1>8 DEF Sound

-----------------------------------------------------------------------------
(* The source: registry, events waiting, mirror.                           *)

Ops == Kinds \union {"remove", "end"}

Events == [kind : Ops, id : Nat, on : SUBSET Nat]

ClockStates == {"step", "events", "recover", "begin", "opening", "done"}

Clocks == [at : ClockStates, todo : Seq(Events), want : BOOLEAN, epoch : Nat, open : BOOLEAN,
           session : Int, seq : Nat, version : Nat, last : BOOLEAN]

SourceTypes ==
    /\ history \in Seq(Graphs) /\ registry \in Graphs /\ events \in Seq(Events)
    /\ clock \in Clocks
    /\ epoch \in Nat /\ want \in BOOLEAN /\ closing \in BOOLEAN
    /\ closer \in {"none", "joining", "flag", "sink", "closed"}

(* Every graph the registry has been, each made of the items of those      *)
(* before it.                                                              *)
HistoryOK ==
    /\ Len(history) \in 1..MaxCalls + 1
    /\ registry = history[Len(history)]
    /\ \A i \in 1..Len(history) : Sound(history[i], i - 1)

(* The events lead from graph v of a history to the graphs that follow it. *)
Leads(h, v, evs) ==
    /\ v \in 1..Len(h) /\ v + Len(evs) <= Len(h)
    /\ \A i \in 1..Len(evs) : h[v + i] = Apply(h[v + i - 1], evs[i])

Waiting == clock.todo \o events

(* The events still to be applied lead from the mirror to what follows it  *)
(* and, until close() stops them, to the registry.                         *)
SourceInv ==
    /\ SourceTypes
    /\ HistoryOK
    /\ mirror = history[clock.version]
    /\ Leads(history, clock.version, Waiting)
    /\ ~Closed => clock.version + Len(Waiting) = Len(history)
    /\ clock.at \in {"step", "done"} => clock.todo = <<>>

LEMMA LeadsOn ==
    ASSUME NEW h \in Seq(Graphs), NEW evs \in Seq(Events), NEW v, Leads(h, v, evs),
           NEW g \in Graphs
    PROVE  Leads(Append(h, g), v, evs)
<1> DEFINE k == Append(h, g)
<1>1. /\ Len(h) \in Nat /\ Len(evs) \in Nat /\ v \in 1..Len(h) /\ v + Len(evs) <= Len(h)
      /\ Len(k) = Len(h) + 1 /\ \A i \in 1..Len(h) : k[i] = h[i]
  BY LenProperties, AppendProperties DEF Leads
<1>. HIDE DEF k
<1>2. ASSUME NEW i \in 1..Len(evs) PROVE k[v + i] = Apply(k[v + i - 1], evs[i])
  <2>1. v + i \in 1..Len(h) /\ v + i - 1 \in 1..Len(h)
    BY <1>1
  <2>2. h[v + i] = Apply(h[v + i - 1], evs[i])
    BY DEF Leads
  <2>. QED BY <1>1, <2>1, <2>2
<1>. QED BY <1>1, <1>2 DEF Leads, k

LEMMA LeadsFurther ==
    ASSUME NEW h \in Seq(Graphs), NEW evs \in Seq(Events), NEW v, Leads(h, v, evs),
           v + Len(evs) = Len(h), NEW ev \in Events, NEW g \in Graphs,
           g = Apply(h[Len(h)], ev)
    PROVE  Leads(Append(h, g), v, Append(evs, ev))
<1> DEFINE k == Append(h, g)
           e == Append(evs, ev)
           n == Len(evs)
<1>0. Len(h) \in Nat /\ n \in Nat /\ v \in 1..Len(h) /\ v + n = Len(h)
  BY LenProperties DEF Leads
<1>1. /\ Len(k) = Len(h) + 1 /\ k[Len(h) + 1] = g /\ \A i \in 1..Len(h) : k[i] = h[i]
      /\ Len(e) = n + 1 /\ e[n + 1] = ev /\ \A i \in 1..n : e[i] = evs[i]
  BY LenProperties, AppendProperties DEF Leads
<1>2. \A i \in 1..n : h[v + i] = Apply(h[v + i - 1], evs[i])
  BY DEF Leads
<1>. HIDE DEF k, e, n
<1>3. ASSUME NEW i \in 1..n PROVE k[v + i] = Apply(k[v + i - 1], e[i])
  <2>1. v + i \in 1..Len(h) /\ v + i - 1 \in 1..Len(h)
    BY <1>0
  <2>. QED BY <1>1, <1>2, <2>1
<1>4. k[v + (n + 1)] = Apply(k[v + (n + 1) - 1], e[n + 1])
  <2>1. v \in Nat /\ n \in Nat /\ v + n = Len(h) /\ Len(h) \in Nat /\ 1 <= Len(h)
    BY <1>0
  <2>2. v + (n + 1) = Len(h) + 1 /\ v + (n + 1) - 1 = Len(h) /\ Len(h) \in 1..Len(h)
    BY <2>1
  <2>. QED BY <1>1, <2>2
<1>5. \A i \in 1..Len(e) : k[v + i] = Apply(k[v + i - 1], e[i])
  <2>1. \A i \in 1..Len(e) : i \in 1..n \/ i = n + 1
    BY <1>0, <1>1
  <2>. QED BY <1>3, <1>4, <2>1
<1>6. v \in 1..Len(k) /\ v + Len(e) <= Len(k)
  BY <1>0, <1>1
<1>. QED BY <1>5, <1>6 DEF Leads, k, e

LEMMA LeadsNext ==
    ASSUME NEW h \in Seq(Graphs), NEW evs \in Seq(Events), NEW v, Leads(h, v, evs),
           evs # <<>>
    PROVE  /\ h[v + 1] = Apply(h[v], Head(evs))
           /\ Leads(h, v + 1, Tail(evs))
           /\ Tail(evs) \in Seq(Events) /\ Len(Tail(evs)) = Len(evs) - 1
<1> DEFINE e == Tail(evs)
<1>1. /\ Len(h) \in Nat /\ Len(evs) \in Nat /\ Len(evs) > 0
      /\ e \in Seq(Events) /\ Len(e) = Len(evs) - 1 /\ \A i \in 1..Len(e) : e[i] = evs[i + 1]
      /\ Head(evs) = evs[1]
  BY LenProperties, HeadTailProperties, EmptySeq
<1>2. /\ v \in 1..Len(h) /\ v + Len(evs) <= Len(h)
      /\ \A i \in 1..Len(evs) : h[v + i] = Apply(h[v + i - 1], evs[i])
  BY DEF Leads
<1>. HIDE DEF e
<1>3. h[v + 1] = Apply(h[v], Head(evs))
  <2>1. 1 \in 1..Len(evs) /\ v + 1 - 1 = v
    BY <1>1, <1>2
  <2>. QED BY <1>1, <1>2, <2>1
<1>4. ASSUME NEW i \in 1..Len(e) PROVE h[v + 1 + i] = Apply(h[v + 1 + i - 1], e[i])
  <2>1. /\ i + 1 \in 1..Len(evs) /\ v + (i + 1) = v + 1 + i
        /\ v + (i + 1) - 1 = v + 1 + i - 1
    BY <1>1, <1>2
  <2>2. h[v + (i + 1)] = Apply(h[v + (i + 1) - 1], evs[i + 1])
    BY <1>2, <2>1
  <2>3. e[i] = evs[i + 1]
    BY <1>1
  <2>. QED BY <2>1, <2>2, <2>3
<1>5. v + 1 \in 1..Len(h) /\ v + 1 + Len(e) <= Len(h)
  BY <1>1, <1>2
<1>6. Leads(h, v + 1, e)
  BY <1>4, <1>5 DEF Leads
<1>. QED BY <1>1, <1>3, <1>6 DEF e

LEMMA LeadsAll ==
    ASSUME NEW h \in Seq(Graphs), NEW evs \in Seq(Events), NEW v, Leads(h, v, evs)
    PROVE  ApplyAll(h[v], evs) = h[v + Len(evs)]
<1>1. v \in Nat /\ \A i \in 1..Len(evs) : h[v + i] = Apply(h[v + i - 1], evs[i])
  BY LenProperties DEF Leads
<1>. QED BY <1>1, ApplyAlong

LEMMA WaitingType == SourceTypes => Waiting \in Seq(Events) /\ Len(Waiting) \in Nat
<1> SUFFICES ASSUME SourceTypes PROVE Waiting \in Seq(Events)
  BY LenProperties
<1>1. clock.todo \in Seq(Events) /\ events \in Seq(Events)
  BY DEF SourceTypes, Clocks
<1>. QED BY <1>1, ConcatProperties DEF Waiting

LEMMA SourceInit == Init => SourceInv
<1> SUFFICES ASSUME Init PROVE SourceInv
  OBVIOUS
<1>1. SourceTypes
  <2>1. NoGraph \in Graphs
    BY NoGraphSound DEF Sound
  <2>2. <<NoGraph>> \in Seq(Graphs) /\ <<>> \in Seq(Events)
    BY <2>1
  <2>3. clock \in Clocks
    BY <2>2 DEF Init, Clocks, ClockStates
  <2>. QED BY <2>1, <2>2, <2>3 DEF Init, SourceTypes
<1>2. HistoryOK
  <2>1. Len(history) = 1 /\ history[1] = NoGraph /\ registry = NoGraph
    BY DEF Init
  <2>2. MaxCalls \in Nat
    BY ReporterAssumption
  <2>. QED BY <2>1, <2>2, NoGraphSound DEF HistoryOK
<1>3. Waiting = <<>> /\ clock.version = 1 /\ Len(history) = 1 /\ mirror = history[1] /\ clock.todo = <<>>
  BY DEF Init, Waiting
<1>4. Leads(history, 1, <<>>)
  BY <1>3 DEF Leads
<1>. QED BY <1>1, <1>2, <1>3, <1>4 DEF SourceInv

LEMMA ConcatAppend ==
    ASSUME NEW S, NEW s \in Seq(S), NEW t \in Seq(S), NEW x \in S
    PROVE  s \o Append(t, x) = Append(s \o t, x)
<1>1. <<x>> \in Seq(S) /\ s \o t \in Seq(S)
  BY ConcatProperties
<1>2. Append(t, x) = t \o <<x>> /\ Append(s \o t, x) = (s \o t) \o <<x>>
  BY <1>1, AppendIsConcat
<1>3. (s \o t) \o <<x>> = s \o (t \o <<x>>)
  BY <1>1, ConcatAssociative
<1>. QED BY <1>2, <1>3

(* A call of the program.                                                  *)
LEMMA PostStep ==
    ASSUME SourceInv, NEW ev \in Events, Sound(Apply(registry, ev), Len(history)), Post(ev)
    PROVE  SourceInv'
<1>1. /\ Len(history) \in Nat /\ Len(history) >= 1 /\ history \in Seq(Graphs)
      /\ registry = history[Len(history)]
      /\ \A i \in 1..Len(history) : Sound(history[i], i - 1)
  BY DEF SourceInv, SourceTypes, HistoryOK
<1>2. /\ registry' = Apply(registry, ev) /\ registry' \in Graphs
      /\ history' = Append(history, registry')
      /\ events' = IF Closed THEN events ELSE Append(events, ev)
      /\ UNCHANGED <<clock, epoch, want, mirror, closer, closing>>
      /\ Len(history) <= MaxCalls /\ MaxCalls \in Nat
  BY <1>1, ReporterAssumption DEF Post, clockVars, closeVars, Sound, Calls
<1>3. /\ history' \in Seq(Graphs) /\ Len(history') = Len(history) + 1
      /\ \A i \in 1..Len(history) : history'[i] = history[i]
      /\ history'[Len(history) + 1] = registry'
  BY <1>1, <1>2, AppendProperties
<1>4. SourceTypes'
  BY <1>2, <1>3 DEF SourceInv, SourceTypes
<1>5. HistoryOK'
  <2>1. \A i \in 1..Len(history') : Sound(history'[i], i - 1)
    <3>1. ASSUME NEW i \in 1..Len(history') PROVE Sound(history'[i], i - 1)
      <4>1. CASE i = Len(history) + 1
        BY <1>1, <1>2, <1>3, <4>1
      <4>2. CASE i # Len(history) + 1
        BY <1>1, <1>3, <4>2
      <4>. QED BY <4>1, <4>2
    <3>. QED BY <3>1
  <2>. QED BY <1>1, <1>2, <1>3, <2>1 DEF HistoryOK
<1>6. Waiting \in Seq(Events) /\ Len(Waiting) \in Nat
  BY WaitingType DEF SourceInv
<1> DEFINE v == clock.version
<1>7. /\ Leads(history, v, Waiting) /\ v \in Nat
      /\ ~Closed => v + Len(Waiting) = Len(history)
  BY DEF SourceInv, Leads
<1>8. v' = v /\ Closed' = Closed
  BY <1>2 DEF Closed
<1>9. Leads(history, v, Waiting)' /\ (~Closed' => v' + Len(Waiting') = Len(history'))
  <2>1. CASE Closed
    <3>1. Waiting' = Waiting
      BY <1>2, <2>1 DEF Waiting
    <3>. QED BY <1>1, <1>2, <1>6, <1>7, <1>8, <2>1, <3>1, LeadsOn
  <2>2. CASE ~Closed
    <3>1. clock.todo \in Seq(Events) /\ events \in Seq(Events)
      BY DEF SourceInv, SourceTypes, Clocks
    <3>2. Waiting' = Append(Waiting, ev) /\ Len(Waiting') = Len(Waiting) + 1
      <4>1. events' = Append(events, ev) /\ clock' = clock
        BY <1>2, <2>2
      <4>2. clock.todo \o Append(events, ev) = Append(clock.todo \o events, ev)
        <5> DEFINE t == clock.todo
        <5>1. t \in Seq(Events) /\ events \in Seq(Events) /\ ev \in Events
          BY <3>1
        <5>. HIDE DEF t
        <5>2. t \o Append(events, ev) = Append(t \o events, ev)
          BY <5>1, ConcatAppend
        <5>. QED BY <5>2 DEF t
      <4>. QED BY <1>6, <4>1, <4>2, AppendProperties DEF Waiting
    <3>3. Leads(history', v, Waiting')
      <4>. HIDE DEF v
      <4>. QED BY <1>1, <1>2, <1>6, <1>7, <2>2, <3>2, LeadsFurther
    <3>. QED BY <1>1, <1>3, <1>6, <1>7, <1>8, <2>2, <3>2, <3>3
  <2>. QED BY <2>1, <2>2
<1>10. v \in 1..Len(history)
  BY <1>7 DEF Leads
<1>. QED BY <1>2, <1>3, <1>4, <1>5, <1>9, <1>10 DEF SourceInv

LEMMA CallerPosts ==
    ASSUME SourceInv, Caller
    PROVE  \E ev \in Events : Sound(Apply(registry, ev), Len(history)) /\ Post(ev)
<1> DEFINE n == Len(history) - 1
<1>1. /\ n \in Nat /\ Len(history) = n + 1 /\ NextId = n + 1 /\ Sound(registry, n)
  <2>1. Len(history) \in Nat /\ Len(history) >= 1
    BY DEF SourceInv, HistoryOK
  <2>2. Sound(history[Len(history)], Len(history) - 1) /\ registry = history[Len(history)]
    BY <2>1 DEF SourceInv, HistoryOK
  <2>. QED BY <2>1, <2>2 DEF NextId, Calls
<1>. HIDE DEF n
<1>2. DOMAIN registry \subseteq Nat /\ \A k : OfKind(k) \subseteq DOMAIN registry
  BY <1>1 DEF Sound, OfKind
<1>3. ASSUME NEW k \in Kinds, NEW on \in SUBSET DOMAIN registry,
             Post([kind |-> k, id |-> NextId, on |-> on])
      PROVE  \E ev \in Events : Sound(Apply(registry, ev), Len(history)) /\ Post(ev)
  <2> DEFINE ev == [kind |-> k, id |-> n + 1, on |-> on]
  <2>1. ev \in Events /\ ev.id = n + 1 /\ ev.kind = k /\ ev.on = on
    BY <1>1, <1>2 DEF Events, Ops
  <2>2. Post(ev)
    BY <1>1, <1>3
  <2>. HIDE DEF ev
  <2>3. Sound(Apply(registry, ev), n + 1)
    BY <1>1, <2>1, AddedSound
  <2>. QED BY <1>1, <2>1, <2>2, <2>3
<1>4. ASSUME NEW k \in {"remove", "end"}, NEW on \in SUBSET DOMAIN registry,
             Post([kind |-> k, id |-> 0, on |-> on])
      PROVE  \E ev \in Events : Sound(Apply(registry, ev), Len(history)) /\ Post(ev)
  <2> DEFINE ev == [kind |-> k, id |-> 0, on |-> on]
  <2>1. ev \in Events /\ ev.kind = k /\ ev.on = on
    BY <1>2 DEF Events, Ops
  <2>2. Post(ev)
    BY <1>4
  <2>. HIDE DEF ev
  <2>3. Apply(registry, ev) = Removed(registry, on)
    BY <2>1 DEF Apply
  <2>4. Sound(Removed(registry, on), n)
    BY <1>1, RemovedSound
  <2>5. Sound(Removed(registry, on), n + 1)
    BY <1>1, <2>4 DEF Sound
  <2>. QED BY <1>1, <2>1, <2>2, <2>3, <2>5
<1>5. CASE AddsElement
  <2>1. PICK on \in {{}} \union {{p} : p \in OfKind("element")} :
            Post([kind |-> "element", id |-> NextId, on |-> on])
    BY <1>5 DEF AddsElement
  <2>2. on \in SUBSET DOMAIN registry
    BY <1>2, <2>1
  <2>. QED BY <1>3, <2>1, <2>2 DEF Kinds
<1>6. CASE AddsLink
  <2>1. PICK src \in OfKind("element"), dst \in OfKind("element") :
            Post([kind |-> "link", id |-> NextId, on |-> {src, dst}])
    BY <1>6 DEF AddsLink
  <2>2. {src, dst} \in SUBSET DOMAIN registry
    BY <1>2, <2>1
  <2>. QED BY <1>3, <2>1, <2>2 DEF Kinds
<1>7. CASE StartsSpan
  <2>1. PICK e \in OfKind("element") : Post([kind |-> "span", id |-> NextId, on |-> {e}])
    BY <1>7 DEF StartsSpan
  <2>2. {e} \in SUBSET DOMAIN registry
    BY <1>2, <2>1
  <2>. QED BY <1>3, <2>1, <2>2 DEF Kinds
<1>8. CASE Removes
  <2>1. PICK ids \in SUBSET (OfKind("element") \union OfKind("link")) :
            Post([kind |-> "remove", id |-> 0, on |-> ids])
    BY <1>8 DEF Removes
  <2>2. ids \in SUBSET DOMAIN registry
    BY <1>2, <2>1
  <2>. QED BY <1>4, <2>1, <2>2
<1>9. CASE EndsSpan
  <2>1. PICK s \in OfKind("span") : Post([kind |-> "end", id |-> 0, on |-> {s}])
    BY <1>9 DEF EndsSpan
  <2>2. {s} \in SUBSET DOMAIN registry
    BY <1>2, <2>1
  <2>. QED BY <1>4, <2>1, <2>2
<1>. QED BY <1>5, <1>6, <1>7, <1>8, <1>9 DEF Caller

SameSource ==
    /\ UNCHANGED <<history, registry, events, mirror, closer>>
    /\ clock'.todo = clock.todo /\ clock'.version = clock.version

LEMMA SourceSame ==
    ASSUME SourceInv, SameSource, SourceTypes', clock'.at \in {"step", "done"} => clock.todo = <<>>
    PROVE  SourceInv'
<1>1. Waiting' = Waiting /\ Closed' = Closed /\ HistoryOK'
  BY DEF SameSource, Waiting, Closed, SourceInv, HistoryOK
<1>. QED BY <1>1 DEF SourceInv, SameSource

LEMMA ClockQuiet ==
    ASSUME SourceInv, EmitsRecovery \/ BeginsSession \/ EmitsOpening \/ ClockChecks
    PROVE  SourceInv'
<1>1. clock \in Clocks /\ SourceTypes
  BY DEF SourceInv, SourceTypes
<1>2. closing \in BOOLEAN /\ clock.last \in BOOLEAN /\ clock.seq + 1 \in Nat
  BY <1>1 DEF SourceTypes, Clocks
<1>3. /\ clock' \in Clocks /\ SameSource
      /\ UNCHANGED <<epoch, want, closing>>
      /\ clock'.at \in {"step", "done"} => clock.todo = <<>>
  <2>1. CASE EmitsRecovery
    <3>1. /\ clock' = [clock EXCEPT !.at = "events", !.seq = @ + 1]
          /\ UNCHANGED <<history, registry, events, mirror, closer, epoch, want, closing>>
      BY <2>1 DEF EmitsRecovery, ClockOnly, callerVars, closeVars
    <3>. QED BY <1>1, <1>2, <3>1 DEF Clocks, ClockStates, SameSource
  <2>2. CASE BeginsSession
    <3>0. clock.session \in Int /\ clock.epoch \in Int
      BY <1>1 DEF Clocks
    <3>1. \E s \in Int : clock' = [clock EXCEPT !.at = "opening", !.seq = 0, !.open = TRUE,
                                                !.session = s]
      BY <2>2, <3>0 DEF BeginsSession
    <3>2. UNCHANGED <<history, registry, events, mirror, closer, epoch, want, closing>>
      BY <2>2 DEF BeginsSession, ClockOnly, callerVars, closeVars
    <3>3. PICK s \in Int : clock' = [clock EXCEPT !.at = "opening", !.seq = 0, !.open = TRUE,
                                                !.session = s]
      BY <3>1
    <3>. QED BY <1>1, <3>2, <3>3 DEF Clocks, ClockStates, SameSource
  <2>3. CASE EmitsOpening
    <3>1. /\ clock' = [clock EXCEPT !.at = "events", !.seq = @ + 1]
          /\ UNCHANGED <<history, registry, events, mirror, closer, epoch, want, closing>>
      BY <2>3 DEF EmitsOpening, ClockOnly, callerVars, closeVars
    <3>. QED BY <1>1, <1>2, <3>1 DEF Clocks, ClockStates, SameSource
  <2>4. CASE ClockChecks
    BY <1>1, <1>2, <2>4 DEF ClockChecks, Clocks, ClockStates, SameSource, callerVars, closeVars
  <2>. QED BY <2>1, <2>2, <2>3, <2>4
<1>4. SourceTypes'
  BY <1>1, <1>3 DEF SourceTypes, SameSource
<1>. QED BY <1>3, <1>4, SourceSame

LEMMA TailConcat ==
    ASSUME NEW S, NEW s \in Seq(S), NEW t \in Seq(S), s # <<>>
    PROVE  Tail(s \o t) = Tail(s) \o t /\ Head(s \o t) = Head(s)
OBVIOUS

(* Another set of events is waiting, or another graph is the mirror.       *)
LEMMA ClockSource ==
    ASSUME SourceInv, UNCHANGED <<history, registry, closer, closing, epoch, want>>,
           clock' \in Clocks, events' \in Seq(Events),
           clock'.at \in {"step", "done"} => clock'.todo = <<>>,
           mirror' = history[clock'.version],
           Leads(history, clock'.version, Waiting'),
           ~Closed => clock'.version + Len(Waiting') = Len(history)
    PROVE  SourceInv'
BY DEF SourceInv, SourceTypes, HistoryOK, Closed

LEMMA StepStartsSource ==
    ASSUME SourceInv, StepStarts
    PROVE  SourceInv'
<1>1. /\ clock \in Clocks /\ events \in Seq(Events) /\ epoch \in Nat /\ want \in BOOLEAN
      /\ clock.todo \in Seq(Events) /\ clock.open \in BOOLEAN
  BY DEF SourceInv, SourceTypes, Clocks
<1>2. clock.todo = <<>> /\ Waiting = events
  <2>1. clock.todo = <<>>
    BY DEF StepStarts, SourceInv
  <2>. QED BY <1>1, <2>1, ConcatEmptySeq DEF Waiting
<1>3. PICK w \in BOOLEAN, o \in BOOLEAN :
         clock' = [clock EXCEPT !.at = "events", !.todo = events, !.want = w,
                                !.epoch = epoch, !.open = o]
  <2> DEFINE w == want /\ ~Closed
             o == clock.open /\ ~(clock.open /\ (~w \/ epoch # clock.session))
  <2>1. clock' = [clock EXCEPT !.at = "events", !.todo = events, !.want = w,
                               !.epoch = epoch, !.open = o]
    BY DEF StepStarts
  <2>2. w \in BOOLEAN /\ o \in BOOLEAN
    OBVIOUS
  <2>. HIDE DEF w, o
  <2>. QED BY <2>1, <2>2
<1>4. /\ events' = <<>> /\ events' \in Seq(Events)
      /\ UNCHANGED <<history, registry, closer, closing, epoch, want, mirror>>
  BY DEF StepStarts, ClockOnly, closeVars
<1>5. /\ clock' \in Clocks /\ clock'.todo = events /\ clock'.version = clock.version
      /\ clock'.at = "events"
  BY <1>1, <1>3 DEF Clocks, ClockStates
<1>6. Waiting' = Waiting
  BY <1>1, <1>2, <1>4, <1>5, ConcatEmptySeq DEF Waiting
<1>. QED BY <1>4, <1>5, <1>6, ClockSource DEF SourceInv

LEMMA AppliesSource ==
    ASSUME SourceInv, AppliesEvent
    PROVE  SourceInv'
<1> DEFINE t == clock.todo
           v == clock.version
<1>1. /\ clock \in Clocks /\ events \in Seq(Events) /\ t \in Seq(Events) /\ t # <<>>
      /\ v \in Nat /\ clock.seq + 1 \in Nat /\ v + 1 \in Nat
      /\ history \in Seq(Graphs) /\ mirror = history[v] /\ Leads(history, v, Waiting)
      /\ ~Closed => v + Len(Waiting) = Len(history)
  BY DEF SourceInv, SourceTypes, Clocks, AppliesEvent
<1>2. /\ mirror' = Apply(mirror, Head(t)) /\ events' = events
      /\ UNCHANGED <<history, registry, closer, closing, epoch, want>>
  BY DEF AppliesEvent, ClockOnly, closeVars, callerVars
<1>3. /\ clock' \in Clocks /\ clock'.todo = Tail(t) /\ clock'.version = v + 1
      /\ clock'.at \in {"events", "begin", "recover"}
  <2> DEFINE next == [clock EXCEPT !.todo = Tail(@), !.version = @ + 1]
  <2>1. \/ clock' = next
        \/ clock' = [next EXCEPT !.seq = @ + 1]
        \/ clock' = [next EXCEPT !.seq = @ + 1, !.at = AfterOverflow]
    BY DEF AppliesEvent
  <2>2. Tail(t) \in Seq(Events) /\ AfterOverflow \in {"begin", "recover"} /\ clock.at = "events"
    BY <1>1, HeadTailProperties DEF AfterOverflow, AppliesEvent
  <2>3. /\ next \in Clocks /\ next.todo = Tail(t) /\ next.version = v + 1 /\ next.at = "events"
        /\ next.seq + 1 \in Nat
    BY <1>1, <2>2 DEF Clocks
  <2>. HIDE DEF next
  <2>. QED BY <2>1, <2>2, <2>3 DEF Clocks, ClockStates
<1>4. Waiting' = Tail(Waiting) /\ Head(Waiting) = Head(t) /\ Waiting # <<>> /\ Waiting \in Seq(Events)
  <2>. HIDE DEF t
  <2>1. Tail(t \o events) = Tail(t) \o events /\ Head(t \o events) = Head(t)
    BY <1>1, ConcatSimplifications, TailConcat
  <2>2. t \o events # <<>> /\ t \o events \in Seq(Events)
    BY <1>1, ConcatEqualIffEmpty, ConcatProperties
  <2>. QED BY <1>2, <1>3, <2>1, <2>2 DEF Waiting, t
<1>5. /\ history[v + 1] = Apply(history[v], Head(Waiting)) /\ Leads(history, v + 1, Tail(Waiting))
      /\ Len(Tail(Waiting)) = Len(Waiting) - 1 /\ Len(Waiting) \in Nat
  <2>. HIDE DEF v
  <2>. QED BY <1>1, <1>4, LeadsNext, LenProperties
<1>6. ~Closed => v + 1 + Len(Tail(Waiting)) = Len(history)
  <2> DEFINE w == Len(Waiting)
             l == Len(Tail(Waiting))
  <2>1. ~Closed => v + w = Len(history)
    BY <1>1
  <2>2. l = w - 1 /\ w \in Nat /\ v \in Nat
    BY <1>1, <1>5
  <2>. HIDE DEF w, l, v
  <2>3. v + 1 + l = v + w
    BY <2>2
  <2>. QED BY <2>1, <2>3 DEF l
<1>. QED BY <1>1, <1>2, <1>3, <1>4, <1>5, <1>6, ClockSource

LEMMA ShedsSource ==
    ASSUME SourceInv, Sheds
    PROVE  SourceInv'
<1> DEFINE n == Len(Waiting)
           v == clock.version
<1>1. /\ clock \in Clocks /\ v \in Nat /\ clock.seq \in Nat /\ n \in Nat
      /\ history \in Seq(Graphs) /\ mirror = history[v] /\ Leads(history, v, Waiting)
      /\ Waiting \in Seq(Events)
      /\ ~Closed => v + n = Len(history)
  BY WaitingType DEF SourceInv, SourceTypes, Clocks
<1>2. /\ mirror' = ApplyAll(mirror, Waiting) /\ events' = <<>>
      /\ clock' = [clock EXCEPT !.at = "recover", !.todo = <<>>, !.seq = @ + n + 1,
                                !.version = @ + n]
      /\ UNCHANGED <<history, registry, closer, closing, epoch, want>>
  BY DEF Sheds, ClockOnly, closeVars, Silent, Waiting
<1>3. mirror' = history[v + n]
  <2>. HIDE DEF v
  <2>. QED BY <1>1, <1>2, LeadsAll
<1>4. /\ clock' \in Clocks /\ clock'.todo = <<>> /\ clock'.version = v + n
      /\ clock'.at = "recover"
  <2>0. clock.seq \in Nat /\ n \in Nat /\ v \in Nat
    BY <1>1
  <2>. HIDE DEF n
  <2>1. clock.seq + n + 1 \in Nat /\ v + n \in Nat /\ <<>> \in Seq(Events)
    BY <2>0
  <2>. QED BY <1>1, <1>2, <2>1 DEF Clocks, ClockStates
<1>5. Waiting' = <<>>
  BY <1>2, <1>4 DEF Waiting
<1>6. Leads(history, v + n, <<>>) /\ Len(<<>>) = 0 /\ v + n + 0 = v + n
  <2>1. v + n \in 1..Len(history) /\ Len(history) \in Nat
    BY <1>1, LenProperties DEF Leads
  <2>. HIDE DEF n
  <2>. QED BY <1>1, <2>1 DEF Leads
<1>. HIDE DEF n, v
<1>7. events' \in Seq(Events) /\ clock'.at \notin {"step", "done"}
  BY <1>2, <1>4
<1>. QED BY <1>1, <1>2, <1>3, <1>4, <1>5, <1>6, <1>7, ClockSource

LEMMA RaisesSource ==
    ASSUME SourceInv, StepRaises
    PROVE  SourceInv'
<1>1. /\ clock \in Clocks /\ history \in Seq(Graphs) /\ registry = history[Len(history)]
      /\ Len(history) \in Nat /\ Len(history) >= 1
  BY LenProperties DEF SourceInv, SourceTypes, HistoryOK
<1>2. /\ mirror' = registry /\ events' = <<>>
      /\ clock' = [clock EXCEPT !.todo = <<>>, !.open = FALSE, !.want = FALSE,
                                !.version = Len(history)]
      /\ clock.at = "events"
      /\ UNCHANGED <<history, registry, closer, closing, epoch, want>>
  BY DEF StepRaises, ClockOnly, closeVars, Unapplied
<1>3. /\ clock' \in Clocks /\ clock'.todo = <<>> /\ clock'.version = Len(history)
      /\ clock'.at = "events"
  <2>1. <<>> \in Seq(Events) /\ FALSE \in BOOLEAN
    OBVIOUS
  <2> DEFINE m == Len(history)
  <2>2. m \in Nat
    BY <1>1
  <2>. HIDE DEF m
  <2>. QED BY <1>1, <1>2, <2>1, <2>2 DEF Clocks, m
<1>4. Waiting' = <<>> /\ Leads(history, Len(history), <<>>) /\ Len(history) + Len(<<>>) = Len(history)
  BY <1>1, <1>2, <1>3 DEF Waiting, Leads
<1>5. events' \in Seq(Events)
  BY <1>2
<1>. QED BY <1>1, <1>2, <1>3, <1>4, <1>5, ClockSource

(* The rest of the system.                                                 *)
LEMMA OthersQuiet ==
    ASSUME SourceInv, WriterRuns \/ Delivers \/ ObserverGoes \/ Closer \/ UNCHANGED vars
    PROVE  SourceInv'
<1>1. SourceTypes /\ clock \in Clocks /\ epoch \in Nat
  BY DEF SourceInv, SourceTypes
<1>2. CASE WriterRuns \/ Delivers \/ ObserverGoes
  <2>1. UNCHANGED <<registry, events, history, clock, mirror, closer, closing>>
    BY <1>2 DEF WriterRuns, Dials, SinkOpens, SinkFails, Connects, TakesBatch, WriteReturns,
       WriteFails, IdleLost, LosesSession, ClearsQueue, WriterEnds, Delivers, ObserverGoes,
       WriterOnly, callerVars, clockVars, closeVars
  <2>2. epoch' \in {epoch, epoch + 1} /\ want' \in BOOLEAN
    <3>1. want \in BOOLEAN
      BY <1>1 DEF SourceTypes
    <3>. QED BY <1>2, <3>1 DEF WriterRuns, Dials, SinkOpens, SinkFails, Connects, TakesBatch,
       WriteReturns, WriteFails, IdleLost, LosesSession, ClearsQueue, WriterEnds, Delivers,
       ObserverGoes
  <2>3. SourceTypes'
    BY <1>1, <2>1, <2>2 DEF SourceTypes
  <2>. QED BY <2>1, <2>3, SourceSame DEF SameSource, SourceInv
<1>3. CASE Closer
  <2>1. /\ UNCHANGED <<registry, events, history, clock, mirror, epoch, want>>
        /\ closer' \in {"joining", "flag", "sink", "closed"} /\ closing' \in BOOLEAN
        /\ Closed => Closed'
    BY <1>1, <1>3 DEF Closer, CloseAsks, JoinsThreads, MarksClosed, ClosesSink, CloserMoves,
       callerVars, clockVars, Closed, SourceTypes
  <2>2. SourceTypes' /\ Waiting' = Waiting /\ HistoryOK'
    BY <1>1, <2>1 DEF SourceTypes, Waiting, SourceInv, HistoryOK
  <2>. QED BY <2>1, <2>2 DEF SourceInv
<1>4. CASE UNCHANGED vars
  BY <1>1, <1>4, SourceSame DEF vars, callerVars, clockVars, closeVars, SameSource, SourceInv,
     SourceTypes
<1>. QED BY <1>2, <1>3, <1>4

LEMMA SourceStep == SourceInv /\ [Next]_vars => SourceInv'
<1> SUFFICES ASSUME SourceInv, [Next]_vars PROVE SourceInv'
  OBVIOUS
<1>1. CASE Caller
  BY <1>1, CallerPosts, PostStep
<1>2. CASE ClockThread
  BY <1>2, ClockQuiet, StepStartsSource, AppliesSource, ShedsSource, RaisesSource DEF ClockThread
<1>. QED BY <1>1, <1>2, OthersQuiet DEF Next

-----------------------------------------------------------------------------
(* The pipe: queue, batch, observer.                                       *)

States == {"off", "opening", "opened", "ready", "write", "lost", "clear", "ended"}

Lines == [kind : {"change", "recovery", "opening"}, ev : Events \union {NoEvent}, seq : Nat,
          at : Nat, graph : Graphs, epoch : Int]

Views == [at : Nat, seq : Int, graph : Graphs]

PipeTypes ==
    /\ q \in Seq(Lines) /\ opening \in BOOLEAN /\ inflight \in 0..Batch
    /\ writer \in [at : States, first : BOOLEAN, batch : Seq(Lines)]
    /\ obs \in Views
    /\ live \in BOOLEAN /\ clockDone \in BOOLEAN /\ conns \in 0..MaxConns

(* The connection a session is of is never one to come.                    *)
Epochs ==
    /\ -1 <= clock.session /\ clock.session <= clock.epoch /\ clock.epoch <= epoch
    /\ epoch + (IF writer.at = "opened" THEN 1 ELSE 0) <= conns
    /\ writer.at = "opening" => conns < MaxConns

(* All lines in the queue are of the clock's session; the flag says that   *)
(* the first of them is its opening snapshot.                              *)
OneSession ==
    /\ clock.at \in {"begin", "opening", "recover"} => clock.open
    /\ clock.at = "opening" => clock.seq = 0
    /\ q # <<>> => clock.open /\ clock.at \notin {"begin", "opening"}
    /\ \A i \in 1..Len(q) : /\ q[i].epoch = clock.session
                            /\ q[i].seq < clock.seq
                            /\ q[i].kind = "opening" => opening /\ i = 1
    /\ opening => q # <<>> /\ q[1].kind = "opening"

(* A line tells of a graph that the source had.                            *)
Known(l) ==
    /\ l.at \in 1..clock.version
    /\ l.kind = "change" => l.at > 1 /\ history[l.at] = Apply(history[l.at - 1], l.ev)
    /\ l.kind # "change" => l.graph = history[l.at]

AllKnown ==
    /\ \A i \in 1..Len(q) : Known(q[i])
    /\ \A i \in 1..Len(writer.batch) : Known(writer.batch[i])

Writing ==
    /\ writer.batch # <<>> => writer.at = "write"
    /\ writer.at = "opened" => obs = NoView

ViewInv ==
    /\ obs.at <= clock.version
    /\ obs.seq >= -1
    /\ obs.at = 0 <=> obs.seq = -1
    /\ obs.graph = IF obs.at = 0 THEN NoGraph ELSE history[obs.at]

(* Line l may follow what p, the observer or the line before it, has shown. *)
Follow(p, l) ==
    \/ l.kind = "opening" /\ l.seq = 0 /\ l.at >= p.at
    \/ l.kind = "change" /\ p.seq >= 0 /\ l.seq = p.seq + 1 /\ l.at = p.at + 1
    \/ l.kind = "recovery" /\ p.seq >= 0 /\ l.seq > p.seq + 1 /\ l.at >= p.at

Chained(p, s) ==
    \A i \in 1..Len(s) : Follow(IF i = 1 THEN p ELSE s[i - 1], s[i])

EndOf(p, s) == IF s = <<>> THEN p ELSE s[Len(s)]

Online == writer.at \in {"ready", "write"}

Current == clock.session = epoch

(* The lines this connection is still to be given.                         *)
Coming == writer.batch \o (IF Current THEN q ELSE <<>>)

(* Where the lines of an open session have got to: the clock goes on from  *)
(* there, or, after a loss, with a snapshot under a number further on.     *)
Reached ==
    /\ EndOf(obs, Coming).seq >= 0
    /\ IF clock.at = "recover" THEN clock.seq > EndOf(obs, Coming).seq + 1
       ELSE /\ clock.seq = EndOf(obs, Coming).seq + 1
            /\ clock.version = EndOf(obs, Coming).at
    /\ ~opening => /\ EndOf(obs, writer.batch).seq >= 0
                   /\ EndOf(obs, writer.batch).seq < clock.seq

GoesOn == clock.open /\ clock.at \notin {"begin", "opening"}

Streaming ==
    Online => /\ Chained(obs, Coming)
              /\ Current /\ GoesOn => Reached

PipeInv ==
    /\ PipeTypes /\ Epochs /\ OneSession /\ AllKnown /\ Writing /\ ViewInv /\ Streaming

-----------------------------------------------------------------------------
LEMMA ChainedPrefix ==
    ASSUME NEW p, NEW s \in Seq(Lines), NEW t \in Seq(Lines), Chained(p, s \o t)
    PROVE  Chained(p, s)
<1>1. /\ Len(s) \in Nat /\ Len(t) \in Nat /\ Len(s \o t) = Len(s) + Len(t)
      /\ \A i \in 1..Len(s) : (s \o t)[i] = s[i]
  BY LenProperties, ConcatProperties
<1>2. ASSUME NEW i \in 1..Len(s) PROVE Follow(IF i = 1 THEN p ELSE s[i - 1], s[i])
  <2>1. i \in 1..Len(s \o t) /\ (i # 1 => i - 1 \in 1..Len(s))
    BY <1>1
  <2>2. Follow(IF i = 1 THEN p ELSE (s \o t)[i - 1], (s \o t)[i])
    BY <2>1 DEF Chained
  <2>. QED BY <1>1, <2>1, <2>2
<1>. QED BY <1>2 DEF Chained

LEMMA ChainedAppend ==
    ASSUME NEW p, NEW s \in Seq(Lines), NEW l \in Lines,
           Chained(p, s), Follow(EndOf(p, s), l)
    PROVE  Chained(p, Append(s, l)) /\ EndOf(p, Append(s, l)) = l
<1> DEFINE t == Append(s, l)
           n == Len(s)
<1>1. /\ n \in Nat /\ Len(t) = n + 1 /\ t[n + 1] = l /\ \A i \in 1..n : t[i] = s[i]
      /\ t # <<>> /\ (s = <<>> <=> n = 0)
  BY LenProperties, AppendProperties, EmptySeq
<1>. HIDE DEF t
<1>2. ASSUME NEW i \in 1..n + 1 PROVE Follow(IF i = 1 THEN p ELSE t[i - 1], t[i])
  <2>1. CASE i = n + 1
    <3>1. CASE n = 0
      BY <1>1, <2>1, <3>1 DEF EndOf
    <3>2. CASE n # 0
      <4>1. n \in 1..n /\ i - 1 = n /\ i # 1
        BY <1>1, <2>1, <3>2
      <4>. QED BY <1>1, <2>1, <3>2, <4>1 DEF EndOf
    <3>. QED BY <3>1, <3>2
  <2>2. CASE i # n + 1
    <3>1. i \in 1..n /\ (i # 1 => i - 1 \in 1..n)
      BY <1>1, <2>2
    <3>. QED BY <1>1, <3>1 DEF Chained
  <2>. QED BY <2>1, <2>2
<1>3. EndOf(p, t) = l
  BY <1>1 DEF EndOf
<1>. QED BY <1>1, <1>2, <1>3 DEF Chained, t

LEMMA ChainedNext ==
    ASSUME NEW p, NEW o, NEW s \in Seq(Lines), s # <<>>, Chained(p, s),
           o.at = Head(s).at, o.seq = Head(s).seq
    PROVE  /\ Follow(p, Head(s))
           /\ Chained(o, Tail(s))
           /\ EndOf(o, Tail(s)).at = EndOf(p, s).at /\ EndOf(o, Tail(s)).seq = EndOf(p, s).seq
<1> DEFINE t == Tail(s)
           n == Len(t)
<1>1. /\ n \in Nat /\ Len(s) = n + 1 /\ \A i \in 1..n : t[i] = s[i + 1]
      /\ Head(s) = s[1] /\ (t = <<>> <=> n = 0)
  <2>1. /\ t \in Seq(Lines) /\ Head(s) = s[1] /\ Len(t) = Len(s) - 1
        /\ \A i \in 1..Len(t) : t[i] = s[i + 1]
    BY HeadTailProperties
  <2>2. Len(s) \in Nat /\ Len(s) # 0
    BY LenProperties, EmptySeq
  <2>. HIDE DEF t
  <2>3. t = <<>> <=> n = 0
    BY <2>1, EmptySeq
  <2>. QED BY <2>1, <2>2, <2>3
<1>. HIDE DEF t, n
<1>2. \A i \in 1..n + 1 : Follow(IF i = 1 THEN p ELSE s[i - 1], s[i])
  BY <1>1 DEF Chained
<1>3. Follow(p, Head(s))
  <2>1. 1 \in 1..n + 1
    BY <1>1
  <2>. QED BY <1>1, <1>2, <2>1
<1>4. ASSUME NEW i \in 1..n PROVE Follow(IF i = 1 THEN o ELSE t[i - 1], t[i])
  <2>1. i + 1 \in 1..n + 1 /\ i + 1 # 1 /\ (i + 1) - 1 = i /\ t[i] = s[i + 1]
    BY <1>1
  <2>2. Follow(s[i], t[i])
    BY <1>2, <2>1
  <2>3. CASE i = 1
    <3>1. Follow(Head(s), t[i])
      BY <1>1, <2>2, <2>3
    <3>. QED BY <2>3, <3>1 DEF Follow
  <2>4. CASE i # 1
    <3>1. i - 1 \in 1..n /\ (i - 1) + 1 = i
      BY <1>1, <2>4
    <3>2. t[i - 1] = s[i]
      BY <1>1, <3>1
    <3>. QED BY <2>2, <2>4, <3>2
  <2>. QED BY <2>3, <2>4
<1>5. EndOf(o, t).at = EndOf(p, s).at /\ EndOf(o, t).seq = EndOf(p, s).seq
  <2>1. CASE n = 0
    BY <1>1, <2>1 DEF EndOf
  <2>2. CASE n # 0
    <3>1. n \in 1..n /\ n = Len(t) /\ t # <<>>
      BY <1>1, <2>2 DEF n
    <3>2. t[n] = s[n + 1]
      BY <1>1, <3>1
    <3>. QED BY <1>1, <3>1, <3>2 DEF EndOf
  <2>. QED BY <2>1, <2>2
<1>. QED BY <1>1, <1>3, <1>4, <1>5 DEF Chained, t, n

LEMMA EndKnown ==
    ASSUME PipeInv, SourceInv
    PROVE  /\ EndOf(obs, Coming) \in Views \union Lines /\ EndOf(obs, Coming).at <= clock.version
           /\ Coming \in Seq(Lines) /\ writer.batch \in Seq(Lines) /\ q \in Seq(Lines)
<1>1. /\ writer.batch \in Seq(Lines) /\ q \in Seq(Lines) /\ obs \in Views /\ clock.version \in Nat
      /\ obs.at <= clock.version
  BY DEF PipeInv, PipeTypes, ViewInv, SourceInv, SourceTypes, Clocks
<1> DEFINE b == writer.batch
           t == IF Current THEN q ELSE <<>>
           c == Coming
<1>2. \A i \in 1..Len(b) : b[i].at <= clock.version
  BY <1>1 DEF PipeInv, AllKnown, Known
<1>3. \A i \in 1..Len(t) : t[i].at <= clock.version
  BY <1>1 DEF PipeInv, AllKnown, Known
<1>4. t \in Seq(Lines) /\ c = b \o t
  BY <1>1 DEF Coming
<1>. HIDE DEF b, t, c
<1>5. c \in Seq(Lines) /\ \A i \in 1..Len(c) : c[i].at <= clock.version
  <2>1. b \in Seq(Lines) /\ Len(b) \in Nat /\ Len(t) \in Nat
    BY <1>1, <1>4, LenProperties DEF b
  <2>2. /\ Len(c) = Len(b) + Len(t) /\ c \in Seq(Lines)
        /\ \A i \in 1..Len(c) : c[i] = IF i <= Len(b) THEN b[i] ELSE t[i - Len(b)]
    BY <1>4, <2>1, ConcatProperties
  <2>3. \A i \in 1..Len(c) : (i <= Len(b) => i \in 1..Len(b)) /\ (~(i <= Len(b)) => i - Len(b) \in 1..Len(t))
    BY <2>1, <2>2
  <2>. QED BY <1>2, <1>3, <2>2, <2>3
<1>6. EndOf(obs, c) \in Views \union Lines /\ EndOf(obs, c).at <= clock.version
  <2>1. CASE c = <<>>
    BY <1>1, <2>1 DEF EndOf
  <2>2. CASE c # <<>>
    <3>1. Len(c) \in 1..Len(c)
      BY <1>5, <2>2, LenProperties, EmptySeq
    <3>. QED BY <1>5, <2>2, <3>1, ElementOfSeq DEF EndOf
  <2>. QED BY <2>1, <2>2
<1>. QED BY <1>1, <1>5, <1>6 DEF c

(* What the source has been stays, and the clock only goes forward.        *)
Grown ==
    /\ Len(history) <= Len(history')
    /\ \A i \in 1..Len(history) : history'[i] = history[i]
    /\ clock.version <= clock'.version
    /\ clock.version \in 1..Len(history) /\ clock'.version \in Nat /\ Len(history) \in Nat

LEMMA SourceGrows ==
    ASSUME SourceInv, SourceInv', [Next]_vars
    PROVE  Grown
<1>1. /\ clock.version \in 1..Len(history) /\ clock \in Clocks /\ clock' \in Clocks
      /\ clock.version \in Nat /\ clock'.version \in Nat
      /\ history \in Seq(Graphs) /\ Len(history) \in Nat
  BY LenProperties DEF SourceInv, SourceTypes, Leads, Clocks
<1>2. \/ Caller
      \/ AppliesEvent \/ Sheds \/ StepRaises
      \/ UNCHANGED history /\ clock'.version = clock.version
  BY <1>1 DEF Next, ClockThread, StepStarts, EmitsRecovery, BeginsSession, EmitsOpening, ClockChecks,
     ClockOnly, WriterRuns, Dials, SinkOpens, SinkFails, Connects, TakesBatch, WriteReturns,
     WriteFails, IdleLost, LosesSession, ClearsQueue, WriterEnds, Delivers, ObserverGoes,
     WriterOnly, Closer, CloseAsks, JoinsThreads, MarksClosed, ClosesSink, CloserMoves,
     callerVars, clockVars, vars, Clocks
<1>3. CASE Caller
  <2>1. PICK ev \in Events : Post(ev)
    BY <1>3, CallerPosts
  <2>2. history' = Append(history, registry') /\ clock' = clock
    BY <2>1 DEF Post, clockVars
  <2>3. registry' \in Graphs
    BY DEF SourceInv, SourceTypes
  <2>4. Len(history') = Len(history) + 1 /\ \A i \in 1..Len(history) : history'[i] = history[i]
    BY <1>1, <2>2, <2>3, AppendProperties
  <2>. QED BY <1>1, <2>2, <2>4 DEF Grown
<1>4. CASE AppliesEvent
  <2>1. clock'.version = clock.version + 1 /\ history' = history
    BY <1>1, <1>4 DEF AppliesEvent, callerVars, Clocks
  <2>. QED BY <1>1, <2>1 DEF Grown
<1>5. CASE Sheds
  <2>1. clock'.version = clock.version + Len(Waiting) /\ history' = history
    BY <1>1, <1>5 DEF Sheds, Silent, Waiting, Clocks
  <2>2. Len(Waiting) \in Nat
    BY WaitingType DEF SourceInv
  <2>. QED BY <1>1, <2>1, <2>2 DEF Grown
<1>6. CASE StepRaises
  <2>1. clock'.version = Len(history) /\ history' = history
    BY <1>1, <1>6 DEF StepRaises, Clocks
  <2>. QED BY <1>1, <2>1 DEF Grown
<1>7. CASE UNCHANGED history /\ clock'.version = clock.version
  BY <1>1, <1>7 DEF Grown
<1>. QED BY <1>2, <1>3, <1>4, <1>5, <1>6, <1>7

LEMMA KnownStays ==
    ASSUME Grown, NEW l, Known(l)
    PROVE  Known(l)'
<1> DEFINE n == Len(history)
           v == clock.version
           w == clock'.version
<1>1. /\ n \in Nat /\ v \in 1..n /\ w \in Nat /\ v <= w
      /\ \A i \in 1..n : history'[i] = history[i]
  BY DEF Grown
<1>2. l.at \in 1..v /\ l.at \in 1..n /\ l.at \in 1..w
  <2>1. l.at \in 1..v
    BY DEF Known
  <2>. HIDE DEF v, w, n
  <2>. QED BY <1>1, <2>1
<1>3. l.at > 1 => l.at - 1 \in 1..n
  <2>. HIDE DEF v, w, n
  <2>. QED BY <1>1, <1>2
<1>. HIDE DEF n
<1>. QED BY <1>1, <1>2, <1>3 DEF Known

LEMMA ViewStays ==
    ASSUME Grown, PipeInv, UNCHANGED obs
    PROVE  ViewInv'
<1> DEFINE n == Len(history)
           v == clock.version
           w == clock'.version
<1>1. /\ n \in Nat /\ v \in 1..n /\ w \in Nat /\ v <= w
      /\ \A i \in 1..n : history'[i] = history[i]
      /\ obs.at \in Nat /\ obs.at <= v
  BY DEF Grown, PipeInv, ViewInv, PipeTypes, Views
<1>2. obs.at <= w /\ (obs.at # 0 => obs.at \in 1..n)
  <2> DEFINE o == obs.at
  <2>. HIDE DEF v, w, n, o
  <2>. QED BY <1>1 DEF o
<1>. HIDE DEF n
<1>. QED BY <1>1, <1>2 DEF PipeInv, ViewInv

(* Nothing is added to the lines under way.                                *)
LEMMA LinesStay ==
    ASSUME Grown, PipeInv, q' = q \/ q' = <<>>, writer'.batch = writer.batch \/ writer'.batch = <<>>
    PROVE  AllKnown'
<1>1. \A l : Known(l) => Known(l)'
  BY KnownStays
<1>2. AllKnown
  BY DEF PipeInv
<1>. QED BY <1>1, <1>2 DEF AllKnown

-----------------------------------------------------------------------------
(* Steps outside the clock and a writer that is connected.                 *)

LEMMA QuietPipe ==
    ASSUME PipeInv, Grown, UNCHANGED <<clock, q, opening, inflight, writer, obs, epoch, conns>>,
           live' \in BOOLEAN, clockDone' \in BOOLEAN
    PROVE  PipeInv'
<1>1. AllKnown' /\ ViewInv'
  BY LinesStay, ViewStays
<1>2. PipeTypes' /\ Epochs' /\ OneSession' /\ Writing' /\ Streaming'
  BY DEF PipeInv, PipeTypes, Epochs, OneSession, Writing, Streaming, Online, Current, Coming,
     GoesOn, Reached, EndOf, Chained
<1>. QED BY <1>1, <1>2 DEF PipeInv

LEMMA OfflinePipe ==
    ASSUME PipeInv, SourceInv, Grown, UNCHANGED <<clock, obs, epoch, conns, live, clockDone>>,
           writer' \in [at : States \ {"ready", "write", "opened"}, first : BOOLEAN,
                        batch : {<<>>}],
           UNCHANGED <<q, opening>> \/ EmptyQueue,
           inflight' \in 0..Batch,
           writer'.at = "opening" => conns < MaxConns
    PROVE  PipeInv'
<1>1. AllKnown' /\ ViewInv'
  BY LinesStay, ViewStays DEF EmptyQueue
<1>2. PipeTypes'
  <2>0. <<>> \in Seq(Lines)
    OBVIOUS
  <2>1. <<>> \in Seq(Lines) /\ q' \in Seq(Lines) /\ opening' \in BOOLEAN
    BY <2>0 DEF PipeInv, PipeTypes, EmptyQueue
  <2>2. writer' \in [at : States, first : BOOLEAN, batch : Seq(Lines)]
    BY <2>1
  <2>. QED BY <2>1, <2>2 DEF PipeInv, PipeTypes
<1>3. OneSession'
  <2>1. CASE UNCHANGED <<q, opening>>
    BY <2>1 DEF PipeInv, OneSession
  <2>2. CASE EmptyQueue
    BY <2>2 DEF PipeInv, OneSession, EmptyQueue
  <2>. QED BY <2>1, <2>2
<1>4. Epochs'
  <2>1. epoch <= conns
    <3>1. epoch \in Nat /\ conns \in Int /\ epoch + (IF writer.at = "opened" THEN 1 ELSE 0) <= conns
      BY ReporterAssumption DEF PipeInv, Epochs, PipeTypes, SourceInv, SourceTypes
    <3>. QED BY <3>1
  <2>2. epoch \in Nat /\ writer'.at # "opened"
    BY DEF SourceInv, SourceTypes
  <2>. QED BY <2>1, <2>2 DEF PipeInv, Epochs
<1>5. Writing' /\ Streaming'
  BY DEF Writing, Streaming, Online
<1>. QED BY <1>1, <1>2, <1>3, <1>4, <1>5 DEF PipeInv

(* The writer, when it is not connected or no longer.                      *)
LEMMA WriterAway ==
    ASSUME PipeInv, SourceInv, Grown,
           Dials \/ SinkFails \/ (Connects /\ closing) \/ WriteFails \/ IdleLost \/ LosesSession
              \/ ClearsQueue \/ WriterEnds
    PROVE  PipeInv'
<1>1. /\ writer \in [at : States, first : BOOLEAN, batch : Seq(Lines)]
      /\ inflight \in 0..Batch /\ 0 \in 0..Batch
      /\ writer.batch # <<>> => writer.at = "write"
  BY ReporterAssumption DEF PipeInv, PipeTypes, Writing
<1>2. UNCHANGED <<clock, obs, epoch, conns, live, clockDone>>
  BY DEF Dials, SinkFails, Connects, WriteFails, IdleLost, LosesSession, ClearsQueue, WriterEnds,
     WriterOnly, clockVars, peerVars
<1>3. (UNCHANGED <<q, opening>> \/ EmptyQueue) /\ inflight' \in 0..Batch
  BY <1>1 DEF Dials, SinkFails, Connects, WriteFails, IdleLost, LosesSession, ClearsQueue,
     WriterEnds, queueVars
<1>4. \E a \in States \ {"ready", "write", "opened"}, b \in BOOLEAN :
         /\ writer' = [at |-> a, first |-> b, batch |-> <<>>]
         /\ a = "opening" => conns < MaxConns
  <2> DEFINE To(a, b) == writer' = [at |-> a, first |-> b, batch |-> <<>>]
             away == States \ {"ready", "write", "opened"}
  <2>1. CASE Dials
    <3>1. \/ To("ended", writer.first)
          \/ To("opening", FALSE) /\ conns < MaxConns
      BY <1>1, <2>1 DEF Dials, Goes
    <3>. QED BY <1>1, <3>1 DEF States
  <2>2. CASE SinkFails \/ (Connects /\ closing)
    <3>1. To("off", writer.first)
      BY <1>1, <2>2 DEF SinkFails, Connects, Goes
    <3>. QED BY <1>1, <3>1 DEF States
  <2>3. CASE WriteFails \/ IdleLost
    <3>1. To("lost", writer.first)
      BY <1>1, <2>3 DEF WriteFails, IdleLost, Goes
    <3>. QED BY <1>1, <3>1 DEF States
  <2>4. CASE LosesSession \/ ClearsQueue \/ WriterEnds
    <3>1. To("clear", writer.first) \/ To("off", writer.first) \/ To("ended", writer.first)
      BY <1>1, <2>4 DEF LosesSession, ClearsQueue, WriterEnds, Goes
    <3>. QED BY <1>1, <3>1 DEF States
  <2>. QED BY <2>1, <2>2, <2>3, <2>4
<1>. QED BY <1>2, <1>3, <1>4, OfflinePipe

LEMMA OpensPipe ==
    ASSUME PipeInv, SourceInv, Grown, SinkOpens
    PROVE  PipeInv'
<1>1. /\ writer \in [at : States, first : BOOLEAN, batch : Seq(Lines)]
      /\ writer.batch = <<>> /\ writer.at = "opening"
      /\ conns < MaxConns /\ conns \in Nat /\ MaxConns \in Nat /\ epoch \in Nat /\ epoch <= conns
  BY ReporterAssumption
     DEF PipeInv, PipeTypes, Writing, Epochs, SinkOpens, SourceInv, SourceTypes
<1>2. /\ UNCHANGED <<clock, epoch, live, clockDone, q, opening, inflight>>
      /\ obs' = NoView /\ conns' = conns + 1
      /\ writer' = [writer EXCEPT !.at = "opened"]
  BY DEF SinkOpens, WriterOnly, clockVars, queueVars, Goes
<1>3. /\ writer' \in [at : States, first : BOOLEAN, batch : Seq(Lines)]
      /\ writer'.at = "opened" /\ writer'.batch = writer.batch
  BY <1>1, <1>2 DEF States
<1>4. obs' \in Views /\ obs'.at = 0 /\ obs'.seq = -1 /\ obs'.graph = NoGraph
  <2>1. NoGraph \in Graphs
    BY NoGraphSound DEF Sound
  <2>2. NoView \in Views /\ NoView.at = 0 /\ NoView.seq = -1 /\ NoView.graph = NoGraph
    BY <2>1 DEF NoView, Views
  <2>. QED BY <1>2, <2>2
<1>5. AllKnown'
  BY <1>2, <1>3, LinesStay
<1>6. ViewInv'
  BY <1>2, <1>4 DEF ViewInv, Grown
<1>7. PipeTypes' /\ Epochs' /\ OneSession'
  BY <1>1, <1>2, <1>3, <1>4 DEF PipeInv, PipeTypes, Epochs, OneSession
<1>8. Writing' /\ Streaming'
  BY <1>1, <1>2, <1>3 DEF Writing, Streaming, Online
<1>. QED BY <1>5, <1>6, <1>7, <1>8 DEF PipeInv

LEMMA ConnectsPipe ==
    ASSUME PipeInv, SourceInv, Grown, Connects, ~closing
    PROVE  PipeInv'
<1>1. /\ writer \in [at : States, first : BOOLEAN, batch : Seq(Lines)]
      /\ writer.batch = <<>> /\ writer.at = "opened"
      /\ conns \in Nat /\ MaxConns \in Nat /\ epoch \in Nat /\ epoch + 1 <= conns
      /\ clock.session <= epoch /\ clock.epoch <= epoch /\ clock.session \in Int
      /\ clock.epoch \in Nat
  <2>1. /\ writer \in [at : States, first : BOOLEAN, batch : Seq(Lines)]
        /\ writer.batch = <<>> /\ writer.at = "opened"
    BY DEF PipeInv, PipeTypes, Writing, Connects
  <2>2. /\ clock.epoch \in Nat /\ clock.session \in Int /\ epoch \in Nat
        /\ MaxConns \in Nat /\ conns \in Nat
    <3>1. clock \in Clocks /\ epoch \in Nat
      BY DEF SourceInv, SourceTypes
    <3>2. MaxConns \in Nat /\ conns \in 0..MaxConns
      BY ReporterAssumption DEF PipeInv, PipeTypes
    <3>. QED BY <3>1, <3>2 DEF Clocks
  <2>3. epoch + 1 <= conns /\ clock.session <= clock.epoch /\ clock.epoch <= epoch
    BY <2>1 DEF PipeInv, Epochs
  <2>. QED BY <2>1, <2>2, <2>3
<1>2. /\ UNCHANGED <<clock, obs, conns, live, clockDone, q, opening, inflight>>
      /\ epoch' = epoch + 1
      /\ writer' = [writer EXCEPT !.at = "ready"]
  BY DEF Connects, WriterOnly, clockVars, queueVars, Goes
<1>3. /\ writer' \in [at : States, first : BOOLEAN, batch : Seq(Lines)]
      /\ writer'.at = "ready" /\ writer'.batch = <<>>
  BY <1>1, <1>2 DEF States
<1>4. AllKnown' /\ ViewInv'
  BY <1>1, <1>2, <1>3, LinesStay, ViewStays
<1>5. PipeTypes' /\ Epochs' /\ OneSession'
  BY <1>1, <1>2, <1>3 DEF PipeInv, PipeTypes, Epochs, OneSession
<1>6. Writing' /\ Streaming'
  <2>1. ~Current' /\ Coming' = <<>>
    BY <1>1, <1>2, <1>3 DEF Current, Coming
  <2>. QED BY <1>3, <2>1 DEF Writing, Streaming, Chained
<1>. QED BY <1>4, <1>5, <1>6 DEF PipeInv

LEMMA ReturnsPipe ==
    ASSUME PipeInv, SourceInv, Grown, WriteReturns
    PROVE  PipeInv'
<1>1. /\ writer \in [at : States, first : BOOLEAN, batch : Seq(Lines)]
      /\ writer.batch = <<>> /\ writer.at = "write" /\ 0 \in 0..Batch
  BY ReporterAssumption DEF PipeInv, PipeTypes, WriteReturns
<1>2. /\ UNCHANGED <<clock, obs, epoch, conns, live, clockDone, q, opening>>
      /\ inflight' = 0
      /\ writer' = [writer EXCEPT !.at = "ready"]
  BY DEF WriteReturns, WriterOnly, clockVars, peerVars, Goes
<1>3. /\ writer' \in [at : States, first : BOOLEAN, batch : Seq(Lines)]
      /\ writer'.at = "ready" /\ writer'.batch = writer.batch
  BY <1>1, <1>2 DEF States
<1>4. AllKnown' /\ ViewInv'
  BY <1>1, <1>2, <1>3, LinesStay, ViewStays
<1>5. PipeTypes' /\ Epochs' /\ OneSession' /\ Writing'
  BY <1>1, <1>2, <1>3 DEF PipeInv, PipeTypes, Epochs, OneSession, Writing
<1>6. Streaming'
  <2>1. Coming' = Coming /\ Current' = Current /\ GoesOn' = GoesOn
    BY <1>2, <1>3 DEF Coming, Current, GoesOn
  <2>2. Streaming /\ Online
    BY <1>1 DEF Online, PipeInv
  <2>. QED BY <1>2, <1>3, <2>1, <2>2 DEF Streaming, Chained, EndOf, Reached
<1>. QED BY <1>4, <1>5, <1>6 DEF PipeInv

LEMMA Split ==
    ASSUME NEW S, NEW s \in Seq(S), NEW n \in 1..Len(s)
    PROVE  /\ SubSeq(s, 1, n) \in Seq(S) /\ Len(SubSeq(s, 1, n)) = n
           /\ SubSeq(s, n + 1, Len(s)) \in Seq(S) /\ Len(SubSeq(s, n + 1, Len(s))) = Len(s) - n
           /\ \A i \in 1..n : SubSeq(s, 1, n)[i] = s[i]
           /\ \A i \in 1..Len(s) - n : SubSeq(s, n + 1, Len(s))[i] = s[n + i]
           /\ SubSeq(s, 1, n) \o SubSeq(s, n + 1, Len(s)) = s
<1> DEFINE k == Len(s)
           a == SubSeq(s, 1, n)
           b == SubSeq(s, n + 1, k)
<1>1. k \in Nat /\ n \in 1..k /\ s \in [1..k -> S] /\ \A i \in 1..k : s[i] \in S
  BY LenProperties, ElementOfSeq
<1>2. a = [i \in 1..n |-> s[i]]
  BY <1>1 DEF a
<1>3. b = [i \in 1..k - n |-> s[n + i]]
  <2>1. b = [i \in 1..(k - (n + 1) + 1) |-> s[i + (n + 1) - 1]]
    BY <1>1 DEF b
  <2>2. k - (n + 1) + 1 = k - n /\ \A i \in 1..k - n : i + (n + 1) - 1 = n + i
    BY <1>1
  <2>. QED BY <2>1, <2>2
<1>. HIDE DEF k, a, b
<1>4. /\ a \in Seq(S) /\ Len(a) = n /\ \A i \in 1..n : a[i] = s[i]
  BY <1>1, <1>2
<1>5. /\ b \in Seq(S) /\ Len(b) = k - n /\ \A i \in 1..k - n : b[i] = s[n + i]
  <2>1. k - n \in Nat /\ \A i \in 1..k - n : n + i \in 1..k
    BY <1>1
  <2>. QED BY <1>1, <1>3, <2>1
<1>6. a \o b = s
  <2>1. /\ Len(a \o b) = k /\ DOMAIN (a \o b) = 1..k
        /\ a \o b \in Seq(S)
        /\ \A i \in 1..k : (a \o b)[i] = IF i <= n THEN a[i] ELSE b[i - n]
    BY <1>1, <1>4, <1>5, ConcatProperties, LenProperties
  <2>2. \A i \in 1..k : (a \o b)[i] = s[i]
    <3>1. \A i \in 1..k : (i <= n => i \in 1..n) /\ (~(i <= n) => i - n \in 1..k - n /\ n + (i - n) = i)
      BY <1>1
    <3>. QED BY <1>4, <1>5, <2>1, <3>1
  <2>. QED BY <1>1, <2>1, <2>2, SeqEqual DEF k
<1>. QED BY <1>4, <1>5, <1>6 DEF a, b, k

LEMMA TakesPipe ==
    ASSUME PipeInv, SourceInv, Grown, TakesBatch
    PROVE  PipeInv'
<1> DEFINE n == IF Len(q) < Batch THEN Len(q) ELSE Batch
           taken == SubSeq(q, 1, n)
           rest == SubSeq(q, n + 1, Len(q))
           batch == Kept(taken)
<1>1. /\ writer \in [at : States, first : BOOLEAN, batch : Seq(Lines)]
      /\ writer.at = "ready" /\ writer.batch = <<>>
      /\ q \in Seq(Lines) /\ Len(q) \in Nat /\ q # <<>> /\ opening \in BOOLEAN
  BY LenProperties DEF PipeInv, PipeTypes, Writing, TakesBatch
<1>2. n \in 1..Len(q) /\ n <= Batch /\ Batch \in Nat
  <2>1. Len(q) # 0
    BY <1>1, EmptySeq
  <2>. QED BY <1>1, <2>1, ReporterAssumption
<1>3. /\ q' = rest
      /\ opening' = (opening /\ \A i \in 1..n : taken[i].kind # "opening")
      /\ inflight' = Len(batch)
      /\ writer' = [writer EXCEPT !.at = IF batch = <<>> THEN "ready" ELSE "write",
                                  !.batch = batch]
      /\ UNCHANGED <<clock, obs, epoch, conns, live, clockDone>>
  BY DEF TakesBatch, WriterOnly, clockVars, peerVars
<1>. HIDE DEF n
<1>4. /\ taken \in Seq(Lines) /\ Len(taken) = n
      /\ rest \in Seq(Lines) /\ Len(rest) = Len(q) - n
      /\ \A i \in 1..n : taken[i] = q[i]
      /\ \A i \in 1..Len(q) - n : rest[i] = q[n + i]
      /\ taken \o rest = q
  BY <1>1, <1>2, Split
<1>. HIDE DEF taken, rest
<1>5. \A i \in 1..n : i \in 1..Len(q)
  BY <1>1, <1>2
<1>6. \A i \in 1..Len(q) - n : n + i \in 1..Len(q) /\ n + i # 1
  BY <1>1, <1>2
<1>7. /\ OneSession /\ AllKnown
      /\ \A i \in 1..Len(q) : q[i].epoch = clock.session
  BY DEF PipeInv, OneSession
<1>8. batch = IF Current THEN taken ELSE <<>>
  <2>1. CASE Current
    <3>1. \A i \in 1..Len(taken) : OfConnection(taken[i])
      BY <1>4, <1>5, <1>7, <2>1 DEF Current, OfConnection
    <3>. QED BY <1>4, <2>1, <3>1, KeptAll
  <2>2. CASE ~Current
    <3>1. \A i \in 1..Len(taken) : ~OfConnection(taken[i])
      BY <1>4, <1>5, <1>7, <2>2 DEF Current, OfConnection
    <3>. QED BY <1>4, <2>2, <3>1, KeptNone
  <2>. QED BY <2>1, <2>2
<1>9. batch \in Seq(Lines) /\ Len(batch) \in 0..Batch
  <2>1. <<>> \in Seq(Lines) /\ Len(<<>>) = 0
    OBVIOUS
  <2>. HIDE DEF batch
  <2>. QED BY <1>2, <1>4, <1>8, <2>1
<1>10. /\ writer' \in [at : States, first : BOOLEAN, batch : Seq(Lines)]
       /\ writer'.at \in {"ready", "write"} /\ writer'.batch = batch
       /\ batch # <<>> => writer'.at = "write"
  <2>. HIDE DEF batch
  <2>. QED BY <1>1, <1>3, <1>9 DEF States
<1>. HIDE DEF batch
<1>11. opening' = FALSE
  <2>1. CASE opening
    <3>1. q[1].kind = "opening" /\ 1 \in 1..n
      BY <1>2, <1>7, <2>1 DEF OneSession
    <3>. QED BY <1>3, <1>4, <3>1
  <2>2. CASE ~opening
    BY <1>1, <1>3, <2>2
  <2>. QED BY <2>1, <2>2
<1>12. AllKnown'
  <2>1. \A l : Known(l) => Known(l)'
    BY KnownStays
  <2>2. \A i \in 1..Len(rest) : Known(rest[i])
    BY <1>4, <1>6, <1>7 DEF AllKnown
  <2>3. \A i \in 1..Len(batch) : Known(batch[i])
    <3>1. CASE Current
      BY <1>4, <1>5, <1>7, <1>8, <3>1 DEF AllKnown
    <3>2. CASE ~Current
      BY <1>8, <3>2
    <3>. QED BY <3>1, <3>2
  <2>. QED BY <1>3, <1>10, <2>1, <2>2, <2>3 DEF AllKnown
<1>13. ViewInv'
  BY <1>3, ViewStays
<1>14. PipeTypes' /\ Epochs' /\ Writing'
  BY <1>1, <1>3, <1>4, <1>9, <1>10, <1>11 DEF PipeInv, PipeTypes, Epochs, Writing
<1>15. OneSession'
  <2>1. \A i \in 1..Len(rest) : /\ rest[i].epoch = clock.session
                                /\ rest[i].seq < clock.seq
                                /\ rest[i].kind # "opening"
    BY <1>4, <1>6, <1>7 DEF OneSession
  <2>. QED BY <1>1, <1>3, <1>7, <1>11, <2>1 DEF OneSession
<1>16. Streaming'
  <2>1. CASE ~Current
    <3>1. ~Current' /\ Coming' = <<>>
      BY <1>3, <1>8, <1>10, <2>1 DEF Current, Coming
    <3>. QED BY <3>1 DEF Streaming, Chained
  <2>2. CASE Current
    <3>1. /\ Current' /\ GoesOn' = GoesOn /\ Online
          /\ Coming = q /\ Coming' = q
      BY <1>1, <1>3, <1>4, <1>8, <1>10, <2>2, ConcatEmptySeq DEF Current, GoesOn, Coming, Online
    <3>2. Chained(obs, q) /\ (GoesOn => Reached)
      BY <2>2, <3>1 DEF PipeInv, Streaming
    <3>3. EndOf(obs, batch).seq >= 0 /\ EndOf(obs, batch).seq < clock.seq
      <4>1. taken # <<>> /\ batch = taken /\ n \in 1..n /\ n \in 1..Len(q)
        <5>1. n # 0 /\ n \in 1..n
          BY <1>1, <1>2
        <5>. QED BY <1>2, <1>4, <1>8, <2>2, <5>1, EmptySeq
      <4>2. EndOf(obs, batch) = q[n]
        BY <1>4, <4>1 DEF EndOf
      <4>3. q[n] \in Lines
        BY <1>1, <4>1, ElementOfSeq
      <4>4. q[n].seq \in Nat /\ q[n].seq < clock.seq
        BY <1>7, <4>1, <4>3 DEF OneSession, Lines
      <4>. QED BY <4>2, <4>4
    <3>4. GoesOn => Reached'
      BY <1>3, <1>10, <3>1, <3>2, <3>3 DEF Reached, EndOf
    <3>. QED BY <1>3, <3>1, <3>2, <3>4 DEF Streaming, Chained
  <2>. QED BY <2>1, <2>2
<1>. QED BY <1>12, <1>13, <1>14, <1>15, <1>16 DEF PipeInv

(* The observer is given a line: it follows from what it has been shown.   *)
LEMMA DeliversPipe ==
    ASSUME PipeInv, SourceInv, Grown, Delivers
    PROVE  PipeInv' /\ Follow(obs, Head(writer.batch))
<1> DEFINE b == writer.batch
           l == Head(b)
           t == IF Current THEN q ELSE <<>>
<1>1. /\ writer \in [at : States, first : BOOLEAN, batch : Seq(Lines)]
      /\ writer.at = "write" /\ b # <<>> /\ b \in Seq(Lines)
      /\ q \in Seq(Lines) /\ t \in Seq(Lines)
      /\ Tail(b) \in Seq(Lines) /\ l = b[1] /\ l \in Lines /\ 1 \in 1..Len(b)
      /\ \A i \in 1..Len(Tail(b)) : Tail(b)[i] = b[i + 1] /\ i + 1 \in 1..Len(b)
  <2>1. /\ writer \in [at : States, first : BOOLEAN, batch : Seq(Lines)]
        /\ writer.at = "write" /\ b # <<>> /\ b \in Seq(Lines)
        /\ q \in Seq(Lines)
    BY DEF PipeInv, PipeTypes, Delivers
  <2>2. Len(b) \in Nat /\ Len(b) # 0
    <3>. HIDE DEF b
    <3>. QED BY <2>1, LenProperties, EmptySeq
  <2>3. /\ Tail(b) \in Seq(Lines) /\ l = b[1] /\ Len(Tail(b)) = Len(b) - 1
        /\ \A i \in 1..Len(Tail(b)) : Tail(b)[i] = b[i + 1]
    <3>. HIDE DEF b
    <3>. QED BY <2>1, HeadTailProperties
  <2>4. /\ 1 \in 1..Len(b)
        /\ \A i \in 1..Len(Tail(b)) : i + 1 \in 1..Len(b)
    <3>. HIDE DEF b
    <3>. QED BY <2>2, <2>3
  <2>5. b[1] \in Lines /\ t \in Seq(Lines)
    <3>. HIDE DEF b
    <3>. QED BY <2>1, <2>4, ElementOfSeq
  <2>. HIDE DEF b
  <2>. QED BY <2>1, <2>3, <2>4, <2>5 DEF b
<1>2. /\ obs' = View(l)
      /\ writer' = [writer EXCEPT !.batch = Tail(b)]
      /\ UNCHANGED <<clock, history, q, opening, inflight, epoch, conns, live, clockDone>>
  BY DEF Delivers, WriterOnly, clockVars, queueVars, callerVars
<1>3. /\ writer' \in [at : States, first : BOOLEAN, batch : Seq(Lines)]
      /\ writer'.at = "write" /\ writer'.batch = Tail(b)
  BY <1>1, <1>2
<1>4. /\ Coming = b \o t /\ Coming' = Tail(b) \o t
      /\ Head(Coming) = l /\ Tail(Coming) = Coming' /\ Coming # <<>> /\ Coming \in Seq(Lines)
  <2>1. Coming = b \o t /\ Coming' = Tail(b) \o t
    BY <1>2, <1>3 DEF Coming, Current
  <2>. HIDE DEF b, t
  <2>2. Tail(b \o t) = Tail(b) \o t /\ Head(b \o t) = Head(b)
    BY <1>1, TailConcat
  <2>3. b \o t # <<>> /\ b \o t \in Seq(Lines)
    BY <1>1, ConcatEqualIffEmpty, ConcatProperties
  <2>. QED BY <2>1, <2>2, <2>3
<1>5. Chained(obs, Coming) /\ Chained(obs, b)
  <2>1. Chained(obs, Coming)
    BY <1>1 DEF PipeInv, Streaming, Online
  <2>. HIDE DEF b, t
  <2>. QED BY <1>1, <1>4, <2>1, ChainedPrefix
<1>6. obs'.at = l.at /\ obs'.seq = l.seq
  BY <1>2 DEF View
<1>. HIDE DEF b, t, l
<1>7. /\ Follow(obs, l) /\ Chained(obs', Coming')
      /\ EndOf(obs', Coming').at = EndOf(obs, Coming).at
      /\ EndOf(obs', Coming').seq = EndOf(obs, Coming).seq
  <2> DEFINE c == Coming
             o == obs'
  <2>1. c \in Seq(Lines) /\ c # <<>> /\ Chained(obs, c) /\ o.at = Head(c).at /\ o.seq = Head(c).seq
    BY <1>4, <1>5, <1>6
  <2>. HIDE DEF c, o
  <2>2. /\ Follow(obs, Head(c)) /\ Chained(o, Tail(c))
        /\ EndOf(o, Tail(c)).at = EndOf(obs, c).at /\ EndOf(o, Tail(c)).seq = EndOf(obs, c).seq
    BY <2>1, ChainedNext
  <2>. QED BY <1>4, <2>2 DEF c, o
<1>8. EndOf(obs', writer'.batch).seq = EndOf(obs, writer.batch).seq
  <2> DEFINE o == obs'
  <2>1. o.at = Head(b).at /\ o.seq = Head(b).seq
    BY <1>6 DEF l
  <2>. HIDE DEF o
  <2>2. b \in Seq(Lines) /\ b # <<>> /\ Chained(obs, b)
    BY <1>1, <1>5
  <2>3. /\ Follow(obs, Head(b)) /\ Chained(o, Tail(b))
        /\ EndOf(o, Tail(b)).at = EndOf(obs, b).at /\ EndOf(o, Tail(b)).seq = EndOf(obs, b).seq
    BY <2>1, <2>2, ChainedNext
  <2>. QED BY <1>3, <2>3 DEF o, b
<1>9. Streaming'
  <2>1. Current' = Current /\ GoesOn' = GoesOn /\ Online
    BY <1>1, <1>2 DEF Current, GoesOn, Online
  <2>2. Current /\ GoesOn => Reached
    BY <2>1 DEF PipeInv, Streaming
  <2>3. Current /\ GoesOn => Reached'
    BY <1>2, <1>7, <1>8, <2>2 DEF Reached
  <2>. QED BY <1>7, <2>1, <2>3 DEF Streaming
<1>10. AllKnown'
  <2>1. \A x : Known(x) => Known(x)'
    BY KnownStays
  <2>2. \A i \in 1..Len(Tail(b)) : Known(Tail(b)[i])
    BY <1>1 DEF PipeInv, AllKnown, b
  <2>. QED BY <1>2, <1>3, <2>1, <2>2 DEF PipeInv, AllKnown
<1>11. ViewInv' /\ obs' \in Views
  <2>1. /\ Known(l) /\ l.at \in Nat /\ l.seq \in Nat /\ l.at # 0 /\ l.at \in 1..clock.version
    <3>1. Known(l)
      BY <1>1 DEF PipeInv, AllKnown, b
    <3>2. l.at \in Nat /\ l.seq \in Nat
      BY <1>1 DEF Lines
    <3>3. l.at \in 1..clock.version
      BY <3>1 DEF Known
    <3>. QED BY <3>1, <3>2, <3>3
  <2>2. obs'.graph = history[l.at]
    <3>1. CASE l.kind = "change"
      <4>1. obs.seq >= 0 /\ l.at = obs.at + 1 /\ obs.seq \in Int /\ obs.at \in Nat
        BY <1>7, <3>1 DEF Follow, PipeInv, PipeTypes, Views
      <4>2. obs.graph = history[obs.at] /\ l.at - 1 = obs.at
        BY <4>1 DEF PipeInv, ViewInv
      <4>. QED BY <1>2, <2>1, <3>1, <4>2 DEF View, Known
    <3>2. CASE l.kind # "change"
      BY <1>2, <2>1, <3>2 DEF View, Known
    <3>. QED BY <3>1, <3>2
  <2>3. history[l.at] \in Graphs
    <3>1. l.at \in 1..Len(history) /\ history \in Seq(Graphs)
      <4> DEFINE n == Len(history)
                 v == clock.version
      <4>1. n \in Nat /\ v \in 1..n /\ l.at \in 1..v
        BY <2>1 DEF Grown
      <4>. HIDE DEF n, v
      <4>2. l.at \in 1..n
        BY <4>1
      <4>. QED BY <4>2 DEF n, SourceInv, SourceTypes
    <3>. QED BY <3>1, ElementOfSeq
  <2>4. obs' \in Views
    BY <1>2, <1>6, <2>1, <2>2, <2>3 DEF View, Views
  <2>5. l.at <= clock.version /\ l.seq >= -1 /\ l.seq # -1
    BY <2>1
  <2>. QED BY <1>2, <1>6, <2>1, <2>2, <2>4, <2>5 DEF ViewInv
<1>12. PipeTypes' /\ Epochs' /\ OneSession' /\ Writing'
  BY <1>1, <1>2, <1>3, <1>11 DEF PipeInv, PipeTypes, Epochs, OneSession, Writing
<1>. QED BY <1>7, <1>9, <1>10, <1>11, <1>12 DEF PipeInv, l, b

-----------------------------------------------------------------------------
(* Steps of the clock.                                                     *)

(* What a step of the clock leaves to the writer.                          *)
ClockFrame ==
    /\ UNCHANGED <<writer, obs, epoch, conns, inflight>>
    /\ live' \in BOOLEAN /\ clockDone' \in BOOLEAN
    /\ -1 <= clock'.session /\ clock'.session <= clock'.epoch /\ clock'.epoch <= epoch
    /\ clock'.at = "opening" => clock'.seq = 0
    /\ clock'.at \in {"begin", "opening", "recover"} => clock'.open

LEMMA BatchChained ==
    ASSUME PipeInv, SourceInv, Online
    PROVE  Chained(obs, writer.batch)
<1> DEFINE b == writer.batch
           t == IF Current THEN q ELSE <<>>
<1>1. Chained(obs, b \o t)
  BY DEF PipeInv, Streaming, Coming
<1>2. b \in Seq(Lines) /\ q \in Seq(Lines)
  BY EndKnown
<1>3. t \in Seq(Lines)
  BY <1>2
<1>. HIDE DEF b, t
<1>4. Chained(obs, b)
  BY <1>1, <1>2, <1>3, ChainedPrefix
<1>. QED BY <1>4 DEF b

LEMMA EndType ==
    ASSUME PipeInv, SourceInv
    PROVE  /\ EndOf(obs, Coming).seq \in Int /\ EndOf(obs, Coming).at \in Nat
           /\ EndOf(obs, writer.batch).seq \in Int
           /\ clock.seq \in Nat /\ clock.version \in Nat
<1> DEFINE b == writer.batch
<1>1. clock.seq \in Nat /\ clock.version \in Nat /\ b \in Seq(Lines) /\ obs.seq \in Int
  BY EndKnown DEF SourceInv, SourceTypes, Clocks, PipeInv, PipeTypes, Views
<1>. HIDE DEF b
<1>2. b # <<>> => b[Len(b)] \in Lines
  <2>1. b # <<>> => Len(b) \in 1..Len(b)
    BY <1>1, LenProperties, EmptySeq
  <2>. QED BY <1>1, <2>1, ElementOfSeq
<1>3. EndOf(obs, b).seq \in Int
  BY <1>1, <1>2 DEF EndOf, Lines
<1>4. EndOf(obs, Coming) \in Views \union Lines
  BY EndKnown
<1>. QED BY <1>1, <1>3, <1>4 DEF Views, Lines, b

(* The clock has emptied the queue or found it empty.                      *)
LEMMA EmptiedPipe ==
    ASSUME PipeInv, SourceInv, Grown, ClockFrame, q' = <<>>, opening' = FALSE,
           GoesOn' => /\ GoesOn /\ ~opening /\ clock'.at = "recover"
                      /\ clock'.session = clock.session /\ clock'.seq = clock.seq + 1
    PROVE  PipeInv'
<1>1. AllKnown' /\ ViewInv'
  BY LinesStay, ViewStays DEF ClockFrame
<1>2. <<>> \in Seq(Lines) /\ Len(<<>>) = 0
  OBVIOUS
<1>3. PipeTypes' /\ Epochs' /\ Writing' /\ OneSession'
  <2>1. PipeTypes'
    BY <1>2 DEF PipeInv, PipeTypes, ClockFrame
  <2>2. Epochs' /\ Writing'
    BY DEF PipeInv, Epochs, Writing, ClockFrame
  <2>3. OneSession'
    BY <1>2 DEF OneSession, ClockFrame
  <2>. QED BY <2>1, <2>2, <2>3
<1>4. Coming' = writer.batch /\ writer.batch \in Seq(Lines)
  <2>1. writer.batch \in Seq(Lines)
    BY EndKnown
  <2>2. writer.batch \o <<>> = writer.batch
    BY <2>1, ConcatEmptySeq
  <2>. QED BY <2>1, <2>2 DEF Coming, ClockFrame
<1>5. Streaming'
  <2>1. ASSUME Online' PROVE Online /\ Chained(obs, Coming')
    <3>1. Online
      BY <2>1 DEF Online, ClockFrame
    <3>. QED BY <1>4, <3>1, BatchChained
  <2>2. ASSUME Online', Current', GoesOn' PROVE Reached'
    <3>1. Current /\ GoesOn /\ Online /\ ~opening
      BY <2>1, <2>2 DEF Current, ClockFrame
    <3>2. EndOf(obs, writer.batch).seq >= 0 /\ EndOf(obs, writer.batch).seq < clock.seq
      BY <3>1 DEF PipeInv, Streaming, Reached
    <3>3. clock.seq \in Nat /\ EndOf(obs, writer.batch).seq \in Int
      BY EndType
    <3>4. clock'.at = "recover" /\ clock'.seq = clock.seq + 1
      BY <2>2
    <3>5. Coming' = writer.batch /\ writer'.batch = writer.batch /\ obs' = obs
      BY <1>4 DEF ClockFrame
    <3>. QED BY <3>2, <3>3, <3>4, <3>5 DEF Reached
  <2>. QED BY <2>1, <2>2 DEF Streaming, ClockFrame
<1>. QED BY <1>1, <1>3, <1>5 DEF PipeInv

(* The clock has left the queue as it was.                                 *)
LEMMA SamePipe ==
    ASSUME PipeInv, SourceInv, Grown, ClockFrame, UNCHANGED <<q, opening>>,
           clock'.session = clock.session, clock.seq <= clock'.seq, clock'.seq \in Nat,
           clock'.open = clock.open, clock.at \notin {"recover", "begin", "opening"},
           \/ /\ clock'.at = "recover"
              /\ clock'.seq > clock.seq
           \/ /\ clock'.at \notin {"recover", "begin", "opening"}
              /\ clock'.seq = clock.seq
              /\ clock'.version = clock.version
    PROVE  PipeInv'
<1>1. AllKnown' /\ ViewInv'
  BY LinesStay, ViewStays DEF ClockFrame
<1>2. PipeTypes' /\ Epochs' /\ Writing'
  BY DEF PipeInv, PipeTypes, Epochs, Writing, ClockFrame
<1>3. OneSession'
  <2>1. q \in Seq(Lines) /\ clock.seq \in Nat
    BY EndKnown, EndType
  <2>2. \A i \in 1..Len(q) : q[i].seq \in Nat
    <3>1. \A i \in 1..Len(q) : q[i] \in Lines
      BY <2>1, ElementOfSeq
    <3>. QED BY <3>1 DEF Lines
  <2>3. \A i \in 1..Len(q) : q[i].seq < clock'.seq
    BY <2>1, <2>2 DEF PipeInv, OneSession
  <2>. QED BY <2>3 DEF PipeInv, OneSession, ClockFrame
<1>4. Streaming'
  <2>1. /\ Coming' = Coming /\ Current' = Current /\ Online' = Online /\ GoesOn' = GoesOn
        /\ obs' = obs /\ writer' = writer /\ opening' = opening
    BY DEF Coming, Current, Online, GoesOn, ClockFrame
  <2>2. ASSUME Reached PROVE Reached'
    <3> DEFINE e == EndOf(obs, Coming)
               f == EndOf(obs, writer.batch)
    <3>1. /\ e.seq >= 0 /\ clock.seq = e.seq + 1 /\ clock.version = e.at
          /\ ~opening => f.seq >= 0 /\ f.seq < clock.seq
      BY <2>2 DEF Reached
    <3>2. e.seq \in Int /\ f.seq \in Int /\ clock.seq \in Nat
      BY EndType
    <3>. HIDE DEF e, f
    <3>3. /\ clock'.at = "recover" => clock'.seq > e.seq + 1
          /\ clock'.at # "recover" => clock'.seq = e.seq + 1 /\ clock'.version = e.at
          /\ ~opening => f.seq < clock'.seq
      BY <3>1, <3>2
    <3>. QED BY <2>1, <3>1, <3>3 DEF Reached, e, f
  <2>. QED BY <2>1, <2>2 DEF PipeInv, Streaming
<1>. QED BY <1>1, <1>2, <1>3, <1>4 DEF PipeInv

(* The clock has added a line to the queue.                                *)
LEMMA AddedPipe ==
    ASSUME PipeInv, SourceInv, Grown, ClockFrame, NEW l \in Lines, q' = Append(q, l),
           Known(l)', l.epoch = clock.session, l.seq = clock.seq, l.at = clock'.version,
           clock'.session = clock.session, clock'.seq = clock.seq + 1,
           clock.open, clock'.open, clock'.at = "events",
           \/ /\ l.kind = "opening" /\ clock.at = "opening" /\ opening' = TRUE
              /\ clock'.version = clock.version
           \/ /\ l.kind = "change" /\ clock.at = "events" /\ opening' = opening
              /\ clock'.version = clock.version + 1
           \/ /\ l.kind = "recovery" /\ clock.at = "recover" /\ opening' = opening
              /\ clock'.version = clock.version
    PROVE  PipeInv'
<1> DEFINE k == Len(q)
<1>1. /\ q \in Seq(Lines) /\ k \in Nat /\ clock.seq \in Nat /\ clock.version \in Nat
      /\ q' \in Seq(Lines) /\ Len(q') = k + 1 /\ q'[k + 1] = l /\ q' # <<>>
      /\ \A i \in 1..k : q'[i] = q[i] /\ q[i].seq \in Nat
      /\ writer.batch \in Seq(Lines) /\ Coming \in Seq(Lines)
  <2>1. q \in Seq(Lines) /\ writer.batch \in Seq(Lines) /\ Coming \in Seq(Lines)
    BY EndKnown
  <2>2. clock.seq \in Nat /\ clock.version \in Nat
    BY EndType
  <2>3. \A i \in 1..k : q[i].seq \in Nat
    <3>1. \A i \in 1..k : q[i] \in Lines
      BY <2>1, ElementOfSeq
    <3>. QED BY <3>1 DEF Lines
  <2>4. /\ q' \in Seq(Lines) /\ Len(q') = k + 1 /\ q'[k + 1] = l
        /\ \A i \in 1..k : q'[i] = q[i]
    BY <2>1, AppendProperties
  <2>5. q' # <<>> /\ k \in Nat
    BY <2>1, LenProperties, AppendProperties
  <2>. QED BY <2>1, <2>2, <2>3, <2>4, <2>5
<1>. HIDE DEF k
<1>2. \A i \in 1..k + 1 : i \in 1..k \/ i = k + 1
  BY <1>1
<1>3. OneSession /\ (q = <<>> <=> k = 0) /\ (clock.at = "opening" => q = <<>> /\ clock.seq = 0)
  BY <1>1, EmptySeq DEF PipeInv, OneSession, k
<1>4. AllKnown'
  <2>1. \A x : Known(x) => Known(x)'
    BY KnownStays
  <2>2. AllKnown
    BY DEF PipeInv
  <2>3. ASSUME NEW i \in 1..k + 1, NEW x, x = q'[i]
        PROVE  Known(x)'
    <3>1. CASE i \in 1..k
      <4>1. x = q[i]
        BY <1>1, <2>3, <3>1
      <4>2. Known(x)
        BY <2>2, <3>1, <4>1 DEF AllKnown, k
      <4>. QED BY <2>1, <4>2
    <3>2. CASE i = k + 1
      <4>1. x = l
        BY <1>1, <2>3, <3>2
      <4>. QED BY <4>1
    <3>. QED BY <1>2, <3>1, <3>2
  <2>4. \A i \in 1..Len(writer.batch) : \A x : x = writer.batch[i] => Known(x)'
    BY <2>1, <2>2 DEF AllKnown
  <2>. QED BY <1>1, <2>3, <2>4 DEF AllKnown, ClockFrame
<1>5. ViewInv'
  BY ViewStays DEF ClockFrame
<1>6. PipeTypes' /\ Epochs' /\ Writing'
  BY <1>1 DEF PipeInv, PipeTypes, Epochs, Writing, ClockFrame
<1>7. OneSession'
  <2>1. ASSUME NEW i \in 1..k + 1
        PROVE  /\ q'[i].epoch = clock.session /\ q'[i].seq < clock.seq + 1
               /\ q'[i].kind = "opening" => opening' /\ i = 1
    <3>1. CASE i = k + 1
      <4>1. q'[i] = l
        BY <1>1, <3>1
      <4>2. l.seq < clock.seq + 1
        BY <1>1
      <4>3. l.kind = "opening" => opening' /\ i = 1
        BY <1>1, <1>3, <3>1
      <4>. QED BY <4>1, <4>2, <4>3
    <3>2. CASE i \in 1..k
      <4>1. q'[i] = q[i] /\ q[i].seq \in Nat
        BY <1>1, <3>2
      <4>2. q[i].epoch = clock.session /\ q[i].seq < clock.seq /\ (q[i].kind = "opening" => opening /\ i = 1)
        BY <1>3, <3>2 DEF OneSession, k
      <4>. QED BY <1>1, <4>1, <4>2
    <3>. QED BY <1>2, <3>1, <3>2
  <2>2. opening' => q'[1].kind = "opening"
    <3>1. CASE clock.at = "opening"
      BY <1>1, <1>3, <3>1
    <3>2. CASE clock.at # "opening" /\ opening
      <4>1. q[1].kind = "opening" /\ q # <<>>
        BY <1>3, <3>2 DEF OneSession
      <4>2. 1 \in 1..k
        BY <1>1, <1>3, <4>1
      <4>. QED BY <1>1, <4>1, <4>2
    <3>3. CASE clock.at # "opening" /\ ~opening
      BY <3>3
    <3>. QED BY <3>1, <3>2, <3>3
  <2>. QED BY <1>1, <2>1, <2>2 DEF OneSession
<1>8. Streaming'
  <2>1. /\ Current' = Current /\ Online' = Online /\ obs' = obs /\ writer' = writer
    BY DEF Current, Online, ClockFrame
  <2>2. CASE ~Online
    BY <2>1, <2>2 DEF Streaming
  <2>3. CASE Online /\ ~Current
    <3>1. Coming' = Coming
      BY <2>1, <2>3 DEF Coming
    <3>. QED BY <2>1, <2>3, <3>1 DEF PipeInv, Streaming
  <2>4. CASE Online /\ Current
    <3>1. Coming' = Append(Coming, l)
      <4>1. Coming = writer.batch \o q /\ Coming' = writer.batch \o Append(q, l)
        BY <2>1, <2>4 DEF Coming
      <4> DEFINE b == writer.batch
      <4>2. b \o Append(q, l) = Append(b \o q, l)
        <5>1. b \in Seq(Lines) /\ q \in Seq(Lines) /\ l \in Lines
          BY <1>1
        <5>. HIDE DEF b
        <5>. QED BY <5>1, ConcatAppend
      <4>. QED BY <4>1, <4>2
    <3> DEFINE e == EndOf(obs, Coming)
               f == EndOf(obs, writer.batch)
    <3>2. e.seq \in Int /\ e.at \in Nat /\ e.at <= clock.version /\ f.seq \in Int
      BY EndType, EndKnown
    <3>3. Chained(obs, Coming) /\ (GoesOn => Reached)
      BY <2>4 DEF PipeInv, Streaming
    <3>4. GoesOn => /\ e.seq >= 0
                    /\ IF clock.at = "recover" THEN clock.seq > e.seq + 1
                       ELSE clock.seq = e.seq + 1 /\ clock.version = e.at
                    /\ ~opening => f.seq >= 0 /\ f.seq < clock.seq
      BY <3>3 DEF Reached
    <3>5. clock.at # "opening" => GoesOn
      BY DEF GoesOn
    <3>. HIDE DEF e, f
    <3>6. Follow(e, l)
      BY <1>1, <1>3, <3>2, <3>4, <3>5 DEF Follow
    <3>7. Chained(obs, Append(Coming, l)) /\ EndOf(obs, Append(Coming, l)) = l
      <4> DEFINE c == Coming
      <4>1. c \in Seq(Lines) /\ Chained(obs, c) /\ Follow(EndOf(obs, c), l)
        BY <1>1, <3>3, <3>6 DEF e
      <4>. HIDE DEF c
      <4>2. Chained(obs, Append(c, l)) /\ EndOf(obs, Append(c, l)) = l
        BY <4>1, ChainedAppend
      <4>. QED BY <4>2 DEF c
    <3>8. Reached'
      <4>1. ~opening' => f.seq >= 0 /\ f.seq < clock.seq + 1
        BY <1>1, <3>2, <3>4, <3>5
      <4>2. l.seq >= 0 /\ clock'.seq = l.seq + 1
        BY <1>1
      <4>. QED BY <2>1, <3>1, <3>7, <4>1, <4>2 DEF Reached, f
    <3>. QED BY <2>1, <3>1, <3>7, <3>8 DEF Streaming
  <2>. QED BY <2>2, <2>3, <2>4
<1>. QED BY <1>4, <1>5, <1>6, <1>7, <1>8 DEF PipeInv

LEMMA ClockKeeps ==
    ASSUME PipeInv, SourceInv, SourceInv', ClockThread
    PROVE  /\ UNCHANGED <<writer, obs, epoch, conns, inflight>>
           /\ live' \in BOOLEAN /\ clockDone' \in BOOLEAN
           /\ clock \in Clocks /\ clock' \in Clocks /\ epoch \in Nat
           /\ -1 <= clock.session /\ clock.session <= clock.epoch /\ clock.epoch <= epoch
<1>1. live \in BOOLEAN /\ clockDone \in BOOLEAN /\ clock \in Clocks /\ clock' \in Clocks /\ epoch \in Nat
  BY DEF PipeInv, PipeTypes, SourceInv, SourceTypes
<1>2. UNCHANGED <<writer, obs, epoch, conns, inflight>>
  BY DEF ClockThread, StepStarts, AppliesEvent, Sheds, EmitsRecovery, BeginsSession, EmitsOpening,
     StepRaises, ClockChecks, ClockOnly, queueVars, peerVars, bounds
<1>3. live' \in BOOLEAN /\ clockDone' \in BOOLEAN
  BY <1>1 DEF ClockThread, StepStarts, AppliesEvent, Sheds, EmitsRecovery, BeginsSession,
     EmitsOpening, StepRaises, ClockChecks, ClockOnly, queueVars, peerVars, bounds, Clocks
<1>. QED BY <1>1, <1>2, <1>3 DEF PipeInv, Epochs

LEMMA StartsPipe ==
    ASSUME PipeInv, SourceInv, SourceInv', Grown, StepStarts
    PROVE  PipeInv'
<1> DEFINE wanted == want /\ ~Closed
           ends == clock.open /\ (~wanted \/ epoch # clock.session)
<1>1. /\ clock.at = "step"
      /\ clock' = [clock EXCEPT !.at = "events", !.todo = events, !.want = wanted,
                                !.epoch = epoch, !.open = @ /\ ~ends]
      /\ IF ends THEN EmptyQueue ELSE UNCHANGED <<q, opening>>
  BY DEF StepStarts
<1>. HIDE DEF wanted, ends
<1>2. /\ clock \in Clocks /\ epoch \in Nat
      /\ -1 <= clock.session /\ clock.session <= clock.epoch /\ clock.epoch <= epoch
  BY ClockKeeps DEF ClockThread
<1>3. /\ clock'.at = "events" /\ clock'.epoch = epoch /\ clock'.open = (clock.open /\ ~ends)
      /\ UNCHANGED <<clock.session, clock.seq, clock.version>>
      /\ clock.session \in Int /\ clock.epoch \in Int /\ clock.open \in BOOLEAN
      /\ clock.seq \in Nat
  BY <1>1, <1>2 DEF Clocks
<1>4. ClockFrame
  BY <1>2, <1>3, ClockKeeps DEF ClockFrame, ClockThread
<1>5. CASE ends
  <2>1. q' = <<>> /\ opening' = FALSE /\ ~GoesOn'
    BY <1>1, <1>3, <1>5 DEF EmptyQueue, GoesOn
  <2>. QED BY <1>4, <2>1, EmptiedPipe
<1>6. CASE ~ends
  <2>1. UNCHANGED <<q, opening>> /\ clock'.open = clock.open
    BY <1>1, <1>3, <1>6
  <2>. QED BY <1>1, <1>3, <1>4, <2>1, SamePipe
<1>. QED BY <1>5, <1>6

LEMMA NoSessionEmpty ==
    ASSUME PipeInv, ~GoesOn
    PROVE  q = <<>> /\ opening = FALSE
BY DEF PipeInv, PipeTypes, OneSession, GoesOn

LEMMA LineTypes ==
    ASSUME SourceInv
    PROVE  /\ mirror \in Graphs /\ NoGraph \in Graphs
           /\ clock.seq \in Nat /\ clock.version \in Nat /\ clock.session \in Int
           /\ clock.todo # <<>> => Head(clock.todo) \in Events
           /\ clock.version \in 1..Len(history)
<1> DEFINE t == clock.todo
<1>1. /\ clock.seq \in Nat /\ clock.version \in Nat /\ clock.session \in Int /\ t \in Seq(Events)
      /\ history \in Seq(Graphs) /\ clock.version \in 1..Len(history)
      /\ mirror = history[clock.version]
  BY DEF SourceInv, SourceTypes, Clocks, Leads
<1>2. NoGraph \in Graphs
  BY NoGraphSound DEF Sound
<1>3. mirror \in Graphs
  BY <1>1, ElementOfSeq
<1>4. t # <<>> => Head(t) \in Events
  <2>. HIDE DEF t
  <2>. QED BY <1>1, HeadTailProperties
<1>. QED BY <1>1, <1>2, <1>3, <1>4

LEMMA AppliesPipe ==
    ASSUME PipeInv, SourceInv, SourceInv', Grown, AppliesEvent
    PROVE  PipeInv'
<1> DEFINE ev == Head(clock.todo)
           v == clock.version
           line == Line("change", ev, clock.seq, v + 1, NoGraph)
           next == [clock EXCEPT !.todo = Tail(@), !.version = @ + 1]
<1>1. /\ clock.at = "events" /\ clock.todo # <<>> /\ history' = history
      /\ mirror' = Apply(mirror, ev)
      /\ \/ ~clock.open /\ clock' = next /\ UNCHANGED <<q, opening>>
         \/ /\ clock.open /\ clock' = [next EXCEPT !.seq = @ + 1]
            /\ q' = Append(q, line) /\ UNCHANGED opening
         \/ /\ clock.open /\ clock' = [next EXCEPT !.seq = @ + 1, !.at = AfterOverflow]
            /\ EmptyQueue
  BY DEF AppliesEvent, callerVars
<1>2. /\ clock \in Clocks /\ epoch \in Nat
      /\ -1 <= clock.session /\ clock.session <= clock.epoch /\ clock.epoch <= epoch
  BY ClockKeeps DEF ClockThread
<1>3. /\ next.at = "events" /\ next.open = clock.open /\ next.session = clock.session
      /\ next.epoch = clock.epoch /\ next.seq = clock.seq /\ next.version = v + 1
      /\ next = [next EXCEPT !.seq = @]
      /\ DOMAIN next = DOMAIN clock
  BY <1>1, <1>2 DEF Clocks
<1>4. /\ clock'.open = clock.open /\ clock'.session = clock.session
      /\ clock'.epoch = clock.epoch /\ clock'.version = v + 1
      /\ clock'.at \in {"events", AfterOverflow}
      /\ clock'.at = "events" \/ clock.open
  BY <1>1, <1>2 DEF Clocks
<1>5. ClockFrame
  <2>1. AfterOverflow \in {"begin", "recover"}
    BY DEF AfterOverflow
  <2>. QED BY <1>2, <1>4, <2>1, ClockKeeps DEF ClockFrame, ClockThread
<1>6. CASE ~clock.open
  <2>1. q' = <<>> /\ opening' = FALSE /\ ~GoesOn'
    BY <1>1, <1>4, <1>6, NoSessionEmpty DEF GoesOn
  <2>. QED BY <1>5, <2>1, EmptiedPipe
<1>7. CASE clock.open /\ clock' = [next EXCEPT !.seq = @ + 1] /\ q' = Append(q, line) /\ UNCHANGED opening
  <2>1. clock'.at = "events" /\ clock'.seq = clock.seq + 1
    BY <1>2, <1>3, <1>7 DEF Clocks
  <2>2. /\ line \in Lines /\ line.kind = "change" /\ line.seq = clock.seq /\ line.at = v + 1
        /\ line.epoch = clock.session /\ line.ev = ev
    BY <1>1, LineTypes DEF Line, Lines
  <2>. HIDE DEF line
  <2>3. ASSUME NEW x, x = line PROVE Known(x)'
    <3>1. mirror = history[v] /\ mirror' = history'[v + 1] /\ v \in Nat /\ v >= 1
      BY <1>4, LineTypes DEF SourceInv
    <3>2. history'[v + 1] = Apply(history'[(v + 1) - 1], ev)
      BY <1>1, <3>1
    <3>3. v + 1 \in 1..clock'.version /\ v + 1 > 1
      BY <1>4, <3>1
    <3>. QED BY <2>2, <2>3, <3>2, <3>3 DEF Known
  <2>4. \E x : x = line /\ Known(x)'
    BY <2>3
  <2>5. PICK x : x = line /\ Known(x)'
    BY <2>4
  <2>6. /\ x \in Lines /\ x.kind = "change" /\ x.seq = clock.seq /\ x.at = clock'.version
        /\ x.epoch = clock.session /\ q' = Append(q, x)
    BY <1>4, <1>7, <2>2, <2>5
  <2>. QED BY <1>1, <1>4, <1>5, <1>7, <2>1, <2>5, <2>6, AddedPipe
<1>8. CASE clock.open /\ clock' = [next EXCEPT !.seq = @ + 1, !.at = AfterOverflow] /\ EmptyQueue
  <2>1. clock'.at = AfterOverflow /\ clock'.seq = clock.seq + 1
    BY <1>2, <1>3, <1>8 DEF Clocks
  <2>2. q' = <<>> /\ opening' = FALSE
    BY <1>8 DEF EmptyQueue
  <2>3. GoesOn' => GoesOn /\ ~opening /\ clock'.at = "recover"
    BY <1>1, <1>8, <2>1 DEF GoesOn, AfterOverflow
  <2>. QED BY <1>4, <1>5, <2>1, <2>2, <2>3, EmptiedPipe
<1>. QED BY <1>1, <1>6, <1>7, <1>8

LEMMA ShedsPipe ==
    ASSUME PipeInv, SourceInv, SourceInv', Grown, Sheds
    PROVE  PipeInv'
<1> DEFINE n == Len(Waiting)
<1>1. /\ clock.at = "events" /\ clock.open
      /\ clock' = [clock EXCEPT !.at = "recover", !.todo = <<>>, !.seq = @ + n + 1,
                                !.version = @ + n]
      /\ UNCHANGED <<q, opening>>
  BY DEF Sheds, Silent, Waiting
<1>2. /\ clock \in Clocks /\ epoch \in Nat
      /\ -1 <= clock.session /\ clock.session <= clock.epoch /\ clock.epoch <= epoch
  BY ClockKeeps DEF ClockThread
<1>3. n \in Nat /\ clock.seq \in Nat
  BY <1>2, WaitingType DEF SourceInv, Clocks
<1>. HIDE DEF n
<1>4. /\ clock'.at = "recover" /\ clock'.seq = clock.seq + n + 1
      /\ UNCHANGED <<clock.session, clock.epoch, clock.open>>
  BY <1>1, <1>2 DEF Clocks
<1>5. ClockFrame
  BY <1>1, <1>2, <1>4, ClockKeeps DEF ClockFrame, ClockThread
<1>6. clock'.seq > clock.seq /\ clock'.seq \in Nat /\ clock.seq <= clock'.seq
  BY <1>3, <1>4
<1>. QED BY <1>1, <1>4, <1>5, <1>6, SamePipe

LEMMA SnapshotLine ==
    ASSUME SourceInv, NEW k \in {"recovery", "opening"}
    PROVE  /\ Snapshot(k) \in Lines /\ Snapshot(k).kind = k /\ Snapshot(k).seq = clock.seq
           /\ Snapshot(k).at = clock.version /\ Snapshot(k).epoch = clock.session
           /\ Known(Snapshot(k))
<1>1. /\ Snapshot(k) \in Lines /\ Snapshot(k).kind = k /\ Snapshot(k).seq = clock.seq
      /\ Snapshot(k).at = clock.version /\ Snapshot(k).epoch = clock.session
      /\ Snapshot(k).graph = mirror
  BY LineTypes DEF Snapshot, Line, Lines
<1>2. clock.version \in 1..clock.version /\ mirror = history[clock.version]
  BY LineTypes DEF SourceInv
<1>. HIDE DEF Snapshot
<1>. QED BY <1>1, <1>2 DEF Known

LEMMA SnapshotPipe ==
    ASSUME PipeInv, SourceInv, SourceInv', Grown, EmitsRecovery \/ EmitsOpening
    PROVE  PipeInv'
<1> DEFINE k == IF clock.at = "opening" THEN "opening" ELSE "recovery"
           l == Snapshot(k)
<1>1. /\ q' = Append(q, l)
      /\ clock' = [clock EXCEPT !.at = "events", !.seq = @ + 1]
      /\ \/ clock.at = "recover" /\ opening' = opening
         \/ clock.at = "opening" /\ opening' = TRUE
  BY DEF EmitsRecovery, EmitsOpening
<1>2. /\ clock \in Clocks /\ epoch \in Nat
      /\ -1 <= clock.session /\ clock.session <= clock.epoch /\ clock.epoch <= epoch
  BY ClockKeeps DEF ClockThread
<1>3. /\ clock'.at = "events" /\ clock'.seq = clock.seq + 1
      /\ UNCHANGED <<clock.session, clock.epoch, clock.open, clock.version>>
  BY <1>1, <1>2 DEF Clocks
<1>4. clock.open
  BY <1>1 DEF PipeInv, OneSession
<1>5. ClockFrame
  BY <1>2, <1>3, ClockKeeps DEF ClockFrame, ClockThread
<1>6. /\ l \in Lines /\ l.kind = k /\ l.seq = clock.seq
      /\ l.at = clock.version /\ l.epoch = clock.session /\ Known(l)
  BY SnapshotLine
<1>. HIDE DEF l
<1>7. \A x : Known(x) => Known(x)'
  BY KnownStays
<1>8. \E x : /\ q' = Append(q, x) /\ x \in Lines /\ x.kind = k /\ x.seq = clock.seq
             /\ x.at = clock.version /\ x.epoch = clock.session /\ Known(x)'
  BY <1>1, <1>6, <1>7
<1>9. PICK x : /\ q' = Append(q, x) /\ x \in Lines /\ x.kind = k /\ x.seq = clock.seq
               /\ x.at = clock.version /\ x.epoch = clock.session /\ Known(x)'
  BY <1>8
<1>. QED BY <1>1, <1>3, <1>4, <1>5, <1>9, AddedPipe

LEMMA BeginsPipe ==
    ASSUME PipeInv, SourceInv, SourceInv', Grown, BeginsSession
    PROVE  PipeInv'
<1>1. /\ clock.at = "begin" \/ (clock.at = "events" /\ ~clock.open)
      /\ clock' = [clock EXCEPT !.at = "opening", !.seq = 0, !.open = TRUE,
                                !.session = IF clock.at = "begin" THEN @ ELSE clock.epoch]
      /\ UNCHANGED <<q, opening>>
  BY DEF BeginsSession, SessionDue
<1>2. /\ clock \in Clocks /\ epoch \in Nat
      /\ -1 <= clock.session /\ clock.session <= clock.epoch /\ clock.epoch <= epoch
  BY ClockKeeps DEF ClockThread
<1>3. /\ clock'.at = "opening" /\ clock'.seq = 0 /\ clock'.open = TRUE
      /\ clock'.session \in {clock.session, clock.epoch} /\ clock'.epoch = clock.epoch
      /\ clock.epoch \in Nat /\ clock.session \in Int
  BY <1>1, <1>2 DEF Clocks
<1>4. ClockFrame
  BY <1>2, <1>3, ClockKeeps DEF ClockFrame, ClockThread
<1>5. q' = <<>> /\ opening' = FALSE /\ ~GoesOn'
  BY <1>1, <1>3, NoSessionEmpty DEF GoesOn
<1>. QED BY <1>4, <1>5, EmptiedPipe

LEMMA RaisesPipe ==
    ASSUME PipeInv, SourceInv, SourceInv', Grown, StepRaises
    PROVE  PipeInv'
<1> DEFINE m == Len(history)
<1>1. /\ clock.at = "events"
      /\ clock' = [clock EXCEPT !.todo = <<>>, !.open = FALSE, !.want = FALSE,
                                !.version = m]
      /\ IF clock.open THEN EmptyQueue ELSE UNCHANGED <<q, opening>>
  BY DEF StepRaises
<1>. HIDE DEF m
<1>2. /\ clock \in Clocks /\ epoch \in Nat
      /\ -1 <= clock.session /\ clock.session <= clock.epoch /\ clock.epoch <= epoch
  BY ClockKeeps DEF ClockThread
<1>3. /\ clock'.at = "events" /\ clock'.open = FALSE
      /\ clock'.session = clock.session /\ clock'.epoch = clock.epoch
  BY <1>1, <1>2 DEF Clocks
<1>4. ClockFrame
  BY <1>2, <1>3, ClockKeeps DEF ClockFrame, ClockThread
<1>5. q' = <<>> /\ opening' = FALSE /\ ~GoesOn'
  BY <1>1, <1>3, NoSessionEmpty DEF GoesOn, EmptyQueue
<1>. QED BY <1>4, <1>5, EmptiedPipe

LEMMA ChecksPipe ==
    ASSUME PipeInv, SourceInv, SourceInv', Grown, ClockChecks
    PROVE  PipeInv'
<1>1. /\ clock.at = "events"
      /\ clock' = [clock EXCEPT !.at = IF clock.last THEN "done" ELSE "step", !.last = closing]
      /\ UNCHANGED <<q, opening>>
  BY DEF ClockChecks, queueVars
<1>2. /\ clock \in Clocks /\ epoch \in Nat
      /\ -1 <= clock.session /\ clock.session <= clock.epoch /\ clock.epoch <= epoch
  BY ClockKeeps DEF ClockThread
<1>3. /\ clock'.at \in {"done", "step"} /\ clock.seq \in Nat
      /\ UNCHANGED <<clock.session, clock.epoch, clock.open, clock.seq, clock.version>>
  BY <1>1, <1>2 DEF Clocks
<1>4. ClockFrame
  BY <1>2, <1>3, ClockKeeps DEF ClockFrame, ClockThread
<1>. QED BY <1>1, <1>3, <1>4, SamePipe

LEMMA PipeInit == Init => PipeInv
<1> SUFFICES ASSUME Init PROVE PipeInv
  OBVIOUS
<1>1. /\ clock = [at |-> "step", todo |-> <<>>, want |-> FALSE, epoch |-> 0, open |-> FALSE,
                  session |-> -1, seq |-> 0, version |-> 1, last |-> FALSE]
      /\ q = <<>> /\ opening = FALSE /\ inflight = 0 /\ epoch = 0 /\ conns = 0
      /\ writer = [at |-> "off", first |-> TRUE, batch |-> <<>>]
      /\ obs = NoView /\ live = FALSE /\ clockDone = FALSE
  BY DEF Init
<1>2. <<>> \in Seq(Lines) /\ 0 \in 0..Batch /\ 0 \in 0..MaxConns /\ Len(<<>>) = 0
  BY ReporterAssumption
<1>3. NoView \in Views /\ NoView.at = 0 /\ NoView.seq = -1 /\ NoView.graph = NoGraph
  <2>1. NoGraph \in Graphs
    BY NoGraphSound DEF Sound
  <2>. QED BY <2>1 DEF NoView, Views
<1>4. writer \in [at : States, first : BOOLEAN, batch : Seq(Lines)] /\ writer.at = "off"
      /\ writer.batch = <<>>
  BY <1>1, <1>2 DEF States
<1>5. PipeTypes
  BY <1>1, <1>2, <1>3, <1>4 DEF PipeTypes
<1>6. Epochs /\ OneSession
  BY <1>1, <1>2, <1>4 DEF Epochs, OneSession
<1>7. AllKnown /\ Writing /\ Streaming
  BY <1>1, <1>2, <1>4 DEF AllKnown, Writing, Streaming, Online
<1>8. ViewInv
  BY <1>1, <1>3 DEF ViewInv
<1>. QED BY <1>5, <1>6, <1>7, <1>8 DEF PipeInv

LEMMA OthersPipe ==
    ASSUME PipeInv, SourceInv, Grown, Caller \/ ObserverGoes \/ Closer \/ UNCHANGED vars
    PROVE  PipeInv'
<1>1. live \in BOOLEAN /\ clockDone \in BOOLEAN
  BY DEF PipeInv, PipeTypes
<1>2. UNCHANGED <<clock, q, opening, inflight, writer, obs, epoch, conns, clockDone>>
  BY DEF Caller, AddsElement, AddsLink, Removes, StartsSpan, EndsSpan, Post, ObserverGoes,
     WriterOnly, Closer, CloseAsks, JoinsThreads, MarksClosed, ClosesSink, CloserMoves,
     clockVars, queueVars, peerVars, bounds, vars
<1>3. live' \in BOOLEAN
  BY <1>1 DEF Caller, AddsElement, AddsLink, Removes, StartsSpan, EndsSpan, Post, ObserverGoes,
     WriterOnly, Closer, CloseAsks, JoinsThreads, MarksClosed, ClosesSink, CloserMoves, vars
<1>. QED BY <1>1, <1>2, <1>3, QuietPipe

LEMMA PipeStep == SourceInv /\ PipeInv /\ [Next]_vars => PipeInv'
<1> SUFFICES ASSUME SourceInv, PipeInv, [Next]_vars PROVE PipeInv'
  OBVIOUS
<1>1. SourceInv' /\ Grown
  BY SourceStep, SourceGrows
<1>2. CASE ClockThread
  BY <1>1, <1>2, StartsPipe, AppliesPipe, ShedsPipe, SnapshotPipe, BeginsPipe, RaisesPipe,
     ChecksPipe DEF ClockThread
<1>3. CASE WriterRuns
  <2>1. CASE Connects
    <3>1. closing \/ ~closing
      OBVIOUS
    <3>. QED BY <1>1, <2>1, <3>1, WriterAway, ConnectsPipe
  <2>. QED BY <1>1, <1>3, <2>1, WriterAway, OpensPipe, TakesPipe, ReturnsPipe DEF WriterRuns
<1>4. CASE Delivers
  BY <1>1, <1>4, DeliversPipe
<1>. QED BY <1>1, <1>2, <1>3, <1>4, OthersPipe DEF Next

ReporterInv == SourceInv /\ PipeInv

LEMMA ReporterInvariant == Spec => []ReporterInv
<1>1. Init => ReporterInv
  BY SourceInit, PipeInit DEF ReporterInv
<1>2. ReporterInv /\ [Next]_vars => ReporterInv'
  BY SourceStep, PipeStep DEF ReporterInv
<1>. QED BY <1>1, <1>2, PTL DEF Spec

(* Every change is on its way: the mirror with the events still to be      *)
(* applied is the registry, whatever was lost, raised or ended meanwhile.  *)
THEOREM MirrorReachesRegistry == Spec => []MirrorFollows
<1>1. ReporterInv => MirrorFollows
  <2> SUFFICES ASSUME SourceInv, ~Closed PROVE ApplyAll(mirror, clock.todo \o events) = registry
    BY DEF ReporterInv, MirrorFollows
  <2> DEFINE v == clock.version
  <2>1. /\ history \in Seq(Graphs) /\ Waiting \in Seq(Events) /\ Leads(history, v, Waiting)
        /\ mirror = history[v] /\ v + Len(Waiting) = Len(history)
        /\ registry = history[Len(history)]
    BY WaitingType DEF SourceInv, SourceTypes, HistoryOK
  <2>. HIDE DEF v
  <2>2. ApplyAll(history[v], Waiting) = history[v + Len(Waiting)]
    BY <2>1, LeadsAll
  <2>. QED BY <2>1, <2>2 DEF Waiting
<1>. QED BY <1>1, ReporterInvariant, PTL

(* What the observer has built from the lines it received is the graph the *)
(* source had at that point, after any loss and on every connection.       *)
THEOREM ViewIsSourceAsItWas == Spec => []ViewExact
<1>1. ReporterInv => ViewExact
  BY DEF ReporterInv, PipeInv, ViewInv, ViewExact
<1>. QED BY <1>1, ReporterInvariant, PTL

(* Every variable keeps its type.  The graphs of the registry, the mirror  *)
(* and the observer never hang an item from one that has been removed.     *)
THEOREM ReporterTypes == Spec => []ReporterTypeOK
<1>1. ReporterInv => ReporterTypeOK
  <2> SUFFICES ASSUME ReporterInv PROVE ReporterTypeOK
    OBVIOUS
  <2> DEFINE n == Len(history)
             v == clock.version
  <2>1. /\ n \in 1..MaxCalls + 1 /\ MaxCalls \in Nat /\ v \in 1..n
        /\ registry = history[n] /\ mirror = history[v]
        /\ \A i \in 1..n : Sound(history[i], i - 1)
    BY ReporterAssumption DEF ReporterInv, SourceInv, HistoryOK, Leads
  <2>2. obs.at \in Nat /\ obs.at <= v /\ obs.graph = (IF obs.at = 0 THEN NoGraph ELSE history[obs.at])
    BY DEF ReporterInv, PipeInv, PipeTypes, ViewInv, Views
  <2>3. \A g \in {registry, mirror, obs.graph} : Sound(g, MaxCalls)
    <3>. HIDE DEF n, v
    <3>1. ASSUME NEW i \in 1..n PROVE Sound(history[i], MaxCalls)
      <4>1. Sound(history[i], i - 1) /\ i - 1 <= MaxCalls /\ i - 1 \in Nat
        BY <2>1
      <4>2. 1..(i - 1) \subseteq 1..MaxCalls
        BY <2>1, <4>1
      <4>. QED BY <4>1, <4>2 DEF Sound
    <3>2. n \in 1..n /\ v \in 1..n /\ (obs.at # 0 => obs.at \in 1..n)
      <4> DEFINE o == obs.at
      <4>. HIDE DEF o
      <4>. QED BY <2>1, <2>2 DEF o
    <3>3. Sound(NoGraph, MaxCalls)
      BY <2>1, NoGraphSound
    <3>. QED BY <2>1, <2>2, <3>1, <3>2, <3>3
  <2>4. /\ clock.seq \in Nat /\ clock.epoch \in Nat /\ clock.session \in Int /\ epoch \in Nat
        /\ -1 <= clock.session /\ clock.session <= clock.epoch /\ clock.epoch <= epoch
        /\ epoch <= conns /\ conns \in 0..MaxConns /\ MaxConns \in Nat
        /\ inflight \in 0..Batch
        /\ {live, want, opening, clockDone, closing} \subseteq BOOLEAN
    <3>1. /\ clock.seq \in Nat /\ clock.epoch \in Nat /\ clock.session \in Int /\ epoch \in Nat
          /\ want \in BOOLEAN /\ closing \in BOOLEAN
      BY DEF ReporterInv, SourceInv, SourceTypes, Clocks
    <3>2. /\ live \in BOOLEAN /\ opening \in BOOLEAN /\ clockDone \in BOOLEAN
          /\ conns \in 0..MaxConns /\ MaxConns \in Nat /\ inflight \in 0..Batch
      BY ReporterAssumption DEF ReporterInv, PipeInv, PipeTypes
    <3>3. /\ -1 <= clock.session /\ clock.session <= clock.epoch /\ clock.epoch <= epoch
          /\ epoch + (IF writer.at = "opened" THEN 1 ELSE 0) <= conns
      BY DEF ReporterInv, PipeInv, Epochs
    <3>. QED BY <3>1, <3>2, <3>3
  <2>5. /\ clock.epoch \in 0..MaxConns /\ clock.session \in -1..MaxConns
        /\ epoch \in 0..MaxConns
    BY <2>4
  <2>. QED BY <2>1, <2>3, <2>4, <2>5 DEF ReporterTypeOK, Sound
<1>. QED BY <1>1, ReporterInvariant, PTL

-----------------------------------------------------------------------------
(* Every step of the reporter is a step of the stream it promises, or one  *)
(* that the observer and the source do not notice.                         *)
LEMMA StreamInit == Init => Observed!Init
BY DEF Init, NoView, Observed!Init

LEMMA StreamStep ==
    ReporterInv /\ [Next]_vars => [Observed!Next]_(Observed!streamVars)
<1> SUFFICES ASSUME ReporterInv, [Next]_vars PROVE [Observed!Next]_(Observed!streamVars)
  OBVIOUS
<1>. USE DEF Observed!Next, Observed!streamVars
<1>1. SourceInv /\ PipeInv /\ Grown
  BY SourceStep, SourceGrows DEF ReporterInv
<1>2. \/ Caller \/ SinkOpens \/ Delivers
      \/ UNCHANGED <<history, obs>>
  BY DEF Next, ClockThread, StepStarts, AppliesEvent, Sheds, EmitsRecovery, BeginsSession,
     EmitsOpening, StepRaises, ClockChecks, ClockOnly, WriterRuns, Dials, SinkFails,
     Connects, TakesBatch, WriteReturns, WriteFails, IdleLost, LosesSession, ClearsQueue,
     WriterEnds, ObserverGoes, WriterOnly, Closer, CloseAsks, JoinsThreads, MarksClosed,
     ClosesSink, CloserMoves, callerVars, peerVars, vars
<1>3. CASE Caller
  <2>1. PICK ev \in Events : Post(ev)
    BY <1>1, <1>3, CallerPosts
  <2>2. history' = Append(history, registry') /\ obs' = obs
    BY <2>1 DEF Post, peerVars
  <2>3. history \in Seq(Graphs) /\ registry' \in Graphs
    BY <1>1, SourceStep DEF SourceInv, SourceTypes
  <2>4. Len(history') = Len(history) + 1
    BY <2>2, <2>3, AppendProperties
  <2>. QED BY <2>2, <2>4 DEF Observed!Changes
<1>4. CASE SinkOpens
  <2>1. obs' = NoView /\ history' = history
    BY <1>4 DEF SinkOpens, WriterOnly, callerVars
  <2>. QED BY <2>1 DEF Observed!Connects, NoView
<1>5. CASE Delivers
  <2> DEFINE l == Head(writer.batch)
  <2>1. history' = history /\ obs'.at = l.at /\ obs'.seq = l.seq
    BY <1>5 DEF Delivers, WriterOnly, callerVars, View
  <2>2. Follow(obs, l)
    BY <1>1, <1>5, DeliversPipe
  <2>3. ViewInv' /\ obs'.at \in Nat /\ obs'.seq \in Nat /\ obs'.at \in 1..Len(history)
    <3>1. PipeInv' /\ SourceInv'
      BY <1>1, PipeStep, SourceStep
    <3>2. /\ obs'.at \in Nat /\ obs'.seq \in Int /\ obs'.seq >= -1 /\ obs'.at <= clock'.version
          /\ (obs'.at = 0 <=> obs'.seq = -1)
          /\ clock'.version \in 1..Len(history') /\ Len(history') \in Nat
      BY <3>1, LenProperties
         DEF PipeInv, PipeTypes, ViewInv, Views, SourceInv, SourceTypes, Leads
    <3>3. obs'.seq >= 0
      <4>1. obs.seq \in Int
        BY <1>1 DEF PipeInv, PipeTypes, Views
      <4>. HIDE DEF l
      <4>. QED BY <2>1, <2>2, <3>2, <4>1 DEF Follow
    <3>. QED BY <2>1, <3>1, <3>2, <3>3 DEF PipeInv
  <2>. HIDE DEF l
  <2>4. obs.at \in Nat /\ obs.seq \in Int
    BY <1>1 DEF PipeInv, PipeTypes, Views
  <2>. QED BY <2>1, <2>2, <2>3, <2>4
     DEF Follow, Observed!Opens, Observed!Follows, Observed!Recovers, Observed!ShowsSource
<1>6. CASE UNCHANGED <<history, obs>>
  BY <1>6
<1>. QED BY <1>2, <1>3, <1>4, <1>5, <1>6

(* The lines of every connection follow the session rules: the reporter    *)
(* implements SessionStream.                                               *)
THEOREM SessionsKeepOrder == Spec => SessionsInOrder
BY StreamInit, StreamStep, ReporterInvariant, PTL DEF Spec, SessionsInOrder, Observed!Stream

-----------------------------------------------------------------------------
(* The sink.                                                               *)

WriterOK ==
    /\ writer = [at |-> writer.at, first |-> writer.first, batch |-> writer.batch]
    /\ writer.at \in States
    /\ sink \in {"open", "down"}

(* What close() has set stays set.                                         *)
ClosingSet ==
    /\ closer \in {"none", "joining", "flag", "sink", "closed"}
    /\ closing \in BOOLEAN
    /\ closer # "none" => closing

(* Outside a connection the sink is down.  A sink that opened too late for *)
(* close() is in the hands of the writer, which finds closing set.         *)
SinkHeld ==
    /\ writer.at \in {"off", "opening", "lost", "clear"} => sink = "down"
    /\ closer = "closed" /\ sink = "open" => writer.at = "opened"

SinkInv == WriterOK /\ ClosingSet /\ SinkHeld

LEMMA SinkInit == Init => SinkInv
<1> SUFFICES ASSUME Init PROVE SinkInv
  OBVIOUS
<1>1. WriterOK
  <2>1. writer = [at |-> "off", first |-> TRUE, batch |-> <<>>]
    BY DEF Init
  <2>2. writer.at = "off" /\ writer.first = TRUE /\ writer.batch = <<>>
    BY <2>1
  <2>. QED BY <2>1, <2>2 DEF Init, WriterOK, States
<1>2. ClosingSet
  BY DEF Init, ClosingSet
<1>3. SinkHeld
  BY DEF Init, SinkHeld
<1>. QED BY <1>1, <1>2, <1>3 DEF SinkInv

LEMMA WriterStep ==
    ASSUME SinkInv, WriterRuns
    PROVE  SinkInv'
<1>. USE DEF SinkInv, WriterOK, States, ClosingSet, SinkHeld, WriterOnly, closeVars
<1>1. CASE Dials
  BY <1>1 DEF Dials, Goes, peerVars
<1>2. CASE SinkOpens \/ SinkFails
  BY <1>2 DEF SinkOpens, SinkFails, Goes, peerVars
<1>3. CASE Connects
  BY <1>3 DEF Connects, Goes, SinkIfClosing
<1>4. CASE TakesBatch
  <2>1. writer.at = "ready" /\ UNCHANGED <<sink, closer, closing>>
    BY <1>4 DEF TakesBatch, peerVars
  <2>2. PICK at \in {"ready", "write"} :
             \E batch : writer' = [writer EXCEPT !.at = at, !.batch = batch]
    BY <1>4 DEF TakesBatch
  <2>3. PICK batch : writer' = [writer EXCEPT !.at = at, !.batch = batch]
    BY <2>2
  <2>4. writer' = [at |-> at, first |-> writer.first, batch |-> batch]
    BY <2>3 DEF SinkInv, WriterOK
  <2>. QED BY <2>1, <2>2, <2>4
<1>5. CASE WriteReturns \/ WriteFails \/ IdleLost
  BY <1>5 DEF WriteReturns, WriteFails, IdleLost, Goes, peerVars
<1>6. CASE LosesSession \/ ClearsQueue \/ WriterEnds
  BY <1>6 DEF LosesSession, ClearsQueue, WriterEnds, Goes, peerVars
<1>. QED BY <1>1, <1>2, <1>3, <1>4, <1>5, <1>6 DEF WriterRuns

LEMMA PeerStep ==
    ASSUME SinkInv, Delivers \/ ObserverGoes
    PROVE  SinkInv'
BY DEF Delivers, ObserverGoes, WriterOnly, closeVars,
   SinkInv, WriterOK, States, ClosingSet, SinkHeld

LEMMA CloserStep ==
    ASSUME SinkInv, Closer
    PROVE  SinkInv'
BY DEF Closer, CloseAsks, JoinsThreads, MarksClosed, ClosesSink, CloserMoves, ClosedSink,
   SinkInv, WriterOK, States, ClosingSet, SinkHeld

LEMMA OthersLeaveSink ==
    ASSUME Caller \/ ClockThread \/ UNCHANGED vars
    PROVE  UNCHANGED <<writer, sink, closer, closing>>
<1>1. CASE Caller
  BY <1>1 DEF Caller, AddsElement, AddsLink, Removes, StartsSpan, EndsSpan, Post, peerVars,
     closeVars
<1>2. CASE ClockThread
  BY <1>2 DEF ClockThread, StepStarts, AppliesEvent, Sheds, EmitsRecovery, BeginsSession,
     EmitsOpening, StepRaises, ClockChecks, ClockOnly, peerVars, closeVars
<1>3. CASE UNCHANGED vars
  BY <1>3 DEF vars, peerVars, closeVars
<1>. QED BY <1>1, <1>2, <1>3

LEMMA SinkStep == SinkInv /\ [Next]_vars => SinkInv'
<1> SUFFICES ASSUME SinkInv, [Next]_vars PROVE SinkInv'
  OBVIOUS
<1>1. CASE UNCHANGED <<writer, sink, closer, closing>>
  BY <1>1 DEF SinkInv, WriterOK, ClosingSet, SinkHeld
<1>. QED BY <1>1, WriterStep, PeerStep, CloserStep, OthersLeaveSink DEF Next

(* Once close() has returned and the writer has ended, the sink is closed, *)
(* also when it opened while close() was under way.                        *)
THEOREM CloseLeavesNoSink == Spec => []SinkLeftClosed
<1>1. SinkInv => SinkLeftClosed
  BY DEF SinkInv, WriterOK, SinkHeld, SinkLeftClosed
<1>. QED BY <1>1, SinkInit, SinkStep, PTL DEF Spec
-----------------------------------------------------------------------------
(* The end of both threads.                                                *)

(* The clock: what is left of its current step and of those to come.       *)
StepsLeft ==
    IF clock.at = "done" THEN 0
    ELSE (IF clock.last THEN 1 ELSE 3) + (IF clock.at = "step" THEN 1 ELSE 0)

(* The clock: the snapshot it is about to queue.                           *)
SnapshotLeft ==
    IF clock.at = "begin" THEN 5
    ELSE IF clock.at \in {"opening", "recover"} THEN 4
    ELSE IF clock.at = "events" /\ SessionDue THEN 6
    ELSE 0

WriterLeft ==
    IF writer.at = "write" THEN 5
    ELSE IF writer.at = "ready" THEN 4
    ELSE IF writer.at \in {"opening", "lost"} THEN 3
    ELSE IF writer.at \in {"opened", "clear"} THEN 2
    ELSE IF writer.at = "off" THEN 1
    ELSE 0

(* What both threads still have to do once close() has returned: an event  *)
(* may cost a line, an overflow, a snapshot and its delivery, a fault a    *)
(* snapshot, a line a batch and its return.                                *)
Left == StepsLeft + SnapshotLeft + 7 * (Len(clock.todo) + Len(events))
        + 6 * (MaxFaults - faults) + 2 * Len(q) + WriterLeft

CloseInv == ReporterInv /\ SinkInv /\ faults \in 0..MaxFaults

LEMMA FaultsStep == faults \in 0..MaxFaults /\ [Next]_vars => faults' \in 0..MaxFaults
<1> SUFFICES ASSUME faults \in 0..MaxFaults, [Next]_vars PROVE faults' \in 0..MaxFaults
  OBVIOUS
<1>1. MaxFaults \in Nat
  BY ReporterAssumption
<1>2. CASE Sheds \/ StepRaises
  BY <1>1, <1>2 DEF Sheds, StepRaises, Faulty
<1>3. CASE UNCHANGED faults
  BY <1>3
<1>4. CASE Caller \/ Closer \/ UNCHANGED vars
  BY <1>3, <1>4 DEF Caller, AddsElement, AddsLink, Removes, StartsSpan, EndsSpan, Post, Closer,
     CloseAsks, JoinsThreads, MarksClosed, ClosesSink, CloserMoves, vars, bounds
<1>5. CASE WriterRuns \/ Delivers \/ ObserverGoes
  BY <1>3, <1>5 DEF WriterRuns, Dials, SinkOpens, SinkFails, Connects, TakesBatch, WriteReturns,
     WriteFails, IdleLost, LosesSession, ClearsQueue, WriterEnds, Delivers, ObserverGoes, WriterOnly
<1>6. CASE ClockThread
  BY <1>2, <1>3, <1>6 DEF ClockThread, StepStarts, AppliesEvent, EmitsRecovery,
     BeginsSession, EmitsOpening, ClockChecks, bounds
<1>. QED BY <1>4, <1>5, <1>6 DEF Next

LEMMA CloseInvariant == Spec => []CloseInv
<1>1. Init => faults \in 0..MaxFaults
  BY ReporterAssumption DEF Init
<1>2. Init => CloseInv
  BY <1>1, SourceInit, PipeInit, SinkInit DEF CloseInv, ReporterInv
<1>3. CloseInv /\ [Next]_vars => CloseInv'
  BY SourceStep, PipeStep, SinkStep, FaultsStep DEF CloseInv, ReporterInv
<1>. QED BY <1>2, <1>3, PTL DEF Spec

(* What the parts of the measure are made of.                              *)
LeftTyped ==
    /\ clock \in Clocks /\ clock.todo \in Seq(Events) /\ events \in Seq(Events)
    /\ Len(clock.todo) \in Nat /\ Len(events) \in Nat
    /\ q \in Seq(Lines) /\ Len(q) \in Nat
    /\ writer = [at |-> writer.at, first |-> writer.first, batch |-> writer.batch]
    /\ writer.at \in States /\ writer.batch \in Seq(Lines)
    /\ MaxFaults - faults \in Nat /\ faults \in Int /\ MaxFaults \in Int
    /\ StepsLeft \in 0..4 /\ SnapshotLeft \in 0..6 /\ WriterLeft \in 0..5
    /\ Left \in Nat

LEMMA LeftTypes == CloseInv => LeftTyped
<1> SUFFICES ASSUME CloseInv PROVE LeftTyped
  OBVIOUS
<1>1. clock \in Clocks /\ events \in Seq(Events) /\ q \in Seq(Lines)
  BY DEF CloseInv, ReporterInv, SourceInv, SourceTypes, PipeInv, PipeTypes
<1>2. clock.todo \in Seq(Events) /\ writer.batch \in Seq(Lines)
  BY <1>1 DEF Clocks, CloseInv, ReporterInv, PipeInv, PipeTypes
<1>3. Len(clock.todo) \in Nat /\ Len(events) \in Nat /\ Len(q) \in Nat
  BY <1>1, <1>2, LenProperties
<1>4. /\ writer = [at |-> writer.at, first |-> writer.first, batch |-> writer.batch]
      /\ writer.at \in States
  BY DEF CloseInv, SinkInv, WriterOK
<1>5. MaxFaults - faults \in Nat /\ faults \in Int /\ MaxFaults \in Int
  BY ReporterAssumption DEF CloseInv
<1>6. StepsLeft \in 0..4 /\ SnapshotLeft \in 0..6 /\ WriterLeft \in 0..5
  BY DEF StepsLeft, SnapshotLeft, WriterLeft
<1>7. Left \in Nat
  <2>1. StepsLeft \in Nat /\ SnapshotLeft \in Nat /\ WriterLeft \in Nat
    BY <1>6
  <2> DEFINE m == Len(clock.todo) + Len(events)
             f == MaxFaults - faults
             n == Len(q)
  <2>2. m \in Nat /\ f \in Nat /\ n \in Nat
    BY <1>3, <1>5
  <2>3. Left = StepsLeft + SnapshotLeft + 7 * m + 6 * f + 2 * n + WriterLeft
    BY DEF Left
  <2>. HIDE DEF m, f, n
  <2>. QED BY <2>1, <2>2, <2>3
<1>. QED BY <1>1, <1>2, <1>3, <1>4, <1>5, <1>6, <1>7 DEF LeftTyped

LEMMA LeftTypesNext == CloseInv' => LeftTyped'
BY LeftTypes, PTL

(* A fault pays for the snapshot it leaves.                                *)
LEMMA FaultPays ==
    ASSUME NEW a \in Int, NEW b \in Int, NEW m \in Int, NEW n \in Int, NEW k \in Int, NEW l \in Int,
           NEW f \in Int, b <= a + 4, n <= m, l <= k
    PROVE  b + 7 * n + 6 * f + 2 * l < a + 7 * m + 6 * (f + 1) + 2 * k
OBVIOUS

(* Once close() has returned a step of the clock takes something off.      *)
LEMMA ClockWinds ==
    ASSUME CloseInv, CloseInv', closer = "closed", ClockThread
    PROVE  Left' < Left
<1> DEFINE m == Len(clock.todo) + Len(events)
           own == StepsLeft + SnapshotLeft
<1>1. /\ clock \in Clocks /\ clock.todo \in Seq(Events) /\ events \in Seq(Events)
      /\ Len(clock.todo) \in Nat /\ Len(events) \in Nat
      /\ q \in Seq(Lines) /\ Len(q) \in Nat /\ Len(q') \in Nat /\ q' \in Seq(Lines)
      /\ faults \in Int /\ MaxFaults \in Int /\ m \in Nat /\ m' \in Nat
      /\ WriterLeft \in Int /\ own \in Int /\ own' \in Int
  <2>1. /\ StepsLeft \in 0..4 /\ SnapshotLeft \in 0..6 /\ StepsLeft' \in 0..4
        /\ SnapshotLeft' \in 0..6
    BY LeftTypes, LeftTypesNext DEF LeftTyped
  <2>2. own \in Int /\ own' \in Int
    BY <2>1
  <2>3. /\ Len(clock.todo) \in Nat /\ Len(events) \in Nat
        /\ Len(clock'.todo) \in Nat /\ Len(events') \in Nat
    BY LeftTypes, LeftTypesNext DEF LeftTyped
  <2>4. m \in Nat /\ m' \in Nat
    BY <2>3
  <2>5. /\ clock \in Clocks /\ clock.todo \in Seq(Events) /\ events \in Seq(Events)
        /\ q \in Seq(Lines) /\ Len(q) \in Nat /\ Len(q') \in Nat /\ q' \in Seq(Lines)
    BY LeftTypes, LeftTypesNext DEF LeftTyped
  <2>6. faults \in Int /\ MaxFaults \in Int /\ WriterLeft \in Int
    BY LeftTypes DEF LeftTyped
  <2>. HIDE DEF m, own
  <2>. QED BY <2>2, <2>3, <2>4, <2>5, <2>6
<1>2. WriterLeft' = WriterLeft /\ closing = TRUE /\ Closed
  BY OthersLeaveSink DEF WriterLeft, CloseInv, SinkInv, ClosingSet, Closed
<1>3. clock.at \in {"begin", "opening", "recover"} => clock.open
  BY DEF CloseInv, ReporterInv, PipeInv, OneSession
<1>4. SUFFICES /\ faults' \in {faults, faults + 1}
               /\ own' + 7 * m' + 6 * faults + 2 * Len(q')
                     < own + 7 * m + 6 * faults' + 2 * Len(q)
  <2> DEFINE o == own  oo == own'  mm == m'  k == Len(q)  kk == Len(q')  f == faults
             ff == faults'  w == WriterLeft
  <2>1. /\ Left = o + 7 * m + 6 * (MaxFaults - f) + 2 * k + w
        /\ Left' = oo + 7 * mm + 6 * (MaxFaults - ff) + 2 * kk + w
    BY <1>2 DEF Left
  <2>2. /\ ff \in Int /\ f \in Int /\ MaxFaults \in Int /\ o \in Int /\ oo \in Int /\ m \in Int
        /\ mm \in Int /\ k \in Int /\ kk \in Int /\ w \in Int
    BY <1>1, <1>4
  <2>3. oo + 7 * mm + 6 * f + 2 * kk < o + 7 * m + 6 * ff + 2 * k
    BY <1>4
  <2>. HIDE DEF o, oo, m, mm, k, kk, f, ff, w
  <2>. QED BY <2>1, <2>2, <2>3
<1>12. /\ faults \in Int /\ Len(q) \in Int /\ Len(q') \in Int
       /\ own \in Int /\ own' \in Int /\ m \in Int /\ m' \in Int
  BY <1>1
<1>5. CASE StepStarts
  <2>1. /\ clock.at = "step" /\ clock'.at = "events" /\ clock'.want = FALSE
        /\ clock'.last = clock.last /\ clock'.todo = events /\ events' = <<>>
        /\ faults' = faults /\ q' \in {q, <<>>}
    BY <1>1, <1>2, <1>5 DEF StepStarts, Clocks, EmptyQueue
  <2>2. clock.todo = <<>> /\ m' = m
    BY <1>1, <2>1 DEF CloseInv, ReporterInv, SourceInv
  <2>3. own' = own - 1
    BY <2>1 DEF StepsLeft, SnapshotLeft, SessionDue
  <2>4. Len(q') <= Len(q)
    BY <1>1, <2>1
  <2>. HIDE DEF own, m
  <2>. QED BY <1>12, <2>1, <2>2, <2>3, <2>4
<1>6. CASE AppliesEvent
  <2>1. /\ clock.at = "events" /\ clock.todo # <<>> /\ clock'.todo = Tail(clock.todo)
        /\ UNCHANGED <<events, faults>>
        /\ clock'.last = clock.last /\ clock'.want = clock.want /\ clock'.open = clock.open
        /\ clock'.at \in {"events", "begin", "recover"}
        /\ clock'.at # "events" => clock.open
    BY <1>1, <1>6 DEF AppliesEvent, Clocks, callerVars, AfterOverflow
  <2>2. m' = m - 1
    BY <1>1, <2>1
  <2>3. own' <= own + 5 /\ (clock'.at = "events" => own' = own)
    BY <2>1 DEF StepsLeft, SnapshotLeft, SessionDue
  <2>4. Len(q') <= Len(q) + 1 /\ (clock'.at # "events" => Len(q') <= Len(q))
    <3>1. \/ q' = q
          \/ q' = <<>>
          \/ clock'.at = "events" /\ \E l : q' = Append(q, l)
      BY <1>1, <1>6, <2>1 DEF AppliesEvent, Clocks, EmptyQueue
    <3>. QED BY <1>1, <3>1
  <2>. HIDE DEF own, m
  <2>. QED BY <1>12, <2>1, <2>2, <2>3, <2>4
<1>7. CASE Sheds
  <2>1. /\ clock.at = "events" /\ clock'.at = "recover" /\ clock'.todo = <<>> /\ events' = <<>>
        /\ faults' = faults + 1 /\ q' = q /\ clock'.last = clock.last
    BY <1>1, <1>7 DEF Sheds, Clocks, Faulty
  <2>2. m' <= m
    BY <1>1, <2>1
  <2>3. own' <= own + 4
    BY <2>1 DEF StepsLeft, SnapshotLeft
  <2>4. faults' = faults + 1 /\ Len(q') <= Len(q)
    BY <1>12, <2>1
  <2>. HIDE DEF own, m
  <2>5. own' + 7 * m' + 6 * faults + 2 * Len(q') < own + 7 * m + 6 * (faults + 1) + 2 * Len(q)
    BY <1>12, <2>2, <2>3, <2>4, FaultPays
  <2>. QED BY <2>4, <2>5
<1>8. CASE EmitsRecovery \/ EmitsOpening
  <2>1. /\ clock.at \in {"recover", "opening"} /\ clock'.at = "events" /\ clock'.todo = clock.todo
        /\ UNCHANGED <<events, faults>>
        /\ clock'.last = clock.last /\ clock'.open = clock.open
        /\ \E l : q' = Append(q, l)
    BY <1>1, <1>8 DEF EmitsRecovery, EmitsOpening, Clocks, callerVars
  <2>2. m' = m
    BY <2>1
  <2>3. own' = own - 4
    BY <1>3, <2>1 DEF StepsLeft, SnapshotLeft, SessionDue
  <2>4. Len(q') = Len(q) + 1
    BY <1>1, <2>1
  <2>. HIDE DEF own, m
  <2>. QED BY <1>12, <2>1, <2>2, <2>3, <2>4
<1>9. CASE BeginsSession
  <2>1. /\ clock.at = "begin" \/ (clock.at = "events" /\ SessionDue)
        /\ clock'.at = "opening" /\ clock'.todo = clock.todo /\ clock'.last = clock.last
        /\ UNCHANGED <<events, faults, q>>
    <3>1. clock.at = "begin" \/ (clock.at = "events" /\ SessionDue)
      BY <1>9 DEF BeginsSession, SessionDue
    <3>2. UNCHANGED <<events, faults, q>>
      BY <1>9 DEF BeginsSession, callerVars
    <3>3. \E s : clock' = [clock EXCEPT !.at = "opening", !.seq = 0, !.open = TRUE,
                                       !.session = s]
      BY <1>9 DEF BeginsSession
    <3>4. clock'.at = "opening" /\ clock'.todo = clock.todo /\ clock'.last = clock.last
      BY <1>1, <3>3 DEF Clocks
    <3>. QED BY <3>1, <3>2, <3>4
  <2>2. m' = m
    BY <2>1
  <2>3. own' < own
    BY <2>1 DEF StepsLeft, SnapshotLeft
  <2>. HIDE DEF own, m
  <2>. QED BY <1>12, <2>1, <2>2, <2>3
<1>10. CASE StepRaises
  <2>1. /\ clock.at = "events" /\ clock'.at = "events" /\ clock'.todo = <<>> /\ events' = <<>>
        /\ clock'.want = FALSE /\ clock'.last = clock.last /\ faults' = faults + 1
        /\ q' \in {q, <<>>}
    BY <1>1, <1>10 DEF StepRaises, Clocks, Faulty, EmptyQueue, Unapplied
  <2>2. m' <= m /\ Len(q') <= Len(q)
    BY <1>1, <2>1
  <2>3. own' <= own
    BY <2>1 DEF StepsLeft, SnapshotLeft, SessionDue
  <2>4. faults' = faults + 1
    BY <2>1
  <2>5. own' <= own + 4
    BY <1>12, <2>3
  <2>. HIDE DEF own, m
  <2>6. own' + 7 * m' + 6 * faults + 2 * Len(q') < own + 7 * m + 6 * (faults + 1) + 2 * Len(q)
    BY <1>12, <2>2, <2>5, FaultPays
  <2>. QED BY <2>4, <2>6
<1>11. CASE ClockChecks
  <2>1. /\ clock.at = "events" /\ ~SessionDue /\ clock'.todo = clock.todo
        /\ clock'.at = (IF clock.last THEN "done" ELSE "step") /\ clock'.last = TRUE
        /\ UNCHANGED <<events, faults, q>> /\ clock.last \in BOOLEAN
    BY <1>1, <1>2, <1>11 DEF ClockChecks, Clocks, callerVars, queueVars, bounds
  <2>2. m' = m
    BY <2>1
  <2>3. own' = own - 1
    BY <2>1 DEF StepsLeft, SnapshotLeft
  <2>. HIDE DEF own, m
  <2>. QED BY <1>12, <2>1, <2>2, <2>3
<1>. QED BY <1>5, <1>6, <1>7, <1>8, <1>9, <1>10, <1>11 DEF ClockThread

(* So does a step of the writer.                                           *)
LEMMA WriterWinds ==
    ASSUME CloseInv, CloseInv', closer = "closed", WriterRuns
    PROVE  Left' < Left
<1>1. /\ writer = [at |-> writer.at, first |-> writer.first, batch |-> writer.batch]
      /\ writer.at \in States /\ writer.batch \in Seq(Lines)
      /\ q \in Seq(Lines) /\ Len(q) \in Nat /\ Len(q') \in Nat
      /\ WriterLeft \in 0..5 /\ WriterLeft' \in 0..5
  BY LeftTypes, LeftTypesNext DEF LeftTyped
<1>2. closing = TRUE
  BY DEF CloseInv, SinkInv, ClosingSet
<1>3. UNCHANGED <<clock, events, faults>>
  BY DEF WriterRuns, Dials, SinkOpens, SinkFails, Connects, TakesBatch, WriteReturns, WriteFails,
     IdleLost, LosesSession, ClearsQueue, WriterEnds, WriterOnly, callerVars, clockVars
<1>4. SUFFICES 2 * Len(q') + WriterLeft' < 2 * Len(q) + WriterLeft
  <2> DEFINE r == StepsLeft + SnapshotLeft + 7 * (Len(clock.todo) + Len(events))
                  + 6 * (MaxFaults - faults)
             k == Len(q)  kk == Len(q')  w == WriterLeft  ww == WriterLeft'
  <2>1. r \in Int
    <3>1. /\ StepsLeft \in Int /\ SnapshotLeft \in Int /\ Len(clock.todo) + Len(events) \in Int
          /\ MaxFaults - faults \in Int
      BY LeftTypes DEF LeftTyped
    <3> DEFINE a == Len(clock.todo) + Len(events)  b == MaxFaults - faults
    <3>2. r = StepsLeft + SnapshotLeft + 7 * a + 6 * b
      OBVIOUS
    <3>3. a \in Int /\ b \in Int /\ StepsLeft \in Int /\ SnapshotLeft \in Int
      BY <3>1
    <3>. HIDE DEF a, b, r
    <3>. QED BY <3>2, <3>3
  <2>2. Left = r + 2 * k + w /\ Left' = r + 2 * kk + ww
    BY <1>3 DEF Left, StepsLeft, SnapshotLeft, SessionDue
  <2>3. k \in Int /\ kk \in Int /\ w \in Int /\ ww \in Int /\ 2 * kk + ww < 2 * k + w
    BY <1>1, <1>4
  <2>. HIDE DEF r, k, kk, w, ww
  <2>. QED BY <2>1, <2>2, <2>3
<1>5. CASE TakesBatch
  <2>1. /\ writer.at = "ready" /\ q # <<>>
        /\ \E n \in 1..Len(q) : q' = SubSeq(q, n + 1, Len(q))
    <3> DEFINE n == IF Len(q) < Batch THEN Len(q) ELSE Batch
    <3>1. writer.at = "ready" /\ q # <<>> /\ q' = SubSeq(q, n + 1, Len(q))
      BY <1>5 DEF TakesBatch
    <3>2. n \in 1..Len(q)
      <4>1. Batch \in Nat /\ Batch # 0
        BY ReporterAssumption
      <4>2. Len(q) \in Nat /\ Len(q) # 0
        BY <1>1, <3>1, EmptySeq
      <4>. QED BY <4>1, <4>2
    <3>. HIDE DEF n
    <3>. QED BY <3>1, <3>2
  <2>2. Len(q') <= Len(q) - 1
    BY <1>1, <2>1
  <2>3. WriterLeft = 4
    BY <2>1 DEF WriterLeft
  <2>. QED BY <1>1, <2>2, <2>3
<1>6. CASE Dials \/ SinkOpens \/ SinkFails
  <2>1. /\ q' = q
        /\ \/ writer.at = "off" /\ writer'.at = "ended"
           \/ writer.at = "opening" /\ writer'.at \in {"opened", "off"}
    BY <1>1, <1>2, <1>6 DEF Dials, SinkOpens, SinkFails, Goes, queueVars
  <2>2. WriterLeft' < WriterLeft
    BY <2>1 DEF WriterLeft
  <2>. QED BY <1>1, <2>1, <2>2
<1>7. CASE Connects
  <2>1. q' = q /\ writer.at = "opened" /\ writer'.at \in {"off", "ready"}
    BY <1>1, <1>7 DEF Connects, Goes, queueVars
  <2>2. writer'.at = "off"
    BY <1>1, <1>2, <1>7 DEF Connects, Goes
  <2>3. WriterLeft' < WriterLeft
    BY <2>1, <2>2 DEF WriterLeft
  <2>. QED BY <1>1, <2>1, <2>3
<1>8. CASE WriteReturns \/ WriteFails \/ IdleLost
  <2>1. q' = q
    BY <1>8 DEF WriteReturns, WriteFails, IdleLost, queueVars
  <2>2. \/ writer.at = "write" /\ writer'.at \in {"ready", "lost"}
        \/ writer.at = "ready" /\ writer'.at = "lost"
    BY <1>1, <1>8 DEF WriteReturns, WriteFails, IdleLost, Goes
  <2>3. WriterLeft' < WriterLeft
    BY <2>2 DEF WriterLeft
  <2>. QED BY <1>1, <2>1, <2>3
<1>9. CASE LosesSession \/ ClearsQueue \/ WriterEnds
  <2>1. /\ q' \in {q, <<>>}
        /\ \/ writer.at = "lost" /\ writer'.at = "clear"
           \/ writer.at = "clear" /\ writer'.at = "off"
           \/ writer.at = "ready" /\ writer'.at = "ended"
    BY <1>1, <1>9 DEF LosesSession, ClearsQueue, WriterEnds, Goes, queueVars, EmptyQueue
  <2>2. Len(q') <= Len(q)
    BY <1>1, <2>1
  <2>3. WriterLeft' < WriterLeft
    BY <2>1 DEF WriterLeft
  <2>. QED BY <1>1, <2>2, <2>3
<1>. QED BY <1>5, <1>6, <1>7, <1>8, <1>9 DEF WriterRuns

(* The callers, whose events are no longer posted, and a peer that goes    *)
(* away leave it as it is; the writer finds no sink to deliver to.         *)
LEMMA OthersWind ==
    ASSUME CloseInv, closer = "closed",
           Caller \/ Delivers \/ ObserverGoes \/ Closer \/ UNCHANGED vars
    PROVE  Left' = Left
<1>1. ~Delivers /\ ~Closer
  BY DEF Delivers, Closer, CloseAsks, JoinsThreads, MarksClosed, ClosesSink, CloserMoves,
     CloseInv, SinkInv, SinkHeld, WriterOK
<1>2. UNCHANGED <<clock, events, faults, q, writer>>
  <2>1. CASE Caller
    BY <2>1 DEF Caller, AddsElement, AddsLink, Removes, StartsSpan, EndsSpan, Post, Closed,
       clockVars, queueVars, bounds
  <2>2. CASE ObserverGoes
    BY <2>2 DEF ObserverGoes, WriterOnly, callerVars, clockVars, queueVars
  <2>3. CASE UNCHANGED vars
    BY <2>3 DEF vars, callerVars, clockVars, queueVars, bounds
  <2>. QED BY <1>1, <2>1, <2>2, <2>3
<1>. QED BY <1>2 DEF Left, StepsLeft, SnapshotLeft, WriterLeft, SessionDue

(* close() leaves the writer waiting neither for the clock nor for an      *)
(* observer that does not read: until it has ended, it has a step to take. *)
THEOREM CloseLeavesNoneWaiting == Spec => []CloseUnblocks
<1>1. CloseInv => CloseUnblocks
  BY DEF CloseInv, CloseUnblocks, SinkInv, WriterOK, States, ClosingSet, SinkHeld, WritersTurn
<1>. QED BY <1>1, CloseInvariant, PTL

(* And every such step takes something off what is left to do, which       *)
(* nothing else adds to: the two threads end after a bounded number of     *)
(* steps of theirs.                                                        *)
THEOREM ClosingWindsDown ==
    Spec => /\ [](Left \in Nat)
            /\ [][closer = "closed" => /\ Left' <= Left
                                       /\ ClockThread \/ WriterRuns => Left' < Left]_vars
<1> DEFINE Winds == closer = "closed" => /\ Left' <= Left
                                         /\ ClockThread \/ WriterRuns => Left' < Left
<1>1. CloseInv => Left \in Nat
  BY LeftTypes DEF LeftTyped
<1>2. CloseInv /\ CloseInv' /\ [Next]_vars => [Winds]_vars
  <2> SUFFICES ASSUME CloseInv, CloseInv', Next, closer = "closed"
               PROVE  Left' <= Left /\ (ClockThread \/ WriterRuns => Left' < Left)
    OBVIOUS
  <2>1. Left \in Nat /\ Left' \in Nat
    BY LeftTypes, LeftTypesNext DEF LeftTyped
  <2>2. CASE ClockThread \/ WriterRuns
    <3>1. Left' < Left
      BY <2>2, ClockWinds, WriterWinds
    <3>. QED BY <2>1, <3>1
  <2>3. CASE ~(ClockThread \/ WriterRuns)
    <3>1. Left' = Left
      BY <2>3, OthersWind DEF Next
    <3>. QED BY <2>1, <2>3, <3>1
  <2>. QED BY <2>2, <2>3
<1>. QED BY <1>1, <1>2, CloseInvariant, PTL DEF Spec
=============================================================================
