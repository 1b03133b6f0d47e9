--------------------------- MODULE WSServerProofs ---------------------------
(***************************************************************************)
(* Proofs about WSServer, for any number of clients, any bounds and        *)
(* policies, and any number of calls and cancellations.                    *)
(***************************************************************************)
EXTENDS WSServer, SendQueueProofs

-----------------------------------------------------------------------------
(* Every client of T gets a frame: k after h, with l the frames it lost.   *)
LEMMA SumGiven ==
    ASSUME NEW h, NEW k, NEW l, NEW T, IsFiniteSet(T), Counted(h, T), Counted(k, T),
           Counted(l, T), \A x \in T : k[x] + l[x] = h[x] + 1
    PROVE  SumFunctionOnSet(k, T) + SumFunctionOnSet(l, T)
             = SumFunctionOnSet(h, T) + Cardinality(T)
<1> DEFINE Given(s) == SumFunctionOnSet(k, s) + SumFunctionOnSet(l, s)
                         = SumFunctionOnSet(h, s) + Cardinality(s)
           good == {s \in SUBSET T : Given(s)}
<1>0. ASSUME NEW s \in SUBSET T
      PROVE  /\ IsFiniteSet(s) /\ Counted(h, s) /\ Counted(k, s) /\ Counted(l, s)
             /\ Cardinality(s) \in Nat
             /\ SumFunctionOnSet(k, s) \in Nat /\ SumFunctionOnSet(l, s) \in Nat
             /\ SumFunctionOnSet(h, s) \in Nat
  <2>1. IsFiniteSet(s) /\ Counted(h, s) /\ Counted(k, s) /\ Counted(l, s)
    BY FS_Subset DEF Counted
  <2>. QED BY <2>1, SumProps, FS_CardinalityType
<1>1. {} \in good
  <2>1. \A f : Counted(f, {}) /\ Cells(f, {}) = {}
    BY DEF Cells, Counted
  <2>2. \A f : SumFunctionOnSet(f, {}) = 0
    BY <2>1, FS_EmptySet, SumIsCells
  <2>. QED BY <2>2, FS_EmptySet
<1>2. ASSUME NEW s \in SUBSET T, s # {}, s \ {Pick(s)} \in good PROVE s \in good
  <2> DEFINE x == Pick(s)
             u == s \ {x}
  <2>1. x \in s /\ x \in T /\ u \in SUBSET T
    BY <1>2 DEF Pick
  <2>2. Given(u)
    BY <1>2
  <2>3. k[x] + l[x] = h[x] + 1 /\ k[x] \in Nat /\ l[x] \in Nat /\ h[x] \in Nat
    BY <2>1 DEF Counted
  <2>. HIDE DEF x
  <2>4. /\ SumFunctionOnSet(k, s) = k[x] + SumFunctionOnSet(k, u)
        /\ SumFunctionOnSet(l, s) = l[x] + SumFunctionOnSet(l, u)
        /\ SumFunctionOnSet(h, s) = h[x] + SumFunctionOnSet(h, u)
    BY <1>0, <2>1, SumProps
  <2>5. Cardinality(s) = Cardinality(u) + 1
    BY <1>0, <2>1, FS_RemoveElement
  <2>6. /\ SumFunctionOnSet(k, u) \in Nat /\ SumFunctionOnSet(l, u) \in Nat
        /\ SumFunctionOnSet(h, u) \in Nat /\ Cardinality(u) \in Nat
    BY <1>0, <2>1
  <2>. HIDE DEF u
  <2>7. Given(s)
    BY <2>2, <2>3, <2>4, <2>5, <2>6
  <2>. QED BY <2>7
<1>. HIDE DEF good
<1>3. SUBSET T \subseteq good
  BY <1>1, <1>2, SubsetsByPick
<1>. QED BY <1>3 DEF good

-----------------------------------------------------------------------------
(* A client's queue: all its frames are the same number, and the link      *)
(* counts every frame queued or in send(), busy saying whether one is.     *)

ServQueue(r) ==
    /\ r \in [overflow : Policies, frames : Seq({Frame}), tokens : Seq(Int),
              taken : Int, bytes : {r.bytes}, dropped : Nat, overflowed : BOOLEAN,
              ready : BOOLEAN, bound : BOOLEAN, backlog : Int]
    /\ Len(r.tokens) = Len(r.frames)

Backed(r, busy) ==
    /\ r.bound => /\ \A i \in 1..Len(r.tokens) : r.tokens[i] = 1
                  /\ r.backlog = Len(r.frames) + busy
                  /\ busy = 1 => r.taken = 1
    /\ ~r.bound => r.backlog = 0

LEMMA LiveProps ==
    ASSUME NEW r
    PROVE  /\ Reports(r, Live) <=> r.bound
           /\ EnterToken(r, Live) = IF r.bound THEN 1 ELSE NoToken
           /\ EnterToken(r, Live) \in Int
BY DEF Live, Reports, EnterToken, NoToken

LEMMA EmptyServQueue ==
    ASSUME NEW o \in Policies
    PROVE  ServQueue(EmptyQueue(o)) /\ Backed(EmptyQueue(o), 0) /\ EmptyQueue(o).frames = <<>>
BY EmptySeq DEF ServQueue, Backed, EmptyQueue, NoToken

(* Uncounting n tokens of the session.                                     *)
LEMMA LeftServ ==
    ASSUME NEW r, ServQueue(r), NEW toks \in Seq(Int),
           r.bound => \A i \in 1..Len(toks) : toks[i] = 1
    PROVE  LET p == Left(r, Live, toks)
           IN  /\ ServQueue(p)
               /\ p = [r EXCEPT !.backlog = IF r.bound THEN r.backlog - Len(toks) ELSE @]
<1>1. r.bound => Cardinality({i \in DOMAIN toks : toks[i] >= Live.T}) = Len(toks)
  <2>1. Live.T = 1
    BY DEF Live
  <2>. QED BY <2>1, RecentAll DEF Recent, Positions
<1>2. Len(toks) \in Nat
  BY LenProperties
<1>3. Left(r, Live, toks) = [r EXCEPT !.backlog = IF r.bound THEN r.backlog - Len(toks) ELSE @]
  <2>1. CASE r.bound
    BY <1>1, <2>1, LiveProps DEF Left
  <2>2. CASE ~r.bound
    <3>1. Left(r, Live, toks) = r
      BY <2>2, LiveProps DEF Left
    <3>. QED BY <2>2, <3>1 DEF ServQueue
  <2>. QED BY <2>1, <2>2
<1> DEFINE ba == IF r.bound THEN r.backlog - Len(toks) ELSE r.backlog
<1>4. ba \in Int /\ Left(r, Live, toks) = [r EXCEPT !.backlog = ba]
  BY <1>2, <1>3 DEF ServQueue
<1>5. ServQueue(Left(r, Live, toks))
  <2>. HIDE DEF ba
  <2>. QED BY <1>4 DEF ServQueue
<1>. QED BY <1>3, <1>5

LEMMA PushedServ ==
    ASSUME NEW r, ServQueue(r), NEW busy \in {0, 1}, Backed(r, busy)
    PROVE  LET p == Pushed(r, Live, Frame)
           IN  /\ ServQueue(p) /\ Backed(p, busy)
               /\ p.dropped = r.dropped /\ Len(p.frames) = Len(r.frames) + 1
               /\ p.bound = r.bound
<1> DEFINE fr == Append(r.frames, Frame)
           to == Append(r.tokens, EnterToken(r, Live))
           by == r.bytes + SizeOf(Frame)
           p == [r EXCEPT !.frames = fr, !.tokens = to, !.bytes = by, !.ready = TRUE,
                          !.backlog = IF r.bound THEN @ + 1 ELSE @]
<1>1. /\ r.frames \in Seq({Frame}) /\ r.tokens \in Seq(Int) /\ Len(r.frames) \in Nat
      /\ Len(r.tokens) = Len(r.frames) /\ EnterToken(r, Live) \in Int
  BY LenProperties, LiveProps DEF ServQueue
<1>2. /\ fr \in Seq({Frame}) /\ Len(fr) = Len(r.frames) + 1
      /\ to \in Seq(Int) /\ Len(to) = Len(r.tokens) + 1
      /\ \A i \in 1..Len(r.tokens) : to[i] = r.tokens[i]
      /\ to[Len(r.tokens) + 1] = EnterToken(r, Live)
  BY <1>1, AppendProperties
<1>3. r.bound => \A i \in 1..Len(to) : to[i] = IF i <= Len(r.tokens) THEN r.tokens[i] ELSE 1
  BY <1>1, <1>2, LiveProps
<1>4. Pushed(r, Live, Frame) = p
  BY LiveProps DEF Pushed, Entered, Reports, ServQueue
<1>. HIDE DEF fr, to, by
<1>5. ServQueue(p)
  <2> DEFINE ba == IF r.bound THEN r.backlog + 1 ELSE r.backlog
  <2>1. p = [r EXCEPT !.frames = fr, !.tokens = to, !.bytes = by, !.ready = TRUE,
                      !.backlog = ba]
    OBVIOUS
  <2>2. ba \in Int
    BY DEF ServQueue
  <2>3. fr \in Seq({Frame}) /\ to \in Seq(Int) /\ Len(to) = Len(fr)
    BY <1>1, <1>2
  <2>. HIDE DEF p, ba
  <2>. QED BY <2>1, <2>2, <2>3 DEF ServQueue
<1>6. Backed(p, busy)
  BY <1>1, <1>2, <1>3 DEF ServQueue, Backed
<1>7. p.dropped = r.dropped /\ Len(p.frames) = Len(r.frames) + 1 /\ p.bound = r.bound
  BY <1>2 DEF ServQueue
<1>. QED BY <1>4, <1>5, <1>6, <1>7

(* A dropped frame leaves the link; the token of the one in send() stays   *)
(* that of a frame of the session.                                         *)
LEMMA EvictServ ==
    ASSUME NEW r, ServQueue(r), NEW busy \in {0, 1}, Backed(r, busy),
           NEW n \in 0..Len(r.frames)
    PROVE  LET p == Evict(r, Live, n)
           IN  /\ ServQueue(p) /\ Backed(p, busy)
               /\ p.dropped = r.dropped + n /\ Len(p.frames) = Len(r.frames) - n
               /\ p.bound = r.bound
<1> DEFINE fr == Rest(r.frames, n)
           to == Rest(r.tokens, n)
           cut == Cut(r.tokens, n)
           by == r.bytes - Bytes(Cut(r.frames, n))
           ta == IF n = 0 THEN r.taken ELSE r.tokens[n]
           e == [r EXCEPT !.frames = fr, !.tokens = to, !.bytes = by,
                          !.dropped = r.dropped + n, !.taken = ta]
<1>1. /\ r.frames \in Seq({Frame}) /\ r.tokens \in Seq(Int) /\ Len(r.frames) \in Nat
      /\ Len(r.tokens) = Len(r.frames) /\ r.taken \in Int
      /\ \A i \in 1..Len(r.tokens) : r.tokens[i] \in Int
      /\ \A i \in 1..Len(r.frames) : r.frames[i] \in {Frame}
  BY LenProperties, ElementOfSeq DEF ServQueue
<1>2. fr \in Seq({Frame}) /\ Len(fr) = Len(r.frames) - n
  <2>1. \A i \in (n + 1)..Len(r.frames) : r.frames[i] \in {Frame}
    BY <1>1
  <2>. QED BY <1>1, <2>1, SubSeqProperties DEF Rest
<1>3. /\ to \in Seq(Int) /\ Len(to) = Len(r.tokens) - n
      /\ \A i \in 1..Len(to) : to[i] = r.tokens[i + n]
  <2>1. \A i \in (n + 1)..Len(r.tokens) : r.tokens[i] \in Int
    BY <1>1
  <2>. QED BY <1>1, <2>1, SubSeqProperties DEF Rest
<1>4. cut \in Seq(Int) /\ Len(cut) = n /\ \A i \in 1..Len(cut) : cut[i] = r.tokens[i]
  <2>1. \A i \in 1..n : r.tokens[i] \in Int
    BY <1>1
  <2>. QED BY <1>1, <2>1, SubSeqProperties DEF Cut
<1>5. ta \in Int /\ (r.bound /\ busy = 1 => ta = 1)
  BY <1>1 DEF Backed
<1>6. Evict(r, Live, n) = Left(e, Live, cut)
  BY DEF Evict, ServQueue
<1>7. r.bound => /\ \A i \in 1..Len(cut) : cut[i] = 1
                 /\ \A i \in 1..Len(to) : to[i] = 1
  <2>1. ASSUME r.bound, NEW i \in 1..Len(cut) PROVE cut[i] = 1
    <3>1. i \in 1..Len(r.tokens) /\ cut[i] = r.tokens[i]
      BY <1>1, <1>4
    <3>. QED BY <2>1, <3>1 DEF Backed
  <2>2. ASSUME r.bound, NEW i \in 1..Len(to) PROVE to[i] = 1
    <3>1. i + n \in 1..Len(r.tokens) /\ to[i] = r.tokens[i + n]
      BY <1>1, <1>3
    <3>. QED BY <2>2, <3>1 DEF Backed
  <2>. QED BY <2>1, <2>2
<1>. HIDE DEF fr, to, cut, by, ta
<1>8. ServQueue(e) /\ e.bound = r.bound
  <2>1. e = [r EXCEPT !.frames = fr, !.tokens = to, !.bytes = by,
                      !.dropped = r.dropped + n, !.taken = ta]
    OBVIOUS
  <2>2. r.dropped + n \in Nat /\ Len(to) = Len(fr)
    BY <1>1, <1>2, <1>3 DEF ServQueue
  <2>. HIDE DEF e
  <2>3. ServQueue(e)
    BY <1>2, <1>3, <1>5, <2>1, <2>2 DEF ServQueue
  <2>. QED BY <2>1, <2>3 DEF ServQueue
<1> DEFINE p == [e EXCEPT !.backlog = IF e.bound THEN e.backlog - Len(cut) ELSE @]
<1>9. Left(e, Live, cut) = p /\ ServQueue(p)
  <2>. HIDE DEF e
  <2>. QED BY <1>4, <1>7, <1>8, LeftServ
<1>10. p.frames = fr /\ p.tokens = to /\ p.taken = ta /\ p.bound = r.bound
       /\ p.dropped = r.dropped + n
       /\ p.backlog = IF r.bound THEN r.backlog - n ELSE r.backlog
  BY <1>4 DEF ServQueue
<1>. HIDE DEF p
<1>11. Backed(p, busy)
  BY <1>1, <1>2, <1>5, <1>7, <1>10 DEF Backed, ServQueue
<1>. QED BY <1>2, <1>6, <1>9, <1>10, <1>11

LEMMA RoundsServ ==
    ASSUME NEW r, ServQueue(r), NEW busy \in {0, 1}, Backed(r, busy), NEW size
    PROVE  Rounds(r, Live, size) \in 0..Len(r.frames)
<1> DEFINE S == {n \in 0..Len(r.frames) : ~Full(Evict(r, Live, n), size)}
<1>1. Len(r.frames) \in Nat
  BY LenProperties DEF ServQueue
<1>2. Len(r.frames) \in S
  <2>1. /\ Len(Evict(r, Live, Len(r.frames)).frames) = 0
        /\ Evict(r, Live, Len(r.frames)).frames \in Seq({Frame})
    <3>1. Len(r.frames) \in 0..Len(r.frames) /\ Len(r.frames) - Len(r.frames) = 0
      BY <1>1
    <3>2. ServQueue(Evict(r, Live, Len(r.frames)))
      BY <3>1, EvictServ
    <3>3. Len(Evict(r, Live, Len(r.frames)).frames) = Len(r.frames) - Len(r.frames)
      BY <3>1, EvictServ
    <3>4. Evict(r, Live, Len(r.frames)).frames \in Seq({Frame})
      BY <3>2 DEF ServQueue
    <3>. QED BY <3>1, <3>3, <3>4
  <2>2. Evict(r, Live, Len(r.frames)).frames = <<>>
    BY <2>1, EmptySeq
  <2>. QED BY <1>1, <2>1, <2>2, SendQueueAssumption DEF Full, None
<1>3. S \subseteq Nat /\ S # {}
  BY <1>1, <1>2
<1>4. Min(S) \in S
  <2>. HIDE DEF S
  <2>. QED BY <1>3, MinOfNaturals
<1>. QED BY <1>4 DEF Rounds

(* A frame handed to a queue is queued or counted, and may push out others *)
(* that are counted.                                                       *)
LEMMA OfferedServ ==
    ASSUME NEW r, ServQueue(r), NEW busy \in {0, 1}, Backed(r, busy)
    PROVE  LET p == Offered(r)
           IN  /\ ServQueue(p) /\ Backed(p, busy)
               /\ LostBy(r) \in Nat /\ Len(p.frames) \in Nat
               /\ Len(p.frames) + LostBy(r) = Len(r.frames) + 1
               /\ p.bound = r.bound
<1> DEFINE p == Offered(r)
           full == Full(r, SizeOf(Frame))
<1>1. r.overflow \in Policies /\ r.dropped \in Nat /\ Len(r.frames) \in Nat
  BY LenProperties DEF ServQueue
<1>2. CASE r.overflowed
  BY <1>1, <1>2 DEF Offered, LostBy
<1>3. CASE ~r.overflowed /\ ~full
  <2>1. p = Pushed(r, Live, Frame)
    BY <1>3 DEF Offered, Put
  <2>2. LostBy(r) = p.dropped - r.dropped
    BY <1>3 DEF LostBy, Refused
  <2>. QED BY <1>1, <2>1, <2>2, PushedServ
<1>4. CASE ~r.overflowed /\ full /\ r.overflow = "drop_new"
  <2>1. p = [r EXCEPT !.dropped = @ + 1]
    BY <1>4 DEF Offered, Put
  <2>2. LostBy(r) = p.dropped - r.dropped
    BY <1>4 DEF LostBy, Refused
  <2>3. p.dropped = r.dropped + 1 /\ p.frames = r.frames /\ ServQueue(p) /\ Backed(p, busy)
        /\ p.bound = r.bound
    BY <1>1, <2>1 DEF ServQueue, Backed
  <2>. QED BY <1>1, <2>2, <2>3
<1>5. CASE ~r.overflowed /\ full /\ r.overflow = "disconnect"
  <2>1. p = [r EXCEPT !.overflowed = TRUE, !.ready = TRUE]
    BY <1>5 DEF Offered, Put
  <2>2. LostBy(r) = 1
    BY <1>5 DEF LostBy, Refused
  <2>3. p.frames = r.frames /\ ServQueue(p) /\ Backed(p, busy) /\ p.bound = r.bound
    BY <2>1 DEF ServQueue, Backed
  <2>. QED BY <1>1, <2>2, <2>3
<1>6. CASE ~r.overflowed /\ full /\ r.overflow = "drop_old"
  <2> DEFINE n == Rounds(r, Live, SizeOf(Frame))
             e == Evict(r, Live, n)
  <2>1. p = Pushed(e, Live, Frame)
    BY <1>6 DEF Offered, Put
  <2>2. LostBy(r) = p.dropped - r.dropped
    BY <1>6 DEF LostBy, Refused
  <2>3. n \in 0..Len(r.frames)
    BY RoundsServ
  <2>. HIDE DEF n
  <2>4. /\ ServQueue(e) /\ Backed(e, busy) /\ e.dropped = r.dropped + n
        /\ Len(e.frames) = Len(r.frames) - n /\ e.bound = r.bound
    BY <2>3, EvictServ
  <2>. HIDE DEF e
  <2>5. /\ ServQueue(p) /\ Backed(p, busy) /\ p.dropped = e.dropped
        /\ Len(p.frames) = Len(e.frames) + 1 /\ p.bound = e.bound
    BY <2>1, <2>4, PushedServ
  <2>. HIDE DEF p
  <2>6. n \in Nat /\ LostBy(r) = n /\ Len(p.frames) = Len(r.frames) - n + 1
        /\ Len(p.frames) \in Nat
    BY <1>1, <2>2, <2>3, <2>4, <2>5
  <2>. QED BY <1>1, <2>4, <2>5, <2>6 DEF p
<1>. QED BY <1>1, <1>2, <1>3, <1>4, <1>5, <1>6 DEF Policies

LEMMA TakeServ ==
    ASSUME NEW r, ServQueue(r), Backed(r, 0), CanTake(r)
    PROVE  LET p == Take(r)
           IN  /\ ServQueue(p) /\ Backed(p, 1) /\ p.bound = r.bound
               /\ Len(p.frames) + 1 = Len(r.frames) /\ Len(p.frames) \in Nat
<1> DEFINE fr == Tail(r.frames)
           to == Tail(r.tokens)
           ta == Head(r.tokens)
           by == r.bytes - SizeOf(Head(r.frames))
           p == [r EXCEPT !.frames = fr, !.tokens = to, !.taken = ta, !.bytes = by]
<1>1. /\ r.frames \in Seq({Frame}) /\ r.frames # <<>> /\ Len(r.frames) \in Nat
      /\ r.tokens \in Seq(Int) /\ Len(r.tokens) = Len(r.frames)
  BY LenProperties DEF ServQueue, CanTake
<1>2. r.tokens # <<>> /\ Len(r.tokens) > 0
  BY <1>1, EmptySeq
<1>3. /\ fr \in Seq({Frame}) /\ Len(fr) + 1 = Len(r.frames) /\ Len(fr) \in Nat
      /\ to \in Seq(Int) /\ Len(to) + 1 = Len(r.tokens)
      /\ \A i \in 1..Len(to) : to[i] = r.tokens[i + 1]
  BY <1>1, <1>2, HeadTailProperties, LenProperties
<1>4. ta \in Int /\ ta = r.tokens[1] /\ 1 \in 1..Len(r.tokens)
  BY <1>1, <1>2, HeadTailProperties, ElementOfSeq
<1>5. r.bound => ta = 1 /\ \A i \in 1..Len(to) : to[i] = 1
  <2>1. ASSUME r.bound, NEW i \in 1..Len(to) PROVE to[i] = 1
    <3>1. i + 1 \in 1..Len(r.tokens) /\ to[i] = r.tokens[i + 1]
      BY <1>1, <1>3
    <3>. QED BY <2>1, <3>1 DEF Backed
  <2>2. ASSUME r.bound PROVE ta = 1
    BY <1>4, <2>2 DEF Backed
  <2>. QED BY <2>1, <2>2
<1>6. Take(r) = p
  BY DEF Take, ServQueue
<1>. HIDE DEF fr, to, ta, by
<1>7. Len(to) = Len(fr)
  <2>1. Len(to) \in Nat
    BY <1>3, LenProperties
  <2>. QED BY <1>1, <1>3, <2>1
<1>8. ServQueue(p) /\ p.bound = r.bound
  <2>1. p = [r EXCEPT !.frames = fr, !.tokens = to, !.taken = ta, !.bytes = by]
    OBVIOUS
  <2>. HIDE DEF p
  <2>2. ServQueue(p)
    BY <1>3, <1>4, <1>7, <2>1 DEF ServQueue
  <2>. QED BY <2>1, <2>2 DEF ServQueue
<1>9. p.frames = fr /\ p.tokens = to /\ p.taken = ta /\ p.backlog = r.backlog
  BY DEF ServQueue
<1>. HIDE DEF p
<1>10. r.bound => r.backlog = Len(fr) + 1
  BY <1>3 DEF Backed, ServQueue, fr
<1>11. Backed(p, 1)
  BY <1>5, <1>8, <1>9, <1>10 DEF Backed
<1>. QED BY <1>3, <1>6, <1>8, <1>9, <1>11

LEMMA SentServ ==
    ASSUME NEW r, ServQueue(r), Backed(r, 1)
    PROVE  LET p == Left(r, Live, <<r.taken>>)
           IN  /\ ServQueue(p) /\ Backed(p, 0) /\ p.bound = r.bound /\ p.frames = r.frames
               /\ Sent(r, Live) = p /\ LostTaken(r, Live) = p
<1> DEFINE p == Left(r, Live, <<r.taken>>)
<1>1. <<r.taken>> \in Seq(Int) /\ Len(<<r.taken>>) = 1 /\ <<r.taken>>[1] = r.taken
  BY DEF ServQueue
<1>2. r.bound => \A i \in 1..Len(<<r.taken>>) : <<r.taken>>[i] = 1
  BY <1>1 DEF Backed
<1>3. /\ ServQueue(p)
      /\ p = [r EXCEPT !.backlog = IF r.bound THEN r.backlog - Len(<<r.taken>>) ELSE @]
  BY <1>1, <1>2, LeftServ
<1>4. /\ p.bound = r.bound /\ p.frames = r.frames /\ p.tokens = r.tokens
      /\ p.backlog = IF r.bound THEN r.backlog - 1 ELSE r.backlog
  BY <1>1, <1>3 DEF ServQueue
<1>. HIDE DEF p
<1>5. Len(r.frames) \in Nat
  BY LenProperties DEF ServQueue
<1>6. Backed(p, 0)
  BY <1>4, <1>5 DEF Backed, ServQueue
<1>. QED BY <1>3, <1>4, <1>6 DEF p, Sent, LostTaken

LEMMA BindServ ==
    ASSUME NEW r, ServQueue(r), NEW bound \in BOOLEAN
    PROVE  LET p == Bind(r, Live, bound)
           IN  ServQueue(p) /\ Backed(p, 0) /\ p.bound = bound /\ p.frames = r.frames
<1> DEFINE to == [i \in DOMAIN r.frames |-> IF bound THEN 1 ELSE NoToken]
           ba == IF bound THEN Len(r.frames) ELSE 0
           p == [r EXCEPT !.bound = bound, !.taken = NoToken, !.tokens = to, !.backlog = ba]
<1>1. r.frames \in Seq({Frame}) /\ Len(r.frames) \in Nat /\ DOMAIN r.frames = 1..Len(r.frames)
  BY LenProperties DEF ServQueue
<1>2. to \in [1..Len(r.frames) -> Int]
  BY <1>1 DEF NoToken
<1>3. to \in Seq(Int) /\ Len(to) = Len(r.frames)
  <2>. HIDE DEF to
  <2>1. to \in Seq(Int)
    BY <1>1, <1>2
  <2>2. DOMAIN to = 1..Len(to) /\ Len(to) \in Nat
    BY <2>1, LenProperties
  <2>. QED BY <1>1, <1>2, <2>1, <2>2
<1>4. bound => \A i \in 1..Len(to) : to[i] = 1
  BY <1>1, <1>3
<1>5. Bind(r, Live, bound) = p
  <2> DEFINE b == [r EXCEPT !.bound = bound, !.backlog = 0, !.taken = NoToken]
             t == [b EXCEPT !.tokens = [i \in DOMAIN r.frames |-> EnterToken(b, Live)]]
  <2>1. b.bound = bound /\ t.bound = bound
    BY DEF ServQueue
  <2>2. EnterToken(b, Live) = IF bound THEN 1 ELSE NoToken
    <3>. HIDE DEF b
    <3>. QED BY <2>1, LiveProps
  <2>3. t = [b EXCEPT !.tokens = to]
    BY <2>2
  <2>4. Bind(r, Live, bound) = Entered(t, Live, Len(r.frames))
    BY DEF Bind
  <2>5. Reports(t, Live) <=> bound
    <3>. HIDE DEF t
    <3>. QED BY <2>1, LiveProps
  <2>6. Entered(t, Live, Len(r.frames))
          = IF bound THEN [t EXCEPT !.backlog = t.backlog + Len(r.frames)] ELSE t
    <3>. HIDE DEF t
    <3>. QED BY <2>5 DEF Entered
  <2>. HIDE DEF to
  <2>7. CASE bound
    <3>1. t.backlog = 0
      BY DEF ServQueue
    <3>2. Bind(r, Live, bound) = [t EXCEPT !.backlog = Len(r.frames)]
      <4>. HIDE DEF t
      <4>. QED BY <1>1, <2>4, <2>6, <2>7, <3>1
    <3>. QED BY <2>3, <2>7, <3>2 DEF ServQueue
  <2>8. CASE ~bound
    BY <2>3, <2>4, <2>6, <2>8 DEF ServQueue
  <2>. QED BY <2>7, <2>8
<1>6. ba \in Int
  BY <1>1
<1>. HIDE DEF to
<1>7. ServQueue(p) /\ p.frames = r.frames /\ p.bound = bound
  <2>. HIDE DEF ba
  <2>1. p = [r EXCEPT !.bound = bound, !.taken = NoToken, !.tokens = to, !.backlog = ba]
    OBVIOUS
  <2>. HIDE DEF p
  <2>2. ServQueue(p)
    <3>1. NoToken \in Int
      BY DEF NoToken
    <3>. QED BY <1>3, <1>6, <2>1, <3>1 DEF ServQueue
  <2>. QED BY <2>1, <2>2 DEF ServQueue
<1>8. p.tokens = to /\ p.backlog = ba
  BY DEF ServQueue
<1>. HIDE DEF p
<1>9. Backed(p, 0)
  BY <1>1, <1>4, <1>7, <1>8 DEF Backed
<1>. QED BY <1>5, <1>7, <1>9

LEMMA ResetServ ==
    ASSUME NEW r, ServQueue(r), NEW busy, Backed(r, busy)
    PROVE  LET p == Bind(Reset(r, Live), Live, FALSE)
           IN  ServQueue(p) /\ Backed(p, 0) /\ ~p.bound /\ p.frames = <<>> /\ Len(p.frames) = 0
<1> DEFINE e == Left(r, Live, r.tokens)
           ta == IF r.tokens = <<>> THEN e.taken ELSE r.tokens[Len(r.tokens)]
           p == [e EXCEPT !.frames = <<>>, !.tokens = <<>>, !.bytes = 0,
                          !.overflowed = FALSE, !.taken = ta]
<1>1. r.tokens \in Seq(Int) /\ (r.bound => \A i \in 1..Len(r.tokens) : r.tokens[i] = 1)
  BY DEF ServQueue, Backed
<1>2. ServQueue(e)
  BY <1>1, LeftServ
<1>3. ta \in Int
  <2>1. e.taken \in Int
    <3>. HIDE DEF e
    <3>. QED BY <1>2 DEF ServQueue
  <2>2. ASSUME r.tokens # <<>> PROVE r.tokens[Len(r.tokens)] \in Int
    <3>1. Len(r.tokens) \in 1..Len(r.tokens)
      BY <1>1, <2>2, EmptySeq, LenProperties
    <3>. QED BY <1>1, <3>1, ElementOfSeq
  <2>. QED BY <2>1, <2>2
<1>4. Reset(r, Live) = p
  <2>. HIDE DEF e
  <2>. QED BY <1>2 DEF Reset, ServQueue, e
<1>5. <<>> \in Seq({Frame}) /\ <<>> \in Seq(Int) /\ Len(<<>>) = 0
  BY EmptySeq
<1>6. ServQueue(p) /\ p.frames = <<>>
  <2>. HIDE DEF e, ta
  <2>1. p = [e EXCEPT !.frames = <<>>, !.tokens = <<>>, !.bytes = 0,
                      !.overflowed = FALSE, !.taken = ta]
    OBVIOUS
  <2>. HIDE DEF p
  <2>2. ServQueue(p)
    BY <1>2, <1>3, <1>5, <2>1 DEF ServQueue
  <2>. QED BY <1>2, <2>1, <2>2 DEF ServQueue
<1>. HIDE DEF p
<1>. QED BY <1>4, <1>5, <1>6, BindServ

-----------------------------------------------------------------------------
(* The server: types and queues.                                           *)

Calls == {<<"all", Nobody>>, <<"stop", Nobody>>} \union ({"one", "close"} \X Clients)

Aims == {<<"none", Nobody>>} \union ({"one", "close"} \X Clients)

STypes ==
    /\ loop \in LoopStates /\ closer \in CloserStates
    /\ serve \in {"binding", "up", "closed", "failed"}
    /\ calls \in Seq(Calls) /\ aim \in Aims
    /\ clients \in SUBSET Clients /\ late \in SUBSET Clients
    /\ handler \in [Clients -> HandlerStates]
    /\ sender \in [Clients -> {"none", "get", "wait", "send", "ended"}]
    /\ receiver \in [Clients -> {"none", "recv", "ended"}]
    /\ cancelled \in SUBSET Tasks
    /\ sock \in [Clients -> {"none", "open", "closing", "closed"}]
    /\ event \in [Clients -> {"none", "opened", "closed"}]
    /\ offered \in Nat /\ handed \in Nat /\ acked \in Nat /\ dropped \in Nat

Holds(v) == IF v = "send" THEN 1 ELSE 0

Busy(c) == Holds(sender[c])

(* Queues in order; a client without a handler has no sender.              *)
Queues ==
    /\ q = [c \in Clients |-> q[c]]
    /\ \A c \in Clients : ServQueue(q[c]) /\ Backed(q[c], Busy(c))
    /\ \A c \in Clients : handler[c] = "none" => sender[c] = "none"

SInv == STypes /\ Queues

Lengths(queues) == [c \in Clients |-> Len(queues[c].frames)]

Queued == SumFunctionOnSet(Lengths(q), Clients)

LEMMA CountedIs ==
    FramesCounted <=> handed = acked + dropped + InSend + Queued
BY DEF FramesCounted, Queued, Lengths, SumFunction

LEMMA CountedNext ==
    FramesCounted' <=> handed' = acked' + dropped' + InSend' + Queued'
BY DEF FramesCounted, Queued, Lengths, SumFunction

LEMMA LengthsCounted ==
    ASSUME Queues
    PROVE  Counted(Lengths(q), Clients) /\ Queued \in Nat /\ IsFiniteSet(Clients)
<1>1. \A c \in Clients : Len(q[c].frames) \in Nat
  BY LenProperties DEF Queues, ServQueue
<1>2. Counted(Lengths(q), Clients)
  BY <1>1 DEF Lengths, Counted
<1>3. IsFiniteSet(Clients)
  BY WSServerAssumption
<1>. QED BY <1>2, <1>3, SumProps DEF Queued

LEMMA SumSplit ==
    ASSUME NEW h, NEW S, IsFiniteSet(S), Counted(h, S), NEW T \in SUBSET S
    PROVE  SumFunctionOnSet(h, S) = SumFunctionOnSet(h, T) + SumFunctionOnSet(h, S \ T)
<1>1. /\ IsFiniteSet(T) /\ IsFiniteSet(S \ T) /\ Counted(h, T) /\ Counted(h, S \ T)
      /\ S \ T \in SUBSET S
  BY FS_Subset DEF Counted
<1>2. Cells(h, S) = Cells(h, T) \union Cells(h, S \ T) /\ Cells(h, T) \cap Cells(h, S \ T) = {}
  BY DEF Cells
<1>3. /\ IsFiniteSet(Cells(h, T)) /\ Cardinality(Cells(h, T)) \in Nat
      /\ IsFiniteSet(Cells(h, S \ T)) /\ Cardinality(Cells(h, S \ T)) \in Nat
  BY <1>1, CellsFinite
<1>4. Cardinality(Cells(h, T) \cap Cells(h, S \ T)) = 0
  BY <1>2, FS_EmptySet
<1>5. Cardinality(Cells(h, S)) = Cardinality(Cells(h, T)) + Cardinality(Cells(h, S \ T)) - 0
  <2>. HIDE DEF Cells
  <2>. QED BY <1>2, <1>3, <1>4, FS_Union
<1>. QED BY <1>1, <1>3, <1>5, SumIsCells

(* One queue changes.                                                      *)
LEMMA OneQueue ==
    ASSUME Queues, NEW c \in Clients, NEW r, q' = [q EXCEPT ![c] = r], ServQueue(r)
    PROVE  /\ q' = [d \in Clients |-> q'[d]]
           /\ \A d \in Clients : q'[d] = IF d = c THEN r ELSE q[d]
           /\ Queued' = Queued + Len(r.frames) - Len(q[c].frames)
           /\ Queued' \in Nat
<1>1. /\ q' = [d \in Clients |-> q'[d]]
      /\ \A d \in Clients : q'[d] = IF d = c THEN r ELSE q[d]
  BY DEF Queues
<1>2. Len(r.frames) \in Nat
  BY LenProperties DEF ServQueue
<1>3. /\ Lengths(q')[c] = Len(r.frames) /\ Lengths(q)[c] = Len(q[c].frames)
      /\ \A d \in Clients \ {c} : Lengths(q')[d] = Lengths(q)[d]
  BY <1>1 DEF Lengths
<1>4. SumFunctionOnSet(Lengths(q'), Clients)
        = SumFunctionOnSet(Lengths(q), Clients) + Len(r.frames) - Len(q[c].frames)
  <2> DEFINE h == Lengths(q)
             k == Lengths(q')
  <2>1. /\ IsFiniteSet(Clients) /\ Counted(h, Clients) /\ k[c] \in Nat
        /\ \A d \in Clients \ {c} : k[d] = h[d]
    BY <1>2, <1>3, LengthsCounted
  <2>. HIDE DEF h, k
  <2>2. SumFunctionOnSet(k, Clients) = SumFunctionOnSet(h, Clients) + k[c] - h[c]
    BY <2>1, SumOne
  <2>. QED BY <1>3, <2>2 DEF h, k
<1>5. Counted(Lengths(q'), Clients)
  BY <1>2, <1>3, LengthsCounted DEF Counted
<1>6. SumFunctionOnSet(Lengths(q'), Clients) \in Nat
  BY <1>5, LengthsCounted, SumProps
<1>. QED BY <1>1, <1>4, <1>6 DEF Queued

(* Every client of T is given a frame.                                     *)
LEMMA PutAllProps ==
    ASSUME SInv, NEW T \in SUBSET Clients, PutAll(T)
    PROVE  /\ q' = [c \in Clients |-> q'[c]]
           /\ \A c \in Clients : /\ ServQueue(q'[c]) /\ Backed(q'[c], Busy(c))
                                 /\ q'[c].bound = q[c].bound
                                 /\ c \notin T => q'[c] = q[c]
           /\ handed' \in Nat /\ dropped' \in Nat /\ Queued' \in Nat
           /\ handed' + dropped + Queued = handed + dropped' + Queued'
<1> DEFINE l == [c \in Clients |-> LostBy(q[c])]
           h == Lengths(q)
           k == Lengths(q')
<1>1. /\ q' = [c \in Clients |-> IF c \in T THEN Offered(q[c]) ELSE q[c]]
      /\ handed' = handed + Cardinality(T)
      /\ dropped' = dropped + SumFunctionOnSet(l, T)
  BY DEF PutAll
<1>2. /\ q' = [c \in Clients |-> q'[c]]
      /\ \A c \in Clients : q'[c] = IF c \in T THEN Offered(q[c]) ELSE q[c]
  BY <1>1
<1>3. ASSUME NEW c \in Clients
      PROVE  /\ ServQueue(Offered(q[c])) /\ Backed(Offered(q[c]), Busy(c))
             /\ LostBy(q[c]) \in Nat /\ Len(Offered(q[c]).frames) \in Nat
             /\ Len(Offered(q[c]).frames) + LostBy(q[c]) = Len(q[c].frames) + 1
             /\ Offered(q[c]).bound = q[c].bound /\ Len(q[c].frames) \in Nat
  <2>1. ServQueue(q[c]) /\ Backed(q[c], Busy(c)) /\ Busy(c) \in {0, 1}
    BY DEF SInv, Queues, Busy, Holds
  <2>2. Len(q[c].frames) \in Nat
    BY <2>1, LenProperties DEF ServQueue
  <2>. QED BY <2>1, <2>2, OfferedServ
<1>4. \A c \in Clients : /\ ServQueue(q'[c]) /\ Backed(q'[c], Busy(c))
                         /\ q'[c].bound = q[c].bound
                         /\ c \notin T => q'[c] = q[c]
  BY <1>2, <1>3 DEF SInv, Queues
<1>5. \A c \in Clients :
          /\ h[c] \in Nat /\ k[c] \in Nat /\ l[c] \in Nat
          /\ c \in T => k[c] + l[c] = h[c] + 1
          /\ c \notin T => k[c] = h[c]
  BY <1>2, <1>3 DEF Lengths
<1>. HIDE DEF h, k, l
<1>6. /\ Counted(h, Clients) /\ Counted(k, Clients)
      /\ Counted(h, T) /\ Counted(k, T) /\ Counted(l, T)
      /\ Counted(h, Clients \ T) /\ Counted(k, Clients \ T)
      /\ \A c \in T : k[c] + l[c] = h[c] + 1
      /\ \A c \in Clients \ T : k[c] = h[c]
  BY <1>5 DEF Counted
<1>7. IsFiniteSet(Clients) /\ IsFiniteSet(T) /\ IsFiniteSet(Clients \ T) /\ Cardinality(T) \in Nat
  BY WSServerAssumption, FS_Subset, FS_CardinalityType
<1>8. /\ SumFunctionOnSet(h, Clients) = SumFunctionOnSet(h, T) + SumFunctionOnSet(h, Clients \ T)
      /\ SumFunctionOnSet(k, Clients) = SumFunctionOnSet(k, T) + SumFunctionOnSet(k, Clients \ T)
  BY <1>6, <1>7, SumSplit
<1>9. SumFunctionOnSet(k, Clients \ T) = SumFunctionOnSet(h, Clients \ T)
  BY <1>6, <1>7, SumEqual
<1>10. SumFunctionOnSet(k, T) + SumFunctionOnSet(l, T) = SumFunctionOnSet(h, T) + Cardinality(T)
  BY <1>6, <1>7, SumGiven
<1>11. /\ SumFunctionOnSet(h, T) \in Nat /\ SumFunctionOnSet(k, T) \in Nat
       /\ SumFunctionOnSet(l, T) \in Nat /\ SumFunctionOnSet(h, Clients \ T) \in Nat
  BY <1>6, <1>7, SumProps
<1>12. handed \in Nat /\ dropped \in Nat
  BY DEF SInv, STypes
<1>13. Queued = SumFunctionOnSet(h, Clients) /\ Queued' = SumFunctionOnSet(k, Clients)
  BY DEF Queued, h, k
<1>14. /\ handed' \in Nat /\ dropped' \in Nat /\ Queued' \in Nat
       /\ handed' + dropped + Queued = handed + dropped' + Queued'
  BY <1>1, <1>7, <1>8, <1>9, <1>10, <1>11, <1>12, <1>13
<1>. QED BY <1>2, <1>4, <1>14

(* A sender's state changes.                                               *)
LEMMA OneSender ==
    ASSUME STypes, NEW c \in Clients, NEW v, sender' = [sender EXCEPT ![c] = v]
    PROVE  /\ InSend \in Nat /\ InSend' \in Nat
           /\ InSend' = InSend - Busy(c) + Holds(v)
<1> DEFINE A == {d \in Clients : sender[d] = "send"}
           B == {d \in Clients : sender'[d] = "send"}
<1>1. IsFiniteSet(A) /\ IsFiniteSet(B) /\ IsFiniteSet(A \ {c})
  BY WSServerAssumption, FS_Subset, FS_RemoveElement
<1>2. /\ B = IF v = "send" THEN (A \ {c}) \union {c} ELSE A \ {c}
      /\ sender[c] = "send" <=> c \in A
  BY DEF STypes
<1>. HIDE DEF A, B
<1>3. Cardinality(A \ {c}) = Cardinality(A) - Busy(c)
  BY <1>1, <1>2, FS_RemoveElement, FS_CardinalityType DEF Busy, Holds
<1>4. Cardinality(A) \in Nat /\ Cardinality(B) \in Nat /\ Cardinality(A \ {c}) \in Nat
  BY <1>1, FS_CardinalityType
<1>5. Cardinality((A \ {c}) \union {c}) = Cardinality(A \ {c}) + 1
  <2>1. c \notin A \ {c}
    OBVIOUS
  <2>. QED BY <1>1, <2>1, FS_AddElement
<1>6. InSend = Cardinality(A) /\ InSend' = Cardinality(B)
  BY DEF InSend, A, B
<1>. QED BY <1>2, <1>3, <1>4, <1>5, <1>6 DEF Busy, Holds

(* What GetsFrame makes of the queue r of a sender that holds no frame.    *)
LEMMA GetsProps ==
    ASSUME SInv, NEW c \in Clients, NEW r, ServQueue(r), Backed(r, 0), GetsFrame(c, r)
    PROVE  \E p, v :
               /\ q' = [q EXCEPT ![c] = p] /\ sender' = [sender EXCEPT ![c] = v]
               /\ v \in {"wait", "send", "ended"}
               /\ ServQueue(p) /\ p.bound = r.bound
               /\ Backed(p, Holds(v))
               /\ Len(p.frames) + Holds(v) = Len(r.frames)
<1>0. Len(r.frames) \in Nat
  BY LenProperties DEF ServQueue
<1>1. CASE CanTake(r) /\ q' = [q EXCEPT ![c] = Take(r)] /\ sender' = [sender EXCEPT ![c] = "send"]
  <2>1. /\ ServQueue(Take(r)) /\ Take(r).bound = r.bound /\ Holds("send") = 1
        /\ Backed(Take(r), 1) /\ Len(Take(r).frames) + 1 = Len(r.frames)
    BY <1>1, TakeServ DEF Holds
  <2>2. "send" \in {"wait", "send", "ended"}
    OBVIOUS
  <2>. QED BY <1>1, <2>1, <2>2
<1>2. CASE q' = [q EXCEPT ![c] = Wait(r)] /\ sender' = [sender EXCEPT ![c] = "wait"]
  <2>1. /\ ServQueue(Wait(r)) /\ Wait(r).bound = r.bound /\ Wait(r).frames = r.frames
        /\ Wait(r).tokens = r.tokens /\ Wait(r).backlog = r.backlog
    BY DEF Wait, ServQueue
  <2>2. Backed(Wait(r), 0) /\ Len(Wait(r).frames) + 0 = Len(r.frames) /\ Holds("wait") = 0
    BY <1>0, <2>1 DEF Backed, Holds
  <2>3. "wait" \in {"wait", "send", "ended"}
    OBVIOUS
  <2>. QED BY <1>2, <2>1, <2>2, <2>3
<1>3. CASE q' = [q EXCEPT ![c] = r] /\ sender' = [sender EXCEPT ![c] = "ended"]
  <2>1. Len(r.frames) + 0 = Len(r.frames) /\ Holds("ended") = 0
    BY <1>0 DEF Holds
  <2>2. "ended" \in {"wait", "send", "ended"}
    OBVIOUS
  <2>. QED BY <1>3, <2>1, <2>2
<1>. QED BY <1>1, <1>2, <1>3 DEF GetsFrame

LEMMA HeadCall ==
    ASSUME STypes, calls # <<>>
    PROVE  /\ Head(calls) \in Calls /\ Tail(calls) \in Seq(Calls)
           /\ Head(calls)[1] \in {"one", "close"} => Head(calls)[2] \in Clients
<1>1. Head(calls) \in Calls /\ Tail(calls) \in Seq(Calls)
  BY HeadTailProperties DEF STypes
<1>. QED BY <1>1 DEF Calls

LEMMA AppendCall ==
    ASSUME STypes, NEW x \in Calls
    PROVE  Append(calls, x) \in Seq(Calls)
BY AppendProperties DEF STypes

(* A step that leaves queues, senders and counts alone.                    *)
bookVars == <<q, sender, handed, acked, dropped>>

LEMMA BooksAlone ==
    ASSUME SInv, UNCHANGED bookVars,
           \A d \in Clients : handler'[d] = "none" => handler[d] = "none"
    PROVE  Queues' /\ (FramesCounted => FramesCounted')
<1>1. Queued' = Queued /\ InSend' = InSend
  BY DEF bookVars, Queued, Lengths, InSend
<1>2. \A d \in Clients : Busy(d)' = Busy(d)
  BY DEF bookVars, Busy
<1>3. Queues'
  BY <1>2 DEF bookVars, SInv, Queues
<1>. QED BY <1>1, <1>3, CountedIs, CountedNext DEF bookVars

LEMMA Balance ==
    ASSUME handed \in Nat, acked \in Nat, dropped \in Nat, InSend \in Nat, Queued \in Nat,
           NEW k \in Nat, NEW l \in Nat, NEW b \in Nat, NEW v \in Nat,
           NEW x \in Nat, NEW y \in Nat,
           handed' = handed, acked' = acked + x, dropped' = dropped + y,
           InSend' = InSend - b + v, Queued' = Queued + k - l,
           k + v + x + y = l + b,
           FramesCounted
    PROVE  FramesCounted'
<1>1. handed = acked + dropped + InSend + Queued
  BY CountedIs
<1>2. InSend' \in Int /\ Queued' \in Int /\ acked' \in Int /\ dropped' \in Int
  OBVIOUS
<1>3. PICK h0 \in Int, a0 \in Int, d0 \in Int, i0 \in Int, n0 \in Int :
          h0 = handed /\ a0 = acked /\ d0 = dropped /\ i0 = InSend /\ n0 = Queued
  OBVIOUS
<1>4. PICK h1 \in Int, a1 \in Int, d1 \in Int, i1 \in Int, n1 \in Int :
          h1 = handed' /\ a1 = acked' /\ d1 = dropped' /\ i1 = InSend' /\ n1 = Queued'
  BY <1>2
<1>5. /\ h0 = a0 + d0 + i0 + n0 /\ i1 = i0 - b + v /\ n1 = n0 + k - l
      /\ h1 = h0 /\ a1 = a0 + x /\ d1 = d0 + y
  BY <1>1, <1>3, <1>4
<1>6. h1 = a1 + d1 + i1 + n1
  BY <1>5
<1>7. handed' = acked' + dropped' + InSend' + Queued'
  BY <1>4, <1>6
<1>. QED BY <1>7, CountedNext

(* A step that changes one queue or its sender, and counts what it did.    *)
LEMMA BooksMove ==
    ASSUME SInv, NEW c \in Clients, NEW p, NEW v,
           q' = [q EXCEPT ![c] = p], sender' = [sender EXCEPT ![c] = v],
           ServQueue(p), Backed(p, Holds(v)),
           \A d \in Clients : handler'[d] = "none" => handler[d] = "none" /\ d # c,
           NEW x \in Nat, NEW y \in Nat,
           handed' = handed, acked' = acked + x, dropped' = dropped + y,
           Len(p.frames) + Holds(v) + x + y = Len(q[c].frames) + Busy(c)
    PROVE  Queues' /\ (FramesCounted => FramesCounted')
<1>1. /\ q' = [d \in Clients |-> q'[d]]
      /\ \A d \in Clients : q'[d] = IF d = c THEN p ELSE q[d]
      /\ Queued' = Queued + Len(p.frames) - Len(q[c].frames)
      /\ Queued' \in Nat
  BY OneQueue DEF SInv
<1>2. InSend \in Nat /\ InSend' \in Nat /\ InSend' = InSend - Busy(c) + Holds(v)
  BY OneSender DEF SInv
<1>3. \A d \in Clients : /\ Busy(d)' = IF d = c THEN Holds(v) ELSE Busy(d)
                         /\ d # c => sender'[d] = sender[d]
  BY DEF Busy, SInv, STypes
<1>4. Queues'
  <2>1. \A d \in Clients : ServQueue(q'[d]) /\ Backed(q'[d], Busy(d)')
    BY <1>1, <1>3 DEF SInv, Queues
  <2>2. \A d \in Clients : handler'[d] = "none" => sender'[d] = "none"
    BY <1>3 DEF SInv, Queues
  <2>. QED BY <1>1, <2>1, <2>2 DEF Queues
<1>5. ASSUME FramesCounted PROVE FramesCounted'
  <2>1. /\ handed \in Nat /\ acked \in Nat /\ dropped \in Nat /\ Queued \in Nat
        /\ Len(q[c].frames) \in Nat /\ Len(p.frames) \in Nat
        /\ Busy(c) \in Nat /\ Holds(v) \in Nat
    BY LengthsCounted, LenProperties DEF SInv, STypes, Queues, ServQueue, Busy, Holds
  <2>2. Queued' = Queued + Len(p.frames) - Len(q[c].frames)
    BY <1>1
  <2>. QED BY <1>2, <1>5, <2>1, <2>2, Balance
<1>. QED BY <1>4, <1>5

-----------------------------------------------------------------------------
(* The steps.                                                              *)

(* What the program's threads and the loop do besides running callbacks.   *)
LEMMA ThreadsStep ==
    ASSUME SInv, \/ OnNext \/ LooksUp("one") \/ LooksUp("close") \/ Schedules \/ AsksToClose
                 \/ LoopStarts \/ Binds \/ LoopCloses \/ CloserCancels \/ CloserStops
    PROVE  SInv' /\ (FramesCounted => FramesCounted')
<1>0. STypes
  BY DEF SInv
<1>1. CASE OnNext
  <2>1. Append(calls, <<"all", Nobody>>) \in Seq(Calls)
    BY <1>0, AppendCall DEF Calls
  <2>2. STypes'
    <3>1. calls' \in Seq(Calls)
      BY <1>0, <1>1, <2>1 DEF OnNext, STypes
    <3>2. offered' \in Nat /\ handed' \in Nat /\ dropped' \in Nat
      BY <1>0, <1>1 DEF OnNext, STypes
    <3>. QED BY <1>0, <1>1, <3>1, <3>2 DEF OnNext, STypes, taskVars
  <2>3. Queued' = Queued /\ InSend' = InSend
    BY <1>1 DEF OnNext, taskVars, Queued, Lengths, InSend
  <2>4. Queues'
    BY <1>1 DEF OnNext, taskVars, SInv, Queues, Busy
  <2>5. ASSUME FramesCounted PROVE FramesCounted'
    <3>1. handed = acked + dropped + InSend + Queued
      BY <2>5, CountedIs
    <3>2. \/ handed' = handed + 1 /\ dropped' = dropped + 1
          \/ handed' = handed /\ dropped' = dropped
      BY <1>1 DEF OnNext
    <3>3. acked' = acked
      BY <1>1 DEF OnNext
    <3>4. InSend \in Nat /\ Queued \in Nat
      <4>1. IsFiniteSet({d \in Clients : sender[d] = "send"})
        BY WSServerAssumption, FS_Subset
      <4>. QED BY <4>1, FS_CardinalityType, LengthsCounted DEF SInv, InSend
    <3>5. handed' = acked' + dropped' + InSend' + Queued'
      BY <1>0, <2>3, <3>1, <3>2, <3>3, <3>4 DEF STypes
    <3>. QED BY <3>5, CountedNext
  <2>. QED BY <2>2, <2>4, <2>5 DEF SInv
<1>2. ASSUME UNCHANGED bookVars, UNCHANGED handler, STypes'
      PROVE  SInv' /\ (FramesCounted => FramesCounted')
  BY <1>2, BooksAlone DEF SInv
<1>3. CASE LooksUp("one") \/ LooksUp("close")
  BY <1>0, <1>2, <1>3 DEF LooksUp, STypes, Aims, taskVars, bookVars
<1>4. CASE Schedules
  <2>1. aim \in Calls /\ <<"none", Nobody>> \in Aims
    BY <1>0, <1>4 DEF Schedules, STypes, Aims, Calls
  <2>2. STypes'
    BY <1>0, <1>4, <2>1, AppendCall DEF Schedules, STypes, taskVars, countVars
  <2>. QED BY <1>2, <1>4, <2>2 DEF Schedules, taskVars, countVars, bookVars
<1>5. CASE AsksToClose
  <2>1. <<"stop", Nobody>> \in Calls
    BY DEF Calls
  <2>2. STypes'
    BY <1>0, <1>5, <2>1, AppendCall DEF AsksToClose, STypes, taskVars, countVars
  <2>. QED BY <1>2, <1>5, <2>2 DEF AsksToClose, taskVars, countVars, bookVars
<1>6. CASE LoopStarts \/ Binds \/ LoopCloses
  BY <1>0, <1>2, <1>6
     DEF LoopStarts, Binds, LoopCloses, LoopStates, STypes, taskVars, countVars, bookVars
<1>7. CASE CloserCancels
  <2>1. Unfinished \in SUBSET Tasks
    BY DEF Unfinished
  <2>. QED BY <1>0, <1>2, <1>7, <2>1 DEF CloserCancels, CloserStates, STypes, countVars, bookVars
<1>8. CASE CloserStops
  BY <1>0, <1>2, <1>8
     DEF CloserStops, LoopStates, CloserStates, STypes, taskVars, countVars, bookVars
<1>. QED BY <1>1, <1>3, <1>4, <1>5, <1>6, <1>7, <1>8

LEMMA PutAllCounts ==
    ASSUME SInv, NEW T \in SUBSET Clients, PutAll(T), UNCHANGED <<sender, handler, acked>>
    PROVE  Queues' /\ (FramesCounted => FramesCounted') /\ handed' \in Nat /\ dropped' \in Nat
<1>1. /\ q' = [c \in Clients |-> q'[c]]
      /\ \A c \in Clients : ServQueue(q'[c]) /\ Backed(q'[c], Busy(c))
      /\ handed' \in Nat /\ dropped' \in Nat /\ Queued' \in Nat
      /\ handed' + dropped + Queued = handed + dropped' + Queued'
  BY PutAllProps
<1>2. InSend' = InSend /\ InSend \in Nat
  <2>1. IsFiniteSet({d \in Clients : sender[d] = "send"})
    BY WSServerAssumption, FS_Subset
  <2>. QED BY <2>1, FS_CardinalityType DEF InSend
<1>3. Queues'
  BY <1>1 DEF SInv, Queues, Busy
<1>4. ASSUME FramesCounted PROVE FramesCounted'
  <2>1. handed = acked + dropped + InSend + Queued
    BY <1>4, CountedIs
  <2>2. handed \in Nat /\ acked \in Nat /\ dropped \in Nat /\ Queued \in Nat /\ acked' = acked
    BY LengthsCounted DEF SInv, STypes
  <2>3. handed' = acked' + dropped' + InSend' + Queued'
    BY <1>1, <1>2, <2>1, <2>2
  <2>. QED BY <2>3, CountedNext
<1>. QED BY <1>1, <1>3, <1>4

(* The callbacks.                                                          *)
LEMMA CallsStep ==
    ASSUME SInv, RunsCall
    PROVE  SInv' /\ (FramesCounted => FramesCounted')
<1>0. STypes /\ calls' \in Seq(Calls)
  BY HeadCall DEF SInv, RunsCall
<1>1. UNCHANGED <<loop, aim, clients, handler, sender, receiver, cancelled, event,
                  offered, acked>>
  BY DEF RunsCall
<1>2. CASE RunsAll /\ clients = {}
  <2>1. /\ dropped' = dropped + 1 /\ handed' = handed + 1
        /\ UNCHANGED <<q, closer, serve, sock, late>>
    BY <1>2 DEF RunsAll
  <2>2. STypes'
    BY <1>0, <1>1, <2>1 DEF STypes
  <2>3. Queued' = Queued /\ InSend' = InSend
    BY <1>1, <2>1 DEF Queued, Lengths, InSend
  <2>4. Queues'
    BY <1>1, <2>1 DEF SInv, Queues, Busy
  <2>5. ASSUME FramesCounted PROVE FramesCounted'
    <3>1. handed = acked + dropped + InSend + Queued
      BY <2>5, CountedIs
    <3>2. InSend \in Nat /\ Queued \in Nat
      <4>1. IsFiniteSet({d \in Clients : sender[d] = "send"})
        BY WSServerAssumption, FS_Subset
      <4>. QED BY <4>1, FS_CardinalityType, LengthsCounted DEF SInv, InSend
    <3>3. handed' = acked' + dropped' + InSend' + Queued'
      BY <1>0, <1>1, <2>1, <2>3, <3>1, <3>2 DEF STypes
    <3>. QED BY <3>3, CountedNext
  <2>. QED BY <2>2, <2>4, <2>5 DEF SInv
<1>3. CASE RunsAll /\ PutAll(clients)
  <2>1. clients \in SUBSET Clients /\ UNCHANGED <<closer, serve, sock, late>>
    BY <1>0, <1>3 DEF STypes, RunsAll
  <2>2. Queues' /\ (FramesCounted => FramesCounted') /\ handed' \in Nat /\ dropped' \in Nat
    BY <1>1, <1>3, <2>1, PutAllCounts
  <2>. QED BY <1>0, <1>1, <2>1, <2>2 DEF SInv, STypes
<1>4. CASE RunsOne
  <2>1. Head(calls)[2] \in Clients
    BY <1>0, <1>4, HeadCall DEF RunsOne, RunsCall
  <2>2. PutAll({Head(calls)[2]}) /\ UNCHANGED <<closer, serve, sock>>
    BY <1>4 DEF RunsOne
  <2>3. Queues' /\ (FramesCounted => FramesCounted') /\ handed' \in Nat /\ dropped' \in Nat
    BY <1>1, <2>1, <2>2, PutAllCounts
  <2>4. late' \in SUBSET Clients
    BY <1>0, <1>4, <2>1 DEF RunsOne, STypes
  <2>. QED BY <1>0, <1>1, <2>2, <2>3, <2>4 DEF SInv, STypes
<1>5. CASE RunsClose \/ RunsStop
  <2>1. STypes'
    <3>1. sock' \in [Clients -> {"none", "open", "closing", "closed"}]
      BY <1>0, <1>5 DEF RunsClose, RunsStop, STypes
    <3>. QED BY <1>0, <1>1, <1>5, <3>1 DEF RunsClose, RunsStop, STypes, CloserStates
  <2>. QED BY <1>1, <1>5, <2>1, BooksAlone DEF RunsClose, RunsStop, SInv, bookVars
<1>. QED BY <1>2, <1>3, <1>4, <1>5 DEF RunsCall, RunsAll

(* A handler's steps.                                                      *)
LEMMA HandlerStep ==
    ASSUME SInv, NEW c \in Clients, Accepts(c) \/ Refuses(c) \/ HandlerRuns(c)
    PROVE  SInv' /\ (FramesCounted => FramesCounted')
<1>0. STypes /\ Alive(c) \in SUBSET Tasks /\ ServQueue(q[c]) /\ Backed(q[c], Busy(c))
  BY DEF SInv, Queues, Alive
<1>1. CASE Accepts(c)
  <2> DEFINE p == Bind(q[c], Live, TRUE)
  <2>1. ServQueue(p) /\ Backed(p, 0) /\ p.frames = q[c].frames
    BY <1>0, BindServ
  <2>2. /\ q' = [q EXCEPT ![c] = p] /\ sender' = [sender EXCEPT ![c] = "get"]
        /\ handler' = [handler EXCEPT ![c] = "serving"]
        /\ handed' = handed /\ acked' = acked /\ dropped' = dropped
    BY <1>1 DEF Accepts, countVars, SInv, Queues
  <2>3. Busy(c) = 0 /\ Holds("get") = 0
    BY <1>1 DEF Accepts, SInv, Queues, Busy, Holds
  <2>4. \A d \in Clients : handler'[d] = "none" => handler[d] = "none" /\ d # c
    BY <1>0, <2>2 DEF STypes
  <2>. HIDE DEF p
  <2>5. Len(q[c].frames) \in Nat /\ handed \in Nat /\ acked \in Nat /\ dropped \in Nat
    BY <1>0, LenProperties DEF ServQueue, STypes
  <2>6. Queues' /\ (FramesCounted => FramesCounted')
    <3>1. /\ acked' = acked + 0 /\ dropped' = dropped + 0
          /\ Len(p.frames) + Holds("get") + 0 + 0 = Len(q[c].frames) + Busy(c)
      BY <2>1, <2>2, <2>3, <2>5
    <3>. QED BY <2>1, <2>2, <2>4, <3>1, <2>3, BooksMove
  <2>7. STypes'
    BY <1>0, <1>1, <2>2 DEF Accepts, threadVars, countVars, STypes, HandlerStates
  <2>. QED BY <2>6, <2>7 DEF SInv
<1>2. CASE Refuses(c)
  <2>1. STypes' /\ \A d \in Clients : handler'[d] = "none" => handler[d] = "none"
    BY <1>0, <1>2 DEF Refuses, threadVars, countVars, STypes, HandlerStates
  <2>. QED BY <1>2, <2>1, BooksAlone DEF Refuses, SInv, bookVars, countVars
<1>3. CASE HandlerRuns(c) /\ (Joins(c) \/ Unwinds(c) \/ Finishes(c) \/ Breaks(c))
  <2>1. STypes' /\ \A d \in Clients : handler'[d] = "none" => handler[d] = "none"
    BY <1>0, <1>3
       DEF HandlerRuns, Joins, Unwinds, Finishes, Breaks, threadVars, STypes, HandlerStates
  <2>2. UNCHANGED bookVars
    BY <1>3 DEF HandlerRuns, Joins, Unwinds, Finishes, Breaks, bookVars
  <2>. QED BY <2>1, <2>2, BooksAlone DEF SInv
<1>4. CASE HandlerRuns(c) /\ Discards(c)
  <2> DEFINE p == Bind(Reset(q[c], Live), Live, FALSE)
             n == Len(q[c].frames)
  <2>1. ServQueue(p) /\ Backed(p, 0) /\ Len(p.frames) = 0
    BY <1>0, ResetServ
  <2>2. /\ q' = [q EXCEPT ![c] = p] /\ sender' = sender
        /\ handler' = [handler EXCEPT ![c] = "closing"]
        /\ handed' = handed /\ acked' = acked /\ dropped' = dropped + n
    BY <1>4 DEF HandlerRuns, Discards, SInv, Queues
  <2>3. sender[c] = "ended" /\ sender' = [sender EXCEPT ![c] = "ended"]
    BY <1>0, <1>4, <2>2 DEF Discards, TasksEnded, STypes
  <2>4. Busy(c) = 0 /\ Holds("ended") = 0
    BY <2>3 DEF Busy, Holds
  <2>5. \A d \in Clients : handler'[d] = "none" => handler[d] = "none" /\ d # c
    BY <1>0, <2>2 DEF STypes
  <2>6. n \in Nat /\ handed \in Nat /\ acked \in Nat /\ dropped \in Nat /\ dropped' \in Nat
    <3>1. n \in Nat /\ handed \in Nat /\ acked \in Nat /\ dropped \in Nat
      BY <1>0, LenProperties DEF ServQueue, STypes
    <3>. QED BY <2>2, <3>1
  <2>. HIDE DEF p, n
  <2>7. acked' = acked + 0 /\ Len(p.frames) + Holds("ended") + 0 + n = n + Busy(c)
    BY <2>1, <2>2, <2>4, <2>6
  <2>8. Queues' /\ (FramesCounted => FramesCounted')
    <3>1. Backed(p, Holds("ended")) /\ 0 \in Nat
      BY <2>1, <2>4
    <3>2. Len(p.frames) + Holds("ended") + 0 + n = Len(q[c].frames) + Busy(c)
      BY <2>7 DEF n
    <3>3. /\ q' = [q EXCEPT ![c] = p] /\ sender' = [sender EXCEPT ![c] = "ended"]
          /\ handed' = handed /\ acked' = acked + 0 /\ dropped' = dropped + n
      BY <2>2, <2>3, <2>7
    <3>. QED BY <2>1, <2>5, <2>6, <3>1, <3>2, <3>3, BooksMove
  <2>9. STypes'
    BY <1>0, <1>4, <2>2, <2>6 DEF HandlerRuns, Discards, threadVars, STypes, HandlerStates
  <2>. QED BY <2>8, <2>9 DEF SInv
<1>. QED BY <1>1, <1>2, <1>3, <1>4 DEF HandlerRuns

(* A sender's steps.                                                       *)
LEMMA SenderStep ==
    ASSUME SInv, NEW c \in Clients, SenderRuns(c)
    PROVE  SInv' /\ (FramesCounted => FramesCounted')
<1>0. /\ STypes /\ ServQueue(q[c]) /\ Backed(q[c], Busy(c)) /\ Len(q[c].frames) \in Nat
      /\ handed \in Nat /\ acked \in Nat /\ dropped \in Nat
  BY LenProperties DEF SInv, Queues, ServQueue, STypes
<1>1. /\ UNCHANGED <<loop, serve, closer, calls, aim, clients, handler, receiver, sock, event,
                     offered, handed, late>>
  BY DEF SenderRuns, threadVars
<1>2. sender[c] \in {"get", "wait", "send"} => \A d \in Clients : handler'[d] = "none" =>
                                                 handler[d] = "none" /\ d # c
  BY <1>1 DEF SInv, Queues
<1>3. ASSUME NEW v \in {"wait", "send", "ended"}, sender' = [sender EXCEPT ![c] = v],
             acked' \in Nat, dropped' \in Nat, cancelled' \in SUBSET Tasks
      PROVE  STypes'
  BY <1>0, <1>1, <1>3 DEF STypes
<1>4. CASE Gets(c)
  <2>1. sender[c] \in {"get", "wait"} /\ GetsFrame(c, q[c]) /\ UNCHANGED <<cancelled, acked, dropped>>
    BY <1>4 DEF Gets
  <2>2. Busy(c) = 0
    BY <2>1 DEF Busy, Holds
  <2>3. PICK p, v :
            /\ q' = [q EXCEPT ![c] = p] /\ sender' = [sender EXCEPT ![c] = v]
            /\ v \in {"wait", "send", "ended"}
            /\ ServQueue(p) /\ Backed(p, Holds(v))
            /\ Len(p.frames) + Holds(v) = Len(q[c].frames)
    BY <1>0, <2>1, <2>2, GetsProps
  <2>4. Len(p.frames) \in Nat /\ Holds(v) \in Nat
    BY <2>3, LenProperties DEF ServQueue, Holds
  <2>5. /\ acked' = acked + 0 /\ dropped' = dropped + 0
        /\ Len(p.frames) + Holds(v) + 0 + 0 = Len(q[c].frames) + Busy(c)
    BY <1>0, <2>1, <2>2, <2>3, <2>4
  <2>6. Queues' /\ (FramesCounted => FramesCounted')
    BY <1>0, <1>1, <1>2, <2>1, <2>3, <2>5, BooksMove
  <2>7. STypes'
    BY <1>0, <1>3, <2>1, <2>3 DEF STypes
  <2>. QED BY <2>6, <2>7 DEF SInv
<1>5. CASE FrameSent(c)
  <2> DEFINE r == Sent(q[c], Live)
  <2>1. /\ sender[c] = "send" /\ acked' = acked + 1 /\ GetsFrame(c, r)
        /\ UNCHANGED <<cancelled, dropped>>
    BY <1>5 DEF FrameSent
  <2>2. Busy(c) = 1
    BY <2>1 DEF Busy, Holds
  <2>3. ServQueue(r) /\ Backed(r, 0) /\ r.frames = q[c].frames
    BY <1>0, <2>2, SentServ
  <2>. HIDE DEF r
  <2>4. PICK p, v :
            /\ q' = [q EXCEPT ![c] = p] /\ sender' = [sender EXCEPT ![c] = v]
            /\ v \in {"wait", "send", "ended"}
            /\ ServQueue(p) /\ Backed(p, Holds(v))
            /\ Len(p.frames) + Holds(v) = Len(q[c].frames)
    BY <2>1, <2>3, GetsProps
  <2>5. Len(p.frames) \in Nat /\ Holds(v) \in Nat /\ acked' \in Nat
    <3>1. Len(p.frames) \in Nat
      BY <2>4, LenProperties DEF ServQueue
    <3>2. Holds(v) \in Nat
      BY DEF Holds
    <3>. QED BY <1>0, <2>1, <3>1, <3>2
  <2>6. /\ dropped' = dropped + 0
        /\ Len(p.frames) + Holds(v) + 1 + 0 = Len(q[c].frames) + Busy(c)
    BY <1>0, <2>1, <2>2, <2>4, <2>5
  <2>7. Queues' /\ (FramesCounted => FramesCounted')
    BY <1>0, <1>1, <1>2, <2>1, <2>4, <2>5, <2>6, BooksMove
  <2>8. STypes'
    BY <1>0, <1>3, <2>1, <2>4, <2>5 DEF STypes
  <2>. QED BY <2>7, <2>8 DEF SInv
<1>6. CASE FrameLost(c)
  <2> DEFINE p == LostTaken(q[c], Live)
  <2>1. /\ sender[c] = "send" /\ dropped' = dropped + 1 /\ acked' = acked
        /\ q' = [q EXCEPT ![c] = p] /\ sender' = [sender EXCEPT ![c] = "ended"]
        /\ cancelled' \in SUBSET Tasks
    BY <1>0, <1>6 DEF FrameLost, STypes, SInv, Queues
  <2>2. Busy(c) = 1 /\ Holds("ended") = 0
    BY <2>1 DEF Busy, Holds
  <2>3. ServQueue(p) /\ Backed(p, 0) /\ p.frames = q[c].frames
    BY <1>0, <2>2, SentServ
  <2>. HIDE DEF p
  <2>4. dropped' \in Nat
    BY <1>0, <2>1
  <2>5. /\ acked' = acked + 0
        /\ Len(p.frames) + Holds("ended") + 0 + 1 = Len(q[c].frames) + Busy(c)
    BY <1>0, <2>1, <2>2, <2>3
  <2>6. Queues' /\ (FramesCounted => FramesCounted')
    <3>1. Backed(p, Holds("ended")) /\ 0 \in Nat /\ 1 \in Nat
      BY <2>2, <2>3
    <3>. QED BY <1>0, <1>1, <1>2, <2>1, <2>3, <2>5, <3>1, BooksMove
  <2>7. STypes'
    BY <1>0, <1>3, <2>1, <2>4
  <2>. QED BY <2>6, <2>7 DEF SInv
<1>7. CASE SenderStops(c)
  <2>1. /\ sender[c] \in {"get", "wait"} /\ UNCHANGED <<q, acked, dropped>>
        /\ sender' = [sender EXCEPT ![c] = "ended"] /\ cancelled' \in SUBSET Tasks
    BY <1>0, <1>7 DEF SenderStops, STypes
  <2>2. Busy(c) = 0 /\ Holds("ended") = 0
    BY <2>1 DEF Busy, Holds
  <2>3. q' = [q EXCEPT ![c] = q[c]]
    BY <2>1 DEF SInv, Queues
  <2>4. /\ acked' = acked + 0 /\ dropped' = dropped + 0
        /\ Len(q[c].frames) + Holds("ended") + 0 + 0 = Len(q[c].frames) + Busy(c)
    BY <1>0, <2>1, <2>2
  <2>5. Queues' /\ (FramesCounted => FramesCounted')
    <3>1. Backed(q[c], Holds("ended")) /\ 0 \in Nat
      BY <1>0, <2>2
    <3>2. /\ sender' = [sender EXCEPT ![c] = "ended"] /\ handed' = handed
          /\ \A d \in Clients : handler'[d] = "none" => handler[d] = "none" /\ d # c
      BY <1>1, <1>2, <2>1
    <3>. QED BY <1>0, <2>3, <2>4, <3>1, <3>2, BooksMove
  <2>6. STypes'
    BY <1>0, <1>3, <2>1
  <2>. QED BY <2>5, <2>6 DEF SInv
<1>. QED BY <1>4, <1>5, <1>6, <1>7 DEF SenderRuns

(* The receiver, the network and the peers.                                *)
LEMMA PeersStep ==
    ASSUME SInv, NEW c \in Clients,
           Receives(c) \/ ReceiverEnds(c) \/ SockCloses(c) \/ PeerDrops(c)
    PROVE  SInv' /\ (FramesCounted => FramesCounted')
<1>0. STypes
  BY DEF SInv
<1>1. CASE Receives(c)
  <2>1. PICK n \in 1..2 : handed' = handed + n /\ dropped' = dropped + n
    BY <1>1 DEF Receives
  <2>2. /\ handed \in Nat /\ acked \in Nat /\ dropped \in Nat /\ n \in Nat
        /\ handed' \in Nat /\ dropped' \in Nat /\ acked' = acked
    BY <1>0, <1>1, <2>1 DEF Receives, STypes
  <2>3. STypes'
    BY <1>0, <1>1, <2>2 DEF Receives, threadVars, taskVars, STypes
  <2>4. Queued' = Queued /\ InSend' = InSend /\ Queues'
    BY <1>1 DEF Receives, taskVars, Queued, Lengths, InSend, SInv, Queues, Busy
  <2>5. InSend \in Nat /\ Queued \in Nat
    <3>1. IsFiniteSet({d \in Clients : sender[d] = "send"})
      BY WSServerAssumption, FS_Subset
    <3>. QED BY <3>1, FS_CardinalityType, LengthsCounted DEF SInv, InSend
  <2>6. ASSUME FramesCounted PROVE FramesCounted'
    <3>1. handed = acked + dropped + InSend + Queued
      BY <2>6, CountedIs
    <3>2. handed' = acked' + dropped' + InSend' + Queued'
      BY <2>1, <2>2, <2>4, <2>5, <3>1
    <3>. QED BY <3>2, CountedNext
  <2>. QED BY <2>3, <2>4, <2>6 DEF SInv
<1>2. CASE ReceiverEnds(c) \/ SockCloses(c) \/ PeerDrops(c)
  <2>1. STypes'
    BY <1>0, <1>2 DEF ReceiverEnds, SockCloses, PeerDrops, threadVars, countVars, STypes
  <2>2. UNCHANGED bookVars /\ UNCHANGED handler
    BY <1>2 DEF ReceiverEnds, SockCloses, PeerDrops, countVars, bookVars
  <2>. QED BY <2>1, <2>2, BooksAlone DEF SInv
<1>. QED BY <1>1, <1>2

LEMMA ServerStep ==
    ASSUME SInv, [Next]_vars
    PROVE  SInv' /\ (FramesCounted => FramesCounted')
<1>1. CASE UNCHANGED vars
  <2>1. STypes'
    BY <1>1 DEF vars, threadVars, taskVars, countVars, SInv, STypes
  <2>. QED BY <1>1, <2>1, BooksAlone DEF vars, taskVars, countVars, SInv, bookVars
<1>. QED BY <1>1, ThreadsStep, CallsStep, HandlerStep, SenderStep, PeersStep
     DEF Next, LoopThread

LEMMA ServerInit == Init => SInv /\ FramesCounted
<1> SUFFICES ASSUME Init PROVE SInv /\ FramesCounted
  OBVIOUS
<1>1. PICK o \in Policies : q = [c \in Clients |-> EmptyQueue(o)]
  BY WSServerAssumption DEF Init
<1>2. STypes
  BY EmptySeq DEF Init, STypes, LoopStates, CloserStates, HandlerStates, Aims
<1>3. Queues
  <2>1. \A c \in Clients : Busy(c) = 0
    BY DEF Init, Busy, Holds
  <2>. QED BY <1>1, <2>1, EmptyServQueue DEF Init, Queues
<1>4. InSend = 0
  <2>1. {c \in Clients : sender[c] = "send"} = {}
    BY DEF Init
  <2>. QED BY <2>1, FS_EmptySet DEF InSend
<1>5. Queued = 0
  <2>1. \A c \in Clients : Lengths(q)[c] = 0
    BY <1>1, EmptyServQueue, EmptySeq DEF Lengths
  <2>2. Counted(Lengths(q), Clients) /\ Cells(Lengths(q), Clients) = {}
    BY <2>1 DEF Counted, Cells
  <2>. QED BY <2>2, SumIsCells, FS_EmptySet, WSServerAssumption DEF Queued
<1>. QED BY <1>2, <1>3, <1>4, <1>5, CountedIs DEF SInv, Init

(* Every variable keeps its type, and a link's backlog is never negative:  *)
(* it is the number of frames queued or in send().                         *)
THEOREM ServerTypes == Spec => []ServerTypeOK
<1>1. SInv => ServerTypeOK
  <2> SUFFICES ASSUME SInv PROVE ServerTypeOK
    OBVIOUS
  <2>1. \A c \in Clients : q[c].backlog \in Nat
    <3>1. ASSUME NEW c \in Clients PROVE q[c].backlog \in Nat
      <4>1. ServQueue(q[c]) /\ Backed(q[c], Busy(c)) /\ Busy(c) \in Nat
        BY DEF SInv, Queues, Busy, Holds
      <4>2. Len(q[c].frames) \in Nat /\ q[c].bound \in BOOLEAN
        BY <4>1, LenProperties DEF ServQueue
      <4>. QED BY <4>1, <4>2 DEF Backed
    <3>. QED BY <3>1
  <2>2. \A i \in DOMAIN calls :
            calls[i] \in {"all", "one", "close", "stop"} \X (Clients \union {Nobody})
    <3>1. \A i \in DOMAIN calls : calls[i] \in Calls
      BY ElementOfSeq, LenProperties DEF SInv, STypes
    <3>. QED BY <3>1 DEF Calls
  <2>3. aim \in {"none", "one", "close"} \X (Clients \union {Nobody})
    BY DEF SInv, STypes, Aims
  <2>. QED BY <2>1, <2>2, <2>3 DEF SInv, STypes, ServerTypeOK
<1>2. Init => SInv
  BY ServerInit
<1>3. SInv /\ [Next]_vars => SInv'
  BY ServerStep
<1>. QED BY <1>1, <1>2, <1>3, PTL DEF Spec

(* Every frame handed to a client is sent, queued, in flight or counted as *)
(* dropped, exactly once, for any number of clients and whatever is        *)
(* cancelled.                                                              *)
THEOREM EveryFrameCounted == Spec => []FramesCounted
<1>1. Init => SInv /\ FramesCounted
  BY ServerInit
<1>2. SInv /\ FramesCounted /\ [Next]_vars => SInv' /\ FramesCounted'
  BY ServerStep
<1>. QED BY <1>1, <1>2, PTL DEF Spec

-----------------------------------------------------------------------------
(* Closed connections.                                                     *)

(* From the moment a handler discards its queue nothing but a late send_to *)
(* reaches it, and "closed" is the last thing it does.                     *)
Ending(c) ==
    /\ handler[c] \in {"closing", "done"} =>
          TasksEnded(c) /\ ~q[c].bound /\ (c \notin late => q[c].frames = <<>>)
    /\ handler[c] \in {"unwinding", "closing", "done", "broken"} => c \notin clients
    /\ event[c] = "closed" => handler[c] = "done" /\ sock[c] = "closed"

Endings == \A c \in Clients : Ending(c)

(* What Ending is about, but for the socket, which may close meanwhile.    *)
endVars == <<clients, handler, sender, receiver, q, event, late>>

LEMMA EndingAlone ==
    ASSUME Endings, UNCHANGED endVars,
           \A d \in Clients : sock[d] = "closed" => sock'[d] = "closed"
    PROVE  Endings'
BY DEF Endings, Ending, TasksEnded, endVars

(* A step of one client's tasks leaves the others' ends alone.             *)
LEMMA EndingOne ==
    ASSUME SInv, Endings, NEW c \in Clients, Ending(c)', late' = late,
           \A d \in Clients \ {c} :
               /\ handler'[d] = handler[d] /\ sender'[d] = sender[d]
               /\ receiver'[d] = receiver[d] /\ q'[d] = q[d] /\ event'[d] = event[d]
               /\ sock'[d] = sock[d] /\ (d \in clients' => d \in clients)
    PROVE  Endings'
BY DEF Endings, Ending, TasksEnded

LEMMA CallsEnd ==
    ASSUME SInv, Endings, RunsCall
    PROVE  Endings'
<1>0. /\ STypes
      /\ UNCHANGED <<clients, handler, sender, receiver, event>>
  BY DEF SInv, RunsCall
<1>1. CASE RunsAll
  <2>1. UNCHANGED <<sock, late>>
    BY <1>1 DEF RunsAll
  <2>2. \A c \in Clients : q'[c].bound = q[c].bound /\ (c \notin clients => q'[c] = q[c])
    <3>1. CASE PutAll(clients)
      BY <1>0, <3>1, PutAllProps DEF STypes
    <3>2. CASE q' = q
      BY <3>2
    <3>. QED BY <1>1, <3>1, <3>2 DEF RunsAll
  <2>. QED BY <1>0, <2>1, <2>2 DEF Endings, Ending, TasksEnded
<1>2. CASE RunsOne
  <2> DEFINE c == Head(calls)[2]
  <2>1. c \in Clients
    BY <1>0, <1>2, HeadCall DEF RunsOne, RunsCall
  <2>2. /\ PutAll({c}) /\ sock' = sock
        /\ late' = IF Discarded(c) THEN late \union {c} ELSE late
    BY <1>2 DEF RunsOne
  <2>. HIDE DEF c
  <2>3. \A d \in Clients : q'[d].bound = q[d].bound /\ (d # c => q'[d] = q[d])
    BY <2>1, <2>2, PutAllProps
  <2>. QED BY <1>0, <2>1, <2>2, <2>3 DEF Endings, Ending, TasksEnded, Discarded
<1>3. CASE RunsClose \/ RunsStop
  <2>1. UNCHANGED endVars
    BY <1>0, <1>3 DEF RunsClose, RunsStop, endVars
  <2>2. \A d \in Clients : sock[d] = "closed" => sock'[d] = "closed"
    BY <1>0, <1>3 DEF RunsClose, RunsStop, STypes
  <2>. QED BY <2>1, <2>2, EndingAlone
<1>. QED BY <1>1, <1>2, <1>3 DEF RunsCall

LEMMA HandlerEnds ==
    ASSUME SInv, Endings, NEW c \in Clients, Accepts(c) \/ Refuses(c) \/ HandlerRuns(c)
    PROVE  Endings'
<1>0. STypes /\ q = [d \in Clients |-> q[d]] /\ Ending(c) /\ ServQueue(q[c])
      /\ Backed(q[c], Busy(c))
  BY DEF SInv, Queues, Endings
<1>1. CASE Accepts(c)
  <2>1. /\ handler'[c] = "serving" /\ event'[c] = "opened" /\ late' = late
        /\ clients' = clients \union {c}
    BY <1>0, <1>1 DEF Accepts, STypes
  <2>2. Ending(c)'
    BY <2>1 DEF Ending
  <2>. QED BY <1>0, <1>1, <2>1, <2>2, EndingOne DEF Accepts, STypes
<1>2. CASE Refuses(c)
  <2>1. handler'[c] = "refused" /\ handler[c] = "none"
        /\ UNCHANGED <<clients, sender, receiver, sock, q, event, late>>
    BY <1>0, <1>2 DEF Refuses, STypes
  <2>2. Ending(c)'
    BY <1>0, <2>1 DEF Ending
  <2>. QED BY <1>0, <1>2, <2>1, <2>2, EndingOne DEF Refuses, STypes
<1>3. CASE HandlerRuns(c) /\ (Joins(c) \/ Unwinds(c) \/ Breaks(c))
  <2>1. UNCHANGED <<sender, receiver, sock, q, event, late>>
    BY <1>3 DEF HandlerRuns, Joins, Unwinds, Breaks
  <2>2. /\ \A d \in Clients \ {c} : handler'[d] = handler[d]
        /\ clients' \subseteq clients
    BY <1>0, <1>3 DEF Joins, Unwinds, Breaks, STypes
  <2>3. Ending(c)'
    BY <1>0, <1>3, <2>1 DEF Joins, Unwinds, Breaks, Ending, STypes
  <2>. QED BY <2>1, <2>2, <2>3, EndingOne
<1>4. CASE HandlerRuns(c) /\ Discards(c)
  <2> DEFINE p == Bind(Reset(q[c], Live), Live, FALSE)
  <2>1. ~p.bound /\ p.frames = <<>>
    BY <1>0, ResetServ
  <2>2. /\ q' = [q EXCEPT ![c] = p] /\ handler[c] = "unwinding" /\ TasksEnded(c)
        /\ handler' = [handler EXCEPT ![c] = "closing"]
        /\ sock' = [sock EXCEPT ![c] = IF @ = "open" THEN "closing" ELSE @]
        /\ UNCHANGED <<sender, receiver, clients, event, late>>
    BY <1>4 DEF HandlerRuns, Discards
  <2>. HIDE DEF p
  <2>3. q'[c] = p /\ handler'[c] = "closing" /\ \A d \in Clients \ {c} :
            q'[d] = q[d] /\ handler'[d] = handler[d] /\ sock'[d] = sock[d]
    BY <1>0, <2>2 DEF STypes
  <2>4. Ending(c)'
    BY <1>0, <2>1, <2>2, <2>3 DEF Ending, TasksEnded
  <2>. QED BY <2>2, <2>3, <2>4, EndingOne
<1>5. CASE HandlerRuns(c) /\ Finishes(c)
  <2>1. /\ handler[c] = "closing" /\ UNCHANGED <<sender, receiver, clients, q, late>>
        /\ sock' = [sock EXCEPT ![c] = "closed"] /\ handler' = [handler EXCEPT ![c] = "done"]
        /\ event' = [event EXCEPT ![c] = "closed"]
    BY <1>5 DEF HandlerRuns, Finishes
  <2>2. /\ handler'[c] = "done" /\ sock'[c] = "closed"
        /\ \A d \in Clients \ {c} :
              sock'[d] = sock[d] /\ handler'[d] = handler[d] /\ event'[d] = event[d]
    BY <1>0, <2>1 DEF STypes
  <2>3. Ending(c)'
    BY <1>0, <2>1, <2>2 DEF Ending, TasksEnded
  <2>. QED BY <2>1, <2>2, <2>3, EndingOne
<1>. QED BY <1>1, <1>2, <1>3, <1>4, <1>5 DEF HandlerRuns

LEMMA TasksEnd ==
    ASSUME SInv, Endings, NEW c \in Clients,
           \/ SenderRuns(c) \/ Receives(c) \/ ReceiverEnds(c) \/ SockCloses(c) \/ PeerDrops(c)
    PROVE  Endings'
<1>0. STypes /\ q = [d \in Clients |-> q[d]] /\ Ending(c)
  BY DEF SInv, Queues, Endings
<1>1. CASE SenderRuns(c)
  <2>1. /\ sender[c] \in {"get", "wait", "send"}
        /\ UNCHANGED <<clients, handler, receiver, sock, event, late>>
    BY <1>1 DEF SenderRuns, Gets, FrameSent, FrameLost, SenderStops
  <2>2. \A d \in Clients \ {c} : sender'[d] = sender[d] /\ q'[d] = q[d]
    BY <1>0, <1>1 DEF SenderRuns, Gets, FrameSent, FrameLost, SenderStops, GetsFrame, STypes
  <2>3. handler[c] \notin {"closing", "done"}
    BY <1>0, <2>1 DEF Ending, TasksEnded
  <2>4. Ending(c)'
    BY <1>0, <2>1, <2>3 DEF Ending
  <2>. QED BY <2>1, <2>2, <2>4, EndingOne
<1>2. CASE Receives(c)
  BY <1>2, EndingAlone DEF Receives, taskVars, endVars
<1>3. CASE ReceiverEnds(c)
  <2>1. /\ receiver[c] = "recv" /\ receiver' = [receiver EXCEPT ![c] = "ended"]
        /\ UNCHANGED <<clients, handler, sender, sock, q, event, late>>
    BY <1>3 DEF ReceiverEnds
  <2>2. \A d \in Clients \ {c} : receiver'[d] = receiver[d]
    BY <1>0, <2>1 DEF STypes
  <2>3. Ending(c)'
    BY <1>0, <2>1 DEF Ending, TasksEnded
  <2>. QED BY <2>1, <2>2, <2>3, EndingOne
<1>4. CASE SockCloses(c) \/ PeerDrops(c)
  <2>1. \A d \in Clients : sock[d] = "closed" => sock'[d] = "closed"
    BY <1>0, <1>4 DEF SockCloses, PeerDrops, STypes
  <2>. QED BY <1>4, <2>1, EndingAlone DEF SockCloses, PeerDrops, endVars
<1>. QED BY <1>1, <1>2, <1>3, <1>4

LEMMA EndingStep ==
    ASSUME SInv, Endings, [Next]_vars
    PROVE  Endings'
<1>1. CASE CloserCancels
  <2>1. \A d \in Clients : sock[d] = "closed" => sock'[d] = "closed"
    BY <1>1 DEF CloserCancels
  <2>. QED BY <1>1, <2>1, EndingAlone DEF CloserCancels, endVars
<1>2. CASE \/ OnNext \/ LooksUp("one") \/ LooksUp("close") \/ Schedules \/ AsksToClose
           \/ LoopStarts \/ Binds \/ LoopCloses \/ CloserStops \/ UNCHANGED vars
  <2>1. UNCHANGED endVars /\ sock' = sock
    BY <1>2 DEF OnNext, LooksUp, Schedules, AsksToClose, LoopStarts, Binds, LoopCloses,
                CloserStops, vars, taskVars, endVars
  <2>. QED BY <2>1, EndingAlone
<1>. QED BY <1>1, <1>2, CallsEnd, HandlerEnds, TasksEnd DEF Next, LoopThread

(* A connection announced as closed stays closed: its tasks have ended, no *)
(* path reaches it, its socket is closed and its link is let go of.        *)
THEOREM ClosedStaysClosed == Spec => []ClosedIsFinal
<1>1. Endings => ClosedIsFinal
  BY DEF Endings, Ending, ClosedIsFinal
<1>2. Init => SInv /\ Endings
  BY ServerInit DEF Init, Endings, Ending
<1>3. SInv /\ Endings /\ [Next]_vars => SInv' /\ Endings'
  BY ServerStep, EndingStep
<1>. QED BY <1>1, <1>2, <1>3, PTL DEF Spec
-----------------------------------------------------------------------------
(* Nobody waits for ever.                                                  *)

(* A client without a handler has nothing else either; one that is being   *)
(* taken down has a cancellation on its way to each task it waits for; a   *)
(* sender asleep has nothing to send; only the closing task breaks a       *)
(* handler off.                                                            *)
Unserved(c) == handler[c] \in {"none", "refused"}

Attended(c) ==
    /\ Unserved(c) => /\ c \notin clients
                      /\ sock[c] = "none" /\ sender[c] = "none" /\ receiver[c] = "none"
    /\ ~Unserved(c) => sender[c] # "none" /\ receiver[c] # "none"
    /\ handler[c] \in {"joining", "unwinding"} =>
          /\ sender[c] = "ended" \/ Cancelled("sender", c)
          /\ receiver[c] = "ended" \/ Cancelled("receiver", c)
    /\ handler[c] = "broken" \/ Cancelled("handler", c) => closer # "none"
    /\ handler[c] = "done" => event[c] = "closed"
    /\ sender[c] = "wait" => q[c].ready \/ MustWait(q[c])

Attendance ==
    /\ \A c \in Clients : Attended(c)
    /\ closer = "done" => loop \in {"stopping", "closed"}

(* A frame offered to a queue wakes its sender, or leaves it as it was.    *)
LEMMA OfferedWakes ==
    ASSUME NEW r, ServQueue(r), NEW busy \in {0, 1}, Backed(r, busy), r.ready \/ MustWait(r)
    PROVE  Offered(r).ready \/ MustWait(Offered(r))
<1> DEFINE full == Full(r, SizeOf(Frame))
<1>1. ASSUME NEW x, ServQueue(x) PROVE Pushed(x, Live, Frame).ready = TRUE
  BY <1>1 DEF Pushed, Entered, ServQueue
<1>2. CASE r.overflowed
  BY <1>2 DEF Offered
<1>3. CASE ~r.overflowed /\ ~full
  <2>1. Offered(r) = Pushed(r, Live, Frame)
    BY <1>3 DEF Offered, Put
  <2>. QED BY <1>1, <2>1
<1>4. CASE ~r.overflowed /\ full /\ r.overflow = "drop_new"
  <2>1. Offered(r) = [r EXCEPT !.dropped = @ + 1]
    BY <1>4 DEF Offered, Put
  <2>2. /\ Offered(r).ready = r.ready /\ Offered(r).overflowed = r.overflowed
        /\ Offered(r).frames = r.frames
    BY <2>1 DEF ServQueue
  <2>. QED BY <2>2 DEF MustWait
<1>5. CASE ~r.overflowed /\ full /\ r.overflow = "disconnect"
  <2>1. Offered(r) = [r EXCEPT !.overflowed = TRUE, !.ready = TRUE]
    BY <1>5 DEF Offered, Put
  <2>. QED BY <2>1 DEF ServQueue
<1>6. CASE ~r.overflowed /\ full /\ r.overflow = "drop_old"
  <2> DEFINE n == Rounds(r, Live, SizeOf(Frame))
             e == Evict(r, Live, n)
  <2>1. Offered(r) = Pushed(e, Live, Frame)
    BY <1>6 DEF Offered, Put
  <2>2. n \in 0..Len(r.frames)
    BY RoundsServ
  <2>. HIDE DEF n
  <2>3. ServQueue(e)
    BY <2>2, EvictServ
  <2>. HIDE DEF e
  <2>. QED BY <1>1, <2>1, <2>3
<1>. QED BY <1>2, <1>3, <1>4, <1>5, <1>6 DEF ServQueue, Policies

attendVars == <<loop, closer, clients, handler, sender, receiver, cancelled, q, event>>

(* A socket that nobody opened is no matter of the others.                 *)
LEMMA AttendAlone ==
    ASSUME Attendance, UNCHANGED attendVars,
           \A d \in Clients : sock[d] = "none" => sock'[d] = "none"
    PROVE  Attendance'
BY DEF Attendance, Attended, Unserved, Cancelled, MustWait, attendVars

(* A step of one client's tasks.                                           *)
LEMMA AttendOne ==
    ASSUME Attendance, NEW c \in Clients, Attended(c)', UNCHANGED <<loop, closer>>,
           \A d \in Clients \ {c} :
               /\ handler'[d] = handler[d] /\ sender'[d] = sender[d]
               /\ receiver'[d] = receiver[d] /\ q'[d] = q[d] /\ event'[d] = event[d]
               /\ sock'[d] = sock[d] /\ (d \in clients' => d \in clients)
               /\ \A k : Cancelled(k, d)' <=> Cancelled(k, d)
    PROVE  Attendance'
<1>1. ASSUME NEW d \in Clients \ {c} PROVE Attended(d)'
  <2>1. Attended(d)
    BY DEF Attendance
  <2>. QED BY <2>1 DEF Attended, Unserved, MustWait
<1>2. \A d \in Clients : Attended(d)'
  BY <1>1
<1>. QED BY <1>2 DEF Attendance

(* The program and the loop's own steps.                                   *)
LEMMA ThreadsAttend ==
    ASSUME SInv, Attendance,
           \/ OnNext \/ LooksUp("one") \/ LooksUp("close") \/ Schedules \/ AsksToClose
           \/ LoopStarts \/ Binds \/ LoopCloses \/ CloserStops \/ UNCHANGED vars
    PROVE  Attendance'
<1>1. UNCHANGED <<clients, taskVars, q, event>>
  BY DEF OnNext, LooksUp, Schedules, AsksToClose, LoopStarts, Binds, LoopCloses, CloserStops, vars
<1>2. /\ closer # "none" => closer' # "none"
      /\ closer' = "done" => loop' \in {"stopping", "closed"}
  <2>1. closer = "done" => loop \in {"stopping", "closed"}
    BY DEF Attendance
  <2>2. CASE LoopStarts \/ Binds \/ LoopCloses \/ CloserStops
    BY <2>1, <2>2 DEF LoopStarts, Binds, LoopCloses, CloserStops
  <2>3. CASE OnNext \/ LooksUp("one") \/ LooksUp("close") \/ Schedules \/ AsksToClose \/ UNCHANGED vars
    BY <2>1, <2>3 DEF OnNext, LooksUp, Schedules, AsksToClose, vars, threadVars
  <2>. QED BY <2>2, <2>3
<1>3. \A c \in Clients : Attended(c)'
  BY <1>1, <1>2 DEF Attendance, Attended, Unserved, Cancelled, MustWait, taskVars
<1>. QED BY <1>2, <1>3 DEF Attendance

LEMMA CallsAttend ==
    ASSUME SInv, Attendance, RunsCall
    PROVE  Attendance'
<1>0. /\ STypes
      /\ UNCHANGED <<loop, clients, handler, sender, receiver, cancelled, event>>
  BY DEF SInv, RunsCall
<1>1. ASSUME NEW T \in SUBSET Clients, PutAll(T), UNCHANGED <<closer, sock>>
      PROVE  Attendance'
  <2>1. ASSUME NEW c \in Clients, q[c].ready \/ MustWait(q[c])
        PROVE  q'[c].ready \/ MustWait(q'[c])
    <3>1. ServQueue(q[c]) /\ Backed(q[c], Busy(c)) /\ Busy(c) \in {0, 1}
      BY DEF SInv, Queues, Busy, Holds
    <3>2. q'[c] = IF c \in T THEN Offered(q[c]) ELSE q[c]
      BY <1>1 DEF PutAll
    <3>3. Offered(q[c]).ready \/ MustWait(Offered(q[c]))
      BY <2>1, <3>1, OfferedWakes
    <3>. QED BY <2>1, <3>2, <3>3
  <2>2. ASSUME NEW c \in Clients PROVE Attended(c)'
    <3>1. Attended(c)
      BY DEF Attendance
    <3>2. (MustWait(q[c]))' <=> MustWait(q'[c])
      BY DEF MustWait
    <3>. QED BY <1>0, <1>1, <2>1, <3>1, <3>2 DEF Attended, Unserved, Cancelled
  <2>. QED BY <1>0, <1>1, <2>2 DEF Attendance
<1>2. CASE RunsAll
  <2>1. CASE PutAll(clients)
    BY <1>0, <1>1, <1>2, <2>1 DEF RunsAll, STypes
  <2>2. CASE q' = q
    BY <1>0, <1>2, <2>2, AttendAlone DEF RunsAll, attendVars
  <2>. QED BY <1>2, <2>1, <2>2 DEF RunsAll
<1>3. CASE RunsOne
  <2> DEFINE c == Head(calls)[2]
  <2>1. c \in Clients
    BY <1>0, <1>3, HeadCall DEF RunsOne, RunsCall
  <2>2. PutAll({c}) /\ UNCHANGED <<closer, sock>>
    BY <1>3 DEF RunsOne
  <2>. HIDE DEF c
  <2>. QED BY <1>1, <2>1, <2>2
<1>4. CASE RunsClose
  <2>1. \A d \in Clients : sock[d] = "none" => sock'[d] = "none"
    BY <1>0, <1>4 DEF RunsClose, STypes
  <2>. QED BY <1>0, <1>4, <2>1, AttendAlone DEF RunsClose, attendVars
<1>5. CASE RunsStop
  <2>1. \A d \in Clients : sock[d] = "none" => sock'[d] = "none"
    BY <1>5 DEF RunsStop
  <2>2. q' = q /\ closer' \in {"close", "wait"}
    BY <1>5 DEF RunsStop
  <2>3. \A c \in Clients : Attended(c)'
    BY <1>0, <2>1, <2>2 DEF Attendance, Attended, Unserved, Cancelled, MustWait
  <2>. QED BY <2>2, <2>3 DEF Attendance
<1>. QED BY <1>2, <1>3, <1>4, <1>5 DEF RunsCall

(* The closing task cancels every task that has not ended.                 *)
LEMMA CancelsAttend ==
    ASSUME SInv, Attendance, CloserCancels
    PROVE  Attendance'
<1>1. /\ STypes /\ cancelled' = Unfinished /\ closer' = "wait"
      /\ sock' = [c \in Clients |-> IF c \in clients THEN "closed" ELSE sock[c]]
      /\ UNCHANGED <<loop, clients, handler, sender, receiver, q, event>>
  BY DEF SInv, CloserCancels
<1>2. ASSUME NEW c \in Clients PROVE Attended(c)'
  <2>1. Attended(c)
    BY DEF Attendance
  <2>2. /\ sender[c] \notin {"none", "ended"} => Cancelled("sender", c)'
        /\ receiver[c] \notin {"none", "ended"} => Cancelled("receiver", c)'
    BY <1>1 DEF Cancelled, Unfinished, Tasks
  <2>3. Unserved(c) => sock'[c] = "none" /\ c \notin clients
    BY <1>1, <2>1 DEF Attended
  <2>4. handler[c] \in {"joining", "unwinding"} => sender[c] # "none" /\ receiver[c] # "none"
    BY <2>1 DEF Attended, Unserved
  <2>. QED BY <1>1, <2>1, <2>2, <2>3, <2>4 DEF Attended, Unserved, MustWait
<1>. QED BY <1>1, <1>2 DEF Attendance

LEMMA HandlerAttends ==
    ASSUME SInv, Attendance, NEW c \in Clients, Accepts(c) \/ Refuses(c) \/ HandlerRuns(c)
    PROVE  Attendance'
<1>0. STypes /\ q = [d \in Clients |-> q[d]] /\ Attended(c) /\ UNCHANGED <<loop, closer>>
  BY DEF SInv, Queues, Attendance, Accepts, Refuses, HandlerRuns, threadVars
<1> DEFINE Elsewhere ==
      \A d \in Clients \ {c} :
          /\ handler'[d] = handler[d] /\ sender'[d] = sender[d]
          /\ receiver'[d] = receiver[d] /\ q'[d] = q[d] /\ event'[d] = event[d]
          /\ sock'[d] = sock[d] /\ (d \in clients' => d \in clients)
          /\ \A k : Cancelled(k, d)' <=> Cancelled(k, d)
<1>1. CASE Accepts(c)
  <2>1. /\ handler'[c] = "serving" /\ sender'[c] = "get" /\ receiver'[c] = "recv"
        /\ cancelled' = cancelled
    BY <1>0, <1>1 DEF Accepts, STypes
  <2>2. Attended(c)'
    BY <1>0, <2>1 DEF Attended, Unserved, Cancelled
  <2>3. Elsewhere
    BY <1>0, <1>1 DEF Accepts, STypes, Cancelled
  <2>. QED BY <1>0, <2>2, <2>3, AttendOne
<1>2. CASE Refuses(c)
  <2>1. handler'[c] = "refused" /\ handler[c] = "none"
        /\ UNCHANGED <<clients, sender, receiver, sock, q, event, cancelled>>
    BY <1>0, <1>2 DEF Refuses, STypes
  <2>2. Attended(c)'
    BY <1>0, <2>1 DEF Attended, Unserved, Cancelled, MustWait
  <2>3. Elsewhere
    BY <1>0, <1>2 DEF Refuses, STypes, Cancelled
  <2>. QED BY <1>0, <2>2, <2>3, AttendOne
<1>3. CASE HandlerRuns(c) /\ Joins(c)
  <2>1. /\ handler[c] = "serving" /\ handler' = [handler EXCEPT ![c] = "joining"]
        /\ cancelled' = cancelled \union Alive(c)
        /\ UNCHANGED <<clients, sender, receiver, sock, q, event>>
    BY <1>3 DEF HandlerRuns, Joins
  <2>2. /\ handler'[c] = "joining"
        /\ sender[c] = "ended" \/ Cancelled("sender", c)'
        /\ receiver[c] = "ended" \/ Cancelled("receiver", c)'
        /\ Cancelled("handler", c)' <=> Cancelled("handler", c)
    BY <1>0, <2>1 DEF Alive, Tasks, Cancelled, STypes
  <2>3. Attended(c)'
    BY <1>0, <2>1, <2>2 DEF Attended, Unserved, MustWait
  <2>4. Elsewhere
    BY <1>0, <2>1 DEF STypes, Cancelled, Alive
  <2>. QED BY <1>0, <2>3, <2>4, AttendOne
<1>4. CASE HandlerRuns(c) /\ Unwinds(c)
  <2>1. /\ handler[c] \in {"serving", "joining"} /\ handler' = [handler EXCEPT ![c] = "unwinding"]
        /\ cancelled' = (cancelled \ {<<"handler", c>>}) \union Alive(c)
        /\ clients' = clients \ {c}
        /\ UNCHANGED <<sender, receiver, sock, q, event>>
    BY <1>4 DEF HandlerRuns, Unwinds
  <2>2. /\ handler'[c] = "unwinding"
        /\ sender[c] = "ended" \/ Cancelled("sender", c)'
        /\ receiver[c] = "ended" \/ Cancelled("receiver", c)'
        /\ ~Cancelled("handler", c)'
    BY <1>0, <2>1 DEF Alive, Tasks, Cancelled, STypes
  <2>3. Attended(c)'
    BY <1>0, <2>1, <2>2 DEF Attended, Unserved, MustWait
  <2>4. Elsewhere
    BY <1>0, <2>1 DEF STypes, Cancelled, Alive
  <2>. QED BY <1>0, <2>3, <2>4, AttendOne
<1>5. CASE HandlerRuns(c) /\ Discards(c)
  <2>1. /\ handler[c] = "unwinding" /\ TasksEnded(c) /\ ~Cancelled("handler", c)
        /\ handler' = [handler EXCEPT ![c] = "closing"]
        /\ UNCHANGED <<clients, sender, receiver, cancelled, event>>
        /\ \A d \in Clients \ {c} : q'[d] = q[d] /\ sock'[d] = sock[d]
    BY <1>0, <1>5 DEF HandlerRuns, Discards, STypes
  <2>2. handler'[c] = "closing"
    BY <1>0, <2>1 DEF STypes
  <2>3. Attended(c)'
    BY <1>0, <2>1, <2>2 DEF Attended, Unserved, Cancelled, TasksEnded
  <2>4. Elsewhere
    BY <1>0, <2>1 DEF STypes, Cancelled
  <2>. QED BY <1>0, <2>3, <2>4, AttendOne
<1>6. CASE HandlerRuns(c) /\ Finishes(c)
  <2>1. /\ handler[c] = "closing" /\ ~Cancelled("handler", c)
        /\ handler' = [handler EXCEPT ![c] = "done"] /\ event' = [event EXCEPT ![c] = "closed"]
        /\ UNCHANGED <<clients, sender, receiver, cancelled, q>>
        /\ \A d \in Clients \ {c} : sock'[d] = sock[d]
    BY <1>0, <1>6 DEF HandlerRuns, Finishes, STypes
  <2>2. handler'[c] = "done" /\ event'[c] = "closed"
    BY <1>0, <2>1 DEF STypes
  <2>3. Attended(c)'
    BY <1>0, <2>1, <2>2 DEF Attended, Unserved, Cancelled, MustWait
  <2>4. Elsewhere
    BY <1>0, <2>1 DEF STypes, Cancelled
  <2>. QED BY <1>0, <2>3, <2>4, AttendOne
<1>7. CASE HandlerRuns(c) /\ Breaks(c)
  <2>1. /\ handler[c] \in {"unwinding", "closing"} /\ Cancelled("handler", c)
        /\ handler' = [handler EXCEPT ![c] = "broken"]
        /\ cancelled' = cancelled \ {<<"handler", c>>}
        /\ UNCHANGED <<clients, sender, receiver, q, event, sock>>
    BY <1>7 DEF HandlerRuns, Breaks
  <2>2. handler'[c] = "broken" /\ closer' # "none"
    BY <1>0, <2>1 DEF STypes, Attended
  <2>3. Attended(c)'
    BY <1>0, <2>1, <2>2 DEF Attended, Unserved, MustWait
  <2>4. Elsewhere
    BY <1>0, <2>1 DEF STypes, Cancelled
  <2>. QED BY <1>0, <2>3, <2>4, AttendOne
<1>. QED BY <1>1, <1>2, <1>3, <1>4, <1>5, <1>6, <1>7 DEF HandlerRuns

LEMMA TasksAttend ==
    ASSUME SInv, Attendance, NEW c \in Clients,
           \/ SenderRuns(c) \/ Receives(c) \/ ReceiverEnds(c) \/ SockCloses(c) \/ PeerDrops(c)
    PROVE  Attendance'
<1>0. STypes /\ q = [d \in Clients |-> q[d]] /\ Attended(c)
  BY DEF SInv, Queues, Attendance
<1> DEFINE Elsewhere ==
      \A d \in Clients \ {c} :
          /\ handler'[d] = handler[d] /\ sender'[d] = sender[d]
          /\ receiver'[d] = receiver[d] /\ q'[d] = q[d] /\ event'[d] = event[d]
          /\ sock'[d] = sock[d] /\ (d \in clients' => d \in clients)
          /\ \A k : Cancelled(k, d)' <=> Cancelled(k, d)
<1>1. CASE SenderRuns(c)
  <2>1. UNCHANGED <<loop, closer, clients, handler, receiver, sock, event>>
    BY <1>1 DEF SenderRuns, threadVars
  <2>2. ~Unserved(c)
    BY <1>0, <1>1 DEF SenderRuns, Gets, FrameSent, FrameLost, SenderStops, Attended
  <2>3. Elsewhere
    <3>1. \A d \in Clients \ {c} : sender'[d] = sender[d] /\ q'[d] = q[d]
      BY <1>0, <1>1 DEF SenderRuns, Gets, FrameSent, FrameLost, SenderStops, GetsFrame, STypes
    <3>2. cancelled' \in {cancelled, cancelled \ {<<"sender", c>>}}
      BY <1>1 DEF SenderRuns, Gets, FrameSent, FrameLost, SenderStops
    <3>3. \A d \in Clients \ {c} : \A k : Cancelled(k, d)' <=> Cancelled(k, d)
      BY <3>2 DEF Cancelled
    <3>. QED BY <2>1, <3>1, <3>3
  <2>4. CASE ~Cancelled("sender", c) /\ cancelled' = cancelled /\ \E r : GetsFrame(c, r)
    <3>1. PICK r : GetsFrame(c, r)
      BY <2>4
    <3>2. /\ sender'[c] \in {"send", "wait", "ended"}
          /\ sender'[c] = "wait" => MustWait(r) /\ q'[c] = Wait(r)
      BY <1>0, <3>1 DEF GetsFrame, STypes
    <3>3. MustWait(r) /\ q'[c] = Wait(r) => MustWait(q[c])'
      BY DEF MustWait, Wait
    <3>4. \A k : Cancelled(k, c)' <=> Cancelled(k, c)
      BY <2>4 DEF Cancelled
    <3>5. handler[c] \in {"joining", "unwinding"} => sender[c] = "ended"
      BY <1>0, <2>4 DEF Attended
    <3>6. sender[c] # "ended"
      BY <1>1, <2>4 DEF SenderRuns, Gets, FrameSent, FrameLost, SenderStops
    <3>7. Attended(c)'
      BY <1>0, <2>1, <2>2, <3>2, <3>3, <3>4, <3>5, <3>6 DEF Attended, Unserved
    <3>. QED BY <2>1, <2>3, <3>7, AttendOne
  <2>5. CASE sender' = [sender EXCEPT ![c] = "ended"] /\ cancelled' = cancelled \ {<<"sender", c>>}
    <3>1. sender'[c] = "ended"
      BY <1>0, <2>5 DEF STypes
    <3>2. /\ Cancelled("handler", c)' <=> Cancelled("handler", c)
          /\ Cancelled("receiver", c)' <=> Cancelled("receiver", c)
      BY <2>5 DEF Cancelled
    <3>3. Attended(c)'
      BY <1>0, <2>1, <2>2, <3>1, <3>2 DEF Attended, Unserved
    <3>. QED BY <2>1, <2>3, <3>3, AttendOne
  <2>. QED BY <1>1, <2>4, <2>5 DEF SenderRuns, Gets, FrameSent, FrameLost, SenderStops
<1>2. CASE Receives(c)
  BY <1>2, AttendAlone DEF Receives, taskVars, threadVars, attendVars
<1>3. CASE ReceiverEnds(c)
  <2>1. /\ receiver[c] = "recv" /\ receiver' = [receiver EXCEPT ![c] = "ended"]
        /\ cancelled' = cancelled \ {<<"receiver", c>>}
        /\ UNCHANGED <<loop, closer, clients, handler, sender, sock, q, event>>
    BY <1>3 DEF ReceiverEnds, threadVars
  <2>2. /\ receiver'[c] = "ended"
        /\ Cancelled("handler", c)' <=> Cancelled("handler", c)
        /\ Cancelled("sender", c)' <=> Cancelled("sender", c)
    BY <1>0, <2>1 DEF STypes, Cancelled
  <2>3. Attended(c)'
    BY <1>0, <2>1, <2>2 DEF Attended, Unserved, MustWait
  <2>4. Elsewhere
    BY <1>0, <2>1 DEF STypes, Cancelled
  <2>. QED BY <2>1, <2>3, <2>4, AttendOne
<1>4. CASE SockCloses(c) \/ PeerDrops(c)
  <2>1. \A d \in Clients : sock[d] = "none" => sock'[d] = "none"
    BY <1>0, <1>4 DEF SockCloses, PeerDrops, STypes
  <2>. QED BY <1>4, <2>1, AttendAlone DEF SockCloses, PeerDrops, threadVars, attendVars
<1>. QED BY <1>1, <1>2, <1>3, <1>4

LEMMA AttendanceStep ==
    ASSUME SInv, Attendance, [Next]_vars
    PROVE  Attendance'
BY ThreadsAttend, CallsAttend, CancelsAttend, HandlerAttends, TasksAttend DEF Next, LoopThread

LEMMA AttendanceInit == Init => Attendance
BY DEF Init, Attendance, Attended, Unserved, Cancelled

(* A connection that is over is announced as closed by the time the loop   *)
(* thread has nothing left to run.                                         *)
LEMMA AttendedEnds ==
    ASSUME SInv, Attendance, ~LoopsTurn, loop = "running", closer = "none", NEW c \in Clients,
           sock[c] = "closed" \/ (sender[c] # "none" /\ q[c].overflowed)
    PROVE  event[c] = "closed"
<1>1. Attended(c) /\ STypes
  BY DEF Attendance, SInv
<1>2. ~HandlersTurn(c) /\ ~SendersTurn(c) /\ ~ReceiversTurn(c)
  BY DEF LoopsTurn
<1>3. handler[c] \in HandlerStates /\ sender[c] \in {"none", "get", "wait", "send", "ended"}
      /\ receiver[c] \in {"none", "recv", "ended"}
  BY <1>1 DEF STypes
<1>4. ~Unserved(c)
  BY <1>1 DEF Attended
<1>5. handler[c] # "broken" /\ ~Cancelled("handler", c)
  BY <1>1 DEF Attended
<1>6. handler[c] \notin {"joining", "unwinding"}
  <2>1. SUFFICES ASSUME handler[c] \in {"joining", "unwinding"} PROVE FALSE
    OBVIOUS
  <2>2. sender[c] = "ended"
    BY <1>1, <1>2, <1>3, <1>4, <2>1 DEF Attended, SendersTurn
  <2>3. receiver[c] = "ended"
    BY <1>1, <1>2, <1>3, <1>4, <2>1 DEF Attended, ReceiversTurn
  <2>. QED BY <1>2, <2>1, <2>2, <2>3 DEF HandlersTurn, TasksEnded
<1>7. handler[c] # "serving"
  <2>1. SUFFICES ASSUME handler[c] = "serving" PROVE FALSE
    OBVIOUS
  <2>2. sender[c] = "wait" /\ receiver[c] = "recv"
    BY <1>1, <1>2, <1>3, <1>4, <2>1 DEF Attended, SendersTurn, HandlersTurn
  <2>3. ~q[c].ready /\ MustWait(q[c])
    BY <1>1, <1>2, <2>2 DEF Attended, SendersTurn
  <2>. QED BY <1>2, <2>2, <2>3 DEF ReceiversTurn, MustWait
<1>8. handler[c] # "closing"
  BY <1>2 DEF HandlersTurn
<1>9. handler[c] = "done"
  BY <1>3, <1>4, <1>5, <1>6, <1>7, <1>8 DEF HandlerStates, Unserved
<1>. QED BY <1>1, <1>9 DEF Attended

(* When the loop thread has nothing left to run, every connection whose    *)
(* socket closed or whose queue overflowed has been announced as closed,   *)
(* and a server asked to close has ended its thread.                       *)
THEOREM NobodyWaits == Spec => [](LoopsTurn \/ Settled)
<1>1. SInv /\ Attendance => LoopsTurn \/ Settled
  <2> SUFFICES ASSUME SInv, Attendance, ~LoopsTurn, loop # "closed" PROVE Settled
    BY DEF Settled
  <2>1. loop = "running" /\ calls = <<>> /\ closer \notin {"close", "wait"}
    BY DEF SInv, STypes, LoopStates, LoopsTurn
  <2>2. closer = "none"
    BY <2>1 DEF SInv, STypes, CloserStates, Attendance
  <2>3. ~Closing
    BY <2>1, <2>2 DEF Closing
  <2>. QED BY <2>1, <2>2, <2>3, AttendedEnds DEF Settled
<1>2. Init => SInv /\ Attendance
  BY ServerInit, AttendanceInit
<1>3. SInv /\ Attendance /\ [Next]_vars => SInv' /\ Attendance'
  BY ServerStep, AttendanceStep
<1>. QED BY <1>1, <1>2, <1>3, PTL DEF Spec

-----------------------------------------------------------------------------
(* The loop thread comes to rest: of what it has to do, every step of its  *)
(* own takes something off.                                                *)

HandlerLeft(c) ==
    IF handler[c] = "serving" THEN 4
    ELSE IF handler[c] = "joining" THEN 3
    ELSE IF handler[c] = "unwinding" THEN 2
    ELSE IF handler[c] = "closing" THEN 1
    ELSE 0

SenderLeft(c) ==
    IF sender[c] \in {"get", "send"} THEN 2
    ELSE IF sender[c] = "wait" THEN (IF q[c].ready THEN 2 ELSE 1)
    ELSE 0

ReceiverLeft(c) == IF receiver[c] = "recv" THEN 1 ELSE 0

SockLeft(c) == IF sock[c] = "open" THEN 2 ELSE IF sock[c] = "closing" THEN 1 ELSE 0

(* A frame still to be sent brings its sender back to the queue.           *)
ClientLeft(c) ==
    HandlerLeft(c) + SenderLeft(c) + ReceiverLeft(c) + SockLeft(c) + 3 * Len(q[c].frames)

Lefts == [c \in Clients |-> ClientLeft(c)]

ThreadLeft ==
    (IF loop = "starting" THEN 3
     ELSE IF loop = "running" THEN 2
     ELSE IF loop = "stopping" THEN 1
     ELSE 0)
    + (IF serve = "binding" THEN 1 ELSE 0)
    + (IF closer = "close" THEN 2 ELSE IF closer = "wait" THEN 1 ELSE 0)

(* A callback hands every client a frame, or starts the closing task.      *)
CallCost == 4 * Cardinality(Clients) + 3

LoopLeft == ThreadLeft + CallCost * Len(calls) + SumFunctionOnSet(Lefts, Clients)

(* Every term grows by n at most.                                          *)
LEMMA SumAtMost ==
    ASSUME NEW h, NEW k, NEW S, IsFiniteSet(S), Counted(h, S), Counted(k, S), NEW n \in {0, 4},
           \A x \in S : k[x] <= h[x] + n
    PROVE  SumFunctionOnSet(k, S) <= SumFunctionOnSet(h, S) + n * Cardinality(S)
<1> DEFINE Most(s) == SumFunctionOnSet(k, s) <= SumFunctionOnSet(h, s) + n * Cardinality(s)
           good == {s \in SUBSET S : Most(s)}
<1>0. ASSUME NEW s \in SUBSET S
      PROVE  /\ IsFiniteSet(s) /\ Counted(h, s) /\ Counted(k, s) /\ Cardinality(s) \in Nat
             /\ SumFunctionOnSet(k, s) \in Nat /\ SumFunctionOnSet(h, s) \in Nat
  <2>1. IsFiniteSet(s) /\ Counted(h, s) /\ Counted(k, s)
    BY FS_Subset DEF Counted
  <2>. QED BY <2>1, SumProps, FS_CardinalityType
<1>1. {} \in good
  <2>1. \A f : Counted(f, {}) /\ Cells(f, {}) = {}
    BY DEF Cells, Counted
  <2>2. \A f : SumFunctionOnSet(f, {}) = 0
    BY <2>1, FS_EmptySet, SumIsCells
  <2>3. Cardinality({}) = 0
    BY FS_EmptySet
  <2>4. n = 0 \/ n = 4
    OBVIOUS
  <2>. QED BY <2>2, <2>3, <2>4
<1>2. ASSUME NEW s \in SUBSET S, s # {}, s \ {Pick(s)} \in good PROVE s \in good
  <2> DEFINE x == Pick(s)
             u == s \ {x}
  <2>1. x \in s /\ x \in S /\ u \in SUBSET S
    BY <1>2 DEF Pick
  <2>2. Most(u)
    BY <1>2
  <2>3. k[x] <= h[x] + n /\ k[x] \in Nat /\ h[x] \in Nat
    BY <2>1 DEF Counted
  <2>. HIDE DEF x
  <2>4. /\ SumFunctionOnSet(k, s) = k[x] + SumFunctionOnSet(k, u)
        /\ SumFunctionOnSet(h, s) = h[x] + SumFunctionOnSet(h, u)
    BY <1>0, <2>1, SumProps
  <2>5. Cardinality(s) = Cardinality(u) + 1
    BY <1>0, <2>1, FS_RemoveElement
  <2>6. /\ SumFunctionOnSet(k, u) \in Nat /\ SumFunctionOnSet(h, u) \in Nat
        /\ Cardinality(u) \in Nat
    BY <1>0, <2>1
  <2>. HIDE DEF u
  <2>7. CASE n = 0
    <3>1. Most(s)
      BY <2>2, <2>3, <2>4, <2>5, <2>6, <2>7
    <3>. QED BY <3>1
  <2>8. CASE n = 4
    <3>1. Most(s)
      BY <2>2, <2>3, <2>4, <2>5, <2>6, <2>8
    <3>. QED BY <3>1
  <2>. QED BY <2>7, <2>8
<1>. HIDE DEF good
<1>3. SUBSET S \subseteq good
  BY <1>1, <1>2, SubsetsByPick
<1>. QED BY <1>3 DEF good

LEMMA ClientLeftType ==
    ASSUME SInv, NEW c \in Clients
    PROVE  /\ HandlerLeft(c) \in 0..4 /\ SenderLeft(c) \in 0..2 /\ ReceiverLeft(c) \in 0..1
           /\ SockLeft(c) \in 0..2 /\ Len(q[c].frames) \in Nat
           /\ ClientLeft(c) \in Nat /\ Lefts[c] = ClientLeft(c)
<1>1. /\ HandlerLeft(c) \in 0..4 /\ SenderLeft(c) \in 0..2 /\ ReceiverLeft(c) \in 0..1
      /\ SockLeft(c) \in 0..2
  BY DEF HandlerLeft, SenderLeft, ReceiverLeft, SockLeft
<1>2. Len(q[c].frames) \in Nat
  BY LenProperties DEF SInv, Queues, ServQueue
<1>3. ClientLeft(c) \in Nat
  <2> DEFINE n == Len(q[c].frames)
  <2>1. n \in Nat /\ HandlerLeft(c) \in Nat /\ SenderLeft(c) \in Nat /\ ReceiverLeft(c) \in Nat
        /\ SockLeft(c) \in Nat
    BY <1>1, <1>2
  <2>2. ClientLeft(c) = HandlerLeft(c) + SenderLeft(c) + ReceiverLeft(c) + SockLeft(c) + 3 * n
    BY DEF ClientLeft
  <2>. HIDE DEF n
  <2>. QED BY <2>1, <2>2
<1>. QED BY <1>1, <1>2, <1>3 DEF Lefts

LEMMA ClientSame ==
    ASSUME NEW c, UNCHANGED <<handler[c], sender[c], receiver[c], sock[c], q[c]>>
    PROVE  ClientLeft(c)' = ClientLeft(c)
<1>1. /\ HandlerLeft(c)' = HandlerLeft(c) /\ ReceiverLeft(c)' = ReceiverLeft(c)
      /\ SockLeft(c)' = SockLeft(c)
  BY DEF HandlerLeft, ReceiverLeft, SockLeft
<1>2. SenderLeft(c)' = SenderLeft(c)
  BY DEF SenderLeft
<1>3. Len(q[c].frames)' = Len(q[c].frames)
  OBVIOUS
<1>. QED BY <1>1, <1>2, <1>3 DEF ClientLeft

LeftsTyped ==
    /\ Counted(Lefts, Clients) /\ SumFunctionOnSet(Lefts, Clients) \in Nat
    /\ \A c \in Clients :
          /\ HandlerLeft(c) \in 0..4 /\ SenderLeft(c) \in 0..2 /\ ReceiverLeft(c) \in 0..1
          /\ SockLeft(c) \in 0..2 /\ Len(q[c].frames) \in Nat
          /\ ClientLeft(c) \in Nat /\ Lefts[c] = ClientLeft(c)
    /\ ThreadLeft \in Nat /\ Len(calls) \in Nat /\ CallCost * Len(calls) \in Nat
    /\ LoopLeft \in Nat

LEMMA CostType == CallCost \in Nat /\ IsFiniteSet(Clients) /\ Cardinality(Clients) \in Nat
<1>1. IsFiniteSet(Clients) /\ Cardinality(Clients) \in Nat
  BY WSServerAssumption, FS_CardinalityType
<1>. QED BY <1>1 DEF CallCost

LEMMA LeftsTypes == SInv => LeftsTyped
<1> SUFFICES ASSUME SInv PROVE LeftsTyped
  OBVIOUS
<1>1. Counted(Lefts, Clients)
  BY ClientLeftType DEF Counted
<1>2. SumFunctionOnSet(Lefts, Clients) \in Nat
  BY <1>1, CostType, SumProps
<1>3. ThreadLeft \in Nat
  BY DEF ThreadLeft
<1>4. Len(calls) \in Nat
  BY LenProperties DEF SInv, STypes
<1>5. CallCost * Len(calls) \in Nat
  <2> DEFINE n == Len(calls)
  <2>1. n \in Nat /\ CallCost \in Nat
    BY <1>4, CostType
  <2>. HIDE DEF n
  <2>2. CallCost * n \in Nat
    BY <2>1
  <2>. QED BY <2>2 DEF n
<1>6. LoopLeft \in Nat
  BY <1>2, <1>3, <1>5 DEF LoopLeft
<1>. QED BY <1>1, <1>2, <1>3, <1>4, <1>5, <1>6, ClientLeftType DEF LeftsTyped

LEMMA LeftsTypesNext == SInv' => LeftsTyped'
BY LeftsTypes, PTL

(* A step of one client's tasks that takes something off.                  *)
LEMMA ClientWinds ==
    ASSUME SInv, SInv', NEW c \in Clients, UNCHANGED <<loop, serve, closer, calls>>,
           ClientLeft(c)' < ClientLeft(c),
           \A d \in Clients \ {c} : ClientLeft(d)' = ClientLeft(d)
    PROVE  LoopLeft' < LoopLeft
<1> DEFINE h == Lefts
           k == Lefts'
<1>0. LeftsTyped /\ LeftsTyped'
  BY LeftsTypes, LeftsTypesNext
<1>1. /\ Counted(h, Clients) /\ k[c] \in Nat /\ h[c] \in Nat /\ k[c] < h[c]
      /\ \A d \in Clients \ {c} : k[d] = h[d]
  BY <1>0 DEF LeftsTyped
<1>2. SumFunctionOnSet(h, Clients) \in Nat /\ SumFunctionOnSet(k, Clients) \in Nat
  BY <1>0 DEF LeftsTyped
<1>3. /\ LoopLeft = ThreadLeft + CallCost * Len(calls) + SumFunctionOnSet(h, Clients)
      /\ LoopLeft' = ThreadLeft + CallCost * Len(calls) + SumFunctionOnSet(k, Clients)
  BY DEF LoopLeft, ThreadLeft, CallCost
<1>4. ThreadLeft \in Nat /\ CallCost * Len(calls) \in Nat
  BY <1>0 DEF LeftsTyped
<1>. HIDE DEF h, k
<1>5. SumFunctionOnSet(k, Clients) = SumFunctionOnSet(h, Clients) + k[c] - h[c]
  BY <1>1, CostType, SumOne
<1> DEFINE cost == CallCost * Len(calls)
<1>. HIDE DEF cost
<1>6. LoopLeft = ThreadLeft + cost + SumFunctionOnSet(h, Clients)
      /\ LoopLeft' = ThreadLeft + cost + SumFunctionOnSet(k, Clients) /\ cost \in Nat
  BY <1>3, <1>4 DEF cost
<1>. QED BY <1>1, <1>2, <1>4, <1>5, <1>6

LEMMA HandlerWinds ==
    ASSUME SInv, SInv', NEW c \in Clients, HandlerRuns(c)
    PROVE  LoopLeft' < LoopLeft
<1>0. STypes /\ q = [d \in Clients |-> q[d]] /\ UNCHANGED <<loop, serve, closer, calls, sender, receiver>>
  BY DEF SInv, Queues, HandlerRuns, threadVars
<1>1. \A d \in Clients \ {c} : q'[d] = q[d] /\ handler'[d] = handler[d] /\ sock'[d] = sock[d]
  BY <1>0 DEF HandlerRuns, Joins, Unwinds, Discards, Finishes, Breaks, STypes
<1>2. ASSUME NEW d \in Clients \ {c} PROVE ClientLeft(d)' = ClientLeft(d)
  <2>1. UNCHANGED <<handler[d], sender[d], receiver[d], sock[d], q[d]>>
    BY <1>0, <1>1
  <2>. QED BY <2>1, ClientSame
<1>3. LeftsTyped /\ LeftsTyped'
  BY LeftsTypes, LeftsTypesNext
<1>4. HandlerLeft(c)' < HandlerLeft(c)
  <2>1. \/ handler[c] = "serving" /\ handler'[c] \in {"joining", "unwinding"}
        \/ handler[c] = "joining" /\ handler'[c] = "unwinding"
        \/ handler[c] = "unwinding" /\ handler'[c] \in {"closing", "broken"}
        \/ handler[c] = "closing" /\ handler'[c] \in {"done", "broken"}
    BY <1>0 DEF HandlerRuns, Joins, Unwinds, Discards, Finishes, Breaks, STypes
  <2>. QED BY <2>1 DEF HandlerLeft
<1>5. ReceiverLeft(c)' = ReceiverLeft(c)
  BY <1>0 DEF ReceiverLeft
<1>6. SockLeft(c)' <= SockLeft(c)
  <2>1. sock'[c] = sock[c] \/ (sock[c] = "open" /\ sock'[c] = "closing") \/ sock'[c] = "closed"
    BY <1>0 DEF HandlerRuns, Joins, Unwinds, Discards, Finishes, Breaks, STypes
  <2>. QED BY <2>1 DEF SockLeft
<1>7. SenderLeft(c)' <= SenderLeft(c) /\ Len(q'[c].frames) <= Len(q[c].frames)
  <2>0. Len(q[c].frames) \in Nat
    BY <1>3 DEF LeftsTyped
  <2>1. CASE q' = q
    BY <1>0, <2>0, <2>1 DEF SenderLeft
  <2>2. CASE Discards(c)
    <3> DEFINE p == Bind(Reset(q[c], Live), Live, FALSE)
    <3>1. ServQueue(q[c]) /\ Backed(q[c], Busy(c))
      BY DEF SInv, Queues
    <3>2. p.frames = <<>>
      BY <3>1, ResetServ
    <3>3. q' = [q EXCEPT ![c] = p] /\ TasksEnded(c)
      BY <2>2 DEF Discards
    <3>. HIDE DEF p
    <3>4. q'[c].frames = <<>> /\ sender[c] = "ended"
      BY <1>0, <3>2, <3>3 DEF TasksEnded
    <3>5. Len(q'[c].frames) = 0
      BY <3>4
    <3>6. SenderLeft(c)' = SenderLeft(c)
      BY <1>0, <3>4 DEF SenderLeft
    <3>. QED BY <1>3, <2>0, <3>5, <3>6 DEF LeftsTyped
  <2>. QED BY <2>1, <2>2 DEF HandlerRuns, Joins, Unwinds, Finishes, Breaks
<1>8. ClientLeft(c)' < ClientLeft(c)
  <2> DEFINE n == Len(q[c].frames)  m == n'
  <2>1. /\ HandlerLeft(c) \in Int /\ SenderLeft(c) \in Int /\ ReceiverLeft(c) \in Int /\ SockLeft(c) \in Int
        /\ HandlerLeft(c)' \in Int /\ SenderLeft(c)' \in Int /\ ReceiverLeft(c)' \in Int
        /\ SockLeft(c)' \in Int /\ n \in Int /\ m \in Int
    BY <1>3 DEF LeftsTyped
  <2>2. m <= n
    BY <1>7
  <2>3. /\ ClientLeft(c) = HandlerLeft(c) + SenderLeft(c) + ReceiverLeft(c) + SockLeft(c) + 3 * n
        /\ ClientLeft(c)' = HandlerLeft(c)' + SenderLeft(c)' + ReceiverLeft(c)' + SockLeft(c)' + 3 * m
    BY DEF ClientLeft
  <2>. HIDE DEF n, m
  <2>. QED BY <1>4, <1>5, <1>6, <1>7, <2>1, <2>2, <2>3
<1>. QED BY <1>0, <1>2, <1>8, ClientWinds

LEMMA SenderWinds ==
    ASSUME SInv, SInv', NEW c \in Clients, SenderRuns(c)
    PROVE  LoopLeft' < LoopLeft
<1>0. STypes /\ q = [d \in Clients |-> q[d]] /\ UNCHANGED <<loop, serve, closer, calls, handler, receiver, sock>>
  BY DEF SInv, Queues, SenderRuns, threadVars
<1>1. \A d \in Clients \ {c} : q'[d] = q[d] /\ sender'[d] = sender[d]
  BY <1>0 DEF SenderRuns, Gets, FrameSent, FrameLost, SenderStops, GetsFrame, STypes
<1>2. ASSUME NEW d \in Clients \ {c} PROVE ClientLeft(d)' = ClientLeft(d)
  <2>1. UNCHANGED <<handler[d], sender[d], receiver[d], sock[d], q[d]>>
    BY <1>0, <1>1
  <2>. QED BY <2>1, ClientSame
<1>3. LeftsTyped /\ LeftsTyped' /\ ServQueue(q[c]) /\ Backed(q[c], Busy(c))
  BY LeftsTypes, LeftsTypesNext DEF SInv, Queues
<1>4. SenderLeft(c)' + 3 * Len(q'[c].frames) < SenderLeft(c) + 3 * Len(q[c].frames)
  <2>0. Len(q[c].frames) \in Nat /\ Len(q'[c].frames) \in Nat
    BY <1>3 DEF LeftsTyped
  <2>1. ASSUME NEW r, ServQueue(r), Backed(r, 0), GetsFrame(c, r), r.frames = q[c].frames,
               SenderLeft(c) = 2
        PROVE  SenderLeft(c)' + 3 * Len(q'[c].frames) < SenderLeft(c) + 3 * Len(q[c].frames)
    <3>1. CASE CanTake(r) /\ q' = [q EXCEPT ![c] = Take(r)] /\ sender' = [sender EXCEPT ![c] = "send"]
      <4>1. Len(Take(r).frames) + 1 = Len(r.frames)
        BY <2>1, <3>1, TakeServ
      <4>2. q'[c] = Take(r) /\ sender'[c] = "send"
        BY <1>0, <3>1 DEF STypes
      <4>3. SenderLeft(c)' = 2
        BY <4>2 DEF SenderLeft
      <4>4. Len(q'[c].frames) + 1 = Len(q[c].frames)
        BY <2>1, <4>1, <4>2
      <4>. QED BY <2>0, <2>1, <4>3, <4>4
    <3>2. CASE q' = [q EXCEPT ![c] = Wait(r)] /\ sender' = [sender EXCEPT ![c] = "wait"]
      <4>1. Wait(r).frames = r.frames /\ Wait(r).ready = FALSE
        BY <2>1 DEF Wait, ServQueue
      <4>2. q'[c] = Wait(r) /\ sender'[c] = "wait"
        BY <1>0, <3>2 DEF STypes
      <4>3. SenderLeft(c)' = 1
        BY <4>1, <4>2 DEF SenderLeft
      <4>4. q'[c].frames = q[c].frames
        BY <2>1, <4>1, <4>2
      <4>. QED BY <2>0, <2>1, <4>3, <4>4
    <3>3. CASE q' = [q EXCEPT ![c] = r] /\ sender' = [sender EXCEPT ![c] = "ended"]
      <4>1. q'[c] = r /\ sender'[c] = "ended"
        BY <1>0, <3>3 DEF STypes
      <4>2. SenderLeft(c)' = 0 /\ q'[c].frames = q[c].frames
        BY <2>1, <4>1 DEF SenderLeft
      <4>. QED BY <2>0, <2>1, <4>2
    <3>. QED BY <2>1, <3>1, <3>2, <3>3 DEF GetsFrame
  <2>2. CASE Gets(c)
    <3>1. SenderLeft(c) = 2 /\ Busy(c) = 0
      BY <2>2 DEF Gets, SenderLeft, Busy, Holds
    <3>2. Backed(q[c], 0) /\ GetsFrame(c, q[c])
      BY <1>3, <2>2, <3>1 DEF Gets
    <3>. QED BY <1>3, <2>1, <3>1, <3>2
  <2>3. CASE FrameSent(c)
    <3> DEFINE r == Sent(q[c], Live)
    <3>1. SenderLeft(c) = 2 /\ Busy(c) = 1
      BY <2>3 DEF FrameSent, SenderLeft, Busy, Holds
    <3>2. ServQueue(r) /\ Backed(r, 0) /\ r.frames = q[c].frames
      BY <1>3, <3>1, SentServ
    <3>3. GetsFrame(c, r)
      BY <2>3 DEF FrameSent
    <3>. HIDE DEF r
    <3>. QED BY <2>1, <3>1, <3>2, <3>3
  <2>4. CASE FrameLost(c)
    <3>1. SenderLeft(c) = 2 /\ Busy(c) = 1 /\ SenderLeft(c)' = 0
      BY <1>0, <2>4 DEF FrameLost, SenderLeft, Busy, Holds, STypes
    <3>2. LostTaken(q[c], Live).frames = q[c].frames
      BY <1>3, <3>1, SentServ DEF LostTaken, Sent
    <3>3. q'[c] = LostTaken(q[c], Live)
      BY <1>0, <2>4 DEF FrameLost
    <3>4. q'[c].frames = q[c].frames
      BY <3>2, <3>3
    <3>. QED BY <2>0, <3>1, <3>4
  <2>5. CASE SenderStops(c)
    <3>1. SenderLeft(c) \in {1, 2} /\ SenderLeft(c)' = 0 /\ q' = q
      BY <1>0, <2>5 DEF SenderStops, SenderLeft, STypes
    <3>. QED BY <2>0, <3>1
  <2>. QED BY <2>2, <2>3, <2>4, <2>5 DEF SenderRuns
<1>5. ClientLeft(c)' < ClientLeft(c)
  <2> DEFINE n == Len(q[c].frames)  m == n'
  <2>1. /\ HandlerLeft(c) \in Int /\ SenderLeft(c) \in Int /\ ReceiverLeft(c) \in Int /\ SockLeft(c) \in Int
        /\ SenderLeft(c)' \in Int /\ n \in Int /\ m \in Int
    BY <1>3 DEF LeftsTyped
  <2>2. SenderLeft(c)' + 3 * m < SenderLeft(c) + 3 * n
    BY <1>4
  <2>3. /\ ClientLeft(c) = HandlerLeft(c) + SenderLeft(c) + ReceiverLeft(c) + SockLeft(c) + 3 * n
        /\ ClientLeft(c)' = HandlerLeft(c) + SenderLeft(c)' + ReceiverLeft(c) + SockLeft(c) + 3 * m
    BY <1>0 DEF ClientLeft, HandlerLeft, ReceiverLeft, SockLeft
  <2>. HIDE DEF n, m
  <2>. QED BY <2>1, <2>2, <2>3
<1>. QED BY <1>0, <1>2, <1>5, ClientWinds

LEMMA OtherTasksWind ==
    ASSUME SInv, SInv', NEW c \in Clients, ReceiverEnds(c) \/ SockCloses(c)
    PROVE  LoopLeft' < LoopLeft
<1>0. STypes /\ UNCHANGED <<loop, serve, closer, calls, handler, sender, q>>
  BY DEF SInv, ReceiverEnds, SockCloses, threadVars
<1>1. \A d \in Clients \ {c} : receiver'[d] = receiver[d] /\ sock'[d] = sock[d]
  BY <1>0 DEF ReceiverEnds, SockCloses, STypes
<1>2. ASSUME NEW d \in Clients \ {c} PROVE ClientLeft(d)' = ClientLeft(d)
  <2>1. UNCHANGED <<handler[d], sender[d], receiver[d], sock[d], q[d]>>
    BY <1>0, <1>1
  <2>. QED BY <2>1, ClientSame
<1>3. LeftsTyped /\ LeftsTyped'
  BY LeftsTypes, LeftsTypesNext
<1>4. ReceiverLeft(c)' + SockLeft(c)' < ReceiverLeft(c) + SockLeft(c)
  BY <1>0 DEF ReceiverEnds, SockCloses, STypes, ReceiverLeft, SockLeft
<1>5. ClientLeft(c)' < ClientLeft(c)
  <2> DEFINE n == Len(q[c].frames)
  <2>1. /\ HandlerLeft(c) \in Int /\ SenderLeft(c) \in Int /\ ReceiverLeft(c) \in Int /\ SockLeft(c) \in Int
        /\ ReceiverLeft(c)' \in Int /\ SockLeft(c)' \in Int /\ n \in Int
    BY <1>3 DEF LeftsTyped
  <2>2. /\ ClientLeft(c) = HandlerLeft(c) + SenderLeft(c) + ReceiverLeft(c) + SockLeft(c) + 3 * n
        /\ ClientLeft(c)' = HandlerLeft(c) + SenderLeft(c) + ReceiverLeft(c)' + SockLeft(c)' + 3 * n
    BY <1>0 DEF ClientLeft, HandlerLeft, SenderLeft
  <2>. HIDE DEF n
  <2>. QED BY <1>4, <2>1, <2>2
<1>. QED BY <1>0, <1>2, <1>5, ClientWinds

(* The sum after a step that may touch every client.                       *)
LEMMA AllClients ==
    ASSUME SInv, SInv', NEW n \in {0, 4}, \A c \in Clients : ClientLeft(c)' <= ClientLeft(c) + n
    PROVE  SumFunctionOnSet(Lefts', Clients)
              <= SumFunctionOnSet(Lefts, Clients) + n * Cardinality(Clients)
<1> DEFINE h == Lefts
           k == Lefts'
<1>1. LeftsTyped /\ LeftsTyped'
  BY LeftsTypes, LeftsTypesNext
<1>2. Counted(h, Clients) /\ Counted(k, Clients) /\ \A c \in Clients : k[c] <= h[c] + n
  BY <1>1 DEF LeftsTyped
<1>. HIDE DEF h, k
<1>3. SumFunctionOnSet(k, Clients) <= SumFunctionOnSet(h, Clients) + n * Cardinality(Clients)
  BY <1>2, CostType, SumAtMost
<1>. QED BY <1>3 DEF h, k

LEMMA CallWinds ==
    ASSUME SInv, SInv', RunsCall
    PROVE  LoopLeft' < LoopLeft
<1> DEFINE sum == SumFunctionOnSet(Lefts, Clients)
           n == Len(calls)
           m == n'
           card == Cardinality(Clients)
<1>0. /\ STypes /\ q = [d \in Clients |-> q[d]] /\ LeftsTyped /\ LeftsTyped'
      /\ calls # <<>> /\ calls' = Tail(calls)
      /\ UNCHANGED <<loop, clients, handler, sender, receiver, cancelled, event>>
  BY LeftsTypes, LeftsTypesNext DEF SInv, Queues, RunsCall
<1>1. n \in Nat /\ m \in Nat /\ m = n - 1
  BY <1>0 DEF STypes
<1>2. ThreadLeft' <= ThreadLeft + 2
  <2>1. UNCHANGED <<closer, serve>> \/ (closer' \in {"close", "wait"} /\ serve' \in {serve, "closed"})
    BY DEF RunsCall, RunsAll, RunsOne, RunsClose, RunsStop
  <2>. QED BY <1>0, <2>1 DEF ThreadLeft
<1>3. ASSUME NEW T \in SUBSET Clients, PutAll(T), UNCHANGED sock
      PROVE  sum' <= sum + 4 * card
  <2>1. ASSUME NEW c \in Clients PROVE ClientLeft(c)' <= ClientLeft(c) + 4
    <3>1. ServQueue(q[c]) /\ Backed(q[c], Busy(c)) /\ Busy(c) \in {0, 1}
      BY DEF SInv, Queues, Busy, Holds
    <3>2. q'[c] = IF c \in T THEN Offered(q[c]) ELSE q[c]
      BY <1>3 DEF PutAll
    <3>3. /\ LostBy(q[c]) \in Nat /\ Len(Offered(q[c]).frames) \in Nat
          /\ Len(Offered(q[c]).frames) + LostBy(q[c]) = Len(q[c].frames) + 1
      BY <3>1, OfferedServ
    <3>4. Len(q[c].frames) \in Nat
      BY <1>0 DEF LeftsTyped
    <3>5. Len(q'[c].frames) <= Len(q[c].frames) + 1 /\ Len(q'[c].frames) \in Nat
      BY <3>2, <3>3, <3>4
    <3>6. SenderLeft(c)' <= SenderLeft(c) + 1
      BY <1>0 DEF SenderLeft
    <3>7. UNCHANGED <<HandlerLeft(c), ReceiverLeft(c), SockLeft(c)>>
      BY <1>0, <1>3 DEF HandlerLeft, ReceiverLeft, SockLeft
    <3>10. /\ HandlerLeft(c) \in 0..4 /\ SenderLeft(c) \in 0..2 /\ ReceiverLeft(c) \in 0..1
           /\ SockLeft(c) \in 0..2 /\ SenderLeft(c)' \in 0..2
      BY <1>0 DEF LeftsTyped
    <3> DEFINE i == Len(q[c].frames)  j == i'
    <3>8. /\ HandlerLeft(c) \in Int /\ SenderLeft(c) \in Int /\ ReceiverLeft(c) \in Int
          /\ SockLeft(c) \in Int /\ SenderLeft(c)' \in Int /\ i \in Int /\ j \in Int
      BY <3>4, <3>5, <3>10
    <3>9. /\ ClientLeft(c) = HandlerLeft(c) + SenderLeft(c) + ReceiverLeft(c) + SockLeft(c) + 3 * i
          /\ ClientLeft(c)' = HandlerLeft(c) + SenderLeft(c)' + ReceiverLeft(c) + SockLeft(c) + 3 * j
          /\ j <= i + 1
      BY <3>5, <3>7 DEF ClientLeft
    <3>. HIDE DEF i, j
    <3>. QED BY <3>6, <3>8, <3>9
  <2>2. \A c \in Clients : ClientLeft(c)' <= ClientLeft(c) + 4
    BY <2>1
  <2>. QED BY <2>2, AllClients
<1>4. ASSUME q' = q, \A c \in Clients : SockLeft(c)' <= SockLeft(c)
      PROVE  sum' <= sum + 4 * card
  <2>1. ASSUME NEW c \in Clients PROVE ClientLeft(c)' <= ClientLeft(c) + 0
    <3>1. UNCHANGED <<HandlerLeft(c), SenderLeft(c), ReceiverLeft(c)>>
      BY <1>0, <1>4 DEF HandlerLeft, ReceiverLeft, SenderLeft
    <3>5. /\ HandlerLeft(c) \in 0..4 /\ SenderLeft(c) \in 0..2 /\ ReceiverLeft(c) \in 0..1
          /\ SockLeft(c) \in 0..2 /\ SockLeft(c)' \in 0..2 /\ Len(q[c].frames) \in Nat
      BY <1>0 DEF LeftsTyped
    <3> DEFINE i == Len(q[c].frames)
    <3>2. /\ HandlerLeft(c) \in Int /\ SenderLeft(c) \in Int /\ ReceiverLeft(c) \in Int
          /\ SockLeft(c) \in Int /\ SockLeft(c)' \in Int /\ i \in Int
      BY <3>5
    <3>3. /\ ClientLeft(c) = HandlerLeft(c) + SenderLeft(c) + ReceiverLeft(c) + SockLeft(c) + 3 * i
          /\ ClientLeft(c)' = HandlerLeft(c) + SenderLeft(c) + ReceiverLeft(c) + SockLeft(c)' + 3 * i
      BY <1>4, <3>1 DEF ClientLeft
    <3>4. SockLeft(c)' <= SockLeft(c)
      BY <1>4
    <3>. HIDE DEF i
    <3>. QED BY <3>2, <3>3, <3>4
  <2>2. \A c \in Clients : ClientLeft(c)' <= ClientLeft(c) + 0
    BY <2>1
  <2>3. sum' <= sum + 0 * card
    BY <2>2, AllClients
  <2>4. sum \in Int /\ sum' \in Int /\ card \in Nat
    BY <1>0, CostType DEF LeftsTyped
  <2>. HIDE DEF sum, card
  <2>. QED BY <2>3, <2>4
<1>5. sum' <= sum + 4 * card
  <2>1. CASE RunsAll
    <3>1. CASE PutAll(clients)
      BY <1>0, <1>3, <2>1, <3>1 DEF RunsAll, STypes
    <3>2. CASE q' = q
      <4>1. \A c \in Clients : SockLeft(c)' <= SockLeft(c)
        BY <2>1 DEF RunsAll, SockLeft
      <4>. QED BY <1>4, <3>2, <4>1
    <3>. QED BY <2>1, <3>1, <3>2 DEF RunsAll
  <2>2. CASE RunsOne
    <3>1. Head(calls)[2] \in Clients
      BY <1>0, <2>2, HeadCall DEF RunsOne
    <3>2. PutAll({Head(calls)[2]}) /\ UNCHANGED sock
      BY <2>2 DEF RunsOne
    <3>3. {Head(calls)[2]} \in SUBSET Clients
      BY <3>1
    <3>. QED BY <1>3, <3>2, <3>3
  <2>3. CASE RunsClose \/ RunsStop
    <3>1. q' = q
      BY <2>3 DEF RunsClose, RunsStop
    <3>2. \A c \in Clients : sock'[c] = sock[c] \/ (sock[c] = "open" /\ sock'[c] = "closing")
      BY <1>0, <2>3 DEF RunsClose, RunsStop, STypes
    <3>3. \A c \in Clients : SockLeft(c)' <= SockLeft(c)
      BY <3>2 DEF SockLeft
    <3>. QED BY <1>4, <3>1, <3>3
  <2>. QED BY <2>1, <2>2, <2>3 DEF RunsCall
<1>6. /\ LoopLeft = ThreadLeft + CallCost * n + sum
      /\ LoopLeft' = ThreadLeft' + CallCost * m + sum'
  BY DEF LoopLeft, CallCost
<1>7. CallCost * n = CallCost * m + CallCost
  <2>1. CallCost \in Nat
    BY CostType
  <2>. HIDE DEF n, m
  <2>. QED BY <1>1, <2>1
<1>8. /\ CallCost = 4 * card + 3 /\ CallCost * m \in Int /\ sum \in Int /\ sum' \in Int
      /\ ThreadLeft \in Int /\ ThreadLeft' \in Int /\ card \in Int
  <2>1. CallCost = 4 * card + 3 /\ card \in Int
    BY CostType DEF CallCost
  <2>2. sum \in Int /\ sum' \in Int /\ ThreadLeft \in Int /\ ThreadLeft' \in Int
    BY <1>0 DEF LeftsTyped
  <2>3. CallCost * m \in Int
    <3>. HIDE DEF m
    <3>. QED BY <1>1, CostType
  <2>. QED BY <2>1, <2>2, <2>3
<1>9. LoopLeft' < LoopLeft
  <2>1. ASSUME NEW x \in Int, NEW y \in Int, NEW u \in Int, NEW v \in Int, NEW w \in Int, NEW z \in Int,
               y <= x + 2, v <= u + 4 * z
        PROVE  y + w + v < x + (w + (4 * z + 3)) + u
    BY <2>1
  <2>2. /\ LoopLeft = ThreadLeft + (CallCost * m + (4 * card + 3)) + sum
        /\ LoopLeft' = ThreadLeft' + CallCost * m + sum'
    BY <1>6, <1>7, <1>8
  <2> DEFINE cost == CallCost * m
  <2>3. cost \in Int
    BY <1>8
  <2>4. LoopLeft = ThreadLeft + (cost + (4 * card + 3)) + sum /\ LoopLeft' = ThreadLeft' + cost + sum'
    BY <2>2
  <2> HIDE DEF cost, sum, card, n, m
  <2>5. ThreadLeft' + cost + sum' < ThreadLeft + (cost + (4 * card + 3)) + sum
    BY <1>2, <1>5, <1>8, <2>1, <2>3
  <2>. QED BY <2>4, <2>5
<1>. QED BY <1>9

LEMMA ThreadWinds ==
    ASSUME SInv, SInv', LoopStarts \/ Binds \/ LoopCloses \/ CloserCancels \/ CloserStops
    PROVE  LoopLeft' < LoopLeft
<1> DEFINE sum == SumFunctionOnSet(Lefts, Clients)
           cost == CallCost * Len(calls)
<1>0. STypes /\ LeftsTyped /\ LeftsTyped'
  BY LeftsTypes, LeftsTypesNext DEF SInv
<1>1. UNCHANGED <<calls, handler, sender, receiver, q>>
  BY DEF LoopStarts, Binds, LoopCloses, CloserCancels, CloserStops, taskVars
<1>2. ThreadLeft' < ThreadLeft
  BY <1>0 DEF LoopStarts, Binds, LoopCloses, CloserCancels, CloserStops, Running, ThreadLeft
<1>3. \A c \in Clients : SockLeft(c)' <= SockLeft(c)
  <2>1. CASE sock' = sock
    BY <2>1 DEF SockLeft
  <2>2. CASE CloserCancels
    <3>1. \A c \in Clients : sock'[c] \in {sock[c], "closed"}
      BY <2>2 DEF CloserCancels
    <3>. QED BY <3>1 DEF SockLeft
  <2>. QED BY <2>1, <2>2 DEF LoopStarts, Binds, LoopCloses, CloserStops, taskVars
<1>4. ASSUME NEW c \in Clients PROVE ClientLeft(c)' <= ClientLeft(c) + 0
  <2>1. UNCHANGED <<HandlerLeft(c), SenderLeft(c), ReceiverLeft(c)>>
    BY <1>1 DEF HandlerLeft, ReceiverLeft, SenderLeft
  <2> DEFINE i == Len(q[c].frames)
  <2>2. /\ HandlerLeft(c) \in Int /\ SenderLeft(c) \in Int /\ ReceiverLeft(c) \in Int
        /\ SockLeft(c) \in Int /\ SockLeft(c)' \in Int /\ i \in Int
    BY <1>0 DEF LeftsTyped
  <2>3. /\ ClientLeft(c) = HandlerLeft(c) + SenderLeft(c) + ReceiverLeft(c) + SockLeft(c) + 3 * i
        /\ ClientLeft(c)' = HandlerLeft(c) + SenderLeft(c) + ReceiverLeft(c) + SockLeft(c)' + 3 * i
    BY <1>1, <2>1 DEF ClientLeft
  <2>. HIDE DEF i
  <2>. QED BY <1>3, <2>2, <2>3
<1>5. sum' <= sum
  <2>1. sum' <= sum + 0 * Cardinality(Clients)
    BY <1>4, AllClients
  <2>2. sum \in Int /\ sum' \in Int /\ Cardinality(Clients) \in Nat
    BY <1>0, CostType DEF LeftsTyped
  <2>. HIDE DEF sum
  <2>. QED BY <2>1, <2>2
<1>6. /\ LoopLeft = ThreadLeft + cost + sum /\ LoopLeft' = ThreadLeft' + cost + sum'
  BY <1>1 DEF LoopLeft, CallCost
<1>7. /\ cost \in Int /\ sum \in Int /\ sum' \in Int /\ ThreadLeft \in Int /\ ThreadLeft' \in Int
  BY <1>0 DEF LeftsTyped
<1>8. ASSUME NEW x \in Int, NEW y \in Int, NEW u \in Int, NEW v \in Int, NEW w \in Int,
             y < x, v <= u
      PROVE  y + w + v < x + w + u
  BY <1>8
<1>. HIDE DEF sum, cost
<1>9. ThreadLeft' + cost + sum' < ThreadLeft + cost + sum
  BY <1>2, <1>5, <1>7, <1>8
<1>. QED BY <1>6, <1>9

(* Whatever it has been asked to do, the loop thread comes to rest: every  *)
(* step of its own leaves it less to do, so that between two inputs of the *)
(* program or of a peer it takes finitely many.                            *)
THEOREM LoopComesToRest ==
    Spec => [](LoopLeft \in Nat) /\ [][LoopThread => LoopLeft' < LoopLeft]_vars
<1>1. SInv => LoopLeft \in Nat
  BY LeftsTypes DEF LeftsTyped
<1>2. SInv /\ SInv' /\ [Next]_vars => [LoopThread => LoopLeft' < LoopLeft]_vars
  BY HandlerWinds, SenderWinds, OtherTasksWind, CallWinds, ThreadWinds DEF LoopThread
<1>3. SInv /\ FramesCounted /\ [Next]_vars => SInv' /\ FramesCounted'
  BY ServerStep
<1>. QED BY <1>1, <1>2, <1>3, ServerInit, PTL DEF Spec
=============================================================================
