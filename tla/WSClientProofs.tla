--------------------------- MODULE WSClientProofs ---------------------------
(***************************************************************************)
(* Proofs about Outbox, the queue with its link and sender, and about the  *)
(* client that sends through it, for every set of frames, every bound,     *)
(* every frame size and any number of sessions.                            *)
(*                                                                         *)
(* First the outbox's own invariants.  Then the client implements its      *)
(* outbound path: every step of the connect task, the sender, the shutdown *)
(* and the program is a step of Outbox or leaves Outbox's variables alone, *)
(* so what is proved of Outbox holds of the client, whatever its           *)
(* connection goes through.  Last the types of the client's own variables, *)
(* the path of a frame from on_next to the loop, and what the connect task *)
(* leaves.                                                                 *)
(***************************************************************************)
EXTENDS WSClient, SendQueueProofs, FiniteSetTheorems

-----------------------------------------------------------------------------
(* The queue's operators.                                                  *)

StOK(s) == s \in [live : BOOLEAN, T : Nat]

(* Uncounting items from the link changes nothing but the backlog.         *)
LEMMA LeftProps ==
    ASSUME NEW r, QueueOK(r), NEW s, NEW toks
    PROVE  /\ QueueOK(Left(r, s, toks))
           /\ Left(r, s, toks).frames = r.frames
           /\ Left(r, s, toks).tokens = r.tokens
           /\ Left(r, s, toks).dropped = r.dropped
           /\ Left(r, s, toks).overflowed = r.overflowed
           /\ Left(r, s, toks).ready = r.ready
BY DEF Left, QueueOK

(* After n rounds of drop_old the n oldest frames, and their tokens, are   *)
(* gone and counted.                                                       *)
LEMMA EvictProps ==
    ASSUME NEW r, QueueOK(r), Len(r.tokens) = Len(r.frames), NEW s,
           NEW n \in 0..Len(r.frames)
    PROVE  LET e == Evict(r, s, n)
           IN  /\ QueueOK(e)
               /\ Len(e.tokens) = Len(e.frames)
               /\ e.frames = Rest(r.frames, n)
               /\ Len(e.frames) = Len(r.frames) - n
               /\ e.dropped = r.dropped + n
               /\ e.overflowed = r.overflowed
<1> DEFINE e0 == [r EXCEPT !.frames = Rest(@, n), !.tokens = Rest(@, n),
                           !.bytes = @ - Bytes(Cut(r.frames, n)),
                           !.dropped = @ + n,
                           !.taken = IF n = 0 THEN @ ELSE r.tokens[n]]
<1>1. /\ r.frames \in Seq(Frames) /\ r.tokens \in Seq(Int)
      /\ r.taken \in Int /\ r.dropped \in Nat
      /\ Len(r.frames) \in Nat
  BY LenProperties DEF QueueOK
<1>2. /\ Rest(r.frames, n) \in Seq(Frames)
      /\ Len(Rest(r.frames, n)) = Len(r.frames) - n
  <2>1. \A i \in (n + 1)..Len(r.frames) : r.frames[i] \in Frames
    BY <1>1, ElementOfSeq
  <2>2. n + 1 \in Int /\ Len(r.frames) \in Int
    BY <1>1
  <2>3. /\ Rest(r.frames, n) \in Seq(Frames)
        /\ Len(Rest(r.frames, n)) = IF n + 1 <= Len(r.frames)
                                    THEN Len(r.frames) - (n + 1) + 1 ELSE 0
    BY <2>1, <2>2, SubSeqProperties DEF Rest
  <2>. QED BY <1>1, <2>3
<1>3. /\ Rest(r.tokens, n) \in Seq(Int)
      /\ Len(Rest(r.tokens, n)) = Len(r.frames) - n
  <2>1. \A i \in (n + 1)..Len(r.tokens) : r.tokens[i] \in Int
    BY <1>1, ElementOfSeq
  <2>. QED BY <1>1, <2>1, SubSeqProperties DEF Rest
<1>4. (IF n = 0 THEN r.taken ELSE r.tokens[n]) \in Int
  BY <1>1, ElementOfSeq
<1>5. /\ QueueOK(e0)
      /\ e0.frames = Rest(r.frames, n) /\ e0.tokens = Rest(r.tokens, n)
      /\ e0.dropped = r.dropped + n /\ e0.overflowed = r.overflowed
  <2> DEFINE fr == Rest(r.frames, n)
             to == Rest(r.tokens, n)
             by == r.bytes - Bytes(Cut(r.frames, n))
             ta == IF n = 0 THEN r.taken ELSE r.tokens[n]
  <2>1. e0 = [r EXCEPT !.frames = fr, !.tokens = to, !.bytes = by,
                       !.dropped = r.dropped + n, !.taken = ta]
    OBVIOUS
  <2>2. fr \in Seq(Frames) /\ to \in Seq(Int) /\ ta \in Int
    BY <1>2, <1>3, <1>4
  <2>3. r.dropped + n \in Nat
    BY <1>1
  <2>. HIDE DEF fr, to, by, ta, e0
  <2>4. /\ QueueOK(e0)
        /\ e0.frames = fr /\ e0.tokens = to
        /\ e0.dropped = r.dropped + n /\ e0.overflowed = r.overflowed
    BY <2>1, <2>2, <2>3 DEF QueueOK
  <2>. QED BY <2>4 DEF fr, to
<1>6. Evict(r, s, n) = Left(e0, s, Cut(r.tokens, n))
  BY DEF Evict
<1>. HIDE DEF e0
<1>. QED BY <1>2, <1>3, <1>5, <1>6, LeftProps

(* The rounds drop_old takes empty the queue at worst, and leave room.     *)
LEMMA RoundsProps ==
    ASSUME NEW r, QueueOK(r), Len(r.tokens) = Len(r.frames), NEW s, NEW size
    PROVE  /\ Rounds(r, s, size) \in 0..Len(r.frames)
           /\ ~Full(Evict(r, s, Rounds(r, s, size)), size)
<1> DEFINE S == {n \in 0..Len(r.frames) : ~Full(Evict(r, s, n), size)}
<1>1. Len(r.frames) \in Nat
  BY LenProperties DEF QueueOK
<1>2. Len(r.frames) \in S
  <2>1. /\ Len(Evict(r, s, Len(r.frames)).frames) = 0
        /\ Evict(r, s, Len(r.frames)).frames \in Seq(Frames)
    BY <1>1, EvictProps DEF QueueOK
  <2>2. Evict(r, s, Len(r.frames)).frames = <<>>
    BY <2>1, EmptySeq
  <2>. QED BY <1>1, <2>1, <2>2, SendQueueAssumption DEF Full, None
<1>3. S \subseteq Nat /\ S # {}
  BY <1>1, <1>2
<1>4. Min(S) \in S
  <2>. HIDE DEF S
  <2>. QED BY <1>3, MinOfNaturals
<1>. QED BY <1>4 DEF Rounds

(* Appending a frame: one more frame, one more token, the event set.       *)
LEMMA PushedProps ==
    ASSUME NEW r, QueueOK(r), Len(r.tokens) = Len(r.frames), NEW s, StOK(s),
           NEW f \in Frames
    PROVE  LET p == Pushed(r, s, f)
           IN  /\ QueueOK(p)
               /\ Len(p.tokens) = Len(p.frames)
               /\ p.frames = Append(r.frames, f)
               /\ Len(p.frames) = Len(r.frames) + 1
               /\ p.dropped = r.dropped
               /\ p.overflowed = r.overflowed
               /\ p.ready
<1>1. /\ r.frames \in Seq(Frames) /\ r.tokens \in Seq(Int)
  BY DEF QueueOK
<1>2. EnterToken(r, s) \in Int
  BY DEF EnterToken, NoToken, StOK
<1>3. /\ Append(r.frames, f) \in Seq(Frames)
      /\ Len(Append(r.frames, f)) = Len(r.frames) + 1
      /\ Append(r.tokens, EnterToken(r, s)) \in Seq(Int)
      /\ Len(Append(r.tokens, EnterToken(r, s))) = Len(r.tokens) + 1
  BY <1>1, <1>2, AppendProperties
<1>. HIDE DEF EnterToken
<1>. QED BY <1>1, <1>3 DEF Pushed, Entered, QueueOK

(* What put() may do: refuse or drop the frame, leaving the queued frames  *)
(* alone, or append it after dropping the n oldest, within the bound.      *)
PutEffect(r, p, f, policy) ==
    \/ /\ p.frames = r.frames
       /\ Full(r, SizeOf(f))
       /\ p.dropped = r.dropped + (IF Refused(r, f, policy) THEN 0 ELSE 1)
       /\ Refused(r, f, policy) => p.ready
       /\ ~Refused(r, f, policy) => p.overflowed = r.overflowed /\ p.ready = r.ready
    \/ /\ ~Refused(r, f, policy)
       /\ \E n \in 0..Len(r.frames) :
             /\ p.frames = Append(Rest(r.frames, n), f)
             /\ Len(p.frames) = Len(r.frames) - n + 1
             /\ p.dropped = r.dropped + n
       /\ Limit # None => Len(p.frames) <= Limit
       /\ p.overflowed = r.overflowed
       /\ p.ready

LEMMA PutProps ==
    ASSUME NEW r, QueueOK(r), Len(r.tokens) = Len(r.frames), NEW s, StOK(s),
           NEW f \in Frames, NEW policy \in Policies
    PROVE  LET p == Put(r, s, f, policy)
           IN  /\ QueueOK(p)
               /\ Len(p.tokens) = Len(p.frames)
               /\ PutEffect(r, p, f, policy)
<1> DEFINE p == Put(r, s, f, policy)
<1> SUFFICES QueueOK(p) /\ Len(p.tokens) = Len(p.frames) /\ PutEffect(r, p, f, policy)
  OBVIOUS
<1>1. /\ r.frames \in Seq(Frames) /\ r.tokens \in Seq(Int)
      /\ r.dropped \in Nat /\ Len(r.frames) \in Nat
  BY LenProperties DEF QueueOK
<1>2. CASE ~Full(r, SizeOf(f))
  <2>1. p = Pushed(r, s, f)
    BY <1>2 DEF Put
  <2>2. Rest(r.frames, 0) = r.frames
    BY <1>1, SubSeqFull DEF Rest
  <2>3. Limit # None => Len(r.frames) + 1 <= Limit
    BY <1>1, <1>2, SendQueueAssumption DEF Full, None
  <2>4. PutEffect(r, p, f, policy)
    <3>1. /\ p.frames = Append(Rest(r.frames, 0), f)
          /\ Len(p.frames) = Len(r.frames) - 0 + 1
          /\ p.dropped = r.dropped + 0
      BY <2>1, <2>2, <1>1, PushedProps
    <3>2. /\ Limit # None => Len(p.frames) <= Limit
          /\ p.overflowed = r.overflowed
          /\ p.ready
      BY <2>1, <2>3, <1>1, PushedProps
    <3>3. ~Refused(r, f, policy)
      BY <1>2 DEF Refused
    <3>. HIDE DEF p
    <3>4. \E n \in 0..Len(r.frames) :
             /\ p.frames = Append(Rest(r.frames, n), f)
             /\ Len(p.frames) = Len(r.frames) - n + 1
             /\ p.dropped = r.dropped + n
      <4>1. 0 \in 0..Len(r.frames)
        BY <1>1
      <4>. QED BY <3>1, <4>1
    <3>. QED BY <3>2, <3>3, <3>4 DEF PutEffect
  <2>5. QueueOK(p) /\ Len(p.tokens) = Len(p.frames)
    BY <2>1, PushedProps
  <2>. QED BY <2>4, <2>5
<1>3. CASE Full(r, SizeOf(f)) /\ policy = "drop_new"
  <2>1. p = [r EXCEPT !.dropped = @ + 1]
    BY <1>3 DEF Put
  <2>2. QueueOK(p)
    BY <2>1, <1>1 DEF QueueOK
  <2>3. /\ p.frames = r.frames /\ p.tokens = r.tokens /\ p.dropped = r.dropped + 1
        /\ p.overflowed = r.overflowed /\ p.ready = r.ready
    BY <2>1 DEF QueueOK
  <2>4. ~Refused(r, f, policy)
    BY <1>3 DEF Refused
  <2>. QED BY <1>3, <2>2, <2>3, <2>4 DEF PutEffect
<1>4. CASE Full(r, SizeOf(f)) /\ policy = "disconnect"
  <2>1. p = [r EXCEPT !.overflowed = TRUE, !.ready = TRUE]
    BY <1>4 DEF Put
  <2>2. QueueOK(p)
    BY <2>1, <1>1 DEF QueueOK
  <2>3. /\ p.frames = r.frames /\ p.tokens = r.tokens /\ p.dropped = r.dropped
        /\ p.ready
    BY <2>1 DEF QueueOK
  <2>4. Refused(r, f, policy)
    BY <1>4 DEF Refused
  <2>. QED BY <1>1, <1>4, <2>2, <2>3, <2>4 DEF PutEffect
<1>5. CASE Full(r, SizeOf(f)) /\ policy = "drop_old"
  <2> DEFINE n == Rounds(r, s, SizeOf(f))
             e == Evict(r, s, n)
  <2>1. p = Pushed(e, s, f)
    BY <1>5 DEF Put
  <2>2. n \in 0..Len(r.frames) /\ ~Full(e, SizeOf(f))
    BY RoundsProps
  <2>. HIDE DEF n
  <2>3. /\ QueueOK(e) /\ Len(e.tokens) = Len(e.frames)
        /\ e.frames = Rest(r.frames, n)
        /\ Len(e.frames) = Len(r.frames) - n
        /\ e.dropped = r.dropped + n
        /\ e.overflowed = r.overflowed
    BY <2>2, EvictProps
  <2>. HIDE DEF e
  <2>4. /\ QueueOK(p) /\ Len(p.tokens) = Len(p.frames)
        /\ p.frames = Append(Rest(r.frames, n), f)
        /\ Len(p.frames) = Len(r.frames) - n + 1
        /\ p.dropped = r.dropped + n
        /\ p.overflowed = r.overflowed
        /\ p.ready
    BY <2>1, <2>3, PushedProps
  <2>5. Limit # None => Len(e.frames) + 1 <= Limit
    BY <1>1, <2>2, <2>3, SendQueueAssumption DEF Full, None
  <2>6. ~Refused(r, f, policy)
    BY <1>5 DEF Refused
  <2>7. Limit # None => Len(p.frames) <= Limit
    BY <2>3, <2>4, <2>5
  <2>. HIDE DEF p
  <2>. QED BY <2>2, <2>4, <2>6, <2>7 DEF PutEffect
<1>. HIDE DEF p
<1>. QED BY <1>2, <1>3, <1>4, <1>5 DEF Policies

(* Taking the oldest frame, and giving it back at the front.               *)
LEMMA TakeProps ==
    ASSUME NEW r, QueueOK(r), Len(r.tokens) = Len(r.frames), r.frames # <<>>
    PROVE  LET t == Take(r)
           IN  /\ QueueOK(t)
               /\ Len(t.tokens) = Len(t.frames)
               /\ t.frames = Tail(r.frames)
               /\ Head(r.frames) \in Frames /\ Head(r.frames) = r.frames[1]
               /\ Head(r.tokens) \in Int
               /\ Len(r.frames) \in Nat \ {0}
               /\ Len(t.frames) = Len(r.frames) - 1
               /\ \A i \in 1..Len(t.frames) : t.frames[i] = r.frames[i + 1]
               /\ t.dropped = r.dropped
               /\ t.overflowed = r.overflowed
<1>1. /\ r.frames \in Seq(Frames) /\ r.tokens \in Seq(Int)
      /\ Len(r.frames) \in Nat \ {0} /\ r.tokens # <<>>
  BY EmptySeq, LenProperties DEF QueueOK
<1>2. /\ Tail(r.frames) \in Seq(Frames) /\ Tail(r.tokens) \in Seq(Int)
      /\ Len(Tail(r.frames)) = Len(r.frames) - 1
      /\ Len(Tail(r.tokens)) = Len(r.tokens) - 1
      /\ Head(r.frames) \in Frames /\ Head(r.tokens) \in Int
      /\ \A i \in 1..Len(Tail(r.frames)) : Tail(r.frames)[i] = r.frames[i + 1]
  BY <1>1, HeadTailProperties
<1>3. Head(r.frames) = r.frames[1]
  BY <1>1
<1>. QED BY <1>1, <1>2, <1>3 DEF Take, QueueOK

LEMMA KeepProps ==
    ASSUME NEW r, QueueOK(r), Len(r.tokens) = Len(r.frames), r.frames # <<>>
    PROVE  LET k == Unget(Take(r), Head(r.frames))
           IN  /\ QueueOK(k)
               /\ Len(k.tokens) = Len(k.frames)
               /\ k.frames = r.frames
               /\ k.dropped = r.dropped
<1> DEFINE t == Take(r)
           k == Unget(t, Head(r.frames))
<1>1. /\ QueueOK(t) /\ Len(t.tokens) = Len(t.frames)
      /\ t.frames = Tail(r.frames) /\ t.dropped = r.dropped
      /\ Head(r.frames) \in Frames
  BY TakeProps
<1>2. t.taken \in Int
  BY <1>1 DEF QueueOK
<1>3. r.frames \in Seq(Frames)
  BY DEF QueueOK
<1>4. /\ <<Head(r.frames)>> \o t.frames \in Seq(Frames)
      /\ Len(<<Head(r.frames)>> \o t.frames) = 1 + Len(t.frames)
      /\ <<Head(r.frames)>> \o t.frames = r.frames
  <2>1. /\ t.frames \in Seq(Frames)
        /\ <<Head(r.frames)>> \in Seq(Frames) /\ Len(<<Head(r.frames)>>) = 1
    BY <1>1 DEF QueueOK
  <2>. HIDE DEF t
  <2>2. <<Head(r.frames)>> \o Tail(r.frames) = r.frames
    BY <1>3
  <2>. QED BY <1>1, <2>1, <2>2, ConcatProperties
<1>5. /\ <<t.taken>> \o t.tokens \in Seq(Int)
      /\ Len(<<t.taken>> \o t.tokens) = 1 + Len(t.tokens)
  <2>1. /\ t.tokens \in Seq(Int)
        /\ <<t.taken>> \in Seq(Int) /\ Len(<<t.taken>>) = 1
    BY <1>1, <1>2 DEF QueueOK
  <2>. HIDE DEF t
  <2>. QED BY <2>1, ConcatProperties
<1>6. NoToken \in Int
  BY DEF NoToken
<1> SUFFICES /\ QueueOK(k) /\ Len(k.tokens) = Len(k.frames)
             /\ k.frames = r.frames /\ k.dropped = r.dropped
  OBVIOUS
<1> DEFINE fr == <<Head(r.frames)>> \o t.frames
           to == <<t.taken>> \o t.tokens
<1>7. k = [t EXCEPT !.frames = fr, !.tokens = to,
                    !.bytes = @ + SizeOf(Head(r.frames)), !.taken = NoToken,
                    !.ready = TRUE]
  BY DEF Unget
<1>8. /\ fr \in Seq(Frames) /\ to \in Seq(Int)
      /\ Len(fr) = 1 + Len(t.frames) /\ Len(to) = 1 + Len(t.tokens)
      /\ fr = r.frames
  BY <1>4, <1>5
<1>. HIDE DEF t, fr, to, k
<1>. QED BY <1>1, <1>6, <1>7, <1>8 DEF QueueOK

(* reset() empties the queue and forgets the overflow.                     *)
LEMMA ResetProps ==
    ASSUME NEW r, QueueOK(r), NEW s
    PROVE  /\ QueueOK(Reset(r, s))
           /\ Reset(r, s).frames = <<>> /\ Reset(r, s).tokens = <<>>
           /\ Reset(r, s).dropped = r.dropped
           /\ ~Reset(r, s).overflowed
<1> DEFINE l == Left(r, s, r.tokens)
           ta == IF r.tokens = <<>> THEN l.taken ELSE r.tokens[Len(r.tokens)]
<1>1. QueueOK(l) /\ l.dropped = r.dropped
  BY LeftProps
<1>2. ta \in Int
  <2>1. r.tokens \in Seq(Int) /\ l.taken \in Int
    BY <1>1 DEF QueueOK
  <2>2. r.tokens # <<>> => Len(r.tokens) \in 1..Len(r.tokens)
    BY <2>1, EmptySeq
  <2>. QED BY <2>1, <2>2, ElementOfSeq
<1>3. Reset(r, s) = [l EXCEPT !.frames = <<>>, !.tokens = <<>>, !.bytes = 0,
                              !.overflowed = FALSE, !.taken = ta]
  BY DEF Reset
<1>4. <<>> \in Seq(Frames) /\ <<>> \in Seq(Int)
  OBVIOUS
<1>. HIDE DEF l, ta
<1>. QED BY <1>1, <1>2, <1>3, <1>4 DEF QueueOK

(* bind() gives every queued frame a new token and touches no frame.       *)
LEMMA BindProps ==
    ASSUME NEW r, QueueOK(r), NEW s, StOK(s), NEW b \in BOOLEAN
    PROVE  /\ QueueOK(Bind(r, s, b))
           /\ Len(Bind(r, s, b).tokens) = Len(Bind(r, s, b).frames)
           /\ Bind(r, s, b).frames = r.frames
           /\ Bind(r, s, b).dropped = r.dropped
           /\ Bind(r, s, b).overflowed = r.overflowed
           /\ Bind(r, s, b).ready = r.ready
<1> DEFINE c == [r EXCEPT !.bound = b, !.backlog = 0, !.taken = NoToken]
           to == [i \in DOMAIN r.frames |-> EnterToken(c, s)]
<1>1. r.frames \in Seq(Frames) /\ Len(r.frames) \in Nat
      /\ DOMAIN r.frames = 1..Len(r.frames)
  BY LenProperties DEF QueueOK
<1>2. EnterToken(c, s) \in Int
  BY DEF EnterToken, NoToken, StOK
<1>3. to \in Seq(Int) /\ Len(to) = Len(r.frames)
  <2>. HIDE DEF c
  <2>. QED BY <1>1, <1>2
<1>4. Bind(r, s, b) = Entered([c EXCEPT !.tokens = to], s, Len(r.frames))
  BY DEF Bind
<1>5. QueueOK(c) /\ c.frames = r.frames /\ c.dropped = r.dropped
      /\ c.overflowed = r.overflowed /\ c.ready = r.ready
  <2>1. NoToken \in Int
    BY DEF NoToken
  <2>. QED BY <2>1 DEF QueueOK
<1>. HIDE DEF c, to
<1>. QED BY <1>3, <1>4, <1>5 DEF Entered, QueueOK

-----------------------------------------------------------------------------
(* Types, alignment and the frame in hand: the invariant the others use.   *)

HeldOK == sender = "send" => held.frame \in Frames

TInv == OutTypeOK /\ Aligned /\ HeldOK

LEMMA PolicyNowOK == OutTypeOK => PolicyNow \in Policies
BY OutboxAssumption DEF OutTypeOK, QueueOK, PolicyNow, Policies

LEMMA TInvInit == OutInit => TInv
<1> SUFFICES ASSUME OutInit PROVE TInv
  OBVIOUS
<1>1. PICK overflow \in Overflows : q = EmptyQueue(overflow)
  BY DEF OutInit
<1>2. QueueOK(q) /\ Aligned
  BY <1>1 DEF QueueOK, Aligned, EmptyQueue, NoToken
<1>0. NoToken \in Int
  BY DEF NoToken
<1>3. /\ st \in [live : BOOLEAN, T : Nat]
      /\ up \in BOOLEAN
      /\ sock \in {"none", "open", "closed"}
      /\ sender \in SenderStates
      /\ held \in [frame : Frames \union {NoFrame}, token : Int]
      /\ last \in Frames \union {NoFrame}
      /\ accepted \in Nat /\ acked \in Nat /\ counted \in Nat
      /\ delivered \in Seq(Frames)
  <2>1. st \in [live : BOOLEAN, T : Nat]
    BY DEF OutInit
  <2>2. held \in [frame : Frames \union {NoFrame}, token : Int]
    BY <1>0 DEF OutInit, NotHeld
  <2>3. /\ up \in BOOLEAN
        /\ sock \in {"none", "open", "closed"}
        /\ sender \in SenderStates
        /\ last \in Frames \union {NoFrame}
        /\ accepted \in Nat /\ acked \in Nat /\ counted \in Nat
    BY DEF OutInit, SenderStates
  <2>4. delivered \in Seq(Frames)
    BY DEF OutInit
  <2>. QED BY <2>1, <2>2, <2>3, <2>4
<1>4. HeldOK
  BY DEF OutInit, HeldOK
<1>. QED BY <1>2, <1>3, <1>4 DEF TInv, OutTypeOK

(* From a queue r the sender runs to its next await: it holds the first    *)
(* frame, or leaves every frame where it is, or discards them all.         *)
GetEffect(r) ==
    /\ sender' \in {"send", "wait", "ended"}
    /\ sender' = "wait" => MustWait(q')
    /\ \/ /\ sender' = "send" /\ counted' = counted /\ r.frames # <<>>
          /\ q'.frames = Tail(r.frames) /\ held'.frame = Head(r.frames)
          /\ Len(q'.frames) = Len(r.frames) - 1
       \/ /\ sender' # "send" /\ counted' = counted
          /\ q'.frames = r.frames
       \/ /\ sender' # "send" /\ counted' = counted + Len(r.frames)
          /\ q'.frames = <<>>

GetTyped ==
    /\ QueueOK(q') /\ Len(q'.tokens) = Len(q'.frames)
    /\ held' \in [frame : Frames \union {NoFrame}, token : Int]
    /\ counted' \in Nat
    /\ sender' = "send" => held'.frame \in Frames

LEMMA GetFrameProps ==
    ASSUME NEW r, QueueOK(r), Len(r.tokens) = Len(r.frames), counted \in Nat,
           GetFrame(r)
    PROVE  GetTyped /\ GetEffect(r)
<1>0. NotHeld \in [frame : Frames \union {NoFrame}, token : Int]
  BY DEF NotHeld, NoToken
<1>1. CASE SendFirst(r)
  <2>1. r.frames # <<>> /\ q' = Take(r)
    BY <1>1 DEF SendFirst, CanTake
  <2>2. /\ QueueOK(q') /\ Len(q'.tokens) = Len(q'.frames)
        /\ q'.frames = Tail(r.frames) /\ Len(q'.frames) = Len(r.frames) - 1
        /\ Head(r.frames) \in Frames /\ Head(r.tokens) \in Int
    BY <2>1, TakeProps
  <2>. QED BY <1>1, <2>1, <2>2 DEF SendFirst, GetTyped, GetEffect
<1>2. CASE KeepFirst(r)
  <2>1. r.frames # <<>> /\ q' = Unget(Take(r), Head(r.frames))
    BY <1>2 DEF KeepFirst, CanTake
  <2>2. QueueOK(q') /\ Len(q'.tokens) = Len(q'.frames) /\ q'.frames = r.frames
    BY <2>1, KeepProps
  <2>. QED BY <1>0, <1>2, <2>2 DEF KeepFirst, GetTyped, GetEffect
<1>3. CASE WaitForFrame(r)
  <2>1. /\ QueueOK(q') /\ Len(q'.tokens) = Len(q'.frames) /\ q'.frames = r.frames
        /\ MustWait(q')
    BY <1>3 DEF WaitForFrame, Wait, MustWait, QueueOK
  <2>. QED BY <1>0, <1>3, <2>1 DEF WaitForFrame, GetTyped, GetEffect
<1>4. CASE StopOnOverflow(r)
  <2>1. /\ QueueOK(q') /\ q'.frames = <<>> /\ q'.tokens = <<>>
    BY <1>4, ResetProps DEF StopOnOverflow
  <2>2. Len(r.frames) \in Nat
    BY LenProperties DEF QueueOK
  <2>. QED BY <1>0, <1>4, <2>1, <2>2 DEF StopOnOverflow, GetTyped, GetEffect
<1>. QED BY <1>1, <1>2, <1>3, <1>4 DEF GetFrame

LEMMA SenderRuns ==
    ASSUME TInv, Greeted \/ Woken \/ FrameSent
    PROVE  GetTyped /\ GetEffect(q)
<1>0. QueueOK(q) /\ Len(q.tokens) = Len(q.frames) /\ counted \in Nat
  BY DEF TInv, OutTypeOK, Aligned
<1>1. CASE Greeted \/ Woken
  BY <1>0, <1>1, GetFrameProps DEF Greeted, Woken
<1>2. CASE FrameSent
  <2> DEFINE r == Sent(q, st)
  <2>1. /\ QueueOK(r) /\ r.frames = q.frames /\ r.tokens = q.tokens
        /\ GetFrame(r)
    BY <1>0, <1>2, LeftProps DEF FrameSent, Sent
  <2>. HIDE DEF r
  <2>2. GetTyped /\ GetEffect(r)
    BY <1>0, <2>1, GetFrameProps
  <2>. QED BY <2>1, <2>2 DEF GetEffect
<1>. QED BY <1>1, <1>2

LEMMA TInvStep == TInv /\ [OutNext]_outVars => TInv'
<1> SUFFICES ASSUME TInv, [OutNext]_outVars PROVE TInv'
  OBVIOUS
<1>0. /\ QueueOK(q) /\ Len(q.tokens) = Len(q.frames)
      /\ StOK(st)
      /\ Len(q.frames) \in Nat /\ q.dropped \in Nat
  BY LenProperties DEF TInv, OutTypeOK, Aligned, StOK, QueueOK
<1> USE DEF TInv, HeldOK, Aligned
<1>1. ASSUME NEW f \in Frames, Enqueue(f) PROVE TInv'
  <2>1. CASE q.overflowed
    BY <1>1, <2>1 DEF Enqueue, OutTypeOK, QueueOK
  <2>2. CASE ~q.overflowed
    <3> DEFINE p == Put(q, st, f, PolicyNow)
    <3>1. /\ QueueOK(p) /\ Len(p.tokens) = Len(p.frames)
          /\ PutEffect(q, p, f, PolicyNow)
      BY <1>0, PolicyNowOK, PutProps
    <3>2. /\ q' = p
          /\ counted' = counted + (IF Refused(q, f, PolicyNow) THEN 1
                                   ELSE p.dropped - q.dropped)
      BY <1>1, <2>2 DEF Enqueue
    <3>. HIDE DEF p
    <3>3. (IF Refused(q, f, PolicyNow) THEN 1 ELSE p.dropped - q.dropped) \in Nat
      BY <1>0, <3>1 DEF PutEffect
    <3>4. counted' \in Nat
      BY <3>2, <3>3 DEF OutTypeOK
    <3>. QED BY <1>1, <3>1, <3>2, <3>4 DEF Enqueue, OutTypeOK
  <2>. QED BY <2>1, <2>2
<1>2. ASSUME Attach PROVE TInv'
  <2> DEFINE q0 == IF q.overflowed THEN Reset(q, st) ELSE q
  <2>1. QueueOK(q0)
    BY <1>0, ResetProps
  <2>2. q' = Bind(q0, st, TRUE)
    BY <1>2 DEF Attach
  <2>. HIDE DEF q0
  <2>3. QueueOK(q') /\ Len(q'.tokens) = Len(q'.frames)
    BY <1>0, <2>1, <2>2, BindProps
  <2>4. counted' \in Nat
    BY <1>0, <1>2 DEF Attach, OutTypeOK
  <2>. QED BY <1>2, <2>3, <2>4 DEF Attach, OutTypeOK, SenderStates
<1>3. ASSUME Detach PROVE TInv'
  <2>1. QueueOK(q') /\ Len(q'.tokens) = Len(q'.frames)
    BY <1>0, <1>3, BindProps DEF Detach
  <2>. QED BY <1>3, <2>1 DEF Detach, OutTypeOK, SenderStates
<1>4. ASSUME SocketCloses PROVE TInv'
  BY <1>4 DEF SocketCloses, OutTypeOK
<1>5. ASSUME Greeted \/ Woken PROVE TInv'
  <2>1. GetTyped /\ sender' \in SenderStates
    BY <1>5, SenderRuns DEF GetEffect, SenderStates
  <2>. QED BY <1>5, <2>1 DEF Greeted, Woken, GetTyped, OutTypeOK
<1>6. ASSUME FrameSent PROVE TInv'
  <2>1. GetTyped /\ sender' \in SenderStates
    BY <1>6, SenderRuns DEF GetEffect, SenderStates
  <2>2. Append(delivered, held.frame) \in Seq(Frames)
    BY <1>6, AppendProperties DEF FrameSent, OutTypeOK
  <2>. QED BY <1>6, <2>1, <2>2 DEF FrameSent, GetTyped, OutTypeOK
<1>7. ASSUME Abandon PROVE TInv'
  <2>1. QueueOK(q') /\ Len(q'.tokens) = Len(q'.frames)
    BY <1>0, <1>7, BindProps DEF Abandon
  <2>. QED BY <1>7, <2>1 DEF Abandon, OutTypeOK
<1>8. ASSUME Forget PROVE TInv'
  BY <1>8 DEF Forget, OutTypeOK
<1>9. ASSUME FrameLost PROVE TInv'
  <2>1. QueueOK(q') /\ Len(q'.tokens) = Len(q'.frames)
    BY <1>0, <1>9, LeftProps DEF FrameLost, LostTaken
  <2>2. delivered \in Seq(Frames) /\ held.frame \in Frames
    BY <1>9 DEF FrameLost, OutTypeOK
  <2>3. Append(delivered, held.frame) \in Seq(Frames)
    BY <2>2, AppendProperties
  <2>4. delivered' \in Seq(Frames)
    BY <1>9, <2>2, <2>3 DEF FrameLost
  <2>. QED BY <1>9, <2>1, <2>4 DEF FrameLost, OutTypeOK, SenderStates, NotHeld, NoToken
<1>10. ASSUME SenderStops PROVE TInv'
  BY <1>10 DEF SenderStops, OutTypeOK, SenderStates
<1>11. ASSUME SessionStarts PROVE TInv'
  <2>1. QueueOK(q') /\ Len(q'.tokens) = Len(q'.frames)
    BY <1>0, <1>11 DEF SessionStarts, QueueOK
  <2>. QED BY <1>11, <2>1 DEF SessionStarts, OutTypeOK
<1>12. ASSUME SessionEnds PROVE TInv'
  BY <1>12 DEF SessionEnds, OutTypeOK
<1>13. ASSUME UNCHANGED outVars PROVE TInv'
  BY <1>13 DEF outVars, OutTypeOK, QueueOK
<1>. QED
  BY <1>1, <1>2, <1>3, <1>4, <1>5, <1>6, <1>7, <1>8, <1>9, <1>10, <1>11, <1>12,
     <1>13 DEF OutNext

(* Type correctness: every variable keeps its type, for any bounds, frame  *)
(* sizes and policies.                                                     *)
THEOREM TypeCorrect == OutSpec => []OutTypeOK
<1>1. TInv => OutTypeOK
  BY DEF TInv
<1>. QED BY <1>1, TInvInit, TInvStep, PTL DEF OutSpec

(* The tokens stay aligned with the frames.                                *)
THEOREM TokensAligned == OutSpec => []Aligned
<1>1. TInv => Aligned
  BY DEF TInv
<1>. QED BY <1>1, TInvInit, TInvStep, PTL DEF OutSpec

-----------------------------------------------------------------------------
(* What each step does to the queued frames and the counters, once for the *)
(* invariants below.                                                       *)

LEMMA EnqueueFrames ==
    ASSUME TInv, NEW f \in Frames, Enqueue(f)
    PROVE  \/ /\ q'.frames = q.frames
              /\ counted' = counted + 1
              /\ q.overflowed \/ Full(q, SizeOf(f))
              /\ q'.ready \/ (q'.overflowed = q.overflowed /\ q'.ready = q.ready)
           \/ /\ ~q.overflowed
              /\ Limit # None => Len(q'.frames) <= Limit
              /\ q'.ready
              /\ \E n \in 0..Len(q.frames) :
                    /\ q'.frames = Append(Rest(q.frames, n), f)
                    /\ Len(q'.frames) = Len(q.frames) - n + 1
                    /\ counted' = counted + n
<1>1. CASE q.overflowed
  BY <1>1 DEF Enqueue
<1>2. CASE ~q.overflowed
  <2> DEFINE p == Put(q, st, f, PolicyNow)
  <2>1. PutEffect(q, p, f, PolicyNow)
    BY PolicyNowOK, PutProps DEF TInv, OutTypeOK, Aligned, StOK
  <2>2. /\ q' = p
        /\ counted' = counted + (IF Refused(q, f, PolicyNow) THEN 1
                                 ELSE p.dropped - q.dropped)
    BY <1>2 DEF Enqueue
  <2>3. q.dropped \in Nat /\ counted \in Nat /\ Len(q.frames) \in Nat
    BY LenProperties DEF TInv, OutTypeOK, QueueOK
  <2>. HIDE DEF p
  <2>4. CASE /\ p.frames = q.frames
             /\ Full(q, SizeOf(f))
             /\ p.dropped = q.dropped + (IF Refused(q, f, PolicyNow) THEN 0 ELSE 1)
             /\ Refused(q, f, PolicyNow) => p.ready
             /\ ~Refused(q, f, PolicyNow) => p.overflowed = q.overflowed /\ p.ready = q.ready
    <3>1. counted' = counted + 1
      BY <2>2, <2>3, <2>4
    <3>. QED BY <3>1, <2>2, <2>4
  <2>5. CASE /\ ~Refused(q, f, PolicyNow)
             /\ \E n \in 0..Len(q.frames) :
                  /\ p.frames = Append(Rest(q.frames, n), f)
                  /\ Len(p.frames) = Len(q.frames) - n + 1
                  /\ p.dropped = q.dropped + n
             /\ Limit # None => Len(p.frames) <= Limit
             /\ p.overflowed = q.overflowed
             /\ p.ready
    <3>1. PICK n \in 0..Len(q.frames) :
                  /\ p.frames = Append(Rest(q.frames, n), f)
                  /\ Len(p.frames) = Len(q.frames) - n + 1
                  /\ p.dropped = q.dropped + n
      BY <2>5
    <3>2. counted' = counted + n
      BY <2>2, <2>3, <2>5, <3>1
    <3>. QED BY <1>2, <2>2, <2>5, <3>1, <3>2
  <2>. QED BY <2>1, <2>4, <2>5 DEF PutEffect
<1>. QED BY <1>1, <1>2

LEMMA AttachFrames ==
    ASSUME TInv, Attach
    PROVE  q'.frames = q.frames \/ q'.frames = <<>>
<1>0. QueueOK(q) /\ Len(q.tokens) = Len(q.frames) /\ StOK(st)
  BY DEF TInv, OutTypeOK, Aligned, StOK
<1>1. CASE q.overflowed
  <2>1. /\ QueueOK(Reset(q, st)) /\ Reset(q, st).frames = <<>>
        /\ q' = Bind(Reset(q, st), st, TRUE)
    BY <1>0, <1>1, ResetProps DEF Attach
  <2>. QED BY <1>0, <2>1, BindProps
<1>2. CASE ~q.overflowed
  <2>1. q' = Bind(q, st, TRUE)
    BY <1>2 DEF Attach
  <2>. QED BY <1>0, <2>1, BindProps
<1>. QED BY <1>1, <1>2

(* The other steps only remove frames: all of them, the oldest, or none.   *)
LEMMA OtherFrames ==
    ASSUME TInv, OutNext, \A f \in Frames : ~Enqueue(f)
    PROVE  \/ q'.frames = q.frames
           \/ q'.frames = <<>>
           \/ /\ q.frames # <<>> /\ q'.frames = Tail(q.frames)
              /\ Len(q'.frames) = Len(q.frames) - 1
<1>0. /\ QueueOK(q) /\ Len(q.tokens) = Len(q.frames) /\ StOK(st)
  BY DEF TInv, OutTypeOK, Aligned, StOK
<1>1. CASE Attach
  BY <1>1, AttachFrames
<1>2. CASE Detach \/ Abandon
  <2>1. q' = Bind(q, st, FALSE)
    BY <1>2 DEF Detach, Abandon
  <2>. QED BY <1>0, <2>1, BindProps
<1>3. CASE SocketCloses \/ Forget \/ SenderStops \/ SessionEnds
  BY <1>3 DEF SocketCloses, Forget, SenderStops, SessionEnds
<1>4. CASE Greeted \/ Woken \/ FrameSent
  BY <1>4, SenderRuns DEF GetEffect
<1>5. CASE FrameLost
  BY <1>0, <1>5, LeftProps DEF FrameLost, LostTaken
<1>6. CASE SessionStarts
  BY <1>0, <1>6 DEF SessionStarts, QueueOK
<1>. QED BY <1>1, <1>2, <1>3, <1>4, <1>5, <1>6 DEF OutNext

(* The frames bound: send_queue is never exceeded, whatever the policies,  *)
(* reconnections and given-back frames.                                    *)
THEOREM QueueBounded == OutSpec => []FramesBound
<1>1. OutInit => FramesBound
  <2> SUFFICES ASSUME OutInit PROVE FramesBound
    OBVIOUS
  <2>1. q.frames = <<>>
    BY DEF OutInit, EmptyQueue
  <2>. QED BY <2>1, SendQueueAssumption DEF FramesBound, None
<1>2. TInv /\ FramesBound /\ [OutNext]_outVars => FramesBound'
  <2> SUFFICES ASSUME TInv, FramesBound, [OutNext]_outVars, Limit # None
               PROVE  Len(q'.frames) <= Limit
    BY DEF FramesBound
  <2>0. Limit \in Nat /\ Len(q.frames) \in Nat /\ Len(q.frames) <= Limit
    BY SendQueueAssumption, LenProperties DEF TInv, OutTypeOK, QueueOK, FramesBound
  <2>1. CASE \E f \in Frames : Enqueue(f)
    BY <2>0, <2>1, EnqueueFrames
  <2>2. CASE OutNext /\ \A f \in Frames : ~Enqueue(f)
    <3>1. \/ q'.frames = q.frames
          \/ q'.frames = <<>>
          \/ Len(q'.frames) = Len(q.frames) - 1
      BY <2>2, OtherFrames
    <3>2. Len(<<>>) = 0
      OBVIOUS
    <3>. QED BY <2>0, <3>1, <3>2
  <2>3. CASE UNCHANGED outVars
    BY <2>0, <2>3 DEF outVars
  <2>. QED BY <2>1, <2>2, <2>3
<1>. QED BY <1>1, <1>2, TInvInit, TInvStep, PTL DEF OutSpec

(* Conservation: whatever happens to a frame handed to the client, it is   *)
(* sent, counted as dropped, still queued, or held by the sender.          *)
THEOREM EveryFrameAccounted == OutSpec => []Accounted
<1>1. OutInit => Accounted
  BY DEF OutInit, EmptyQueue, Accounted, InFlight
<1>2. TInv /\ Accounted /\ [OutNext]_outVars => Accounted'
  <2> SUFFICES ASSUME TInv, Accounted, [OutNext]_outVars PROVE Accounted'
    OBVIOUS
  <2>0. /\ QueueOK(q) /\ Len(q.tokens) = Len(q.frames) /\ StOK(st)
        /\ Len(q.frames) \in Nat
        /\ accepted \in Nat /\ acked \in Nat /\ counted \in Nat
        /\ accepted = acked + counted + Len(q.frames) + InFlight
        /\ InFlight \in Nat
    BY LenProperties DEF TInv, OutTypeOK, Aligned, StOK, QueueOK, Accounted, InFlight
  <2> DEFINE n == Len(q.frames)
             m == Len(q'.frames)
             Goal == accepted' = acked' + counted' + m + InFlight'
  <2> SUFFICES Goal
    BY DEF Accounted
  <2>a. /\ n \in Nat /\ InFlight \in Nat
        /\ accepted \in Nat /\ acked \in Nat /\ counted \in Nat
        /\ accepted = acked + counted + n + InFlight
    BY <2>0
  <2>1. ASSUME NEW f \in Frames, Enqueue(f) PROVE Goal
    <3>1. accepted' = accepted + 1 /\ acked' = acked /\ InFlight' = InFlight
      BY <2>1 DEF Enqueue, InFlight
    <3>2. \/ m = n /\ counted' = counted + 1
          \/ \E k \in 0..n : m = n - k + 1 /\ counted' = counted + k
      BY <2>1, EnqueueFrames
    <3>. HIDE DEF n, m
    <3>. QED BY <2>a, <3>1, <3>2
  <2>2. ASSUME Attach PROVE Goal
    <3>1. /\ accepted' = accepted /\ acked' = acked
          /\ InFlight = 0 /\ InFlight' = 0
      BY <2>2 DEF Attach, InFlight
    <3>2. CASE q.overflowed
      <4> DEFINE r == Reset(q, st)
      <4>1. QueueOK(r) /\ r.frames = <<>>
        BY <2>0, ResetProps
      <4>2. q' = Bind(r, st, TRUE) /\ counted' = counted + n
        BY <2>2, <3>2 DEF Attach
      <4>. HIDE DEF r
      <4>3. q'.frames = <<>>
        BY <2>0, <4>1, <4>2, BindProps
      <4>4. m = 0
        BY <4>3
      <4>. HIDE DEF n, m
      <4>. QED BY <2>a, <3>1, <4>2, <4>4
    <3>3. CASE ~q.overflowed
      <4>1. q' = Bind(q, st, TRUE) /\ counted' = counted + 0
        BY <2>2, <3>3 DEF Attach
      <4>2. m = n
        BY <2>0, <4>1, BindProps
      <4>. HIDE DEF n, m
      <4>. QED BY <2>a, <3>1, <4>1, <4>2
    <3>. QED BY <3>2, <3>3
  <2>3. ASSUME Greeted \/ Woken PROVE Goal
    <3>1. InFlight = 0 /\ accepted' = accepted /\ acked' = acked
      BY <2>3 DEF Greeted, Woken, InFlight
    <3>2. \/ InFlight' = 1 /\ counted' = counted /\ m = n - 1
          \/ InFlight' = 0 /\ counted' = counted /\ m = n
          \/ InFlight' = 0 /\ counted' = counted + n /\ m = 0
      BY <2>3, SenderRuns DEF GetEffect, InFlight
    <3>. HIDE DEF n, m
    <3>. QED BY <2>a, <3>1, <3>2
  <2>4. ASSUME FrameSent PROVE Goal
    <3>1. InFlight = 1 /\ accepted' = accepted /\ acked' = acked + 1
      BY <2>4 DEF FrameSent, InFlight
    <3>2. \/ InFlight' = 1 /\ counted' = counted /\ m = n - 1
          \/ InFlight' = 0 /\ counted' = counted /\ m = n
          \/ InFlight' = 0 /\ counted' = counted + n /\ m = 0
      BY <2>4, SenderRuns DEF GetEffect, InFlight
    <3>. HIDE DEF n, m
    <3>3. accepted = acked + counted + n + 1
      BY <2>a, <3>1
    <3>4. CASE InFlight' = 1 /\ counted' = counted /\ m = n - 1
      BY <2>a, <3>1, <3>3, <3>4
    <3>5. CASE InFlight' = 0 /\ counted' = counted /\ m = n
      BY <2>a, <3>1, <3>3, <3>5
    <3>6. CASE InFlight' = 0 /\ counted' = counted + n /\ m = 0
      BY <2>a, <3>1, <3>3, <3>6
    <3>. QED BY <3>2, <3>4, <3>5, <3>6
  <2>5. ASSUME FrameLost PROVE Goal
    <3>1. m = n
      BY <2>0, <2>5, LeftProps DEF FrameLost, LostTaken
    <3>2. /\ InFlight = 1 /\ InFlight' = 0
          /\ accepted' = accepted /\ acked' = acked /\ counted' = counted + 1
      BY <2>5 DEF FrameLost, InFlight
    <3>. HIDE DEF n, m
    <3>. QED BY <2>a, <3>1, <3>2
  <2>6. ASSUME \/ Detach \/ Abandon \/ SocketCloses \/ Forget \/ SenderStops
               \/ SessionStarts \/ SessionEnds
        PROVE  Goal
    <3>1. q'.frames = q.frames
      <4>1. CASE Detach \/ Abandon
        <5>1. q' = Bind(q, st, FALSE)
          BY <4>1 DEF Detach, Abandon
        <5>. QED BY <2>0, <5>1, BindProps
      <4>2. CASE SessionStarts
        BY <2>0, <4>2 DEF SessionStarts, QueueOK
      <4>3. CASE SocketCloses \/ Forget \/ SenderStops \/ SessionEnds
        BY <4>3 DEF SocketCloses, Forget, SenderStops, SessionEnds
      <4>. QED BY <2>6, <4>1, <4>2, <4>3
    <3>2. /\ InFlight' = InFlight
          /\ accepted' = accepted /\ acked' = acked /\ counted' = counted
      BY <2>6 DEF Detach, Abandon, SocketCloses, Forget, SenderStops, SessionStarts,
                  SessionEnds, InFlight
    <3>. QED BY <2>0, <3>1, <3>2
  <2>7. ASSUME UNCHANGED outVars PROVE Goal
    BY <2>0, <2>7 DEF outVars, InFlight
  <2>. HIDE DEF Goal
  <2>. QED BY <2>1, <2>2, <2>3, <2>4, <2>5, <2>6, <2>7 DEF OutNext
<1>. QED BY <1>1, <1>2, TInvInit, TInvStep, PTL DEF OutSpec

(* No lost wake-up: a waiting sender whose event is not set has neither a  *)
(* frame to send nor an overflow to report.                                *)
THEOREM WakeupNeverLost == OutSpec => []NoLostWakeup
<1>1. OutInit => NoLostWakeup
  BY DEF OutInit, NoLostWakeup
<1>2. TInv /\ NoLostWakeup /\ [OutNext]_outVars => NoLostWakeup'
  <2> SUFFICES ASSUME TInv, NoLostWakeup, [OutNext]_outVars,
                      sender' = "wait", ~q'.ready
               PROVE  MustWait(q')
    BY DEF NoLostWakeup
  <2>0. QueueOK(q) /\ StOK(st)
    BY DEF TInv, OutTypeOK, StOK
  <2>1. ASSUME NEW f \in Frames, Enqueue(f) PROVE MustWait(q')
    <3>1. sender = "wait"
      BY <2>1 DEF Enqueue
    <3>2. /\ q'.frames = q.frames
          /\ q'.overflowed = q.overflowed /\ q'.ready = q.ready
      BY <2>1, EnqueueFrames
    <3>. QED BY <3>1, <3>2 DEF NoLostWakeup, MustWait
  <2>2. ASSUME Greeted \/ Woken \/ FrameSent PROVE MustWait(q')
    BY <2>2, SenderRuns DEF GetEffect
  <2>3. ASSUME \/ SocketCloses \/ Forget \/ SessionEnds \/ UNCHANGED outVars
        PROVE  MustWait(q')
    BY <2>3 DEF SocketCloses, Forget, SessionEnds, outVars, NoLostWakeup, MustWait
  <2>4. ASSUME SessionStarts PROVE MustWait(q')
    BY <2>0, <2>4 DEF SessionStarts, QueueOK, NoLostWakeup, MustWait
  <2>5. ASSUME Abandon PROVE MustWait(q')
    BY <2>0, <2>5, BindProps DEF Abandon, NoLostWakeup, MustWait
  <2>6. ASSUME Attach \/ Detach \/ FrameLost \/ SenderStops PROVE FALSE
    BY <2>6 DEF Attach, Detach, FrameLost, SenderStops
  <2>. QED BY <2>1, <2>2, <2>3, <2>4, <2>5, <2>6 DEF OutNext
<1>. QED BY <1>1, <1>2, TInvInit, TInvStep, PTL DEF OutSpec

-----------------------------------------------------------------------------
(* Order: how each kind of step moves frames between what was delivered,   *)
(* what is held and what waits.                                            *)

LEMMA OrderNewFrame ==
    ASSUME NEW d \in Seq(Nat), NEW h \in Seq(Nat), NEW w \in Seq(Nat), NEW l \in Nat,
           Ordered(d, h, w, l), NEW n \in 0..Len(w), NEW f \in Nat, f > l
    PROVE  Ordered(d, h, Append(Rest(w, n), f), f)
<1> DEFINE r == Rest(w, n)
           a == Append(r, f)
           m == Len(w)
           k == m - n
<1> SUFFICES Ordered(d, h, a, f)
  OBVIOUS
<1>1. m \in Nat /\ Len(d) \in Nat /\ Len(h) \in Nat
  BY LenProperties
<1>2. k \in Nat /\ m = n + k /\ n \in Nat
  <2>1. n \in 0..m
    OBVIOUS
  <2>. HIDE DEF m
  <2>. QED BY <1>1, <2>1
<1>3. r \in Seq(Nat) /\ Len(r) = k /\ \A i \in 1..k : r[i] = w[n + i]
  <2>1. \A i \in (n + 1)..m : w[i] \in Nat
    <3>. SUFFICES ASSUME NEW i \in (n + 1)..m PROVE w[i] \in Nat
      OBVIOUS
    <3>. HIDE DEF m, k
    <3>1. i \in 1..m
      BY <1>2
    <3>. QED BY <3>1, ElementOfSeq DEF m
  <2>2. r = SubSeq(w, n + 1, m)
    BY DEF Rest
  <2>. HIDE DEF r, m, k
  <2>3. /\ r \in Seq(Nat)
        /\ Len(r) = IF n + 1 <= m THEN m - (n + 1) + 1 ELSE 0
        /\ \A i \in 1..(m - (n + 1) + 1) : r[i] = w[(n + 1) + i - 1]
    BY <1>1, <1>2, <2>1, <2>2, SubSeqProperties
  <2>4. Len(r) = k
    BY <1>2, <2>3
  <2>5. \A i \in 1..k : r[i] = w[n + i]
    <3>. SUFFICES ASSUME NEW i \in 1..k PROVE r[i] = w[n + i]
      OBVIOUS
    <3>1. i \in 1..(m - (n + 1) + 1) /\ (n + 1) + i - 1 = n + i
      BY <1>2
    <3>. QED BY <2>3, <3>1
  <2>. QED BY <2>3, <2>4, <2>5
<1>. HIDE DEF r
<1>4. Len(a) = k + 1 /\ a[k + 1] = f /\ \A i \in 1..k : a[i] = w[n + i]
  <2>1. /\ Len(a) = Len(r) + 1 /\ a[Len(r) + 1] = f
        /\ \A i \in 1..Len(r) : a[i] = r[i]
    BY <1>3, AppendProperties
  <2>. HIDE DEF a, k
  <2>. QED BY <1>3, <2>1
<1>. HIDE DEF a
<1>5. /\ \A i \in 1..m : w[i] \in Nat /\ w[i] <= l
      /\ \A i \in 1..Len(d) : d[i] \in Nat /\ d[i] <= l
      /\ \A i \in 1..Len(h) : h[i] \in Nat /\ h[i] <= l
  BY ElementOfSeq DEF Ordered
<1>6. /\ \A i, j \in 1..m : i < j => w[i] < w[j]
      /\ \A i \in 1..Len(d), j \in 1..m : d[i] < w[j]
      /\ \A i \in 1..Len(h), j \in 1..m : h[i] < w[j]
  BY DEF Ordered, Increasing, Before
<1>. HIDE DEF m, k
<1>7. ASSUME NEW i \in 1..Len(a)
      PROVE  \/ i = k + 1 /\ a[i] = f
             \/ i \in 1..k /\ n + i \in 1..m /\ a[i] = w[n + i]
  <2>1. i = k + 1 \/ i \in 1..k
    BY <1>2, <1>4
  <2>2. i \in 1..k => n + i \in 1..m
    BY <1>2
  <2>. QED BY <1>4, <2>1, <2>2
<1>8. ASSUME NEW i \in 1..Len(a) PROVE a[i] \in Nat /\ a[i] <= f
  <2>1. CASE a[i] = f
    BY <2>1
  <2>2. CASE n + i \in 1..m /\ a[i] = w[n + i]
    BY <1>5, <2>2
  <2>. QED BY <1>7, <2>1, <2>2
<1>9. Increasing(a)
  <2>. SUFFICES ASSUME NEW i \in 1..Len(a), NEW j \in 1..Len(a), i < j
                PROVE  a[i] < a[j]
    BY DEF Increasing
  <2>1. i \in 1..k /\ n + i \in 1..m /\ a[i] = w[n + i]
    BY <1>2, <1>4, <1>7
  <2>2. CASE j = k + 1 /\ a[j] = f
    BY <1>5, <2>1, <2>2
  <2>3. CASE j \in 1..k /\ n + j \in 1..m /\ a[j] = w[n + j]
    <3>1. n + i < n + j
      BY <1>2
    <3>. QED BY <1>6, <2>1, <2>3, <3>1
  <2>. QED BY <1>7, <2>2, <2>3
<1>10. Before(d, a)
  <2>. SUFFICES ASSUME NEW i \in 1..Len(d), NEW j \in 1..Len(a) PROVE d[i] < a[j]
    BY DEF Before
  <2>1. CASE a[j] = f
    BY <1>5, <2>1
  <2>2. CASE n + j \in 1..m /\ a[j] = w[n + j]
    BY <1>6, <2>2
  <2>. QED BY <1>7, <2>1, <2>2
<1>11. Before(h, a)
  <2>. SUFFICES ASSUME NEW i \in 1..Len(h), NEW j \in 1..Len(a) PROVE h[i] < a[j]
    BY DEF Before
  <2>1. CASE a[j] = f
    BY <1>5, <2>1
  <2>2. CASE n + j \in 1..m /\ a[j] = w[n + j]
    BY <1>6, <2>2
  <2>. QED BY <1>7, <2>1, <2>2
<1>12. \A s \in {d, h, a} : \A i \in 1..Len(s) : s[i] <= f
  BY <1>5, <1>8
<1>. QED BY <1>9, <1>10, <1>11, <1>12 DEF Ordered

LEMMA OrderDiscard ==
    ASSUME NEW d \in Seq(Nat), NEW h \in Seq(Nat), NEW w, NEW l,
           Ordered(d, h, w, l)
    PROVE  Ordered(d, h, <<>>, l)
BY DEF Ordered, Increasing, Before

LEMMA OrderTake ==
    ASSUME NEW d \in Seq(Nat), NEW w \in Seq(Nat), NEW l,
           Ordered(d, <<>>, w, l), w # <<>>
    PROVE  Ordered(d, <<Head(w)>>, Tail(w), l)
<1>1. /\ Len(w) \in Nat \ {0} /\ Len(d) \in Nat
      /\ Len(Tail(w)) = Len(w) - 1 /\ Head(w) = w[1]
      /\ \A i \in 1..Len(Tail(w)) : Tail(w)[i] = w[i + 1]
  BY EmptySeq, LenProperties, HeadTailProperties
<1> DEFINE t == Tail(w)
           x == Head(w)
           h == <<x>>
           m == Len(w)
<1>2. /\ Len(h) = 1 /\ h[1] = w[1]
  BY <1>1
<1>3. /\ m \in Nat \ {0}
      /\ Len(t) = m - 1 /\ \A i \in 1..(m - 1) : t[i] = w[i + 1]
  BY <1>1
<1>4. /\ \A i, j \in 1..m : i < j => w[i] < w[j]
      /\ \A i \in 1..Len(d), j \in 1..m : d[i] < w[j]
      /\ \A i \in 1..m : w[i] <= l
      /\ \A i \in 1..Len(d) : d[i] <= l
      /\ Increasing(d)
  BY DEF Ordered, Increasing, Before
<1> SUFFICES Ordered(d, h, t, l)
  OBVIOUS
<1>. HIDE DEF t, h, m, x
<1>5. Increasing(t)
  BY <1>3, <1>4 DEF Increasing
<1>6. Before(d, h) /\ Before(d, t) /\ Before(h, t)
  BY <1>2, <1>3, <1>4 DEF Before
<1>7. /\ \A i \in 1..Len(t) : t[i] <= l
      /\ \A i \in 1..Len(h) : h[i] <= l
  BY <1>2, <1>3, <1>4
<1>. QED BY <1>4, <1>5, <1>6, <1>7 DEF Ordered

LEMMA OrderDeliver ==
    ASSUME NEW d \in Seq(Nat), NEW x \in Nat, NEW w \in Seq(Nat), NEW l,
           Ordered(d, <<x>>, w, l)
    PROVE  /\ Ordered(Append(d, x), <<>>, w, l)
           /\ Ordered(d, <<>>, w, l)
<1> DEFINE h == <<x>>
           a == Append(d, x)
           m == Len(d)
<1>1. /\ m \in Nat /\ Len(h) = 1 /\ h[1] = x
      /\ Len(a) = m + 1 /\ a[m + 1] = x /\ \A i \in 1..m : a[i] = d[i]
  BY LenProperties, AppendProperties
<1>2. Ordered(d, h, w, l)
  OBVIOUS
<1>. HIDE DEF h, a
<1>3. /\ \A i, j \in 1..m : i < j => d[i] < d[j]
      /\ \A i \in 1..m : d[i] < x /\ d[i] <= l
      /\ \A i \in 1..m, j \in 1..Len(w) : d[i] < w[j]
      /\ \A j \in 1..Len(w) : x < w[j] /\ w[j] <= l
      /\ x <= l /\ Increasing(w)
  BY <1>1, <1>2 DEF Ordered, Increasing, Before
<1>. HIDE DEF m
<1>4. ASSUME NEW i \in 1..Len(a)
      PROVE  \/ i = Len(a) /\ a[i] = x
             \/ i \in 1..m /\ i < Len(a) /\ a[i] = d[i]
  <2>1. i = m + 1 \/ i \in 1..m
    BY <1>1
  <2>. QED BY <1>1, <2>1
<1>5. Increasing(a)
  BY <1>1, <1>3, <1>4 DEF Increasing
<1>6. Before(a, w) /\ Before(a, <<>>) /\ Before(<<>>, w)
  BY <1>3, <1>4 DEF Before
<1>7. \A i \in 1..Len(a) : a[i] <= l
  BY <1>3, <1>4
<1>8. Ordered(a, <<>>, w, l)
  BY <1>3, <1>5, <1>6, <1>7 DEF Ordered
<1>9. Ordered(d, <<>>, w, l)
  BY <1>2 DEF Ordered, Before
<1>. QED BY <1>8, <1>9 DEF a

(* A frame that is not queued only moves the newest frame on.              *)
LEMMA OrderNewer ==
    ASSUME NEW d \in Seq(Nat), NEW h \in Seq(Nat), NEW w \in Seq(Nat), NEW l \in Nat,
           Ordered(d, h, w, l), NEW f \in Nat, f > l
    PROVE  Ordered(d, h, w, f)
<1>1. ASSUME NEW s \in {d, h, w}, NEW i \in 1..Len(s) PROVE s[i] <= f
  <2>1. s[i] \in Nat /\ s[i] <= l
    BY ElementOfSeq DEF Ordered
  <2>. QED BY <2>1
<1>. QED BY <1>1 DEF Ordered

(* The peer receives frames in the order they were sent and none twice,    *)
(* across drops, reconnections and frames given back to the queue.         *)
THEOREM FramesInOrder == OutSpec => []InOrder
<1>1. OutInit => InOrder
  <2>. SUFFICES ASSUME OutInit PROVE InOrder
    OBVIOUS
  <2>1. delivered = <<>> /\ Holding = <<>> /\ q.frames = <<>>
    BY DEF OutInit, EmptyQueue, Holding
  <2>. QED BY <2>1 DEF InOrder, Ordered, Increasing, Before
<1>2. TInv /\ InOrder /\ [OutNext]_outVars => InOrder'
  <2>. SUFFICES ASSUME TInv, InOrder, [OutNext]_outVars PROVE InOrder'
    OBVIOUS
  <2>1. /\ QueueOK(q) /\ Len(q.tokens) = Len(q.frames) /\ StOK(st)
        /\ q.frames \in Seq(Nat) /\ delivered \in Seq(Nat)
        /\ Holding \in Seq(Nat) /\ last \in Nat
        /\ sender = "send" => held.frame \in Nat
    <3>1. Frames \subseteq Nat
      BY OutboxAssumption
    <3>2. Seq(Frames) \subseteq Seq(Nat)
      BY <3>1, SeqMonotonic
    <3>3. /\ q.frames \in Seq(Frames) /\ delivered \in Seq(Frames)
          /\ last \in Frames \union {NoFrame}
          /\ sender = "send" => held.frame \in Frames
          /\ QueueOK(q) /\ Len(q.tokens) = Len(q.frames) /\ StOK(st)
      BY DEF TInv, OutTypeOK, QueueOK, HeldOK, Aligned, StOK
    <3>4. ASSUME sender = "send" PROVE <<held.frame>> \in Seq(Nat)
      <4>1. held.frame \in Nat
        BY <3>1, <3>3, <3>4
      <4>. QED BY <4>1
    <3>5. <<>> \in Seq(Nat)
      BY EmptySeq
    <3>. QED BY <3>1, <3>2, <3>3, <3>4, <3>5 DEF Holding, NoFrame
  <2>2. Ordered(delivered, Holding, q.frames, last)
    BY DEF InOrder
  <2>3. ASSUME NEW f \in Frames, Enqueue(f) PROVE InOrder'
    <3>1. /\ f \in Nat /\ f > last /\ last' = f
          /\ delivered' = delivered /\ Holding' = Holding
      BY <2>3, OutboxAssumption DEF Enqueue, Holding
    <3>2. CASE q'.frames = q.frames
      BY <2>1, <2>2, <3>1, <3>2, OrderNewer DEF InOrder
    <3>3. CASE \E n \in 0..Len(q.frames) : q'.frames = Append(Rest(q.frames, n), f)
      <4>1. PICK n \in 0..Len(q.frames) : q'.frames = Append(Rest(q.frames, n), f)
        BY <3>3
      <4>2. Ordered(delivered, Holding, Append(Rest(q.frames, n), f), f)
        BY <2>1, <2>2, <3>1, OrderNewFrame
      <4>. QED BY <3>1, <4>1, <4>2 DEF InOrder
    <3>. QED BY <2>3, <3>2, <3>3, EnqueueFrames
  <2>4. ASSUME Greeted \/ Woken \/ FrameSent PROVE InOrder'
    <3> DEFINE d == IF sender = "send" THEN Append(delivered, held.frame) ELSE delivered
    <3>1. d \in Seq(Nat) /\ delivered' = d /\ last' = last
      BY <2>1, <2>4, AppendProperties DEF Greeted, Woken, FrameSent
    <3>2. Ordered(d, <<>>, q.frames, last)
      <4>1. CASE sender = "send"
        <5>1. Ordered(delivered, <<held.frame>>, q.frames, last)
          BY <2>2, <4>1 DEF Holding
        <5>. QED BY <2>1, <4>1, <5>1, OrderDeliver
      <4>2. CASE sender # "send"
        BY <2>2, <4>2 DEF Holding
      <4>. QED BY <4>1, <4>2
    <3>. HIDE DEF d
    <3>3. CASE sender' = "send"
      <4>1. /\ q.frames # <<>> /\ q'.frames = Tail(q.frames)
            /\ held'.frame = Head(q.frames)
        BY <2>4, <3>3, SenderRuns DEF GetEffect
      <4>2. Holding' = <<Head(q.frames)>>
        BY <3>3, <4>1 DEF Holding
      <4>. QED BY <2>1, <3>1, <3>2, <4>1, <4>2, OrderTake DEF InOrder
    <3>4. CASE sender' # "send"
      <4>1. (q'.frames = q.frames \/ q'.frames = <<>>) /\ Holding' = <<>>
        BY <2>4, <3>4, SenderRuns DEF GetEffect, Holding
      <4>2. <<>> \in Seq(Nat)
        BY EmptySeq
      <4>. QED BY <3>1, <3>2, <4>1, <4>2, OrderDiscard DEF InOrder
    <3>. QED BY <3>3, <3>4
  <2>5. ASSUME FrameLost PROVE InOrder'
    <3>1. /\ sender = "send" /\ Holding' = <<>> /\ last' = last
          /\ delivered' \in {delivered, Append(delivered, held.frame)}
          /\ Holding = <<held.frame>>
      BY <2>5 DEF FrameLost, Holding
    <3>2. q'.frames = q.frames
      BY <2>1, <2>5, LeftProps DEF FrameLost, LostTaken
    <3>3. Ordered(delivered, <<held.frame>>, q.frames, last)
      BY <2>2, <3>1
    <3>. QED BY <2>1, <3>1, <3>2, <3>3, OrderDeliver DEF InOrder
  <2>6. ASSUME \/ Attach \/ Detach \/ Abandon \/ SocketCloses \/ Forget
               \/ SenderStops \/ SessionStarts \/ SessionEnds
        PROVE  InOrder'
    <3>1. Holding' = Holding /\ delivered' = delivered /\ last' = last
      BY <2>6 DEF Attach, Detach, Abandon, SocketCloses, Forget, SenderStops,
                  SessionStarts, SessionEnds, Holding
    <3>2. q'.frames = q.frames \/ q'.frames = <<>>
      <4>1. CASE Attach
        BY <2>1, <4>1, AttachFrames
      <4>2. CASE Detach \/ Abandon
        <5>1. q' = Bind(q, st, FALSE)
          BY <4>2 DEF Detach, Abandon
        <5>. QED BY <2>1, <5>1, BindProps
      <4>3. CASE SocketCloses \/ Forget \/ SenderStops \/ SessionEnds
        BY <4>3 DEF SocketCloses, Forget, SenderStops, SessionEnds
      <4>4. CASE SessionStarts
        BY <2>1, <4>4 DEF SessionStarts, QueueOK
      <4>. QED BY <2>6, <4>1, <4>2, <4>3, <4>4
    <3>. QED BY <2>1, <2>2, <3>1, <3>2, OrderDiscard DEF InOrder
  <2>7. ASSUME UNCHANGED outVars PROVE InOrder'
    BY <2>2, <2>7 DEF outVars, InOrder, Holding
  <2>. QED BY <2>3, <2>4, <2>5, <2>6, <2>7 DEF OutNext
<1>. QED BY <1>1, <1>2, TInvInit, TInvStep, PTL DEF OutSpec

-----------------------------------------------------------------------------
(* Bytes: the count each operator keeps is the sum it stands for.          *)

Exact(r) == r.bytes = Bytes(r.frames)

Fits(r) == LimitBytes # None => Bytes(r.frames) <= LimitBytes \/ Len(r.frames) = 1

Measured(r) == Exact(r) /\ Fits(r)

LEMMA FramesSized == Sized(Frames)
BY OutboxAssumption DEF Sized

(* Frames and bytes that stay as they are stay measured.                   *)
LEMMA SameMeasure ==
    ASSUME NEW r, Measured(r), NEW p, p.frames = r.frames, p.bytes = r.bytes
    PROVE  Measured(p)
BY DEF Measured, Exact, Fits

LEMMA EmptyMeasured ==
    ASSUME NEW p, p.frames = <<>>, p.bytes = 0
    PROVE  Measured(p)
<1>1. <<>> \in Seq(Frames)
  BY EmptySeq
<1>2. Bytes(<<>>) = 0
  BY <1>1, FramesSized, BytesNat
<1>. QED BY <1>2, SendQueueAssumption DEF Measured, Exact, Fits

LEMMA LeftBytes ==
    ASSUME NEW r, QueueOK(r), NEW s, NEW toks
    PROVE  Left(r, s, toks).bytes = r.bytes
BY DEF Left, QueueOK

LEMMA EvictExact ==
    ASSUME NEW r, QueueOK(r), Len(r.tokens) = Len(r.frames), NEW s,
           NEW n \in 0..Len(r.frames), Exact(r)
    PROVE  Exact(Evict(r, s, n))
<1> DEFINE by == r.bytes - Bytes(Cut(r.frames, n))
           e0 == [r EXCEPT !.frames = Rest(@, n), !.tokens = Rest(@, n),
                           !.bytes = @ - Bytes(Cut(r.frames, n)),
                           !.dropped = @ + n,
                           !.taken = IF n = 0 THEN @ ELSE r.tokens[n]]
<1>1. /\ Evict(r, s, n).frames = Rest(r.frames, n)
      /\ Evict(r, s, n) = Left(e0, s, Cut(r.tokens, n))
  BY EvictProps DEF Evict
<1>2. e0.bytes = by
  BY DEF QueueOK
<1>3. Left(e0, s, Cut(r.tokens, n)).bytes = e0.bytes
  <2>1. "backlog" # "bytes"
    OBVIOUS
  <2>. HIDE DEF e0
  <2>. QED BY <2>1 DEF Left
<1>4. r.frames \in Seq(Frames)
  BY DEF QueueOK
<1>5. /\ Bytes(r.frames) = Bytes(Cut(r.frames, n)) + Bytes(Rest(r.frames, n))
      /\ Bytes(Cut(r.frames, n)) \in Nat /\ Bytes(Rest(r.frames, n)) \in Nat
  BY <1>4, FramesSized, BytesCut
<1>. HIDE DEF e0
<1>. QED BY <1>1, <1>2, <1>3, <1>5 DEF Exact

LEMMA PushedMeasured ==
    ASSUME NEW r, QueueOK(r), Len(r.tokens) = Len(r.frames), NEW s, StOK(s),
           NEW f \in Frames, Exact(r), ~Full(r, SizeOf(f))
    PROVE  Measured(Pushed(r, s, f))
<1> DEFINE p == Pushed(r, s, f)
<1>1. /\ p.frames = Append(r.frames, f) /\ Len(p.frames) = Len(r.frames) + 1
      /\ r.frames \in Seq(Frames) /\ Len(r.frames) \in Nat
  BY PushedProps, LenProperties DEF QueueOK
<1>2. p.bytes = r.bytes + SizeOf(f)
  <2>. HIDE DEF EnterToken
  <2>. QED BY DEF Pushed, Entered, QueueOK
<1>3. Bytes(Append(r.frames, f)) = Bytes(r.frames) + SizeOf(f)
  BY <1>1, FramesSized, BytesAppend
<1>. HIDE DEF p
<1>4. Exact(p)
  BY <1>1, <1>2, <1>3 DEF Exact
<1>5. LimitBytes # None => r.frames = <<>> \/ Bytes(r.frames) + SizeOf(f) <= LimitBytes
  <2>1. Bytes(r.frames) \in Nat /\ SizeOf(f) \in Nat
    BY <1>1, FramesSized, BytesNat, OutboxAssumption
  <2>2. r.bytes = Bytes(r.frames)
    BY DEF Exact
  <2>. QED BY <2>1, <2>2, SendQueueAssumption DEF Full, None
<1>6. r.frames = <<>> => Len(p.frames) = 1
  BY <1>1, EmptySeq
<1>7. Fits(p)
  BY <1>1, <1>3, <1>5, <1>6 DEF Fits
<1>. QED BY <1>4, <1>7 DEF Measured, p

LEMMA PutMeasured ==
    ASSUME NEW r, QueueOK(r), Len(r.tokens) = Len(r.frames), NEW s, StOK(s),
           NEW f \in Frames, NEW policy \in Policies, Measured(r)
    PROVE  Measured(Put(r, s, f, policy))
<1> DEFINE p == Put(r, s, f, policy)
<1>0. Exact(r)
  BY DEF Measured
<1>1. CASE ~Full(r, SizeOf(f))
  <2>1. p = Pushed(r, s, f)
    BY <1>1 DEF Put
  <2>2. Measured(Pushed(r, s, f))
    BY <1>0, <1>1, PushedMeasured
  <2>. QED BY <2>1, <2>2
<1>2. CASE Full(r, SizeOf(f)) /\ policy # "drop_old"
  <2>1. \/ p = [r EXCEPT !.dropped = @ + 1]
        \/ p = [r EXCEPT !.overflowed = TRUE, !.ready = TRUE]
    BY <1>2 DEF Put, Policies
  <2>2. p.frames = r.frames /\ p.bytes = r.bytes
    <3>. HIDE DEF p
    <3>. QED BY <2>1 DEF QueueOK
  <2>. HIDE DEF p
  <2>3. Measured(p)
    BY <2>2, SameMeasure
  <2>. QED BY <2>3 DEF p
<1>3. CASE Full(r, SizeOf(f)) /\ policy = "drop_old"
  <2> DEFINE n == Rounds(r, s, SizeOf(f))
             e == Evict(r, s, n)
  <2>1. p = Pushed(e, s, f)
    BY <1>3 DEF Put
  <2>2. n \in 0..Len(r.frames) /\ ~Full(e, SizeOf(f))
    BY RoundsProps
  <2>. HIDE DEF n
  <2>3. QueueOK(e) /\ Len(e.tokens) = Len(e.frames)
    BY <2>2, EvictProps
  <2>4. Exact(e)
    BY <1>0, <2>2, EvictExact
  <2>. HIDE DEF e
  <2>5. Measured(Pushed(e, s, f))
    BY <2>2, <2>3, <2>4, PushedMeasured
  <2>. QED BY <2>1, <2>5
<1>. QED BY <1>1, <1>2, <1>3 DEF Policies

LEMMA TakeMeasured ==
    ASSUME NEW r, QueueOK(r), Len(r.tokens) = Len(r.frames), r.frames # <<>>, Measured(r)
    PROVE  Measured(Take(r)) /\ Measured(Unget(Take(r), Head(r.frames)))
<1> DEFINE t == Take(r)
           k == Unget(t, Head(r.frames))
<1>1. /\ t.frames = Tail(r.frames) /\ k.frames = r.frames /\ QueueOK(t)
      /\ r.frames \in Seq(Frames)
      /\ Len(r.frames) \in Nat \ {0} /\ Len(t.frames) = Len(r.frames) - 1
  BY TakeProps, KeepProps DEF QueueOK
<1>2. t.bytes = r.bytes - SizeOf(Head(r.frames))
  BY DEF Take, QueueOK
<1>3. k.bytes = t.bytes + SizeOf(Head(r.frames))
  <2>1. QueueOK(t)
    BY <1>1
  <2>. HIDE DEF t
  <2>. QED BY <2>1 DEF Unget, QueueOK
<1>4. /\ Bytes(r.frames) = SizeOf(Head(r.frames)) + Bytes(Tail(r.frames))
      /\ Bytes(Tail(r.frames)) \in Nat /\ SizeOf(Head(r.frames)) \in Nat
  BY <1>1, FramesSized, BytesTail
<1>5. r.bytes = Bytes(r.frames) /\ Fits(r)
  BY DEF Measured, Exact
<1>. HIDE DEF t, k
<1>6. Exact(t)
  BY <1>1, <1>2, <1>4, <1>5 DEF Exact
<1>7. k.bytes = r.bytes
  BY <1>2, <1>3, <1>4, <1>5
<1>8. Fits(t)
  <2>1. CASE t.frames = <<>>
    <3>1. Bytes(t.frames) = 0
      BY <1>1, <2>1, FramesSized, BytesNat
    <3>. QED BY <3>1, SendQueueAssumption DEF Fits
  <2>2. CASE t.frames # <<>>
    <3>1. t.frames \in Seq(Frames) /\ Len(t.frames) \in Nat
      BY <1>1, LenProperties DEF QueueOK
    <3>2. Len(t.frames) # 0
      BY <2>2, <3>1, EmptySeq
    <3>3. Len(r.frames) # 1
      BY <1>1, <3>1, <3>2
    <3>. QED BY <1>1, <1>4, <1>5, <3>3, SendQueueAssumption DEF Fits
  <2>. QED BY <2>1, <2>2
<1>9. Measured(k)
  BY <1>1, <1>7, SameMeasure
<1>. QED BY <1>6, <1>8, <1>9 DEF Measured, t, k

LEMMA ResetMeasured ==
    ASSUME NEW r, QueueOK(r), NEW s
    PROVE  Measured(Reset(r, s))
<1> DEFINE l == Left(r, s, r.tokens)
           ta == IF r.tokens = <<>> THEN l.taken ELSE r.tokens[Len(r.tokens)]
<1>1. QueueOK(l)
  BY LeftProps
<1>2. Reset(r, s) = [l EXCEPT !.frames = <<>>, !.tokens = <<>>, !.bytes = 0,
                              !.overflowed = FALSE, !.taken = ta]
  BY DEF Reset
<1>. HIDE DEF l, ta
<1>3. Reset(r, s).frames = <<>> /\ Reset(r, s).bytes = 0
  BY <1>1, <1>2 DEF QueueOK
<1>. QED BY <1>3, EmptyMeasured

LEMMA BindBytes ==
    ASSUME NEW r, QueueOK(r), NEW s, NEW b
    PROVE  Bind(r, s, b).bytes = r.bytes
<1> DEFINE c == [r EXCEPT !.bound = b, !.backlog = 0, !.taken = NoToken]
           d == [c EXCEPT !.tokens = [i \in DOMAIN r.frames |-> EnterToken(c, s)]]
<1>1. Bind(r, s, b) = Entered(d, s, Len(r.frames))
  BY DEF Bind
<1>2. d.bytes = r.bytes
  BY DEF QueueOK
<1>. HIDE DEF d
<1>. QED BY <1>1, <1>2 DEF Entered

LEMMA GetMeasured ==
    ASSUME NEW r, QueueOK(r), Len(r.tokens) = Len(r.frames), Measured(r), GetFrame(r)
    PROVE  Measured(q')
<1>1. CASE SendFirst(r)
  BY <1>1, TakeMeasured DEF SendFirst, CanTake
<1>2. CASE KeepFirst(r)
  BY <1>2, TakeMeasured DEF KeepFirst, CanTake
<1>3. CASE WaitForFrame(r)
  <2>1. q' = [r EXCEPT !.ready = FALSE]
    BY <1>3 DEF WaitForFrame, Wait
  <2>2. q'.frames = r.frames /\ q'.bytes = r.bytes
    BY <2>1 DEF QueueOK
  <2>. QED BY <2>2, SameMeasure
<1>4. CASE StopOnOverflow(r)
  BY <1>4, ResetMeasured DEF StopOnOverflow
<1>. QED BY <1>1, <1>2, <1>3, <1>4 DEF GetFrame

LEMMA MeasuredStep == TInv /\ Measured(q) /\ [OutNext]_outVars => Measured(q)'
<1> SUFFICES ASSUME TInv, Measured(q), [OutNext]_outVars PROVE Measured(q')
  OBVIOUS
<1>0. QueueOK(q) /\ Len(q.tokens) = Len(q.frames) /\ StOK(st)
  BY DEF TInv, OutTypeOK, Aligned, StOK
<1>1. ASSUME NEW f \in Frames, Enqueue(f) PROVE Measured(q')
  <2>1. q' = q \/ q' = Put(q, st, f, PolicyNow)
    BY <1>1 DEF Enqueue
  <2>2. Measured(Put(q, st, f, PolicyNow))
    BY <1>0, PolicyNowOK, PutMeasured DEF TInv
  <2>. QED BY <2>1, <2>2
<1>2. ASSUME Attach PROVE Measured(q')
  <2> DEFINE q0 == IF q.overflowed THEN Reset(q, st) ELSE q
  <2>1. QueueOK(q0) /\ Measured(q0)
    BY <1>0, ResetProps, ResetMeasured
  <2>2. q' = Bind(q0, st, TRUE)
    BY <1>2 DEF Attach
  <2>. HIDE DEF q0
  <2>3. q'.frames = q0.frames /\ q'.bytes = q0.bytes
    BY <1>0, <2>1, <2>2, BindProps, BindBytes
  <2>. QED BY <2>1, <2>3, SameMeasure
<1>3. ASSUME Detach \/ Abandon PROVE Measured(q')
  <2>1. q' = Bind(q, st, FALSE)
    BY <1>3 DEF Detach, Abandon
  <2>2. q'.frames = q.frames /\ q'.bytes = q.bytes
    BY <1>0, <2>1, BindProps, BindBytes
  <2>. QED BY <2>2, SameMeasure
<1>4. ASSUME Greeted \/ Woken PROVE Measured(q')
  BY <1>0, <1>4, GetMeasured DEF Greeted, Woken
<1>5. ASSUME FrameSent PROVE Measured(q')
  <2> DEFINE r == Sent(q, st)
  <2>1. /\ QueueOK(r) /\ r.frames = q.frames /\ r.tokens = q.tokens /\ r.bytes = q.bytes
    BY <1>0, LeftProps, LeftBytes DEF Sent
  <2>2. GetFrame(r)
    BY <1>5 DEF FrameSent
  <2>. HIDE DEF r
  <2>3. Measured(r) /\ Len(r.tokens) = Len(r.frames)
    BY <1>0, <2>1, SameMeasure
  <2>. QED BY <2>1, <2>2, <2>3, GetMeasured
<1>6. ASSUME FrameLost PROVE Measured(q')
  <2>1. q'.frames = q.frames /\ q'.bytes = q.bytes
    BY <1>0, <1>6, LeftProps, LeftBytes DEF FrameLost, LostTaken
  <2>. QED BY <2>1, SameMeasure
<1>7. ASSUME SessionStarts PROVE Measured(q')
  <2>1. q'.frames = q.frames /\ q'.bytes = q.bytes
    BY <1>0, <1>7 DEF SessionStarts, QueueOK
  <2>. QED BY <2>1, SameMeasure
<1>8. ASSUME \/ SocketCloses \/ Forget \/ SenderStops \/ SessionEnds
             \/ UNCHANGED outVars
      PROVE  Measured(q')
  BY <1>8 DEF SocketCloses, Forget, SenderStops, SessionEnds, outVars
<1>. QED BY <1>1, <1>2, <1>3, <1>4, <1>5, <1>6, <1>7, <1>8 DEF OutNext

LEMMA MeasuredInit == OutInit => Measured(q)
<1> SUFFICES ASSUME OutInit PROVE Measured(q)
  OBVIOUS
<1>1. q.frames = <<>> /\ q.bytes = 0
  BY DEF OutInit, EmptyQueue
<1>. QED BY <1>1, EmptyMeasured

(* _bytes is the size of what is queued, through every drop, every frame   *)
(* given back and every reset, for any frame sizes.                        *)
THEOREM CountOfBytes == OutSpec => []BytesExact
<1>1. Measured(q) => BytesExact
  BY DEF Measured, Exact, BytesExact
<1>. QED BY <1>1, MeasuredInit, MeasuredStep, TInvInit, TInvStep, PTL DEF OutSpec

(* The bytes bound holds at every await, unless a single frame exceeds it: *)
(* _full lets a frame of any size into an empty queue.                     *)
THEOREM BytesWithinBound == OutSpec => []BytesBound
<1>1. Measured(q) => BytesBound
  BY DEF Measured, Fits, BytesBound
<1>. QED BY <1>1, MeasuredInit, MeasuredStep, TInvInit, TInvStep, PTL DEF OutSpec

-----------------------------------------------------------------------------
(* The backlog: what each operator does to the count the link reports and  *)
(* to the tokens it counts.                                                *)

(* No token is newer than the session.                                     *)
Low(r, s) == \A i \in 1..Len(r.tokens) : r.tokens[i] <= s.T

Counts(r, s, n) == Reports(r, s) => r.backlog = Recent(r.tokens, s.T) + n

(* What an operator that keeps the binding owes.                           *)
Keeps(r, p, s) ==
    /\ p.backlog \in Int /\ Low(p, s) /\ p.bound = r.bound /\ p.overflow = r.overflow

LEMMA LeftBack ==
    ASSUME NEW r, "backlog" \in DOMAIN r, r.backlog \in Int, NEW s, StOK(s),
           NEW toks \in Seq(Int)
    PROVE  LET l == Left(r, s, toks)
           IN  /\ l.backlog \in Int /\ l.tokens = r.tokens /\ l.taken = r.taken
               /\ l.bound = r.bound /\ l.overflow = r.overflow
               /\ l.backlog = IF Reports(r, s) THEN r.backlog - Recent(toks, s.T) ELSE r.backlog
<1> DEFINE n == Recent(toks, s.T)
<1>1. n \in Nat
  BY PositionsFinite DEF StOK
<1>2. Left(r, s, toks) = IF Reports(r, s) THEN [r EXCEPT !.backlog = r.backlog - n] ELSE r
  BY DEF Left, Recent, Positions
<1>. HIDE DEF n, Reports
<1>. QED BY <1>1, <1>2 DEF n

LEMMA PushedBack ==
    ASSUME NEW r, QueueOK(r), r.backlog \in Int, NEW s, StOK(s), Low(r, s), NEW f \in Frames
    PROVE  LET p == Pushed(r, s, f)
           IN  /\ Keeps(r, p, s) /\ p.taken = r.taken
               /\ \A n \in Int : Counts(r, s, n) => Counts(p, s, n)
<1> DEFINE p == Pushed(r, s, f)
           x == EnterToken(r, s)
           add == IF Reports(r, s) THEN 1 ELSE 0
<1>1. x \in Int /\ x <= s.T /\ (Reports(r, s) => x = s.T) /\ s.T \in Int
  BY DEF EnterToken, NoToken, StOK
<1>2. /\ p.tokens = Append(r.tokens, x) /\ p.backlog = r.backlog + add
      /\ p.bound = r.bound /\ p.overflow = r.overflow /\ p.taken = r.taken
  <2>. HIDE DEF x
  <2>. QED BY DEF Pushed, Entered, Reports, QueueOK, x
<1>3. r.tokens \in Seq(Int) /\ Len(r.tokens) \in Nat
  BY LenProperties DEF QueueOK
<1>. HIDE DEF p, x
<1>4. Low(p, s)
  <2>1. /\ Len(p.tokens) = Len(r.tokens) + 1
        /\ \A i \in 1..Len(r.tokens) : p.tokens[i] = r.tokens[i]
        /\ p.tokens[Len(r.tokens) + 1] = x
    BY <1>1, <1>2, <1>3, AppendProperties
  <2>2. ASSUME NEW i \in 1..Len(p.tokens) PROVE p.tokens[i] <= s.T
    <3>1. CASE i \in 1..Len(r.tokens)
      BY <2>1, <3>1 DEF Low
    <3>2. CASE i = Len(r.tokens) + 1
      BY <1>1, <2>1, <3>2
    <3>. QED BY <1>3, <2>1, <2>2, <3>1, <3>2
  <2>. QED BY <2>2 DEF Low
<1>5. ASSUME NEW n \in Int, Counts(r, s, n) PROVE Counts(p, s, n)
  <2> SUFFICES ASSUME Reports(p, s) PROVE p.backlog = Recent(p.tokens, s.T) + n
    BY DEF Counts
  <2>1. Reports(r, s)
    BY <1>2 DEF Reports
  <2>2. Recent(p.tokens, s.T) = Recent(r.tokens, s.T) + 1
    BY <1>1, <1>2, <1>3, <2>1, RecentAppend DEF One
  <2>3. Recent(r.tokens, s.T) \in Nat
    BY <1>1, <1>3, PositionsFinite
  <2>4. r.backlog = Recent(r.tokens, s.T) + n
    BY <1>5, <2>1 DEF Counts
  <2>. QED BY <1>2, <2>1, <2>2, <2>3, <2>4
<1>. QED BY <1>2, <1>4, <1>5 DEF Keeps, p

LEMMA EvictBack ==
    ASSUME NEW r, QueueOK(r), Len(r.tokens) = Len(r.frames), r.backlog \in Int,
           NEW s, StOK(s), Low(r, s), NEW n \in 0..Len(r.frames)
    PROVE  Keeps(r, Evict(r, s, n), s)
<1> DEFINE e0 == [r EXCEPT !.frames = Rest(@, n), !.tokens = Rest(@, n),
                           !.bytes = @ - Bytes(Cut(r.frames, n)),
                           !.dropped = @ + n,
                           !.taken = IF n = 0 THEN @ ELSE r.tokens[n]]
           c == Cut(r.tokens, n)
           rest == Rest(r.tokens, n)
<1>1. r.tokens \in Seq(Int) /\ Len(r.tokens) \in Nat
  BY LenProperties DEF QueueOK
<1>2. \A i \in 1..Len(r.tokens) : r.tokens[i] \in Int
  BY <1>1, ElementOfSeq
<1>3. c \in Seq(Int)
  BY <1>1, <1>2, SubSeqProperties DEF Cut
<1>4. /\ rest \in Seq(Int) /\ Len(rest) = Len(r.tokens) - n
      /\ \A i \in 1..Len(r.tokens) - n : rest[i] = r.tokens[n + i]
  <2> DEFINE z == r.tokens
  <2>1. z \in Seq(Int) /\ Len(z) \in Nat /\ n \in 0..Len(z) /\ rest = SubSeq(z, n + 1, Len(z))
        /\ \A i \in 1..Len(z) : z[i] \in Int
    BY <1>1, <1>2 DEF Rest
  <2>. HIDE DEF z, rest
  <2>2. /\ rest \in Seq(Int) /\ Len(rest) = Len(z) - n
        /\ \A i \in 1..Len(z) - n : rest[i] = z[n + i]
    BY <2>1, SubSeqProperties
  <2>. QED BY <2>2 DEF z
<1>5. /\ "backlog" \in DOMAIN e0 /\ e0.backlog = r.backlog /\ e0.tokens = rest
      /\ e0.bound = r.bound /\ e0.overflow = r.overflow
  BY DEF QueueOK
<1>6. Evict(r, s, n) = Left(e0, s, c)
  BY DEF Evict
<1>. HIDE DEF e0, c, rest
<1>7. \A i \in 1..Len(rest) : rest[i] <= s.T
  <2>1. ASSUME NEW i \in 1..Len(rest) PROVE rest[i] <= s.T
    <3>1. n + i \in 1..Len(r.tokens)
      BY <1>1, <1>4
    <3>2. rest[i] = r.tokens[n + i]
      BY <1>4
    <3>. QED BY <3>1, <3>2 DEF Low
  <2>. QED BY <2>1
<1>8. LET l == Left(e0, s, c)
      IN  l.backlog \in Int /\ l.tokens = e0.tokens /\ l.bound = e0.bound /\ l.overflow = e0.overflow
  BY <1>3, <1>5, LeftBack
<1>. QED BY <1>5, <1>6, <1>7, <1>8 DEF Keeps, Low

LEMMA PutBack ==
    ASSUME NEW r, QueueOK(r), Len(r.tokens) = Len(r.frames), r.backlog \in Int,
           NEW s, StOK(s), Low(r, s), NEW f \in Frames, NEW policy \in Policies
    PROVE  LET p == Put(r, s, f, policy)
           IN  /\ Keeps(r, p, s)
               /\ policy # "drop_old" =>
                    p.taken = r.taken /\ \A n \in Int : Counts(r, s, n) => Counts(p, s, n)
<1> DEFINE p == Put(r, s, f, policy)
<1>1. CASE ~Full(r, SizeOf(f))
  <2>1. p = Pushed(r, s, f)
    BY <1>1 DEF Put
  <2>. QED BY <2>1, PushedBack
<1>2. CASE Full(r, SizeOf(f)) /\ policy # "drop_old"
  <2>1. \/ p = [r EXCEPT !.dropped = @ + 1]
        \/ p = [r EXCEPT !.overflowed = TRUE, !.ready = TRUE]
    BY <1>2 DEF Put, Policies
  <2>2. /\ p.tokens = r.tokens /\ p.backlog = r.backlog /\ p.taken = r.taken
        /\ p.bound = r.bound /\ p.overflow = r.overflow
    <3>. HIDE DEF p
    <3>. QED BY <2>1 DEF QueueOK
  <2>. HIDE DEF p
  <2>3. Keeps(r, p, s) /\ \A n \in Int : Counts(r, s, n) => Counts(p, s, n)
    BY <2>2 DEF Keeps, Low, Counts, Reports
  <2>. QED BY <2>2, <2>3 DEF p
<1>3. CASE Full(r, SizeOf(f)) /\ policy = "drop_old"
  <2> DEFINE n == Rounds(r, s, SizeOf(f))
             e == Evict(r, s, n)
  <2>1. p = Pushed(e, s, f)
    BY <1>3 DEF Put
  <2>2. n \in 0..Len(r.frames)
    BY RoundsProps
  <2>. HIDE DEF n
  <2>3. QueueOK(e) /\ Keeps(r, e, s)
    BY <2>2, EvictProps, EvictBack
  <2>. HIDE DEF e
  <2>4. Keeps(e, Pushed(e, s, f), s)
    BY <2>3, PushedBack DEF Keeps
  <2>. QED BY <1>3, <2>1, <2>3, <2>4 DEF Keeps
<1>. QED BY <1>1, <1>2, <1>3 DEF Policies

LEMMA TakeBack ==
    ASSUME NEW r, QueueOK(r), Len(r.tokens) = Len(r.frames), r.frames # <<>>,
           r.backlog \in Int, NEW s, StOK(s), Low(r, s)
    PROVE  LET t == Take(r)
               k == Unget(t, Head(r.frames))
           IN  /\ Keeps(r, t, s) /\ Keeps(r, k, s)
               /\ t.taken = Head(r.tokens) /\ Head(r.tokens) \in Int /\ Head(r.tokens) <= s.T
               /\ Counts(r, s, 0) => Counts(t, s, One(Head(r.tokens), s.T)) /\ Counts(k, s, 0)
<1> DEFINE t == Take(r)
           k == Unget(t, Head(r.frames))
           x == Head(r.tokens)
           u == Tail(r.tokens)
<1>1. r.tokens \in Seq(Int) /\ r.tokens # <<>> /\ r.frames \in Seq(Frames)
  BY EmptySeq, LenProperties DEF QueueOK
<1>2. /\ u \in Seq(Int) /\ Len(u) = Len(r.tokens) - 1 /\ x = r.tokens[1] /\ x \in Int
      /\ Len(r.tokens) \in Nat \ {0}
      /\ \A i \in 1..Len(u) : u[i] = r.tokens[i + 1]
  BY <1>1, EmptySeq, LenProperties, HeadTailProperties
<1>3. /\ t.tokens = u /\ t.taken = x /\ t.backlog = r.backlog
      /\ t.bound = r.bound /\ t.overflow = r.overflow
  BY DEF Take, QueueOK
<1>4. <<x>> \o u = r.tokens
  BY <1>1
<1>5. QueueOK(t)
  BY TakeProps
<1>. HIDE DEF t, x, u
<1>6. /\ k.tokens = r.tokens /\ k.backlog = r.backlog
      /\ k.bound = r.bound /\ k.overflow = r.overflow
  BY <1>3, <1>4, <1>5 DEF Unget, QueueOK
<1>. HIDE DEF k
<1>7. x <= s.T /\ \A i \in 1..Len(u) : u[i] <= s.T
  BY <1>2 DEF Low
<1>8. Keeps(r, t, s) /\ Keeps(r, k, s)
  BY <1>3, <1>6, <1>7 DEF Keeps, Low
<1>9. ASSUME Counts(r, s, 0)
      PROVE  Counts(t, s, One(x, s.T)) /\ Counts(k, s, 0)
  <2>1. s.T \in Int
    BY DEF StOK
  <2>2. Recent(r.tokens, s.T) = One(x, s.T) + Recent(u, s.T)
    BY <1>1, <2>1, RecentTail DEF x, u
  <2>3. Recent(u, s.T) \in Nat /\ One(x, s.T) \in Nat
    BY <1>2, <2>1, PositionsFinite DEF One
  <2>. QED BY <1>3, <1>6, <1>9, <2>2, <2>3 DEF Counts, Reports
<1>. QED BY <1>2, <1>3, <1>7, <1>8, <1>9 DEF t, k, x

LEMMA ResetBack ==
    ASSUME NEW r, QueueOK(r), r.backlog \in Int, NEW s, StOK(s)
    PROVE  /\ Keeps(r, Reset(r, s), s)
           /\ Counts(r, s, 0) => Counts(Reset(r, s), s, 0)
<1> DEFINE l == Left(r, s, r.tokens)
           ta == IF r.tokens = <<>> THEN l.taken ELSE r.tokens[Len(r.tokens)]
           p == Reset(r, s)
<1>1. r.tokens \in Seq(Int) /\ "backlog" \in DOMAIN r
  BY DEF QueueOK
<1>2. /\ QueueOK(l) /\ l.backlog \in Int /\ l.bound = r.bound /\ l.overflow = r.overflow
      /\ l.backlog = IF Reports(r, s) THEN r.backlog - Recent(r.tokens, s.T) ELSE r.backlog
  BY <1>1, LeftProps, LeftBack
<1>3. p = [l EXCEPT !.frames = <<>>, !.tokens = <<>>, !.bytes = 0,
                    !.overflowed = FALSE, !.taken = ta]
  BY DEF Reset
<1>. HIDE DEF l, ta, p
<1>4. /\ p.tokens = <<>> /\ p.backlog = l.backlog /\ p.bound = l.bound
      /\ p.overflow = l.overflow
  BY <1>2, <1>3 DEF QueueOK
<1>5. Recent(r.tokens, s.T) \in Nat /\ Recent(<<>>, s.T) = 0
  <2>1. s.T \in Int
    BY DEF StOK
  <2>. QED BY <1>1, <2>1, PositionsFinite, RecentEmpty
<1>6. Keeps(r, p, s)
  BY <1>2, <1>4 DEF Keeps, Low
<1>7. Counts(r, s, 0) => Counts(p, s, 0)
  BY <1>2, <1>4, <1>5 DEF Counts, Reports
<1>. QED BY <1>6, <1>7 DEF p

LEMMA BindBack ==
    ASSUME NEW r, QueueOK(r), NEW s, StOK(s), NEW b \in BOOLEAN
    PROVE  LET p == Bind(r, s, b)
           IN  /\ p.backlog \in Int /\ Low(p, s) /\ p.bound = b /\ p.overflow = r.overflow
               /\ Counts(p, s, 0)
<1> DEFINE c == [r EXCEPT !.bound = b, !.backlog = 0, !.taken = NoToken]
           to == [i \in DOMAIN r.frames |-> EnterToken(c, s)]
           p == Bind(r, s, b)
           n == Len(r.frames)
<1>1. n \in Nat /\ DOMAIN r.frames = 1..n
  BY LenProperties DEF QueueOK
<1>2. c.bound = b /\ c.overflow = r.overflow /\ c.backlog = 0
  BY DEF QueueOK
<1>3. /\ EnterToken(c, s) \in Int /\ EnterToken(c, s) <= s.T /\ s.T \in Int
      /\ b /\ s.live => EnterToken(c, s) = s.T
  BY <1>2 DEF EnterToken, NoToken, StOK, Reports
<1>4. to \in Seq(Int) /\ Len(to) = n /\ \A i \in 1..n : to[i] = EnterToken(c, s)
  <2>. HIDE DEF c, n
  <2>. QED BY <1>1, <1>3
<1>5. p = Entered([c EXCEPT !.tokens = to], s, n)
  BY DEF Bind
<1>6. /\ p.tokens = to /\ p.bound = b /\ p.overflow = r.overflow
      /\ p.backlog = IF b /\ s.live THEN 0 + n ELSE 0
  <2> DEFINE d == [c EXCEPT !.tokens = to]
  <2>1. /\ "backlog" \in DOMAIN d /\ d.tokens = to /\ d.bound = b /\ d.overflow = r.overflow
        /\ d.backlog = 0
    <3>. HIDE DEF to
    <3>. QED BY DEF QueueOK
  <2>2. p = Entered(d, s, n)
    BY <1>5
  <2>. HIDE DEF d, p, to, c
  <2>. QED BY <2>1, <2>2 DEF Entered, Reports
<1>. HIDE DEF c, to, p, n
<1>7. Low(p, s)
  BY <1>3, <1>4, <1>6 DEF Low
<1>8. Counts(p, s, 0)
  <2> SUFFICES ASSUME Reports(p, s) PROVE p.backlog = Recent(p.tokens, s.T) + 0
    BY DEF Counts
  <2>1. b /\ s.live
    BY <1>6 DEF Reports
  <2>2. Recent(to, s.T) = n
    BY <1>3, <1>4, <2>1, RecentAll
  <2>. QED BY <1>1, <1>6, <2>1, <2>2
<1>. QED BY <1>1, <1>6, <1>7, <1>8 DEF p

HeldNow == IF sender = "send" THEN One(held.token, st.T) ELSE 0

(* A queue that reports belongs to a client that is up, so the program's   *)
(* puts follow its own policy; and unless that policy drops the oldest     *)
(* frame, the token send() will report is the one of the frame it sends.   *)
Agrees ==
    q.overflow # "drop_old" /\ sock # "none" =>
        /\ Counts(q, st, HeldNow)
        /\ sender = "send" /\ q.bound => q.taken = held.token

BacklogInv ==
    /\ q.backlog \in Int /\ Low(q, st) /\ held.token <= st.T
    /\ q.bound => up
    /\ Agrees

LEMMA GetBack ==
    ASSUME NEW r, QueueOK(r), Len(r.tokens) = Len(r.frames), r.backlog \in Int,
           StOK(st), Low(r, st), GetFrame(r)
    PROVE  /\ Keeps(r, q', st) /\ held'.token <= st.T
           /\ Counts(r, st, 0) =>
                Counts(q', st, IF sender' = "send" THEN One(held'.token, st.T) ELSE 0)
           /\ sender' = "send" => q'.taken = held'.token
<1>0. NotHeld.token <= st.T
  BY DEF NotHeld, NoToken, StOK
<1>1. CASE SendFirst(r)
  <2>1. /\ r.frames # <<>> /\ q' = Take(r) /\ sender' = "send"
        /\ held' = [frame |-> Head(r.frames), token |-> Head(r.tokens)]
    BY <1>1 DEF SendFirst, CanTake
  <2>. QED BY <2>1, TakeBack
<1>2. CASE KeepFirst(r)
  <2>1. /\ r.frames # <<>> /\ q' = Unget(Take(r), Head(r.frames)) /\ sender' = "ended"
        /\ held' = NotHeld
    BY <1>2 DEF KeepFirst, CanTake
  <2>. QED BY <1>0, <2>1, TakeBack
<1>3. CASE WaitForFrame(r)
  <2>1. q' = [r EXCEPT !.ready = FALSE] /\ sender' = "wait" /\ held' = NotHeld
    BY <1>3 DEF WaitForFrame, Wait
  <2>2. /\ q'.tokens = r.tokens /\ q'.backlog = r.backlog
        /\ q'.bound = r.bound /\ q'.overflow = r.overflow
    BY <2>1 DEF QueueOK
  <2>. QED BY <1>0, <2>1, <2>2 DEF Keeps, Low, Counts, Reports
<1>4. CASE StopOnOverflow(r)
  <2>1. q' = Reset(r, st) /\ sender' = "ended" /\ held' = NotHeld
    BY <1>4 DEF StopOnOverflow
  <2>. QED BY <1>0, <2>1, ResetBack
<1>. QED BY <1>1, <1>2, <1>3, <1>4 DEF GetFrame

(* send() has ended: the token it took is uncounted.                       *)
LEMMA SentBack ==
    ASSUME TInv, BacklogInv, sender = "send"
    PROVE  LET r == Left(q, st, <<q.taken>>)
           IN  /\ r.backlog \in Int /\ Low(r, st)
               /\ r.bound = q.bound /\ r.overflow = q.overflow
               /\ q.overflow # "drop_old" /\ sock # "none" => Counts(r, st, 0)
<1> DEFINE r == Left(q, st, <<q.taken>>)
<1>1. /\ QueueOK(q) /\ StOK(st) /\ q.backlog \in Int /\ "backlog" \in DOMAIN q
      /\ q.taken \in Int /\ q.tokens \in Seq(Int) /\ st.T \in Int
  BY DEF TInv, OutTypeOK, StOK, QueueOK, BacklogInv
<1>2. <<q.taken>> \in Seq(Int)
  BY <1>1
<1>3. /\ r.backlog \in Int /\ r.tokens = q.tokens /\ r.bound = q.bound
      /\ r.overflow = q.overflow
      /\ r.backlog = IF Reports(q, st) THEN q.backlog - Recent(<<q.taken>>, st.T) ELSE q.backlog
  BY <1>1, <1>2, LeftBack
<1>4. Low(r, st)
  BY <1>3 DEF BacklogInv, Low
<1>. HIDE DEF r
<1>5. ASSUME q.overflow # "drop_old", sock # "none", Reports(r, st)
      PROVE  r.backlog = Recent(r.tokens, st.T) + 0
  <2>1. Reports(q, st) /\ q.bound
    BY <1>3, <1>5 DEF Reports
  <2>2. q.taken = held.token /\ q.backlog = Recent(q.tokens, st.T) + One(held.token, st.T)
    BY <1>5, <2>1 DEF BacklogInv, Agrees, Counts, HeldNow
  <2>3. Recent(<<q.taken>>, st.T) = One(q.taken, st.T)
    BY <1>1, RecentOne
  <2>4. Recent(q.tokens, st.T) \in Nat /\ One(q.taken, st.T) \in Nat
    BY <1>1, PositionsFinite DEF One
  <2>. QED BY <1>3, <2>1, <2>2, <2>3, <2>4
<1>. QED BY <1>3, <1>4, <1>5 DEF Counts, r

LEMMA BacklogStep == TInv /\ BacklogInv /\ [OutNext]_outVars => BacklogInv'
<1> SUFFICES ASSUME TInv, BacklogInv, [OutNext]_outVars PROVE BacklogInv'
  OBVIOUS
<1>0. /\ QueueOK(q) /\ Len(q.tokens) = Len(q.frames) /\ StOK(st)
      /\ q.backlog \in Int /\ Low(q, st) /\ held.token <= st.T /\ held.token \in Int
      /\ q.bound \in BOOLEAN
  BY DEF TInv, OutTypeOK, Aligned, StOK, BacklogInv, QueueOK
<1>1. ASSUME NEW f \in Frames, Enqueue(f) PROVE BacklogInv'
  <2>1. /\ UNCHANGED <<st, up, sock, sender, held>>
        /\ q' = q \/ q' = Put(q, st, f, PolicyNow)
    BY <1>1 DEF Enqueue
  <2>2. HeldNow' = HeldNow /\ HeldNow \in Int
    BY <2>1 DEF HeldNow, One
  <2>3. CASE q' = q
    BY <2>1, <2>2, <2>3 DEF BacklogInv, Agrees, Counts, Reports, Low
  <2>4. CASE q' = Put(q, st, f, PolicyNow)
    <3>1. /\ Keeps(q, q', st)
          /\ PolicyNow # "drop_old" =>
               q'.taken = q.taken /\ (Counts(q, st, HeldNow) => Counts(q', st, HeldNow))
      <4>1. PolicyNow \in Policies
        BY PolicyNowOK DEF TInv
      <4>. QED BY <1>0, <2>2, <2>4, <4>1, PutBack
    <3>2. q.bound /\ q.overflow # "drop_old" /\ sock # "none" => PolicyNow # "drop_old"
      BY DEF BacklogInv, PolicyNow, Offline
    <3>3. ASSUME q'.overflow # "drop_old", sock' # "none"
          PROVE  /\ Counts(q', st, HeldNow)
                 /\ sender = "send" /\ q'.bound => q'.taken = held.token
      <4>1. q.overflow # "drop_old" /\ sock # "none" /\ q'.bound = q.bound
        BY <2>1, <3>1, <3>3 DEF Keeps
      <4>2. CASE q.bound
        BY <3>1, <3>2, <4>1, <4>2 DEF BacklogInv, Agrees
      <4>3. CASE ~q.bound
        BY <4>1, <4>3 DEF Counts, Reports
      <4>. QED BY <1>0, <4>2, <4>3
    <3>4. Agrees'
      BY <2>1, <2>2, <3>3 DEF Agrees, Counts, Reports
    <3>. QED BY <1>0, <2>1, <3>1, <3>4 DEF BacklogInv, Keeps, Low
  <2>. QED BY <2>1, <2>3, <2>4
<1>2. ASSUME Attach PROVE BacklogInv'
  <2> DEFINE q0 == IF q.overflowed THEN Reset(q, st) ELSE q
  <2>1. QueueOK(q0)
    BY <1>0, ResetProps
  <2>2. q' = Bind(q0, st, TRUE) /\ up' /\ sender' = "greet" /\ UNCHANGED <<st, held>>
    BY <1>2 DEF Attach
  <2>. HIDE DEF q0
  <2>3. q'.backlog \in Int /\ Low(q', st) /\ Counts(q', st, 0)
    BY <1>0, <2>1, <2>2, BindBack
  <2>4. HeldNow' = 0
    BY <2>2 DEF HeldNow
  <2>. QED BY <1>0, <2>2, <2>3, <2>4 DEF BacklogInv, Agrees, Counts, Reports, Low
<1>3. ASSUME Detach \/ Abandon PROVE BacklogInv'
  <2>1. q' = Bind(q, st, FALSE) /\ UNCHANGED <<st, held>>
    BY <1>3 DEF Detach, Abandon
  <2>2. q'.backlog \in Int /\ Low(q', st) /\ ~q'.bound
    BY <1>0, <2>1, BindBack
  <2>. QED BY <1>0, <2>1, <2>2 DEF BacklogInv, Agrees, Counts, Reports, Low
<1>4. ASSUME Greeted \/ Woken \/ FrameSent PROVE BacklogInv'
  <2> DEFINE r == IF sender = "send" THEN Left(q, st, <<q.taken>>) ELSE q
  <2>1. /\ GetFrame(r) /\ UNCHANGED <<st, up, sock>>
    BY <1>4 DEF Greeted, Woken, FrameSent, Sent
  <2>2. QueueOK(r) /\ Len(r.tokens) = Len(r.frames)
    BY <1>0, LeftProps
  <2>3. /\ r.backlog \in Int /\ Low(r, st) /\ r.bound = q.bound /\ r.overflow = q.overflow
        /\ q.overflow # "drop_old" /\ sock # "none" => Counts(r, st, 0)
    BY <1>0, SentBack DEF BacklogInv, Agrees, HeldNow
  <2>. HIDE DEF r
  <2>4. /\ Keeps(r, q', st) /\ held'.token <= st.T
        /\ Counts(r, st, 0) =>
             Counts(q', st, IF sender' = "send" THEN One(held'.token, st.T) ELSE 0)
        /\ sender' = "send" => q'.taken = held'.token
    BY <1>0, <2>1, <2>2, <2>3, GetBack
  <2>5. HeldNow' = IF sender' = "send" THEN One(held'.token, st.T) ELSE 0
    BY <2>1 DEF HeldNow
  <2>6. Agrees'
    BY <2>1, <2>3, <2>4, <2>5 DEF Agrees, Keeps, Counts, Reports
  <2>. QED BY <2>1, <2>3, <2>4, <2>6 DEF BacklogInv, Keeps, Low
<1>5. ASSUME FrameLost PROVE BacklogInv'
  <2>1. /\ sender = "send" /\ q' = Left(q, st, <<q.taken>>) /\ held' = NotHeld
        /\ sender' = "ended" /\ UNCHANGED <<st, up, sock>>
    BY <1>5 DEF FrameLost, LostTaken
  <2>2. NotHeld.token <= st.T
    BY <1>0 DEF NotHeld, NoToken, StOK
  <2>3. /\ q'.backlog \in Int /\ Low(q', st) /\ q'.bound = q.bound /\ q'.overflow = q.overflow
        /\ q.overflow # "drop_old" /\ sock # "none" => Counts(q', st, 0)
    BY <2>1, SentBack
  <2>4. HeldNow' = 0
    BY <2>1 DEF HeldNow
  <2>. QED BY <2>1, <2>2, <2>3, <2>4 DEF BacklogInv, Agrees, Low, Counts, Reports
<1>6. ASSUME SenderStops \/ SocketCloses \/ Forget PROVE BacklogInv'
  <2>1. /\ UNCHANGED <<q, st, up, held>> /\ HeldNow' = HeldNow
        /\ sock' # "none" => sock # "none"
        /\ sender' = "send" => sender = "send"
    BY <1>6 DEF SenderStops, SocketCloses, Forget, HeldNow
  <2>. QED BY <2>1 DEF BacklogInv, Agrees, Low, Counts, Reports
<1>7. ASSUME SessionStarts PROVE BacklogInv'
  <2>1. /\ q' = [q EXCEPT !.backlog = 0] /\ st'.T = st.T + 1
        /\ UNCHANGED <<up, sock, sender, held>>
    BY <1>7 DEF SessionStarts
  <2>2. /\ q'.backlog = 0 /\ q'.tokens = q.tokens /\ q'.taken = q.taken
        /\ q'.bound = q.bound /\ q'.overflow = q.overflow
    BY <1>0, <2>1 DEF QueueOK
  <2>3. q.tokens \in Seq(Int) /\ st.T \in Int /\ \A i \in 1..Len(q.tokens) : q.tokens[i] \in Int
    BY <1>0, ElementOfSeq DEF QueueOK, StOK
  <2>4. \A i \in 1..Len(q.tokens) : q.tokens[i] < st.T + 1
    BY <1>0, <2>3 DEF Low
  <2>5. Recent(q.tokens, st.T + 1) = 0
    <3>1. q.tokens \in Seq(Int) /\ st.T + 1 \in Int
      BY <2>3
    <3>. QED BY <2>4, <3>1, RecentNone
  <2>6. HeldNow' = 0
    BY <1>0, <2>1, <2>3 DEF HeldNow, One
  <2>7. Counts(q', st', HeldNow')
    BY <2>1, <2>2, <2>5, <2>6 DEF Counts
  <2>8. Low(q', st') /\ held'.token <= st'.T
    BY <1>0, <2>1, <2>2, <2>3, <2>4 DEF Low
  <2>9. Agrees'
    BY <2>1, <2>2, <2>7 DEF BacklogInv, Agrees
  <2>. QED BY <2>1, <2>2, <2>8, <2>9 DEF BacklogInv, Low
<1>8. ASSUME SessionEnds PROVE BacklogInv'
  <2>1. /\ ~st'.live /\ st'.T = st.T /\ UNCHANGED <<q, up, sock, sender, held>>
    BY <1>0, <1>8 DEF SessionEnds, StOK
  <2>. QED BY <2>1 DEF BacklogInv, Agrees, Low, Counts, Reports
<1>9. ASSUME UNCHANGED outVars PROVE BacklogInv'
  BY <1>9 DEF outVars, BacklogInv, Agrees, Low, Counts, Reports, HeldNow
<1>. QED BY <1>1, <1>2, <1>3, <1>4, <1>5, <1>6, <1>7, <1>8, <1>9 DEF OutNext

LEMMA BacklogInit == OutInit => BacklogInv
<1> SUFFICES ASSUME OutInit PROVE BacklogInv
  OBVIOUS
<1>1. /\ q.tokens = <<>> /\ q.backlog = 0 /\ ~q.bound /\ st.T = 0 /\ held.token = NoToken
  BY DEF OutInit, EmptyQueue, NotHeld
<1>. QED BY <1>1 DEF BacklogInv, Agrees, Low, Counts, Reports, NoToken

(* The backlog a link reports is the number of frames queued or held that  *)
(* entered it in this session, through drops, overflows, reconnections and *)
(* sessions, for every queue that does not drop its oldest frames.         *)
THEOREM BacklogCounted == OutSpec => []BacklogExact
<1>1. BacklogInv => BacklogExact
  BY DEF BacklogInv, Agrees, Counts, HeldNow, One, Recent, Positions, BacklogExact
<1>. QED BY <1>1, BacklogInit, BacklogStep, TInvInit, TInvStep, PTL DEF OutSpec

-----------------------------------------------------------------------------
(* The client is an outbox.                                                *)

(* Only frames travel in inbox, so what reaches _enqueue is a frame.       *)
InboxOK == inbox \in Seq(Frames)

LEMMA InboxStep == InboxOK /\ [Next]_vars => InboxOK'
<1> SUFFICES ASSUME InboxOK, [Next]_vars PROVE InboxOK'
  OBVIOUS
<1>1. ASSUME NEW f \in Frames, OnNext(f) PROVE InboxOK'
  BY <1>1 DEF OnNext, InboxOK
<1>2. ASSUME RunEnqueue PROVE InboxOK'
  BY <1>2, HeadTailProperties DEF RunEnqueue, InboxOK
<1>3. ASSUME UNCHANGED inbox PROVE InboxOK'
  BY <1>3 DEF InboxOK
<1>4. ConnectTask => UNCHANGED inbox
  BY DEF ConnectTask, WakesUp, ConnectFails, ConnectRejected, Connects, ConnectionEnds,
         Joins, Closes, Unwinds, inVars
<1>5. Sender \/ SocketDrops \/ LoopStarts => UNCHANGED inbox
  BY DEF Sender, SenderWorks, SenderEnds, GreetingRaises, SocketDrops, LoopStarts, inVars
<1>6. Closing \/ RequestsShutdown \/ AsksToClose \/ Returns => UNCHANGED inbox
  BY DEF Closing, CloserRuns, CloserCancels, CloserStops, RequestsShutdown,
         AsksToClose, Returns, inVars
<1>7. UNCHANGED vars => UNCHANGED inbox
  BY DEF vars, inVars
<1>. QED BY <1>1, <1>2, <1>3, <1>4, <1>5, <1>6, <1>7 DEF Next

LEMMA StepRefines == InboxOK /\ [Next]_vars => [OutNext]_outVars
<1> SUFFICES ASSUME InboxOK, [Next]_vars PROVE [OutNext]_outVars
  OBVIOUS
<1>1. ASSUME NEW f \in Frames, OnNext(f) PROVE UNCHANGED outVars
  BY <1>1 DEF OnNext
<1>2. ASSUME RunEnqueue PROVE OutNext
  <2>1. Head(inbox) \in Frames
    BY <1>2, HeadTailProperties DEF RunEnqueue, InboxOK
  <2>. QED BY <1>2, <2>1 DEF RunEnqueue, OutNext
<1>3. ASSUME ConnectTask PROVE OutNext \/ UNCHANGED outVars
  BY <1>3 DEF ConnectTask, WakesUp, ConnectFails, ConnectRejected, Connects,
              ConnectionEnds, Joins, Closes, Unwinds, OutNext
<1>4. ASSUME Sender \/ SocketDrops \/ LoopStarts PROVE OutNext \/ UNCHANGED outVars
  BY <1>4 DEF Sender, SenderWorks, SenderEnds, GreetingRaises, SocketDrops, LoopStarts,
              OutNext
<1>5. ASSUME Closing \/ RequestsShutdown \/ AsksToClose \/ Returns
      PROVE  OutNext \/ UNCHANGED outVars
  BY <1>5 DEF Closing, CloserRuns, CloserCancels, CloserStops, RequestsShutdown,
              AsksToClose, Returns, OutNext
<1>6. UNCHANGED vars => UNCHANGED outVars
  BY DEF vars
<1>. QED BY <1>1, <1>2, <1>3, <1>4, <1>5, <1>6 DEF Next

(* RxWSClient refines Outbox.                                              *)
THEOREM ClientRefinesOutbox == Spec => OutSpec
<1>1. Init => OutInit /\ InboxOK
  BY DEF Init, InboxOK
<1>. QED BY <1>1, InboxStep, StepRefines, PTL DEF Spec, OutSpec

(* So the peer of a client receives frames in order and none twice, every  *)
(* frame that reached the queue is accounted for, the queue respects its   *)
(* bound, and no wake-up is lost, across any number of connections.        *)
THEOREM ClientKeepsPromises ==
    Spec => [](OutTypeOK /\ InOrder /\ Accounted /\ FramesBound /\ NoLostWakeup)
BY ClientRefinesOutbox, TypeCorrect, FramesInOrder, EveryFrameAccounted, QueueBounded,
   WakeupNeverLost, PTL
-----------------------------------------------------------------------------
(* The connect task, its retries and its shutdown.                         *)

TaskTypes ==
    /\ task \in TaskStates /\ attempt \in 0..MaxAttempts
    /\ task = "sleep" => attempt > 0
    /\ failed \in BOOLEAN /\ shutdown \in BOOLEAN
    /\ cstate \in ConnectionStates
    /\ caller \in {"idle", "flagged", "joining", "done"}
    /\ closer \in {"none", "asked", "closing", "grace", "done"}
    /\ loop \in {"starting", "running", "stopped"}

InTypes ==
    /\ buffering \in BOOLEAN
    /\ given \in Frames \union {NoFrame} /\ discarded \in Nat /\ inbox \in Seq(Frames)

LEMMA TaskTypesStep == TaskTypes /\ [Next]_vars => TaskTypes'
<1> SUFFICES ASSUME TaskTypes, [Next]_vars PROVE TaskTypes'
  OBVIOUS
<1>. USE DEF TaskTypes, TaskStates, ConnectionStates
<1>0. /\ 1 \in 0..MaxAttempts /\ MaxAttempts > 0
      /\ NextAttempt \in 0..MaxAttempts /\ NextAttempt > 0
  BY WSClientAssumption DEF NextAttempt
<1>1. \A s \in ConnectionStates : Emitted(s) \in ConnectionStates
  BY DEF Emitted
<1>2. \A n \in 0..MaxAttempts, s \in ConnectionStates :
         TriesAgain(n) \/ Leaves(n, s) =>
            /\ task' \in TaskStates \ {"sleep"} /\ attempt' = n
            /\ shutdown' \in BOOLEAN /\ cstate' \in ConnectionStates
            /\ loop' \in {"starting", "running", "stopped"}
  BY <1>1 DEF TriesAgain, Leaves, Finally, Released
<1>3. CASE ConnectTask
  <2>1. CASE WakesUp
    BY <1>2, <2>1 DEF WakesUp, inVars
  <2>2. CASE ConnectFails \/ ConnectRejected
    BY <1>0, <1>1, <2>2 DEF ConnectFails, BacksOff, ConnectRejected, Finally, Released, endVars
  <2>4. CASE Connects \/ ConnectionEnds
    BY <1>1, <2>4 DEF Connects, ConnectionEnds, endVars
  <2>5. CASE Closes
    BY <2>5 DEF Closes, Released, endVars
  <2>6. CASE Unwinds
    BY <2>6 DEF Unwinds, Released, endVars
  <2>3. CASE Joins
    BY <1>0, <1>1, <1>2, <2>3 DEF Joins, AfterConnection, AfterStable, AfterShort, BacksOff,
       AfterFailure, Finally, Released
  <2>. QED BY <1>3, <2>1, <2>2, <2>3, <2>4, <2>5, <2>6 DEF ConnectTask
<1>4. CASE Sender \/ SocketDrops
  <2>1. UNCHANGED <<task, attempt, cstate, endVars>> /\ (failed' = failed \/ failed' = TRUE)
    BY <1>4 DEF Sender, SenderWorks, SenderEnds, GreetingRaises, SocketDrops, taskVars
  <2>2. UNCHANGED <<task, attempt, cstate, shutdown, caller, closer, loop>>
    BY <2>1 DEF endVars
  <2>3. failed' \in BOOLEAN
    BY <2>1
  <2>. QED BY <2>2, <2>3
<1>7. CASE LoopStarts \/ RunEnqueue \/ \E f \in Frames : OnNext(f)
  BY <1>7 DEF LoopStarts, RunEnqueue, OnNext, taskVars, endVars
<1>5. CASE Closing \/ RequestsShutdown \/ AsksToClose \/ Returns
  BY <1>1, <1>5 DEF Closing, CloserRuns, CloserCancels, CloserStops, RequestsShutdown,
     AsksToClose, Returns, taskVars
<1>6. CASE UNCHANGED vars
  BY <1>6 DEF vars, taskVars, endVars
<1>. QED BY <1>3, <1>4, <1>5, <1>6, <1>7 DEF Next

(* What only on_next and _enqueue change: the frames given, those on their  *)
(* way to the loop, and those that reached it.                             *)
ArrivalVars == <<inVars, last, accepted>>

LEMMA OthersLeaveArrivals ==
    ASSUME [Next]_vars, ~RunEnqueue, \A f \in Frames : ~OnNext(f)
    PROVE  UNCHANGED ArrivalVars
<1>. USE DEF ArrivalVars
<1>2. CASE ConnectTask
  BY <1>2 DEF ConnectTask, WakesUp, ConnectFails, ConnectRejected, Connects, ConnectionEnds,
     Joins, Closes, Unwinds, outVars, Abandon, Attach, Detach, Forget
<1>3. CASE Sender \/ SocketDrops \/ LoopStarts
  BY <1>3 DEF Sender, SenderWorks, SenderEnds, GreetingRaises, SocketDrops, LoopStarts,
     outVars, Greeted, Woken, FrameSent, FrameLost, SenderStops, SocketCloses
<1>4. CASE Closing \/ RequestsShutdown \/ AsksToClose \/ Returns
  BY <1>4 DEF Closing, CloserRuns, CloserCancels, CloserStops, RequestsShutdown,
     AsksToClose, Returns, outVars, SocketCloses, Forget
<1>5. CASE UNCHANGED vars
  BY <1>5 DEF vars, outVars
<1>. QED BY <1>2, <1>3, <1>4, <1>5 DEF Next

LEMMA InTypesStep == InTypes /\ [Next]_vars => InTypes'
<1> SUFFICES ASSUME InTypes, [Next]_vars PROVE InTypes'
  OBVIOUS
<1>1. CASE \E f \in Frames : OnNext(f)
  BY <1>1 DEF InTypes, OnNext
<1>2. CASE RunEnqueue
  BY <1>2, HeadTailProperties DEF InTypes, RunEnqueue
<1>3. CASE UNCHANGED inVars
  BY <1>3 DEF InTypes, inVars
<1>. QED BY <1>1, <1>2, <1>3, OthersLeaveArrivals DEF ArrivalVars

CliInv == TInv /\ TaskTypes /\ InTypes

LEMMA CliInit == Init => CliInv
<1> SUFFICES ASSUME Init PROVE CliInv
  OBVIOUS
<1>1. TaskTypes
  <2>1. attempt \in 0..MaxAttempts
    BY WSClientAssumption DEF Init
  <2>. QED BY <2>1 DEF Init, TaskTypes, TaskStates, ConnectionStates
<1>2. InTypes
  BY WSClientAssumption DEF Init, InTypes
<1>. QED BY <1>1, <1>2, TInvInit DEF Init, CliInv

LEMMA CliStep == CliInv /\ [Next]_vars => CliInv'
BY TaskTypesStep, InTypesStep, StepRefines, TInvStep DEF CliInv, InTypes, InboxOK

(* Every variable of the client keeps its type, for any bounds and any     *)
(* number of retries; a delay is only asked for an attempt that was made.  *)
THEOREM ClientTypes == Spec => []CliTypeOK
<1>1. CliInv => CliTypeOK
  BY DEF CliInv, TInv, TaskTypes, InTypes, CliTypeOK
<1>. QED BY CliInit, CliStep, <1>1, PTL DEF Spec

-----------------------------------------------------------------------------
(* Conservation from on_next on: a frame is discarded, on its way to the   *)
(* loop, or has reached it; Accounted says what becomes of it there.       *)
Given == {f \in Frames : f <= given}

Arrived == Cardinality(Given) = discarded + Len(inbox) + accepted

LEMMA FramesPositive == \A f \in Frames : f \in Nat /\ 0 < f
BY OutboxAssumption

LEMMA GivenGrows ==
    ASSUME given \in Frames \union {NoFrame}, NEW f \in Frames, OnNext(f)
    PROVE  /\ IsFiniteSet(Given) /\ Cardinality(Given) \in Nat
           /\ Cardinality(Given') = Cardinality(Given) + 1
<1>0. given \in Nat
  BY FramesPositive DEF NoFrame
<1>1. IsFiniteSet(Given)
  <2>1. \A g \in Given : g \in 0..given
    BY <1>0, FramesPositive DEF Given
  <2>2. IsFiniteSet(0..given)
    BY <1>0, FS_Interval
  <2>. QED BY <2>1, <2>2, FS_Subset
<1>2. Given' = Given \union {f} /\ f \notin Given
  <2>1. given' = f /\ f > given /\ \A g \in Frames : g > given => f <= g
    BY DEF OnNext
  <2>2. \A g : g \in Given' <=> g \in Frames /\ g <= f
    BY <2>1 DEF Given
  <2>3. \A g : g \in Given <=> g \in Frames /\ g <= given
    BY DEF Given
  <2>4. \A g \in Frames : g <= f <=> g <= given \/ g = f
    BY <1>0, <2>1, FramesPositive
  <2>5. ~(f <= given)
    BY <1>0, <2>1, FramesPositive
  <2>. QED BY <2>2, <2>3, <2>4, <2>5
<1>3. Cardinality(Given \union {f}) = Cardinality(Given) + 1
  BY <1>1, <1>2, FS_AddElement
<1>. QED BY <1>1, <1>2, <1>3, FS_CardinalityType

LEMMA ArrivedStep == CliInv /\ Arrived /\ [Next]_vars => Arrived'
<1> SUFFICES ASSUME CliInv, Arrived, [Next]_vars PROVE Arrived'
  OBVIOUS
<1>0. /\ given \in Frames \union {NoFrame} /\ discarded \in Nat /\ inbox \in Seq(Frames)
      /\ accepted \in Nat /\ Len(inbox) \in Nat
  BY LenProperties DEF CliInv, InTypes, TInv, OutTypeOK
<1>1. ASSUME NEW f \in Frames, OnNext(f) PROVE Arrived'
  <2>1. accepted' = accepted
    BY <1>1 DEF OnNext, outVars
  <2>2. Cardinality(Given') = Cardinality(Given) + 1
    BY <1>0, <1>1, GivenGrows
  <2>3. discarded' + Len(inbox') = discarded + Len(inbox) + 1
    BY <1>0, <1>1, AppendProperties DEF OnNext
  <2>4. discarded' \in Nat /\ Len(inbox') \in Nat
    BY <1>0, <1>1, AppendProperties DEF OnNext
  <2>. QED BY <1>0, <2>1, <2>2, <2>3, <2>4 DEF Arrived
<1>2. CASE RunEnqueue
  <2>1. Given' = Given /\ discarded' = discarded /\ accepted' = accepted + 1
    BY <1>2 DEF RunEnqueue, Enqueue, Given
  <2>2. Len(inbox') = Len(inbox) - 1
    BY <1>0, <1>2, HeadTailProperties DEF RunEnqueue
  <2>. QED BY <1>0, <2>1, <2>2 DEF Arrived
<1>3. CASE UNCHANGED ArrivalVars
  BY <1>3 DEF ArrivalVars, inVars, Arrived, Given
<1>. QED BY <1>1, <1>2, <1>3, OthersLeaveArrivals

(* Every frame given to a client is sent, counted as dropped, or still on  *)
(* its way, across both threads and any number of connections.             *)
THEOREM EveryFrameKnown == Spec => []EveryFrame
<1>1. Init => Arrived
  <2> SUFFICES ASSUME Init PROVE Arrived
    OBVIOUS
  <2>1. Given = {}
    BY FramesPositive DEF Init, Given, NoFrame
  <2>. QED BY <2>1, FS_EmptySet DEF Init, OutInit, Arrived
<1>2. CliInv /\ Arrived /\ Accounted => EveryFrame
  <2> SUFFICES ASSUME CliInv, Arrived, Accounted PROVE EveryFrame
    OBVIOUS
  <2>1. /\ discarded \in Nat /\ Len(inbox) \in Nat /\ acked \in Nat /\ counted \in Nat
        /\ Len(q.frames) \in Nat /\ InFlight \in Nat /\ accepted \in Nat
    BY LenProperties DEF CliInv, InTypes, TInv, OutTypeOK, QueueOK, InFlight
  <2>2. accepted = acked + counted + Len(q.frames) + InFlight
    BY DEF Accounted
  <2>3. Cardinality(Given) = discarded + Len(inbox) + accepted
    BY DEF Arrived
  <2>4. Cardinality(Given) = discarded + Len(inbox) + acked + counted + Len(q.frames) + InFlight
    <3> DEFINE waiting == Len(inbox)
               queued == Len(q.frames)
               flying == InFlight
    <3>1. waiting \in Nat /\ queued \in Nat /\ flying \in Nat
      BY <2>1
    <3>2. accepted = acked + counted + queued + flying
      BY <2>2
    <3>3. Cardinality(Given) = discarded + waiting + accepted
      BY <2>3
    <3>. HIDE DEF waiting, queued, flying
    <3>4. Cardinality(Given) = discarded + waiting + acked + counted + queued + flying
      BY <2>1, <3>1, <3>2, <3>3
    <3>. QED BY <3>4 DEF waiting, queued, flying
  <2>. QED BY <2>4 DEF EveryFrame, Given
<1>3. Spec => []Accounted
  BY ClientRefinesOutbox, EveryFrameAccounted, PTL
<1>. QED BY <1>1, <1>2, <1>3, CliInit, CliStep, ArrivedStep, PTL DEF Spec

-----------------------------------------------------------------------------
(* Order from on_next on: what is on its way to the loop is newer than all *)
(* that reached it, and no newer than the newest frame given.              *)
Newer ==
    /\ Increasing(inbox)
    /\ \A i \in 1..Len(inbox) : last < inbox[i] /\ inbox[i] <= given
    /\ last <= given

LEMMA NewerStep == CliInv /\ Newer /\ [Next]_vars => Newer'
<1> SUFFICES ASSUME CliInv, Newer, [Next]_vars PROVE Newer'
  OBVIOUS
<1>a. /\ given \in Nat /\ last \in Nat /\ inbox \in Seq(Frames)
  BY FramesPositive DEF CliInv, InTypes, TInv, OutTypeOK, NoFrame
<1>b. Len(inbox) \in Nat /\ \A i \in 1..Len(inbox) : inbox[i] \in Frames
  BY <1>a, LenProperties, ElementOfSeq
<1>0. /\ given \in Nat /\ last \in Nat /\ inbox \in Seq(Frames)
      /\ Len(inbox) \in Nat /\ \A i \in 1..Len(inbox) : inbox[i] \in Nat
      /\ \A f \in Frames : f \in Nat
  BY <1>a, <1>b, FramesPositive
<1>1. ASSUME NEW f \in Frames, OnNext(f) PROVE Newer'
  <2>1. last' = last /\ given' = f /\ f > given
    BY <1>1 DEF OnNext, outVars
  <2>2. CASE inbox' = inbox
    BY <1>0, <2>1, <2>2 DEF Newer, Increasing
  <2>3. CASE inbox' = Append(inbox, f)
    <3>1. /\ Len(inbox') = Len(inbox) + 1
          /\ \A i \in 1..Len(inbox) : inbox'[i] = inbox[i]
          /\ inbox'[Len(inbox) + 1] = f
      BY <1>0, <2>3, AppendProperties
    <3>2. f \in Nat /\ \A i \in 1..Len(inbox) : inbox[i] < f /\ last < inbox[i]
      BY <1>0, <2>1 DEF Newer
    <3>3. \A i \in 1..Len(inbox') : inbox'[i] <= f /\ last < inbox'[i]
      BY <1>0, <2>1, <3>1, <3>2 DEF Newer
    <3>4. Increasing(inbox')
      <4>1. ASSUME NEW i \in 1..Len(inbox'), NEW j \in 1..Len(inbox'), i < j
            PROVE  inbox'[i] < inbox'[j]
        <5>1. i \in 1..Len(inbox) /\ (j \in 1..Len(inbox) \/ j = Len(inbox) + 1)
          BY <1>0, <3>1, <4>1
        <5>. QED BY <1>0, <3>1, <3>2, <4>1, <5>1 DEF Newer, Increasing
      <4>. QED BY <4>1 DEF Increasing
    <3>. QED BY <1>0, <2>1, <3>3, <3>4 DEF Newer
  <2>. QED BY <1>1, <2>2, <2>3 DEF OnNext
<1>2. CASE RunEnqueue
  <2>1. last' = inbox[1] /\ inbox' = Tail(inbox) /\ given' = given /\ inbox # <<>>
    BY <1>2 DEF RunEnqueue, Enqueue
  <2>2. /\ Len(inbox') = Len(inbox) - 1 /\ Len(inbox) > 0
        /\ \A i \in 1..Len(inbox') : inbox'[i] = inbox[i + 1]
    BY <1>0, <2>1, HeadTailProperties, EmptySeq
  <2>. QED BY <1>0, <2>1, <2>2 DEF Newer, Increasing
<1>3. CASE UNCHANGED ArrivalVars
  BY <1>3 DEF ArrivalVars, inVars, Newer, Increasing
<1>. QED BY <1>1, <1>2, <1>3, OthersLeaveArrivals

(* Two increasing sequences, the second above the first, are one.          *)
LEMMA IncreasingConcat ==
    ASSUME NEW s \in Seq(Nat), NEW t \in Seq(Nat),
           Increasing(s), Increasing(t), Before(s, t)
    PROVE  s \o t \in Seq(Nat) /\ Increasing(s \o t)
<1>1. /\ Len(s) \in Nat /\ Len(t) \in Nat
      /\ s \o t \in Seq(Nat) /\ Len(s \o t) = Len(s) + Len(t)
      /\ \A i \in 1..Len(s) : (s \o t)[i] = s[i] /\ s[i] \in Nat
      /\ \A i \in Len(s) + 1..Len(s) + Len(t) :
            (s \o t)[i] = t[i - Len(s)] /\ i - Len(s) \in 1..Len(t)
  BY ConcatProperties, LenProperties
<1>2. ASSUME NEW i \in 1..Len(s \o t), NEW j \in 1..Len(s \o t), i < j
      PROVE  (s \o t)[i] < (s \o t)[j]
  <2>1. CASE j <= Len(s)
    BY <1>1, <1>2, <2>1 DEF Increasing
  <2>2. CASE i <= Len(s) /\ j > Len(s)
    BY <1>1, <1>2, <2>2 DEF Before
  <2>3. CASE i > Len(s)
    <3>1. /\ i \in Len(s) + 1..Len(s) + Len(t) /\ j \in Len(s) + 1..Len(s) + Len(t)
          /\ i - Len(s) < j - Len(s)
      BY <1>1, <1>2, <2>3
    <3>2. t[i - Len(s)] < t[j - Len(s)]
      BY <1>1, <3>1 DEF Increasing
    <3>. QED BY <1>1, <3>1, <3>2
  <2>. QED BY <1>1, <1>2, <2>1, <2>2, <2>3
<1>. QED BY <1>1, <1>2 DEF Increasing

LEMMA BeforeConcat ==
    ASSUME NEW r \in Seq(Nat), NEW s \in Seq(Nat), NEW t \in Seq(Nat),
           Before(r, t), Before(s, t)
    PROVE  Before(r \o s, t)
<1>1. /\ Len(r) \in Nat /\ Len(s) \in Nat /\ Len(t) \in Nat
      /\ Len(r \o s) = Len(r) + Len(s)
      /\ \A i \in 1..Len(r) : (r \o s)[i] = r[i]
      /\ \A i \in Len(r) + 1..Len(r) + Len(s) :
            (r \o s)[i] = s[i - Len(r)] /\ i - Len(r) \in 1..Len(s)
  BY ConcatProperties, LenProperties
<1>2. ASSUME NEW i \in 1..Len(r \o s), NEW j \in 1..Len(t) PROVE (r \o s)[i] < t[j]
  <2>1. CASE i <= Len(r)
    BY <1>1, <1>2, <2>1 DEF Before
  <2>2. CASE i > Len(r)
    <3>1. (r \o s)[i] = s[i - Len(r)] /\ i - Len(r) \in 1..Len(s)
      BY <1>1, <1>2, <2>2
    <3>. QED BY <1>2, <3>1 DEF Before
  <2>. QED BY <1>1, <1>2, <2>1, <2>2
<1>. QED BY <1>2 DEF Before

(* Frames keep the order of the on_next calls, and none is sent twice,     *)
(* from the program's thread to the peer and across reconnections.         *)
THEOREM ClientKeepsOrder == Spec => []OrderKept
<1>1. Init => Newer
  BY DEF Init, OutInit, Newer, Increasing, NoFrame
<1>2. CliInv /\ Newer /\ InOrder => OrderKept
  <2> SUFFICES ASSUME CliInv, Newer, InOrder PROVE OrderKept
    OBVIOUS
  <2>1. /\ delivered \in Seq(Nat) /\ Holding \in Seq(Nat) /\ q.frames \in Seq(Nat)
        /\ inbox \in Seq(Nat) /\ last \in Nat
    <3>1. Frames \subseteq Nat
      BY FramesPositive
    <3>2. Seq(Frames) \subseteq Seq(Nat)
      BY <3>1, SeqMonotonic
    <3>3. /\ delivered \in Seq(Frames) /\ q.frames \in Seq(Frames)
          /\ inbox \in Seq(Frames) /\ last \in Frames \union {NoFrame}
          /\ sender = "send" => held.frame \in Frames
      BY DEF CliInv, TInv, OutTypeOK, QueueOK, HeldOK, InTypes
    <3>4. ASSUME sender = "send" PROVE <<held.frame>> \in Seq(Nat)
      <4>1. held.frame \in Nat
        BY <3>1, <3>3, <3>4
      <4>. QED BY <4>1
    <3>5. <<>> \in Seq(Nat)
      BY EmptySeq
    <3>. QED BY <3>1, <3>2, <3>3, <3>4, <3>5 DEF Holding, NoFrame
  <2>2. Increasing(Holding)
    BY DEF Increasing, Holding
  <2>3. Before(delivered, inbox) /\ Before(Holding, inbox) /\ Before(q.frames, inbox)
    <3>1. ASSUME NEW s \in {delivered, Holding, q.frames} PROVE Before(s, inbox)
      <4>1. \A i \in 1..Len(s) : s[i] <= last /\ s[i] \in Nat
        BY <2>1, LenProperties DEF InOrder, Ordered
      <4>2. \A j \in 1..Len(inbox) : last < inbox[j] /\ inbox[j] \in Nat /\ last \in Nat
        BY <2>1, LenProperties DEF Newer
      <4>. QED BY <4>1, <4>2 DEF Before
    <3>. QED BY <3>1
  <2>4. delivered \o Holding \in Seq(Nat) /\ Increasing(delivered \o Holding)
    BY <2>1, <2>2, IncreasingConcat DEF InOrder, Ordered
  <2>5. /\ delivered \o Holding \o q.frames \in Seq(Nat)
        /\ Increasing(delivered \o Holding \o q.frames)
    BY <2>1, <2>4, IncreasingConcat, BeforeConcat DEF InOrder, Ordered
  <2>6. Before(delivered \o Holding \o q.frames, inbox)
    BY <2>1, <2>3, <2>4, BeforeConcat
  <2>. QED BY <2>1, <2>5, <2>6, IncreasingConcat DEF Newer, OrderKept
<1>3. Spec => []InOrder
  BY ClientRefinesOutbox, FramesInOrder, PTL
<1>. QED BY <1>1, <1>2, <1>3, CliInit, CliStep, NewerStep, PTL DEF Spec

-----------------------------------------------------------------------------
(* What the connect task lets go of.  Only bind() changes whether the      *)
(* queue reports, and the task binds it to nothing as it leaves.           *)

LEMMA LeftBound ==
    ASSUME NEW r, QueueOK(r), NEW s, NEW toks
    PROVE  Left(r, s, toks).bound = r.bound
BY DEF Left, QueueOK

LEMMA PushedBound ==
    ASSUME NEW r, QueueOK(r), NEW s, NEW f
    PROVE  Pushed(r, s, f).bound = r.bound
BY DEF Pushed, Entered, QueueOK

LEMMA EvictBound ==
    ASSUME NEW r, QueueOK(r), NEW s, NEW n
    PROVE  Evict(r, s, n).bound = r.bound
<1> DEFINE e0 == [r EXCEPT !.frames = Rest(@, n), !.tokens = Rest(@, n),
                           !.bytes = @ - Bytes(Cut(r.frames, n)),
                           !.dropped = @ + n,
                           !.taken = IF n = 0 THEN @ ELSE r.tokens[n]]
<1>1. e0.bound = r.bound
  BY DEF QueueOK
<1>2. DOMAIN e0 = DOMAIN r /\ {"bound", "backlog"} \subseteq DOMAIN r
  BY DEF QueueOK
<1>3. \A x : [e0 EXCEPT !.backlog = x].bound = e0.bound
  <2>. HIDE DEF e0
  <2>. QED BY <1>2
<1>4. Evict(r, s, n) = Left(e0, s, Cut(r.tokens, n))
  BY DEF Evict
<1>. HIDE DEF e0
<1>. QED BY <1>1, <1>3, <1>4 DEF Left

LEMMA PutBound ==
    ASSUME NEW r, QueueOK(r), Len(r.tokens) = Len(r.frames), NEW s, NEW f \in Frames,
           NEW policy \in Policies
    PROVE  Put(r, s, f, policy).bound = r.bound
<1>1. CASE ~Full(r, SizeOf(f))
  BY <1>1, PushedBound DEF Put
<1>2. CASE Full(r, SizeOf(f)) /\ policy \in {"drop_new", "disconnect"}
  BY <1>2 DEF Put, QueueOK
<1>3. CASE Full(r, SizeOf(f)) /\ policy = "drop_old"
  <2> DEFINE n == Rounds(r, s, SizeOf(f))
             e == Evict(r, s, n)
  <2>1. Put(r, s, f, policy) = Pushed(e, s, f)
    BY <1>3 DEF Put
  <2>2. n \in 0..Len(r.frames)
    BY RoundsProps
  <2>. HIDE DEF n
  <2>3. QueueOK(e) /\ e.bound = r.bound
    BY <2>2, EvictProps, EvictBound
  <2>. HIDE DEF e
  <2>. QED BY <2>1, <2>3, PushedBound
<1>. QED BY <1>1, <1>2, <1>3 DEF Policies

LEMMA GetBound ==
    ASSUME NEW r, QueueOK(r), Len(r.tokens) = Len(r.frames), GetFrame(r)
    PROVE  q'.bound = r.bound
<1>1. CASE SendFirst(r)
  BY <1>1 DEF SendFirst, Take, QueueOK
<1>2. CASE KeepFirst(r)
  BY <1>2 DEF KeepFirst, Take, Unget, QueueOK
<1>3. CASE WaitForFrame(r)
  BY <1>3 DEF WaitForFrame, Wait, QueueOK
<1>4. CASE StopOnOverflow(r)
  <2> DEFINE l == Left(r, st, r.tokens)
  <2>1. QueueOK(l) /\ l.bound = r.bound
    BY LeftProps, LeftBound
  <2>2. q' = [l EXCEPT !.frames = <<>>, !.tokens = <<>>, !.bytes = 0, !.overflowed = FALSE,
                       !.taken = IF r.tokens = <<>> THEN @ ELSE r.tokens[Len(r.tokens)]]
    BY <1>4 DEF StopOnOverflow, Reset
  <2>. HIDE DEF l
  <2>. QED BY <2>1, <2>2 DEF QueueOK
<1>. QED BY <1>1, <1>2, <1>3, <1>4 DEF GetFrame

LEMMA SenderBound ==
    ASSUME TInv, Greeted \/ Woken \/ FrameSent \/ FrameLost \/ SenderStops
    PROVE  q'.bound = q.bound /\ sock' = sock
<1>0. QueueOK(q) /\ Len(q.tokens) = Len(q.frames)
  BY DEF TInv, OutTypeOK, Aligned
<1>1. CASE Greeted \/ Woken
  BY <1>0, <1>1, GetBound DEF Greeted, Woken
<1>2. CASE FrameSent
  <2>1. /\ QueueOK(Sent(q, st)) /\ Len(Sent(q, st).tokens) = Len(Sent(q, st).frames)
        /\ Sent(q, st).bound = q.bound
    BY <1>0, LeftProps, LeftBound DEF Sent
  <2>. QED BY <1>2, <2>1, GetBound DEF FrameSent
<1>3. CASE FrameLost
  BY <1>0, <1>3, LeftBound DEF FrameLost, LostTaken
<1>4. CASE SenderStops
  BY <1>4 DEF SenderStops
<1>. QED BY <1>1, <1>2, <1>3, <1>4

(* A task that awaits the final close, or has ended, reports no more; a    *)
(* client whose tasks are being cancelled has let go of its socket.        *)
LeavesInv ==
    /\ task \in {"closing", "ended"} => ~q.bound
    /\ task = "ended" \/ closer = "grace" => sock = "none"

LEMMA UnboundProps == QueueOK(q) => ~Bind(q, st, FALSE).bound
BY DEF QueueOK, Bind, Entered, Reports

LEMMA LeavesStep == CliInv /\ LeavesInv /\ [Next]_vars => LeavesInv'
<1> SUFFICES ASSUME CliInv, LeavesInv, [Next]_vars PROVE LeavesInv'
  OBVIOUS
<1>0. /\ TInv /\ QueueOK(q) /\ Len(q.tokens) = Len(q.frames) /\ OutTypeOK
      /\ ~Bind(q, st, FALSE).bound
  BY UnboundProps DEF CliInv, TInv, OutTypeOK, Aligned
<1>1. CASE RunEnqueue
  <2>1. Head(inbox) \in Frames
    BY <1>1, HeadTailProperties DEF RunEnqueue, CliInv, InTypes
  <2>2. Enqueue(Head(inbox)) /\ UNCHANGED <<task, closer>>
    BY <1>1 DEF RunEnqueue, taskVars, endVars
  <2>3. q'.bound = q.bound /\ sock' = sock
    BY <1>0, <2>1, <2>2, PutBound, PolicyNowOK DEF Enqueue
  <2>. QED BY <2>2, <2>3 DEF LeavesInv
<1>2. CASE Sender
  <2>1. Greeted \/ Woken \/ FrameSent \/ FrameLost \/ SenderStops
    BY <1>2 DEF Sender, SenderWorks, SenderEnds, GreetingRaises
  <2>2. UNCHANGED <<task, closer>>
    BY <1>2 DEF Sender, SenderWorks, SenderEnds, GreetingRaises, taskVars, endVars
  <2>. QED BY <1>0, <2>1, <2>2, SenderBound DEF LeavesInv
<1>3. CASE ConnectTask
  <2>1. CASE WakesUp
    BY <1>0, <2>1 DEF WakesUp, TriesAgain, Leaves, Finally, Released, Abandon, Cancelling,
       outVars, LeavesInv
  <2>2. CASE ConnectFails \/ ConnectionEnds
    BY <2>2 DEF ConnectFails, BacksOff, ConnectionEnds, outVars, endVars, Cancelling, LeavesInv
  <2>3. CASE ConnectRejected
    BY <1>0, <2>3 DEF ConnectRejected, Finally, Released, Abandon, Cancelling, LeavesInv
  <2>4. CASE Connects
    BY <2>4 DEF Connects, endVars, Cancelling, LeavesInv
  <2>5. CASE Joins
    BY <1>0, <2>5 DEF Joins, AfterConnection, AfterStable, AfterShort, AfterFailure, BacksOff,
       TriesAgain, Leaves, Finally, Released, Detach, Cancelling, LeavesInv
  <2>6. CASE Closes
    BY <2>6 DEF Closes, Released, Forget, Cancelling, LeavesInv
  <2>7. CASE Unwinds
    BY <1>0, <2>7 DEF Unwinds, Abandon, outVars, endVars, Cancelling, LeavesInv
  <2>. QED BY <1>3, <2>1, <2>2, <2>3, <2>4, <2>5, <2>6, <2>7 DEF ConnectTask
<1>4. CASE Closing
  BY <1>4 DEF Closing, CloserRuns, CloserCancels, CloserStops, SocketCloses, Forget, taskVars,
     outVars, LeavesInv
<1>5. CASE SocketDrops
  BY <1>5 DEF SocketDrops, SocketCloses, taskVars, endVars, LeavesInv
<1>6. CASE LoopStarts \/ RequestsShutdown \/ AsksToClose \/ Returns
  BY <1>6 DEF LoopStarts, RequestsShutdown, AsksToClose, Returns, outVars, taskVars, LeavesInv
<1>7. CASE \E f \in Frames : OnNext(f)
  BY <1>7 DEF OnNext, outVars, taskVars, endVars, LeavesInv
<1>8. CASE UNCHANGED vars
  BY <1>8 DEF vars, outVars, taskVars, endVars, LeavesInv
<1>. QED BY <1>1, <1>2, <1>3, <1>4, <1>5, <1>6, <1>7, <1>8 DEF Next

(* However the connect task ends, cancelled at any await or by itself, the *)
(* client holds neither its socket nor the reporter's link.                *)
THEOREM ClientLetsGo == Spec => []EndedReleases
<1>1. Init => LeavesInv
  BY DEF Init, LeavesInv
<1>2. LeavesInv => EndedReleases
  BY DEF LeavesInv, EndedReleases
<1>. QED BY <1>1, <1>2, CliInit, CliStep, LeavesStep, PTL DEF Spec
=============================================================================
