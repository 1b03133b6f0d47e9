----------------------------- MODULE SendQueue -----------------------------
(***************************************************************************)
(* The bounded per-connection send queue of rxplus/ws/_sendqueue.py.       *)
(*                                                                         *)
(* A queue is a record; each method of the class is an operator from the   *)
(* record (and the reporter's live state) to the record it leaves behind.  *)
(* All of them run on one loop thread, so a call is atomic.                *)
(*                                                                         *)
(* A frame is a natural number: its position in the order in which frames  *)
(* were handed to the queue.  An enter() token is the moment an item       *)
(* entered the link; nothing compares two moments of one session, so the   *)
(* token of an item is the start T of the session it entered in.           *)
(***************************************************************************)
EXTENDS Integers, Sequences, FiniteSets, FiniteSetsExt

CONSTANTS
    Limit,       \* send_queue: most frames queued, None for no bound
    LimitBytes,  \* send_queue_bytes: most bytes queued, None for no bound
    SizeOf(_)    \* bytes of a frame

None == 0        \* the constructor refuses a bound of 0, so 0 stands for None
NoToken == -1    \* the token of an item that entered while not live

ASSUME SendQueueAssumption ==
    /\ Limit \in Nat
    /\ LimitBytes \in Nat

Policies == {"drop_old", "drop_new", "disconnect"}

EmptyQueue(overflow) ==
    [overflow |-> overflow, frames |-> <<>>, tokens |-> <<>>, taken |-> NoToken,
     bytes |-> 0, dropped |-> 0, overflowed |-> FALSE, ready |-> FALSE,
     bound |-> FALSE, backlog |-> 0]

Bytes(s) ==
    LET sum[i \in 0..Len(s)] == IF i = 0 THEN 0 ELSE sum[i - 1] + SizeOf(s[i])
    IN  sum[Len(s)]

-----------------------------------------------------------------------------
(* Reporting.  st is the reporter's live state: st.live, st.T.  The link's *)
(* backlog counts the items that entered it in this session and have not   *)
(* left; it belongs to the reporter, and is kept here because only the     *)
(* queue's calls change it.                                                *)

Reports(q, st) == q.bound /\ st.live

EnterToken(q, st) == IF Reports(q, st) THEN st.T ELSE NoToken

Entered(q, st, n) == IF Reports(q, st) THEN [q EXCEPT !.backlog = @ + n] ELSE q

(* Link.leave and Link.leave_dropped: an item that entered before this     *)
(* session was never counted, so leaving does not uncount it.              *)
Left(q, st, tokens) ==
    IF Reports(q, st)
    THEN [q EXCEPT !.backlog =
            @ - Cardinality({i \in DOMAIN tokens : tokens[i] >= st.T})]
    ELSE q

Bind(q, st, bound) ==
    LET b == [q EXCEPT !.bound = bound, !.backlog = 0, !.taken = NoToken]
    IN  Entered([b EXCEPT !.tokens = [i \in DOMAIN q.frames |-> EnterToken(b, st)]],
                st, Len(q.frames))

(* Fault: a frame that is lost stays counted in the link's backlog.        *)
LostUncounted(q, st) == q

Sent(q, st) == Left(q, st, <<q.taken>>)

LostTaken(q, st) == Left(q, st, <<q.taken>>)

-----------------------------------------------------------------------------
(* Fault: a bound is noticed one frame late.                               *)
FullLate(q, size) ==
    \/ Limit # None /\ Len(q.frames) > Limit
    \/ LimitBytes # None /\ q.frames # <<>> /\ q.bytes > LimitBytes

Full(q, size) ==
    \/ Limit # None /\ Len(q.frames) >= Limit
    \/ LimitBytes # None /\ q.frames # <<>> /\ q.bytes + size > LimitBytes

Rest(s, n) == SubSeq(s, n + 1, Len(s))

Cut(s, n) == SubSeq(s, 1, n)

(* The loop of drop_old after n rounds: the n oldest frames are gone.  A   *)
(* round leaves the dropped frame's token in taken.                        *)
Evict(q, st, n) ==
    LET e == [q EXCEPT !.frames = Rest(@, n), !.tokens = Rest(@, n),
                       !.bytes = @ - Bytes(Cut(q.frames, n)),
                       !.dropped = @ + n,
                       !.taken = IF n = 0 THEN @ ELSE q.tokens[n]]
    IN  Left(e, st, Cut(q.tokens, n))

Rounds(q, st, size) ==
    Min({n \in 0..Len(q.frames) : ~Full(Evict(q, st, n), size)})

(* Fault: a frame is queued without setting the event.                     *)
PushedQuietly(q, st, f) ==
    Entered([q EXCEPT !.frames = Append(@, f), !.bytes = @ + SizeOf(f),
                      !.tokens = Append(@, EnterToken(q, st))], st, 1)

Pushed(q, st, f) ==
    Entered([q EXCEPT !.frames = Append(@, f), !.bytes = @ + SizeOf(f),
                      !.tokens = Append(@, EnterToken(q, st)), !.ready = TRUE],
            st, 1)

(* put(): the queue it leaves, and whether it returns False.               *)
Put(q, st, f, policy) ==
    CASE ~Full(q, SizeOf(f))    -> Pushed(q, st, f)
      [] Full(q, SizeOf(f)) /\ policy = "drop_new"   -> [q EXCEPT !.dropped = @ + 1]
      [] Full(q, SizeOf(f)) /\ policy = "disconnect" -> [q EXCEPT !.overflowed = TRUE, !.ready = TRUE]
      [] Full(q, SizeOf(f)) /\ policy = "drop_old"   ->
            Pushed(Evict(q, st, Rounds(q, st, SizeOf(f))), st, f)

Refused(q, f, policy) == policy = "disconnect" /\ Full(q, SizeOf(f))

(* One pass of get(): a frame is taken, or the event is cleared to wait.   *)
CanTake(q) == ~q.overflowed /\ q.frames # <<>>

Take(q) ==
    [q EXCEPT !.frames = Tail(@), !.tokens = Tail(@), !.taken = Head(q.tokens),
              !.bytes = @ - SizeOf(Head(q.frames))]

MustWait(q) == ~q.overflowed /\ q.frames = <<>>

Wait(q) == [q EXCEPT !.ready = FALSE]

(* Fault: the frame alone is given back, without its token and its size.   *)
UngetFrameOnly(q, f) == [q EXCEPT !.frames = <<f>> \o @, !.ready = TRUE]

(* Fault: the frame is given back at the wrong end.                        *)
UngetLast(q, f) ==
    [q EXCEPT !.frames = Append(@, f), !.tokens = Append(@, q.taken),
              !.bytes = @ + SizeOf(f), !.taken = NoToken, !.ready = TRUE]

Unget(q, f) ==
    [q EXCEPT !.frames = <<f>> \o @, !.tokens = <<q.taken>> \o @,
              !.bytes = @ + SizeOf(f), !.taken = NoToken, !.ready = TRUE]

(* reset() leaves the last token it reported in taken.                     *)
Reset(q, st) ==
    [Left(q, st, q.tokens) EXCEPT
        !.frames = <<>>, !.tokens = <<>>, !.bytes = 0, !.overflowed = FALSE,
        !.taken = IF q.tokens = <<>> THEN @ ELSE q.tokens[Len(q.tokens)]]
=============================================================================
