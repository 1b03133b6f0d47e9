------------------------------- MODULE Outbox -------------------------------
(***************************************************************************)
(* The outbound path of one RxWSClient: its send queue, the sender task of *)
(* the current socket, and the reporter session that runs beside them      *)
(* (rxplus/ws/client.py, rxplus/ws/_sendqueue.py).                         *)
(*                                                                         *)
(* Everything here runs on the client's loop thread except SessionStarts   *)
(* and SessionEnds (the reporter's clock thread), so an action is the code *)
(* a task or a callback runs from one await to the next.  WSClient adds    *)
(* the connection's life cycle; here the socket may open and close at any  *)
(* moment.                                                                 *)
(***************************************************************************)
EXTENDS SendQueue

CONSTANTS
    Frames,       \* the frames a program may send, in order
    Overflows,    \* the overflow policies to consider
    MaxSessions   \* bound: reporter sessions

ASSUME OutboxAssumption ==
    /\ Frames \subseteq Nat \ {0}
    /\ \A f \in Frames : SizeOf(f) \in Nat
    /\ Overflows \subseteq Policies
    /\ MaxSessions \in Nat

NoFrame == 0

VARIABLES
    q,          \* the SendQueue
    st,         \* the reporter's live state: live, T (start of its session)
    up,         \* RxWSClient._connected
    sock,       \* RxWSClient.ws: "none", "open" (State.OPEN) or "closed"
    sender,     \* the sender task: where it awaits, see SenderStates
    held,       \* the frame and token between get() and the end of send()
    last,       \* the newest frame handed to _enqueue
    accepted,   \* how many frames were handed to _enqueue
    acked,      \* how many send() calls returned
    counted,    \* the frames counted in RxWSClient.dropped
    delivered   \* the frames the peer received, in order

outVars == <<q, st, up, sock, sender, held, last, accepted, acked, counted, delivered>>

(* "greet": created, or in send() of the greeting; "wait": in get();       *)
(* "send": in send() of the held frame.                                    *)
SenderStates == {"none", "greet", "wait", "send", "ended"}

NotHeld == [frame |-> NoFrame, token |-> NoToken]

OutInit ==
    /\ q \in {EmptyQueue(overflow) : overflow \in Overflows}
    /\ st = [live |-> FALSE, T |-> 0]
    /\ up = FALSE
    /\ sock = "none"
    /\ sender = "none"
    /\ held = NotHeld
    /\ last = NoFrame
    /\ accepted = 0 /\ acked = 0 /\ counted = 0
    /\ delivered = <<>>

-----------------------------------------------------------------------------
(* _enqueue: after an overflow the frame is lost; offline the buffer drops *)
(* its oldest frame; otherwise the queue's policy decides.                 *)
Offline == sock = "none" \/ ~up

PolicyNow == IF Offline THEN "drop_old" ELSE q.overflow

Enqueue(f) ==
    /\ f > last
    /\ last' = f
    /\ accepted' = accepted + 1
    /\ \/ /\ q.overflowed
          /\ counted' = counted + 1
          /\ UNCHANGED q
       \/ /\ ~q.overflowed
          /\ q' = Put(q, st, f, PolicyNow)
          /\ counted' = counted + (IF Refused(q, f, PolicyNow) THEN 1
                                   ELSE q'.dropped - q.dropped)
    /\ UNCHANGED <<st, up, sock, sender, held, acked, delivered>>

(* A connect that succeeded: a queue left overflowed by the previous       *)
(* connection starts clean, the socket reports, its sender task starts.    *)
Attach ==
    /\ sender = "none"
    /\ sock' = "open"
    /\ up' = TRUE
    /\ sender' = "greet"
    /\ LET q0 == IF q.overflowed THEN Reset(q, st) ELSE q
       IN  q' = Bind(q0, st, TRUE)
    /\ counted' = counted + (IF q.overflowed THEN Len(q.frames) ELSE 0)
    /\ UNCHANGED <<st, held, last, accepted, acked, delivered>>

(* Both tasks of the connection ended: offline until the next Attach.  A   *)
(* client that also ends here lets go of its socket in the same step.      *)
Detach ==
    /\ sender = "ended"
    /\ up' = FALSE
    /\ q' = Bind(q, st, FALSE)
    /\ sender' = "none"
    /\ sock' \in {sock, "none"}
    /\ UNCHANGED <<st, held, last, accepted, acked, counted, delivered>>

(* The end of connect_client, which may come before a cancelled sender has *)
(* run: the frames that stay queued are no longer reported.                *)
Abandon ==
    /\ q' = Bind(q, st, FALSE)
    /\ sock' \in {sock, "none"}
    /\ UNCHANGED <<st, up, sender, held, last, accepted, acked, counted, delivered>>

SocketCloses ==
    /\ sock = "open"
    /\ sock' = "closed"
    /\ UNCHANGED <<q, st, up, sender, held, last, accepted, acked, counted, delivered>>

(* The client lets go of its socket.                                       *)
Forget ==
    /\ sock' = "none"
    /\ UNCHANGED <<q, st, up, sender, held, last, accepted, acked, counted, delivered>>

-----------------------------------------------------------------------------
(* The sender task.  From the queue q0 it runs through get() to its next   *)
(* await: it sends the first frame; or gives it back, the socket having    *)
(* closed before it was handed over; or waits; or, after an overflow,      *)
(* discards the queue and ends, which ends the connection.                 *)
SendFirst(q0) ==
    /\ CanTake(q0)
    /\ sock = "open"
    /\ q' = Take(q0)
    /\ held' = [frame |-> Head(q0.frames), token |-> Head(q0.tokens)]
    /\ sender' = "send"
    /\ UNCHANGED counted

KeepFirst(q0) ==
    /\ CanTake(q0)
    /\ sock # "open"
    /\ q' = Unget(Take(q0), Head(q0.frames))
    /\ held' = NotHeld
    /\ sender' = "ended"
    /\ UNCHANGED counted

WaitForFrame(q0) ==
    /\ MustWait(q0)
    /\ q' = Wait(q0)
    /\ held' = NotHeld
    /\ sender' = "wait"
    /\ UNCHANGED counted

StopOnOverflow(q0) ==
    /\ q0.overflowed
    /\ q' = Reset(q0, st)
    /\ counted' = counted + Len(q0.frames)
    /\ held' = NotHeld
    /\ sender' = "ended"

GetFrame(q0) ==
    SendFirst(q0) \/ KeepFirst(q0) \/ WaitForFrame(q0) \/ StopOnOverflow(q0)

(* There is no greeting, or it was sent.                                   *)
Greeted ==
    /\ sender = "greet"
    /\ GetFrame(q)
    /\ UNCHANGED <<st, up, sock, last, accepted, acked, delivered>>

Woken ==
    /\ sender = "wait"
    /\ q.ready
    /\ GetFrame(q)
    /\ UNCHANGED <<st, up, sock, last, accepted, acked, delivered>>

FrameSent ==
    /\ sender = "send"
    /\ acked' = acked + 1
    /\ delivered' = Append(delivered, held.frame)
    /\ GetFrame(Sent(q, st))
    /\ UNCHANGED <<st, up, sock, last, accepted>>

(* Fault: a frame lost in send() is not counted.                           *)
FrameLostSilently ==
    /\ sender = "send"
    /\ q' = LostTaken(q, st)
    /\ delivered' \in {delivered, Append(delivered, held.frame)}
    /\ held' = NotHeld
    /\ sender' = "ended"
    /\ UNCHANGED <<st, up, sock, last, accepted, acked, counted>>

(* Fault: a frame whose send() failed is queued again.                     *)
FrameRetried ==
    /\ sender = "send"
    /\ q' = Unget(q, held.frame)
    /\ delivered' \in {delivered, Append(delivered, held.frame)}
    /\ held' = NotHeld
    /\ sender' = "ended"
    /\ UNCHANGED <<st, up, sock, last, accepted, acked, counted>>

(* send() raised, or the task was cancelled inside it: the frame may have  *)
(* been written already, so it is lost and never sent again.               *)
FrameLost ==
    /\ sender = "send"
    /\ q' = LostTaken(q, st)
    /\ counted' = counted + 1
    /\ delivered' \in {delivered, Append(delivered, held.frame)}
    /\ held' = NotHeld
    /\ sender' = "ended"
    /\ UNCHANGED <<st, up, sock, last, accepted, acked>>

(* Fault: a sender that waits for a frame cannot be cancelled.             *)
SenderIgnoresCancel ==
    /\ sender = "greet"
    /\ sender' = "ended"
    /\ UNCHANGED <<q, st, up, sock, held, last, accepted, acked, counted, delivered>>

(* The greeting failed, or the task was cancelled while it held no frame.  *)
SenderStops ==
    /\ sender \in {"greet", "wait"}
    /\ sender' = "ended"
    /\ UNCHANGED <<q, st, up, sock, held, last, accepted, acked, counted, delivered>>

-----------------------------------------------------------------------------
(* The reporter's clock thread begins and ends sessions: the links of a    *)
(* session count from zero.                                                *)

SessionStarts ==
    /\ ~st.live
    /\ st.T < MaxSessions
    /\ st' = [live |-> TRUE, T |-> st.T + 1]
    /\ q' = [q EXCEPT !.backlog = 0]
    /\ UNCHANGED <<up, sock, sender, held, last, accepted, acked, counted, delivered>>

SessionEnds ==
    /\ st.live
    /\ st' = [st EXCEPT !.live = FALSE]
    /\ UNCHANGED <<q, up, sock, sender, held, last, accepted, acked, counted, delivered>>

OutNext ==
    \/ \E f \in Frames : Enqueue(f)
    \/ Attach \/ Detach \/ Abandon \/ SocketCloses \/ Forget
    \/ Greeted \/ Woken \/ FrameSent \/ FrameLost \/ SenderStops
    \/ SessionStarts \/ SessionEnds

OutSpec == OutInit /\ [][OutNext]_outVars

-----------------------------------------------------------------------------
(* What the outbound path promises.                                        *)

(* Every variable keeps its type.  BytesExact and BacklogExact say what    *)
(* the byte count and the backlog are.                                     *)
QueueOK(r) ==
    r \in [overflow : Overflows, frames : Seq(Frames), tokens : Seq(Int),
           taken : Int, bytes : {r.bytes}, dropped : Nat, overflowed : BOOLEAN,
           ready : BOOLEAN, bound : BOOLEAN, backlog : {r.backlog}]

OutTypeOK ==
    /\ QueueOK(q)
    /\ st \in [live : BOOLEAN, T : Nat]
    /\ up \in BOOLEAN
    /\ sock \in {"none", "open", "closed"}
    /\ sender \in SenderStates
    /\ held \in [frame : Frames \union {NoFrame}, token : Int]
    /\ last \in Frames \union {NoFrame}
    /\ accepted \in Nat /\ acked \in Nat /\ counted \in Nat
    /\ delivered \in Seq(Frames)

(* _tokens is "always kept aligned with the frames".                       *)
Aligned == Len(q.tokens) = Len(q.frames)

(* _bytes, which the bytes bound compares, is the size of what is queued.  *)
BytesExact == q.bytes = Bytes(q.frames)

(* The frames bound holds at every await: unget() may leave one frame over *)
(* it in general, but the sender gives a frame back in the step that took  *)
(* it, before another put() can fill the place.                            *)
FramesBound == Limit # None => Len(q.frames) <= Limit

(* So does the bytes bound, unless a single frame exceeds it on its own.   *)
BytesBound == LimitBytes # None => Bytes(q.frames) <= LimitBytes \/ Len(q.frames) = 1

(* Across reconnections, give-backs and drops, the peer receives frames in *)
(* the order they were sent and none of them twice: what was delivered,    *)
(* what the sender holds and what is queued are one increasing sequence.   *)
Holding == IF sender = "send" THEN <<held.frame>> ELSE <<>>

Increasing(s) == \A i, j \in 1..Len(s) : i < j => s[i] < s[j]

Before(s, t) == \A i \in 1..Len(s), j \in 1..Len(t) : s[i] < t[j]

Ordered(sent, taken, waiting, newest) ==
    /\ Increasing(sent) /\ Increasing(waiting)
    /\ Before(sent, taken) /\ Before(sent, waiting) /\ Before(taken, waiting)
    /\ \A s \in {sent, taken, waiting} : \A i \in 1..Len(s) : s[i] <= newest

InOrder == Ordered(delivered, Holding, q.frames, last)

(* How many frames the sender holds.                                       *)
InFlight == IF sender = "send" THEN 1 ELSE 0

(* Every frame handed to the client is sent, counted in dropped, queued or *)
(* held by the sender: "every dropped item is counted".                    *)
Accounted == accepted = acked + counted + Len(q.frames) + InFlight

(* No lost wake-up: a sender that waits without its event set has nothing  *)
(* to do, neither a frame to send nor an overflow to report.               *)
NoLostWakeup == sender = "wait" /\ ~q.ready => MustWait(q)

(* The backlog the link reports is the number of frames queued or held     *)
(* that entered it in this session.  A put() that drops the oldest frame   *)
(* may replace the token the sender relies on (see TakenToken): drop_old   *)
(* is excluded, and so is a client that let go of its socket, which drops  *)
(* the oldest frame whatever its policy.                                   *)
BacklogExact ==
    Reports(q, st) /\ q.overflow # "drop_old" /\ sock # "none" =>
        q.backlog =
            Cardinality({i \in DOMAIN q.tokens : q.tokens[i] >= st.T})
            + (IF sender = "send" /\ held.token >= st.T THEN 1 ELSE 0)

(* The comment on _taken: "the token of the frame taken by get()".         *)
TakenToken == sender = "send" /\ Reports(q, st) => q.taken = held.token
=============================================================================
