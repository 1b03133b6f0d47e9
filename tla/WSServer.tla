------------------------------ MODULE WSServer ------------------------------
(***************************************************************************)
(* The WebSocket server of rxplus/ws/server.py: a loop thread that serves  *)
(* each client with a handler, a sender and a receiver task, program       *)
(* threads that call on_next, send_to, close_connection and on_completed,  *)
(* and the task that closes everything.                                    *)
(*                                                                         *)
(* An action is the code a task runs from one await to the next.  What a   *)
(* program thread schedules with call_soon_threadsafe waits in calls, in   *)
(* order.  All clients share one path, and a frame is only counted: the    *)
(* order of frames is the queue's affair (Outbox).  The reporter stays in  *)
(* one session.                                                            *)
(***************************************************************************)
EXTENDS SendQueue

CONSTANTS
    Clients,      \* the connections that may be opened
    Nobody,       \* stands for no client
    Overflows,    \* the overflow policies to consider
    MaxValues     \* bound: values sent or refused, and connections closed

ASSUME WSServerAssumption ==
    /\ IsFiniteSet(Clients)
    /\ Nobody \notin Clients
    /\ Overflows \subseteq Policies
    /\ MaxValues \in Nat

Frame == 1
Live == [live |-> TRUE, T |-> 1]

VARIABLES
    loop,       \* the loop thread, see LoopStates
    serve,      \* the listening server: "binding", "up", "closed", "failed"
    closer,     \* the task _async_close, see CloserStates
    calls,      \* callbacks scheduled on the loop
    aim,        \* the call of send_to or close_connection under way
    asked,      \* shutdown was asked for
    clients,    \* the registered connections (_clients, WSChannels)
    handler,    \* per client: its handler task, see HandlerStates
    sender,     \* per client: "none", "get" (to run), "wait", "send", "ended"
    receiver,   \* per client: "none", "recv", "ended"
    cancelled,  \* the tasks with a cancellation on its way
    sock,       \* per client: "none", "open", "closing", "closed"
    q,          \* per client: its SendQueue
    event,      \* per client: the last event emitted, "none" before any
    offered, handed, acked,  \* counted against MaxValues; frames to send; sent
    dropped,    \* RxWSServer.dropped
    late        \* clients given a frame after their queue was discarded

taskVars == <<handler, sender, receiver, cancelled, sock>>
countVars == <<offered, handed, acked, dropped>>
threadVars == <<loop, serve, closer, calls, aim, asked>>
vars == <<threadVars, clients, taskVars, q, event, countVars, late>>

LoopStates == {"starting", "running", "stopping", "closed"}

(* "close": awaiting the server's close task; "wait": awaiting the tasks   *)
(* it cancelled.                                                           *)
CloserStates == {"none", "close", "wait", "done"}

(* "serving": in asyncio.wait; "joining": in the first gather; "unwinding":*)
(* in the finally's gather; "closing": in websocket.close(); "broken": the *)
(* cleanup itself was cancelled; "refused": never served.                  *)
HandlerStates ==
    {"none", "refused", "serving", "joining", "unwinding", "closing", "done", "broken"}

Tasks == {"handler", "sender", "receiver"} \X Clients

Init ==
    /\ loop = "starting" /\ serve = "binding" /\ closer = "none"
    /\ calls = <<>> /\ aim = <<"none", Nobody>> /\ asked = FALSE
    /\ clients = {} /\ cancelled = {} /\ late = {}
    /\ handler = [c \in Clients |-> "none"]
    /\ sender = [c \in Clients |-> "none"]
    /\ receiver = [c \in Clients |-> "none"]
    /\ sock = [c \in Clients |-> "none"]
    /\ q \in {[c \in Clients |-> EmptyQueue(o)] : o \in Overflows}
    /\ event = [c \in Clients |-> "none"]
    /\ offered = 0 /\ handed = 0 /\ acked = 0 /\ dropped = 0

Running == loop \in {"running", "stopping"}

-----------------------------------------------------------------------------
(* The program's threads.                                                  *)

(* on_next: the value may not encode, or the loop may not start in time.   *)
OnNext ==
    /\ offered < MaxValues
    /\ offered' = offered + 1
    /\ \/ /\ dropped' = dropped + 1
          /\ handed' = handed + 1
          /\ UNCHANGED calls
       \/ /\ Running
          /\ calls' = Append(calls, <<"all", Nobody>>)
          /\ UNCHANGED <<handed, dropped>>
       \/ /\ loop = "closed"
          /\ UNCHANGED <<calls, handed, dropped>>
    /\ UNCHANGED <<loop, serve, closer, aim, asked, clients, taskVars, q, event, acked, late>>

(* send_to and close_connection look the client up under the lock, then    *)
(* schedule a callback that knows the client, registered or not by then.   *)
LooksUp(kind) ==
    /\ aim[1] = "none"
    /\ Running
    /\ offered < MaxValues
    /\ offered' = offered + 1
    /\ \E c \in clients : aim' = <<kind, c>>
    /\ UNCHANGED <<loop, serve, closer, calls, asked, clients, taskVars, q, event,
                   handed, acked, dropped, late>>

Schedules ==
    /\ aim[1] # "none"
    /\ calls' = IF Running THEN Append(calls, aim) ELSE calls
    /\ aim' = <<"none", Nobody>>
    /\ UNCHANGED <<loop, serve, closer, asked, clients, taskVars, q, event, countVars, late>>

(* on_completed or on_error: with a loop, the closing task is scheduled.   *)
AsksToClose ==
    /\ ~asked
    /\ asked' = TRUE
    /\ calls' = IF Running THEN Append(calls, <<"stop", Nobody>>) ELSE calls
    /\ UNCHANGED <<loop, serve, closer, aim, clients, taskVars, q, event, countVars, late>>

-----------------------------------------------------------------------------
(* The loop thread: start, bind, and the scheduled callbacks.              *)

LoopStarts ==
    /\ loop = "starting"
    /\ loop' = "running"
    /\ UNCHANGED <<serve, closer, calls, aim, asked, clients, taskVars, q, event, countVars, late>>

Binds ==
    /\ Running
    /\ serve = "binding"
    /\ \/ serve' = "up" /\ UNCHANGED loop
       \/ serve' = "failed" /\ loop' = "stopping"
    /\ UNCHANGED <<closer, calls, aim, asked, clients, taskVars, q, event, countVars, late>>

LoopCloses ==
    /\ loop = "stopping"
    /\ loop' = "closed"
    /\ serve' = IF serve = "up" THEN "closed" ELSE serve
    /\ UNCHANGED <<closer, calls, aim, asked, clients, taskVars, q, event, countVars, late>>

(* _put: what becomes of one queue, and how many frames it counts dropped. *)
Offered(queue) ==
    IF queue.overflowed THEN queue ELSE Put(queue, Live, Frame, queue.overflow)

(* Fault: only what the queue itself dropped is counted.                   *)
UncountedLost(queue) == Offered(queue).dropped - queue.dropped

LostBy(queue) ==
    IF queue.overflowed \/ Refused(queue, Frame, queue.overflow) THEN 1
    ELSE Offered(queue).dropped - queue.dropped

PutAll(targets) ==
    /\ q' = [c \in Clients |-> IF c \in targets THEN Offered(q[c]) ELSE q[c]]
    /\ handed' = handed + Cardinality(targets)
    /\ dropped' = dropped + SumFunctionOnSet([c \in Clients |-> LostBy(q[c])], targets)

(* The queue of a client in one of these states was already discarded.     *)
Discarded(c) == handler[c] \in {"closing", "done", "broken"}

RunsAll ==
    /\ Head(calls)[1] = "all"
    /\ \/ clients # {} /\ PutAll(clients)
       \/ clients = {} /\ dropped' = dropped + 1 /\ handed' = handed + 1 /\ UNCHANGED q
    /\ UNCHANGED <<closer, serve, sock, late>>

RunsOne ==
    /\ Head(calls)[1] = "one"
    /\ PutAll({Head(calls)[2]})
    /\ late' = IF Discarded(Head(calls)[2]) THEN late \union {Head(calls)[2]} ELSE late
    /\ UNCHANGED <<closer, serve, sock>>

RunsClose ==
    /\ Head(calls)[1] = "close"
    /\ sock' = [sock EXCEPT ![Head(calls)[2]] = IF @ = "open" THEN "closing" ELSE @]
    /\ UNCHANGED <<closer, serve, q, handed, dropped, late>>

(* The closing task up to its first await.  A server that is up closes its *)
(* connections and waits for that; otherwise only the binding task, if it  *)
(* is still there, has to be cancelled.                                    *)
RunsStop ==
    /\ Head(calls)[1] = "stop"
    /\ closer' = IF serve = "up" THEN "close" ELSE "wait"
    /\ serve' = IF serve = "failed" THEN serve ELSE "closed"
    /\ sock' = IF serve = "up" THEN [c \in Clients |-> IF sock[c] = "open" THEN "closing"
                                                       ELSE sock[c]]
               ELSE sock
    /\ UNCHANGED <<q, handed, dropped, late>>

RunsCall ==
    /\ Running
    /\ calls # <<>>
    /\ calls' = Tail(calls)
    /\ RunsAll \/ RunsOne \/ RunsClose \/ RunsStop
    /\ UNCHANGED <<loop, aim, asked, clients, handler, sender, receiver, cancelled,
                   event, offered, acked>>

-----------------------------------------------------------------------------
(* A client's handler.                                                     *)

Alive(c) ==
    {t \in Tasks : t[2] = c /\ \/ t[1] = "sender" /\ sender[c] # "ended"
                               \/ t[1] = "receiver" /\ receiver[c] # "ended"}

TasksEnded(c) == sender[c] = "ended" /\ receiver[c] = "ended"

Cancelled(task, c) == <<task, c>> \in cancelled

Accepts(c) ==
    /\ Running
    /\ serve = "up"
    /\ handler[c] = "none"
    /\ handler' = [handler EXCEPT ![c] = "serving"]
    /\ sender' = [sender EXCEPT ![c] = "get"]
    /\ receiver' = [receiver EXCEPT ![c] = "recv"]
    /\ sock' = [sock EXCEPT ![c] = "open"]
    /\ q' = [q EXCEPT ![c] = Bind(@, Live, TRUE)]
    /\ clients' = clients \union {c}
    /\ event' = [event EXCEPT ![c] = "opened"]
    /\ UNCHANGED <<threadVars, cancelled, countVars, late>>

(* A request that is no WebSocket upgrade, or whose path has a datatype    *)
(* the server refuses, is answered and never registered.                   *)
Refuses(c) ==
    /\ Running
    /\ serve = "up"
    /\ handler[c] = "none"
    /\ handler' = [handler EXCEPT ![c] = "refused"]
    /\ UNCHANGED <<threadVars, clients, sender, receiver, cancelled, sock, q, event,
                   countVars, late>>

(* Fault: the handler waits for both its tasks.                            *)
JoinsBoth(c) ==
    /\ handler[c] = "serving"
    /\ ~Cancelled("handler", c)
    /\ sender[c] = "ended" /\ receiver[c] = "ended"
    /\ handler' = [handler EXCEPT ![c] = "joining"]
    /\ UNCHANGED <<cancelled, clients, q, sock, event, dropped>>

(* asyncio.wait returned: one task ended, the other is cancelled.          *)
Joins(c) ==
    /\ handler[c] = "serving"
    /\ ~Cancelled("handler", c)
    /\ sender[c] = "ended" \/ receiver[c] = "ended"
    /\ handler' = [handler EXCEPT ![c] = "joining"]
    /\ cancelled' = cancelled \union Alive(c)
    /\ UNCHANGED <<clients, q, sock, event, dropped>>

(* The start of the finally block: unregister first, cancel both tasks.    *)
(* A handler cancelled in a gather still waits for what it gathers.        *)
Unwinds(c) ==
    /\ \/ handler[c] = "serving" /\ Cancelled("handler", c)
       \/ handler[c] = "joining" /\ TasksEnded(c)
    /\ handler' = [handler EXCEPT ![c] = "unwinding"]
    /\ clients' = clients \ {c}
    /\ cancelled' = (cancelled \ {<<"handler", c>>}) \union Alive(c)
    /\ UNCHANGED <<q, sock, event, dropped>>

(* Fault: the queue is discarded without waiting for the cancelled tasks.  *)
DiscardsEarly(c) ==
    /\ handler[c] = "unwinding"
    /\ ~Cancelled("handler", c)
    /\ q' = [q EXCEPT ![c] = Bind(Reset(@, Live), Live, FALSE)]
    /\ dropped' = dropped + Len(q[c].frames)
    /\ sock' = [sock EXCEPT ![c] = IF @ = "open" THEN "closing" ELSE @]
    /\ handler' = [handler EXCEPT ![c] = "closing"]
    /\ UNCHANGED <<cancelled, clients, event>>

(* Both tasks ended: what is still queued is dropped, the link is let go   *)
(* of and the socket is being closed.                                      *)
Discards(c) ==
    /\ handler[c] = "unwinding"
    /\ TasksEnded(c)
    /\ ~Cancelled("handler", c)
    /\ q' = [q EXCEPT ![c] = Bind(Reset(@, Live), Live, FALSE)]
    /\ dropped' = dropped + Len(q[c].frames)
    /\ sock' = [sock EXCEPT ![c] = IF @ = "open" THEN "closing" ELSE @]
    /\ handler' = [handler EXCEPT ![c] = "closing"]
    /\ UNCHANGED <<cancelled, clients, event>>

(* The socket closed, or did not within its two seconds and is aborted.    *)
Finishes(c) ==
    /\ handler[c] = "closing"
    /\ ~Cancelled("handler", c)
    /\ sock' = [sock EXCEPT ![c] = "closed"]
    /\ handler' = [handler EXCEPT ![c] = "done"]
    /\ event' = [event EXCEPT ![c] = "closed"]
    /\ UNCHANGED <<cancelled, clients, q, dropped>>

(* A cancellation that arrives during the cleanup ends the handler there.  *)
Breaks(c) ==
    /\ Cancelled("handler", c)
    /\ \/ handler[c] = "unwinding" /\ TasksEnded(c)
       \/ handler[c] = "closing"
    /\ handler' = [handler EXCEPT ![c] = "broken"]
    /\ cancelled' = cancelled \ {<<"handler", c>>}
    /\ UNCHANGED <<clients, q, sock, event, dropped>>

HandlerRuns(c) ==
    /\ Running
    /\ Joins(c) \/ Unwinds(c) \/ Discards(c) \/ Finishes(c) \/ Breaks(c)
    /\ UNCHANGED <<threadVars, sender, receiver, offered, handed, acked, late>>

-----------------------------------------------------------------------------
(* A client's sender: from the queue r it runs to its next await.          *)

GetsFrame(c, r) ==
    \/ /\ CanTake(r)
       /\ q' = [q EXCEPT ![c] = Take(r)]
       /\ sender' = [sender EXCEPT ![c] = "send"]
    \/ /\ MustWait(r)
       /\ q' = [q EXCEPT ![c] = Wait(r)]
       /\ sender' = [sender EXCEPT ![c] = "wait"]
    \/ /\ r.overflowed
       /\ q' = [q EXCEPT ![c] = r]
       /\ sender' = [sender EXCEPT ![c] = "ended"]

Gets(c) ==
    /\ sender[c] = "get" \/ (sender[c] = "wait" /\ q[c].ready)
    /\ ~Cancelled("sender", c)
    /\ GetsFrame(c, q[c])
    /\ UNCHANGED <<cancelled, acked, dropped>>

FrameSent(c) ==
    /\ sender[c] = "send"
    /\ sock[c] # "closed"
    /\ ~Cancelled("sender", c)
    /\ acked' = acked + 1
    /\ GetsFrame(c, Sent(q[c], Live))
    /\ UNCHANGED <<cancelled, dropped>>

(* Fault: a frame that is lost leaves its link twice.                      *)
FrameLostTwice(c) ==
    /\ sender[c] = "send"
    /\ sock[c] # "open" \/ Cancelled("sender", c)
    /\ q' = [q EXCEPT ![c] = LostTaken(LostTaken(@, Live), Live)]
    /\ dropped' = dropped + 1
    /\ sender' = [sender EXCEPT ![c] = "ended"]
    /\ cancelled' = cancelled \ {<<"sender", c>>}
    /\ UNCHANGED acked

(* send() raised, or was cancelled: the frame in flight is lost.           *)
FrameLost(c) ==
    /\ sender[c] = "send"
    /\ sock[c] # "open" \/ Cancelled("sender", c)
    /\ q' = [q EXCEPT ![c] = LostTaken(@, Live)]
    /\ dropped' = dropped + 1
    /\ sender' = [sender EXCEPT ![c] = "ended"]
    /\ cancelled' = cancelled \ {<<"sender", c>>}
    /\ UNCHANGED acked

SenderStops(c) ==
    /\ sender[c] \in {"get", "wait"}
    /\ Cancelled("sender", c)
    /\ sender' = [sender EXCEPT ![c] = "ended"]
    /\ cancelled' = cancelled \ {<<"sender", c>>}
    /\ UNCHANGED <<q, acked, dropped>>

SenderRuns(c) ==
    /\ Running
    /\ Gets(c) \/ FrameSent(c) \/ FrameLost(c) \/ SenderStops(c)
    /\ UNCHANGED <<threadVars, clients, handler, receiver, sock, event, offered, handed, late>>

(* The receiver.  A message that is delivered changes nothing here; one    *)
(* that does not decode is counted, and so is each of the two streams      *)
(* whose subscriber raises.                                                *)
Receives(c) ==
    /\ Running
    /\ receiver[c] = "recv"
    /\ ~Cancelled("receiver", c)
    /\ sock[c] \in {"open", "closing"}
    /\ offered < MaxValues
    /\ offered' = offered + 1
    /\ \E n \in 1..2 : handed' = handed + n /\ dropped' = dropped + n
    /\ UNCHANGED <<threadVars, clients, taskVars, q, event, acked, late>>

ReceiverEnds(c) ==
    /\ Running
    /\ receiver[c] = "recv"
    /\ sock[c] = "closed" \/ Cancelled("receiver", c)
    /\ receiver' = [receiver EXCEPT ![c] = "ended"]
    /\ cancelled' = cancelled \ {<<"receiver", c>>}
    /\ UNCHANGED <<threadVars, clients, handler, sender, sock, q, event, countVars, late>>

-----------------------------------------------------------------------------
(* The network and the peers.                                              *)

SockCloses(c) ==
    /\ sock[c] = "closing"
    /\ sock' = [sock EXCEPT ![c] = "closed"]
    /\ UNCHANGED <<threadVars, clients, handler, sender, receiver, cancelled, q, event,
                   countVars, late>>

PeerDrops(c) ==
    /\ sock[c] = "open"
    /\ sock' = [sock EXCEPT ![c] = "closed"]
    /\ UNCHANGED <<threadVars, clients, handler, sender, receiver, cancelled, q, event,
                   countVars, late>>

-----------------------------------------------------------------------------
(* The closing task.                                                       *)

Unfinished ==
    {t \in Tasks :
        \/ t[1] = "handler" /\ handler[t[2]] \notin {"none", "refused", "done", "broken"}
        \/ t[1] = "sender" /\ sender[t[2]] \notin {"none", "ended"}
        \/ t[1] = "receiver" /\ receiver[t[2]] \notin {"none", "ended"}}

(* The close task ended, or two seconds passed: abort the sockets of the   *)
(* registered clients and cancel every task.                               *)
CloserCancels ==
    /\ Running
    /\ closer = "close"
    /\ sock' = [c \in Clients |-> IF c \in clients THEN "closed" ELSE sock[c]]
    /\ cancelled' = Unfinished
    /\ closer' = "wait"
    /\ UNCHANGED <<loop, serve, calls, aim, asked, clients, handler, sender, receiver,
                   q, event, countVars, late>>

(* The tasks ended, or a second passed.                                    *)
CloserStops ==
    /\ Running
    /\ closer = "wait"
    /\ loop' = "stopping"
    /\ closer' = "done"
    /\ UNCHANGED <<serve, calls, aim, asked, clients, taskVars, q, event, countVars, late>>

-----------------------------------------------------------------------------
(* What the loop thread runs, with the ends of the awaits it waits for.    *)
LoopThread ==
    \/ LoopStarts \/ Binds \/ LoopCloses \/ RunsCall \/ CloserCancels \/ CloserStops
    \/ \E c \in Clients :
           HandlerRuns(c) \/ SenderRuns(c) \/ ReceiverEnds(c) \/ SockCloses(c)

Next ==
    \/ OnNext \/ LooksUp("one") \/ LooksUp("close") \/ Schedules \/ AsksToClose
    \/ LoopThread
    \/ \E c \in Clients : Accepts(c) \/ Refuses(c) \/ Receives(c) \/ PeerDrops(c)

Spec == Init /\ [][Next]_vars

-----------------------------------------------------------------------------
(* What the server promises.                                               *)

(* Every variable keeps its type, and no link reports a negative backlog.  *)
ServerTypeOK ==
    /\ loop \in LoopStates /\ closer \in CloserStates
    /\ serve \in {"binding", "up", "closed", "failed"}
    /\ \A i \in DOMAIN calls : calls[i] \in {"all", "one", "close", "stop"} \X (Clients \union {Nobody})
    /\ aim \in {"none", "one", "close"} \X (Clients \union {Nobody})
    /\ clients \subseteq Clients /\ late \subseteq Clients
    /\ handler \in [Clients -> HandlerStates]
    /\ sender \in [Clients -> {"none", "get", "wait", "send", "ended"}]
    /\ receiver \in [Clients -> {"none", "recv", "ended"}]
    /\ cancelled \subseteq Tasks
    /\ sock \in [Clients -> {"none", "open", "closing", "closed"}]
    /\ event \in [Clients -> {"none", "opened", "closed"}]
    /\ {offered, handed, acked, dropped} \subseteq Nat
    /\ \A c \in Clients : q[c].backlog \in Nat

(* Every frame handed to a client's queue, and every value that reaches    *)
(* none, is sent, queued, in flight or counted in dropped, exactly once,   *)
(* whichever await a handler or a sender is cancelled at and whenever      *)
(* send_to reaches a connection that is going away.                        *)
InSend == Cardinality({c \in Clients : sender[c] = "send"})

FramesCounted ==
    handed = acked + dropped + InSend + SumFunction([c \in Clients |-> Len(q[c].frames)])

(* A connection announced as closed is over: its tasks ended, nothing can  *)
(* be sent to it by path, its socket is closed, and its queue, which no    *)
(* link reports, holds at most what send_to handed it after it was         *)
(* discarded.                                                              *)
ClosedIsFinal ==
    \A c \in Clients : event[c] = "closed" =>
        /\ TasksEnded(c)
        /\ c \notin clients
        /\ sock[c] = "closed"
        /\ ~q[c].bound
        /\ c \notin late => q[c].frames = <<>>

(* "Every dropped item is counted" (docs/websocket.md:176), also a frame    *)
(* send_to hands over too late.  It stays in the queue and is in no count: *)
(* MCWSServerLate.cfg shows a state that refutes this.                     *)
LateFramesCounted == \A c \in Clients : event[c] = "closed" => q[c].frames = <<>>

Closing == closer # "none" \/ \E i \in DOMAIN calls : calls[i][1] = "stop"

(* What a client's tasks could run next.                                   *)
HandlersTurn(c) ==
    \/ handler[c] = "serving" /\ \/ Cancelled("handler", c)
                                 \/ sender[c] = "ended" \/ receiver[c] = "ended"
    \/ handler[c] \in {"joining", "unwinding"} /\ TasksEnded(c)
    \/ handler[c] = "closing"

SendersTurn(c) ==
    \/ sender[c] \in {"get", "send"}
    \/ sender[c] = "wait" /\ (q[c].ready \/ Cancelled("sender", c))

ReceiversTurn(c) == receiver[c] = "recv" /\ (sock[c] = "closed" \/ Cancelled("receiver", c))

(* What the loop thread could run next: the guards of its actions.         *)
LoopsTurn ==
    \/ loop \in {"starting", "stopping"}
    \/ loop = "running" /\ \/ serve = "binding" \/ calls # <<>> \/ closer \in {"close", "wait"}
                           \/ \E c \in Clients :
                                  HandlersTurn(c) \/ SendersTurn(c) \/ ReceiversTurn(c)
    \/ \E c \in Clients : sock[c] = "closing"

(* Every connection that is over has come to its end, or the thread has.   *)
Settled ==
    \/ loop = "closed"
    \/ /\ ~Closing
       /\ \A c \in Clients : sock[c] = "closed" \/ (sender[c] # "none" /\ q[c].overflowed)
                                 => event[c] = "closed"

(* Nobody waits for ever.  When the loop thread has nothing left to run,   *)
(* every connection whose socket closed or whose queue overflowed has been *)
(* announced as closed, and a server asked to close once its loop existed  *)
(* has ended its thread, though it was still binding, its port was taken   *)
(* or a peer was stalled.                                                  *)
NothingStalls == (LoopsTurn => ENABLED LoopThread) /\ (LoopsTurn \/ Settled)
=============================================================================
