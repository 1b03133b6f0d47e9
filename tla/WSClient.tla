------------------------------ MODULE WSClient ------------------------------
(***************************************************************************)
(* RxWSClient (rxplus/ws/client.py): the outbound path of Outbox under the *)
(* connect task that opens, watches and reopens its connection, and under  *)
(* the shutdown that on_completed or on_error starts.                      *)
(*                                                                         *)
(* Two kinds of threads meet: the program's (OnNext and the caller's       *)
(* steps) and the client's loop thread (every step guarded by Loop).  The  *)
(* program reaches the loop with call_soon_threadsafe: inbox and closer    *)
(* hold what it has asked for.  A step of the client that moves frames is  *)
(* a step of Outbox.  The reporter's clock is left to Outbox: it touches   *)
(* only st and the backlog, which nothing here depends on.                 *)
(***************************************************************************)
EXTENDS Outbox

CONSTANTS
    MaxRetries,   \* RetryPolicy.max_retries, None for no limit
    Buffering,    \* the values of buffer_while_disconnected to consider
    MaxAttempts   \* bound: the attempt counter saturates here

ASSUME WSClientAssumption ==
    /\ MaxRetries \in Nat
    /\ Buffering \subseteq BOOLEAN
    /\ MaxAttempts \in Nat \ {0}
    /\ MaxRetries <= MaxAttempts

VARIABLES
    task,       \* connect_client: where it awaits, see TaskStates
    attempt,    \* its attempt counter
    failed,     \* the sender task raised while the connection was watched
    shutdown,   \* _shutdown_requested
    cstate,     \* the last state emitted on connection_state
    caller,     \* the thread in on_completed or on_error: "idle", "flagged",
                \* "joining" the loop thread, "done"
    closer,     \* the _async_close task
    loop,       \* the loop thread: "starting", "running", "stopped"
    buffering,  \* buffer_while_disconnected
    given,      \* the newest frame given to on_next
    discarded,  \* frames on_next dropped, and counted, while disconnected
    inbox       \* frames on their way to the loop thread

taskVars == <<task, attempt, failed, cstate>>
endVars == <<shutdown, caller, closer, loop>>
inVars == <<buffering, given, discarded, inbox>>
vars == <<outVars, taskVars, endVars, inVars>>

(* "running": watching sender and receiver; "joining": one ended, the      *)
(* other was cancelled; "closing": the final await of ws.close().          *)
TaskStates == {"new", "connecting", "running", "joining", "sleep", "closing", "ended"}

ConnectionStates == {"disconnected", "connecting", "connected", "reconnecting", "closed"}

Init ==
    /\ OutInit
    /\ task = "new" /\ attempt = 0 /\ failed = FALSE
    /\ cstate = "disconnected"
    /\ shutdown = FALSE /\ caller = "idle" /\ closer = "none" /\ loop = "starting"
    /\ buffering \in Buffering
    /\ given = NoFrame /\ discarded = 0 /\ inbox = <<>>

Loop == loop = "running"

(* _async_close cancels every task; what a task does next is to unwind.    *)
Cancelling == closer = "grace"

(* connection_state completes when the caller is done: later states are    *)
(* not emitted.                                                            *)
Emitted(s) == IF caller = "done" THEN cstate ELSE s

-----------------------------------------------------------------------------
(* The program's thread: on_next.  Between its test of _connected and the  *)
(* callback that queues the frame the connection may come or go.           *)

(* Fault: a value sent while disconnected is not counted.                  *)
OnNextUncounted(f) ==
    /\ ~shutdown
    /\ f > given /\ \A g \in Frames : g > given => f <= g
    /\ given' = f
    /\ \/ ~up /\ ~buffering /\ UNCHANGED inbox
       \/ (up \/ buffering) /\ loop # "starting" /\ inbox' = Append(inbox, f)
    /\ UNCHANGED <<outVars, taskVars, endVars, buffering, discarded>>

OnNext(f) ==
    /\ ~shutdown
    /\ f > given /\ \A g \in Frames : g > given => f <= g
    /\ given' = f
    /\ \/ ~up /\ ~buffering /\ discarded' = discarded + 1 /\ UNCHANGED inbox
       \/ (up \/ buffering) /\ loop # "starting" /\ inbox' = Append(inbox, f)
                            /\ UNCHANGED discarded
    /\ UNCHANGED <<outVars, taskVars, endVars, buffering>>

RunEnqueue ==
    /\ Loop
    /\ inbox # <<>>
    /\ Enqueue(Head(inbox))
    /\ inbox' = Tail(inbox)
    /\ UNCHANGED <<taskVars, endVars, buffering, given, discarded>>

-----------------------------------------------------------------------------
(* connect_client.                                                         *)

LoopStarts ==
    /\ loop = "starting"
    /\ loop' = "running"
    /\ UNCHANGED <<outVars, taskVars, inVars, shutdown, caller, closer>>

Exhausted(n) == MaxRetries # None /\ n >= MaxRetries

(* The top of the loop, when it goes on to connect.                        *)
TriesAgain(n) ==
    /\ ~shutdown /\ ~Exhausted(n)
    /\ attempt' = n
    /\ task' = "connecting"
    /\ cstate' = Emitted(IF n > 0 THEN "reconnecting" ELSE "connecting")
    /\ UNCHANGED <<shutdown, loop>>

(* The end of the finally block: a client that ends by itself stops its    *)
(* own loop, one that was asked to end leaves that to _async_close.        *)
Released ==
    /\ task' = "ended"
    /\ sock' = "none"
    /\ shutdown' = TRUE
    /\ loop' = IF shutdown THEN loop ELSE "stopped"

Finally ==
    \/ /\ sock = "open"
       /\ task' = "closing"
       /\ UNCHANGED <<sock, shutdown, loop>>
    \/ sock # "open" /\ Released

(* The top of the loop, when it leaves: asked to, or out of retries.       *)
Leaves(n, s) ==
    /\ shutdown \/ Exhausted(n)
    /\ attempt' = n
    /\ cstate' = Emitted(IF shutdown THEN s ELSE "disconnected")
    /\ Finally

(* The task starts, or its backoff delay is over.                          *)
WakesUp ==
    /\ Loop /\ ~Cancelling
    /\ task \in {"new", "sleep"}
    /\ \/ TriesAgain(attempt) /\ UNCHANGED outVars
       \/ Leaves(attempt, cstate) /\ Abandon
    /\ UNCHANGED <<failed, caller, closer, inVars>>

NextAttempt == IF attempt < MaxAttempts THEN attempt + 1 ELSE attempt

BacksOff ==
    /\ attempt' = NextAttempt
    /\ cstate' = Emitted("disconnected")
    /\ task' = "sleep"

(* Fault: a failed connect is not counted as an attempt.                   *)
ConnectFailsFree ==
    /\ Loop /\ ~Cancelling
    /\ task = "connecting"
    /\ task' = "sleep"
    /\ cstate' = Emitted("disconnected")
    /\ UNCHANGED <<outVars, attempt, failed, endVars, inVars>>

(* A timeout, an OSError or an invalid handshake.                          *)
ConnectFails ==
    /\ Loop /\ ~Cancelling
    /\ task = "connecting"
    /\ BacksOff
    /\ UNCHANGED <<outVars, failed, endVars, inVars>>

(* An invalid URI is not retried.                                          *)
ConnectRejected ==
    /\ Loop /\ ~Cancelling
    /\ task = "connecting"
    /\ cstate' = Emitted("disconnected")
    /\ Finally
    /\ Abandon
    /\ UNCHANGED <<attempt, failed, caller, closer, inVars>>

Connects ==
    /\ Loop /\ ~Cancelling
    /\ task = "connecting"
    /\ Attach
    /\ task' = "running"
    /\ failed' = FALSE
    /\ cstate' = Emitted("connected")
    /\ UNCHANGED <<attempt, endVars, inVars>>

(* asyncio.wait returns: the sender ended, or the receiver did because the *)
(* socket closed.  What is left of the two is cancelled.                   *)
ConnectionEnds ==
    /\ Loop /\ ~Cancelling
    /\ task = "running"
    /\ sender = "ended" \/ sock # "open"
    /\ task' = "joining"
    /\ UNCHANGED <<outVars, attempt, failed, cstate, endVars, inVars>>

(* A connection that ended reopens at once if it stayed up for             *)
(* stable_after seconds, and counts as a failed attempt if it did not.     *)
(* What the sender raised, task.result() raises: it ends the client.       *)
AfterStable == (TriesAgain(1) /\ UNCHANGED sock) \/ Leaves(1, "disconnected")

AfterShort == BacksOff /\ UNCHANGED <<shutdown, loop, sock>>

AfterFailure == cstate' = Emitted("disconnected") /\ Finally /\ UNCHANGED attempt

AfterConnection ==
    \/ ~failed /\ (AfterStable \/ AfterShort)
    \/ failed /\ AfterFailure

(* Fault: the cancelled task is not awaited.                               *)
JoinsEarly ==
    /\ Loop /\ ~Cancelling
    /\ task = "joining"
    /\ AfterConnection
    /\ up' = FALSE
    /\ q' = Bind(q, st, FALSE)
    /\ sender' = "none"
    /\ UNCHANGED <<st, held, last, accepted, acked, counted, delivered>>
    /\ UNCHANGED <<failed, caller, closer, inVars>>

Joins ==
    /\ Loop /\ ~Cancelling
    /\ task = "joining"
    /\ AfterConnection
    /\ Detach
    /\ UNCHANGED <<failed, caller, closer, inVars>>

(* The final ws.close() returned.                                          *)
Closes ==
    /\ Loop /\ ~Cancelling
    /\ task = "closing"
    /\ Released
    /\ Forget
    /\ UNCHANGED <<attempt, failed, cstate, caller, closer, inVars>>

(* Fault: a cancelled task does not unbind the queue.                      *)
UnwindsReporting ==
    /\ Loop /\ Cancelling
    /\ task \notin {"new", "ended"}
    /\ task' = "ended"
    /\ UNCHANGED <<outVars, attempt, failed, cstate, endVars, inVars>>

(* The task was cancelled: it only runs its finally block, or leaves it.   *)
Unwinds ==
    /\ Loop /\ Cancelling
    /\ task \notin {"new", "ended"}
    /\ task' = "ended"
    /\ \/ task # "closing" /\ sock' = "none" /\ Abandon
       \/ task = "closing" /\ UNCHANGED outVars
    /\ UNCHANGED <<attempt, failed, cstate, endVars, inVars>>

-----------------------------------------------------------------------------
(* The sender task and the socket.                                         *)

SenderCancelled == task = "joining" \/ Cancelling

SenderWorks ==
    /\ Loop
    /\ ~SenderCancelled
    /\ Greeted \/ Woken \/ FrameSent
    /\ UNCHANGED <<taskVars, endVars, inVars>>

SenderEnds ==
    /\ Loop
    /\ \/ FrameLost /\ (SenderCancelled \/ sock # "open")
       \/ SenderStops /\ (SenderCancelled \/ (sender = "greet" /\ sock # "open"))
    /\ UNCHANGED <<taskVars, endVars, inVars>>

(* The program's greeting function raised.                                 *)
GreetingRaises ==
    /\ Loop
    /\ task = "running" /\ ~Cancelling
    /\ sender = "greet"
    /\ SenderStops
    /\ failed' = TRUE
    /\ UNCHANGED <<task, attempt, cstate, endVars, inVars>>

(* The peer, the network, a ping timeout or the close() that an overflow   *)
(* starts.                                                                 *)
SocketDrops ==
    /\ Loop
    /\ SocketCloses
    /\ UNCHANGED <<taskVars, endVars, inVars>>

-----------------------------------------------------------------------------
(* Shutdown: on_completed and on_error in the caller's thread, and the     *)
(* _async_close task they start in the loop.                               *)

RequestsShutdown ==
    /\ caller = "idle"
    /\ caller' = "flagged"
    /\ shutdown' = TRUE
    /\ UNCHANGED <<outVars, taskVars, closer, loop, inVars>>

(* Fault: a client that is not connected is not closed.                    *)
AsksIfConnected ==
    /\ caller = "flagged"
    /\ caller' = "joining"
    /\ cstate' = Emitted("closed")
    /\ closer' = IF Loop /\ up THEN "asked" ELSE closer
    /\ UNCHANGED <<outVars, task, attempt, failed, shutdown, loop, inVars>>

(* A loop that has not started yet cannot be asked.                        *)
AsksToClose ==
    /\ caller = "flagged"
    /\ caller' = "joining"
    /\ cstate' = Emitted("closed")
    /\ closer' = IF Loop THEN "asked" ELSE closer
    /\ UNCHANGED <<outVars, task, attempt, failed, shutdown, loop, inVars>>

(* join(timeout=3.0) returns, the thread having ended or not.              *)
Returns ==
    /\ caller = "joining"
    /\ caller' = "done"
    /\ UNCHANGED <<outVars, taskVars, shutdown, closer, loop, inVars>>

(* _async_close runs after the connect task's first step.  It awaits the   *)
(* close of an open socket for at most a second; then it cancels.          *)
CloserRuns ==
    /\ Loop
    /\ closer = "asked" /\ task # "new"
    /\ \/ sock = "open" /\ SocketCloses /\ closer' = "closing"
       \/ sock # "open" /\ Forget /\ closer' = "grace"
    /\ UNCHANGED <<taskVars, shutdown, caller, loop, inVars>>

CloserCancels ==
    /\ Loop
    /\ closer = "closing"
    /\ Forget
    /\ closer' = "grace"
    /\ UNCHANGED <<taskVars, shutdown, caller, loop, inVars>>

CloserStops ==
    /\ Loop
    /\ closer = "grace"
    /\ closer' = "done"
    /\ loop' = "stopped"
    /\ UNCHANGED <<outVars, taskVars, shutdown, caller, inVars>>

-----------------------------------------------------------------------------
ConnectTask ==
    \/ WakesUp \/ ConnectFails \/ ConnectRejected \/ Connects
    \/ ConnectionEnds \/ Joins \/ Closes \/ Unwinds

Closing == CloserRuns \/ CloserCancels \/ CloserStops

Sender == SenderWorks \/ SenderEnds \/ GreetingRaises

Next ==
    \/ \E f \in Frames : OnNext(f)
    \/ RunEnqueue \/ LoopStarts \/ ConnectTask \/ Sender \/ SocketDrops
    \/ RequestsShutdown \/ AsksToClose \/ Returns \/ Closing

(* The loop keeps running what is ready, every await of the connect task   *)
(* and of _async_close ends (connecting and closing have timeouts), and a  *)
(* send() ends or the keepalive closes the socket; an idle socket may stay *)
(* open.  Nothing is assumed of the program or of the peer.                *)
Fairness ==
    /\ WF_vars(LoopStarts) /\ WF_vars(RunEnqueue)
    /\ WF_vars(ConnectTask) /\ WF_vars(Closing)
    /\ WF_vars(SenderWorks \/ SenderEnds \/ (sender \in {"greet", "send"} /\ SocketDrops))
    /\ WF_vars(AsksToClose)

Spec == Init /\ [][Next]_vars /\ Fairness

-----------------------------------------------------------------------------
(* What a client promises.                                                 *)

(* Every variable keeps its type; a delay is asked for an attempt that was *)
(* made, RetryPolicy.get_delay counting attempts from 0.                   *)
CliTypeOK ==
    /\ OutTypeOK
    /\ task \in TaskStates /\ attempt \in 0..MaxAttempts
    /\ task = "sleep" => attempt > 0
    /\ failed \in BOOLEAN /\ shutdown \in BOOLEAN
    /\ cstate \in ConnectionStates
    /\ caller \in {"idle", "flagged", "joining", "done"}
    /\ closer \in {"none", "asked", "closing", "grace", "done"}
    /\ loop \in {"starting", "running", "stopped"}
    /\ buffering \in BOOLEAN
    /\ given \in Frames \union {NoFrame} /\ discarded \in Nat /\ inbox \in Seq(Frames)

(* From on_next to the peer, through the loop's callbacks, the queue and   *)
(* the sender, across reconnections: frames keep their order, none twice.  *)
OrderKept == Increasing(delivered \o Holding \o q.frames \o inbox)

(* Every frame given to a client that was not shut down is sent, counted   *)
(* in dropped, or still on its way.                                        *)
EveryFrame ==
    Cardinality({f \in Frames : f <= given}) =
        discarded + Len(inbox) + acked + counted + Len(q.frames) + InFlight

(* A connect task that ended, however it ended, has let go of its socket   *)
(* and of the reporter's link.                                             *)
EndedReleases == task = "ended" => sock = "none" /\ ~q.bound

(* on_completed or on_error, called while the loop runs, ends it.          *)
ShutdownStops == (caller = "flagged" /\ Loop) ~> (loop = "stopped")

(* A connection that ended is followed by another attempt, or by the end   *)
(* of the client.                                                          *)
Reconnects == (task = "joining") ~> (task \in {"connecting", "ended"} \/ loop = "stopped")

(* On a connection that stays up the queue is sent.                        *)
Drains == <>[](task = "running" /\ sock = "open" /\ Loop) => []<>(q.frames = <<>>)

-----------------------------------------------------------------------------
(* What comments and documents say, and the code does not do.              *)

(* "CLOSED: terminal state after on_completed".                            *)
ClosedTerminal == [][cstate = "closed" => cstate' = "closed"]_vars

(* "A connection that stays open ... resets the backoff, and the client    *)
(* reconnects at once when it drops."                                      *)
StableReconnects ==
    [][Joins /\ AfterStable /\ ~shutdown /\ ~failed => task' = "connecting"]_vars

(* "While offline a full buffer always drops its oldest frame": between    *)
(* two attempts the newest frame stays.                                    *)
OfflineKeepsNewest ==
    [][RunEnqueue /\ task = "sleep" =>
        q'.frames # <<>> /\ q'.frames[Len(q'.frames)] = last']_vars

(* "Shutdown the client, stop the event loop, and join the thread."        *)
ShutdownAlwaysStops == (caller = "flagged") ~> (loop = "stopped")
=============================================================================
